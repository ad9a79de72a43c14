----------------------------- MODULE GsHistory ------------------------------
(***************************************************************************)
(* What undo promises (core/gs_edit.h): the track there is now, those there*)
(* were before each thing a person did to it, and those undone and not yet *)
(* written over.  Taking a thing back is going back to the very track that *)
(* was there before it.                                                    *)
(***************************************************************************)
EXTENDS Integers, Sequences

VARIABLES
    present,    \* the track
    past,       \* those before it, the latest last
    future,     \* those undone, the next to come back first
    joining     \* a transaction is open: an edit may be part of the one before

historyVars == <<present, past, future, joining>>

HistoryInit == past = <<>> /\ future = <<>> /\ joining = FALSE

\* An edit is a step of its own, or one more of a transaction that is open.
\* Either way what was undone is gone.  It may leave the track as it was, as a road
\* does that is laid over itself.
HistoryEdit ==
    /\ future' = <<>> /\ joining' \in BOOLEAN
    /\ \/ past' = Append(past, present)
       \/ joining /\ past # <<>> /\ past' = past

HistoryUndo ==
    /\ past # <<>>
    /\ present' = past[Len(past)]
    /\ past' = SubSeq(past, 1, Len(past) - 1)
    /\ future' = <<present>> \o future
    /\ joining' \in BOOLEAN

HistoryRedo ==
    /\ future # <<>>
    /\ present' = Head(future)
    /\ past' = Append(past, present)
    /\ future' = Tail(future)
    /\ joining' \in BOOLEAN

HistoryOpens == joining' \in BOOLEAN /\ UNCHANGED <<present, past, future>>

\* Another track altogether: it has no past here.
HistoryBegins == past' = <<>> /\ future' = <<>> /\ joining' = FALSE

HistoryNext ==
    \/ HistoryEdit \/ HistoryUndo \/ HistoryRedo \/ HistoryOpens \/ HistoryBegins

HistorySpec == HistoryInit /\ [][HistoryNext]_historyVars
=============================================================================
