------------------------------ MODULE GsEditor ------------------------------
(***************************************************************************)
(* The editor (ui/gs_editor.c): strokes of the mouse and of the pad, parts *)
(* and gates put down, the palette's buttons, paste, save and load; and    *)
(* what else of the game changes the track being edited, which is the one  *)
(* that is raced (frontend/game/main.c).                                   *)
(*                                                                         *)
(* A frame is the pad's part (its presses, then its button) and after it   *)
(* the mouse's: each is a step.  Which square, gate or part is under the   *)
(* pointer is any of them.  Cameras, the ghost car, the dials and the      *)
(* analysis change nothing here and are left out.                          *)
(*                                                                         *)
(* The log (core/gs_edit.c): every change to the track is put in it with   *)
(* what it takes to take it back, changes made between begin and end go    *)
(* back together, and what was undone can come back until something else   *)
(* is done.  A desk is a track, its log, and whether what was asked last   *)
(* was done.  The three kinds of ground (corner, surface, gravity) are     *)
(* one: a square, and what is stored there.  A change off the board does   *)
(* nothing and is left out.                                                *)
(***************************************************************************)
EXTENDS GsTrack, SequencesExt

CONSTANTS Square, Stored,   \* a corner or a tile's surface or gravity; what it may be
          Gate,         \* gates as they are put down: <<where, FALSE>>
          Capacity,     \* how many changes the log holds
          MaxEvery,     \* the editor's dial goes from 1 to 8
          MaxGroup,     \* bound: transactions
          Road,         \* what a road piece writes, in order: <<square, stored>>
          Elsewhere     \* tracks that come from a library, a server or a clipboard

\* Where gates stand, and what a track may be.
Where == {g[1] : g \in Gate} \cup UNION {{t.gate[i][1] : i \in DOMAIN t.gate} : t \in Elsewhere}
Post == Where \X BOOLEAN
Track == [ground : [Square -> Stored], gate : {s \in Seq(Post) : Len(s) <= MaxGates},
          route : {"sprint", "circuit"}, every : Nat \ {0}, cut : SUBSET (0 .. MaxGates - 1)]

ASSUME EditAssumption ==
    /\ MaxGates \in Nat /\ Capacity \in Nat /\ MaxEvery \in Nat /\ MaxGroup \in Nat
    /\ IsFiniteSet(Square) /\ Road \in Seq(Square \X Stored)
    /\ Gate \subseteq Where \X {FALSE} /\ Elsewhere \subseteq Track

-----------------------------------------------------------------------------
(* The log *)

\* gs_edit_log_init, gs_edit_reset: `op[1 .. cursor]` are on the track, the rest are
\* to be redone.
EmptyLog == [op |-> <<>>, cursor |-> 0, group |-> 0, open |-> FALSE]

Begin(l) == IF l.open THEN l ELSE [l EXCEPT !.open = TRUE, !.group = @ + 1]
End(l) == [l EXCEPT !.open = FALSE]

-----------------------------------------------------------------------------
(* Changes, and taking them back *)

GateInsert(s, at, g) ==
    IF Len(s) >= MaxGates THEN s ELSE InsertAt(s, (IF at > Len(s) THEN Len(s) ELSE at) + 1, g)
GateDelete(s, at) == IF at >= Len(s) THEN s ELSE RemoveAt(s, at + 1)

\* A change: its kind, the square or gate, what was, what is, and the gate itself; the
\* transaction is put in as it is entered.
Change(kind, index, before, after, gate) ==
    [group |-> 0, kind |-> kind, index |-> index, before |-> before, after |-> after,
     gate |-> gate]

Set(t, e, v) ==
    CASE e.kind = "ground" -> [t EXCEPT !.ground[e.index] = v]
      [] e.kind = "route"  -> [t EXCEPT !.route = v]
      [] e.kind = "every"  -> [t EXCEPT !.every = v]
      [] e.kind = "cut"    -> SetShortcut(t, e.index, v)

ReverseEdit(t, e) ==
    CASE e.kind = "add"    -> [t EXCEPT !.gate = GateDelete(@, e.index)]
      [] e.kind = "remove" -> [t EXCEPT !.gate = GateInsert(@, e.index, e.gate)]
      [] e.kind = "move"   -> [t EXCEPT !.gate = GateInsert(GateDelete(@, e.index),
                                                            e.before, e.gate)]
      [] OTHER             -> Set(t, e, e.before)

ForwardEdit(t, e) ==
    CASE e.kind = "add"    -> [t EXCEPT !.gate = GateInsert(@, e.index, e.gate)]
      [] e.kind = "remove" -> [t EXCEPT !.gate = GateDelete(@, e.index)]
      [] e.kind = "move"   -> [t EXCEPT !.gate = GateInsert(GateDelete(@, e.before),
                                                            e.index, e.gate)]
      [] OTHER             -> Set(t, e, e.after)

\* One entry more, in the transaction that is open or in one of its own; what was
\* to be redone is forgotten.
Entered(l, e) ==
    LET group == IF l.open THEN l.group ELSE l.group + 1
    IN  [l EXCEPT !.group = group, !.cursor = @ + 1,
                  !.op = Append(SubSeq(@, 1, l.cursor), [e EXCEPT !.group = group])]

\* A change nobody would see is done and not recorded; one that does not fit in the
\* log is refused, and so is whatever was to follow it.
Make(d, e, same, fits) ==
    IF ~d.ok \/ same THEN d
    ELSE IF ~fits \/ d.log.cursor >= Capacity THEN [d EXCEPT !.ok = FALSE]
    ELSE [board |-> ForwardEdit(d.board, e), log |-> Entered(d.log, e), ok |-> TRUE]

EditGround(d, s, v) ==
    Make(d, Change("ground", s, d.board.ground[s], v, <<>>), d.board.ground[s] = v, TRUE)

EditAddGate(d, g) ==
    Make(d, Change("add", Gates(d.board), 0, 0, g), FALSE, Gates(d.board) < MaxGates)

EditRemoveGate(d, i) ==
    IF i >= Gates(d.board) THEN [d EXCEPT !.ok = FALSE]
    ELSE Make(d, Change("remove", i, 0, 0, GateAt(d.board, i)), FALSE, TRUE)

EditMoveGate(d, from, to) ==
    IF from >= Gates(d.board) \/ to >= Gates(d.board) THEN [d EXCEPT !.ok = FALSE]
    ELSE Make(d, Change("move", to, from, 0, GateAt(d.board, from)), from = to, TRUE)

EditRoute(d, kind) ==
    Make(d, Change("route", 0, d.board.route, kind, <<>>), d.board.route = kind, TRUE)

EditEvery(d, n) ==
    LET every == IF n = 0 THEN 1 ELSE n
    IN  Make(d, Change("every", 0, d.board.every, every, <<>>), d.board.every = every, TRUE)

EditShortcut(d, i, on) ==
    IF i >= Gates(d.board) THEN [d EXCEPT !.ok = FALSE]
    ELSE Make(d, Change("cut", i, ~on, on, <<>>), ShortcutFrom(d.board, i) = on, TRUE)

-----------------------------------------------------------------------------
(* Undo and redo: a transaction at a time *)

\* The first entry of the transaction that entry k ends, and the last of the one it
\* begins.
FirstOf(l, k) ==
    CHOOSE i \in 1 .. k : /\ \A j \in i .. k : l.op[j].group = l.op[k].group
                          /\ i = 1 \/ l.op[i - 1].group # l.op[k].group
LastOf(l, k) ==
    CHOOSE i \in k .. Len(l.op) : /\ \A j \in k .. i : l.op[j].group = l.op[k].group
                                  /\ i = Len(l.op) \/ l.op[i + 1].group # l.op[k].group

\* The track with entries i to k taken back, the last first; or made again.
TakenBack(t, l, i, k) == FoldRight(LAMBDA e, u : ReverseEdit(u, e), SubSeq(l.op, i, k), t)
MadeAgain(t, l, i, k) == FoldLeft(ForwardEdit, t, SubSeq(l.op, i, k))

\* Slip: from the first of them to the last.
UndoForwards(d) ==
    IF d.log.cursor = 0 THEN d
    ELSE LET i == FirstOf(d.log, d.log.cursor)
         IN  [d EXCEPT !.board = FoldLeft(ReverseEdit, @, SubSeq(d.log.op, i, d.log.cursor)),
                       !.log.cursor = i - 1]

Undo(d) ==
    IF d.log.cursor = 0 THEN d
    ELSE LET i == FirstOf(d.log, d.log.cursor)
         IN  [d EXCEPT !.board = TakenBack(@, d.log, i, d.log.cursor),
                       !.log.cursor = i - 1]

Redo(d) ==
    IF d.log.cursor >= Len(d.log.op) THEN d
    ELSE LET k == LastOf(d.log, d.log.cursor + 1)
         IN  [d EXCEPT !.board = MadeAgain(@, d.log, d.log.cursor + 1, k),
                       !.log.cursor = k]

-----------------------------------------------------------------------------
(* The editor *)

VARIABLES
    board,      \* the track (gs_app.t)
    log,        \* its log
    outside,    \* it was changed since the log was emptied, and not through it
    stroke,     \* the editor's: a button that paints is down
    held,       \* the mouse button was down last frame
    told,       \* what the status line was just set to, where something depends on it
    mode,       \* "editing"; or on this track "racing", or "reversed"
    left        \* while it is raced, the track as it was in the editor

editorVars == <<board, log, outside, stroke, held, told, mode, left>>

Line == {"start", "start_finish", "finish", "checkpoint"}
Part == Line \cup {"road"}

EditorInit ==
    /\ board \in Elsewhere /\ left = <<>>
    /\ log = EmptyLog /\ outside = FALSE
    /\ stroke = FALSE /\ held = FALSE
    /\ told = "" /\ mode = "editing"

Desk == [board |-> board, log |-> log, ok |-> TRUE]
Puts(d) == board' = d.board /\ log' = d.log /\ d.log.group <= MaxGroup

-----------------------------------------------------------------------------
(* Putting things down *)

Lay(d) == FoldLeft(LAMBDA e, w : EditGround(e, w[1], w[2]), d, Road)

\* What a line says of the route, the gate itself, and gate zero for a start.
PutLine(d, kind, g) ==
    LET routed == CASE kind = "start_finish"          -> EditRoute(d, "circuit")
                    [] kind \in {"start", "finish"}   -> EditRoute(d, "sprint")
                    [] OTHER                          -> d
        at == Gates(routed.board)
        added == IF routed.ok THEN EditAddGate(routed, g) ELSE routed
    IN  IF added.ok /\ at > 0 /\ kind \in {"start", "start_finish"}
        THEN EditMoveGate(added, at, 0) ELSE added

\* gs_part_place.  Whatever stroke is open ends with the part.
PlacePart(d, kind, g, fits) ==
    LET begun == [d EXCEPT !.log = Begin(@)]
        laid == IF kind = "road" THEN Lay(begun) ELSE PutLine(begun, kind, g)
        ended == [laid EXCEPT !.log = End(@)]
    IN  IF ~fits THEN [d EXCEPT !.ok = FALSE]
        ELSE IF ended.ok THEN ended ELSE Undo(ended)

\* gs_editor_paint with any of the brushes: the pad takes the next one in the middle of
\* a stroke.  A square, a gate, or a part, that fits where it is or not.
Paints(begun) ==
    LET d == [Desk EXCEPT !.log = begun]
    IN  \/ \E at \in Square, v \in Stored : Puts(EditGround(d, at, v)) /\ told' = ""
        \/ \E g \in Gate : Puts(EditAddGate(d, g)) /\ told' = ""
        \/ \E kind \in Part, g \in Gate, fits \in BOOLEAN :
              LET e == PlacePart(d, kind, g, fits)
              IN  Puts(e) /\ told' = IF e.ok THEN "" ELSE "will not fit"

-----------------------------------------------------------------------------
(* A frame *)

\* The mouse over the world.  A click begins a stroke, it paints every frame the
\* button is down, and letting go ends it.
MouseFrame(down) ==
    /\ mode = "editing"
    /\ LET clicked == down /\ ~held
           stroking == stroke \/ clicked
           begun == IF clicked THEN Begin(log) ELSE log
       IN  \/ down /\ stroking /\ Paints(begun) /\ stroke' = TRUE
           \/ /\ ~down \/ ~stroking
              /\ log' = IF stroking THEN End(begun) ELSE begun
              /\ stroke' = FALSE /\ told' = ""
              /\ UNCHANGED board
    /\ held' = down
    /\ UNCHANGED <<outside, mode, left>>

\* The pad's shoulder buttons.
PadUndo == mode = "editing" /\ Puts(Undo(Desk)) /\ told' = ""
           /\ UNCHANGED <<outside, stroke, held, mode, left>>
PadRedo == mode = "editing" /\ Puts(Redo(Desk)) /\ told' = ""
           /\ UNCHANGED <<outside, stroke, held, mode, left>>

\* Its button: down is a stroke, up ends one, whoever began it.
PadFrame(paint) ==
    /\ mode = "editing"
    /\ LET begun == IF paint /\ ~stroke THEN Begin(log) ELSE log
       IN  IF paint THEN Paints(begun)
           ELSE /\ log' = IF stroke THEN End(log) ELSE log
                /\ told' = "" /\ UNCHANGED board
    /\ stroke' = paint
    /\ UNCHANGED <<outside, held, mode, left>>

\* The mouse over the palette: what was pressed there, and a stroke that was on is
\* over.
OverPalette(d) ==
    /\ mode = "editing"
    /\ Puts([d EXCEPT !.log = IF stroke THEN End(@) ELSE @])
    /\ stroke' = FALSE /\ held' = FALSE /\ told' = ""
    /\ UNCHANGED <<mode, left>>

PressEvery(n) == OverPalette(EditEvery(Desk, n)) /\ UNCHANGED outside
PressRemove(i) ==
    /\ i < Gates(board)
    /\ OverPalette(EditRemoveGate(Desk, i)) /\ UNCHANGED outside
PressShortcut(i) ==
    /\ IsCheckpoint(board, i) /\ NextCheckpoint(board, i) # i
    /\ OverPalette(EditShortcut(Desk, i, ~ShortcutFrom(board, i)))
    /\ UNCHANGED outside
PressUndo == log.cursor > 0 /\ OverPalette(Undo(Desk)) /\ UNCHANGED outside
PressRedo ==
    /\ log.cursor < Len(log.op)
    /\ OverPalette(Redo(Desk)) /\ UNCHANGED outside
\* A brush, a dial, a camera: nothing of the track.
PressOther == OverPalette(Desk) /\ UNCHANGED outside

\* gs_editor_load: the file is one written before.  A refused one changes nothing.
PressLoad(t) ==
    /\ Readable(Written(t))
    /\ OverPalette([Desk EXCEPT !.board = Read(Written(t)), !.log = EmptyLog])
    /\ outside' = FALSE

\* gs_editor_paste_code: the ground's corners through the log, in one transaction;
\* gates are put in place of the others outside it, as the size, the surfaces and the
\* gravity are, which the board leaves out; the route, its stride and its shortcuts stay.
PressPaste(t) ==
    /\ LET squares == SetToSeq({s \in Square : t.ground[s] # board.ground[s]})
           d == FoldLeft(LAMBDA e, s : EditGround([e EXCEPT !.ok = TRUE], s, t.ground[s]),
                         [Desk EXCEPT !.log = Begin(@)], squares)
       IN  OverPalette([d EXCEPT !.log = End(@), !.board.gate = t.gate])
    /\ outside' = TRUE

-----------------------------------------------------------------------------
(* The rest of the game *)

\* gs_face_track: a race may be run the other way round.
Leave(reversed) ==
    /\ mode = "editing" /\ left' = board
    /\ mode' = IF reversed THEN "reversed" ELSE "racing"
    /\ board' = IF reversed THEN TurnRound(board) ELSE board
    /\ told' = "" /\ UNCHANGED <<log, outside, stroke, held>>

\* Back in the editor the track faces forwards again.
Return ==
    /\ mode # "editing" /\ mode' = "editing"
    /\ board' = IF mode = "reversed" THEN TurnRound(board) ELSE board
    /\ outside' = (outside \/ board' # left)
    /\ left' = <<>> /\ told' = "" /\ UNCHANGED <<log, stroke, held>>

\* main.c: what the server races on becomes the track; the log is not emptied.
TakeServed(t) ==
    /\ mode = "racing"
    /\ board' = t /\ left' = t /\ outside' = TRUE
    /\ UNCHANGED <<log, stroke, held, mode>> /\ told' = ""

\* The menus open a track from the library, a new one or a generated one.
OpenTrack(t) ==
    /\ board' = t /\ left' = <<>> /\ log' = EmptyLog /\ outside' = FALSE
    /\ mode' = "editing" /\ told' = ""
    /\ UNCHANGED <<stroke, held>>

EditorNext ==
    \/ \E down \in BOOLEAN : MouseFrame(down)
    \/ PadUndo \/ PadRedo
    \/ \E paint \in BOOLEAN : PadFrame(paint)
    \/ \E n \in 0 .. MaxEvery : PressEvery(n)
    \/ \E i \in 0 .. MaxGates - 1 : PressRemove(i) \/ PressShortcut(i)
    \/ PressUndo \/ PressRedo \/ PressOther
    \/ \E t \in Elsewhere : PressLoad(t) \/ PressPaste(t) \/ TakeServed(t) \/ OpenTrack(t)
    \/ \E reversed \in BOOLEAN : Leave(reversed)
    \/ Return

EditorSpec == EditorInit /\ [][EditorNext]_editorVars

-----------------------------------------------------------------------------
(* The history the log stands for *)

\* Where a transaction begins; the track with entries 1 to p on it.
Starts(l) == {p \in 0 .. Len(l.op) - 1 : p = 0 \/ l.op[p].group # l.op[p + 1].group}
Standing(t, l, p) == IF p <= l.cursor THEN TakenBack(t, l, p + 1, l.cursor)
                     ELSE MadeAgain(t, l, l.cursor + 1, p)

\* The k-th of some numbers, and the tracks that stood at them, in order.
Nth(ps, k) == CHOOSE p \in ps : Cardinality({q \in ps : q < p}) = k - 1
TracksAt(t, l, ps) == [k \in 1 .. Cardinality(ps) |-> Standing(t, l, Nth(ps, k))]

Done(l) == {p \in Starts(l) : p < l.cursor}
Undone(l) == {p \in Starts(l) \cup {Len(l.op)} : p > l.cursor}

History == INSTANCE GsHistory WITH
    present <- board, past <- TracksAt(board, log, Done(log)),
    future <- TracksAt(board, log, Undone(log)), joining <- log.open

-----------------------------------------------------------------------------
(* Properties *)

EditorTypeOK ==
    /\ log.cursor \in 0 .. Len(log.op) /\ Len(log.op) <= Capacity
    /\ Gates(board) <= MaxGates
    /\ \A i, j \in DOMAIN log.op : i <= j => log.op[i].group <= log.op[j].group
    /\ \A i \in DOMAIN log.op : log.op[i].group <= log.group

\* A transaction is open only while a button that paints is down, whichever of the
\* mouse and the pad began it and whatever was put down meanwhile: one left open
\* would make everything done afterwards one undo step.
OpenIsAStroke == log.open => stroke

\* As long as nothing has changed the track behind the log's back, whatever is done
\* in the editor, but for a part that is refused, is a step of a history: undo goes
\* to the very track there was before the last thing done, and redo to the one there
\* was after it.
EditIsHistory ==
    [][(/\ ~outside /\ ~outside' /\ told' # "will not fit"
        /\ mode = "editing" /\ mode' = "editing") => History!HistoryNext]_<<board, log>>

\* The stride comes out even round the route, and every shortcut leads somewhere.
Divided(t) ==
    /\ IF IsCircuit(t) THEN Gates(t) = 0 \/ Gates(t) % t.every = 0
                       ELSE Gates(t) < 2 \/ (Gates(t) - 1) % t.every = 0
    /\ \A i \in t.cut : IsCheckpoint(t, i) /\ NextCheckpoint(t, i) # i

\* The legs a shortcut stands for: from one place to another, whichever way round.
ShortLegs(t) ==
    {{GateAt(t, i)[1], GateAt(t, NextCheckpoint(t, i))[1]} :
        i \in {j \in t.cut : ShortcutFrom(t, j)}}

\* A track raced the other way round has its shortcuts between the same places, and
\* turned back it is the track it was, where the stride divides the route.
TurnsBack ==
    mode = "reversed" /\ Divided(left) =>
        ShortLegs(board) = ShortLegs(left) /\ TurnRound(board) = left

\* Whatever can be built is read back from its file as the track it was, under the
\* version it was written in, and its code opens.
RoundTrip == Read(Written(board)) = board /\ Decodes(Code(board))

\* What was built in the editor is the same track on every way it is sent: turned round
\* and back, to its file and its code and back.
TrackComesThrough == TurnsBack /\ RoundTrip
=============================================================================
