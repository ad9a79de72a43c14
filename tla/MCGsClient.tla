----------------------------- MODULE MCGsClient -----------------------------
(***************************************************************************)
(* A machine on its way to a race, one part at a time.  Its screens and the*)
(* race behind them, over three races (GsFront).  How machines meet by     *)
(* themselves: a host and three joiners for races of two, three and four,  *)
(* so that somebody finds the smaller ones full (GsWire).  And what they   *)
(* talk through: GsTunnel, with a map of three bits and six datagrams, room*)
(* for a jump of more than a window, of exactly a window, and of less.     *)
(***************************************************************************)
EXTENDS GsWire, GsTunnel, GsFront, TLC

CONSTANTS h, x, y, z     \* the machines

Symmetry == Permutations(Joiner)

VARIABLE part     \* what is being run; the others stay as they start

ClientInit ==
    /\ part \in {"front", "wire", "tunnel"}
    /\ FrontInit /\ WireInit /\ Init
    /\ part # "front" => ~online
    /\ part # "wire" => players[Host] = 2

ClientNext ==
    \/ part = "front" /\ FrontNext /\ UNCHANGED <<part, wireVars, vars>>
    \/ part = "wire" /\ WireNext /\ UNCHANGED <<part, frontVars, vars>>
    \/ part = "tunnel" /\ Next /\ UNCHANGED <<part, frontVars, wireVars>>

ClientSpec == ClientInit /\ [][ClientNext]_<<part, frontVars, wireVars, vars>>
=============================================================================
