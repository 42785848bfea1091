------------------------------- MODULE TileMap -------------------------------
(***************************************************************************)
(* What every fused tile kernel promises, whatever its schedule: each tile *)
(* of the launch goes from "not written" to the value computed from that   *)
(* tile's own operands, in one step, in any order, and never changes       *)
(* again.  The SyncAll oracle (flash V1) and the double-buffered pipelines *)
(* (flash V2 and the others) all implement this; where each Vec writes its *)
(* half of a tile by itself, a half is a tile here.                        *)
(***************************************************************************)
CONSTANTS Tiles,       \* the tiles this core owns
          Pending      \* what a tile holds before it is written

VARIABLE out           \* out[p]: Pending, or the tile the value was made from

Init == out = [p \in Tiles |-> Pending]

Finish(p) ==
  /\ out[p] = Pending
  /\ out' = [out EXCEPT ![p] = p]

Next == \E p \in Tiles : Finish(p)

Spec == Init /\ [][Next]_out

FairSpec == Spec /\ WF_out(Next)
=============================================================================
