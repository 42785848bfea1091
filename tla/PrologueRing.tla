---------------------------- MODULE PrologueRing ----------------------------
(***************************************************************************)
(* One AICore running qk_prologue_kernel_v2 (kernels/prologue_fused.h): a  *)
(* ping-pong over one pair of operand slots and one score slot.  Per tile  *)
(* the Vecs prescale the operands, the Cube multiplies them, the Vecs mask *)
(* the score into the output; nobody works ahead.  A stage is a begin and  *)
(* an end, as in PerDimFlash.                                              *)
(***************************************************************************)
EXTENDS TileLaunch

VARIABLES
  cpc, cw, creg,       \* Cube: place, loop counter, operand halves read
  vpc, vw, vreg,       \* each Vec: place, loop counter, score being masked
  opReady, aReady,     \* the counters of PRO_OP_READY and PRO_A_READY
  op, Aout, L          \* the operand slots, a half per Vec; the score; the output

cubeVars == <<cpc, cw, creg>>
vecVars  == <<vpc, vw, vreg>>
vars     == <<cid, cubeVars, vecVars, opReady, aReady, op, Aout, L>>

Only == 0              \* there is one slot, and one flag of each kind
Counters1 == [Vecs -> [{Only} -> Nat]]

TypeOK ==
  /\ cid \in 0 .. bnum - 1
  /\ cpc \in {"score", "scoreOut", "done"} /\ cw \in 0 .. Iters
  /\ creg \in [Vecs -> Values]
  /\ vpc \in [Vecs -> {"scale", "scaleOut", "mask", "maskOut", "done"}]
  /\ vw \in [Vecs -> 0 .. Iters] /\ vreg \in [Vecs -> Values]
  /\ opReady \in Counters1 /\ aReady \in Counters1
  /\ op \in [Vecs -> Values] /\ Aout \in Values
  /\ L \in [Tiles -> [Vecs -> Values]]

Init ==
  /\ cid \in 0 .. bnum - 1
  /\ cpc = "score" /\ cw = 0 /\ creg = Unwritten
  /\ vpc = [v \in Vecs |-> "scale"] /\ vw = [v \in Vecs |-> 0] /\ vreg = Unwritten
  /\ opReady = [v \in Vecs |-> [s \in {Only} |-> 0]] /\ aReady = opReady
  /\ op = Unwritten /\ Aout = Stale
  /\ L = [p \in Tiles |-> Unwritten]

\* A score is good when both halves of the operands come from one tile.
Product(before, now) ==
  LET half == [v \in Vecs |-> Settle(before[v], now[v])]
  IN IF \E p \in Tiles : half = Exact(p) THEN half[CHOOSE v \in Vecs : TRUE] ELSE Torn
-----------------------------------------------------------------------------
(* The Cube.                                                               *)

ScoreBegin ==
  /\ cpc = "score" /\ cpc' = "scoreOut"
  /\ CubeMayPass(opReady, Only)
  /\ opReady' = CubePasses(opReady, Only)
  /\ creg' = op
  /\ Aout' = IF HasTile(cw) THEN Torn ELSE Aout
  /\ UNCHANGED <<cid, cw, vecVars, aReady, op, L>>

ScoreEnd ==
  /\ cpc = "scoreOut" /\ cpc' = IF cw + 1 < Iters THEN "score" ELSE "done"
  /\ Aout' = IF HasTile(cw) THEN Product(creg, op) ELSE Aout
  /\ aReady' = CubeSignals(aReady, Only)
  /\ cw' = cw + 1
  /\ UNCHANGED <<cid, creg, vecVars, opReady, op, L>>
-----------------------------------------------------------------------------
(* Vec v.                                                                  *)

Goto(v, place) == vpc' = [vpc EXCEPT ![v] = place]

ScaleBegin(v) ==
  /\ vpc[v] = "scale" /\ Goto(v, "scaleOut")
  /\ op' = IF HasTile(vw[v]) THEN [op EXCEPT ![v] = Torn] ELSE op
  /\ UNCHANGED <<cid, cubeVars, vw, vreg, opReady, aReady, Aout, L>>

ScaleEnd(v) ==
  /\ vpc[v] = "scaleOut" /\ Goto(v, "mask")
  /\ op' = IF HasTile(vw[v]) THEN [op EXCEPT ![v] = Pid(vw[v])] ELSE op
  /\ opReady' = VecSignals(opReady, v, Only)
  /\ UNCHANGED <<cid, cubeVars, vw, vreg, aReady, Aout, L>>

\* Slip: the wait is inside the tail's guard.
MaskBeginSkipsTail(v) ==
  /\ vpc[v] = "mask" /\ Goto(v, "maskOut")
  /\ HasTile(vw[v]) => VecMayPass(aReady, v, Only)
  /\ aReady' = IF HasTile(vw[v]) THEN VecPasses(aReady, v, Only) ELSE aReady
  /\ vreg' = [vreg EXCEPT ![v] = Aout]
  /\ UNCHANGED <<cid, cubeVars, vw, opReady, op, Aout, L>>

MaskBegin(v) ==
  /\ vpc[v] = "mask" /\ Goto(v, "maskOut")
  /\ VecMayPass(aReady, v, Only)
  /\ aReady' = VecPasses(aReady, v, Only)
  /\ vreg' = [vreg EXCEPT ![v] = Aout]
  /\ UNCHANGED <<cid, cubeVars, vw, opReady, op, Aout, L>>

MaskEnd(v) ==
  /\ vpc[v] = "maskOut" /\ Goto(v, IF vw[v] + 1 < Iters THEN "scale" ELSE "done")
  /\ L' = IF HasTile(vw[v]) THEN [L EXCEPT ![Pid(vw[v])][v] = Settle(vreg[v], Aout)] ELSE L
  /\ vw' = [vw EXCEPT ![v] = @ + 1]
  /\ UNCHANGED <<cid, cubeVars, vreg, opReady, aReady, op, Aout>>
-----------------------------------------------------------------------------
Cube   == ScoreBegin \/ ScoreEnd
Vec(v) == ScaleBegin(v) \/ ScaleEnd(v) \/ MaskBegin(v) \/ MaskEnd(v)

Done == cpc = "done" /\ \A v \in Vecs : vpc[v] = "done"

Next == Cube \/ \E v \in Vecs : Vec(v)

Spec == Init /\ [][Next]_vars
-----------------------------------------------------------------------------
(* Properties.                                                             *)

\* One flag each way is enough to share the slots: while the Cube multiplies,
\* no Vec prescales the next tile or still masks the last one.
SlotExclusion ==
  cpc = "scoreOut" => \A v \in Vecs : vpc[v] \notin {"scaleOut", "maskOut"}

\* Both halves of a tile of L are made from that tile's operands, and the core
\* writes all of its tiles.
OutputsExact ==
  /\ \A p \in Tiles, v \in Vecs : L[p][v] \in {Stale, p}
  /\ Done => \A p \in Tiles : p % bnum = cid => L[p] = Exact(p)

\* At most one signal each way, and none when the core returns.
FlagsBalanced ==
  \A v \in Vecs, f \in {opReady, aReady} : f[v][Only] <= 1 /\ (Done => f[v][Only] = 0)

\* Each Vec masks its half of a tile once, whole, and never again.
HalfOut == AbstractHalves(L)

TM == INSTANCE TileMap WITH Tiles <- Halves, Pending <- <<>>, out <- HalfOut

ImplementsTileMap == TM!Spec

\* The inductive invariant.  A cursor counts the signals a side has given or the
\* waits it has passed; a counter is the difference of two, zero or one, so the
\* two sides take turns on the slots.
CubeGot   == IF cpc = "scoreOut" THEN cw + 1 ELSE cw
Scaled(v) == IF vpc[v] \in {"mask", "maskOut"} THEN vw[v] + 1 ELSE vw[v]
VecGot(v) == IF vpc[v] = "maskOut" THEN vw[v] + 1 ELSE vw[v]

Cursors ==
  /\ IF cpc = "done" THEN cw = Iters ELSE cw < Iters
  /\ \A v \in Vecs :
       /\ IF vpc[v] = "done" THEN vw[v] = Iters ELSE vw[v] < Iters
       /\ VecGot(v) <= cw /\ CubeGot <= Scaled(v)

Counters ==
  \A v \in Vecs : opReady[v][Only] = Scaled(v) - CubeGot /\ aReady[v][Only] = cw - VecGot(v)

\* What the slots and registers of the iteration in progress hold.
Contents ==
  /\ cpc = "scoreOut" /\ HasTile(cw) => creg = Exact(Pid(cw))
  /\ \A v \in Vecs : HasTile(vw[v]) =>
       /\ vpc[v] \in {"mask", "maskOut"} => op[v] = Pid(vw[v])
       /\ vw[v] < cw => Aout = Pid(vw[v])
       /\ vpc[v] = "maskOut" => vreg[v] = Pid(vw[v])

Written ==
  \A v \in Vecs :
    /\ \A p \in Tiles : L[p][v] \in {Stale, p}
    /\ \A n \in 0 .. Iters : n < vw[v] /\ HasTile(n) => L[Pid(n)][v] = Pid(n)

RingInv == TypeOK /\ Cursors /\ Counters /\ Contents /\ Written
=============================================================================
