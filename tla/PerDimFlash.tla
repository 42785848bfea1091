----------------------------- MODULE PerDimFlash -----------------------------
(***************************************************************************)
(* One AICore running qkv_prologue_flash_v2                                *)
(* (kernels/qkv_prologue_fused.h): the four-stage ring of the per-channel  *)
(* gates.  Per tile: the Vecs prescale the operands (OP), the Cube         *)
(* multiplies them into a score (S), the Vecs mask it (A), the Cube        *)
(* multiplies A by v.  Tile n+1 is prescaled and scored while tile n is    *)
(* masked; three two-slot rings, three READY flags, no FREE flag.          *)
(*                                                                         *)
(* Each stage is a begin (the wait before it, what it reads, the buffer it *)
(* starts to write) and an end (what it wrote, the signal after it).       *)
(***************************************************************************)
EXTENDS TileLaunch

VARIABLES
  cpc, cw, cn, creg,    \* Cube: place, loop counter, tiles scored, operand read
  vpc, vw, vn, vreg,    \* each Vec: place, loop counter, tiles prescaled, S read
  opReady, sReady, aReady,    \* QKVP_OP_READY, QKVP_S_READY, QKVP_A_READY, + slot
  OP, S, A, o           \* rings and output; each Vec owns a half of OP and of A

cubeVars == <<cpc, cw, cn, creg>>
vecVars  == <<vpc, vw, vn, vreg>>
flagVars == <<opReady, sReady, aReady>>
vars     == <<cid, cubeVars, vecVars, flagVars, OP, S, A, o>>

TypeOK ==
  /\ cid \in 0 .. bnum - 1
  /\ cpc \in {"score", "scoreOut", "output", "outputOut", "done"}
  /\ cw \in 0 .. Iters /\ cn \in 0 .. Iters
  /\ creg \in [Vecs -> Values]
  /\ vpc \in [Vecs -> {"scale", "scaleOut", "mask", "maskOut", "done"}]
  /\ vw \in [Vecs -> 0 .. Iters] /\ vn \in [Vecs -> 0 .. Iters]
  /\ vreg \in [Vecs -> Values]
  /\ opReady \in Counters2 /\ sReady \in Counters2 /\ aReady \in Counters2
  /\ OP \in [Slots -> [Vecs -> Values]]
  /\ S \in [Slots -> Values]
  /\ A \in [Slots -> [Vecs -> Values]]
  /\ o \in [Tiles -> [Vecs -> Values]]

Init ==
  /\ cid \in 0 .. bnum - 1
  /\ cpc = "score" /\ cw = 0 /\ cn = 0 /\ creg = Unwritten
  /\ vpc = [v \in Vecs |-> "scale"]
  /\ vw = [v \in Vecs |-> 0] /\ vn = [v \in Vecs |-> 0] /\ vreg = Unwritten
  /\ opReady = NoSignal /\ sReady = NoSignal /\ aReady = NoSignal
  /\ OP = [s \in Slots |-> Unwritten]
  /\ S = [s \in Slots |-> Stale]
  /\ A = [s \in Slots |-> Unwritten]
  /\ o = [p \in Tiles |-> Unwritten]

\* Slip: the look-ahead stage is not guarded by n < Iters.
AheadUnbounded(n, w) == n < w + 2

\* Both units run one prologue stage for tile 0 and then, in iteration w, the
\* stage of tile w + 1 (if any) before the stage of tile w.
Ahead(n, w) == n < Iters /\ n < w + 2

\* Where a unit goes on: out of the loop, or to one of its two stages.
Resume(n, w, prologue, stage) ==
  IF w = Iters THEN "done" ELSE IF Ahead(n, w) THEN prologue ELSE stage

\* A score is good when both halves of both operands come from its tile.
Product(reg, now) ==
  LET half == [v \in Vecs |-> Settle(reg[v], now[v])]
  IN IF \E p \in Tiles : half = Exact(p) THEN half[CHOOSE v \in Vecs : TRUE] ELSE Torn
-----------------------------------------------------------------------------
(* The Cube.                                                               *)

ScoreBegin ==
  /\ cpc = "score"
  /\ CubeMayPass(opReady, Slot(cn))
  /\ opReady' = CubePasses(opReady, Slot(cn))
  /\ creg' = OP[Slot(cn)]
  /\ S' = IF HasTile(cn) THEN [S EXCEPT ![Slot(cn)] = Torn] ELSE S
  /\ cpc' = "scoreOut"
  /\ UNCHANGED <<cid, cw, cn, vecVars, sReady, aReady, OP, A, o>>

ScoreEnd ==
  /\ cpc = "scoreOut"
  /\ S' = IF HasTile(cn) THEN [S EXCEPT ![Slot(cn)] = Product(creg, OP[Slot(cn)])] ELSE S
  /\ sReady' = CubeSignals(sReady, Slot(cn))
  /\ cn' = cn + 1
  /\ cpc' = Resume(cn + 1, cw, "score", "output")
  /\ UNCHANGED <<cid, cw, creg, vecVars, opReady, aReady, OP, A, o>>

OutputBegin ==
  /\ cpc = "output"
  /\ CubeMayPass(aReady, Slot(cw))
  /\ aReady' = CubePasses(aReady, Slot(cw))
  /\ creg' = A[Slot(cw)]
  /\ cpc' = "outputOut"
  /\ UNCHANGED <<cid, cw, cn, vecVars, opReady, sReady, OP, S, A, o>>

OutputEnd ==
  /\ cpc = "outputOut"
  /\ o' = IF HasTile(cw)
            THEN [o EXCEPT ![Pid(cw)] = [v \in Vecs |-> Settle(creg[v], A[Slot(cw)][v])]]
            ELSE o
  /\ cw' = cw + 1
  /\ cpc' = Resume(cn, cw + 1, "score", "output")
  /\ UNCHANGED <<cid, cn, creg, vecVars, flagVars, OP, S, A>>
-----------------------------------------------------------------------------
(* Vec v.                                                                  *)

ScaleBegin(v) ==
  /\ vpc[v] = "scale"
  /\ OP' = IF HasTile(vn[v]) THEN [OP EXCEPT ![Slot(vn[v])][v] = Torn] ELSE OP
  /\ vpc' = [vpc EXCEPT ![v] = "scaleOut"]
  /\ UNCHANGED <<cid, cubeVars, vw, vn, vreg, flagVars, S, A, o>>

ScaleEnd(v) ==
  /\ vpc[v] = "scaleOut"
  /\ OP' = IF HasTile(vn[v]) THEN [OP EXCEPT ![Slot(vn[v])][v] = Pid(vn[v])] ELSE OP
  /\ opReady' = VecSignals(opReady, v, Slot(vn[v]))
  /\ vn' = [vn EXCEPT ![v] = @ + 1]
  /\ vpc' = [vpc EXCEPT ![v] = Resume(vn[v] + 1, vw[v], "scale", "mask")]
  /\ UNCHANGED <<cid, cubeVars, vw, vreg, sReady, aReady, S, A, o>>

\* Slip: the score is masked without waiting for it.
MaskBeginNoWait(v) ==
  /\ vpc[v] = "mask"
  /\ vreg' = [vreg EXCEPT ![v] = S[Slot(vw[v])]]
  /\ A' = IF HasTile(vw[v]) THEN [A EXCEPT ![Slot(vw[v])][v] = Torn] ELSE A
  /\ vpc' = [vpc EXCEPT ![v] = "maskOut"]
  /\ UNCHANGED <<cid, cubeVars, vw, vn, flagVars, OP, S, o>>

MaskBegin(v) ==
  /\ vpc[v] = "mask"
  /\ VecMayPass(sReady, v, Slot(vw[v]))
  /\ sReady' = VecPasses(sReady, v, Slot(vw[v]))
  /\ vreg' = [vreg EXCEPT ![v] = S[Slot(vw[v])]]
  /\ A' = IF HasTile(vw[v]) THEN [A EXCEPT ![Slot(vw[v])][v] = Torn] ELSE A
  /\ vpc' = [vpc EXCEPT ![v] = "maskOut"]
  /\ UNCHANGED <<cid, cubeVars, vw, vn, opReady, aReady, OP, S, o>>

MaskEnd(v) ==
  /\ vpc[v] = "maskOut"
  /\ A' = IF HasTile(vw[v])
            THEN [A EXCEPT ![Slot(vw[v])][v] = Settle(vreg[v], S[Slot(vw[v])])]
            ELSE A
  /\ aReady' = VecSignals(aReady, v, Slot(vw[v]))
  /\ vw' = [vw EXCEPT ![v] = @ + 1]
  /\ vpc' = [vpc EXCEPT ![v] = Resume(vn[v], vw[v] + 1, "scale", "mask")]
  /\ UNCHANGED <<cid, cubeVars, vn, vreg, opReady, sReady, OP, S, o>>
-----------------------------------------------------------------------------
Cube   == ScoreBegin \/ ScoreEnd \/ OutputBegin \/ OutputEnd
Vec(v) == ScaleBegin(v) \/ ScaleEnd(v) \/ MaskBegin(v) \/ MaskEnd(v)

Done == cpc = "done" /\ \A v \in Vecs : vpc[v] = "done"

Next == Cube \/ \E v \in Vecs : Vec(v)

Spec == Init /\ [][Next]_vars
-----------------------------------------------------------------------------
(* Properties.                                                             *)

\* The claim above the kernel: every slot reuse of the three rings is ordered
\* by the units' own instruction streams.
SlotExclusion ==
  \A v \in Vecs :
    /\ cpc = "scoreOut" /\ vpc[v] = "scaleOut" => Slot(cn) # Slot(vn[v])
    /\ cpc = "scoreOut" /\ vpc[v] = "maskOut"  => Slot(cn) # Slot(vw[v])
    /\ cpc = "outputOut" /\ vpc[v] = "maskOut" => Slot(cw) # Slot(vw[v])

\* Each output tile is made from its own operands in both halves, and the
\* core writes all of its tiles.
OutputsExact ==
  /\ \A p \in Tiles : o[p] \in {Unwritten, Exact(p)}
  /\ Done => \A p \in Tiles : p % bnum = cid => o[p] = Exact(p)

\* No counter holds two signals, and none is left when the core returns.
FlagsBalanced ==
  \A v \in Vecs, s \in Slots, f \in {opReady, sReady, aReady} :
    f[v][s] <= 1 /\ (Done => f[v][s] = 0)

\* The inductive invariant.  Got counts the waits a side has passed.  Along
\* the pipeline the cursors are ordered, and the look-ahead keeps a side's two
\* stages at most two iterations apart: an iteration in flight owns its slot.
CubeOpGot == IF cpc = "scoreOut" THEN cn + 1 ELSE cn
CubeAGot  == IF cpc = "outputOut" THEN cw + 1 ELSE cw
VecGot(v) == IF vpc[v] = "maskOut" THEN vw[v] + 1 ELSE vw[v]

CubeCursor ==
  /\ cn <= cw + 2
  /\ cpc \in {"score", "scoreOut"} => cw < Iters /\ Ahead(cn, cw)
  /\ cpc \in {"output", "outputOut"} => cw < Iters /\ ~ Ahead(cn, cw)
  /\ cpc = "done" => cw = Iters

VecCursor ==
  \A v \in Vecs :
    /\ CubeAGot <= vw[v] /\ VecGot(v) <= cn /\ CubeOpGot <= vn[v] /\ vn[v] <= vw[v] + 2
    /\ vpc[v] \in {"scale", "scaleOut"} => vw[v] < Iters /\ Ahead(vn[v], vw[v])
    /\ vpc[v] \in {"mask", "maskOut"} => vw[v] < Iters /\ ~ Ahead(vn[v], vw[v])
    /\ vpc[v] = "done" => vw[v] = Iters

Counters ==
  \A v \in Vecs, s \in Slots :
    /\ opReady[v][s] = InFlight(CubeOpGot, vn[v], s)
    /\ sReady[v][s] = InFlight(VecGot(v), cn, s)
    /\ aReady[v][s] = InFlight(CubeAGot, vw[v], s)

\* What the registers, and the slots of the iterations in flight, hold.
Registers ==
  /\ cpc = "scoreOut" /\ HasTile(cn) => creg = Exact(Pid(cn))
  /\ cpc = "outputOut" /\ HasTile(cw) => creg = Exact(Pid(cw))
  /\ \A v \in Vecs : vpc[v] = "maskOut" /\ HasTile(vw[v]) => vreg[v] = Pid(vw[v])

Operands ==
  \A v \in Vecs, n \in 0 .. Iters :
    cn <= n /\ n < vn[v] /\ HasTile(n) => OP[Slot(n)][v] = Pid(n)

Scores ==
  \A v \in Vecs, n \in 0 .. Iters :
    vw[v] <= n /\ n < cn /\ HasTile(n) => S[Slot(n)] = Pid(n)

Masked ==
  \A v \in Vecs, n \in 0 .. Iters :
    cw <= n /\ n < vw[v] /\ HasTile(n) => A[Slot(n)][v] = Pid(n)

Written ==
  /\ \A p \in Tiles : o[p] \in {Unwritten, Exact(p)}
  /\ \A n \in 0 .. Iters : n < cw /\ HasTile(n) => o[Pid(n)] = Exact(Pid(n))

RingInv ==
  /\ TypeOK /\ CubeCursor /\ VecCursor /\ Counters
  /\ Registers /\ Operands /\ Scores /\ Masked /\ Written

\* The four stages together write each tile once, whole.
TileOut == AbstractOutput(o)

TM == INSTANCE TileMap WITH Pending <- Stale, out <- TileOut

ImplementsTileMap == TM!Spec
=============================================================================
