------------------------------ MODULE FlashRing ------------------------------
(***************************************************************************)
(* One AICore running qkv_flash_kernel_v2 (kernels/qkv_fused.h): the Cube  *)
(* produces score tiles S into a two-slot ring, the Vecs turn each into a  *)
(* masked tile A in a second two-slot ring, the Cube multiplies A by v.    *)
(* There are READY flags for both directions and no FREE flags: that a     *)
(* slot is never overwritten while it is still read rests on the order of  *)
(* the Cube's own instructions.                                            *)
(***************************************************************************)
EXTENDS TileLaunch

VARIABLES
  cpc, w,    \* the Cube: where it is, and its loop counter
  np,        \* how many S tiles it has announced
  creg,      \* the A tile its second matmul is reading, one part per Vec
  vpc, vw,   \* the Vecs: where each is, and its loop counter
  vreg,      \* the S tile it is masking
  sReady, aReady,   \* the counters of QKV_S_READY + slot, QKV_A_READY + slot
  S, A,      \* the rings; each Vec writes its half of an A slot
  o          \* the output tiles, one part per half

cubeVars == <<cpc, w, np, creg>>
vecVars  == <<vpc, vw, vreg>>
vars     == <<cid, cubeVars, vecVars, sReady, aReady, S, A, o>>

TypeOK ==
  /\ cid \in 0 .. bnum - 1
  /\ cpc \in {"produce", "writing", "signal", "wait", "consume", "reading", "done"}
  /\ w \in 0 .. Iters /\ np \in 0 .. Iters
  /\ creg \in [Vecs -> Values]
  /\ vpc \in [Vecs -> {"wait", "load", "masking", "storing", "signal", "done"}]
  /\ vw \in [Vecs -> 0 .. Iters]
  /\ vreg \in [Vecs -> Values]
  /\ sReady \in Counters2 /\ aReady \in Counters2
  /\ S \in [Slots -> Values]
  /\ A \in [Slots -> [Vecs -> Values]]
  /\ o \in [Tiles -> [Vecs -> Values]]

Init ==
  /\ cid \in 0 .. bnum - 1
  /\ cpc = "produce" /\ w = 0 /\ np = 0
  /\ creg = Unwritten
  /\ vpc = [v \in Vecs |-> "wait"] /\ vw = [v \in Vecs |-> 0]
  /\ vreg = Unwritten
  /\ sReady = NoSignal /\ aReady = NoSignal
  /\ S = [s \in Slots |-> Stale]
  /\ A = [s \in Slots |-> Unwritten]
  /\ o = [p \in Tiles |-> Unwritten]
-----------------------------------------------------------------------------
(* The Cube.                                                               *)

\* The first matmul starts writing S(np), unless np is a tail tile.
Produce ==
  /\ cpc = "produce"
  /\ IF HasTile(np)
       THEN cpc' = "writing" /\ S' = [S EXCEPT ![Slot(np)] = Torn]
       ELSE cpc' = "signal" /\ UNCHANGED S
  /\ UNCHANGED <<cid, w, np, creg, vecVars, sReady, aReady, A, o>>

ProduceEnd ==
  /\ cpc = "writing"
  /\ cpc' = "signal"
  /\ S' = [S EXCEPT ![Slot(np)] = Pid(np)]
  /\ UNCHANGED <<cid, w, np, creg, vecVars, sReady, aReady, A, o>>

\* Slip: one tile too many in flight.
AfterSignalDeeper(n) == IF n < Iters /\ n < w + 3 THEN "produce" ELSE "wait"

\* Before it waits for A(w) the Cube has announced S(w+1), if there is one.
AfterSignal(n) == IF n < Iters /\ n < w + 2 THEN "produce" ELSE "wait"

SignalS ==
  /\ cpc = "signal"
  /\ sReady' = CubeSignals(sReady, Slot(np))
  /\ np' = np + 1
  /\ cpc' = AfterSignal(np + 1)
  /\ UNCHANGED <<cid, w, creg, vecVars, aReady, S, A, o>>

\* Slip: the wait for A_READY is missing.
WaitANever ==
  /\ cpc = "wait"
  /\ cpc' = "consume"
  /\ UNCHANGED <<cid, w, np, creg, vecVars, sReady, aReady, S, A, o>>

WaitA ==
  /\ cpc = "wait"
  /\ CubeMayPass(aReady, Slot(w))
  /\ aReady' = CubePasses(aReady, Slot(w))
  /\ cpc' = "consume"
  /\ UNCHANGED <<cid, w, np, creg, vecVars, sReady, S, A, o>>

AfterConsume(n) == IF n = Iters THEN "done" ELSE IF np < Iters THEN "produce" ELSE "wait"

\* The second matmul starts reading A(w).
Consume ==
  /\ cpc = "consume"
  /\ IF HasTile(w)
       THEN /\ cpc' = "reading" /\ creg' = A[Slot(w)]
            /\ UNCHANGED w
       ELSE /\ cpc' = AfterConsume(w + 1) /\ w' = w + 1
            /\ UNCHANGED creg
  /\ UNCHANGED <<cid, np, vecVars, sReady, aReady, S, A, o>>

ConsumeEnd ==
  /\ cpc = "reading"
  /\ o' = [o EXCEPT ![Pid(w)] =
             [v \in Vecs |-> Settle(creg[v], A[Slot(w)][v])]]
  /\ w' = w + 1
  /\ cpc' = AfterConsume(w + 1)
  /\ UNCHANGED <<cid, np, creg, vecVars, sReady, aReady, S, A>>
-----------------------------------------------------------------------------
(* Vec v.                                                                  *)

\* Slips: a tail tile does not wait; a tail tile skips the iteration, as the
\* epilogue of the SyncAll kernel does.
WaitSSkipsTail(v) ==
  /\ vpc[v] = "wait"
  /\ HasTile(vw[v]) => VecMayPass(sReady, v, Slot(vw[v]))
  /\ sReady' = IF HasTile(vw[v]) THEN VecPasses(sReady, v, Slot(vw[v])) ELSE sReady
  /\ vpc' = [vpc EXCEPT ![v] = IF HasTile(vw[v]) THEN "load" ELSE "signal"]
  /\ UNCHANGED <<cid, cubeVars, vw, vreg, aReady, S, A, o>>

WaitSContinues(v) ==
  /\ vpc[v] = "wait"
  /\ VecMayPass(sReady, v, Slot(vw[v]))
  /\ sReady' = VecPasses(sReady, v, Slot(vw[v]))
  /\ vpc' = [vpc EXCEPT ![v] = IF HasTile(vw[v]) THEN "load" ELSE "done"]
  /\ UNCHANGED <<cid, cubeVars, vw, vreg, aReady, S, A, o>>

WaitS(v) ==
  /\ vpc[v] = "wait"
  /\ VecMayPass(sReady, v, Slot(vw[v]))
  /\ sReady' = VecPasses(sReady, v, Slot(vw[v]))
  /\ vpc' = [vpc EXCEPT ![v] = IF HasTile(vw[v]) THEN "load" ELSE "signal"]
  /\ UNCHANGED <<cid, cubeVars, vw, vreg, aReady, S, A, o>>

\* The epilogue loads its half of S and masks it ...
Load(v) ==
  /\ vpc[v] = "load"
  /\ vpc' = [vpc EXCEPT ![v] = "masking"]
  /\ vreg' = [vreg EXCEPT ![v] = S[Slot(vw[v])]]
  /\ UNCHANGED <<cid, cubeVars, vw, sReady, aReady, S, A, o>>

\* ... and starts storing the result into its half of the A slot ...
Store(v) ==
  /\ vpc[v] = "masking"
  /\ vpc' = [vpc EXCEPT ![v] = "storing"]
  /\ vreg' = [vreg EXCEPT ![v] = Settle(@, S[Slot(vw[v])])]
  /\ A' = [A EXCEPT ![Slot(vw[v])][v] = Torn]
  /\ UNCHANGED <<cid, cubeVars, vw, sReady, aReady, S, o>>

\* ... which the barrier before the signal makes complete.
StoreEnd(v) ==
  /\ vpc[v] = "storing"
  /\ vpc' = [vpc EXCEPT ![v] = "signal"]
  /\ A' = [A EXCEPT ![Slot(vw[v])][v] = vreg[v]]
  /\ UNCHANGED <<cid, cubeVars, vw, vreg, sReady, aReady, S, o>>

SignalA(v) ==
  /\ vpc[v] = "signal"
  /\ aReady' = VecSignals(aReady, v, Slot(vw[v]))
  /\ vw' = [vw EXCEPT ![v] = @ + 1]
  /\ vpc' = [vpc EXCEPT ![v] = IF vw[v] + 1 = Iters THEN "done" ELSE "wait"]
  /\ UNCHANGED <<cid, cubeVars, vreg, sReady, S, A, o>>
-----------------------------------------------------------------------------
Cube   == Produce \/ ProduceEnd \/ SignalS \/ WaitA \/ Consume \/ ConsumeEnd
Vec(v) == WaitS(v) \/ Load(v) \/ Store(v) \/ StoreEnd(v) \/ SignalA(v)

Done == cpc = "done" /\ \A v \in Vecs : vpc[v] = "done"

\* The kernel has returned; nothing is left to do.
Exited == Done /\ UNCHANGED vars

Next == Cube \/ (\E v \in Vecs : Vec(v)) \/ Exited

Spec == Init /\ [][Next]_vars

\* The Cube and each Vec are processors of their own: none of them stops
\* while it has an instruction it can execute.
FairSpec == Spec /\ WF_vars(Cube) /\ \A v \in Vecs : WF_vars(Vec(v))
-----------------------------------------------------------------------------
(* Properties.                                                             *)

\* No slot of either ring is written while the other side may still be
\* reading it, although no FREE flag protects it: the write-after-read claim
\* of the comment above the kernel.
SlotExclusion ==
  \A v \in Vecs :
    /\ cpc = "writing" /\ vpc[v] \in {"load", "masking"} => Slot(np) # Slot(vw[v])
    /\ cpc = "reading" /\ vpc[v] = "storing" => Slot(w) # Slot(vw[v])

\* A tile of the output is untouched or entirely made from that tile's own
\* score, never torn and never from the neighbour that shared its slot.
OutputsExact == \A p \in Tiles : o[p] \in {Unwritten, Exact(p)}

\* When the kernel returns, every tile whose number is cid modulo bnum has
\* been written: the loop bound covers the tail.
OutputsComplete == Done => \A p \in Tiles : p % bnum = cid => o[p] = Exact(p)

\* Every wait is matched by one signal of its own iteration: no counter ever
\* holds two signals, and a launch leaves none behind for the next.
FlagsBalanced ==
  \A v \in Vecs, s \in Slots :
    /\ sReady[v][s] <= 1 /\ aReady[v][s] <= 1
    /\ Done => sReady[v][s] = 0 /\ aReady[v][s] = 0

\* The inductive invariant.  Got counts the waits each side has passed; the
\* four cursors of the pipeline never spread over more than two iterations,
\* so an iteration owns its slot while it is in flight.
CubeGot == IF cpc \in {"consume", "reading"} THEN w + 1 ELSE w
VecGot(v) == IF vpc[v] \in {"load", "masking", "storing", "signal"} THEN vw[v] + 1 ELSE vw[v]

CubeCursor ==
  /\ cpc \in {"produce", "writing", "signal"} =>
       np < Iters /\ w < Iters /\ (np = w + 1 \/ (np = 0 /\ w = 0))
  /\ cpc \in {"wait", "consume", "reading"} =>
       w < Iters /\ (np = w + 2 \/ (np = Iters /\ np = w + 1))
  /\ cpc = "done" => w = Iters /\ np = Iters
  /\ cpc = "writing" => HasTile(np)
  /\ cpc = "reading" => HasTile(w)

VecCursor ==
  \A v \in Vecs :
    /\ CubeGot <= vw[v] /\ VecGot(v) <= np
    /\ IF vpc[v] = "done" THEN vw[v] = Iters ELSE vw[v] < Iters
    /\ vpc[v] \in {"load", "masking", "storing"} => HasTile(vw[v])

Counters ==
  \A v \in Vecs, s \in Slots :
    /\ sReady[v][s] = InFlight(VecGot(v), np, s)
    /\ aReady[v][s] = InFlight(CubeGot, vw[v], s)

\* What the slots and registers of the tiles in flight hold.
Contents ==
  /\ \A n \in 0 .. Iters :
       /\ n = np - 1 /\ HasTile(n) => S[Slot(n)] = Pid(n)
       /\ n = np - 2 /\ HasTile(n) /\ cpc \notin {"writing", "signal"} => S[Slot(n)] = Pid(n)
  /\ cpc = "signal" /\ HasTile(np) => S[Slot(np)] = Pid(np)
  /\ \A v \in Vecs :
       /\ vpc[v] \in {"masking", "storing"} => vreg[v] = Pid(vw[v])
       /\ vpc[v] = "signal" /\ HasTile(vw[v]) => A[Slot(vw[v])][v] = Pid(vw[v])
       /\ \A n \in 0 .. Iters : w <= n /\ n < vw[v] /\ HasTile(n) => A[Slot(n)][v] = Pid(n)
  /\ cpc = "reading" => creg = Exact(Pid(w))

Written == \A n \in 0 .. Iters : n < w /\ HasTile(n) => o[Pid(n)] = Exact(Pid(n))

RingInv == TypeOK /\ CubeCursor /\ VecCursor /\ Counters /\ Contents /\ OutputsExact /\ Written

\* The pipeline writes each output tile once, whole, and never again.
TileOut == AbstractOutput(o)

TM == INSTANCE TileMap WITH Pending <- Stale, out <- TileOut

ImplementsTileMap == TM!Spec

\* The handshake never leaves the Cube and the Vecs waiting for each other.
Termination == <>Done
=============================================================================
