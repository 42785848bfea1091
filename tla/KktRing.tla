------------------------------- MODULE KktRing -------------------------------
(***************************************************************************)
(* One AICore running kkt_fused_kernel_v2 (kernels/kkt_fused.h): the Cube  *)
(* fills a two-slot ring with score tiles, the Vecs drain it into L, each  *)
(* its half of the rows.  Here reuse of a slot is protected explicitly:    *)
(* the Vecs prime one FREE flag per slot and give it again after draining. *)
(* A stage is a begin and an end, as in PerDimFlash.                       *)
(***************************************************************************)
EXTENDS TileLaunch

VARIABLES
  cpc, cw,             \* Cube: place, loop counter
  vpc, vw, vreg,       \* each Vec: place, loop counter, tile being drained
  ready, free,         \* the counters of PP_READY + slot and PP_FREE + slot
  ring, L              \* the ring slots; the output, one part per half

vars == <<cid, cpc, cw, vpc, vw, vreg, ready, free, ring, L>>

TypeOK ==
  /\ cid \in 0 .. bnum - 1
  /\ cpc \in {"fill", "fillOut", "done"} /\ cw \in 0 .. Iters
  /\ vpc \in [Vecs -> {"prime", "drain", "drainOut", "done"}]
  /\ vw \in [Vecs -> 0 .. Iters] /\ vreg \in [Vecs -> Values]
  /\ ready \in Counters2 /\ free \in Counters2
  /\ ring \in [Slots -> Values]
  /\ L \in [Tiles -> [Vecs -> Values]]

Init ==
  /\ cid \in 0 .. bnum - 1
  /\ cpc = "fill" /\ cw = 0
  /\ vpc = [v \in Vecs |-> "prime"] /\ vw = [v \in Vecs |-> 0] /\ vreg = Unwritten
  /\ ready = NoSignal /\ free = NoSignal
  /\ ring = [s \in Slots |-> Stale]
  /\ L = [p \in Tiles |-> Unwritten]

FillBegin ==
  /\ cpc = "fill"
  /\ CubeMayPass(free, Slot(cw))
  /\ free' = CubePasses(free, Slot(cw))
  /\ ring' = IF HasTile(cw) THEN [ring EXCEPT ![Slot(cw)] = Torn] ELSE ring
  /\ cpc' = "fillOut"
  /\ UNCHANGED <<cid, cw, vpc, vw, vreg, ready, L>>

FillEnd ==
  /\ cpc = "fillOut"
  /\ ring' = IF HasTile(cw) THEN [ring EXCEPT ![Slot(cw)] = Pid(cw)] ELSE ring
  /\ ready' = CubeSignals(ready, Slot(cw))
  /\ cw' = cw + 1
  /\ cpc' = IF cw + 1 < Iters THEN "fill" ELSE "done"
  /\ UNCHANGED <<cid, vpc, vw, vreg, free, L>>

Goto(v, place) == vpc' = [vpc EXCEPT ![v] = place]

\* Slip: the slots are primed twice.
PrimeTwice(v) ==
  /\ vpc[v] = "prime" /\ Goto(v, "drain")
  /\ free' = VecSignals(VecSignals(VecSignals(VecSignals(free, v, 0), v, 1), v, 0), v, 1)
  /\ UNCHANGED <<cid, cpc, cw, vw, vreg, ready, ring, L>>

\* Slip: only the first slot is primed.
PrimeFirst(v) ==
  /\ vpc[v] = "prime" /\ Goto(v, "drain")
  /\ free' = VecSignals(free, v, 0)
  /\ UNCHANGED <<cid, cpc, cw, vw, vreg, ready, ring, L>>

\* Both slots are free, so that the Cube's first two tiles can start.
Prime(v) ==
  /\ vpc[v] = "prime" /\ Goto(v, "drain")
  /\ free' = VecSignals(VecSignals(free, v, 0), v, 1)
  /\ UNCHANGED <<cid, cpc, cw, vw, vreg, ready, ring, L>>

DrainBegin(v) ==
  /\ vpc[v] = "drain" /\ Goto(v, "drainOut")
  /\ VecMayPass(ready, v, Slot(vw[v]))
  /\ ready' = VecPasses(ready, v, Slot(vw[v]))
  /\ vreg' = [vreg EXCEPT ![v] = ring[Slot(vw[v])]]
  /\ UNCHANGED <<cid, cpc, cw, vw, free, ring, L>>

DrainEnd(v) ==
  /\ vpc[v] = "drainOut"
  /\ L' = IF HasTile(vw[v])
            THEN [L EXCEPT ![Pid(vw[v])][v] = Settle(vreg[v], ring[Slot(vw[v])])]
            ELSE L
  /\ free' = VecSignals(free, v, Slot(vw[v]))
  /\ vw' = [vw EXCEPT ![v] = @ + 1]
  /\ Goto(v, IF vw[v] + 1 < Iters THEN "drain" ELSE "done")
  /\ UNCHANGED <<cid, cpc, cw, vreg, ready, ring>>
-----------------------------------------------------------------------------
Cube   == FillBegin \/ FillEnd
Vec(v) == Prime(v) \/ DrainBegin(v) \/ DrainEnd(v)

Done == cpc = "done" /\ \A v \in Vecs : vpc[v] = "done"

Next == Cube \/ \E v \in Vecs : Vec(v)

Spec == Init /\ [][Next]_vars
-----------------------------------------------------------------------------
(* Properties.                                                             *)

\* The Cube never fills a slot a Vec is draining.
SlotExclusion ==
  \A v \in Vecs : cpc = "fillOut" /\ vpc[v] = "drainOut" => Slot(cw) # Slot(vw[v])

\* Each half of a tile of L comes from that tile's own score, and all the
\* tiles of the core are written.
OutputsExact ==
  /\ \A p \in Tiles, v \in Vecs : L[p][v] \in {Stale, p}
  /\ Done => \A p \in Tiles : p % bnum = cid => L[p] = Exact(p)

\* A slot has one credit, held by the Cube (filling), the Vecs (READY, or
\* draining) or the FREE counter: never two.  The launch ends with both
\* credits back in FREE, so the counters must be cleared between launches.
OneCredit ==
  \A v \in Vecs, s \in Slots :
    LET held == (IF cpc = "fillOut" /\ Slot(cw) = s THEN 1 ELSE 0)
              + (IF vpc[v] = "drainOut" /\ Slot(vw[v]) = s THEN 1 ELSE 0)
    IN ready[v][s] + free[v][s] + held = IF vpc[v] = "prime" THEN 0 ELSE 1

\* Each Vec drains its half of a tile once, whole, and never again.
HalfOut == AbstractHalves(L)

TM == INSTANCE TileMap WITH Tiles <- Halves, Pending <- <<>>, out <- HalfOut

ImplementsTileMap == TM!Spec

\* The inductive invariant.  A cursor counts the waits a side has passed, or
\* the credits the Vecs have granted; an iteration is filled, then ready, then
\* drained, and its slot is granted again two iterations later.
CubeGot    == IF cpc = "fillOut" THEN cw + 1 ELSE cw
VecGot(v)  == IF vpc[v] = "drainOut" THEN vw[v] + 1 ELSE vw[v]
Granted(v) == IF vpc[v] = "prime" THEN 0 ELSE vw[v] + 2

Cursors ==
  /\ IF cpc = "done" THEN cw = Iters ELSE cw < Iters
  /\ \A v \in Vecs :
       /\ IF vpc[v] = "done" THEN vw[v] = Iters ELSE vw[v] < Iters
       /\ vpc[v] = "prime" => vw[v] = 0
       /\ VecGot(v) <= cw /\ CubeGot <= Granted(v)

Counters ==
  \A v \in Vecs, s \in Slots :
    /\ ready[v][s] = InFlight(VecGot(v), cw, s)
    /\ free[v][s] = InFlight(CubeGot, Granted(v), s)

\* What the slots and registers of the iterations in flight hold.
Contents ==
  \A v \in Vecs :
    /\ vpc[v] = "drainOut" /\ HasTile(vw[v]) => vreg[v] = Pid(vw[v])
    /\ \A n \in 0 .. Iters : vw[v] <= n /\ n < cw /\ HasTile(n) => ring[Slot(n)] = Pid(n)

Written ==
  \A v \in Vecs :
    /\ \A p \in Tiles : L[p][v] \in {Stale, p}
    /\ \A n \in 0 .. Iters : n < vw[v] /\ HasTile(n) => L[Pid(n)][v] = Pid(n)

RingInv == TypeOK /\ Cursors /\ Counters /\ Contents /\ Written
=============================================================================
