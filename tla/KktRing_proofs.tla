---------------------------- MODULE KktRing_proofs ----------------------------
(***************************************************************************)
(* Proofs about KktRing, for any number of tiles, cores and Vecs.          *)
(***************************************************************************)
EXTENDS KktRing, TLAPS

USE DEF Counters2, NoSignal, Settle

LEMMA SlotFacts ==
  \A n \in Nat : /\ Slot(n) \in Slots
                 /\ Slot(n + 1) # Slot(n)
                 /\ Slot(n + 2) = Slot(n)
BY DEF Slot, Slots

LEMMA ItersFacts == Iters \in Nat /\ Iters > 0
BY SizesAssumption DEF Iters

LEMMA PidFacts ==
  ASSUME TypeOK, NEW n \in Nat
  PROVE  Pid(n) \in Nat /\ (HasTile(n) => Pid(n) \in Tiles /\ Pid(n) \in Values)
<1>1. n * bnum \in Nat
  BY SizesAssumption
<1>2. cid \in Nat
  BY SizesAssumption DEF TypeOK
<1>3. Pid(n) \in Nat
  BY <1>1, <1>2 DEF Pid
<1>4. QED
  BY <1>3, SizesAssumption DEF HasTile, Tiles, Values

\* The loop bound rounds up: the core of a tile reaches it.
LEMMA TileOfIteration ==
  ASSUME NEW p \in Tiles
  PROVE  /\ p \div bnum \in 0 .. Iters - 1
         /\ p = (p \div bnum) * bnum + (p % bnum)
<1> DEFINE q == p \div bnum
<1>1. p \in Nat /\ p < I
  BY SizesAssumption DEF Tiles
<1>2. q \in Nat /\ p = q * bnum + (p % bnum)
  BY <1>1, SizesAssumption
<1>3. (q + 1) * bnum <= I + bnum - 1
  BY <1>1, <1>2, SizesAssumption
<1>4. q + 1 <= Iters
  BY <1>1, <1>2, <1>3, SizesAssumption DEF Iters
<1>5. QED
  BY <1>2, <1>4, ItersFacts
-----------------------------------------------------------------------------
(* The inductive invariant, one lemma per action.                          *)

LEMMA InitRingInv == Init => RingInv
<1> SUFFICES ASSUME Init PROVE RingInv
  OBVIOUS
<1> USE ItersFacts, SlotFacts DEF Init, Unwritten
<1>1. TypeOK
  BY DEF TypeOK, Values, Slots
<1>2. Cursors
  BY DEF Cursors, CubeGot, VecGot, Granted
<1>3. Counters
  BY DEF Counters, CubeGot, VecGot, Granted, InFlight
<1>4. Contents /\ Written
  BY DEF Contents, Written
<1>5. QED
  BY <1>1, <1>2, <1>3, <1>4 DEF RingInv

\* The cursors in their order: the Vec behind the Cube, which is at most two
\* iterations ahead, and not ahead at all of a Vec that has not primed.
LEMMA CursorFacts ==
  ASSUME RingInv, NEW v \in Vecs
  PROVE  /\ cw \in Nat /\ CubeGot \in Nat /\ vw[v] \in Nat /\ VecGot(v) \in Nat
         /\ Granted(v) \in Nat
         /\ vw[v] <= VecGot(v) /\ VecGot(v) <= vw[v] + 1 /\ VecGot(v) <= cw
         /\ cw <= CubeGot /\ CubeGot <= cw + 1 /\ CubeGot <= Granted(v)
         /\ Granted(v) <= vw[v] + 2 /\ cw <= Iters /\ vw[v] <= Iters
<1>1. cw \in 0 .. Iters /\ vw[v] \in 0 .. Iters
  BY DEF RingInv, TypeOK
<1>2. VecGot(v) <= cw /\ CubeGot <= Granted(v)
  BY DEF RingInv, Cursors
<1>3. vw[v] <= VecGot(v) /\ VecGot(v) <= vw[v] + 1 /\ VecGot(v) \in Nat
  BY <1>1, ItersFacts DEF VecGot
<1>4. cw <= CubeGot /\ CubeGot <= cw + 1 /\ CubeGot \in Nat
  BY <1>1, ItersFacts DEF CubeGot
<1>5. Granted(v) <= vw[v] + 2 /\ Granted(v) \in Nat
  BY <1>1, ItersFacts DEF Granted
<1>6. QED
  BY <1>1, <1>2, <1>3, <1>4, <1>5, ItersFacts

\* A credit of every Vec on the slot of iteration cw is the one it granted for
\* that iteration: the slot's earlier tile is drained.
LEMMA FillBeginInv == RingInv /\ FillBegin => RingInv'
<1> SUFFICES ASSUME RingInv, FillBegin PROVE RingInv'
  OBVIOUS
<1> USE ItersFacts DEF RingInv, FillBegin
<1>0. /\ cw \in Nat /\ cw < Iters /\ CubeGot = cw /\ CubeGot' = cw + 1
      /\ \A n : HasTile(n)' = HasTile(n) /\ Pid(n)' = Pid(n)
      /\ \A v \in Vecs : VecGot(v)' = VecGot(v) /\ Granted(v)' = Granted(v)
  BY DEF TypeOK, Cursors, HasTile, Pid, CubeGot, VecGot, Granted
<1>1. Slot(cw) \in Slots /\ Slot(cw + 1) # Slot(cw)
  BY <1>0, SlotFacts
<1>2. ASSUME NEW v \in Vecs
      PROVE  /\ cw + 1 <= Granted(v)
             /\ \A s \in Slots : free'[v][s] = InFlight(cw + 1, Granted(v), s)
             /\ free'[v] \in [Slots -> Nat]
  <2>1. free[v][Slot(cw)] > 0
    BY DEF CubeMayPass
  <2>2. \A s \in Slots : free[v][s] = InFlight(cw, Granted(v), s)
    BY <1>0 DEF Counters
  <2>3. /\ Granted(v) \in Nat /\ cw <= Granted(v) /\ Granted(v) <= cw + 2
    BY <1>0, CursorFacts
  <2>4. cw + 1 <= Granted(v)
    BY <2>1, <2>2, <2>3, <1>0, <1>1 DEF InFlight
  <2>5. \A s \in Slots : free'[v][s] = IF s = Slot(cw) THEN free[v][s] - 1 ELSE free[v][s]
    BY <1>1 DEF TypeOK, CubePasses
  <2>6. \A s \in Slots : free'[v][s] = InFlight(cw + 1, Granted(v), s)
    BY <1>0, <1>1, <2>2, <2>3, <2>4, <2>5 DEF InFlight
  <2>7. free'[v] \in [Slots -> Nat]
    BY <1>1, <2>1 DEF TypeOK, CubePasses
  <2>8. QED
    BY <2>4, <2>6, <2>7
<1>3. TypeOK'
  <2>1. free' \in [Vecs -> [Slots -> Nat]]
    BY <1>2 DEF CubePasses
  <2>2. ring' \in [Slots -> Values]
    BY <1>1 DEF TypeOK, Values
  <2>3. QED
    BY <2>1, <2>2 DEF TypeOK
<1>4. Cursors'
  BY <1>0, <1>2 DEF Cursors
<1>5. Counters'
  BY <1>0, <1>2 DEF Counters, InFlight
<1>6. Contents'
  <2> SUFFICES ASSUME NEW v \in Vecs, NEW n \in 0 .. Iters, vw[v] <= n, n < cw, HasTile(n)
               PROVE  ring'[Slot(n)] = Pid(n)
    BY <1>0 DEF Contents
  <2>1. n \in Nat /\ cw = n + 1
    BY <1>0, <1>2, CursorFacts
  <2>2. Slot(n) \in Slots /\ Slot(n) # Slot(cw)
    BY <2>1, SlotFacts
  <2>3. ring[Slot(n)] = Pid(n)
    BY DEF Contents
  <2>4. QED
    BY <2>2, <2>3 DEF TypeOK
<1>7. Written'
  BY <1>0 DEF Written
<1>8. QED
  BY <1>3, <1>4, <1>5, <1>6, <1>7

LEMMA FillEndInv == RingInv /\ FillEnd => RingInv'
<1> SUFFICES ASSUME RingInv, FillEnd PROVE RingInv'
  OBVIOUS
<1> USE ItersFacts DEF RingInv, FillEnd
<1>0. /\ cw \in Nat /\ cw < Iters /\ cw' = cw + 1 /\ CubeGot = cw + 1 /\ CubeGot' = cw + 1
      /\ \A n : HasTile(n)' = HasTile(n) /\ Pid(n)' = Pid(n)
      /\ \A v \in Vecs : VecGot(v)' = VecGot(v) /\ Granted(v)' = Granted(v)
  BY DEF TypeOK, Cursors, HasTile, Pid, CubeGot, VecGot, Granted
<1>1. Slot(cw) \in Slots
  BY <1>0, SlotFacts
<1>2. \A v \in Vecs, s \in Slots :
        ready'[v][s] = IF s = Slot(cw) THEN ready[v][s] + 1 ELSE ready[v][s]
  BY <1>1 DEF TypeOK, CubeSignals
<1>3. TypeOK'
  <2>1. ready' \in [Vecs -> [Slots -> Nat]]
    BY <1>1 DEF TypeOK, CubeSignals
  <2>2. ring' \in [Slots -> Values]
    BY <1>0, <1>1, PidFacts DEF TypeOK
  <2>3. QED
    BY <1>0, <2>1, <2>2 DEF TypeOK
<1>4. Cursors'
  BY <1>0, CursorFacts DEF Cursors
<1>5. Counters'
  <2> SUFFICES ASSUME NEW v \in Vecs, NEW s \in Slots
               PROVE  ready'[v][s] = InFlight(VecGot(v), cw + 1, s)
    BY <1>0 DEF Counters, InFlight
  <2>1. VecGot(v) \in Nat /\ VecGot(v) <= cw /\ cw <= VecGot(v) + 1
    BY <1>0, CursorFacts
  <2>2. ready[v][s] = InFlight(VecGot(v), cw, s)
    BY DEF Counters
  <2>3. CASE cw = VecGot(v)
    BY <1>0, <1>2, <2>2, <2>3 DEF InFlight
  <2>4. CASE cw = VecGot(v) + 1
    BY <1>0, <1>2, <2>1, <2>2, <2>4, SlotFacts DEF InFlight
  <2>5. QED
    BY <1>0, <2>1, <2>3, <2>4
<1>6. Contents'
  <2> SUFFICES ASSUME NEW v \in Vecs, NEW n \in 0 .. Iters, vw[v] <= n, n < cw + 1, HasTile(n)
               PROVE  ring'[Slot(n)] = Pid(n)
    BY <1>0 DEF Contents
  <2>1. CASE n = cw
    BY <1>1, <2>1 DEF TypeOK
  <2>2. CASE n # cw
    <3>1. n \in Nat /\ cw = n + 1
      BY <1>0, <2>2, CursorFacts
    <3>2. Slot(n) \in Slots /\ Slot(n) # Slot(cw)
      BY <3>1, SlotFacts
    <3>3. ring[Slot(n)] = Pid(n)
      BY <3>1 DEF Contents
    <3>4. QED
      BY <3>2, <3>3 DEF TypeOK
  <2>3. QED
    BY <2>1, <2>2
<1>7. Written'
  BY <1>0 DEF Written
<1>8. QED
  BY <1>3, <1>4, <1>5, <1>6, <1>7

LEMMA PrimeInv == ASSUME RingInv, NEW v \in Vecs, Prime(v) PROVE RingInv'
<1> USE ItersFacts DEF RingInv, Prime, Goto
<1>0. /\ \A n : HasTile(n)' = HasTile(n) /\ Pid(n)' = Pid(n)
      /\ CubeGot = 0 /\ CubeGot' = 0 /\ cw = 0 /\ vw[v] = 0
      /\ Granted(v) = 0 /\ Granted(v)' = 2 /\ vpc'[v] = "drain"
      /\ \A u \in Vecs : VecGot(u)' = VecGot(u)
      /\ \A u \in Vecs : u # v => vpc'[u] = vpc[u] /\ Granted(u)' = Granted(u)
  BY DEF TypeOK, Cursors, HasTile, Pid, CubeGot, VecGot, Granted
<1>1. /\ free' \in [Vecs -> [Slots -> Nat]]
      /\ \A u \in Vecs : u # v => free'[u] = free[u]
      /\ \A s \in Slots : free'[v][s] = free[v][s] + 1
  BY DEF TypeOK, VecSignals, Slots
<1>2. TypeOK'
  BY <1>1 DEF TypeOK
<1>3. Cursors'
  BY <1>0 DEF Cursors, TypeOK
<1>4. Counters'
  <2>1. \A s \in Slots : free[v][s] = 0
    BY <1>0 DEF Counters, InFlight
  <2>2. \A s \in Slots : InFlight(0, 2, s) = 1
    BY DEF InFlight, Slot, Slots
  <2>3. QED
    BY <1>0, <1>1, <2>1, <2>2 DEF Counters, InFlight
<1>5. Contents'
  BY <1>0 DEF Contents, TypeOK
<1>6. Written'
  BY <1>0 DEF Written
<1>7. QED
  BY <1>2, <1>3, <1>4, <1>5, <1>6

\* A READY signal on the slot of iteration vw[v] is the one of that iteration.
LEMMA DrainBeginInv == ASSUME RingInv, NEW v \in Vecs, DrainBegin(v) PROVE RingInv'
<1> USE ItersFacts DEF RingInv, DrainBegin, Goto
<1>0. /\ \A n : HasTile(n)' = HasTile(n) /\ Pid(n)' = Pid(n)
      /\ CubeGot' = CubeGot /\ VecGot(v) = vw[v] /\ VecGot(v)' = vw[v] + 1
      /\ vw[v] < Iters /\ vpc'[v] = "drainOut"
      /\ \A u \in Vecs : Granted(u)' = Granted(u)
      /\ \A u \in Vecs : u # v => vpc'[u] = vpc[u] /\ VecGot(u)' = VecGot(u)
  BY DEF TypeOK, Cursors, HasTile, Pid, CubeGot, VecGot, Granted
<1>1. Slot(vw[v]) \in Slots /\ Slot(vw[v] + 1) # Slot(vw[v])
  BY CursorFacts, SlotFacts
<1>2. ready[v][Slot(vw[v])] > 0
  BY DEF VecMayPass
<1>3. \A s \in Slots : ready[v][s] = InFlight(vw[v], cw, s)
  BY <1>0 DEF Counters
<1>4. vw[v] + 1 <= cw /\ cw <= vw[v] + 2
  BY <1>1, <1>2, <1>3, CursorFacts DEF InFlight
<1>5. /\ ready' \in [Vecs -> [Slots -> Nat]]
      /\ \A u \in Vecs : u # v => ready'[u] = ready[u]
      /\ \A s \in Slots :
           ready'[v][s] = IF s = Slot(vw[v]) THEN ready[v][s] - 1 ELSE ready[v][s]
  BY <1>1, <1>2 DEF TypeOK, VecPasses
<1>6. TypeOK'
  BY <1>1, <1>5 DEF TypeOK
<1>7. Cursors'
  BY <1>0, <1>4 DEF Cursors
<1>8. Counters'
  <2>1. \A s \in Slots : ready'[v][s] = InFlight(vw[v] + 1, cw, s)
    BY <1>1, <1>3, <1>4, <1>5, CursorFacts DEF InFlight
  <2>2. QED
    BY <1>0, <1>5, <2>1 DEF Counters, InFlight
<1>9. Contents'
  <2>1. HasTile(vw[v]) => ring[Slot(vw[v])] = Pid(vw[v])
    BY <1>4, CursorFacts DEF Contents
  <2>2. vreg'[v] = ring[Slot(vw[v])] /\ \A u \in Vecs : u # v => vreg'[u] = vreg[u]
    BY DEF TypeOK
  <2>3. QED
    BY <1>0, <2>1, <2>2 DEF Contents
<1>10. Written'
  BY <1>0 DEF Written
<1>11. QED
  BY <1>6, <1>7, <1>8, <1>9, <1>10

\* What a Vec stores: its half of the tile, the slot unchanged while drained.
LEMMA DrainedIsExact ==
  ASSUME RingInv, NEW v \in Vecs, DrainEnd(v), HasTile(vw[v])
  PROVE  /\ Pid(vw[v]) \in Tiles
         /\ L' = [L EXCEPT ![Pid(vw[v])][v] = Pid(vw[v])]
<1>1. vw[v] \in 0 .. Iters /\ VecGot(v) = vw[v] + 1 /\ vw[v] < cw
  BY CursorFacts DEF RingInv, TypeOK, DrainEnd, VecGot
<1>2. vreg[v] = Pid(vw[v]) /\ ring[Slot(vw[v])] = Pid(vw[v])
  BY <1>1 DEF RingInv, Contents, DrainEnd
<1>3. QED
  BY <1>1, <1>2, PidFacts DEF DrainEnd, RingInv

LEMMA DrainEndInv == ASSUME RingInv, NEW v \in Vecs, DrainEnd(v) PROVE RingInv'
<1> USE ItersFacts DEF RingInv, DrainEnd, Goto
<1>0. /\ \A n : HasTile(n)' = HasTile(n) /\ Pid(n)' = Pid(n)
      /\ CubeGot' = CubeGot /\ VecGot(v) = vw[v] + 1 /\ vw[v] < Iters
      /\ Granted(v) = vw[v] + 2 /\ vw'[v] = vw[v] + 1 /\ vpc'[v] \in {"drain", "done"}
      /\ vpc'[v] = "done" <=> ~ (vw[v] + 1 < Iters)
      /\ \A u \in Vecs : u # v => vw'[u] = vw[u] /\ vpc'[u] = vpc[u]
  BY DEF TypeOK, Cursors, HasTile, Pid, CubeGot, VecGot, Granted
<1>1. /\ VecGot(v)' = VecGot(v) /\ Granted(v)' = vw[v] + 3
      /\ \A u \in Vecs : u # v => VecGot(u)' = VecGot(u) /\ Granted(u)' = Granted(u)
  BY <1>0, CursorFacts DEF VecGot, Granted
<1>2. Slot(vw[v]) \in Slots /\ vw[v] \in Nat
  BY CursorFacts, SlotFacts
<1>3. /\ free' \in [Vecs -> [Slots -> Nat]]
      /\ \A u \in Vecs : u # v => free'[u] = free[u]
      /\ \A s \in Slots :
           free'[v][s] = IF s = Slot(vw[v]) THEN free[v][s] + 1 ELSE free[v][s]
  BY <1>2 DEF TypeOK, VecSignals
<1>4. HasTile(vw[v]) => /\ Pid(vw[v]) \in Tiles
                        /\ L' = [L EXCEPT ![Pid(vw[v])][v] = Pid(vw[v])]
  BY DrainedIsExact
<1>5. TypeOK'
  <2>1. vw' \in [Vecs -> 0 .. Iters]
    BY <1>0, <1>2 DEF TypeOK
  <2>2. vpc' \in [Vecs -> {"prime", "drain", "drainOut", "done"}]
    BY DEF TypeOK
  <2>3. L' \in [Tiles -> [Vecs -> Values]]
    BY <1>4 DEF TypeOK, Values
  <2>4. QED
    BY <1>3, <2>1, <2>2, <2>3 DEF TypeOK
<1>6. Cursors'
  <2>1. VecGot(v) <= cw /\ CubeGot <= vw[v] + 2
    BY <1>0, CursorFacts
  <2>2. CubeGot <= vw[v] + 3
    BY <2>1, CursorFacts
  <2>3. /\ IF vpc'[v] = "done" THEN vw'[v] = Iters ELSE vw'[v] < Iters
        /\ vpc'[v] # "prime"
    BY <1>0, <1>2
  <2>4. QED
    BY <1>0, <1>1, <2>1, <2>2, <2>3 DEF Cursors
<1>7. Counters'
  <2>1. \A s \in Slots : free[v][s] = InFlight(CubeGot, vw[v] + 2, s)
    BY <1>0 DEF Counters
  <2>2. CubeGot \in Nat /\ (CubeGot = vw[v] + 1 \/ CubeGot = vw[v] + 2)
    BY <1>0, CursorFacts
  <2>3. Slot(vw[v] + 2) = Slot(vw[v]) /\ Slot(vw[v] + 1) # Slot(vw[v])
    BY <1>2, SlotFacts
  <2>4. \A s \in Slots : free'[v][s] = InFlight(CubeGot, vw[v] + 3, s)
    <3>1. CASE CubeGot = vw[v] + 1
      <4>1. CubeGot + 1 = vw[v] + 2 /\ CubeGot < vw[v] + 2 /\ CubeGot < vw[v] + 3
            /\ CubeGot + 1 < vw[v] + 3 /\ ~ (CubeGot + 1 < vw[v] + 2)
        BY <3>1, <1>2
      <4>2. QED
        BY <4>1, <3>1, <2>1, <2>3, <1>3 DEF InFlight
    <3>2. CASE CubeGot = vw[v] + 2
      <4>1. ~ (CubeGot < vw[v] + 2) /\ CubeGot < vw[v] + 3
            /\ ~ (CubeGot + 1 < vw[v] + 3) /\ ~ (CubeGot + 1 < vw[v] + 2)
        BY <3>2, <1>2
      <4>2. QED
        BY <4>1, <3>2, <2>1, <2>3, <1>3 DEF InFlight
    <3>3. QED
      BY <2>2, <3>1, <3>2
  <2>5. QED
    BY <1>0, <1>1, <1>3, <2>4 DEF Counters, InFlight
<1>8. Contents'
  <2>1. vw'[v] > vw[v]
    BY <1>0, <1>2
  <2>2. \A n \in 0 .. Iters : vw'[v] <= n => vw[v] <= n
    BY <1>0, <1>2
  <2>3. QED
    BY <1>0, <2>2 DEF Contents
<1>9. Written'
  <2>1. ASSUME NEW u \in Vecs, NEW p \in Tiles PROVE L'[p][u] \in {Stale, p}
    BY <1>4 DEF Written, TypeOK
  <2>2. ASSUME NEW u \in Vecs, NEW n \in 0 .. Iters, n < vw'[u], HasTile(n)
        PROVE  L'[Pid(n)][u] = Pid(n)
    <3>0. n \in Nat /\ Pid(n) \in Tiles
      BY <2>2, PidFacts
    <3>1. CASE u = v /\ n = vw[v]
      BY <3>0, <3>1, <2>2, <1>4 DEF TypeOK
    <3>2. CASE u # v \/ n # vw[v]
      <4>1. n < vw[u]
        BY <3>2, <2>2, <1>0, <1>2
      <4>2. L[Pid(n)][u] = Pid(n)
        BY <4>1, <2>2 DEF Written
      <4>3. QED
        BY <4>2, <3>0, <1>4 DEF TypeOK
    <3>3. QED
      BY <3>1, <3>2
  <2>3. QED
    BY <1>0, <2>1, <2>2 DEF Written
<1>10. QED
  BY <1>5, <1>6, <1>7, <1>8, <1>9

LEMMA NextRingInv == RingInv /\ [Next]_vars => RingInv'
<1> SUFFICES ASSUME RingInv, [Next]_vars PROVE RingInv'
  OBVIOUS
<1>1. CASE Cube
  BY <1>1, FillBeginInv, FillEndInv DEF Cube
<1>2. ASSUME NEW v \in Vecs, Vec(v) PROVE RingInv'
  BY <1>2, PrimeInv, DrainBeginInv, DrainEndInv DEF Vec
<1>3. CASE UNCHANGED vars
  BY <1>3 DEF vars, RingInv, TypeOK, Cursors, Counters, Contents, Written,
              HasTile, Pid, CubeGot, VecGot, Granted, InFlight
<1>4. QED
  BY <1>1, <1>2, <1>3 DEF Next
-----------------------------------------------------------------------------
(* The theorems.                                                           *)

\* Whatever the interleaving of the Cube and the Vecs, the invariant of the
\* ring and its credits holds.
THEOREM RingInvariance == Spec => []RingInv
BY InitRingInv, NextRingInv, PTL DEF Spec

\* The variables of one core keep their types.
THEOREM TypeCorrectness == Spec => []TypeOK
<1>1. RingInv => TypeOK
  BY DEF RingInv
<1>2. QED
  BY <1>1, RingInvariance, PTL

\* The cursors keep the two sides in different slots.
LEMMA SlotsApart == RingInv => SlotExclusion
<1> SUFFICES ASSUME RingInv, NEW v \in Vecs, cpc = "fillOut", vpc[v] = "drainOut"
             PROVE  Slot(cw) # Slot(vw[v])
  BY DEF SlotExclusion
<1>1. cw = vw[v] + 1
  BY CursorFacts DEF CubeGot, VecGot
<1>2. QED
  BY <1>1, CursorFacts, SlotFacts

\* The FREE flags protect a slot: it is not filled while a Vec drains it.
THEOREM NoOverwrite == Spec => []SlotExclusion
BY SlotsApart, RingInvariance, PTL

\* What is written out comes from slots in flight.
LEMMA ExactOutputs == RingInv => OutputsExact
<1> SUFFICES ASSUME RingInv PROVE OutputsExact
  OBVIOUS
<1>1. \A p \in Tiles, v \in Vecs : L[p][v] \in {Stale, p}
  BY DEF RingInv, Written
<1>2. ASSUME Done, NEW p \in Tiles, p % bnum = cid PROVE L[p] = Exact(p)
  <2> DEFINE n == p \div bnum
  <2>1. n \in 0 .. Iters - 1 /\ p = n * bnum + cid
    BY <1>2, TileOfIteration
  <2>2. n \in 0 .. Iters /\ n < Iters
    BY <2>1, ItersFacts
  <2>3. Pid(n) = p /\ HasTile(n)
    BY <2>1, SizesAssumption DEF Pid, HasTile, Tiles
  <2>4. \A v \in Vecs : vw[v] = Iters
    BY <1>2 DEF Done, RingInv, Cursors
  <2>5. \A v \in Vecs : L[p][v] = p
    BY <2>2, <2>3, <2>4 DEF RingInv, Written
  <2>6. L[p] \in [Vecs -> Values]
    BY DEF RingInv, TypeOK
  <2>7. QED
    BY <2>5, <2>6 DEF Exact
<1>3. QED
  BY <1>1, <1>2 DEF OutputsExact

\* Each half of a tile is drained from that tile's own score, and a core that
\* returns has drained all of its tiles.
THEOREM OutputsAreExact == Spec => []OutputsExact
BY ExactOutputs, RingInvariance, PTL

\* A slot has one credit, wherever it is.
LEMMA CreditsAddUp == RingInv => OneCredit
<1> SUFFICES ASSUME RingInv, NEW v \in Vecs, NEW s \in Slots
             PROVE  ready[v][s] + free[v][s]
                      + ((IF cpc = "fillOut" /\ Slot(cw) = s THEN 1 ELSE 0)
                       + (IF vpc[v] = "drainOut" /\ Slot(vw[v]) = s THEN 1 ELSE 0))
                    = IF vpc[v] = "prime" THEN 0 ELSE 1
  BY DEF OneCredit
<1>1. /\ ready[v][s] = InFlight(VecGot(v), cw, s)
      /\ free[v][s] = InFlight(CubeGot, Granted(v), s)
  BY DEF RingInv, Counters
<1>2. CASE vpc[v] = "prime"
  <2>1. Granted(v) = 0 /\ CubeGot = 0 /\ cw = 0 /\ VecGot(v) = 0 /\ cpc # "fillOut"
    BY <1>2, CursorFacts DEF RingInv, Cursors, CubeGot, VecGot, Granted
  <2>2. QED
    BY <1>1, <1>2, <2>1 DEF InFlight
<1>3. CASE vpc[v] # "prime"
  <2>1. /\ vw[v] \in Nat /\ Granted(v) = vw[v] + 2
        /\ VecGot(v) = IF vpc[v] = "drainOut" THEN vw[v] + 1 ELSE vw[v]
        /\ CubeGot = IF cpc = "fillOut" THEN cw + 1 ELSE cw
        /\ cw \in Nat /\ VecGot(v) <= cw /\ CubeGot <= vw[v] + 2
    BY <1>3, CursorFacts DEF CubeGot, VecGot, Granted
  <2>2. s = Slot(vw[v]) \/ s = Slot(vw[v] + 1)
    BY <2>1 DEF Slots, Slot
  <2>3. Slot(vw[v] + 1) # Slot(vw[v]) /\ Slot(vw[v] + 2) = Slot(vw[v])
    BY <2>1, SlotFacts
  <2>4. cw = vw[v] \/ cw = vw[v] + 1 \/ cw = vw[v] + 2
    BY <2>1
  <2>5. CASE cw = vw[v]
    BY <1>1, <1>3, <2>1, <2>2, <2>3, <2>5 DEF InFlight
  <2>6. CASE cw = vw[v] + 1
    BY <1>1, <1>3, <2>1, <2>2, <2>3, <2>6 DEF InFlight
  <2>7. CASE cw = vw[v] + 2
    BY <1>1, <1>3, <2>1, <2>2, <2>3, <2>7 DEF InFlight
  <2>8. QED
    BY <2>4, <2>5, <2>6, <2>7
<1>4. QED
  BY <1>2, <1>3

\* A slot never has two credits, and once primed it never loses its one.
THEOREM CreditConserved == Spec => []OneCredit
BY CreditsAddUp, RingInvariance, PTL

\* The refinement mapping, half by half.
LEMMA Mapping ==
  ASSUME RingInv, NEW p \in Tiles, NEW v \in Vecs
  PROVE  /\ <<p, v>> \in Halves
         /\ \/ L[p][v] = Stale /\ HalfOut[<<p, v>>] = <<>>
            \/ L[p][v] = p /\ HalfOut[<<p, v>>] = <<p, v>>
<1>1. L[p][v] = Stale \/ L[p][v] = p
  BY DEF RingInv, Written
<1>2. Stale # p
  BY DEF Stale, Tiles
<1>3. QED
  BY <1>1, <1>2 DEF HalfOut, AbstractHalves, Halves

\* A step writes one whole half of the abstract output, or none.
LEMMA StepRefines ==
  ASSUME RingInv, RingInv', [Next]_vars
  PROVE  [TM!Next]_HalfOut
<1>1. ASSUME NEW v \in Vecs, DrainEnd(v), HasTile(vw[v]) PROVE [TM!Next]_HalfOut
  <2> DEFINE p == Pid(vw[v])
  <2>1. p \in Tiles /\ L' = [L EXCEPT ![p][v] = p]
    BY <1>1, DrainedIsExact
  <2>2. L \in [Tiles -> [Vecs -> Values]]
    BY DEF RingInv, TypeOK
  <2>3. L'[p][v] = p /\ p # Stale
    BY <2>1, <2>2 DEF Stale, Tiles
  <2>4. \A h \in Halves : h # <<p, v>> => L'[h[1]][h[2]] = L[h[1]][h[2]]
    BY <2>1, <2>2 DEF Halves
  <2>5. HalfOut' = [HalfOut EXCEPT ![<<p, v>>] = <<p, v>>]
    <3> HIDE DEF p
    <3>1. \A h \in Halves : HalfOut'[h] = IF h = <<p, v>> THEN <<p, v>> ELSE HalfOut[h]
      BY <2>3, <2>4 DEF HalfOut, AbstractHalves
    <3>2. QED
      BY <3>1 DEF HalfOut, AbstractHalves
  <2>6. CASE HalfOut[<<p, v>>] = <<>>
    BY <2>1, <2>5, <2>6, Mapping DEF TM!Next, TM!Finish
  <2>7. CASE HalfOut[<<p, v>>] = <<p, v>>
    BY <2>5, <2>7 DEF HalfOut, AbstractHalves
  <2>8. QED
    BY <2>1, <2>6, <2>7, Mapping
<1>2. CASE UNCHANGED L
  BY <1>2 DEF HalfOut, AbstractHalves
<1>3. QED
  BY <1>1, <1>2 DEF Next, Cube, Vec, vars, FillBegin, FillEnd, Prime, DrainBegin, DrainEnd

\* The ring implements the tile map, a tile being the half of one Vec.
THEOREM Refinement == Spec => ImplementsTileMap
<1>1. Init => TM!Init
  <2> SUFFICES ASSUME Init PROVE HalfOut = [h \in Halves |-> <<>>]
    BY DEF TM!Init
  <2>1. \A h \in Halves : L[h[1]][h[2]] = Stale
    BY DEF Init, Unwritten, Halves
  <2>2. QED
    BY <2>1 DEF HalfOut, AbstractHalves
<1>2. RingInv /\ RingInv' /\ [Next]_vars => [TM!Next]_HalfOut
  BY StepRefines
<1>3. QED
  BY <1>1, <1>2, RingInvariance, PTL DEF Spec, ImplementsTileMap, TM!Spec
=============================================================================
