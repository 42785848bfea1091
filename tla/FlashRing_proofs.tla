--------------------------- MODULE FlashRing_proofs ---------------------------
(***************************************************************************)
(* Proofs about FlashRing, for any number of tiles, cores and Vecs.        *)
(***************************************************************************)
EXTENDS FlashRing, TLAPS

USE DEF Counters2, NoSignal, Settle

LEMMA SlotFacts ==
  \A n \in Nat : /\ Slot(n) \in Slots
                 /\ Slot(n + 1) # Slot(n)
                 /\ Slot(n + 2) = Slot(n)
BY DEF Slot, Slots

LEMMA ItersFacts == Iters \in Nat /\ Iters > 0
BY SizesAssumption DEF Iters

LEMMA PidFacts ==
  ASSUME TypeOK, NEW n \in Nat
  PROVE  Pid(n) \in Nat /\ (HasTile(n) => Pid(n) \in Tiles /\ Pid(n) \in Values)
<1>1. n * bnum \in Nat
  BY SizesAssumption
<1>2. cid \in Nat
  BY SizesAssumption DEF TypeOK
<1>3. Pid(n) \in Nat
  BY <1>1, <1>2 DEF Pid
<1>4. QED
  BY <1>3, SizesAssumption DEF HasTile, Tiles, Values

\* The loop bound rounds up: the core of a tile reaches it.
LEMMA TileOfIteration ==
  ASSUME NEW p \in Tiles
  PROVE  /\ p \div bnum \in 0 .. Iters - 1
         /\ p = (p \div bnum) * bnum + (p % bnum)
<1> DEFINE q == p \div bnum
<1>1. p \in Nat /\ p < I
  BY SizesAssumption DEF Tiles
<1>2. q \in Nat /\ p = q * bnum + (p % bnum)
  BY <1>1, SizesAssumption
<1>3. (q + 1) * bnum <= I + bnum - 1
  BY <1>1, <1>2, SizesAssumption
<1>4. q + 1 <= Iters
  BY <1>1, <1>2, <1>3, SizesAssumption DEF Iters
<1>5. QED
  BY <1>2, <1>4, ItersFacts
-----------------------------------------------------------------------------
(* The inductive invariant, one lemma per action.                          *)

LEMMA InitRingInv == Init => RingInv
<1> SUFFICES ASSUME Init PROVE RingInv
  OBVIOUS
<1> USE ItersFacts, SizesAssumption, SlotFacts DEF Init, Unwritten
<1>1. TypeOK
  BY DEF TypeOK, Values, Slots
<1>2. CubeCursor /\ VecCursor
  BY DEF CubeCursor, VecCursor, CubeGot, VecGot
<1>3. Counters
  BY DEF Counters, CubeGot, VecGot, InFlight
<1>4. Contents /\ Written
  BY DEF Contents, Written
<1>5. OutputsExact
  BY DEF OutputsExact
<1>6. QED
  BY <1>1, <1>2, <1>3, <1>4, <1>5 DEF RingInv

\* The cursors in their order: Cube behind Vec behind the announced tiles.
LEMMA CursorFacts ==
  ASSUME RingInv, NEW v \in Vecs
  PROVE  /\ w \in Nat /\ np \in Nat /\ CubeGot \in Nat /\ vw[v] \in Nat /\ VecGot(v) \in Nat
         /\ w <= CubeGot /\ CubeGot <= w + 1 /\ CubeGot <= vw[v]
         /\ vw[v] <= VecGot(v) /\ VecGot(v) <= vw[v] + 1
         /\ VecGot(v) <= np /\ np <= w + 2 /\ np <= Iters
<1>1. w \in 0 .. Iters /\ np \in 0 .. Iters /\ vw[v] \in 0 .. Iters
  BY DEF RingInv, TypeOK
<1>2. np <= w + 2
  BY <1>1, ItersFacts DEF RingInv, TypeOK, CubeCursor
<1>3. w <= CubeGot /\ CubeGot <= w + 1 /\ CubeGot \in Nat
  BY <1>1, ItersFacts DEF CubeGot
<1>4. vw[v] <= VecGot(v) /\ VecGot(v) <= vw[v] + 1 /\ VecGot(v) \in Nat
  BY <1>1, ItersFacts DEF VecGot
<1>5. CubeGot <= vw[v] /\ VecGot(v) <= np
  BY DEF RingInv, VecCursor
<1>6. QED
  BY <1>1, <1>2, <1>3, <1>4, <1>5, ItersFacts

LEMMA ProduceInv == RingInv /\ Produce => RingInv'
<1> SUFFICES ASSUME RingInv, Produce PROVE RingInv'
  OBVIOUS
<1> USE ItersFacts DEF RingInv, Produce, vecVars
<1>0. /\ np \in Nat /\ w \in Nat /\ np < Iters
      /\ \A n : HasTile(n)' = HasTile(n) /\ Pid(n)' = Pid(n)
  BY DEF TypeOK, CubeCursor, HasTile, Pid
<1>1. TypeOK'
  BY <1>0, SlotFacts DEF TypeOK, Values
<1>2. CubeCursor' /\ VecCursor'
  BY <1>0 DEF CubeCursor, VecCursor, CubeGot, VecGot
<1>3. Counters'
  BY <1>0 DEF Counters, CubeGot, VecGot, InFlight
<1>4. Contents'
  <2>1. \A n \in 0 .. Iters : n = np - 1 /\ HasTile(n) => S'[Slot(n)] = Pid(n)
    <3> SUFFICES ASSUME NEW n \in 0 .. Iters, n = np - 1, HasTile(n)
                 PROVE  S'[Slot(n)] = Pid(n)
      OBVIOUS
    <3>1. n \in Nat /\ np = n + 1 /\ S[Slot(n)] = Pid(n)
      BY <1>0 DEF Contents
    <3>2. Slot(np) # Slot(n) /\ Slot(n) \in Slots
      BY <3>1, SlotFacts
    <3>3. QED
      BY <3>1, <3>2 DEF TypeOK
  <2>2. cpc' \in {"writing", "signal"} /\ (cpc' = "signal" => ~ HasTile(np))
    BY <1>0
  <2>3. QED
    BY <1>0, <2>1, <2>2 DEF Contents
<1>5. OutputsExact' /\ Written'
  BY <1>0 DEF OutputsExact, Written
<1>6. QED
  BY <1>1, <1>2, <1>3, <1>4, <1>5 DEF RingInv

LEMMA ProduceEndInv == RingInv /\ ProduceEnd => RingInv'
<1> SUFFICES ASSUME RingInv, ProduceEnd PROVE RingInv'
  OBVIOUS
<1> USE ItersFacts DEF RingInv, ProduceEnd, vecVars
<1>0. /\ np \in Nat /\ w \in Nat /\ np < Iters /\ HasTile(np)
      /\ \A n : HasTile(n)' = HasTile(n) /\ Pid(n)' = Pid(n)
  BY DEF TypeOK, CubeCursor, HasTile, Pid
<1>1. TypeOK'
  BY <1>0, SlotFacts, PidFacts DEF TypeOK
<1>2. CubeCursor' /\ VecCursor'
  BY <1>0 DEF CubeCursor, VecCursor, CubeGot, VecGot
<1>3. Counters'
  BY <1>0 DEF Counters, CubeGot, VecGot, InFlight
<1>4. Contents'
  <2>1. \A n \in 0 .. Iters : n = np - 1 /\ HasTile(n) => S'[Slot(n)] = Pid(n)
    <3> SUFFICES ASSUME NEW n \in 0 .. Iters, n = np - 1, HasTile(n)
                 PROVE  S'[Slot(n)] = Pid(n)
      OBVIOUS
    <3>1. n \in Nat /\ np = n + 1 /\ S[Slot(n)] = Pid(n)
      BY <1>0 DEF Contents
    <3>2. Slot(np) # Slot(n) /\ Slot(n) \in Slots
      BY <3>1, SlotFacts
    <3>3. QED
      BY <3>1, <3>2 DEF TypeOK
  <2>2. S'[Slot(np)] = Pid(np)
    BY <1>0, SlotFacts DEF TypeOK
  <2>3. QED
    BY <1>0, <2>1, <2>2 DEF Contents
<1>5. OutputsExact' /\ Written'
  BY <1>0 DEF OutputsExact, Written
<1>6. QED
  BY <1>1, <1>2, <1>3, <1>4, <1>5 DEF RingInv

LEMMA SignalSInv == RingInv /\ SignalS => RingInv'
<1> SUFFICES ASSUME RingInv, SignalS PROVE RingInv'
  OBVIOUS
<1> USE ItersFacts DEF RingInv, SignalS, vecVars
<1>0. /\ np \in Nat /\ w \in Nat /\ np < Iters /\ np' = np + 1
      /\ \A n : HasTile(n)' = HasTile(n) /\ Pid(n)' = Pid(n)
  BY DEF TypeOK, CubeCursor, HasTile, Pid
<1>1. TypeOK'
  BY <1>0, SlotFacts DEF TypeOK, CubeSignals, AfterSignal
<1>2. CubeCursor'
  BY <1>0 DEF TypeOK, CubeCursor, AfterSignal
<1>3. CubeGot' = CubeGot /\ \A v \in Vecs : VecGot(v)' = VecGot(v)
  BY DEF CubeGot, VecGot, AfterSignal
<1>4. VecCursor'
  BY <1>0, <1>3, CursorFacts DEF VecCursor
<1>5. Counters'
  <2> SUFFICES ASSUME NEW v \in Vecs, NEW s \in Slots
               PROVE  sReady'[v][s] = InFlight(VecGot(v), np + 1, s)
    BY <1>0, <1>3 DEF Counters, InFlight
  <2>1. /\ VecGot(v) \in Nat /\ VecGot(v) <= np /\ np <= VecGot(v) + 1
    BY <1>0 DEF TypeOK, CubeCursor, VecCursor, CubeGot, VecGot
  <2>2. sReady[v][s] = InFlight(VecGot(v), np, s)
    BY DEF Counters
  <2>3. sReady'[v][s] = IF s = Slot(np) THEN sReady[v][s] + 1 ELSE sReady[v][s]
    BY <1>0, SlotFacts DEF TypeOK, CubeSignals
  <2>4. CASE np = VecGot(v)
    BY <2>2, <2>3, <2>4, <1>0 DEF InFlight
  <2>5. CASE np = VecGot(v) + 1
    BY <2>1, <2>2, <2>3, <2>5, <1>0, SlotFacts DEF InFlight
  <2>6. QED
    BY <2>1, <2>4, <2>5, <1>0
<1>6. Contents'
  <2>1. cpc' \notin {"writing", "signal", "reading"}
    BY DEF AfterSignal
  <2>2. HasTile(np) => S[Slot(np)] = Pid(np)
    BY DEF Contents
  <2>3. \A n \in 0 .. Iters : n = np - 1 /\ HasTile(n) => S[Slot(n)] = Pid(n)
    BY DEF Contents
  <2>4. QED
    BY <1>0, <2>1, <2>2, <2>3 DEF Contents
<1>7. OutputsExact' /\ Written'
  BY <1>0 DEF OutputsExact, Written
<1>8. QED
  BY <1>1, <1>2, <1>4, <1>5, <1>6, <1>7 DEF RingInv

\* A signal of every Vec on the slot of iteration w is the one of iteration w.
LEMMA WaitAInv == RingInv /\ WaitA => RingInv'
<1> SUFFICES ASSUME RingInv, WaitA PROVE RingInv'
  OBVIOUS
<1> USE ItersFacts DEF RingInv, WaitA, vecVars
<1>0. /\ np \in Nat /\ w \in Nat /\ w < Iters /\ np <= w + 2
      /\ CubeGot = w /\ CubeGot' = w + 1
      /\ \A n : HasTile(n)' = HasTile(n) /\ Pid(n)' = Pid(n)
      /\ \A v \in Vecs : VecGot(v)' = VecGot(v)
  BY DEF TypeOK, CubeCursor, HasTile, Pid, CubeGot, VecGot
<1>1. ASSUME NEW v \in Vecs
      PROVE  /\ vw[v] \in Nat /\ w + 1 <= vw[v] /\ vw[v] <= w + 2
             /\ \A s \in Slots : aReady'[v][s] = InFlight(w + 1, vw[v], s)
             /\ aReady'[v] \in [Slots -> Nat]
  <2>1. vw[v] \in Nat /\ w <= vw[v] /\ vw[v] <= w + 2
    BY <1>0, CursorFacts
  <2>2. Slot(w) \in Slots /\ Slot(w + 1) # Slot(w)
    BY <1>0, SlotFacts
  <2>3. aReady[v][Slot(w)] > 0
    BY DEF CubeMayPass
  <2>4. \A s \in Slots : aReady[v][s] = InFlight(w, vw[v], s)
    BY <1>0 DEF Counters
  <2>5. w + 1 <= vw[v]
    BY <2>1, <2>2, <2>3, <2>4, <1>0 DEF InFlight
  <2>6. \A s \in Slots : aReady'[v][s] = IF s = Slot(w) THEN aReady[v][s] - 1 ELSE aReady[v][s]
    BY <1>0, <2>2 DEF TypeOK, CubePasses
  <2>7. \A s \in Slots : aReady'[v][s] = InFlight(w + 1, vw[v], s)
    BY <1>0, <2>1, <2>2, <2>4, <2>5, <2>6 DEF InFlight
  <2>8. aReady'[v] \in [Slots -> Nat]
    BY <2>2, <2>3 DEF TypeOK, CubePasses
  <2>9. QED
    BY <2>1, <2>5, <2>7, <2>8
<1>2. TypeOK'
  <2>1. aReady' \in [Vecs -> [Slots -> Nat]]
    BY <1>1 DEF CubePasses
  <2>2. QED
    BY <2>1 DEF TypeOK
<1>3. CubeCursor'
  BY <1>0 DEF CubeCursor
<1>4. VecCursor'
  BY <1>0, <1>1 DEF VecCursor
<1>5. Counters'
  BY <1>0, <1>1 DEF Counters, InFlight
<1>6. Contents'
  BY <1>0 DEF Contents
<1>7. OutputsExact' /\ Written'
  BY <1>0 DEF OutputsExact, Written
<1>8. QED
  BY <1>2, <1>3, <1>4, <1>5, <1>6, <1>7 DEF RingInv

LEMMA ConsumeInv == RingInv /\ Consume => RingInv'
<1> SUFFICES ASSUME RingInv, Consume PROVE RingInv'
  OBVIOUS
<1> USE ItersFacts DEF RingInv, Consume, vecVars
<1>0. /\ np \in Nat /\ w \in Nat /\ w < Iters
      /\ np = w + 2 \/ (np = Iters /\ np = w + 1)
      /\ CubeGot = w + 1
      /\ \A n : HasTile(n)' = HasTile(n) /\ Pid(n)' = Pid(n)
      /\ \A v \in Vecs : VecGot(v)' = VecGot(v) /\ vw[v] \in Nat /\ w < vw[v]
  BY DEF TypeOK, CubeCursor, VecCursor, HasTile, Pid, CubeGot, VecGot
<1>1. CASE HasTile(w)
  <2> USE <1>1
  <2>1. Slot(w) \in Slots
    BY <1>0, SlotFacts
  <2>2. TypeOK'
    BY <2>1 DEF TypeOK
  <2>3. CubeCursor' /\ VecCursor' /\ Counters'
    BY <1>0 DEF CubeCursor, VecCursor, Counters, CubeGot, VecGot, InFlight
  <2>4. creg' = Exact(Pid(w))
    <3>1. \A v \in Vecs : A[Slot(w)][v] = Pid(w)
      BY <1>0 DEF Contents
    <3>2. A[Slot(w)] \in [Vecs -> Values]
      BY <2>1 DEF TypeOK
    <3>3. QED
      BY <3>1, <3>2 DEF Exact
  <2>5. Contents'
    <3>1. Exact(Pid(w))' = Exact(Pid(w))
      BY <1>0 DEF Exact
    <3>2. QED
      BY <1>0, <2>4, <3>1 DEF Contents
  <2>6. OutputsExact' /\ Written'
    BY <1>0 DEF OutputsExact, Written
  <2>7. QED
    BY <2>2, <2>3, <2>5, <2>6
<1>2. CASE ~ HasTile(w)
  <2> USE <1>2 DEF AfterConsume
  <2>1. TypeOK'
    BY <1>0 DEF TypeOK
  <2>2. CubeCursor' /\ VecCursor' /\ Counters'
    BY <1>0 DEF TypeOK, CubeCursor, VecCursor, Counters, CubeGot, VecGot, InFlight
  <2>3. Contents'
    BY <1>0 DEF Contents
  <2>4. OutputsExact' /\ Written'
    BY <1>0 DEF OutputsExact, Written
  <2>5. QED
    BY <2>1, <2>2, <2>3, <2>4
<1>3. QED
  BY <1>1, <1>2

\* What the second matmul stores: both halves of A(w), unchanged while read.
LEMMA ConsumedIsExact ==
  ASSUME RingInv, ConsumeEnd
  PROVE  o' = [o EXCEPT ![Pid(w)] = Exact(Pid(w))] /\ (Pid(w) \in Tiles => o'[Pid(w)] = Exact(Pid(w)))
<1>0. w \in Nat /\ w < Iters /\ CubeGot = w + 1 /\ HasTile(w) /\ \A v \in Vecs : w < vw[v]
  BY CursorFacts, ItersFacts DEF RingInv, TypeOK, ConsumeEnd, CubeCursor, VecCursor, CubeGot
<1>1. creg = Exact(Pid(w)) /\ \A v \in Vecs : A[Slot(w)][v] = Pid(w)
  BY <1>0, CursorFacts, ItersFacts DEF RingInv, Contents, ConsumeEnd
<1>2. QED
  BY <1>1 DEF Exact, ConsumeEnd, RingInv, TypeOK

LEMMA ConsumeEndInv == RingInv /\ ConsumeEnd => RingInv'
<1> SUFFICES ASSUME RingInv, ConsumeEnd PROVE RingInv'
  OBVIOUS
<1> USE ItersFacts DEF RingInv, ConsumeEnd, vecVars, AfterConsume
<1>0. /\ np \in Nat /\ w \in Nat /\ w < Iters /\ HasTile(w)
      /\ np = w + 2 \/ (np = Iters /\ np = w + 1)
      /\ CubeGot = w + 1 /\ CubeGot' = w + 1
      /\ \A n : HasTile(n)' = HasTile(n) /\ Pid(n)' = Pid(n)
      /\ \A v \in Vecs : VecGot(v)' = VecGot(v)
  BY DEF TypeOK, CubeCursor, HasTile, Pid, CubeGot, VecGot
<1>1. o' = [o EXCEPT ![Pid(w)] = Exact(Pid(w))]
  BY ConsumedIsExact
<1>2. Pid(w) \in Tiles /\ Exact(Pid(w)) \in [Vecs -> Values]
  BY <1>0, PidFacts DEF Exact
<1>3. TypeOK'
  BY <1>0, <1>1, <1>2 DEF TypeOK
<1>4. CubeCursor'
  BY <1>0 DEF TypeOK, CubeCursor
<1>5. VecCursor' /\ Counters'
  BY <1>0 DEF VecCursor, Counters, InFlight
<1>6. Contents'
  BY <1>0 DEF Contents
<1>7. OutputsExact'
  BY <1>1, <1>2 DEF TypeOK, OutputsExact
<1>8. Written'
  <2> SUFFICES ASSUME NEW n \in 0 .. Iters, n < w + 1, HasTile(n)
               PROVE  o'[Pid(n)] = Exact(Pid(n))
    BY <1>0 DEF Written, Exact
  <2>1. n < w => o[Pid(n)] = Exact(Pid(n))
    BY DEF Written
  <2>2. Pid(n) \in Tiles
    BY PidFacts
  <2>3. n < w \/ n = w
    BY <1>0
  <2>4. QED
    BY <1>1, <1>2, <2>1, <2>2, <2>3 DEF TypeOK
<1>9. QED
  BY <1>3, <1>4, <1>5, <1>6, <1>7, <1>8

\* A pending signal on the slot of iteration vw[v] is the one of that iteration.
LEMMA WaitSInv == ASSUME RingInv, NEW v \in Vecs, WaitS(v) PROVE RingInv'
<1> USE ItersFacts DEF RingInv, WaitS, cubeVars
<1>0. /\ \A n : HasTile(n)' = HasTile(n) /\ Pid(n)' = Pid(n)
      /\ CubeGot' = CubeGot
      /\ VecGot(v) = vw[v] /\ VecGot(v)' = vw[v] + 1
      /\ \A u \in Vecs : u # v => VecGot(u)' = VecGot(u) /\ vpc'[u] = vpc[u]
      /\ vpc'[v] \in {"load", "signal"} /\ (vpc'[v] = "load" <=> HasTile(vw[v]))
  BY DEF TypeOK, HasTile, Pid, CubeGot, VecGot
<1>1. Slot(vw[v]) \in Slots /\ Slot(vw[v] + 1) # Slot(vw[v])
  BY CursorFacts, SlotFacts
<1>2. sReady[v][Slot(vw[v])] > 0
  BY DEF VecMayPass
<1>3. \A s \in Slots : sReady[v][s] = InFlight(vw[v], np, s)
  BY <1>0 DEF Counters
<1>4. vw[v] + 1 <= np /\ np <= vw[v] + 2
  BY <1>1, <1>2, <1>3, CursorFacts DEF InFlight
<1>5. /\ sReady' \in [Vecs -> [Slots -> Nat]]
      /\ \A u \in Vecs : u # v => sReady'[u] = sReady[u]
      /\ \A s \in Slots :
           sReady'[v][s] = IF s = Slot(vw[v]) THEN sReady[v][s] - 1 ELSE sReady[v][s]
  BY <1>1, <1>2 DEF TypeOK, VecPasses
<1>6. TypeOK'
  BY <1>5 DEF TypeOK
<1>7. CubeCursor'
  BY <1>0 DEF CubeCursor
<1>8. VecCursor'
  BY <1>0, <1>4, CursorFacts DEF VecCursor, TypeOK
<1>9. Counters'
  <2>1. \A s \in Slots : sReady'[v][s] = InFlight(vw[v] + 1, np, s)
    BY <1>1, <1>3, <1>4, <1>5, CursorFacts DEF InFlight
  <2>2. QED
    BY <1>0, <1>5, <2>1 DEF Counters, InFlight
<1>10. Contents'
  <2>1. vpc'[v] = "signal" => ~ HasTile(vw[v])
    BY <1>0
  <2>2. QED
    BY <1>0, <2>1 DEF Contents
<1>11. OutputsExact' /\ Written'
  BY <1>0 DEF OutputsExact, Written
<1>12. QED
  BY <1>6, <1>7, <1>8, <1>9, <1>10, <1>11

\* vw[v] is the last announced tile, or the one before it: in the second
\* case the Cube has not begun to replace it, for it waits for A(vw[v]).
LEMMA ScoreInSlot ==
  ASSUME RingInv, NEW v \in Vecs, VecGot(v) = vw[v] + 1, HasTile(vw[v])
  PROVE  S[Slot(vw[v])] = Pid(vw[v])
<1>1. vw[v] = np - 1 \/ (vw[v] = np - 2 /\ cpc \notin {"writing", "signal"})
  <2>1. vw[v] + 1 <= np /\ w <= vw[v] /\ np <= w + 2
    BY CursorFacts
  <2>2. cpc \in {"writing", "signal"} => np <= w + 1
    BY CursorFacts DEF RingInv, CubeCursor
  <2>3. QED
    BY <2>1, <2>2, CursorFacts
<1>2. vw[v] \in 0 .. Iters
  BY DEF RingInv, TypeOK
<1>3. QED
  BY <1>1, <1>2 DEF RingInv, Contents

LEMMA LoadInv == ASSUME RingInv, NEW v \in Vecs, Load(v) PROVE RingInv'
<1> USE ItersFacts DEF RingInv, Load, cubeVars
<1>0. /\ \A n : HasTile(n)' = HasTile(n) /\ Pid(n)' = Pid(n)
      /\ CubeGot' = CubeGot /\ VecGot(v) = vw[v] + 1
      /\ \A u \in Vecs : VecGot(u)' = VecGot(u)
      /\ HasTile(vw[v])
  BY DEF TypeOK, VecCursor, HasTile, Pid, CubeGot, VecGot
<1>1. Slot(vw[v]) \in Slots
  BY CursorFacts, SlotFacts
<1>2. S[Slot(vw[v])] = Pid(vw[v])
  BY <1>0, ScoreInSlot
<1>3. TypeOK'
  BY <1>1 DEF TypeOK
<1>4. CubeCursor' /\ Counters'
  BY <1>0 DEF CubeCursor, Counters, InFlight
<1>5. VecCursor'
  BY <1>0 DEF VecCursor, TypeOK
<1>6. vreg'[v] = Pid(vw[v]) /\ \A u \in Vecs : u # v => vreg'[u] = vreg[u] /\ vpc'[u] = vpc[u]
  BY <1>2 DEF TypeOK
<1>7. Contents'
  BY <1>0, <1>6 DEF Contents, TypeOK
<1>8. OutputsExact' /\ Written'
  BY <1>0 DEF OutputsExact, Written
<1>9. QED
  BY <1>3, <1>4, <1>5, <1>7, <1>8

\* Vec v writes its half of slot vw[v]: the tiles the Cube has not consumed
\* yet are less than two iterations behind, in the other slot.
LEMMA HalfSlotIsFree ==
  ASSUME RingInv, NEW v \in Vecs, VecGot(v) = vw[v] + 1,
         NEW n \in Nat, w <= n, n < vw[v]
  PROVE  Slot(n) # Slot(vw[v])
<1>1. vw[v] = n + 1
  BY CursorFacts
<1>2. QED
  BY <1>1, SlotFacts

LEMMA StoreInv == ASSUME RingInv, NEW v \in Vecs, Store(v) PROVE RingInv'
<1> USE ItersFacts DEF RingInv, Store, cubeVars
<1>0. /\ \A n : HasTile(n)' = HasTile(n) /\ Pid(n)' = Pid(n)
      /\ CubeGot' = CubeGot /\ VecGot(v) = vw[v] + 1
      /\ \A u \in Vecs : VecGot(u)' = VecGot(u)
      /\ HasTile(vw[v])
  BY DEF TypeOK, VecCursor, HasTile, Pid, CubeGot, VecGot
<1>1. Slot(vw[v]) \in Slots
  BY CursorFacts, SlotFacts
<1>2. S[Slot(vw[v])] = Pid(vw[v])
  BY <1>0, ScoreInSlot
<1>3. vreg' = vreg
  BY <1>2 DEF Contents, TypeOK
<1>4. /\ A' \in [Slots -> [Vecs -> Values]]
      /\ \A s \in Slots, u \in Vecs : s # Slot(vw[v]) \/ u # v => A'[s][u] = A[s][u]
  BY <1>1 DEF TypeOK, Values
<1>5. TypeOK'
  BY <1>3, <1>4 DEF TypeOK
<1>6. CubeCursor' /\ Counters'
  BY <1>0 DEF CubeCursor, Counters, InFlight
<1>7. VecCursor'
  BY <1>0 DEF VecCursor, TypeOK
<1>8. Contents'
  <2>1. ASSUME NEW u \in Vecs
        PROVE  /\ vpc'[u] \in {"masking", "storing"} => vreg'[u] = Pid(vw[u])
               /\ vpc'[u] = "signal" /\ HasTile(vw[u]) => A'[Slot(vw[u])][u] = Pid(vw[u])
    <3>1. CASE u = v
      BY <3>1, <1>3 DEF Contents, TypeOK
    <3>2. CASE u # v
      <4>1. vpc'[u] = vpc[u] /\ Slot(vw[u]) \in Slots
        BY <3>2, CursorFacts, SlotFacts DEF TypeOK
      <4>2. QED
        BY <3>2, <4>1, <1>3, <1>4 DEF Contents
    <3>3. QED
      BY <3>1, <3>2
  <2>2. ASSUME NEW u \in Vecs, NEW n \in 0 .. Iters, w <= n, n < vw[u], HasTile(n)
        PROVE  A'[Slot(n)][u] = Pid(n)
    <3>1. n \in Nat /\ Slot(n) \in Slots
      BY SlotFacts
    <3>2. u = v => Slot(n) # Slot(vw[v])
      BY <1>0, <2>2, <3>1, HalfSlotIsFree
    <3>3. QED
      BY <1>4, <2>2, <3>1, <3>2 DEF Contents
  <2>3. QED
    BY <1>0, <2>1, <2>2 DEF Contents
<1>9. OutputsExact' /\ Written'
  BY <1>0 DEF OutputsExact, Written
<1>10. QED
  BY <1>5, <1>6, <1>7, <1>8, <1>9

LEMMA StoreEndInv == ASSUME RingInv, NEW v \in Vecs, StoreEnd(v) PROVE RingInv'
<1> USE ItersFacts DEF RingInv, StoreEnd, cubeVars
<1>0. /\ \A n : HasTile(n)' = HasTile(n) /\ Pid(n)' = Pid(n)
      /\ CubeGot' = CubeGot /\ VecGot(v) = vw[v] + 1
      /\ \A u \in Vecs : VecGot(u)' = VecGot(u)
      /\ HasTile(vw[v]) /\ vreg[v] = Pid(vw[v])
  BY DEF TypeOK, VecCursor, Contents, HasTile, Pid, CubeGot, VecGot
<1>1. Slot(vw[v]) \in Slots
  BY CursorFacts, SlotFacts
<1>2. /\ A' \in [Slots -> [Vecs -> Values]]
      /\ A'[Slot(vw[v])][v] = Pid(vw[v])
      /\ \A s \in Slots, u \in Vecs : s # Slot(vw[v]) \/ u # v => A'[s][u] = A[s][u]
  BY <1>0, <1>1 DEF TypeOK
<1>3. TypeOK'
  BY <1>2 DEF TypeOK
<1>4. CubeCursor' /\ Counters'
  BY <1>0 DEF CubeCursor, Counters, InFlight
<1>5. VecCursor'
  BY <1>0 DEF VecCursor, TypeOK
<1>6. Contents'
  <2>1. ASSUME NEW u \in Vecs
        PROVE  /\ vpc'[u] \in {"masking", "storing"} => vreg'[u] = Pid(vw[u])
               /\ vpc'[u] = "signal" /\ HasTile(vw[u]) => A'[Slot(vw[u])][u] = Pid(vw[u])
    <3>1. CASE u = v
      BY <3>1, <1>2 DEF TypeOK
    <3>2. CASE u # v
      <4>1. vpc'[u] = vpc[u] /\ Slot(vw[u]) \in Slots
        BY <3>2, CursorFacts, SlotFacts DEF TypeOK
      <4>2. QED
        BY <3>2, <4>1, <1>2 DEF Contents
    <3>3. QED
      BY <3>1, <3>2
  <2>2. ASSUME NEW u \in Vecs, NEW n \in 0 .. Iters, w <= n, n < vw[u], HasTile(n)
        PROVE  A'[Slot(n)][u] = Pid(n)
    <3>1. n \in Nat /\ Slot(n) \in Slots
      BY SlotFacts
    <3>2. u = v => Slot(n) # Slot(vw[v])
      BY <1>0, <2>2, <3>1, HalfSlotIsFree
    <3>3. QED
      BY <1>2, <2>2, <3>1, <3>2 DEF Contents
  <2>3. QED
    BY <1>0, <2>1, <2>2 DEF Contents
<1>7. OutputsExact' /\ Written'
  BY <1>0 DEF OutputsExact, Written
<1>8. QED
  BY <1>3, <1>4, <1>5, <1>6, <1>7

LEMMA SignalAInv == ASSUME RingInv, NEW v \in Vecs, SignalA(v) PROVE RingInv'
<1> USE ItersFacts DEF RingInv, SignalA, cubeVars
<1>0. /\ \A n : HasTile(n)' = HasTile(n) /\ Pid(n)' = Pid(n)
      /\ CubeGot' = CubeGot /\ VecGot(v) = vw[v] + 1
      /\ vw[v] < Iters /\ vw'[v] = vw[v] + 1 /\ vpc'[v] \in {"wait", "done"}
      /\ \A u \in Vecs : u # v => vw'[u] = vw[u] /\ vpc'[u] = vpc[u]
      /\ \A u \in Vecs : VecGot(u)' = VecGot(u)
  BY DEF TypeOK, VecCursor, HasTile, Pid, CubeGot, VecGot
<1>1. Slot(vw[v]) \in Slots
  BY CursorFacts, SlotFacts
<1>2. /\ aReady' \in [Vecs -> [Slots -> Nat]]
      /\ \A u \in Vecs : u # v => aReady'[u] = aReady[u]
      /\ \A s \in Slots :
           aReady'[v][s] = IF s = Slot(vw[v]) THEN aReady[v][s] + 1 ELSE aReady[v][s]
  BY <1>1 DEF TypeOK, VecSignals
<1>3. TypeOK'
  <2>1. vw[v] + 1 \in 0 .. Iters
    BY <1>0, CursorFacts
  <2>2. vw' \in [Vecs -> 0 .. Iters]
    BY <2>1 DEF TypeOK
  <2>3. vpc' \in [Vecs -> {"wait", "load", "masking", "storing", "signal", "done"}]
    BY DEF TypeOK
  <2>4. QED
    BY <1>2, <2>2, <2>3 DEF TypeOK
<1>4. CubeCursor'
  BY <1>0 DEF CubeCursor
<1>5. VecCursor'
  <2>1. CubeGot <= vw[v] + 1
    BY CursorFacts
  <2>2. vpc'[v] = "done" <=> vw[v] + 1 = Iters
    BY DEF TypeOK
  <2>3. vw[v] + 1 <= Iters
    BY <1>0, CursorFacts
  <2>4. QED
    BY <1>0, <2>1, <2>2, <2>3, CursorFacts DEF VecCursor
<1>6. Counters'
  <2>1. vw[v] = CubeGot \/ vw[v] = CubeGot + 1
    BY <1>0, CursorFacts
  <2>2. \A s \in Slots : aReady[v][s] = InFlight(CubeGot, vw[v], s)
    BY DEF Counters
  <2>3. \A s \in Slots : aReady'[v][s] = InFlight(CubeGot, vw[v] + 1, s)
    <3>1. CASE vw[v] = CubeGot
      BY <1>2, <2>2, <3>1, CursorFacts DEF InFlight
    <3>2. CASE vw[v] = CubeGot + 1
      BY <1>2, <2>2, <3>2, CursorFacts, SlotFacts DEF InFlight
    <3>3. QED
      BY <2>1, <3>1, <3>2
  <2>4. QED
    BY <1>0, <1>2, <2>3 DEF Counters, InFlight
<1>7. Contents'
  <2>1. HasTile(vw[v]) => A[Slot(vw[v])][v] = Pid(vw[v])
    BY DEF Contents
  <2>2. ASSUME NEW n \in 0 .. Iters, w <= n, n < vw[v] + 1, HasTile(n)
        PROVE  A[Slot(n)][v] = Pid(n)
    <3>1. n < vw[v] \/ n = vw[v]
      BY <2>2, CursorFacts
    <3>2. QED
      BY <2>1, <2>2, <3>1 DEF Contents
  <2>3. QED
    BY <1>0, <2>2 DEF Contents
<1>8. OutputsExact' /\ Written'
  BY <1>0 DEF OutputsExact, Written
<1>9. QED
  BY <1>3, <1>4, <1>5, <1>6, <1>7, <1>8

LEMMA NextRingInv == RingInv /\ [Next]_vars => RingInv'
<1> SUFFICES ASSUME RingInv, [Next]_vars PROVE RingInv'
  OBVIOUS
<1>1. CASE Cube
  BY <1>1, ProduceInv, ProduceEndInv, SignalSInv, WaitAInv, ConsumeInv, ConsumeEndInv DEF Cube
<1>2. ASSUME NEW v \in Vecs, Vec(v) PROVE RingInv'
  BY <1>2, WaitSInv, LoadInv, StoreInv, StoreEndInv, SignalAInv DEF Vec
<1>3. CASE UNCHANGED vars
  BY <1>3 DEF vars, cubeVars, vecVars, RingInv, TypeOK, CubeCursor, VecCursor, Counters,
              Contents, OutputsExact, Written, HasTile, Pid, CubeGot, VecGot, InFlight
<1>4. QED
  BY <1>1, <1>2, <1>3 DEF Next, Exited
-----------------------------------------------------------------------------
(* The theorems.                                                           *)

\* Whatever the interleaving of the Cube and the Vecs, the invariant of the
\* two-slot pipeline holds.
THEOREM RingInvariance == Spec => []RingInv
BY InitRingInv, NextRingInv, PTL DEF Spec

\* The variables of one core keep their types.
THEOREM TypeCorrectness == Spec => []TypeOK
<1>1. RingInv => TypeOK
  BY DEF RingInv
<1>2. QED
  BY <1>1, RingInvariance, PTL

\* The cursors keep the two sides in different slots.
LEMMA SlotsApart == RingInv => SlotExclusion
<1> SUFFICES ASSUME RingInv, NEW v \in Vecs
             PROVE  /\ cpc = "writing" /\ vpc[v] \in {"load", "masking"}
                         => Slot(np) # Slot(vw[v])
                    /\ cpc = "reading" /\ vpc[v] = "storing" => Slot(w) # Slot(vw[v])
  BY DEF SlotExclusion
<1>1. ASSUME cpc = "writing", vpc[v] \in {"load", "masking"}
      PROVE  Slot(np) # Slot(vw[v])
  <2>1. np = vw[v] + 1
    BY <1>1, CursorFacts DEF RingInv, CubeCursor, VecGot
  <2>2. QED
    BY <2>1, CursorFacts, SlotFacts
<1>2. ASSUME cpc = "reading", vpc[v] = "storing"
      PROVE  Slot(w) # Slot(vw[v])
  <2>1. vw[v] = w + 1
    BY <1>2, CursorFacts DEF CubeGot, VecGot
  <2>2. QED
    BY <2>1, CursorFacts, SlotFacts
<1>3. QED
  BY <1>1, <1>2

\* The missing FREE flags are not needed: no slot is written while it is read.
THEOREM NoOverwrite == Spec => []SlotExclusion
BY SlotsApart, RingInvariance, PTL

\* What is written out comes from slots in flight.
LEMMA ExactOutputs == RingInv => OutputsExact
BY DEF RingInv

\* Every tile that is written is written whole, from its own score.
THEOREM OutputsAreExact == Spec => []OutputsExact
BY ExactOutputs, RingInvariance, PTL

\* Every tile of the core is the tile of some iteration.
LEMMA CompleteOutputs == RingInv => OutputsComplete
<1> SUFFICES ASSUME RingInv, Done, NEW p \in Tiles, p % bnum = cid
             PROVE  o[p] = Exact(p)
  BY DEF OutputsComplete
<1> DEFINE n == p \div bnum
<1>1. n \in 0 .. Iters - 1 /\ p = n * bnum + cid
  BY TileOfIteration
<1>2. n \in 0 .. Iters /\ n < Iters
  BY <1>1, ItersFacts
<1>3. w = Iters
  BY DEF RingInv, CubeCursor, Done
<1>4. Pid(n) = p /\ HasTile(n)
  BY <1>1, SizesAssumption DEF Pid, HasTile, Tiles
<1>5. QED
  BY <1>2, <1>3, <1>4 DEF RingInv, Written

\* When the core returns, it has written every tile assigned to it.
THEOREM OutputsAreComplete == Spec => []OutputsComplete
BY CompleteOutputs, RingInvariance, PTL

\* A counter is the number of signals in flight.
LEMMA BalancedFlags == RingInv => FlagsBalanced
<1> SUFFICES ASSUME RingInv, NEW v \in Vecs, NEW s \in Slots
             PROVE  /\ sReady[v][s] <= 1 /\ aReady[v][s] <= 1
                    /\ Done => sReady[v][s] = 0 /\ aReady[v][s] = 0
  BY DEF FlagsBalanced
<1>1. /\ sReady[v][s] = InFlight(VecGot(v), np, s)
      /\ aReady[v][s] = InFlight(CubeGot, vw[v], s)
  BY DEF RingInv, Counters
<1>2. Done => VecGot(v) = Iters /\ np = Iters /\ CubeGot = Iters /\ vw[v] = Iters
  BY DEF Done, RingInv, CubeCursor, VecCursor, CubeGot, VecGot
<1>3. QED
  BY <1>1, <1>2, ItersFacts DEF InFlight

\* No counter holds two signals, and none is left when the core returns.
THEOREM FlagsAreBalanced == Spec => []FlagsBalanced
BY BalancedFlags, RingInvariance, PTL

\* The refinement mapping, tile by tile.
LEMMA Mapping ==
  ASSUME RingInv, NEW p \in Tiles
  PROVE  /\ o[p] = Unwritten => TileOut[p] = Stale
         /\ o[p] = Exact(p) => TileOut[p] = p
         /\ o[p] = Unwritten \/ o[p] = Exact(p)
<1>1. Unwritten # Exact(p)
  <2>1. PICK v \in Vecs : TRUE
    BY VecsAssumption
  <2>2. Unwritten[v] = Stale /\ Exact(p)[v] = p
    BY DEF Unwritten, Exact
  <2>3. Stale # p
    BY DEF Stale, Tiles
  <2>4. QED
    BY <2>2, <2>3
<1>2. o[p] = Unwritten \/ o[p] = Exact(p)
  BY DEF RingInv, OutputsExact
<1>3. QED
  BY <1>1, <1>2 DEF TileOut, AbstractOutput

\* A step writes one whole tile of the abstract output, or none.
LEMMA StepRefines ==
  ASSUME RingInv, RingInv', [Next]_vars
  PROVE  [TM!Next]_TileOut
<1>1. CASE ConsumeEnd
  <2>1. Pid(w) \in Tiles
    <3>1. w \in Nat /\ HasTile(w) /\ TypeOK
      BY <1>1, ItersFacts DEF RingInv, CubeCursor, TypeOK, ConsumeEnd
    <3>2. QED
      BY <3>1, PidFacts
  <2>2. \A p \in Tiles : p # Pid(w) => o'[p] = o[p]
    BY <1>1, <2>1 DEF ConsumeEnd, RingInv, TypeOK
  <2>3. o'[Pid(w)] = Exact(Pid(w))
    BY <1>1, <2>1, ConsumedIsExact
  <2>4. \A p \in Tiles : TileOut'[p] = IF p = Pid(w) THEN p ELSE TileOut[p]
    <3>1. TAKE p \in Tiles
    <3>2. CASE p = Pid(w)
      BY <2>1, <2>3, <3>2 DEF TileOut, AbstractOutput, Exact, Unwritten
    <3>3. CASE p # Pid(w)
      BY <2>2, <3>3 DEF TileOut, AbstractOutput, Exact, Unwritten
    <3>4. QED
      BY <3>2, <3>3
  <2>5. TileOut' = [TileOut EXCEPT ![Pid(w)] = Pid(w)]
    BY <2>1, <2>4 DEF TileOut, AbstractOutput
  <2>6. CASE o[Pid(w)] = Unwritten
    BY <2>1, <2>5, <2>6, Mapping DEF TM!Next, TM!Finish
  <2>7. CASE o[Pid(w)] = Exact(Pid(w))
    <3>1. TileOut[Pid(w)] = Pid(w)
      BY <2>1, <2>7, Mapping
    <3>2. QED
      BY <2>1, <2>5, <3>1 DEF TileOut, AbstractOutput
  <2>8. QED
    BY <2>1, <2>6, <2>7, Mapping
<1>2. CASE UNCHANGED o
  BY <1>2 DEF TileOut, AbstractOutput, Exact, Unwritten
<1>3. QED
  BY <1>1, <1>2 DEF Next, Cube, Vec, Exited, vars, Produce, ProduceEnd, SignalS, WaitA,
                    Consume, WaitS, Load, Store, StoreEnd, SignalA

\* The pipeline implements the tile map, whatever its schedule.
THEOREM Refinement == Spec => ImplementsTileMap
<1>1. Init => TM!Init
  <2> SUFFICES ASSUME Init PROVE TileOut = [p \in Tiles |-> Stale]
    BY DEF TM!Init
  <2>1. RingInv
    BY InitRingInv
  <2>2. \A p \in Tiles : TileOut[p] = Stale
    BY <2>1, Mapping DEF Init
  <2>3. QED
    BY <2>2 DEF TileOut, AbstractOutput
<1>2. RingInv /\ RingInv' /\ [Next]_vars => [TM!Next]_TileOut
  BY StepRefines
<1>3. QED
  BY <1>1, <1>2, RingInvariance, PTL DEF Spec, ImplementsTileMap, TM!Spec
=============================================================================
