-------------------------- MODULE PerDimFlash_proofs --------------------------
(***************************************************************************)
(* Proofs about PerDimFlash, for any number of tiles, cores and Vecs.      *)
(***************************************************************************)
EXTENDS PerDimFlash, TLAPS

USE DEF Counters2, NoSignal

LEMMA SlotFacts ==
  \A n \in Nat : /\ Slot(n) \in Slots
                 /\ Slot(n + 1) # Slot(n)
                 /\ Slot(n + 2) = Slot(n)
BY DEF Slot, Slots

LEMMA ItersFacts == Iters \in Nat /\ Iters > 0
BY SizesAssumption DEF Iters

LEMMA PidFacts ==
  ASSUME TypeOK, NEW n \in Nat
  PROVE  Pid(n) \in Nat /\ (HasTile(n) => Pid(n) \in Tiles /\ Pid(n) \in Values)
<1>1. n * bnum \in Nat
  BY SizesAssumption
<1>2. cid \in Nat
  BY SizesAssumption DEF TypeOK
<1>3. Pid(n) \in Nat
  BY <1>1, <1>2 DEF Pid
<1>4. QED
  BY <1>3, SizesAssumption DEF HasTile, Tiles, Values

\* The loop bound rounds up: the core of a tile reaches it.
LEMMA TileOfIteration ==
  ASSUME NEW p \in Tiles
  PROVE  /\ p \div bnum \in 0 .. Iters - 1
         /\ p = (p \div bnum) * bnum + (p % bnum)
<1> DEFINE q == p \div bnum
<1>1. p \in Nat /\ p < I
  BY SizesAssumption DEF Tiles
<1>2. q \in Nat /\ p = q * bnum + (p % bnum)
  BY <1>1, SizesAssumption
<1>3. (q + 1) * bnum <= I + bnum - 1
  BY <1>1, <1>2, SizesAssumption
<1>4. q + 1 <= Iters
  BY <1>1, <1>2, <1>3, SizesAssumption DEF Iters
<1>5. QED
  BY <1>2, <1>4, ItersFacts

\* A product is exact when the operands were, and did not change.
LEMMA ProductIsExact ==
  ASSUME NEW p \in Tiles, NEW half \in [Vecs -> Values], half = Exact(p)
  PROVE  Product(half, half) = p
<1>1. [v \in Vecs |-> Settle(half[v], half[v])] = Exact(p)
  BY DEF Settle, Exact
<1>2. Exact(p)[CHOOSE v \in Vecs : TRUE] = p
  BY VecsAssumption DEF Exact
<1>3. QED
  BY <1>1, <1>2 DEF Product

LEMMA ProductType ==
  ASSUME NEW before \in [Vecs -> Values], NEW now \in [Vecs -> Values]
  PROVE  Product(before, now) \in Values
<1> DEFINE half == [v \in Vecs |-> Settle(before[v], now[v])]
<1>1. CASE \E p \in Tiles : half = Exact(p)
  <2>1. PICK p \in Tiles : half = Exact(p)
    BY <1>1
  <2>2. Exact(p)[CHOOSE v \in Vecs : TRUE] = p
    BY VecsAssumption DEF Exact
  <2>3. QED
    BY <1>1, <2>1, <2>2 DEF Product, Values
<1>2. CASE ~ \E p \in Tiles : half = Exact(p)
  BY <1>2 DEF Product, Values
<1>3. QED
  BY <1>1, <1>2

\* A signal on the slot of the next iteration puts it in flight.
LEMMA SignalFlies ==
  ASSUME NEW from \in Nat, NEW to \in Nat, from <= to, to <= from + 1, NEW s \in Slots
  PROVE  InFlight(from, to + 1, s) =
           IF s = Slot(to) THEN InFlight(from, to, s) + 1 ELSE InFlight(from, to, s)
<1>1. CASE to = from
  BY <1>1 DEF InFlight
<1>2. CASE to = from + 1
  BY <1>2, SlotFacts DEF InFlight
<1>3. QED
  BY <1>1, <1>2

\* A wait that may pass finds the signal of its own iteration, and lands it.
LEMMA WaitLands ==
  ASSUME NEW from \in Nat, NEW to \in Nat, from <= to, to <= from + 2,
         InFlight(from, to, Slot(from)) > 0
  PROVE  /\ from + 1 <= to
         /\ \A s \in Slots :
              InFlight(from + 1, to, s) =
                IF s = Slot(from) THEN InFlight(from, to, s) - 1 ELSE InFlight(from, to, s)
<1>1. Slot(from) \in Slots /\ Slot(from + 1) # Slot(from)
  BY SlotFacts
<1>2. from + 1 <= to
  BY DEF InFlight
<1>3. QED
  BY <1>1, <1>2 DEF InFlight
-----------------------------------------------------------------------------
(* The inductive invariant, one lemma per action.                          *)

LEMMA InitRingInv == Init => RingInv
<1> SUFFICES ASSUME Init PROVE RingInv
  OBVIOUS
<1> USE ItersFacts, SizesAssumption, SlotFacts DEF Init, Unwritten
<1>1. TypeOK
  BY DEF TypeOK, Values, Slots
<1>2. CubeCursor /\ VecCursor
  BY DEF CubeCursor, VecCursor, CubeOpGot, CubeAGot, VecGot, Ahead
<1>3. Counters
  BY DEF Counters, CubeOpGot, CubeAGot, VecGot, InFlight
<1>4. Registers /\ Operands /\ Scores /\ Masked
  BY DEF Registers, Operands, Scores, Masked
<1>5. Written
  BY DEF Written
<1>6. QED
  BY <1>1, <1>2, <1>3, <1>4, <1>5 DEF RingInv

\* The cursors in the order of the pipeline, seen from one Vec.
LEMMA CursorFacts ==
  ASSUME RingInv, NEW v \in Vecs
  PROVE  /\ cw \in Nat /\ cn \in Nat /\ vw[v] \in Nat /\ vn[v] \in Nat
         /\ CubeAGot \in Nat /\ CubeOpGot \in Nat /\ VecGot(v) \in Nat
         /\ cw <= CubeAGot /\ CubeAGot <= cw + 1 /\ CubeAGot <= vw[v]
         /\ vw[v] <= VecGot(v) /\ VecGot(v) <= vw[v] + 1 /\ VecGot(v) <= cn
         /\ cn <= CubeOpGot /\ CubeOpGot <= cn + 1 /\ CubeOpGot <= vn[v]
         /\ cn <= cw + 2 /\ vn[v] <= vw[v] + 2
         /\ cw <= Iters /\ cn <= Iters /\ vw[v] <= Iters /\ vn[v] <= Iters
<1>1. cw \in 0 .. Iters /\ cn \in 0 .. Iters /\ vw[v] \in 0 .. Iters /\ vn[v] \in 0 .. Iters
  BY DEF RingInv, TypeOK
<1>2. /\ cw <= CubeAGot /\ CubeAGot <= cw + 1 /\ CubeAGot \in Nat
      /\ cn <= CubeOpGot /\ CubeOpGot <= cn + 1 /\ CubeOpGot \in Nat
  BY <1>1, ItersFacts DEF CubeAGot, CubeOpGot
<1>3. vw[v] <= VecGot(v) /\ VecGot(v) <= vw[v] + 1 /\ VecGot(v) \in Nat
  BY <1>1, ItersFacts DEF VecGot
<1>4. cn <= cw + 2
  BY DEF RingInv, CubeCursor
<1>5. CubeAGot <= vw[v] /\ VecGot(v) <= cn /\ CubeOpGot <= vn[v] /\ vn[v] <= vw[v] + 2
  BY DEF RingInv, VecCursor
<1>6. QED
  BY <1>1, <1>2, <1>3, <1>4, <1>5, ItersFacts

LEMMA CubeCursorFacts ==
  ASSUME RingInv
  PROVE  cw \in Nat /\ cn \in Nat /\ cw <= Iters /\ cn <= Iters /\ cw <= cn /\ cn <= cw + 2
<1>1. PICK v \in Vecs : TRUE
  BY VecsAssumption
<1>2. QED
  BY <1>1, CursorFacts

\* All Vecs have prescaled tile cn when the Cube's wait passes.
LEMMA ScoreBeginInv == RingInv /\ ScoreBegin => RingInv'
<1> SUFFICES ASSUME RingInv, ScoreBegin PROVE RingInv'
  OBVIOUS
<1> USE ItersFacts DEF RingInv, ScoreBegin, vecVars
<1>0. /\ cw \in Nat /\ cn \in Nat /\ cn < Iters /\ cn < cw + 2
      /\ CubeOpGot = cn /\ CubeOpGot' = cn + 1 /\ CubeAGot' = CubeAGot
      /\ \A n : HasTile(n)' = HasTile(n) /\ Pid(n)' = Pid(n) /\ Exact(n)' = Exact(n)
      /\ \A n, w : Ahead(n, w)' = Ahead(n, w)
      /\ \A v \in Vecs : VecGot(v)' = VecGot(v)
  BY CubeCursorFacts DEF CubeCursor, Ahead, HasTile, Pid, Exact, CubeOpGot, CubeAGot, VecGot
<1>1. Slot(cn) \in Slots
  BY <1>0, SlotFacts
<1>2. ASSUME NEW v \in Vecs
      PROVE  /\ cn + 1 <= vn[v]
             /\ opReady'[v] \in [Slots -> Nat]
             /\ \A s \in Slots : opReady'[v][s] = InFlight(cn + 1, vn[v], s)
  <2>1. \A s \in Slots : opReady[v][s] = InFlight(cn, vn[v], s)
    BY <1>0 DEF Counters
  <2>2. opReady[v][Slot(cn)] > 0
    BY DEF CubeMayPass
  <2>3. /\ cn + 1 <= vn[v]
        /\ \A s \in Slots : InFlight(cn + 1, vn[v], s) =
             IF s = Slot(cn) THEN InFlight(cn, vn[v], s) - 1 ELSE InFlight(cn, vn[v], s)
    <3>1. /\ vn[v] \in Nat /\ cn <= vn[v] /\ vn[v] <= cn + 2
      BY CursorFacts
    <3>2. InFlight(cn, vn[v], Slot(cn)) > 0
      BY <1>1, <2>1, <2>2
    <3>3. QED
      BY <1>0, <3>1, <3>2, WaitLands
  <2>4. \A s \in Slots :
          opReady'[v][s] = IF s = Slot(cn) THEN opReady[v][s] - 1 ELSE opReady[v][s]
    BY <1>1 DEF TypeOK, CubePasses
  <2>5. opReady'[v] \in [Slots -> Nat]
    BY <1>1, <2>2 DEF TypeOK, CubePasses
  <2>6. QED
    BY <2>1, <2>3, <2>4, <2>5
<1>3. TypeOK'
  <2>1. opReady' \in [Vecs -> [Slots -> Nat]]
    BY <1>2 DEF CubePasses
  <2>2. S' \in [Slots -> Values] /\ creg' \in [Vecs -> Values]
    BY <1>1 DEF TypeOK, Values
  <2>3. QED
    BY <2>1, <2>2 DEF TypeOK
<1>4. CubeCursor'
  BY <1>0 DEF CubeCursor
<1>5. VecCursor'
  BY <1>0, <1>2 DEF VecCursor
<1>6. Counters'
  BY <1>0, <1>2 DEF Counters, InFlight
<1>7. Registers'
  <2>1. ASSUME HasTile(cn) PROVE OP[Slot(cn)] = Exact(Pid(cn))
    <3>1. cn \in 0 .. Iters
      BY <1>0
    <3>2. \A v \in Vecs : OP[Slot(cn)][v] = Pid(cn)
      BY <1>0, <1>2, <2>1, <3>1, CursorFacts DEF Operands
    <3>3. OP[Slot(cn)] \in [Vecs -> Values]
      BY <1>1 DEF TypeOK
    <3>4. QED
      BY <3>2, <3>3 DEF Exact
  <2>2. QED
    BY <1>0, <2>1 DEF Registers
<1>8. Operands' /\ Masked' /\ Written'
  BY <1>0 DEF Operands, Masked, Written, Unwritten
<1>9. Scores'
  <2> SUFFICES ASSUME NEW v \in Vecs, NEW n \in 0 .. Iters, vw[v] <= n, n < cn, HasTile(n)
               PROVE  S'[Slot(n)] = Pid(n)
    BY <1>0 DEF Scores
  <2>1. S[Slot(n)] = Pid(n)
    BY DEF Scores
  <2>2. n \in Nat /\ cn = n + 1
    BY <1>0, CursorFacts
  <2>3. Slot(n) # Slot(cn) /\ Slot(n) \in Slots
    BY <2>2, SlotFacts
  <2>4. QED
    BY <2>1, <2>3 DEF TypeOK
<1>10. QED
  BY <1>3, <1>4, <1>5, <1>6, <1>7, <1>8, <1>9

LEMMA ScoreEndInv == RingInv /\ ScoreEnd => RingInv'
<1> SUFFICES ASSUME RingInv, ScoreEnd PROVE RingInv'
  OBVIOUS
<1> USE ItersFacts DEF RingInv, ScoreEnd, vecVars
<1>0. /\ cw \in Nat /\ cn \in Nat /\ cn < Iters /\ cn < cw + 2 /\ cw < Iters /\ cn' = cn + 1
      /\ CubeOpGot = cn + 1 /\ CubeOpGot' = cn + 1 /\ CubeAGot' = CubeAGot
      /\ \A n : HasTile(n)' = HasTile(n) /\ Pid(n)' = Pid(n) /\ Exact(n)' = Exact(n)
      /\ \A n, w : Ahead(n, w)' = Ahead(n, w)
      /\ \A v \in Vecs : VecGot(v)' = VecGot(v)
      /\ cpc' = IF Ahead(cn + 1, cw) THEN "score" ELSE "output"
  BY CubeCursorFacts
     DEF CubeCursor, Ahead, HasTile, Pid, Exact, CubeOpGot, CubeAGot, VecGot, Resume
<1>1. Slot(cn) \in Slots
  BY <1>0, SlotFacts
<1>2. HasTile(cn) => S'[Slot(cn)] = Pid(cn)
  <2> SUFFICES ASSUME HasTile(cn) PROVE Product(creg, OP[Slot(cn)]) = Pid(cn)
    BY <1>1 DEF TypeOK
  <2>1. creg = Exact(Pid(cn)) /\ Pid(cn) \in Tiles
    BY <1>0, PidFacts DEF Registers
  <2>2. OP[Slot(cn)] = Exact(Pid(cn))
    <3>1. cn \in 0 .. Iters
      BY <1>0
    <3>2. \A v \in Vecs : cn < vn[v]
      BY <1>0, CursorFacts
    <3>3. \A v \in Vecs : OP[Slot(cn)][v] = Pid(cn)
      BY <1>0, <3>1, <3>2 DEF Operands
    <3>4. OP[Slot(cn)] \in [Vecs -> Values]
      BY <1>1 DEF TypeOK
    <3>5. QED
      BY <3>3, <3>4 DEF Exact
  <2>3. QED
    BY <2>1, <2>2, ProductIsExact DEF TypeOK
<1>3. TypeOK'
  <2>1. S' \in [Slots -> Values]
    BY <1>1, ProductType DEF TypeOK
  <2>2. sReady' \in [Vecs -> [Slots -> Nat]]
    BY <1>1 DEF TypeOK, CubeSignals
  <2>3. QED
    BY <1>0, <2>1, <2>2 DEF TypeOK
<1>4. CubeCursor'
  BY <1>0 DEF CubeCursor
<1>5. VecCursor'
  <2>1. \A v \in Vecs : VecGot(v) <= cn + 1
    BY <1>0, CursorFacts
  <2>2. QED
    BY <1>0, <2>1 DEF VecCursor
<1>6. Counters'
  <2> SUFFICES ASSUME NEW v \in Vecs, NEW s \in Slots
               PROVE  sReady'[v][s] = InFlight(VecGot(v), cn + 1, s)
    BY <1>0 DEF Counters, InFlight
  <2>1. VecGot(v) \in Nat /\ VecGot(v) <= cn /\ cn <= VecGot(v) + 1
    BY <1>0, CursorFacts
  <2>2. sReady'[v][s] = IF s = Slot(cn) THEN sReady[v][s] + 1 ELSE sReady[v][s]
    BY <1>1 DEF TypeOK, CubeSignals
  <2>3. QED
    BY <1>0, <2>1, <2>2, SignalFlies DEF Counters
<1>7. Registers'
  BY <1>0 DEF Registers
<1>8. Operands' /\ Masked' /\ Written'
  BY <1>0 DEF Operands, Masked, Written, Unwritten
<1>9. Scores'
  <2> SUFFICES ASSUME NEW v \in Vecs, NEW n \in 0 .. Iters, vw[v] <= n, n < cn + 1, HasTile(n)
               PROVE  S'[Slot(n)] = Pid(n)
    BY <1>0 DEF Scores
  <2>1. CASE n = cn
    BY <1>2, <2>1
  <2>2. CASE n # cn
    <3>1. n < cn
      BY <1>0, <2>2
    <3>2. S[Slot(n)] = Pid(n)
      BY <3>1 DEF Scores
    <3>3. n \in Nat /\ cn = n + 1
      BY <1>0, <3>1, CursorFacts
    <3>4. Slot(n) # Slot(cn) /\ Slot(n) \in Slots
      BY <3>3, SlotFacts
    <3>5. QED
      BY <3>2, <3>4 DEF TypeOK
  <2>3. QED
    BY <2>1, <2>2
<1>10. QED
  BY <1>3, <1>4, <1>5, <1>6, <1>7, <1>8, <1>9

LEMMA OutputBeginInv == RingInv /\ OutputBegin => RingInv'
<1> SUFFICES ASSUME RingInv, OutputBegin PROVE RingInv'
  OBVIOUS
<1> USE ItersFacts DEF RingInv, OutputBegin, vecVars
<1>0. /\ cw \in Nat /\ cn \in Nat /\ cw < Iters
      /\ CubeAGot = cw /\ CubeAGot' = cw + 1 /\ CubeOpGot' = CubeOpGot
      /\ \A n : HasTile(n)' = HasTile(n) /\ Pid(n)' = Pid(n) /\ Exact(n)' = Exact(n)
      /\ \A n, w : Ahead(n, w)' = Ahead(n, w)
      /\ \A v \in Vecs : VecGot(v)' = VecGot(v)
  BY CubeCursorFacts DEF CubeCursor, Ahead, HasTile, Pid, Exact, CubeOpGot, CubeAGot, VecGot
<1>1. Slot(cw) \in Slots
  BY <1>0, SlotFacts
<1>2. ASSUME NEW v \in Vecs
      PROVE  /\ cw + 1 <= vw[v]
             /\ aReady'[v] \in [Slots -> Nat]
             /\ \A s \in Slots : aReady'[v][s] = InFlight(cw + 1, vw[v], s)
  <2>1. \A s \in Slots : aReady[v][s] = InFlight(cw, vw[v], s)
    BY <1>0 DEF Counters
  <2>2. aReady[v][Slot(cw)] > 0
    BY DEF CubeMayPass
  <2>3. /\ cw + 1 <= vw[v]
        /\ \A s \in Slots : InFlight(cw + 1, vw[v], s) =
             IF s = Slot(cw) THEN InFlight(cw, vw[v], s) - 1 ELSE InFlight(cw, vw[v], s)
    <3>1. /\ vw[v] \in Nat /\ cw <= vw[v] /\ vw[v] <= cw + 2
      BY CursorFacts
    <3>2. InFlight(cw, vw[v], Slot(cw)) > 0
      BY <1>1, <2>1, <2>2
    <3>3. QED
      BY <1>0, <3>1, <3>2, WaitLands
  <2>4. \A s \in Slots :
          aReady'[v][s] = IF s = Slot(cw) THEN aReady[v][s] - 1 ELSE aReady[v][s]
    BY <1>1 DEF TypeOK, CubePasses
  <2>5. aReady'[v] \in [Slots -> Nat]
    BY <1>1, <2>2 DEF TypeOK, CubePasses
  <2>6. QED
    BY <2>1, <2>3, <2>4, <2>5
<1>3. TypeOK'
  <2>1. aReady' \in [Vecs -> [Slots -> Nat]]
    BY <1>2 DEF CubePasses
  <2>2. creg' \in [Vecs -> Values]
    BY <1>1 DEF TypeOK
  <2>3. QED
    BY <2>1, <2>2 DEF TypeOK
<1>4. CubeCursor'
  BY <1>0 DEF CubeCursor
<1>5. VecCursor'
  BY <1>0, <1>2 DEF VecCursor
<1>6. Counters'
  BY <1>0, <1>2 DEF Counters, InFlight
<1>7. Registers'
  <2>1. ASSUME HasTile(cw) PROVE A[Slot(cw)] = Exact(Pid(cw))
    <3>1. cw \in 0 .. Iters
      BY <1>0
    <3>2. \A v \in Vecs : A[Slot(cw)][v] = Pid(cw)
      BY <1>0, <1>2, <2>1, <3>1, CursorFacts DEF Masked
    <3>3. A[Slot(cw)] \in [Vecs -> Values]
      BY <1>1 DEF TypeOK
    <3>4. QED
      BY <3>2, <3>3 DEF Exact
  <2>2. QED
    BY <1>0, <2>1 DEF Registers
<1>8. Operands' /\ Scores' /\ Masked' /\ Written'
  BY <1>0 DEF Operands, Scores, Masked, Written, Unwritten
<1>9. QED
  BY <1>3, <1>4, <1>5, <1>6, <1>7, <1>8

\* What the second matmul stores: both halves of A(cw), unchanged while read.
LEMMA OutputIsExact ==
  ASSUME RingInv, OutputEnd, HasTile(cw)
  PROVE  o' = [o EXCEPT ![Pid(cw)] = Exact(Pid(cw))] /\ Pid(cw) \in Tiles
<1>0. cw \in 0 .. Iters /\ cw \in Nat /\ CubeAGot = cw + 1
  BY CubeCursorFacts, ItersFacts DEF OutputEnd, CubeAGot
<1>1. ASSUME NEW v \in Vecs PROVE cw < vw[v]
  <2>1. CubeAGot <= vw[v] /\ vw[v] \in Nat
    BY CursorFacts
  <2>2. QED
    BY <1>0, <2>1
<1>2. creg = Exact(Pid(cw)) /\ \A v \in Vecs : A[Slot(cw)][v] = Pid(cw)
  BY <1>0, <1>1 DEF RingInv, Registers, Masked, OutputEnd
<1>3. [v \in Vecs |-> Settle(creg[v], A[Slot(cw)][v])] = Exact(Pid(cw))
  BY <1>2 DEF Exact, Settle
<1>4. Pid(cw) \in Tiles
  BY <1>0, PidFacts DEF RingInv
<1>5. QED
  BY <1>3, <1>4 DEF OutputEnd

LEMMA OutputEndInv == RingInv /\ OutputEnd => RingInv'
<1> SUFFICES ASSUME RingInv, OutputEnd PROVE RingInv'
  OBVIOUS
<1> USE ItersFacts DEF RingInv, OutputEnd, Resume, vecVars, flagVars
<1>0. /\ cw \in Nat /\ cn \in Nat /\ cw < Iters /\ cw' = cw + 1 /\ cn <= cw + 2
      /\ CubeAGot = cw + 1 /\ CubeAGot' = cw + 1 /\ CubeOpGot = cn /\ CubeOpGot' = cn
      /\ \A n : HasTile(n)' = HasTile(n) /\ Pid(n)' = Pid(n) /\ Exact(n)' = Exact(n)
      /\ \A n, w : Ahead(n, w)' = Ahead(n, w)
      /\ \A v \in Vecs : VecGot(v)' = VecGot(v)
  BY CubeCursorFacts DEF CubeCursor, Ahead, HasTile, Pid, Exact, CubeOpGot, CubeAGot, VecGot
<1>1. HasTile(cw) => /\ o' = [o EXCEPT ![Pid(cw)] = Exact(Pid(cw))]
                     /\ Pid(cw) \in Tiles
                     /\ Exact(Pid(cw)) \in [Vecs -> Values]
  BY OutputIsExact DEF Exact, Values
<1>2. TypeOK'
  <2>1. o' \in [Tiles -> [Vecs -> Values]]
    BY <1>1 DEF TypeOK
  <2>2. cw' \in 0 .. Iters
    BY <1>0
  <2>3. cpc' \in {"score", "output", "done"}
    OBVIOUS
  <2>4. QED
    BY <2>1, <2>2, <2>3 DEF TypeOK
<1>3. CubeCursor'
  <2>1. cpc' = IF cw + 1 = Iters THEN "done" ELSE IF Ahead(cn, cw + 1) THEN "score" ELSE "output"
    OBVIOUS
  <2>2. cn <= cw + 1 + 2 /\ (cw + 1 # Iters => cw + 1 < Iters)
    BY <1>0
  <2>3. QED
    BY <1>0, <2>1, <2>2 DEF CubeCursor
<1>4. VecCursor'
  BY <1>0 DEF VecCursor
<1>5. Counters'
  BY <1>0 DEF Counters, InFlight
<1>6. Registers'
  BY <1>0 DEF Registers
<1>7. Operands' /\ Scores'
  BY <1>0 DEF Operands, Scores
<1>8. Masked'
  <2> SUFFICES ASSUME NEW v \in Vecs, NEW n \in 0 .. Iters, cw + 1 <= n, n < vw[v], HasTile(n)
               PROVE  A[Slot(n)][v] = Pid(n)
    BY <1>0 DEF Masked
  <2>1. cw <= n
    BY <1>0
  <2>2. QED
    BY <2>1 DEF Masked
<1>9. Written'
  <2>1. ASSUME NEW p \in Tiles PROVE o'[p] \in {Unwritten, Exact(p)}
    BY <1>1 DEF Written, TypeOK
  <2>2. ASSUME NEW n \in 0 .. Iters, n < cw + 1, HasTile(n)
        PROVE  o'[Pid(n)] = Exact(Pid(n))
    <3>1. n < cw => o[Pid(n)] = Exact(Pid(n))
      BY <2>2 DEF Written
    <3>2. Pid(n) \in Tiles
      BY <2>2, PidFacts
    <3>3. n < cw \/ n = cw
      BY <1>0, <2>2
    <3>4. QED
      BY <1>1, <2>2, <3>1, <3>2, <3>3 DEF TypeOK
  <2>3. QED
    BY <1>0, <2>1, <2>2 DEF Written, Unwritten
<1>10. QED
  BY <1>2, <1>3, <1>4, <1>5, <1>6, <1>7, <1>8, <1>9

\* The operands of tile vn are written where no operands in flight are.
LEMMA OperandSlotIsFree ==
  ASSUME RingInv, NEW v \in Vecs, Ahead(vn[v], vw[v]),
         NEW n \in Nat, cn <= n, n < vn[v]
  PROVE  Slot(n) # Slot(vn[v]) /\ Slot(n) \in Slots
<1>1. vn[v] = n + 1
  BY CursorFacts DEF Ahead
<1>2. QED
  BY <1>1, SlotFacts

LEMMA ScaleBeginInv == ASSUME RingInv, NEW v \in Vecs, ScaleBegin(v) PROVE RingInv'
<1> USE ItersFacts DEF RingInv, ScaleBegin, cubeVars, flagVars
<1>0. /\ \A n : HasTile(n)' = HasTile(n) /\ Pid(n)' = Pid(n) /\ Exact(n)' = Exact(n)
      /\ \A n, w : Ahead(n, w)' = Ahead(n, w)
      /\ CubeOpGot' = CubeOpGot /\ CubeAGot' = CubeAGot
      /\ vpc'[v] = "scaleOut" /\ vw[v] < Iters /\ Ahead(vn[v], vw[v])
      /\ \A u \in Vecs : VecGot(u)' = VecGot(u)
      /\ \A u \in Vecs : u # v => vpc'[u] = vpc[u]
  BY DEF TypeOK, VecCursor, Ahead, HasTile, Pid, Exact, CubeOpGot, CubeAGot, VecGot
<1>1. Slot(vn[v]) \in Slots
  BY CursorFacts, SlotFacts
<1>2. /\ OP' \in [Slots -> [Vecs -> Values]]
      /\ \A s \in Slots, u \in Vecs : s # Slot(vn[v]) \/ u # v => OP'[s][u] = OP[s][u]
  BY <1>1 DEF TypeOK, Values
<1>3. TypeOK'
  BY <1>2 DEF TypeOK
<1>4. CubeCursor' /\ VecCursor'
  BY <1>0 DEF CubeCursor, VecCursor
<1>5. Counters'
  BY <1>0 DEF Counters, InFlight
<1>6. Registers' /\ Scores' /\ Masked' /\ Written'
  BY <1>0 DEF Registers, Scores, Masked, Written, Unwritten
<1>7. Operands'
  <2> SUFFICES ASSUME NEW u \in Vecs, NEW n \in 0 .. Iters, cn <= n, n < vn[u], HasTile(n)
               PROVE  OP'[Slot(n)][u] = Pid(n)
    BY <1>0 DEF Operands
  <2>1. OP[Slot(n)][u] = Pid(n) /\ n \in Nat /\ Slot(n) \in Slots
    BY SlotFacts DEF Operands
  <2>2. u = v => Slot(n) # Slot(vn[v])
    BY <1>0, <2>1, OperandSlotIsFree
  <2>3. QED
    BY <1>2, <2>1, <2>2
<1>8. QED
  BY <1>3, <1>4, <1>5, <1>6, <1>7

LEMMA ScaleEndInv == ASSUME RingInv, NEW v \in Vecs, ScaleEnd(v) PROVE RingInv'
<1> USE ItersFacts DEF RingInv, ScaleEnd, cubeVars
<1>0. /\ \A n : HasTile(n)' = HasTile(n) /\ Pid(n)' = Pid(n) /\ Exact(n)' = Exact(n)
      /\ \A n, w : Ahead(n, w)' = Ahead(n, w)
      /\ CubeOpGot' = CubeOpGot /\ CubeAGot' = CubeAGot
      /\ vw[v] < Iters /\ Ahead(vn[v], vw[v]) /\ vn'[v] = vn[v] + 1
      /\ vpc'[v] = IF Ahead(vn[v] + 1, vw[v]) THEN "scale" ELSE "mask"
      /\ \A u \in Vecs : VecGot(u)' = VecGot(u)
      /\ \A u \in Vecs : u # v => vpc'[u] = vpc[u] /\ vn'[u] = vn[u]
  BY DEF TypeOK, VecCursor, Ahead, HasTile, Pid, Exact, CubeOpGot, CubeAGot, VecGot, Resume
<1>1. Slot(vn[v]) \in Slots
  BY CursorFacts, SlotFacts
<1>2. HasTile(vn[v]) => Pid(vn[v]) \in Values
  BY CursorFacts, PidFacts
<1>3. /\ OP' \in [Slots -> [Vecs -> Values]]
      /\ \A s \in Slots, u \in Vecs : s # Slot(vn[v]) \/ u # v => OP'[s][u] = OP[s][u]
      /\ HasTile(vn[v]) => OP'[Slot(vn[v])][v] = Pid(vn[v])
  BY <1>1, <1>2 DEF TypeOK
<1>4. /\ opReady' \in [Vecs -> [Slots -> Nat]]
      /\ \A u \in Vecs : u # v => opReady'[u] = opReady[u]
      /\ \A s \in Slots :
           opReady'[v][s] = IF s = Slot(vn[v]) THEN opReady[v][s] + 1 ELSE opReady[v][s]
  BY <1>1 DEF TypeOK, VecSignals
<1>5. TypeOK'
  <2>1. vn' \in [Vecs -> 0 .. Iters]
    <3>1. vn[v] + 1 \in 0 .. Iters
      BY <1>0, CursorFacts DEF Ahead
    <3>2. QED
      BY <3>1 DEF TypeOK
  <2>2. vpc' \in [Vecs -> {"scale", "scaleOut", "mask", "maskOut", "done"}]
    BY DEF TypeOK, Resume
  <2>3. QED
    BY <1>3, <1>4, <2>1, <2>2 DEF TypeOK
<1>6. CubeCursor'
  BY <1>0 DEF CubeCursor
<1>7. VecCursor'
  <2>1. CubeOpGot <= vn[v] + 1 /\ vn[v] + 1 <= vw[v] + 2
    BY <1>0, CursorFacts DEF Ahead
  <2>2. QED
    BY <1>0, <2>1 DEF VecCursor
<1>8. Counters'
  <2>1. \A s \in Slots : opReady'[v][s] = InFlight(CubeOpGot, vn[v] + 1, s)
    <3>1. TAKE s \in Slots
    <3>2. /\ CubeOpGot \in Nat /\ vn[v] \in Nat
          /\ CubeOpGot <= vn[v] /\ vn[v] <= CubeOpGot + 1
      BY <1>0, CursorFacts DEF Ahead
    <3>3. opReady[v][s] = InFlight(CubeOpGot, vn[v], s)
      BY DEF Counters
    <3>4. QED
      BY <1>4, <3>2, <3>3, SignalFlies
  <2>2. QED
    BY <1>0, <1>4, <2>1 DEF Counters, InFlight
<1>9. Registers' /\ Scores' /\ Masked' /\ Written'
  BY <1>0 DEF Registers, Scores, Masked, Written, Unwritten
<1>10. Operands'
  <2> SUFFICES ASSUME NEW u \in Vecs, NEW n \in 0 .. Iters, cn <= n, n < vn'[u], HasTile(n)
               PROVE  OP'[Slot(n)][u] = Pid(n)
    BY <1>0 DEF Operands
  <2>1. CASE u = v /\ n = vn[v]
    BY <1>3, <2>1
  <2>2. CASE u # v \/ n # vn[v]
    <3>1. n < vn[u] /\ n \in Nat
      BY <1>0, <2>2, CursorFacts
    <3>2. OP[Slot(n)][u] = Pid(n) /\ Slot(n) \in Slots
      BY <3>1, SlotFacts DEF Operands
    <3>3. u = v => Slot(n) # Slot(vn[v])
      BY <1>0, <3>1, OperandSlotIsFree
    <3>4. QED
      BY <1>3, <3>2, <3>3
  <2>3. QED
    BY <2>1, <2>2
<1>11. QED
  BY <1>3, <1>5, <1>6, <1>7, <1>8, <1>9, <1>10

\* Vec v writes its half of slot vw[v]: what the Cube has not consumed yet is
\* one iteration behind, in the other slot.
LEMMA HalfSlotIsFree ==
  ASSUME RingInv, NEW v \in Vecs, vw[v] + 1 <= cn,
         NEW n \in Nat, cw <= n, n < vw[v]
  PROVE  Slot(n) # Slot(vw[v]) /\ Slot(n) \in Slots
<1>1. vw[v] = n + 1
  BY CursorFacts
<1>2. QED
  BY <1>1, SlotFacts

LEMMA MaskBeginInv == ASSUME RingInv, NEW v \in Vecs, MaskBegin(v) PROVE RingInv'
<1> USE ItersFacts DEF RingInv, MaskBegin, cubeVars
<1>0. /\ \A n : HasTile(n)' = HasTile(n) /\ Pid(n)' = Pid(n) /\ Exact(n)' = Exact(n)
      /\ \A n, w : Ahead(n, w)' = Ahead(n, w)
      /\ CubeOpGot' = CubeOpGot /\ CubeAGot' = CubeAGot
      /\ vpc'[v] = "maskOut" /\ vw[v] < Iters /\ ~ Ahead(vn[v], vw[v])
      /\ VecGot(v) = vw[v] /\ VecGot(v)' = vw[v] + 1
      /\ \A u \in Vecs : u # v => vpc'[u] = vpc[u] /\ VecGot(u)' = VecGot(u)
  BY DEF TypeOK, VecCursor, Ahead, HasTile, Pid, Exact, CubeOpGot, CubeAGot, VecGot
<1>1. Slot(vw[v]) \in Slots
  BY CursorFacts, SlotFacts
<1>2. \A s \in Slots : sReady[v][s] = InFlight(vw[v], cn, s)
  BY <1>0 DEF Counters
<1>3. sReady[v][Slot(vw[v])] > 0
  BY DEF VecMayPass
<1>4. /\ vw[v] + 1 <= cn
      /\ \A s \in Slots : InFlight(vw[v] + 1, cn, s) =
           IF s = Slot(vw[v]) THEN InFlight(vw[v], cn, s) - 1 ELSE InFlight(vw[v], cn, s)
  <2>1. vw[v] \in Nat /\ cn \in Nat /\ vw[v] <= cn /\ cn <= vw[v] + 2
    BY CursorFacts
  <2>2. InFlight(vw[v], cn, Slot(vw[v])) > 0
    BY <1>1, <1>2, <1>3
  <2>3. QED
    BY <2>1, <2>2, WaitLands
<1>5. /\ sReady' \in [Vecs -> [Slots -> Nat]]
      /\ \A u \in Vecs : u # v => sReady'[u] = sReady[u]
      /\ \A s \in Slots :
           sReady'[v][s] = IF s = Slot(vw[v]) THEN sReady[v][s] - 1 ELSE sReady[v][s]
  BY <1>1, <1>3 DEF TypeOK, VecPasses
<1>6. /\ A' \in [Slots -> [Vecs -> Values]]
      /\ \A s \in Slots, u \in Vecs : s # Slot(vw[v]) \/ u # v => A'[s][u] = A[s][u]
  BY <1>1 DEF TypeOK, Values
<1>7. TypeOK'
  <2>1. vreg' \in [Vecs -> Values]
    BY <1>1 DEF TypeOK
  <2>2. QED
    BY <1>5, <1>6, <2>1 DEF TypeOK
<1>8. CubeCursor'
  BY <1>0 DEF CubeCursor
<1>9. VecCursor'
  BY <1>0, <1>4 DEF VecCursor
<1>10. Counters'
  <2>1. \A s \in Slots : sReady'[v][s] = InFlight(vw[v] + 1, cn, s)
    BY <1>2, <1>4, <1>5
  <2>2. QED
    BY <1>0, <1>5, <2>1 DEF Counters, InFlight
<1>11. Registers'
  <2>1. HasTile(vw[v]) => vreg'[v] = Pid(vw[v])
    <3>1. vw[v] \in 0 .. Iters /\ vw[v] <= vw[v] /\ vw[v] < cn
      BY <1>4, CursorFacts
    <3>2. HasTile(vw[v]) => S[Slot(vw[v])] = Pid(vw[v])
      BY <3>1 DEF Scores
    <3>3. QED
      BY <3>2 DEF TypeOK
  <2>2. \A u \in Vecs : u # v => vreg'[u] = vreg[u]
    BY DEF TypeOK
  <2>3. QED
    BY <1>0, <2>1, <2>2 DEF Registers
<1>12. Operands' /\ Scores' /\ Written'
  BY <1>0 DEF Operands, Scores, Written, Unwritten
<1>13. Masked'
  <2> SUFFICES ASSUME NEW u \in Vecs, NEW n \in 0 .. Iters, cw <= n, n < vw[u], HasTile(n)
               PROVE  A'[Slot(n)][u] = Pid(n)
    BY <1>0 DEF Masked
  <2>1. A[Slot(n)][u] = Pid(n) /\ n \in Nat /\ Slot(n) \in Slots
    BY SlotFacts DEF Masked
  <2>2. u = v => Slot(n) # Slot(vw[v])
    BY <1>4, <2>1, HalfSlotIsFree
  <2>3. QED
    BY <1>6, <2>1, <2>2
<1>14. QED
  BY <1>7, <1>8, <1>9, <1>10, <1>11, <1>12, <1>13

LEMMA MaskEndInv == ASSUME RingInv, NEW v \in Vecs, MaskEnd(v) PROVE RingInv'
<1> USE ItersFacts DEF RingInv, MaskEnd, cubeVars
<1>0. /\ \A n : HasTile(n)' = HasTile(n) /\ Pid(n)' = Pid(n) /\ Exact(n)' = Exact(n)
      /\ \A n, w : Ahead(n, w)' = Ahead(n, w)
      /\ CubeOpGot' = CubeOpGot /\ CubeAGot' = CubeAGot
      /\ vw[v] < Iters /\ vw'[v] = vw[v] + 1
      /\ vpc'[v] = IF vw[v] + 1 = Iters THEN "done"
                   ELSE IF Ahead(vn[v], vw[v] + 1) THEN "scale" ELSE "mask"
      /\ VecGot(v) = vw[v] + 1 /\ VecGot(v)' = vw[v] + 1
      /\ \A u \in Vecs : u # v => vpc'[u] = vpc[u] /\ vw'[u] = vw[u] /\ VecGot(u)' = VecGot(u)
  BY DEF TypeOK, VecCursor, Ahead, HasTile, Pid, Exact, CubeOpGot, CubeAGot, VecGot, Resume
<1>1. Slot(vw[v]) \in Slots
  BY CursorFacts, SlotFacts
<1>2. vw[v] + 1 <= cn /\ vw[v] \in Nat
  BY <1>0, CursorFacts
<1>3. HasTile(vw[v]) => /\ Settle(vreg[v], S[Slot(vw[v])]) = Pid(vw[v])
                        /\ Pid(vw[v]) \in Values
  <2>1. vw[v] \in 0 .. Iters /\ vw[v] <= vw[v] /\ vw[v] < cn
    BY <1>2, CursorFacts
  <2>2. HasTile(vw[v]) => S[Slot(vw[v])] = Pid(vw[v])
    BY <2>1 DEF Scores
  <2>3. QED
    BY <1>2, <2>2, PidFacts DEF Registers, Settle
<1>4. /\ A' \in [Slots -> [Vecs -> Values]]
      /\ \A s \in Slots, u \in Vecs : s # Slot(vw[v]) \/ u # v => A'[s][u] = A[s][u]
      /\ HasTile(vw[v]) => A'[Slot(vw[v])][v] = Pid(vw[v])
  BY <1>1, <1>3 DEF TypeOK
<1>5. /\ aReady' \in [Vecs -> [Slots -> Nat]]
      /\ \A u \in Vecs : u # v => aReady'[u] = aReady[u]
      /\ \A s \in Slots :
           aReady'[v][s] = IF s = Slot(vw[v]) THEN aReady[v][s] + 1 ELSE aReady[v][s]
  BY <1>1 DEF TypeOK, VecSignals
<1>6. TypeOK'
  <2>1. vw' \in [Vecs -> 0 .. Iters]
    <3>1. vw[v] + 1 \in 0 .. Iters
      BY <1>0, <1>2
    <3>2. QED
      BY <3>1 DEF TypeOK
  <2>2. vpc' \in [Vecs -> {"scale", "scaleOut", "mask", "maskOut", "done"}]
    BY DEF TypeOK, Resume
  <2>3. QED
    BY <1>4, <1>5, <2>1, <2>2 DEF TypeOK
<1>7. CubeCursor'
  BY <1>0 DEF CubeCursor
<1>8. VecCursor'
  <2>1. CubeAGot <= vw[v] + 1 /\ vn[v] <= vw[v] + 1 + 2 /\ vw[v] + 1 <= cn
    BY <1>2, CursorFacts
  <2>2. vw[v] + 1 # Iters => vw[v] + 1 < Iters
    BY <1>0, <1>2
  <2>3. QED
    BY <1>0, <2>1, <2>2 DEF VecCursor
<1>9. Counters'
  <2>1. \A s \in Slots : aReady'[v][s] = InFlight(CubeAGot, vw[v] + 1, s)
    <3>1. TAKE s \in Slots
    <3>2. CubeAGot \in Nat /\ CubeAGot <= vw[v] /\ vw[v] <= CubeAGot + 1
      BY <1>2, CursorFacts
    <3>3. aReady[v][s] = InFlight(CubeAGot, vw[v], s)
      BY DEF Counters
    <3>4. QED
      BY <1>2, <1>5, <3>2, <3>3, SignalFlies
  <2>2. QED
    BY <1>0, <1>5, <2>1 DEF Counters, InFlight
<1>10. Registers'
  BY <1>0 DEF Registers
<1>11. Operands' /\ Written'
  BY <1>0 DEF Operands, Written, Unwritten
<1>12. Scores'
  <2> SUFFICES ASSUME NEW u \in Vecs, NEW n \in 0 .. Iters, vw'[u] <= n, n < cn, HasTile(n)
               PROVE  S[Slot(n)] = Pid(n)
    BY <1>0 DEF Scores
  <2>1. vw[u] <= n
    BY <1>0, <1>2
  <2>2. QED
    BY <2>1 DEF Scores
<1>13. Masked'
  <2> SUFFICES ASSUME NEW u \in Vecs, NEW n \in 0 .. Iters, cw <= n, n < vw'[u], HasTile(n)
               PROVE  A'[Slot(n)][u] = Pid(n)
    BY <1>0 DEF Masked
  <2>1. CASE u = v /\ n = vw[v]
    BY <1>4, <2>1
  <2>2. CASE u # v \/ n # vw[v]
    <3>1. n < vw[u] /\ n \in Nat
      BY <1>0, <1>2, <2>2
    <3>2. A[Slot(n)][u] = Pid(n) /\ Slot(n) \in Slots
      BY <3>1, SlotFacts DEF Masked
    <3>3. u = v => Slot(n) # Slot(vw[v])
      BY <1>2, <3>1, HalfSlotIsFree
    <3>4. QED
      BY <1>4, <3>2, <3>3
  <2>3. QED
    BY <2>1, <2>2
<1>14. QED
  BY <1>6, <1>7, <1>8, <1>9, <1>10, <1>11, <1>12, <1>13

LEMMA NextRingInv == RingInv /\ [Next]_vars => RingInv'
<1> SUFFICES ASSUME RingInv, [Next]_vars PROVE RingInv'
  OBVIOUS
<1>1. CASE Cube
  BY <1>1, ScoreBeginInv, ScoreEndInv, OutputBeginInv, OutputEndInv DEF Cube
<1>2. ASSUME NEW v \in Vecs, Vec(v) PROVE RingInv'
  BY <1>2, ScaleBeginInv, ScaleEndInv, MaskBeginInv, MaskEndInv DEF Vec
<1>3. CASE UNCHANGED vars
  BY <1>3 DEF vars, cubeVars, vecVars, flagVars, RingInv, TypeOK, CubeCursor, VecCursor,
              Counters, Registers, Operands, Scores, Masked, Written, Unwritten, Ahead,
              HasTile, Pid, Exact, CubeOpGot, CubeAGot, VecGot, InFlight
<1>4. QED
  BY <1>1, <1>2, <1>3 DEF Next
-----------------------------------------------------------------------------
(* The theorems.                                                           *)

\* Whatever the interleaving of the Cube and the Vecs, the invariant of the
\* four-stage pipeline holds.
THEOREM RingInvariance == Spec => []RingInv
BY InitRingInv, NextRingInv, PTL DEF Spec

\* The variables of one core keep their types.
THEOREM TypeCorrectness == Spec => []TypeOK
<1>1. RingInv => TypeOK
  BY DEF RingInv
<1>2. QED
  BY <1>1, RingInvariance, PTL

\* The cursors keep the two sides in different slots.
LEMMA SlotsApart == RingInv => SlotExclusion
<1> SUFFICES ASSUME RingInv, NEW v \in Vecs
             PROVE  /\ cpc = "scoreOut" /\ vpc[v] = "scaleOut" => Slot(cn) # Slot(vn[v])
                    /\ cpc = "scoreOut" /\ vpc[v] = "maskOut"  => Slot(cn) # Slot(vw[v])
                    /\ cpc = "outputOut" /\ vpc[v] = "maskOut" => Slot(cw) # Slot(vw[v])
  BY DEF SlotExclusion
<1>1. ASSUME cpc = "scoreOut", vpc[v] = "scaleOut" PROVE Slot(cn) # Slot(vn[v])
  <2>1. CubeOpGot = cn + 1 /\ vn[v] < vw[v] + 2
    BY <1>1 DEF CubeOpGot, RingInv, VecCursor, Ahead
  <2>2. vn[v] = cn + 1
    BY <2>1, CursorFacts
  <2>3. QED
    BY <2>2, CursorFacts, SlotFacts
<1>2. ASSUME cpc = "scoreOut", vpc[v] = "maskOut" PROVE Slot(cn) # Slot(vw[v])
  <2>1. VecGot(v) = vw[v] + 1 /\ cn < cw + 2
    BY <1>2 DEF VecGot, RingInv, CubeCursor, Ahead
  <2>2. cn = vw[v] + 1
    BY <2>1, CursorFacts
  <2>3. QED
    BY <2>2, CursorFacts, SlotFacts
<1>3. ASSUME cpc = "outputOut", vpc[v] = "maskOut" PROVE Slot(cw) # Slot(vw[v])
  <2>1. CubeAGot = cw + 1 /\ VecGot(v) = vw[v] + 1
    BY <1>3 DEF CubeAGot, VecGot
  <2>2. vw[v] = cw + 1
    BY <2>1, CursorFacts
  <2>3. QED
    BY <2>2, CursorFacts, SlotFacts
<1>4. QED
  BY <1>1, <1>2, <1>3

\* The three rings need no FREE flag: no slot is written while it is read.
THEOREM NoOverwrite == Spec => []SlotExclusion
BY SlotsApart, RingInvariance, PTL

\* What is written out comes from slots in flight.
LEMMA ExactOutputs == RingInv => OutputsExact
<1> SUFFICES ASSUME RingInv PROVE OutputsExact
  OBVIOUS
<1>1. \A p \in Tiles : o[p] \in {Unwritten, Exact(p)}
  BY DEF RingInv, Written
<1>2. ASSUME Done, NEW p \in Tiles, p % bnum = cid PROVE o[p] = Exact(p)
  <2> DEFINE n == p \div bnum
  <2>1. n \in 0 .. Iters - 1 /\ p = n * bnum + cid
    BY <1>2, TileOfIteration
  <2>2. n \in 0 .. Iters /\ n < Iters
    BY <2>1, ItersFacts
  <2>3. Pid(n) = p /\ HasTile(n)
    BY <2>1, SizesAssumption DEF Pid, HasTile, Tiles
  <2>4. cw = Iters
    BY <1>2 DEF Done, RingInv, CubeCursor
  <2>5. QED
    BY <2>2, <2>3, <2>4 DEF RingInv, Written
<1>3. QED
  BY <1>1, <1>2 DEF OutputsExact

\* Every tile that is written is made whole from its own operands, and a core
\* that returns has written all of its tiles.
THEOREM OutputsAreExact == Spec => []OutputsExact
BY ExactOutputs, RingInvariance, PTL

\* A counter is the number of signals in flight.
LEMMA BalancedFlags == RingInv => FlagsBalanced
<1> SUFFICES ASSUME RingInv, NEW v \in Vecs, NEW s \in Slots
             PROVE  /\ opReady[v][s] <= 1 /\ sReady[v][s] <= 1 /\ aReady[v][s] <= 1
                    /\ Done => opReady[v][s] = 0 /\ sReady[v][s] = 0 /\ aReady[v][s] = 0
  BY DEF FlagsBalanced
<1>1. /\ opReady[v][s] = InFlight(CubeOpGot, vn[v], s)
      /\ sReady[v][s] = InFlight(VecGot(v), cn, s)
      /\ aReady[v][s] = InFlight(CubeAGot, vw[v], s)
  BY DEF RingInv, Counters
<1>2. ASSUME Done
      PROVE  /\ CubeOpGot = Iters /\ vn[v] = Iters /\ VecGot(v) = Iters
             /\ cn = Iters /\ CubeAGot = Iters /\ vw[v] = Iters
  <2>1. cw = Iters /\ vw[v] = Iters
    BY <1>2 DEF Done, RingInv, CubeCursor, VecCursor
  <2>2. QED
    BY <1>2, <2>1, CursorFacts DEF Done, CubeOpGot, CubeAGot, VecGot
<1>3. QED
  BY <1>1, <1>2, ItersFacts DEF InFlight

\* No counter holds two signals, and none is left when the core returns.
THEOREM FlagsAreBalanced == Spec => []FlagsBalanced
BY BalancedFlags, RingInvariance, PTL

\* The refinement mapping, tile by tile.
LEMMA Mapping ==
  ASSUME RingInv, NEW p \in Tiles
  PROVE  /\ o[p] = Unwritten => TileOut[p] = Stale
         /\ o[p] = Exact(p) => TileOut[p] = p
         /\ o[p] = Unwritten \/ o[p] = Exact(p)
<1>1. Unwritten # Exact(p)
  <2>1. PICK v \in Vecs : TRUE
    BY VecsAssumption
  <2>2. Unwritten[v] = Stale /\ Exact(p)[v] = p
    BY DEF Unwritten, Exact
  <2>3. Stale # p
    BY DEF Stale, Tiles
  <2>4. QED
    BY <2>2, <2>3
<1>2. o[p] = Unwritten \/ o[p] = Exact(p)
  BY DEF RingInv, Written
<1>3. QED
  BY <1>1, <1>2 DEF TileOut, AbstractOutput

\* A step writes one whole tile of the abstract output, or none.
LEMMA StepRefines ==
  ASSUME RingInv, [Next]_vars
  PROVE  [TM!Next]_TileOut
<1>1. CASE OutputEnd /\ HasTile(cw)
  <2>1. o' = [o EXCEPT ![Pid(cw)] = Exact(Pid(cw))] /\ Pid(cw) \in Tiles
    BY <1>1, OutputIsExact
  <2>2. \A p \in Tiles : TileOut'[p] = IF p = Pid(cw) THEN p ELSE TileOut[p]
    <3>1. TAKE p \in Tiles
    <3>2. CASE p = Pid(cw)
      <4>1. o'[p] = Exact(p) /\ Unwritten # Exact(p)
        <5>1. PICK v \in Vecs : TRUE
          BY VecsAssumption
        <5>2. Unwritten[v] = Stale /\ Exact(p)[v] = p /\ Stale # p
          BY DEF Unwritten, Exact, Stale, Tiles
        <5>3. QED
          BY <2>1, <3>2, <5>2 DEF RingInv, TypeOK
      <4>2. QED
        BY <3>2, <4>1 DEF TileOut, AbstractOutput, Exact, Unwritten
    <3>3. CASE p # Pid(cw)
      <4>1. o'[p] = o[p]
        BY <2>1, <3>3 DEF RingInv, TypeOK
      <4>2. QED
        BY <3>3, <4>1 DEF TileOut, AbstractOutput, Exact, Unwritten
    <3>4. QED
      BY <3>2, <3>3
  <2>3. TileOut' = [TileOut EXCEPT ![Pid(cw)] = Pid(cw)]
    BY <2>1, <2>2 DEF TileOut, AbstractOutput
  <2>4. CASE o[Pid(cw)] = Unwritten
    BY <2>1, <2>3, <2>4, Mapping DEF TM!Next, TM!Finish
  <2>5. CASE o[Pid(cw)] = Exact(Pid(cw))
    <3>1. TileOut[Pid(cw)] = Pid(cw)
      BY <2>1, <2>5, Mapping
    <3>2. QED
      BY <2>1, <2>3, <3>1 DEF TileOut, AbstractOutput
  <2>6. QED
    BY <2>1, <2>4, <2>5, Mapping
<1>2. CASE UNCHANGED o
  BY <1>2 DEF TileOut, AbstractOutput, Exact, Unwritten
<1>3. QED
  BY <1>1, <1>2 DEF Next, Cube, Vec, vars, ScoreBegin, ScoreEnd, OutputBegin, OutputEnd,
                    ScaleBegin, ScaleEnd, MaskBegin, MaskEnd

\* The four stages implement the tile map, whatever their schedule.
THEOREM Refinement == Spec => ImplementsTileMap
<1>1. Init => TM!Init
  <2> SUFFICES ASSUME Init PROVE TileOut = [p \in Tiles |-> Stale]
    BY DEF TM!Init
  <2>1. RingInv
    BY InitRingInv
  <2>2. \A p \in Tiles : TileOut[p] = Stale
    BY <2>1, Mapping DEF Init
  <2>3. QED
    BY <2>2 DEF TileOut, AbstractOutput
<1>2. RingInv /\ [Next]_vars => [TM!Next]_TileOut
  BY StepRefines
<1>3. QED
  BY <1>1, <1>2, RingInvariance, PTL DEF Spec, ImplementsTileMap, TM!Spec
=============================================================================
