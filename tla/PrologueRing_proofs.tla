-------------------------- MODULE PrologueRing_proofs --------------------------
(***************************************************************************)
(* Proofs about PrologueRing, for any number of tiles, cores and Vecs.     *)
(***************************************************************************)
EXTENDS PrologueRing, TLAPS

USE DEF Counters1, Only, cubeVars, vecVars

LEMMA ItersFacts == Iters \in Nat /\ Iters > 0
BY SizesAssumption DEF Iters

LEMMA PidFacts ==
  ASSUME TypeOK, NEW n \in Nat
  PROVE  Pid(n) \in Nat /\ (HasTile(n) => Pid(n) \in Tiles /\ Pid(n) \in Values)
<1>1. n * bnum \in Nat
  BY SizesAssumption
<1>2. cid \in Nat
  BY SizesAssumption DEF TypeOK
<1>3. Pid(n) \in Nat
  BY <1>1, <1>2 DEF Pid
<1>4. QED
  BY <1>3, SizesAssumption DEF HasTile, Tiles, Values

\* The loop bound rounds up: the core of a tile reaches it.
LEMMA TileOfIteration ==
  ASSUME NEW p \in Tiles
  PROVE  /\ p \div bnum \in 0 .. Iters - 1
         /\ p = (p \div bnum) * bnum + (p % bnum)
<1> DEFINE q == p \div bnum
<1>1. p \in Nat /\ p < I
  BY SizesAssumption DEF Tiles
<1>2. q \in Nat /\ p = q * bnum + (p % bnum)
  BY <1>1, SizesAssumption
<1>3. (q + 1) * bnum <= I + bnum - 1
  BY <1>1, <1>2, SizesAssumption
<1>4. q + 1 <= Iters
  BY <1>1, <1>2, <1>3, SizesAssumption DEF Iters
<1>5. QED
  BY <1>2, <1>4, ItersFacts

\* A product is exact when the operands were, and did not change.
LEMMA ProductIsExact ==
  ASSUME NEW p \in Tiles, NEW half \in [Vecs -> Values], half = Exact(p)
  PROVE  Product(half, half) = p
<1>1. [v \in Vecs |-> Settle(half[v], half[v])] = Exact(p)
  BY DEF Settle, Exact
<1>2. Exact(p)[CHOOSE v \in Vecs : TRUE] = p
  BY VecsAssumption DEF Exact
<1>3. QED
  BY <1>1, <1>2 DEF Product

LEMMA ProductType ==
  ASSUME NEW before \in [Vecs -> Values], NEW now \in [Vecs -> Values]
  PROVE  Product(before, now) \in Values
<1> DEFINE half == [v \in Vecs |-> Settle(before[v], now[v])]
<1>1. CASE \E p \in Tiles : half = Exact(p)
  <2>1. PICK p \in Tiles : half = Exact(p)
    BY <1>1
  <2>2. Exact(p)[CHOOSE v \in Vecs : TRUE] = p
    BY VecsAssumption DEF Exact
  <2>3. QED
    BY <1>1, <2>1, <2>2 DEF Product, Values
<1>2. CASE ~ \E p \in Tiles : half = Exact(p)
  BY <1>2 DEF Product, Values
<1>3. QED
  BY <1>1, <1>2
-----------------------------------------------------------------------------
(* The inductive invariant, one lemma per action.                          *)

LEMMA InitRingInv == Init => RingInv
<1> SUFFICES ASSUME Init PROVE RingInv
  OBVIOUS
<1> USE ItersFacts DEF Init, Unwritten
<1>1. TypeOK
  BY DEF TypeOK, Values
<1>2. Cursors
  BY DEF Cursors, CubeGot, VecGot, Scaled
<1>3. Counters
  <2>1. CubeGot = 0 /\ cw = 0 /\ \A v \in Vecs : VecGot(v) = 0 /\ Scaled(v) = 0
    BY DEF CubeGot, VecGot, Scaled
  <2>2. \A v \in Vecs : opReady[v][0] = 0 /\ aReady[v][0] = 0
    OBVIOUS
  <2>3. 0 - 0 = 0
    OBVIOUS
  <2>4. QED
    BY <2>1, <2>2, <2>3 DEF Counters
<1>4. Contents /\ Written
  BY DEF Contents, Written
<1>5. QED
  BY <1>1, <1>2, <1>3, <1>4 DEF RingInv

\* A Vec is at the Cube's iteration, or has its score and is one behind.
LEMMA CursorFacts ==
  ASSUME RingInv, NEW v \in Vecs
  PROVE  /\ cw \in Nat /\ CubeGot \in Nat /\ vw[v] \in Nat
         /\ VecGot(v) \in Nat /\ Scaled(v) \in Nat
         /\ vw[v] <= VecGot(v) /\ VecGot(v) <= cw
         /\ cw <= CubeGot /\ CubeGot <= cw + 1 /\ CubeGot <= Scaled(v)
         /\ vw[v] <= Scaled(v) /\ Scaled(v) <= vw[v] + 1
         /\ cw <= Iters /\ vw[v] <= Iters
<1>1. cw \in 0 .. Iters /\ vw[v] \in 0 .. Iters
  BY DEF RingInv, TypeOK
<1>2. VecGot(v) <= cw /\ CubeGot <= Scaled(v)
  BY DEF RingInv, Cursors
<1>3. /\ vw[v] <= VecGot(v) /\ VecGot(v) \in Nat
      /\ vw[v] <= Scaled(v) /\ Scaled(v) <= vw[v] + 1 /\ Scaled(v) \in Nat
  BY <1>1, ItersFacts DEF VecGot, Scaled
<1>4. cw <= CubeGot /\ CubeGot <= cw + 1 /\ CubeGot \in Nat
  BY <1>1, ItersFacts DEF CubeGot
<1>5. QED
  BY <1>1, <1>2, <1>3, <1>4, ItersFacts

\* While the Cube multiplies, every Vec waits for this very score.
LEMMA VecsWait ==
  ASSUME RingInv, NEW v \in Vecs, CubeGot = cw + 1
  PROVE  vpc[v] = "mask" /\ vw[v] = cw
<1>1. vw[v] = cw /\ Scaled(v) = vw[v] + 1 /\ VecGot(v) = vw[v]
  BY CursorFacts
<1>2. QED
  BY <1>1, CursorFacts DEF Scaled, VecGot

LEMMA ScoreBeginInv == RingInv /\ ScoreBegin => RingInv'
<1> SUFFICES ASSUME RingInv, ScoreBegin PROVE RingInv'
  OBVIOUS
<1> USE ItersFacts DEF RingInv, ScoreBegin
<1>0. /\ cw \in Nat /\ cw < Iters /\ CubeGot = cw /\ CubeGot' = cw + 1
      /\ \A n : HasTile(n)' = HasTile(n) /\ Pid(n)' = Pid(n) /\ Exact(n)' = Exact(n)
      /\ \A v \in Vecs : VecGot(v)' = VecGot(v) /\ Scaled(v)' = Scaled(v)
  BY DEF TypeOK, Cursors, HasTile, Pid, Exact, CubeGot, VecGot, Scaled
<1>1. ASSUME NEW v \in Vecs
      PROVE  /\ cw + 1 <= Scaled(v) /\ vw[v] = cw /\ vpc[v] = "mask"
             /\ opReady'[v] \in [{0} -> Nat]
             /\ opReady'[v][0] = Scaled(v) - (cw + 1)
  <2>1. opReady[v][0] > 0
    BY DEF CubeMayPass
  <2>2. opReady[v][0] = Scaled(v) - cw
    BY <1>0 DEF Counters
  <2>3. cw + 1 <= Scaled(v)
    BY <1>0, <2>1, <2>2, CursorFacts
  <2>4. vw[v] = cw /\ Scaled(v) = vw[v] + 1 /\ VecGot(v) = vw[v]
    BY <1>0, <2>3, CursorFacts
  <2>5. vpc[v] = "mask"
    BY <2>4, CursorFacts DEF Scaled, VecGot
  <2>6. opReady'[v] \in [{0} -> Nat] /\ opReady'[v][0] = opReady[v][0] - 1
    BY <2>1 DEF TypeOK, CubePasses
  <2>7. QED
    BY <1>0, <2>2, <2>3, <2>4, <2>5, <2>6, CursorFacts
<1>2. TypeOK'
  <2>1. opReady' \in [Vecs -> [{0} -> Nat]]
    BY <1>1 DEF CubePasses
  <2>2. Aout' \in Values
    BY DEF TypeOK, Values
  <2>3. QED
    BY <2>1, <2>2 DEF TypeOK
<1>3. Cursors'
  BY <1>0, <1>1 DEF Cursors
<1>4. Counters'
  BY <1>0, <1>1 DEF Counters
<1>5. Contents'
  <2>1. ASSUME HasTile(cw) PROVE op = Exact(Pid(cw))
    <3>1. \A v \in Vecs : op[v] = Pid(cw)
      BY <1>1, <2>1 DEF Contents
    <3>2. op \in [Vecs -> Values]
      BY DEF TypeOK
    <3>3. QED
      BY <3>1, <3>2 DEF Exact
  <2>2. \A v \in Vecs : ~ (vw[v] < cw)
    BY <1>0, <1>1
  <2>3. QED
    BY <1>0, <1>1, <2>1, <2>2 DEF Contents
<1>6. Written'
  BY <1>0 DEF Written
<1>7. QED
  BY <1>2, <1>3, <1>4, <1>5, <1>6

LEMMA ScoreEndInv == RingInv /\ ScoreEnd => RingInv'
<1> SUFFICES ASSUME RingInv, ScoreEnd PROVE RingInv'
  OBVIOUS
<1> USE ItersFacts DEF RingInv, ScoreEnd
<1>0. /\ cw \in Nat /\ cw < Iters /\ cw' = cw + 1 /\ CubeGot = cw + 1 /\ CubeGot' = cw + 1
      /\ \A n : HasTile(n)' = HasTile(n) /\ Pid(n)' = Pid(n) /\ Exact(n)' = Exact(n)
      /\ \A v \in Vecs : VecGot(v)' = VecGot(v) /\ Scaled(v)' = Scaled(v)
  BY DEF TypeOK, Cursors, HasTile, Pid, Exact, CubeGot, VecGot, Scaled
<1>1. \A v \in Vecs : vpc[v] = "mask" /\ vw[v] = cw
  BY <1>0, VecsWait
<1>2. HasTile(cw) => Aout' = Pid(cw)
  <2> SUFFICES ASSUME HasTile(cw) PROVE Product(creg, op) = Pid(cw)
    OBVIOUS
  <2>1. creg = Exact(Pid(cw)) /\ Pid(cw) \in Tiles
    BY <1>0, PidFacts DEF Contents
  <2>2. op = Exact(Pid(cw))
    <3>1. \A v \in Vecs : op[v] = Pid(cw)
      BY <1>1 DEF Contents
    <3>2. QED
      BY <3>1 DEF TypeOK, Exact
  <2>3. QED
    BY <2>1, <2>2, ProductIsExact DEF TypeOK
<1>3. /\ aReady' \in [Vecs -> [{0} -> Nat]]
      /\ \A v \in Vecs : aReady'[v][0] = aReady[v][0] + 1
  BY DEF TypeOK, CubeSignals
<1>4. TypeOK'
  <2>1. Aout' \in Values
    BY ProductType DEF TypeOK
  <2>2. QED
    BY <1>0, <1>3, <2>1 DEF TypeOK
<1>5. Cursors'
  <2>1. \A v \in Vecs : VecGot(v) <= cw + 1
    BY <1>0, CursorFacts
  <2>2. QED
    BY <1>0, <2>1 DEF Cursors
<1>6. Counters'
  <2>1. \A v \in Vecs : aReady[v][0] = cw - VecGot(v) /\ VecGot(v) \in Nat
    BY CursorFacts DEF Counters
  <2>2. QED
    BY <1>0, <1>3, <2>1 DEF Counters
<1>7. Contents'
  BY <1>0, <1>1, <1>2 DEF Contents
<1>8. Written'
  BY <1>0 DEF Written
<1>9. QED
  BY <1>4, <1>5, <1>6, <1>7, <1>8

LEMMA ScaleBeginInv == ASSUME RingInv, NEW v \in Vecs, ScaleBegin(v) PROVE RingInv'
<1> USE ItersFacts DEF RingInv, ScaleBegin, Goto
<1>0. /\ \A n : HasTile(n)' = HasTile(n) /\ Pid(n)' = Pid(n) /\ Exact(n)' = Exact(n)
      /\ CubeGot' = CubeGot /\ vpc'[v] = "scaleOut"
      /\ \A u \in Vecs : VecGot(u)' = VecGot(u) /\ Scaled(u)' = Scaled(u)
      /\ \A u \in Vecs : u # v => vpc'[u] = vpc[u] /\ op'[u] = op[u]
  BY DEF TypeOK, HasTile, Pid, Exact, CubeGot, VecGot, Scaled
<1>1. TypeOK'
  BY DEF TypeOK, Values
<1>2. Cursors' /\ Counters'
  BY <1>0 DEF Cursors, Counters, TypeOK
<1>3. Contents'
  BY <1>0 DEF Contents
<1>4. Written'
  BY <1>0 DEF Written
<1>5. QED
  BY <1>1, <1>2, <1>3, <1>4

LEMMA ScaleEndInv == ASSUME RingInv, NEW v \in Vecs, ScaleEnd(v) PROVE RingInv'
<1> USE ItersFacts DEF RingInv, ScaleEnd, Goto
<1>0. /\ \A n : HasTile(n)' = HasTile(n) /\ Pid(n)' = Pid(n) /\ Exact(n)' = Exact(n)
      /\ CubeGot' = CubeGot /\ vpc'[v] = "mask"
      /\ Scaled(v) = vw[v] /\ Scaled(v)' = vw[v] + 1
      /\ \A u \in Vecs : VecGot(u)' = VecGot(u)
      /\ \A u \in Vecs : u # v => vpc'[u] = vpc[u] /\ op'[u] = op[u] /\ Scaled(u)' = Scaled(u)
  BY DEF TypeOK, HasTile, Pid, Exact, CubeGot, VecGot, Scaled
<1>1. /\ opReady' \in [Vecs -> [{0} -> Nat]]
      /\ opReady'[v][0] = opReady[v][0] + 1
      /\ \A u \in Vecs : u # v => opReady'[u] = opReady[u]
  BY DEF TypeOK, VecSignals
<1>2. TypeOK'
  <2>1. op' \in [Vecs -> Values]
    BY CursorFacts, PidFacts DEF TypeOK
  <2>2. QED
    BY <1>1, <2>1 DEF TypeOK
<1>3. Cursors'
  <2>1. CubeGot <= vw[v] + 1
    BY <1>0, CursorFacts
  <2>2. QED
    BY <1>0, <2>1 DEF Cursors, TypeOK
<1>4. Counters'
  <2>1. opReady'[v][0] = (vw[v] + 1) - CubeGot
    BY <1>0, <1>1, CursorFacts DEF Counters
  <2>2. QED
    BY <1>0, <1>1, <2>1 DEF Counters
<1>5. Contents'
  <2>1. HasTile(vw[v]) => op'[v] = Pid(vw[v])
    BY DEF TypeOK
  <2>2. QED
    BY <1>0, <2>1 DEF Contents
<1>6. Written'
  BY <1>0 DEF Written
<1>7. QED
  BY <1>2, <1>3, <1>4, <1>5, <1>6

LEMMA MaskBeginInv == ASSUME RingInv, NEW v \in Vecs, MaskBegin(v) PROVE RingInv'
<1> USE ItersFacts DEF RingInv, MaskBegin, Goto
<1>0. /\ \A n : HasTile(n)' = HasTile(n) /\ Pid(n)' = Pid(n) /\ Exact(n)' = Exact(n)
      /\ CubeGot' = CubeGot /\ vpc'[v] = "maskOut"
      /\ VecGot(v) = vw[v] /\ VecGot(v)' = vw[v] + 1
      /\ \A u \in Vecs : Scaled(u)' = Scaled(u)
      /\ \A u \in Vecs : u # v => vpc'[u] = vpc[u] /\ VecGot(u)' = VecGot(u)
  BY DEF TypeOK, HasTile, Pid, Exact, CubeGot, VecGot, Scaled
<1>1. aReady[v][0] > 0 /\ aReady[v][0] = cw - vw[v]
  BY <1>0 DEF VecMayPass, Counters
<1>2. vw[v] + 1 <= cw
  BY <1>1, CursorFacts
<1>3. /\ aReady' \in [Vecs -> [{0} -> Nat]]
      /\ aReady'[v][0] = aReady[v][0] - 1
      /\ \A u \in Vecs : u # v => aReady'[u] = aReady[u]
  BY <1>1 DEF TypeOK, VecPasses
<1>4. TypeOK'
  BY <1>3 DEF TypeOK
<1>5. Cursors'
  BY <1>0, <1>2 DEF Cursors, TypeOK
<1>6. Counters'
  <2>1. aReady'[v][0] = cw - (vw[v] + 1)
    BY <1>1, <1>3, CursorFacts
  <2>2. QED
    BY <1>0, <1>3, <2>1 DEF Counters
<1>7. Contents'
  <2>1. HasTile(vw[v]) => vreg'[v] = Pid(vw[v]) /\ op[v] = Pid(vw[v])
    BY <1>2, CursorFacts DEF Contents, TypeOK
  <2>2. \A u \in Vecs : u # v => vreg'[u] = vreg[u]
    BY DEF TypeOK
  <2>3. QED
    BY <1>0, <2>1, <2>2 DEF Contents
<1>8. Written'
  BY <1>0 DEF Written
<1>9. QED
  BY <1>4, <1>5, <1>6, <1>7, <1>8

\* What a Vec stores: its half of the tile, the score unchanged while masked.
LEMMA MaskedIsExact ==
  ASSUME RingInv, NEW v \in Vecs, MaskEnd(v), HasTile(vw[v])
  PROVE  /\ Pid(vw[v]) \in Tiles
         /\ L' = [L EXCEPT ![Pid(vw[v])][v] = Pid(vw[v])]
<1> USE DEF RingInv, MaskEnd
<1>1. cw = vw[v] + 1
  BY CursorFacts, ItersFacts DEF CubeGot, Scaled, VecGot, TypeOK
<1>2. vreg[v] = Pid(vw[v]) /\ Aout = Pid(vw[v])
  BY <1>1, CursorFacts DEF Contents
<1>3. Pid(vw[v]) \in Tiles
  BY CursorFacts, PidFacts
<1>4. QED
  BY <1>2, <1>3 DEF Settle

LEMMA MaskEndInv == ASSUME RingInv, NEW v \in Vecs, MaskEnd(v) PROVE RingInv'
<1> USE ItersFacts DEF RingInv, MaskEnd, Goto
<1>0. /\ \A n : HasTile(n)' = HasTile(n) /\ Pid(n)' = Pid(n) /\ Exact(n)' = Exact(n)
      /\ CubeGot' = CubeGot /\ vpc'[v] \in {"scale", "done"} /\ vw'[v] = vw[v] + 1
      /\ vw[v] < Iters /\ vpc'[v] = "done" <=> ~ (vw[v] + 1 < Iters)
      /\ VecGot(v) = vw[v] + 1 /\ Scaled(v) = vw[v] + 1
      /\ \A u \in Vecs : u # v => vpc'[u] = vpc[u] /\ vw'[u] = vw[u]
  BY DEF TypeOK, Cursors, HasTile, Pid, Exact, CubeGot, VecGot, Scaled
<1>1. \A u \in Vecs : VecGot(u)' = VecGot(u) /\ Scaled(u)' = Scaled(u)
  BY <1>0 DEF VecGot, Scaled
<1>2. cw = vw[v] + 1 /\ CubeGot = cw
  BY <1>0, CursorFacts
<1>3. HasTile(vw[v]) => /\ Pid(vw[v]) \in Tiles
                        /\ L' = [L EXCEPT ![Pid(vw[v])][v] = Pid(vw[v])]
  BY MaskedIsExact
<1>4. TypeOK'
  <2>1. vw' \in [Vecs -> 0 .. Iters]
    BY <1>0, CursorFacts DEF TypeOK
  <2>2. vpc' \in [Vecs -> {"scale", "scaleOut", "mask", "maskOut", "done"}]
    BY DEF TypeOK
  <2>3. L' \in [Tiles -> [Vecs -> Values]]
    BY <1>3 DEF TypeOK, Values
  <2>4. QED
    BY <2>1, <2>2, <2>3 DEF TypeOK
<1>5. Cursors'
  <2>1. IF vpc'[v] = "done" THEN vw'[v] = Iters ELSE vw'[v] < Iters
    BY <1>0, CursorFacts
  <2>2. QED
    BY <1>0, <1>1, <2>1 DEF Cursors
<1>6. Counters'
  BY <1>0, <1>1 DEF Counters
<1>7. Contents'
  <2>1. ~ (vw'[v] < cw) /\ vpc'[v] \notin {"mask", "maskOut"}
    BY <1>0, <1>2, CursorFacts
  <2>2. QED
    BY <1>0, <2>1 DEF Contents
<1>8. Written'
  <2>1. ASSUME NEW u \in Vecs, NEW p \in Tiles PROVE L'[p][u] \in {Stale, p}
    BY <1>3 DEF Written, TypeOK
  <2>2. ASSUME NEW u \in Vecs, NEW n \in 0 .. Iters, n < vw'[u], HasTile(n)
        PROVE  L'[Pid(n)][u] = Pid(n)
    <3>0. n \in Nat /\ Pid(n) \in Tiles
      BY <2>2, PidFacts
    <3>1. CASE u = v /\ n = vw[v]
      BY <3>0, <3>1, <2>2, <1>3 DEF TypeOK
    <3>2. CASE u # v \/ n # vw[v]
      <4>1. n < vw[u]
        BY <3>0, <3>2, <2>2, <1>0, CursorFacts
      <4>2. L[Pid(n)][u] = Pid(n)
        BY <4>1, <2>2 DEF Written
      <4>3. QED
        BY <4>2, <3>0, <1>3 DEF TypeOK
    <3>3. QED
      BY <3>1, <3>2
  <2>3. QED
    BY <1>0, <2>1, <2>2 DEF Written
<1>9. QED
  BY <1>4, <1>5, <1>6, <1>7, <1>8

LEMMA NextRingInv == RingInv /\ [Next]_vars => RingInv'
<1> SUFFICES ASSUME RingInv, [Next]_vars PROVE RingInv'
  OBVIOUS
<1>1. CASE Cube
  BY <1>1, ScoreBeginInv, ScoreEndInv DEF Cube
<1>2. ASSUME NEW v \in Vecs, Vec(v) PROVE RingInv'
  BY <1>2, ScaleBeginInv, ScaleEndInv, MaskBeginInv, MaskEndInv DEF Vec
<1>3. CASE UNCHANGED vars
  BY <1>3 DEF vars, RingInv, TypeOK, Cursors, Counters, Contents, Written,
              HasTile, Pid, Exact, CubeGot, VecGot, Scaled
<1>4. QED
  BY <1>1, <1>2, <1>3 DEF Next
-----------------------------------------------------------------------------
(* The theorems.                                                           *)

\* Whatever the interleaving of the Cube and the Vecs, the invariant of the
\* ping-pong holds.
THEOREM RingInvariance == Spec => []RingInv
BY InitRingInv, NextRingInv, PTL DEF Spec

\* The variables of one core keep their types.
THEOREM TypeCorrectness == Spec => []TypeOK
<1>1. RingInv => TypeOK
  BY DEF RingInv
<1>2. QED
  BY <1>1, RingInvariance, PTL

\* The cursors keep the two sides in different slots.
LEMMA SlotsApart == RingInv => SlotExclusion
<1> SUFFICES ASSUME RingInv, cpc = "scoreOut", NEW v \in Vecs PROVE vpc[v] = "mask"
  BY DEF SlotExclusion
<1>1. QED
  BY VecsWait DEF CubeGot

\* One flag each way protects the single slots: no Vec prescales or masks while
\* the Cube multiplies.
THEOREM NoOverwrite == Spec => []SlotExclusion
BY SlotsApart, RingInvariance, PTL

\* What is written out comes from slots in flight.
LEMMA ExactOutputs == RingInv => OutputsExact
<1> SUFFICES ASSUME RingInv PROVE OutputsExact
  OBVIOUS
<1>1. \A p \in Tiles, v \in Vecs : L[p][v] \in {Stale, p}
  BY DEF RingInv, Written
<1>2. ASSUME Done, NEW p \in Tiles, p % bnum = cid PROVE L[p] = Exact(p)
  <2> DEFINE n == p \div bnum
  <2>1. n \in 0 .. Iters - 1 /\ p = n * bnum + cid
    BY <1>2, TileOfIteration
  <2>2. n \in 0 .. Iters /\ n < Iters
    BY <2>1, ItersFacts
  <2>3. Pid(n) = p /\ HasTile(n)
    BY <2>1, SizesAssumption DEF Pid, HasTile, Tiles
  <2>4. \A v \in Vecs : vw[v] = Iters
    BY <1>2 DEF Done, RingInv, Cursors
  <2>5. \A v \in Vecs : L[p][v] = p
    BY <2>2, <2>3, <2>4 DEF RingInv, Written
  <2>6. L[p] \in [Vecs -> Values]
    BY DEF RingInv, TypeOK
  <2>7. QED
    BY <2>5, <2>6 DEF Exact
<1>3. QED
  BY <1>1, <1>2 DEF OutputsExact

\* Each half of a tile is masked from that tile's own score, and a core that
\* returns has written all of its tiles.
THEOREM OutputsAreExact == Spec => []OutputsExact
BY ExactOutputs, RingInvariance, PTL

\* A counter is the number of signals in flight.
LEMMA BalancedFlags == RingInv => FlagsBalanced
<1> SUFFICES ASSUME RingInv, NEW v \in Vecs
             PROVE  /\ opReady[v][0] <= 1 /\ aReady[v][0] <= 1
                    /\ Done => opReady[v][0] = 0 /\ aReady[v][0] = 0
  BY DEF FlagsBalanced
<1>1. opReady[v][0] = Scaled(v) - CubeGot /\ aReady[v][0] = cw - VecGot(v)
  BY DEF RingInv, Counters
<1>2. opReady[v][0] <= 1 /\ aReady[v][0] <= 1
  BY <1>1, CursorFacts
<1>3. Done => Scaled(v) = Iters /\ CubeGot = Iters /\ cw = Iters /\ VecGot(v) = Iters
  BY DEF Done, RingInv, Cursors, CubeGot, Scaled, VecGot
<1>4. QED
  BY <1>1, <1>2, <1>3, ItersFacts

\* No counter holds two signals, and none is left when the core returns.
THEOREM FlagsAreBalanced == Spec => []FlagsBalanced
BY BalancedFlags, RingInvariance, PTL

\* The refinement mapping, half by half.
LEMMA Mapping ==
  ASSUME RingInv, NEW p \in Tiles, NEW v \in Vecs
  PROVE  /\ <<p, v>> \in Halves
         /\ \/ L[p][v] = Stale /\ HalfOut[<<p, v>>] = <<>>
            \/ L[p][v] = p /\ HalfOut[<<p, v>>] = <<p, v>>
<1>1. L[p][v] = Stale \/ L[p][v] = p
  BY DEF RingInv, Written
<1>2. Stale # p
  BY DEF Stale, Tiles
<1>3. QED
  BY <1>1, <1>2 DEF HalfOut, AbstractHalves, Halves

\* A step writes one whole half of the abstract output, or none.
LEMMA StepRefines ==
  ASSUME RingInv, RingInv', [Next]_vars
  PROVE  [TM!Next]_HalfOut
<1>1. ASSUME NEW v \in Vecs, MaskEnd(v), HasTile(vw[v]) PROVE [TM!Next]_HalfOut
  <2> DEFINE p == Pid(vw[v])
  <2>1. p \in Tiles /\ L' = [L EXCEPT ![p][v] = p]
    BY <1>1, MaskedIsExact
  <2>2. L \in [Tiles -> [Vecs -> Values]]
    BY DEF RingInv, TypeOK
  <2>3. L'[p][v] = p /\ p # Stale
    BY <2>1, <2>2 DEF Stale, Tiles
  <2>4. \A h \in Halves : h # <<p, v>> => L'[h[1]][h[2]] = L[h[1]][h[2]]
    BY <2>1, <2>2 DEF Halves
  <2>5. HalfOut' = [HalfOut EXCEPT ![<<p, v>>] = <<p, v>>]
    <3> HIDE DEF p
    <3>1. \A h \in Halves : HalfOut'[h] = IF h = <<p, v>> THEN <<p, v>> ELSE HalfOut[h]
      BY <2>3, <2>4 DEF HalfOut, AbstractHalves
    <3>2. QED
      BY <3>1 DEF HalfOut, AbstractHalves
  <2>6. CASE HalfOut[<<p, v>>] = <<>>
    BY <2>1, <2>5, <2>6, Mapping DEF TM!Next, TM!Finish
  <2>7. CASE HalfOut[<<p, v>>] = <<p, v>>
    BY <2>5, <2>7 DEF HalfOut, AbstractHalves
  <2>8. QED
    BY <2>1, <2>6, <2>7, Mapping
<1>2. CASE UNCHANGED L
  BY <1>2 DEF HalfOut, AbstractHalves
<1>3. QED
  BY <1>1, <1>2 DEF Next, Cube, Vec, vars, cubeVars, vecVars, ScoreBegin, ScoreEnd,
                    ScaleBegin, ScaleEnd, MaskBegin, MaskEnd

\* The ring implements the tile map, a tile being the half of one Vec.
THEOREM Refinement == Spec => ImplementsTileMap
<1>1. Init => TM!Init
  <2> SUFFICES ASSUME Init PROVE HalfOut = [h \in Halves |-> <<>>]
    BY DEF TM!Init
  <2>1. \A h \in Halves : L[h[1]][h[2]] = Stale
    BY DEF Init, Unwritten, Halves
  <2>2. QED
    BY <2>1 DEF HalfOut, AbstractHalves
<1>2. RingInv /\ RingInv' /\ [Next]_vars => [TM!Next]_HalfOut
  BY StepRefines
<1>3. QED
  BY <1>1, <1>2, RingInvariance, PTL DEF Spec, ImplementsTileMap, TM!Spec
=============================================================================
