--------------------------- MODULE ChunkScan_proofs ---------------------------
(***************************************************************************)
(* The control of the scan first, one lemma per action: Control does not   *)
(* look at the data, and from it LockStep tells for each place of a side   *)
(* where the other can be.  Then the data: what is finite, zeroed and      *)
(* written, and the values themselves up to the first overtaken output.    *)
(* All of it is for any number of Vecs.                                    *)
(***************************************************************************)
EXTENDS ChunkScan, TLAPS

\* What a launch of the scan is given.
ScanSizes ==
  /\ UNITS \in Nat \ {0} /\ NC \in Nat \ {0} /\ bnum \in Nat \ {0}
  /\ NonFinite \subseteq Nat /\ Vecs # {}

FlagType == [Vecs -> [Flags -> Nat]]

LEMMA FlagFacts ==
  ASSUME flag \in FlagType, NEW f \in Flags
  PROVE  /\ CubeSignals(flag, f) \in FlagType
         /\ CubeMayPass(flag, f) => CubePasses(flag, f) \in FlagType
         /\ \A v \in Vecs, g \in Flags :
              /\ CubeSignals(flag, f)[v][g] = IF g = f THEN flag[v][g] + 1 ELSE flag[v][g]
              /\ CubePasses(flag, f)[v][g] = IF g = f THEN flag[v][g] - 1 ELSE flag[v][g]
         /\ \A v \in Vecs :
              /\ VecSignals(flag, v, f) \in FlagType
              /\ VecMayPass(flag, v, f) => VecPasses(flag, v, f) \in FlagType
              /\ \A u \in Vecs, g \in Flags :
                   /\ VecSignals(flag, v, f)[u][g] =
                        IF u = v /\ g = f THEN flag[u][g] + 1 ELSE flag[u][g]
                   /\ VecPasses(flag, v, f)[u][g] =
                        IF u = v /\ g = f THEN flag[u][g] - 1 ELSE flag[u][g]
BY DEF FlagType, CubeSignals, CubePasses, CubeMayPass, VecSignals, VecPasses, VecMayPass

\* Where the Cube and the Vecs are, and the signals between them.
Control == TypeOK /\ Cursors /\ Phases

LEMMA DeriveType ==
  ASSUME ScanSizes, NEW x, NEW good, NEW u \in 0 .. UNITS - 1, NEW c \in 0 .. NC
  PROVE  Derive(x, good, u, c) \in Values
BY DEF Derive, Values

LEMMA RecurrenceType ==
  ASSUME ScanSizes, NEW s, NEW x, NEW u \in 0 .. UNITS - 1, NEW c \in 0 .. NC - 1
  PROVE  Recurrence(s, x, u, c) \in Values
BY DEF Recurrence, R, Values, ScanSizes

LEMMA MinusType == \A x : Minus(x) \in Values
BY DEF Minus, Values

LEMMA OutputOf ==
  ASSUME TypeOK, NEW p, NEW x \in Values
  PROVE  [h EXCEPT ![p] = x] \in [Outputs -> Values]
BY DEF TypeOK

\* What a store to S hits is an output of the scan.
LEMMA HitsType ==
  ASSUME ScanSizes, TypeOK, Cursors, NEW v \in Vecs
  PROVE  NextHits(v) \subseteq Outputs /\ ZeroHits(v) \subseteq Outputs
<1>1. ASSUME NEW x \in Vecs, vpc[x] \in {"recur", "final"}
      PROVE  /\ vu[x] \in 0 .. UNITS - 1 /\ NC \in 0 .. NC
             /\ vpc[x] = "recur" => vc[x] + 1 \in 0 .. NC
  <2>1. More(vu[x]) /\ (vpc[x] = "recur" => vc[x] # NC)
    BY <1>1 DEF Cursors
  <2>2. vu[x] \in Nat /\ vc[x] \in 0 .. NC
    BY DEF TypeOK
  <2>3. QED
    BY <2>1, <2>2 DEF More, ScanSizes
<1>2. QED
  BY <1>1 DEF NextHits, ZeroHits, Outputs

LEMMA ModUnique ==
  ASSUME NEW b \in Nat \ {0}, NEW q \in Nat, NEW r \in 0 .. b - 1
  PROVE  (b * q + r) % b = r
<1> DEFINE x == b * q + r
           m == x \div b
           s == x % b
<1>1. x \in Nat /\ m \in Nat /\ s \in 0 .. b - 1 /\ x = b * m + s
  OBVIOUS
<1>2. ASSUME NEW i \in Nat, NEW j \in Nat, i < j PROVE b * i + b <= b * j
  <2>1. PICK d \in Nat : j = i + 1 + d
    <3>1. j - i - 1 \in Nat
      BY <1>2
    <3>2. QED
      BY <3>1, <1>2
  <2>2. b * j = b * i + b + b * d /\ b * d >= 0
    BY <2>1
  <2>3. QED
    BY <2>2
<1>3. CASE m < q
  BY <1>1, <1>2, <1>3
<1>4. CASE q < m
  BY <1>1, <1>2, <1>4
<1>5. CASE m = q
  BY <1>1, <1>5
<1>6. QED
  BY <1>1, <1>3, <1>4, <1>5

LEMMA NextUnit ==
  ASSUME ScanSizes, cid \in 0 .. bnum - 1
  PROVE  \A u \in Nat : u % bnum = cid => u + bnum \in Nat /\ (u + bnum) % bnum = cid
<1> SUFFICES ASSUME NEW u \in Nat PROVE u + bnum \in Nat /\ (u + bnum) % bnum = u % bnum
  OBVIOUS
<1> DEFINE q == u \div bnum
           r == u % bnum
<1>1. u = bnum * q + r /\ q \in Nat /\ r \in 0 .. bnum - 1 /\ bnum \in Nat \ {0}
  BY DEF ScanSizes
<1> HIDE DEF q, r
<1>2. u + bnum = bnum * (q + 1) + r
  BY <1>1
<1>3. \A k \in Nat : (bnum * k + r) % bnum = r
  BY <1>1, ModUnique
<1>4. (u + bnum) % bnum = r
  BY <1>1, <1>2, <1>3
<1>5. QED
  BY <1>1, <1>4 DEF r

LEMMA LoadSControl == ASSUME ScanSizes, Control, LoadS PROVE Control'
<1> USE DEF Control, LoadS, vecVars
<1>1. /\ flag' \in FlagType
      /\ \A v \in Vecs, g \in Flags :
           flag'[v][g] = IF g = "REC" THEN flag[v][g] - 1 ELSE flag[v][g]
      /\ \A v \in Vecs : flag[v]["REC"] > 0
  BY FlagFacts DEF TypeOK, FlagType, Flags, CubeMayPass
<1>2. TypeOK'
  BY <1>1 DEF TypeOK, FlagType, ScanSizes
<1>3. Cursors'
  BY DEF Cursors, More, TypeOK, ScanSizes
<1>4. ASSUME NEW v \in Vecs PROVE SameUnit(v)'
  <2>1. SameUnit(v)
    BY <1>1 DEF Phases, VecAhead, CubeAhead, Flags
  <2>2. /\ RecGot' = RecGot + 1 /\ Mm1Given' = Mm1Given /\ ResGot' = ResGot
        /\ RecGot \in Nat /\ Mm1Given \in Nat /\ ResGot \in Nat
    BY DEF RecGot, Mm1Given, ResGot, TypeOK, Cursors
  <2>3. /\ RecGiven(v)' = RecGiven(v) /\ Mm1Got(v)' = Mm1Got(v)
        /\ ResGiven(v)' = ResGiven(v) /\ Mm2Got(v)' = Mm2Got(v)
        /\ RecGiven(v) \in Nat /\ Mm1Got(v) \in Nat /\ ResGiven(v) \in Nat /\ Mm2Got(v) \in Nat
    BY DEF RecGiven, Mm1Got, ResGiven, Mm2Got, TypeOK
  <2>4. QED
    BY <1>1, <2>1, <2>2, <2>3 DEF SameUnit, TypeOK, Flags
<1>5. QED
  BY <1>2, <1>3, <1>4 DEF Phases

LEMMA StoreWSControl == ASSUME ScanSizes, Control, StoreWS PROVE Control'
<1> USE DEF Control, StoreWS, vecVars
<1>1. /\ flag' \in FlagType
      /\ \A v \in Vecs, g \in Flags :
           flag'[v][g] = IF g = "MM1" THEN flag[v][g] + 1 ELSE flag[v][g]
  BY FlagFacts DEF TypeOK, FlagType, Flags
<1>0. cu \in 0 .. UNITS - 1 /\ cc \in 0 .. NC - 1
  BY DEF Cursors, More, TypeOK, ScanSizes
<1>2. TypeOK'
  BY <1>1, <1>0, DeriveType DEF TypeOK, FlagType, ScanSizes, Cursors
<1>3. Cursors'
  BY DEF Cursors, More, TypeOK, ScanSizes
<1>4. ASSUME NEW v \in Vecs PROVE SameUnit(v)'
  <2>1. SameUnit(v)
    BY DEF Phases, VecAhead, CubeAhead
  <2>2. /\ RecGot' = RecGot /\ Mm1Given' = Mm1Given + 1 /\ ResGot' = ResGot
        /\ RecGot \in Nat /\ Mm1Given \in Nat /\ ResGot \in Nat
    BY DEF RecGot, Mm1Given, ResGot, TypeOK, Cursors
  <2>3. /\ RecGiven(v)' = RecGiven(v) /\ Mm1Got(v)' = Mm1Got(v)
        /\ ResGiven(v)' = ResGiven(v) /\ Mm2Got(v)' = Mm2Got(v)
        /\ RecGiven(v) \in Nat /\ Mm1Got(v) \in Nat /\ ResGiven(v) \in Nat /\ Mm2Got(v) \in Nat
    BY DEF RecGiven, Mm1Got, ResGiven, Mm2Got, TypeOK
  <2>4. QED
    BY <1>1, <2>1, <2>2, <2>3 DEF SameUnit, TypeOK, Flags
<1>5. QED
  BY <1>2, <1>3, <1>4 DEF Phases

LEMMA LoadVCControl == ASSUME ScanSizes, Control, LoadVC PROVE Control'
<1> USE DEF Control, LoadVC, vecVars
<1>1. /\ flag' \in FlagType
      /\ \A v \in Vecs, g \in Flags :
           flag'[v][g] = IF g = "RES" THEN flag[v][g] - 1 ELSE flag[v][g]
      /\ \A v \in Vecs : flag[v]["RES"] > 0
  BY FlagFacts DEF TypeOK, FlagType, Flags, CubeMayPass
<1>2. TypeOK'
  BY <1>1 DEF TypeOK, FlagType, ScanSizes
<1>3. Cursors'
  BY DEF Cursors, More, TypeOK, ScanSizes
<1>4. ASSUME NEW v \in Vecs PROVE SameUnit(v)'
  <2>1. SameUnit(v)
    BY DEF Phases, VecAhead, CubeAhead
  <2>2. /\ RecGot' = RecGot /\ Mm1Given' = Mm1Given /\ ResGot' = ResGot + 1
        /\ RecGot \in Nat /\ Mm1Given \in Nat /\ ResGot \in Nat
    BY DEF RecGot, Mm1Given, ResGot, TypeOK, Cursors
  <2>3. /\ RecGiven(v)' = RecGiven(v) /\ Mm1Got(v)' = Mm1Got(v)
        /\ ResGiven(v)' = ResGiven(v) /\ Mm2Got(v)' = Mm2Got(v)
        /\ RecGiven(v) \in Nat /\ Mm1Got(v) \in Nat /\ ResGiven(v) \in Nat /\ Mm2Got(v) \in Nat
    BY DEF RecGiven, Mm1Got, ResGiven, Mm2Got, TypeOK
  <2>4. QED
    BY <1>1, <2>1, <2>2, <2>3 DEF SameUnit, TypeOK, Flags
<1>5. QED
  BY <1>2, <1>3, <1>4 DEF Phases

LEMMA StoreKVControl == ASSUME ScanSizes, Control, StoreKV PROVE Control'
<1> USE DEF Control, StoreKV, vecVars
<1>1. /\ flag' \in FlagType
      /\ \A v \in Vecs, g \in Flags :
           flag'[v][g] = IF g = "MM2" THEN flag[v][g] + 1 ELSE flag[v][g]
  BY FlagFacts DEF TypeOK, FlagType, Flags
<1>0. cu \in 0 .. UNITS - 1 /\ cc \in 0 .. NC - 1
  BY DEF Cursors, More, TypeOK, ScanSizes
<1>2. TypeOK'
  BY <1>1, <1>0, DeriveType DEF TypeOK, FlagType, ScanSizes, Cursors
<1>3. Cursors'
  BY DEF Cursors, More, TypeOK, ScanSizes
<1>4. ASSUME NEW v \in Vecs PROVE SameUnit(v)'
  <2>1. SameUnit(v)
    BY DEF Phases, VecAhead, CubeAhead
  <2>2. /\ RecGot' = RecGot /\ Mm1Given' = Mm1Given /\ ResGot' = ResGot
        /\ RecGot \in Nat /\ Mm1Given \in Nat /\ ResGot \in Nat
    BY DEF RecGot, Mm1Given, ResGot, TypeOK, Cursors
  <2>3. /\ RecGiven(v)' = RecGiven(v) /\ Mm1Got(v)' = Mm1Got(v)
        /\ ResGiven(v)' = ResGiven(v) /\ Mm2Got(v)' = Mm2Got(v)
        /\ RecGiven(v) \in Nat /\ Mm1Got(v) \in Nat /\ ResGiven(v) \in Nat /\ Mm2Got(v) \in Nat
    BY DEF RecGiven, Mm1Got, ResGiven, Mm2Got, TypeOK
  <2>4. QED
    BY <1>1, <2>1, <2>2, <2>3 DEF SameUnit, TypeOK, Flags
<1>5. QED
  BY <1>2, <1>3, <1>4 DEF Phases

LEMMA DrainControl == ASSUME ScanSizes, Control, Drain PROVE Control'
<1> USE DEF Control, Drain, vecVars
<1>1. /\ flag' \in FlagType
      /\ \A v \in Vecs, g \in Flags :
           flag'[v][g] = IF g = "REC" THEN flag[v][g] - 1 ELSE flag[v][g]
      /\ \A v \in Vecs : flag[v]["REC"] > 0
  BY FlagFacts DEF TypeOK, FlagType, Flags, CubeMayPass
<1>2. TypeOK'
  BY <1>1, NextUnit DEF TypeOK, FlagType, ScanSizes, Cursors
<1>3. Cursors'
  BY NextUnit DEF Cursors, More, TypeOK, ScanSizes
<1>4. ASSUME NEW v \in Vecs PROVE (SameUnit(v) \/ CubeAhead(v))'
  <2>1. CASE SameUnit(v)
    <3>1. RecGiven(v) > NC /\ cc = NC
      BY <1>1, <2>1 DEF SameUnit, RecGot, RecGiven, Cursors, TypeOK, ScanSizes
    <3>2. vc[v] = NC /\ vpc[v] \in {"final", "finalOut"}
      <4>1. vc[v] \in 0 .. NC /\ vc[v] + 1 > NC
        BY <3>1 DEF RecGiven, TypeOK, ScanSizes
      <4>2. vc[v] = NC
        BY <4>1 DEF ScanSizes
      <4>3. QED
        BY <4>2 DEF Cursors
    <3>3. \A g \in Flags : flag'[v][g] = 0
      BY <1>1, <2>1, <3>1, <3>2 DEF SameUnit, RecGot, Mm1Given, ResGot, RecGiven, Mm1Got, ResGiven, Mm2Got,
                               TypeOK, Flags, ScanSizes
    <3>4. QED
      BY <2>1, <3>2, <3>3 DEF SameUnit, CubeAhead
  <2>2. CASE VecAhead(v)
    BY <1>1, <2>2 DEF VecAhead, SameUnit, RecGot, Mm1Given, ResGot, RecGiven, Mm1Got, ResGiven, Mm2Got,
                      TypeOK, Flags
  <2>3. QED
    BY <2>1, <2>2 DEF Phases, CubeAhead
<1>5. QED
  BY <1>2, <1>3, <1>4 DEF Phases

LEMMA ZeroLoadControl ==
  ASSUME ScanSizes, Control, NEW v \in Vecs, ZeroLoad(v)
  PROVE  Control'
<1> USE DEF Control, ZeroLoad, cubeVars, Goto, Keep
<1>1. flag' = flag /\ flag \in FlagType
  BY DEF TypeOK, FlagType
<1>2. TypeOK'
  BY <1>1 DEF TypeOK, FlagType, ScanSizes, Cursors
<1>3. Cursors'
  BY DEF Cursors, More, TypeOK, ScanSizes
<1>4. ASSUME NEW u \in Vecs PROVE (SameUnit(u) \/ VecAhead(u) \/ CubeAhead(u))'
  <2>1. CASE u # v
    <3>1. /\ vpc'[u] = vpc[u] /\ vu'[u] = vu[u] /\ vc'[u] = vc[u]
          /\ \A g \in Flags : flag'[u][g] = flag[u][g]
      BY <1>1, <2>1 DEF TypeOK
    <3>2. QED
      BY <3>1 DEF Phases, SameUnit, VecAhead, CubeAhead, RecGot, Mm1Given, ResGot, RecGiven, Mm1Got, ResGiven, Mm2Got, Flags
  <2>2. CASE u = v
    <3>1. CASE SameUnit(v)
      BY <1>1, <2>2, <3>1 DEF SameUnit, RecGot, Mm1Given, ResGot, RecGiven, Mm1Got, ResGiven, Mm2Got,
                              TypeOK, Cursors, Flags
    <3>2. CASE VecAhead(v)
      BY <1>1, <2>2, <3>2 DEF VecAhead, RecGiven, TypeOK, Cursors, Flags
    <3>3. QED
      BY <3>1, <3>2 DEF Phases, CubeAhead
  <2>3. QED
    BY <2>1, <2>2
<1>5. QED
  BY <1>2, <1>3, <1>4 DEF Phases

LEMMA ZeroStoreControl ==
  ASSUME ScanSizes, Control, NEW v \in Vecs, ZeroStore(v)
  PROVE  Control'
<1> USE DEF Control, ZeroStore, cubeVars, Goto, Keep
<1>1. /\ flag' \in FlagType
      /\ \A u \in Vecs, g \in Flags :
           flag'[u][g] = IF u = v /\ g = "REC" THEN flag[u][g] + 1 ELSE flag[u][g]
  BY FlagFacts DEF TypeOK, FlagType, Flags
<1>2. TypeOK'
  BY <1>1, MinusType, HitsType DEF TypeOK, FlagType, ScanSizes, Cursors
<1>3. Cursors'
  BY DEF Cursors, More, TypeOK, ScanSizes
<1>4. ASSUME NEW u \in Vecs PROVE (SameUnit(u) \/ VecAhead(u) \/ CubeAhead(u))'
  <2>1. CASE u # v
    <3>1. /\ vpc'[u] = vpc[u] /\ vu'[u] = vu[u] /\ vc'[u] = vc[u]
          /\ \A g \in Flags : flag'[u][g] = flag[u][g]
      BY <1>1, <2>1 DEF TypeOK
    <3>2. QED
      BY <3>1 DEF Phases, SameUnit, VecAhead, CubeAhead, RecGot, Mm1Given, ResGot, RecGiven, Mm1Got, ResGiven, Mm2Got, Flags
  <2>2. CASE u = v
    <3>1. CASE SameUnit(v)
      BY <1>1, <2>2, <3>1 DEF SameUnit, RecGot, Mm1Given, ResGot, RecGiven, Mm1Got, ResGiven, Mm2Got,
                              TypeOK, Cursors, Flags
    <3>2. CASE VecAhead(v)
      BY <1>1, <2>2, <3>2 DEF VecAhead, RecGiven, TypeOK, Cursors, Flags
    <3>3. QED
      BY <3>1, <3>2 DEF Phases, CubeAhead
  <2>3. QED
    BY <2>1, <2>2
<1>5. QED
  BY <1>2, <1>3, <1>4 DEF Phases

LEMMA ReadoutLoadControl ==
  ASSUME ScanSizes, Control, NEW v \in Vecs, ReadoutLoad(v)
  PROVE  Control'
<1> USE DEF Control, ReadoutLoad, cubeVars, Goto, Keep
<1>1. /\ flag' \in FlagType
      /\ \A u \in Vecs, g \in Flags :
           flag'[u][g] = IF u = v /\ g = "MM1" THEN flag[u][g] - 1 ELSE flag[u][g]
      /\ flag[v]["MM1"] > 0
  BY FlagFacts DEF TypeOK, FlagType, Flags, VecMayPass
<1>2. TypeOK'
  BY <1>1 DEF TypeOK, FlagType, ScanSizes, Cursors
<1>3. Cursors'
  BY DEF Cursors, More, TypeOK, ScanSizes
<1>4. ASSUME NEW u \in Vecs PROVE (SameUnit(u) \/ VecAhead(u) \/ CubeAhead(u))'
  <2>1. CASE u # v
    <3>1. /\ vpc'[u] = vpc[u] /\ vu'[u] = vu[u] /\ vc'[u] = vc[u]
          /\ \A g \in Flags : flag'[u][g] = flag[u][g]
      BY <1>1, <2>1 DEF TypeOK
    <3>2. QED
      BY <3>1 DEF Phases, SameUnit, VecAhead, CubeAhead, RecGot, Mm1Given, ResGot, RecGiven, Mm1Got, ResGiven, Mm2Got, Flags
  <2>2. CASE u = v
    <3>1. SameUnit(v)
      BY <1>1 DEF Phases, VecAhead, CubeAhead, Flags
    <3>2. SameUnit(v)'
      BY <1>1, <3>1 DEF SameUnit, RecGot, Mm1Given, ResGot, RecGiven, Mm1Got, ResGiven, Mm2Got,
                        TypeOK, Cursors, Flags
    <3>3. QED
      BY <2>2, <3>2
  <2>3. QED
    BY <2>1, <2>2
<1>5. QED
  BY <1>2, <1>3, <1>4 DEF Phases

LEMMA ReadoutStoreControl ==
  ASSUME ScanSizes, Control, NEW v \in Vecs, ReadoutStore(v)
  PROVE  Control'
<1> USE DEF Control, ReadoutStore, cubeVars, Goto, Keep
<1>1. /\ flag' \in FlagType
      /\ \A u \in Vecs, g \in Flags :
           flag'[u][g] = IF u = v /\ g = "RES" THEN flag[u][g] + 1 ELSE flag[u][g]
  BY FlagFacts DEF TypeOK, FlagType, Flags
<1>0. vu[v] \in 0 .. UNITS - 1 /\ vc[v] \in 0 .. NC - 1
  <2>1. More(vu[v]) /\ vc[v] # NC
    BY DEF Cursors
  <2>2. vu[v] \in Nat /\ vc[v] \in 0 .. NC
    BY DEF TypeOK
  <2>3. QED
    BY <2>1, <2>2 DEF More, ScanSizes
<1>2. TypeOK'
  BY <1>1, <1>0, DeriveType, OutputOf DEF TypeOK, FlagType, ScanSizes, Cursors
<1>3. Cursors'
  BY <1>0 DEF Cursors, More, TypeOK, ScanSizes
<1>4. ASSUME NEW u \in Vecs PROVE (SameUnit(u) \/ VecAhead(u) \/ CubeAhead(u))'
  <2>1. CASE u # v
    <3>1. /\ vpc'[u] = vpc[u] /\ vu'[u] = vu[u] /\ vc'[u] = vc[u]
          /\ \A g \in Flags : flag'[u][g] = flag[u][g]
      BY <1>1, <2>1 DEF TypeOK
    <3>2. QED
      BY <3>1 DEF Phases, SameUnit, VecAhead, CubeAhead, RecGot, Mm1Given, ResGot, RecGiven, Mm1Got, ResGiven, Mm2Got, Flags
  <2>2. CASE u = v
    <3>1. SameUnit(v)
      BY DEF Phases, VecAhead, CubeAhead
    <3>2. SameUnit(v)'
      BY <1>1, <3>1 DEF SameUnit, RecGot, Mm1Given, ResGot, RecGiven, Mm1Got, ResGiven, Mm2Got,
                        TypeOK, Cursors, Flags
    <3>3. QED
      BY <2>2, <3>2
  <2>3. QED
    BY <2>1, <2>2
<1>5. QED
  BY <1>2, <1>3, <1>4 DEF Phases

LEMMA RecurrenceLoadControl ==
  ASSUME ScanSizes, Control, NEW v \in Vecs, RecurrenceLoad(v)
  PROVE  Control'
<1> USE DEF Control, RecurrenceLoad, cubeVars, Goto, Keep
<1>1. /\ flag' \in FlagType
      /\ \A u \in Vecs, g \in Flags :
           flag'[u][g] = IF u = v /\ g = "MM2" THEN flag[u][g] - 1 ELSE flag[u][g]
      /\ flag[v]["MM2"] > 0
  BY FlagFacts DEF TypeOK, FlagType, Flags, VecMayPass
<1>2. TypeOK'
  BY <1>1 DEF TypeOK, FlagType, ScanSizes, Cursors
<1>3. Cursors'
  BY DEF Cursors, More, TypeOK, ScanSizes
<1>4. ASSUME NEW u \in Vecs PROVE (SameUnit(u) \/ VecAhead(u) \/ CubeAhead(u))'
  <2>1. CASE u # v
    <3>1. /\ vpc'[u] = vpc[u] /\ vu'[u] = vu[u] /\ vc'[u] = vc[u]
          /\ \A g \in Flags : flag'[u][g] = flag[u][g]
      BY <1>1, <2>1 DEF TypeOK
    <3>2. QED
      BY <3>1 DEF Phases, SameUnit, VecAhead, CubeAhead, RecGot, Mm1Given, ResGot, RecGiven, Mm1Got, ResGiven, Mm2Got, Flags
  <2>2. CASE u = v
    <3>1. SameUnit(v)
      BY <1>1 DEF Phases, VecAhead, CubeAhead, Flags
    <3>2. SameUnit(v)'
      BY <1>1, <3>1 DEF SameUnit, RecGot, Mm1Given, ResGot, RecGiven, Mm1Got, ResGiven, Mm2Got,
                        TypeOK, Cursors, Flags
    <3>3. QED
      BY <2>2, <3>2
  <2>3. QED
    BY <2>1, <2>2
<1>5. QED
  BY <1>2, <1>3, <1>4 DEF Phases

LEMMA RecurrenceStoreControl ==
  ASSUME ScanSizes, Control, NEW v \in Vecs, RecurrenceStore(v)
  PROVE  Control'
<1> USE DEF Control, RecurrenceStore, cubeVars, Goto, Keep
<1>1. /\ flag' \in FlagType
      /\ \A u \in Vecs, g \in Flags :
           flag'[u][g] = IF u = v /\ g = "REC" THEN flag[u][g] + 1 ELSE flag[u][g]
  BY FlagFacts DEF TypeOK, FlagType, Flags
<1>0. vu[v] \in 0 .. UNITS - 1 /\ vc[v] \in 0 .. NC - 1
  <2>1. More(vu[v]) /\ vc[v] # NC
    BY DEF Cursors
  <2>2. vu[v] \in Nat /\ vc[v] \in 0 .. NC
    BY DEF TypeOK
  <2>3. QED
    BY <2>1, <2>2 DEF More, ScanSizes
<1>2. TypeOK'
  BY <1>1, <1>0, RecurrenceType, HitsType DEF TypeOK, FlagType, ScanSizes, Cursors
<1>3. Cursors'
  <2>1. /\ vc'[v] = vc[v] + 1 /\ vu' = vu
        /\ vpc'[v] = IF vc[v] + 1 < NC THEN "read" ELSE "final"
        /\ \A u \in Vecs : u # v => vc'[u] = vc[u] /\ vpc'[u] = vpc[u]
    BY DEF TypeOK
  <2>2. vpc'[v] \in {"final", "finalOut"} <=> vc'[v] = NC
    BY <1>0, <2>1 DEF ScanSizes
  <2>3. More(vu[v]) /\ vpc'[v] \notin {"zero", "prime", "done"}
    BY <2>1 DEF Cursors
  <2>4. QED
    BY <2>1, <2>2, <2>3 DEF Cursors, More
<1>4. ASSUME NEW u \in Vecs PROVE (SameUnit(u) \/ VecAhead(u) \/ CubeAhead(u))'
  <2>1. CASE u # v
    <3>1. /\ vpc'[u] = vpc[u] /\ vu'[u] = vu[u] /\ vc'[u] = vc[u]
          /\ \A g \in Flags : flag'[u][g] = flag[u][g]
      BY <1>1, <2>1 DEF TypeOK
    <3>2. QED
      BY <3>1 DEF Phases, SameUnit, VecAhead, CubeAhead, RecGot, Mm1Given, ResGot, RecGiven, Mm1Got, ResGiven, Mm2Got, Flags
  <2>2. CASE u = v
    <3>1. SameUnit(v)
      BY DEF Phases, VecAhead, CubeAhead
    <3>2. SameUnit(v)'
      BY <1>1, <3>1 DEF SameUnit, RecGot, Mm1Given, ResGot, RecGiven, Mm1Got, ResGiven, Mm2Got,
                        TypeOK, Cursors, Flags
    <3>3. QED
      BY <2>2, <3>2
  <2>3. QED
    BY <2>1, <2>2
<1>5. QED
  BY <1>2, <1>3, <1>4 DEF Phases

LEMMA FinalLoadControl ==
  ASSUME ScanSizes, Control, NEW v \in Vecs, FinalLoad(v)
  PROVE  Control'
<1> USE DEF Control, FinalLoad, cubeVars, Goto, Keep
<1>1. flag' = flag /\ flag \in FlagType
  BY DEF TypeOK, FlagType
<1>2. TypeOK'
  BY <1>1 DEF TypeOK, FlagType, ScanSizes, Cursors
<1>3. Cursors'
  BY DEF Cursors, More, TypeOK, ScanSizes
<1>4. ASSUME NEW u \in Vecs PROVE (SameUnit(u) \/ VecAhead(u) \/ CubeAhead(u))'
  <2>1. CASE u # v
    <3>1. /\ vpc'[u] = vpc[u] /\ vu'[u] = vu[u] /\ vc'[u] = vc[u]
          /\ \A g \in Flags : flag'[u][g] = flag[u][g]
      BY <1>1, <2>1 DEF TypeOK
    <3>2. QED
      BY <3>1 DEF Phases, SameUnit, VecAhead, CubeAhead, RecGot, Mm1Given, ResGot, RecGiven, Mm1Got, ResGiven, Mm2Got, Flags
  <2>2. CASE u = v
    <3>1. CASE SameUnit(v)
      BY <1>1, <2>2, <3>1 DEF SameUnit, RecGot, Mm1Given, ResGot, RecGiven, Mm1Got, ResGiven, Mm2Got,
                              TypeOK, Cursors, Flags
    <3>2. CASE CubeAhead(v)
      BY <1>1, <2>2, <3>2 DEF CubeAhead, TypeOK
    <3>3. QED
      BY <3>1, <3>2 DEF Phases, VecAhead
  <2>3. QED
    BY <2>1, <2>2
<1>5. QED
  BY <1>2, <1>3, <1>4 DEF Phases

LEMMA FinalStoreControl ==
  ASSUME ScanSizes, Control, NEW v \in Vecs, FinalStore(v)
  PROVE  Control'
<1> USE DEF Control, FinalStore, cubeVars, Goto, Keep
<1>1. flag' = flag /\ flag \in FlagType
  BY DEF TypeOK, FlagType
<1>2. TypeOK'
  BY <1>1, OutputOf, NextUnit DEF TypeOK, FlagType, ScanSizes, Cursors
<1>3. Cursors'
  BY NextUnit DEF Cursors, More, TypeOK, ScanSizes
<1>4. ASSUME NEW u \in Vecs PROVE (SameUnit(u) \/ VecAhead(u) \/ CubeAhead(u))'
  <2>1. CASE u # v
    <3>1. /\ vpc'[u] = vpc[u] /\ vu'[u] = vu[u] /\ vc'[u] = vc[u]
          /\ \A g \in Flags : flag'[u][g] = flag[u][g]
      BY <1>1, <2>1 DEF TypeOK
    <3>2. QED
      BY <3>1 DEF Phases, SameUnit, VecAhead, CubeAhead, RecGot, Mm1Given, ResGot, RecGiven, Mm1Got, ResGiven, Mm2Got, Flags
  <2>2. CASE u = v
    <3>1. CASE SameUnit(v)
      <4>1. vc[v] = NC /\ cc = NC /\ cpc = "drain"
        <5>1. vc[v] = NC
          BY DEF Cursors
        <5>2. NC <= cc /\ cc \in 0 .. NC
          BY <3>1, <5>1 DEF SameUnit, Mm2Got, TypeOK
        <5>3. QED
          BY <5>1, <5>2 DEF Cursors, ScanSizes
      <4>2. /\ vc'[v] = 0 /\ vu'[v] = cu + bnum /\ vpc'[v] \in {"zero", "done"}
        BY <3>1 DEF SameUnit, TypeOK
      <4>3. \A g \in Flags : flag[v][g] = IF g = "REC" THEN 1 ELSE 0
        BY <3>1, <4>1 DEF SameUnit, RecGot, Mm1Given, ResGot, RecGiven, Mm1Got, ResGiven, Mm2Got,
                          TypeOK, Flags, ScanSizes
      <4>4. QED
        BY <1>1, <2>2, <4>1, <4>2, <4>3 DEF VecAhead, RecGiven
    <3>2. CASE CubeAhead(v)
      BY <1>1, <2>2, <3>2 DEF CubeAhead, SameUnit, RecGot, Mm1Given, ResGot, RecGiven, Mm1Got, ResGiven, Mm2Got,
                              TypeOK, Cursors, More, Flags, ScanSizes
    <3>3. QED
      BY <3>1, <3>2 DEF Phases, VecAhead
  <2>3. QED
    BY <2>1, <2>2
<1>5. QED
  BY <1>2, <1>3, <1>4 DEF Phases

-----------------------------------------------------------------------------
LEMMA NextControl == ASSUME ScanSizes PROVE Control /\ [Next]_vars => Control'
<1> SUFFICES ASSUME Control, [Next]_vars PROVE Control'
  OBVIOUS
<1>1. CASE UNCHANGED vars
  BY <1>1 DEF vars, cubeVars, vecVars, Control, TypeOK, Cursors, More, Phases, SameUnit, VecAhead,
              CubeAhead, RecGot, Mm1Given, ResGot, RecGiven, Mm1Got, ResGiven, Mm2Got
<1>2. CASE Cube
  BY <1>2, LoadSControl, StoreWSControl, LoadVCControl, StoreKVControl, DrainControl DEF Cube
<1>3. ASSUME NEW v \in Vecs, Vec(v) PROVE Control'
  BY <1>3, ZeroLoadControl, ZeroStoreControl, ReadoutLoadControl, ReadoutStoreControl,
     RecurrenceLoadControl, RecurrenceStoreControl, FinalLoadControl, FinalStoreControl DEF Vec
<1>4. QED
  BY <1>1, <1>2, <1>3 DEF Next, Exited

LEMMA InitControl == ASSUME ScanSizes PROVE Init => Control
<1> SUFFICES ASSUME Init PROVE Control
  OBVIOUS
<1>1. cid \in Nat /\ cid % bnum = cid
  <2>1. cid \in 0 .. bnum - 1 /\ bnum \in Nat \ {0}
    BY DEF Init, ScanSizes
  <2>2. (bnum * 0 + cid) % bnum = cid
    BY <2>1, ModUnique
  <2>3. bnum * 0 + cid = cid
    BY <2>1
  <2>4. QED
    BY <2>1, <2>2, <2>3
<1>2. TypeOK
  BY <1>1 DEF Init, TypeOK, Values, ScanSizes
<1>3. Cursors
  BY <1>1 DEF Init, Cursors, ScanSizes
<1>4. ASSUME NEW v \in Vecs PROVE SameUnit(v)
  <2>1. /\ cpc \in {"ws", "done"} /\ cc = 0 /\ vpc[v] \in {"zero", "done"} /\ vc[v] = 0
        /\ vu[v] = cu /\ \A g \in Flags : flag[v][g] = 0
    BY DEF Init
  <2>2. /\ RecGot = 0 /\ Mm1Given = 0 /\ ResGot = 0 /\ RecGiven(v) = 0
        /\ Mm1Got(v) = 0 /\ ResGiven(v) = 0 /\ Mm2Got(v) = 0
    BY <2>1 DEF RecGot, Mm1Given, ResGot, RecGiven, Mm1Got, ResGiven, Mm2Got
  <2>3. QED
    BY <2>1, <2>2 DEF SameUnit, Flags
<1>5. QED
  BY <1>2, <1>3, <1>4 DEF Control, Phases

\* In a unit, where one side is says where the other can be.
LEMMA LockStep ==
  ASSUME ScanSizes, Control, NEW v \in Vecs, SameUnit(v)
  PROVE  /\ cpc = "ws" /\ flag[v]["REC"] > 0 => vpc[v] = "read" /\ vc[v] = cc
         /\ cpc = "wsOut" => vpc[v] = "read" /\ vc[v] = cc
         /\ cpc = "kv" => vpc[v] \in {"read", "readOut", "recur"} /\ vc[v] = cc
         /\ cpc = "kv" /\ flag[v]["RES"] > 0 => vpc[v] = "recur"
         /\ cpc = "kvOut" => vpc[v] = "recur" /\ vc[v] = cc
         /\ vpc[v] \in {"zero", "prime"} => cpc = "ws" /\ cc = 0
         /\ vpc[v] = "read" /\ flag[v]["MM1"] > 0 => cpc = "kv" /\ cc = vc[v]
         /\ vpc[v] = "readOut" => cpc = "kv" /\ cc = vc[v]
         /\ vpc[v] = "recur" =>
              \/ cpc \in {"kv", "kvOut"} /\ cc = vc[v]
              \/ cpc \in {"ws", "drain"} /\ cc = vc[v] + 1
         /\ vpc[v] = "recur" /\ flag[v]["MM2"] > 0 => cc = vc[v] + 1
         /\ vpc[v] = "recurOut" => cpc \in {"ws", "drain"} /\ cc = vc[v] + 1
         /\ vpc[v] \in {"final", "finalOut"} => cpc = "drain"
<1> DEFINE x == vc[v]
<1>1. /\ x \in Nat /\ x <= NC /\ cc \in Nat /\ cc <= NC /\ NC \in Nat /\ NC > 0
      /\ cpc \in {"ws", "wsOut", "kv", "kvOut", "drain", "done"}
      /\ vpc[v] \in {"zero", "prime", "read", "readOut", "recur", "recurOut", "final", "finalOut", "done"}
  BY DEF Control, TypeOK, ScanSizes
<1>2. /\ cpc = "drain" <=> cc = NC
      /\ vpc[v] \in {"final", "finalOut"} <=> x = NC
      /\ vpc[v] \in {"zero", "prime", "done"} => x = 0
      /\ cpc = "done" <=> vpc[v] = "done"
  BY DEF Control, Cursors, SameUnit
<1>3. /\ RecGot <= RecGiven(v) /\ flag[v]["REC"] = RecGiven(v) - RecGot
      /\ Mm1Got(v) <= Mm1Given /\ flag[v]["MM1"] = Mm1Given - Mm1Got(v)
      /\ ResGot <= ResGiven(v) /\ flag[v]["RES"] = ResGiven(v) - ResGot
      /\ Mm2Got(v) <= cc /\ flag[v]["MM2"] = cc - Mm2Got(v)
  BY DEF SameUnit
<1>4. /\ RecGot = IF cpc \in {"wsOut", "kv", "kvOut"} THEN cc + 1 ELSE cc
      /\ Mm1Given = IF cpc \in {"kv", "kvOut"} THEN cc + 1 ELSE cc
      /\ ResGot = IF cpc = "kvOut" THEN cc + 1 ELSE cc
      /\ RecGiven(v) = IF vpc[v] \in {"zero", "prime", "done"} THEN 0 ELSE x + 1
      /\ Mm1Got(v) = IF vpc[v] \in {"readOut", "recur", "recurOut"} THEN x + 1 ELSE x
      /\ ResGiven(v) = IF vpc[v] \in {"recur", "recurOut"} THEN x + 1 ELSE x
      /\ Mm2Got(v) = IF vpc[v] = "recurOut" THEN x + 1 ELSE x
  BY DEF RecGot, Mm1Given, ResGot, RecGiven, Mm1Got, ResGiven, Mm2Got
<1> HIDE DEF x
<1>5. /\ cpc = "wsOut" => vpc[v] = "read" /\ x = cc
      /\ cpc = "kv" => vpc[v] \in {"read", "readOut", "recur"} /\ x = cc
      /\ cpc = "kvOut" => vpc[v] = "recur" /\ x = cc
  BY <1>1, <1>2, <1>3, <1>4
<1>6. /\ vpc[v] \in {"zero", "prime"} => cpc = "ws" /\ cc = 0
      /\ vpc[v] = "readOut" => cpc = "kv" /\ cc = x
      /\ vpc[v] = "recur" => \/ cpc \in {"kv", "kvOut"} /\ cc = x
                             \/ cpc \in {"ws", "drain"} /\ cc = x + 1
      /\ vpc[v] = "recurOut" => cpc \in {"ws", "drain"} /\ cc = x + 1
      /\ vpc[v] \in {"final", "finalOut"} => cpc = "drain"
  BY <1>1, <1>2, <1>3, <1>4
<1>7. /\ cpc = "ws" /\ flag[v]["REC"] > 0 => vpc[v] = "read" /\ x = cc
      /\ cpc = "kv" /\ flag[v]["RES"] > 0 => vpc[v] = "recur"
      /\ vpc[v] = "read" /\ flag[v]["MM1"] > 0 => cpc = "kv" /\ cc = x
      /\ vpc[v] = "recur" /\ flag[v]["MM2"] > 0 => cc = x + 1
  BY <1>1, <1>2, <1>3, <1>4
<1>8. QED
  BY <1>5, <1>6, <1>7 DEF x

\* Which of the three phases a place belongs to.
LEMMA PhaseOf ==
  ASSUME Control, NEW v \in Vecs
  PROVE  /\ vpc[v] \in {"readOut", "recur", "recurOut"} => SameUnit(v)
         /\ vpc[v] = "read" => SameUnit(v) \/ VecAhead(v)
         /\ vpc[v] \in {"zero", "prime"} => SameUnit(v) \/ VecAhead(v)
         /\ vpc[v] \in {"final", "finalOut"} => SameUnit(v) \/ CubeAhead(v)
         /\ cpc \in {"wsOut", "kv", "kvOut"} => SameUnit(v)
         /\ flag[v]["MM1"] > 0 => SameUnit(v)
         /\ cpc = "ws" /\ flag[v]["REC"] > 0 => SameUnit(v)
BY DEF Control, Phases, VecAhead, CubeAhead, Flags

\* The chunk loop is in lock step.
LEMMA LockStepHandshake == ASSUME ScanSizes, Control PROVE Handshake
<1> SUFFICES ASSUME NEW v \in Vecs
             PROVE  /\ \A f \in {"MM1", "RES", "MM2"} : flag[v][f] <= 1
                    /\ flag[v]["REC"] <= 2
                    /\ flag[v]["REC"] = 2 => cpc = "drain" /\ vu[v] = cu + bnum
                    /\ Done => \A f \in Flags : flag[v][f] = 0
  BY DEF Handshake
<1>1. CASE SameUnit(v)
  <2>1. /\ flag[v]["REC"] = RecGiven(v) - RecGot /\ flag[v]["MM1"] = Mm1Given - Mm1Got(v)
        /\ flag[v]["RES"] = ResGiven(v) - ResGot /\ flag[v]["MM2"] = cc - Mm2Got(v)
        /\ RecGot <= RecGiven(v) /\ Mm1Got(v) <= Mm1Given /\ ResGot <= ResGiven(v) /\ Mm2Got(v) <= cc
    BY <1>1 DEF SameUnit
  <2>2. cc \in Nat /\ vc[v] \in Nat
    BY DEF Control, TypeOK, ScanSizes
  <2>3. /\ RecGiven(v) - RecGot <= 1 /\ Mm1Given - Mm1Got(v) <= 1
        /\ ResGiven(v) - ResGot <= 1 /\ cc - Mm2Got(v) <= 1
    BY <2>1, <2>2 DEF RecGot, Mm1Given, ResGot, RecGiven, Mm1Got, ResGiven, Mm2Got
  <2>4. ASSUME Done PROVE cc = 0 /\ vc[v] = 0 /\ vpc[v] = "done" /\ cpc = "done"
    BY <2>4 DEF Done, Control, Cursors
  <2>5. ASSUME Done PROVE \A f \in Flags : flag[v][f] = 0
    BY <2>1, <2>4, <2>5 DEF RecGot, Mm1Given, ResGot, RecGiven, Mm1Got, ResGiven, Mm2Got, Flags
  <2>6. QED
    BY <2>1, <2>3, <2>5, <2>2 DEF RecGot, Mm1Given, ResGot, RecGiven, Mm1Got, ResGiven, Mm2Got
<1>2. CASE VecAhead(v)
  BY <1>2 DEF VecAhead, RecGiven, Flags, Done
<1>3. CASE CubeAhead(v)
  BY <1>3 DEF CubeAhead, Flags, Done
<1>4. QED
  BY <1>1, <1>2, <1>3 DEF Control, Phases
-----------------------------------------------------------------------------
(* The data.                                                               *)

LEMMA CubeUnit ==
  ASSUME ScanSizes, Control, cpc \in {"ws", "wsOut", "kv", "kvOut", "drain"}
  PROVE  cu \in 0 .. UNITS - 1
BY DEF Control, Cursors, More, TypeOK, ScanSizes

LEMMA VecUnit ==
  ASSUME ScanSizes, Control, NEW v \in Vecs
  PROVE  /\ vpc[v] # "done" => vu[v] \in 0 .. UNITS - 1
         /\ vpc[v] \in {"zero", "prime", "read", "readOut", "recur", "recurOut"} => vc[v] \in 0 .. NC - 1
<1>1. /\ vpc[v] # "done" => More(vu[v])
      /\ vc[v] = NC <=> vpc[v] \in {"final", "finalOut"}
  BY DEF Control, Cursors
<1>2. vu[v] \in Nat /\ vc[v] \in 0 .. NC
  BY DEF Control, TypeOK
<1>3. QED
  BY <1>1, <1>2 DEF More, ScanSizes

\* A result is neither an output not written yet nor, of finite operands, a NaN.
LEMMA Results ==
  ASSUME NEW x, NEW y, NEW good, NEW u \in Nat, NEW c \in Nat
  PROVE  /\ Derive(x, good, u, c) # None /\ (x # NaN => Derive(x, good, u, c) # NaN)
         /\ Recurrence(x, y, u, c) # None
         /\ x # NaN /\ y # NaN /\ u \notin NonFinite => Recurrence(x, y, u, c) # NaN
         /\ Minus(x) # None /\ (x # NaN => Minus(x) = Zero)
         /\ Zero \notin {None, NaN} /\ Bad \notin {None, NaN} /\ NaN # None
         /\ R(u, c) \notin {None, NaN}
BY DEF Derive, Recurrence, Minus, R, Zero, Bad, NaN, None

\* A unit of this core that comes before those that are not finite is finite.
LEMMA UntaintedUnit ==
  ASSUME ScanSizes, NEW u \in Nat, u % bnum = cid, Untainted(u)
  PROVE  u \notin NonFinite
BY DEF Untainted, ScanSizes

LEMMA CubeFinite == ASSUME ScanSizes, Control, FiniteData, Cube PROVE FiniteData'
<1>1. cu \in 0 .. UNITS - 1 /\ cu \in Nat /\ cc \in Nat
  BY CubeUnit DEF Cube, LoadS, StoreWS, LoadVC, StoreKV, Drain, Control, TypeOK, ScanSizes
<1>2. /\ Derive(creg, R(cu, cc), cu, cc) # NaN
      /\ Derive(creg, <<cu, cc>>, cu, cc) # NaN
  BY <1>1, Results DEF FiniteData
<1>3. CASE LoadS
  BY <1>3 DEF LoadS, FiniteData, AllZeroed, vecVars
<1>4. CASE StoreWS
  BY <1>2, <1>4 DEF StoreWS, FiniteData, AllZeroed, vecVars
<1>5. CASE LoadVC
  BY <1>5 DEF LoadVC, FiniteData, AllZeroed, vecVars
<1>6. CASE StoreKV
  BY <1>2, <1>6 DEF StoreKV, FiniteData, AllZeroed, vecVars
<1>7. CASE Drain
  BY <1>7 DEF Drain, FiniteData, AllZeroed, vecVars
<1>8. QED
  BY <1>3, <1>4, <1>5, <1>6, <1>7 DEF Cube

LEMMA VecFinite ==
  ASSUME ScanSizes, Control, FiniteData, Untainted(cu), NEW v \in Vecs, Vec(v)
  PROVE  FiniteData'
<1> USE DEF Goto, Keep, cubeVars, Control, TypeOK
<1>1. CASE ZeroLoad(v)
  <2>1. /\ NaN \notin {S, WS, VC, KV, creg}' /\ \A u \in Vecs : NaN \notin {vreg[u][1], vreg[u][2]}'
    BY <1>1 DEF ZeroLoad, FiniteData
  <2>2. ~ AllZeroed'
    BY <1>1 DEF ZeroLoad, AllZeroed
  <2>3. QED
    BY <1>1, <2>1, <2>2 DEF ZeroLoad, FiniteData
<1>2. CASE ZeroStore(v)
  BY <1>2, Results DEF ZeroStore, FiniteData
<1>3. CASE ReadoutLoad(v)
  <2>1. AllZeroed' => AllZeroed
    BY <1>3 DEF ReadoutLoad, AllZeroed
  <2>2. ASSUME vc[v] = 0 PROVE AllZeroed
    <3>1. flag[v]["MM1"] > 0 /\ vpc[v] = "read"
      BY <1>3 DEF ReadoutLoad, VecMayPass
    <3>2. cpc = "kv" /\ cc = 0
      BY <2>2, <3>1, PhaseOf, LockStep
    <3>3. \A u \in Vecs : vpc[u] \in {"read", "readOut", "recur"} /\ vc[u] = 0
      BY <3>2, PhaseOf, LockStep
    <3>4. QED
      BY <3>3 DEF AllZeroed
  <2>3. vc[v] = 0 => S = Zero
    BY <2>2 DEF FiniteData
  <2>4. QED
    BY <1>3, <2>1, <2>3 DEF ReadoutLoad, FiniteData
<1>4. CASE ReadoutStore(v)
  <2>1. AllZeroed' => AllZeroed
    BY <1>4 DEF ReadoutStore, AllZeroed
  <2>2. vu[v] \in Nat /\ vc[v] \in Nat
    BY DEF ScanSizes
  <2>3. Derive(vreg[v][2], <<vu[v], vc[v]>>, vu[v], vc[v]) # NaN
    <3>1. vreg[v][2] # NaN
      BY DEF FiniteData
    <3>2. QED
      BY <2>2, <3>1 DEF Derive, Bad, NaN
  <2>4. QED
    BY <1>4, <2>1, <2>3 DEF ReadoutStore, FiniteData
<1>5. CASE RecurrenceLoad(v)
  <2>1. AllZeroed' => AllZeroed
    BY <1>5 DEF RecurrenceLoad, AllZeroed
  <2>2. QED
    BY <1>5, <2>1 DEF RecurrenceLoad, FiniteData
<1>6. CASE RecurrenceStore(v)
  <2>1. ~ AllZeroed'
    BY <1>6 DEF RecurrenceStore, AllZeroed, ScanSizes
  <2>2. vu[v] = cu /\ cu % bnum = cid /\ cu \in Nat /\ vc[v] \in Nat
    BY <1>6, PhaseOf DEF RecurrenceStore, SameUnit, Cursors, ScanSizes
  <2>3. vu[v] \notin NonFinite
    BY <2>2, UntaintedUnit
  <2>4. Recurrence(vreg[v][1], vreg[v][2], vu[v], vc[v]) # NaN
    <3>1. vreg[v][1] # NaN /\ vreg[v][2] # NaN
      BY DEF FiniteData
    <3>2. QED
      BY <2>2, <2>3, <3>1, Results
  <2>5. QED
    BY <1>6, <2>1, <2>4 DEF RecurrenceStore, FiniteData
<1>7. CASE FinalLoad(v)
  <2>1. AllZeroed' => AllZeroed
    BY <1>7 DEF FinalLoad, AllZeroed
  <2>2. QED
    BY <1>7, <2>1 DEF FinalLoad, FiniteData
<1>8. CASE FinalStore(v)
  <2>1. ~ AllZeroed'
    BY <1>8 DEF FinalStore, AllZeroed
  <2>2. QED
    BY <1>8, <2>1 DEF FinalStore, FiniteData
<1>9. QED
  BY <1>1, <1>2, <1>3, <1>4, <1>5, <1>6, <1>7, <1>8 DEF Vec

\* Units only grow: what is untainted after a step was so before.
LEMMA UntaintedBefore ==
  ASSUME ScanSizes, Control, Next, Untainted(cu)'
  PROVE  Untainted(cu)
<1>1. cid' = cid /\ cu \in Nat /\ (cu' = cu \/ cu' = cu + bnum)
  BY DEF Control, TypeOK, Next, Cube, LoadS, StoreWS, LoadVC, StoreKV, Drain, Vec, ZeroLoad, ZeroStore,
         ReadoutLoad, ReadoutStore, RecurrenceLoad, RecurrenceStore, FinalLoad, FinalStore, Exited, vars,
         cubeVars
<1>2. QED
  BY <1>1 DEF Untainted, ScanSizes

LEMMA FinitePreserved ==
  ASSUME ScanSizes, Control, Finite, [Next]_vars
  PROVE  Finite'
<1>1. CASE UNCHANGED vars
  BY <1>1 DEF vars, cubeVars, vecVars, Finite, FiniteData, Untainted, AllZeroed
<1>2. ASSUME Next, Untainted(cu)', ~ UNCHANGED vars PROVE FiniteData'
  <2>1. FiniteData /\ Untainted(cu)
    BY <1>2, UntaintedBefore DEF Finite, FiniteData
  <2>2. QED
    BY <1>2, <2>1, CubeFinite, VecFinite DEF Next, Exited
<1>3. QED
  BY <1>1, <1>2 DEF Finite, FiniteData

LEMMA FirstReadoutPreserved ==
  ASSUME ScanSizes, Control, Finite, FirstReadoutZero, [Next]_vars
  PROVE  FirstReadoutZero'
<1>1. CASE UNCHANGED <<cid, h>>
  BY <1>1 DEF FirstReadoutZero, Untainted
<1>2. ASSUME NEW v \in Vecs, ReadoutStore(v) PROVE FirstReadoutZero'
  <2>1. vpc[v] = "readOut" /\ vu[v] = cu
    BY <1>2, PhaseOf DEF ReadoutStore, SameUnit
  <2>2. vc[v] = 0 /\ Untainted(vu[v]) => vreg[v][1] = Zero
    BY <2>1 DEF Finite, FiniteData
  <2>3. \A p \in Outputs : h'[p] = h[p] \/ (p = <<vu[v], vc[v]>> /\ h'[p] = vreg[v][1])
    BY <1>2 DEF ReadoutStore, Control, TypeOK
  <2>4. QED
    BY <1>2, <2>2, <2>3 DEF ReadoutStore, FirstReadoutZero, Untainted
<1>3. ASSUME NEW v \in Vecs, FinalStore(v) PROVE FirstReadoutZero'
  <2>1. \A p \in Outputs : h'[p] = h[p] \/ p = <<vu[v], NC>>
    BY <1>3 DEF FinalStore, Control, TypeOK
  <2>2. QED
    BY <1>3, <2>1 DEF FinalStore, FirstReadoutZero, Untainted, ScanSizes
<1>4. QED
  BY <1>1, <1>2, <1>3 DEF vars, Next, Cube, LoadS, StoreWS, LoadVC, StoreKV, Drain, Vec, ZeroLoad,
     ZeroStore, ReadoutLoad, RecurrenceLoad, RecurrenceStore, FinalLoad, Exited

\* Two units of a core that are less than a stride apart are the same.
LEMMA SameResidue ==
  ASSUME NEW n \in Nat \ {0}, NEW a \in Nat, NEW b \in Nat, a % n = b % n, a < b + n
  PROVE  a <= b
<1> DEFINE q == a \div n
           k == b \div n
           r == b % n
<1>1. a = n * q + r /\ b = n * k + r /\ q \in Nat /\ k \in Nat /\ r \in 0 .. n - 1
  OBVIOUS
<1> HIDE DEF q, k, r
<1>2. ASSUME k < q PROVE FALSE
  <2>1. PICK d \in Nat : q = k + 1 + d
    <3>1. q - k - 1 \in Nat
      BY <1>1, <1>2
    <3>2. QED
      BY <3>1, <1>1
  <2>2. n * q = n * k + n + n * d /\ n * d >= 0
    BY <2>1, <1>1
  <2>3. QED
    BY <1>1, <2>2
<1>3. CASE q = k
  BY <1>1, <1>3
<1>4. CASE q < k
  <2>1. PICK d \in Nat : k = q + 1 + d
    <3>1. k - q - 1 \in Nat
      BY <1>1, <1>4
    <3>2. QED
      BY <3>1, <1>1
  <2>2. n * k = n * q + n + n * d /\ n * d >= 0
    BY <2>1, <1>1
  <2>3. QED
    BY <1>1, <2>2
<1>5. QED
  BY <1>1, <1>2, <1>3, <1>4

LEMMA WrittenValues ==
  ASSUME ScanSizes, Control, Written, Next
  PROVE  /\ None \notin {S, WS, VC, KV, creg}'
         /\ \A v \in Vecs : None \notin {vreg[v][1], vreg[v][2]}'
         /\ \A p \in Outputs : h[p] # None => h'[p] # None
<1> USE DEF Control, TypeOK, Goto, Keep, cubeVars, vecVars, ScanSizes
<1> DEFINE Kept == \A v \in Vecs : None \notin {vreg[v][1], vreg[v][2]}
<1>1. None \notin {S, WS, VC, KV, creg} /\ Kept
  BY DEF Written
<1>2. CASE Cube
  <2>1. cc \in Nat /\ cu \in Nat
    OBVIOUS
  <2>2. Derive(creg, R(cu, cc), cu, cc) # None /\ Derive(creg, <<cu, cc>>, cu, cc) # None
    BY <2>1, Results
  <2>3. QED
    BY <1>1, <1>2, <2>2 DEF Cube, LoadS, StoreWS, LoadVC, StoreKV, Drain
<1>3. ASSUME NEW v \in Vecs, Vec(v)
      PROVE  /\ None \notin {S, WS, VC, KV, creg}' /\ Kept'
             /\ \A p \in Outputs : h[p] # None => h'[p] # None
  <2>1. vc[v] \in Nat /\ vu[v] \in Nat
    OBVIOUS
  <2>2. /\ Derive(vreg[v][2], <<vu[v], vc[v]>>, vu[v], vc[v]) # None
        /\ Recurrence(vreg[v][1], vreg[v][2], vu[v], vc[v]) # None
        /\ Minus(vreg[v][1]) # None
    BY <2>1, Results
  <2>3. None \notin {S, WS, VC, KV, creg}'
    BY <1>1, <1>3, <2>2 DEF Vec, ZeroLoad, ZeroStore, ReadoutLoad, ReadoutStore, RecurrenceLoad,
                            RecurrenceStore, FinalLoad, FinalStore
  <2>4. Kept'
    BY <1>1, <1>3 DEF Vec, ZeroLoad, ZeroStore, ReadoutLoad, ReadoutStore, RecurrenceLoad,
                      RecurrenceStore, FinalLoad, FinalStore
  <2>5. h' = h \/ \E p \in Outputs : h' = [h EXCEPT ![p] = vreg[v][1]]
    <3>1. h' = h \/ ReadoutStore(v) \/ FinalStore(v)
      BY <1>3 DEF Vec, ZeroLoad, ZeroStore, ReadoutLoad, RecurrenceLoad, RecurrenceStore, FinalLoad
    <3>2. ASSUME ReadoutStore(v) \/ FinalStore(v) PROVE vu[v] \in 0 .. UNITS - 1
      BY <3>2, VecUnit DEF ReadoutStore, FinalStore
    <3>3. ASSUME ReadoutStore(v)
          PROVE  <<vu[v], vc[v]>> \in Outputs /\ h' = [h EXCEPT ![<<vu[v], vc[v]>>] = vreg[v][1]]
      BY <3>2, <3>3 DEF ReadoutStore, Outputs
    <3>4. ASSUME FinalStore(v)
          PROVE  <<vu[v], NC>> \in Outputs /\ h' = [h EXCEPT ![<<vu[v], NC>>] = vreg[v][1]]
      BY <3>2, <3>4 DEF FinalStore, Outputs
    <3>5. QED
      BY <3>1, <3>3, <3>4
  <2>6. QED
    BY <1>1, <2>3, <2>4, <2>5
<1>4. QED
  BY <1>1, <1>2, <1>3 DEF Next, Exited, vars

LEMMA WrittenPreserved == ASSUME ScanSizes, Control, Written, [Next]_vars PROVE Written'
<1>1. CASE UNCHANGED vars
  BY <1>1 DEF vars, cubeVars, vecVars, Written, WrittenUpTo, ResGiven
<1>2. ASSUME Next PROVE Written'
  <2> SUFFICES ASSUME NEW v \in Vecs PROVE WrittenUpTo(v)'
    BY <1>2, WrittenValues DEF Written
  <2> USE <1>2 DEF Control, TypeOK, ScanSizes, Goto
  <2>1. WrittenUpTo(v) /\ (\A p \in Outputs : h[p] # None => h'[p] # None) /\ vreg[v][1] # None
    BY WrittenValues DEF Written
  <2>2. CASE UNCHANGED <<cid, vu, vc, vpc>>
    BY <2>1, <2>2 DEF WrittenUpTo, ResGiven
  <2>3. ASSUME NEW u \in Vecs, u # v, Vec(u) PROVE WrittenUpTo(v)'
    <3>1. cid' = cid /\ vu'[v] = vu[v] /\ vc'[v] = vc[v] /\ vpc'[v] = vpc[v]
      BY <2>3 DEF Vec, ZeroLoad, ZeroStore, ReadoutLoad, ReadoutStore, RecurrenceLoad, RecurrenceStore,
                  FinalLoad, FinalStore
    <3>2. QED
      BY <2>1, <3>1 DEF WrittenUpTo, ResGiven
  <2>4. ASSUME ZeroLoad(v) \/ ZeroStore(v) \/ ReadoutLoad(v) \/ RecurrenceLoad(v) \/ RecurrenceStore(v)
               \/ FinalLoad(v)
        PROVE  WrittenUpTo(v)'
    <3>1. cid' = cid /\ vu'[v] = vu[v] /\ ResGiven(v)' = ResGiven(v)
      BY <2>4 DEF ResGiven, ZeroLoad, ZeroStore, ReadoutLoad, RecurrenceLoad, RecurrenceStore, FinalLoad
    <3>2. QED
      BY <2>1, <3>1 DEF WrittenUpTo
  <2>5. CASE ReadoutStore(v)
    <3>1. /\ cid' = cid /\ vu' = vu /\ ResGiven(v) = vc[v] /\ ResGiven(v)' = vc[v] + 1
          /\ h' = [h EXCEPT ![<<vu[v], vc[v]>>] = vreg[v][1]]
      BY <2>5 DEF ReadoutStore, ResGiven
    <3>2. SUFFICES ASSUME NEW p \in Outputs, p[1] % bnum = cid,
                          p[1] < vu[v] \/ (p[1] = vu[v] /\ p[2] < vc[v] + 1)
                   PROVE  h'[p] # None
      BY <3>1 DEF WrittenUpTo
    <3>3. CASE p = <<vu[v], vc[v]>>
      BY <2>1, <3>1, <3>3
    <3>4. CASE p # <<vu[v], vc[v]>>
      <4>1. p[1] \in Nat /\ p[2] \in Nat /\ p = <<p[1], p[2]>>
        BY DEF Outputs
      <4>2. p[1] = vu[v] => p[2] # vc[v]
        BY <3>4, <4>1
      <4>3. vc[v] \in Nat
        OBVIOUS
      <4>4. p[1] < vu[v] \/ (p[1] = vu[v] /\ p[2] < vc[v])
        <5> DEFINE a == p[1]
                   b == p[2]
                   c == vu[v]
                   d == vc[v]
        <5>1. a \in Nat /\ b \in Nat /\ c \in Nat /\ d \in Nat
          BY <4>1, <4>3
        <5>2. (a < c \/ (a = c /\ b < d + 1)) /\ (a = c => b # d)
          BY <3>2, <4>2
        <5> HIDE DEF a, b, c, d
        <5>3. a < c \/ (a = c /\ b < d)
          BY <5>1, <5>2
        <5>4. QED
          BY <5>3 DEF a, b, c, d
      <4>5. QED
        BY <2>1, <3>1, <3>2, <4>4 DEF WrittenUpTo
    <3>5. QED
      BY <3>3, <3>4
  <2>6. CASE FinalStore(v)
    <3>1. /\ cid' = cid /\ vu'[v] = vu[v] + bnum /\ ResGiven(v) = NC /\ ResGiven(v)' = 0
          /\ h' = [h EXCEPT ![<<vu[v], NC>>] = vreg[v][1]]
      BY <2>6 DEF FinalStore, ResGiven, Cursors
    <3>0. \A p \in Outputs : p[1] \in Nat /\ p[2] \in Nat
      BY DEF Outputs
    <3>2. SUFFICES ASSUME NEW p \in Outputs, p[1] % bnum = cid, p[1] < vu[v] + bnum
                   PROVE  h'[p] # None
      <4> HIDE DEF Control, TypeOK, ScanSizes
      <4>1. QED
        BY <3>0, <3>1 DEF WrittenUpTo
    <3>3. p[1] <= vu[v] /\ p[1] \in Nat /\ p[2] \in 0 .. NC /\ p = <<p[1], p[2]>>
      BY <3>2, SameResidue DEF Outputs, Cursors
    <3>4. CASE p = <<vu[v], NC>>
      BY <2>1, <3>1, <3>4
    <3>5. CASE p # <<vu[v], NC>>
      <4>1. p[1] = vu[v] => p[2] # NC
        BY <3>3, <3>5
      <4>2. vu[v] \in Nat /\ NC \in Nat
        OBVIOUS
      <4>3. p[1] < vu[v] \/ (p[1] = vu[v] /\ p[2] < NC)
        <5> DEFINE a == p[1]
                   b == p[2]
                   c == vu[v]
        <5>1. a \in Nat /\ b \in 0 .. NC /\ c \in Nat /\ NC \in Nat /\ a <= c
          BY <3>3, <4>2
        <5>2. a = c => b # NC
          BY <4>1
        <5> HIDE DEF a, b, c
        <5>3. a < c \/ (a = c /\ b < NC)
          BY <5>1, <5>2
        <5>4. QED
          BY <5>3 DEF a, b, c
      <4>4. QED
        BY <2>1, <3>1, <3>2, <4>3 DEF WrittenUpTo
    <3>6. QED
      BY <3>4, <3>5
  <2>7. QED
    BY <2>2, <2>3, <2>4, <2>5, <2>6 DEF Next, Exited, vars, vecVars, Cube, LoadS, StoreWS, LoadVC,
       StoreKV, Drain, Vec
<1>3. QED
  BY <1>1, <1>2

LEMMA AllWritten == ASSUME ScanSizes, Control, Written PROVE ScanComplete
<1> SUFFICES ASSUME Done, NEW p \in Outputs, p[1] % bnum = cid PROVE h[p] # None
  BY DEF ScanComplete
<1>1. PICK v \in Vecs : vpc[v] = "done"
  BY DEF Done, ScanSizes
<1>2. vu[v] >= UNITS /\ vu[v] \in Nat
  BY <1>1 DEF Control, TypeOK, Cursors, More, ScanSizes
<1>3. QED
  BY <1>2 DEF Written, WrittenUpTo, Outputs, ScanSizes
-----------------------------------------------------------------------------
(* The values, up to the first overtaken output of a unit.                 *)

\* What is intact was so a step before, and up to every earlier chunk.
LEMMA IntactBefore ==
  ASSUME Next
  PROVE  /\ overtaken \subseteq overtaken'
         /\ \A u, c : Intact(u, c)' => Intact(u, c)
<1>1. overtaken \subseteq overtaken'
  BY DEF Next, Cube, LoadS, StoreWS, LoadVC, StoreKV, Drain, Vec, ZeroLoad, ZeroStore, ReadoutLoad,
         ReadoutStore, RecurrenceLoad, RecurrenceStore, FinalLoad, FinalStore, Exited, vars
<1>2. QED
  BY <1>1 DEF Intact

LEMMA IntactBelow ==
  ASSUME ScanSizes, TypeOK, NEW u, NEW c \in Nat
  PROVE  Intact(u, c + 1) => Intact(u, c)
<1>1. \A q \in overtaken : q[2] \in Nat
  BY DEF TypeOK, Outputs
<1>2. QED
  BY <1>1 DEF Intact, ScanSizes

LEMMA ExactResults ==
  ASSUME ScanSizes, NEW u \in Nat, NEW c \in Nat, u \notin NonFinite
  PROVE  /\ Derive(R(u, c), R(u, c), u, c) = <<u, c>>
         /\ Derive(<<u, c>>, <<u, c>>, u, c) = <<u, c>>
         /\ Recurrence(R(u, c), <<u, c>>, u, c) = R(u, c + 1)
<1>1. R(u, c) # NaN /\ <<u, c>> # NaN
  BY DEF R, NaN, Zero
<1>2. QED
  BY <1>1 DEF Derive, Recurrence

\* Where all the Vecs of a unit are when the Cube, or one of them, is at a place
\* between their loads of S and their next stores.
LEMMA AllTogether ==
  ASSUME ScanSizes, Control
  PROVE  /\ cpc \in {"wsOut", "kv", "kvOut"} =>
              \A w \in Vecs : vu[w] = cu /\ vc[w] = cc
                              /\ vpc[w] \in {"read", "readOut", "recur"}
         /\ (\A w \in Vecs : flag[w]["REC"] > 0) /\ cpc = "ws" =>
              \A w \in Vecs : vu[w] = cu /\ vc[w] = cc /\ vpc[w] = "read"
BY PhaseOf, LockStep DEF SameUnit

\* A Vec waiting for w @ S while the Cube has not begun it has its chunk.
LEMMA ReadAtCube ==
  ASSUME ScanSizes, Control, NEW v \in Vecs, vpc[v] = "read", vc[v] > 0, cpc \in {"ws", "drain"}
  PROVE  vu[v] = cu /\ vc[v] = cc /\ cpc = "ws"
<1>1. SameUnit(v)
  BY PhaseOf DEF VecAhead
<1>2. /\ ResGot <= ResGiven(v) /\ Mm2Got(v) <= cc /\ RecGot <= RecGiven(v)
      /\ ResGot = cc /\ ResGiven(v) = vc[v] /\ Mm2Got(v) = vc[v]
  BY <1>1 DEF SameUnit, ResGot, ResGiven, Mm2Got
<1>3. cc \in Nat /\ vc[v] \in Nat
  BY DEF Control, TypeOK, ScanSizes
<1>4. vc[v] = cc
  BY <1>2, <1>3
<1>5. cpc # "drain"
  BY <1>4 DEF Control, Cursors
<1>6. QED
  BY <1>1, <1>4, <1>5 DEF SameUnit

\* S when a side reads it out for a chunk that nothing overtook.
LEMMA ReadState ==
  ASSUME ScanSizes, Control, Finite, NEW v \in Vecs, Untainted(vu[v]), VecExact(v),
         vpc[v] = "read", vu[v] = cu, vc[v] = cc, Intact(vu[v], vc[v]),
         cc = 0 => AllZeroed
  PROVE  S = State(v)
<1>1. CASE cc = 0
  BY <1>1 DEF Finite, FiniteData, State, R
<1>2. CASE cc # 0
  <2>1. vc[v] > 0
    BY <1>2 DEF Control, TypeOK, ScanSizes
  <2>2. QED
    BY <2>1 DEF VecExact
<1>3. QED
  BY <1>1, <1>2

LEMMA CubeKeeps ==
  ASSUME ScanSizes, Control, Finite, NEW v \in Vecs, Untainted(vu[v]),
         VecExact(v), CubeExact(v), Cube
  PROVE  VecExact(v)' /\ CubeExact(v)'
<1> USE DEF vecVars
<1>1. /\ cu \in Nat /\ cc \in Nat /\ vu[v] \in Nat /\ vc[v] \in Nat
      /\ vu[v] \notin NonFinite
  BY UntaintedUnit DEF Control, TypeOK, Cursors, ScanSizes
<1>2. UNCHANGED <<vpc, vu, vc, vreg, S, VC, overtaken>>
  BY DEF Cube, LoadS, StoreWS, LoadVC, StoreKV, Drain
<1>3. VecExact(v)'
  BY <1>2 DEF VecExact, Intact, State, Chunk, Together
<1>4. CASE LoadS
  <2>1. cpc = "ws" /\ \A w \in Vecs : flag[w]["REC"] > 0
    BY <1>4 DEF LoadS, CubeMayPass
  <2>2. \A w \in Vecs : vu[w] = cu /\ vc[w] = cc /\ vpc[w] = "read"
    BY <2>1, AllTogether
  <2>3. cc = 0 => AllZeroed
    BY <2>2 DEF AllZeroed
  <2>4. Intact(vu[v], vc[v]) => S = R(cu, cc)
    BY <2>2, <2>3, ReadState DEF State
  <2>5. QED
    BY <1>2, <1>3, <1>4, <2>2, <2>4 DEF LoadS, CubeExact, Intact
<1>5. CASE StoreWS
  <2>1. vpc[v] = "read" /\ vc[v] = cc /\ cu = vu[v]
    BY <1>5, AllTogether, PhaseOf, LockStep DEF StoreWS
  <2>2. Intact(vu[v], vc[v]) => creg = R(cu, cc)
    BY <1>5, <2>1 DEF StoreWS, CubeExact
  <2>3. Intact(vu[v], vc[v]) => Derive(creg, R(cu, cc), cu, cc) = <<cu, cc>>
    BY <1>1, <2>1, <2>2, ExactResults
  <2>4. QED
    BY <1>2, <1>3, <1>5, <2>1, <2>3 DEF StoreWS, CubeExact, Intact, Chunk
<1>6. CASE LoadVC
  <2>1. cpc = "kv" /\ flag[v]["RES"] > 0
    BY <1>6 DEF LoadVC, CubeMayPass
  <2>2. SameUnit(v) /\ vpc[v] = "recur" /\ vc[v] = cc
    BY <2>1, PhaseOf, LockStep
  <2>3. Intact(vu[v], vc[v]) => VC = <<cu, cc>>
    BY <2>2 DEF VecExact, Chunk, SameUnit
  <2>4. QED
    BY <1>1, <1>2, <1>3, <1>6, <2>2, <2>3 DEF LoadVC, CubeExact, Intact, Chunk
<1>7. CASE StoreKV
  <2>1. vpc[v] = "recur" /\ vc[v] = cc /\ cu = vu[v]
    BY <1>7, PhaseOf, LockStep DEF StoreKV, SameUnit
  <2>2. Intact(vu[v], vc[v]) => creg = <<cu, cc>>
    BY <1>7, <2>1 DEF StoreKV, CubeExact
  <2>3. Intact(vu[v], vc[v]) => Derive(creg, <<cu, cc>>, cu, cc) = <<cu, cc>>
    BY <1>1, <2>1, <2>2, ExactResults
  <2>4. QED
    BY <1>2, <1>3, <1>7, <2>1, <2>3 DEF StoreKV, CubeExact, Intact, Chunk
<1>8. CASE Drain
  BY <1>1, <1>2, <1>3, <1>8 DEF Drain, CubeExact, Intact, Chunk
<1>9. QED
  BY <1>4, <1>5, <1>6, <1>7, <1>8 DEF Cube

\* A step of a Vec keeps what is said of itself.
LEMMA OwnStep ==
  ASSUME ScanSizes, Control, Finite, NEW v \in Vecs, Untainted(vu[v]),
         VecExact(v), CubeExact(v), Vec(v)
  PROVE  VecExact(v)' /\ CubeExact(v)'
<1> USE DEF Goto, Keep, cubeVars
<1>1. /\ cu \in Nat /\ cc \in Nat /\ vu[v] \in Nat /\ vc[v] \in Nat
      /\ vu[v] \notin NonFinite /\ bnum \in Nat \ {0}
      /\ vpc \in [Vecs -> {"zero", "prime", "read", "readOut", "recur", "recurOut",
                           "final", "finalOut", "done"}]
      /\ vreg \in [Vecs -> Values \X Values] /\ vc \in [Vecs -> 0 .. NC] /\ vu \in [Vecs -> Nat]
  BY UntaintedUnit DEF Control, TypeOK, Cursors, ScanSizes
<1>0. /\ \A u, c : Intact(u, c)' => Intact(u, c)
      /\ \A c \in Nat : Intact(vu[v], c + 1) => Intact(vu[v], c)
  BY IntactBefore, IntactBelow DEF Next, Control
<1>2. CASE ZeroLoad(v)
  BY <1>0, <1>1, <1>2 DEF ZeroLoad, VecExact, CubeExact, Chunk
<1>3. CASE ZeroStore(v)
  <2>1. vpc[v] = "prime" /\ vc[v] = 0
    BY <1>3 DEF ZeroStore, Control, Cursors
  <2>2. cu = vu[v] => cpc = "ws"
    BY <1>1, <2>1, PhaseOf, LockStep DEF VecAhead
  <2>3. QED
    BY <1>1, <1>3, <2>1, <2>2 DEF ZeroStore, VecExact, CubeExact
<1>4. CASE ReadoutLoad(v)
  <2>1. vpc[v] = "read" /\ flag[v]["MM1"] > 0
    BY <1>4 DEF ReadoutLoad, VecMayPass
  <2>2. cu = vu[v] /\ cc = vc[v] /\ cpc = "kv"
    BY <2>1, PhaseOf, LockStep DEF SameUnit
  <2>3. cc = 0 => AllZeroed
    BY <2>2, AllTogether DEF AllZeroed
  <2>4. Intact(vu[v], vc[v]) => S = State(v) /\ WS = Chunk(v)
    BY <2>1, <2>2, <2>3, ReadState DEF CubeExact
  <2>5. QED
    BY <1>0, <1>1, <1>4, <2>2, <2>4 DEF ReadoutLoad, VecExact, CubeExact, State, Chunk
<1>5. CASE ReadoutStore(v)
  <2>1. cc = vc[v] /\ cpc = "kv" /\ vpc[v] = "readOut"
    BY <1>5, PhaseOf, LockStep DEF ReadoutStore
  <2>2. Intact(vu[v], vc[v]) => S = State(v) /\ vreg[v] = <<State(v), Chunk(v)>>
    BY <2>1 DEF VecExact
  <2>3. Intact(vu[v], vc[v]) => Derive(vreg[v][2], Chunk(v), vu[v], vc[v]) = Chunk(v)
    BY <1>1, <2>2, ExactResults DEF Chunk
  <2>4. Together(v)
    BY <2>1, AllTogether DEF Together, Chunk
  <2>5. UNCHANGED <<cpc, cc, cu, vu, vc, S, overtaken>> /\ vpc'[v] = "recur"
        /\ VC' = Derive(vreg[v][2], Chunk(v), vu[v], vc[v])
    BY <1>1, <1>5 DEF ReadoutStore, Chunk
  <2>6. VecExact(v)'
    BY <1>0, <1>1, <2>2, <2>3, <2>4, <2>5 DEF VecExact, State, Chunk, Together
  <2>7. CubeExact(v)'
    BY <1>1, <2>1, <2>5 DEF CubeExact
  <2>8. QED
    BY <2>6, <2>7
<1>6. CASE RecurrenceLoad(v)
  <2>1. vpc[v] = "recur" /\ flag[v]["MM2"] > 0
    BY <1>6 DEF RecurrenceLoad, VecMayPass
  <2>2. cu = vu[v] /\ cc = vc[v] + 1 /\ cpc \in {"ws", "drain"}
    BY <1>1, <2>1, PhaseOf, LockStep DEF SameUnit
  <2>3. Intact(vu[v], vc[v] + 1) => S = State(v) /\ KV = Chunk(v)
    BY <1>0, <1>1, <2>1, <2>2 DEF VecExact, CubeExact
  <2>4. QED
    BY <1>0, <1>1, <1>6, <2>2, <2>3 DEF RecurrenceLoad, VecExact, CubeExact, State, Chunk
<1>7. CASE RecurrenceStore(v)
  <2>1. cpc \in {"ws", "drain"} /\ vpc[v] = "recurOut"
    BY <1>7, PhaseOf, LockStep DEF RecurrenceStore
  <2>2. Intact(vu[v], vc[v] + 1) => vreg[v] = <<State(v), Chunk(v)>>
    BY <2>1 DEF VecExact
  <2>3. Intact(vu[v], vc[v] + 1) =>
          Recurrence(vreg[v][1], vreg[v][2], vu[v], vc[v]) = R(vu[v], vc[v] + 1)
    BY <1>1, <2>2, ExactResults DEF State, Chunk
  <2>4. /\ UNCHANGED <<cpc, vu>> /\ vc'[v] = vc[v] + 1 /\ vpc'[v] \in {"read", "final"}
        /\ S' = Recurrence(vreg[v][1], vreg[v][2], vu[v], vc[v])
    BY <1>1, <1>7 DEF RecurrenceStore
  <2>5. VecExact(v)'
    BY <1>0, <2>3, <2>4 DEF VecExact, State
  <2>6. CubeExact(v)'
    BY <2>1, <2>4 DEF CubeExact
  <2>7. QED
    BY <2>5, <2>6
<1>8. CASE FinalLoad(v)
  BY <1>0, <1>1, <1>8 DEF FinalLoad, VecExact, CubeExact, State, Chunk
<1>9. CASE FinalStore(v)
  <2>1. SameUnit(v) \/ CubeAhead(v)
    BY <1>9, PhaseOf DEF FinalStore
  <2>2. cu = vu[v] + bnum => cpc \in {"ws", "done"}
    <3>1. SameUnit(v) => cu = vu[v]
      BY DEF SameUnit
    <3>2. CubeAhead(v) => cpc \in {"ws", "done"}
      BY DEF CubeAhead
    <3>3. QED
      BY <1>1, <2>1, <3>1, <3>2
  <2>3. QED
    BY <1>1, <1>9, <2>2 DEF FinalStore, VecExact, CubeExact
<1>10. QED
  BY <1>2, <1>3, <1>4, <1>5, <1>6, <1>7, <1>8, <1>9 DEF Vec

\* A step of another Vec w keeps it too, or hits what v has still to read.
LEMMA OtherStep ==
  ASSUME ScanSizes, Control, NEW v \in Vecs, NEW w \in Vecs, w # v, Vec(w),
         VecExact(v), CubeExact(v), Untainted(vu[w]) => VecExact(w), Untainted(vu[v])
  PROVE  VecExact(v)' /\ CubeExact(v)'
<1> USE DEF Goto, Keep, cubeVars
<1>1. /\ cu \in Nat /\ cc \in Nat /\ vu[v] \in Nat /\ vc[v] \in Nat /\ vu[w] \in Nat
      /\ vc[w] \in Nat /\ vu[v] \notin NonFinite /\ bnum \in Nat \ {0}
      /\ vpc \in [Vecs -> {"zero", "prime", "read", "readOut", "recur", "recurOut",
                           "final", "finalOut", "done"}]
      /\ vreg \in [Vecs -> Values \X Values] /\ vc \in [Vecs -> 0 .. NC] /\ vu \in [Vecs -> Nat]
  BY UntaintedUnit DEF Control, TypeOK, Cursors, ScanSizes
<1>0. /\ \A u, c : Intact(u, c)' => Intact(u, c)
      /\ \A u : \A c \in Nat : Intact(u, c + 1) => Intact(u, c)
  BY IntactBefore, IntactBelow DEF Next, Control
<1>2. /\ UNCHANGED <<cu, cc, cpc, creg, WS, KV>>
      /\ vpc'[v] = vpc[v] /\ vu'[v] = vu[v] /\ vc'[v] = vc[v] /\ vreg'[v] = vreg[v]
  BY <1>1 DEF Vec, ZeroLoad, ZeroStore, ReadoutLoad, ReadoutStore, RecurrenceLoad, RecurrenceStore,
              FinalLoad, FinalStore
<1>3. CubeExact(v)'
  BY <1>0, <1>2 DEF CubeExact, Chunk
<1>4. CASE ZeroLoad(w) \/ ReadoutLoad(w) \/ RecurrenceLoad(w) \/ FinalLoad(w)
  <2>1. UNCHANGED <<S, VC, vu, vc>>
    BY <1>4 DEF ZeroLoad, ReadoutLoad, RecurrenceLoad, FinalLoad
  <2>2. VecExact(v)'
    BY <1>0, <1>2, <2>1 DEF VecExact, State, Chunk, Together
  <2>3. QED
    BY <1>3, <2>2
<1>5. CASE ReadoutStore(w)
  <2>1. /\ UNCHANGED <<S, vu, vc>> /\ vpc[w] = "readOut"
        /\ VC' = Derive(vreg[w][2], Chunk(w), vu[w], vc[w])
    BY <1>5 DEF ReadoutStore, Chunk
  <2>2. Chunk(v) = Chunk(w) /\ vu[v] = vu[w] /\ vc[v] = vc[w]
    <3>1. cpc = "kv" /\ cc = vc[w] /\ cu = vu[w]
      BY <2>1, PhaseOf, LockStep DEF SameUnit
    <3>2. QED
      BY <3>1, AllTogether DEF Chunk
  <2>3. Intact(vu[v], vc[v]) => vreg[w] = <<State(w), Chunk(w)>>
    BY <2>1, <2>2 DEF VecExact
  <2>4. Intact(vu[v], vc[v]) => VC' = Chunk(v)
    BY <1>1, <2>1, <2>2, <2>3, ExactResults DEF Chunk
  <2>5. VecExact(v)'
    BY <1>0, <1>2, <2>1, <2>4 DEF VecExact, State, Chunk, Together
  <2>6. QED
    BY <1>3, <2>5
<1>6. CASE RecurrenceStore(w)
  <2>1. /\ UNCHANGED vu /\ vpc[w] = "recurOut" /\ overtaken' = overtaken \union NextHits(w)
        /\ S' = Recurrence(vreg[w][1], vreg[w][2], vu[w], vc[w]) /\ UNCHANGED VC
    BY <1>6 DEF RecurrenceStore
  <2>2. cpc \in {"ws", "drain"} /\ cc = vc[w] + 1 /\ cu = vu[w]
    BY <2>1, PhaseOf, LockStep DEF SameUnit
  <2>3. ASSUME vu[w] = vu[v], Intact(vu[w], vc[w] + 1) PROVE S' = R(vu[w], vc[w] + 1)
    <3>1. vreg[w] = <<State(w), Chunk(w)>>
      BY <2>1, <2>3 DEF VecExact
    <3>2. QED
      BY <1>1, <2>1, <2>3, <3>1, ExactResults DEF State, Chunk
  <2>4. ASSUME vpc[v] = "read", vc[v] > 0, Intact(vu[v], vc[v])' PROVE S' = State(v)
    <3>1. vu[v] = cu /\ vc[v] = cc
      BY <2>2, <2>4, ReadAtCube
    <3>2. vu[w] = vu[v] /\ vc[w] + 1 = vc[v] /\ Intact(vu[v], vc[v])
      BY <1>0, <1>2, <2>2, <2>4, <3>1
    <3>3. QED
      BY <2>3, <3>2 DEF State
  <2>5. vpc[v] # "readOut"
    BY <2>2, PhaseOf, LockStep
  <2>6. ASSUME vpc[v] = "recur", Intact(vu[v], vc[v] + 1)' PROVE FALSE
    <3>1. Chunk(w) = Chunk(v)
      BY <1>0, <1>1, <1>2, <2>6 DEF VecExact, Together
    <3>2. <<vu[v], vc[v] + 1>> \in overtaken'
      BY <2>1, <2>6, <3>1 DEF NextHits
    <3>3. QED
      BY <1>1, <1>2, <2>6, <3>2 DEF Intact
  <2>7. ASSUME vpc[v] = "final", Intact(vu[v], vc[v])' PROVE S' = State(v)
    <3>1. SameUnit(v)
      BY <1>1, <2>2, <2>7, PhaseOf DEF CubeAhead
    <3>2. cc = NC /\ vc[v] = NC /\ vu[v] = cu
      BY <2>7, <3>1, LockStep DEF Control, Cursors, SameUnit
    <3>3. vu[w] = vu[v] /\ vc[w] + 1 = vc[v] /\ Intact(vu[v], vc[v])
      BY <1>0, <1>2, <2>2, <2>7, <3>2
    <3>4. QED
      BY <2>3, <3>3 DEF State
  <2>8. VecExact(v)'
    BY <1>0, <1>1, <1>2, <2>1, <2>4, <2>5, <2>6, <2>7 DEF VecExact, State, Chunk
  <2>9. QED
    BY <1>3, <2>8
<1>7. CASE ZeroStore(w)
  <2>1. /\ UNCHANGED <<vu, vc, VC>> /\ vpc[w] = "prime" /\ vc[w] = 0
        /\ overtaken' = overtaken \union ZeroHits(w)
    BY <1>7 DEF ZeroStore, Control, Cursors
  <2>2. \/ cpc = "ws" /\ cc = 0 /\ vu[w] = cu
        \/ cpc = "drain" /\ cc = NC /\ vu[w] = cu + bnum
    BY <2>1, PhaseOf, LockStep DEF VecAhead, SameUnit, Control, Cursors
  <2>3. ~ (vpc[v] = "read" /\ vc[v] > 0)
    BY <1>1, <2>2, ReadAtCube
  <2>4. vpc[v] # "readOut"
    BY <2>2, PhaseOf, LockStep
  <2>5. ASSUME vpc[v] = "recur", Intact(vu[v], vc[v] + 1)' PROVE FALSE
    <3>1. Chunk(w) = Chunk(v)
      BY <1>0, <1>1, <1>2, <2>5 DEF VecExact, Together
    <3>2. vu[w] = vu[v] /\ vc[v] = 0
      BY <2>1, <3>1 DEF Chunk
    <3>3. vu[v] = cu /\ (cpc \in {"kv", "kvOut"} \/ cc = 1)
      BY <2>5, <3>2, PhaseOf, LockStep DEF SameUnit
    <3>4. QED
      BY <1>1, <2>2, <3>2, <3>3
  <2>6. ASSUME vpc[v] = "final", Intact(vu[v], vc[v])' PROVE FALSE
    <3>1. vc[v] = NC
      BY <2>6 DEF Control, Cursors
    <3>2. vu[v] # vu[w]
      <4>1. CASE SameUnit(v)
        <5>1. cpc = "drain" /\ vu[v] = cu
          BY <2>6, <4>1, LockStep DEF SameUnit
        <5>2. QED
          BY <1>1, <2>2, <5>1
      <4>2. CASE CubeAhead(v)
        BY <1>1, <2>2, <4>2 DEF CubeAhead
      <4>3. QED
        BY <2>6, <4>1, <4>2, PhaseOf
    <3>3. <<vu[v], NC>> \in overtaken'
      BY <2>1, <2>6, <3>2 DEF ZeroHits
    <3>4. NC \in Nat
      BY DEF ScanSizes
    <3>5. QED
      BY <1>2, <2>6, <3>1, <3>3, <3>4 DEF Intact
  <2>7. VecExact(v)'
    BY <1>0, <1>1, <1>2, <2>1, <2>3, <2>4, <2>5, <2>6 DEF VecExact, State, Chunk
  <2>8. QED
    BY <1>3, <2>7
<1>8. CASE FinalStore(w)
  <2>1. UNCHANGED <<S, VC, overtaken>> /\ vpc[w] = "finalOut"
    BY <1>8 DEF FinalStore
  <2>2. ASSUME vpc[v] = "recur", Together(v) PROVE FALSE
    <3>1. vc[w] = vc[v]
      BY <2>2 DEF Together, Chunk
    <3>2. QED
      BY <2>1, <2>2, <3>1 DEF Control, Cursors
  <2>3. VecExact(v)'
    BY <1>0, <1>1, <1>2, <2>1, <2>2 DEF VecExact, State, Chunk
  <2>4. QED
    BY <1>3, <2>3
<1>9. QED
  BY <1>4, <1>5, <1>6, <1>7, <1>8 DEF Vec

LEMMA ExactPreserved ==
  ASSUME ScanSizes, Control, Finite, Exact, [Next]_vars
  PROVE  Exact'
<1>1. CASE UNCHANGED vars
  BY <1>1 DEF vars, cubeVars, vecVars, Exact, VecExact, CubeExact, Untainted, State, Chunk, Intact,
              Together
<1>2. ASSUME Next, NEW v \in Vecs, Untainted(vu[v])' PROVE VecExact(v)' /\ CubeExact(v)'
  <2>1. CASE UNCHANGED vars
    BY <1>1, <1>2, <2>1 DEF Exact
  <2> SUFFICES ASSUME ~ UNCHANGED vars PROVE VecExact(v)' /\ CubeExact(v)'
    BY <2>1
  <2>2. /\ cid' = cid /\ vu[v] \in Nat /\ (vu'[v] = vu[v] \/ vu'[v] = vu[v] + bnum)
    <3>1. vu[v] \in Nat /\ vu \in [Vecs -> Nat]
      BY DEF Control, TypeOK
    <3>2. CASE Cube
      BY <3>1, <3>2 DEF Cube, LoadS, StoreWS, LoadVC, StoreKV, Drain, vecVars
    <3>3. ASSUME NEW w \in Vecs, Vec(w)
          PROVE  cid' = cid /\ (vu' = vu \/ vu' = [vu EXCEPT ![w] = @ + bnum])
      BY <3>3 DEF Vec, ZeroLoad, ZeroStore, ReadoutLoad, ReadoutStore, RecurrenceLoad, RecurrenceStore,
                  FinalLoad, FinalStore
    <3>4. QED
      BY <1>2, <3>1, <3>2, <3>3 DEF Next, Exited
  <2>3. Untainted(vu[v])
    BY <1>2, <2>2 DEF Untainted, ScanSizes
  <2>4. VecExact(v) /\ CubeExact(v) /\ \A w \in Vecs : Untainted(vu[w]) => VecExact(w)
    BY <2>3 DEF Exact
  <2>5. CASE Cube
    BY <2>3, <2>4, <2>5, CubeKeeps
  <2>6. ASSUME NEW w \in Vecs, Vec(w) PROVE VecExact(v)' /\ CubeExact(v)'
    BY <2>3, <2>4, <2>6, OwnStep, OtherStep
  <2>7. QED
    BY <1>2, <2>1, <2>5, <2>6 DEF Next, Exited
<1>3. QED
  BY <1>1, <1>2 DEF Exact

LEMMA OutputsExactPreserved ==
  ASSUME ScanSizes, Control, Exact, ExactUnlessOvertaken, [Next]_vars
  PROVE  ExactUnlessOvertaken'
<1>1. CASE UNCHANGED vars
  BY <1>1 DEF vars, ExactUnlessOvertaken, Untainted, Intact
<1> SUFFICES ASSUME Next, ~ UNCHANGED vars PROVE ExactUnlessOvertaken'
  BY <1>1
<1>0. \A u, c : Intact(u, c)' => Intact(u, c)
  BY IntactBefore
<1>2. CASE UNCHANGED <<cid, h>>
  BY <1>0, <1>2 DEF ExactUnlessOvertaken, Untainted
<1>3. ASSUME NEW v \in Vecs, ReadoutStore(v) PROVE ExactUnlessOvertaken'
  <2>1. Untainted(vu[v]) /\ Intact(vu[v], vc[v]) => vreg[v][1] = State(v)
    BY <1>3 DEF ReadoutStore, Exact, VecExact
  <2>2. \A p \in Outputs : h'[p] = h[p] \/ (p = <<vu[v], vc[v]>> /\ h'[p] = vreg[v][1])
    BY <1>3 DEF ReadoutStore, Control, TypeOK
  <2>3. cid' = cid
    BY <1>3 DEF ReadoutStore
  <2>4. QED
    BY <1>0, <2>1, <2>2, <2>3 DEF ExactUnlessOvertaken, Untainted, State
<1>4. ASSUME NEW v \in Vecs, FinalStore(v) PROVE ExactUnlessOvertaken'
  <2>1. Untainted(vu[v]) /\ Intact(vu[v], NC) => vreg[v][1] = R(vu[v], NC)
    BY <1>4 DEF FinalStore, Exact, VecExact, State, Control, Cursors
  <2>2. \A p \in Outputs : h'[p] = h[p] \/ (p = <<vu[v], NC>> /\ h'[p] = vreg[v][1])
    BY <1>4 DEF FinalStore, Control, TypeOK
  <2>3. cid' = cid
    BY <1>4 DEF FinalStore
  <2>4. QED
    BY <1>0, <2>1, <2>2, <2>3 DEF ExactUnlessOvertaken, Untainted
<1>5. QED
  BY <1>2, <1>3, <1>4 DEF vars, Next, Cube, LoadS, StoreWS, LoadVC, StoreKV, Drain, Vec, ZeroLoad,
     ZeroStore, ReadoutLoad, RecurrenceLoad, RecurrenceStore, FinalLoad, Exited
-----------------------------------------------------------------------------
(* The theorems.                                                           *)

LEMMA ScanInit == ASSUME ScanSizes PROVE Init => ScanInv
<1> SUFFICES ASSUME Init PROVE ScanInv
  OBVIOUS
<1>1. Control
  BY InitControl
<1>2. /\ \A x \in {S, WS, VC, KV, creg} : x \in {Zero, Bad}
      /\ \A v \in Vecs : vreg[v] = <<Bad, Bad>> /\ vc[v] = 0 /\ vu[v] = cid
                         /\ vpc[v] \in {"zero", "done"}
      /\ \A p \in Outputs : h[p] = None
      /\ cid \in 0 .. bnum - 1
  BY DEF Init
<1>3. Finite
  <2>1. ~ AllZeroed
    BY <1>2 DEF AllZeroed, ScanSizes
  <2>2. QED
    BY <1>2, <2>1 DEF Finite, FiniteData, Zero, Bad, NaN
<1>4. FirstReadoutZero
  BY <1>2 DEF FirstReadoutZero
<1>5. Written
  <2>1. ASSUME NEW v \in Vecs, NEW p \in Outputs, p[1] % bnum = cid,
               p[1] < vu[v] \/ (p[1] = vu[v] /\ p[2] < ResGiven(v))
        PROVE  FALSE
    <3>1. p[1] \in Nat /\ p[2] \in Nat /\ p[1] < cid
      BY <1>2, <2>1 DEF ResGiven, Outputs, ScanSizes
    <3>2. p[1] = bnum * 0 + p[1] /\ p[1] \in 0 .. bnum - 1
      BY <1>2, <3>1 DEF ScanSizes
    <3>3. p[1] % bnum = p[1]
      BY <3>2, ModUnique DEF ScanSizes
    <3>4. QED
      BY <1>2, <2>1, <3>1, <3>3
  <2>2. QED
    BY <1>2, <2>1 DEF Written, WrittenUpTo, None, Zero, Bad
<1>6. Exact /\ ExactUnlessOvertaken
  BY <1>2 DEF Exact, VecExact, CubeExact, ExactUnlessOvertaken, Init
<1>7. QED
  BY <1>1, <1>3, <1>4, <1>5, <1>6 DEF ScanInv, Control

LEMMA ScanStep == ASSUME ScanSizes PROVE ScanInv /\ [Next]_vars => ScanInv'
<1> SUFFICES ASSUME ScanInv, [Next]_vars PROVE ScanInv'
  OBVIOUS
<1>1. Control
  BY DEF ScanInv, Control
<1>2. Control'
  BY <1>1, NextControl
<1>3. Finite' /\ FirstReadoutZero' /\ Written' /\ Exact' /\ ExactUnlessOvertaken'
  BY <1>1, FinitePreserved, FirstReadoutPreserved, WrittenPreserved, ExactPreserved,
     OutputsExactPreserved DEF ScanInv
<1>4. QED
  BY <1>2, <1>3 DEF ScanInv, Control

\* What the properties take from the invariant.
LEMMA InLockStep == ASSUME ScanSizes PROVE ScanInv => Handshake
BY LockStepHandshake DEF ScanInv, Control

LEMMA CompleteScan == ASSUME ScanSizes PROVE ScanInv => ScanComplete
BY AllWritten DEF ScanInv, Control

\* ScanInv is an invariant of scan_kernel, for every number of units, chunks,
\* cores and Vecs.
THEOREM ScanInvariance == ASSUME ScanSizes PROVE Spec => []ScanInv
BY ScanInit, ScanStep, PTL DEF Spec

\* Every cursor, counter and workspace value of scan_kernel keeps its type.
THEOREM TypeCorrect == ASSUME ScanSizes PROVE Spec => []TypeOK
<1>1. ScanInv => TypeOK
  BY DEF ScanInv
<1>2. QED
  BY <1>1, ScanInvariance, PTL

\* The chunk loop stays in lock step and the core returns with its four
\* counters at zero.
THEOREM HandshakeHolds == ASSUME ScanSizes PROVE Spec => []Handshake
BY InLockStep, ScanInvariance, PTL

\* A unit starts from the zero state whatever the unit before it left.
THEOREM FirstReadout == ASSUME ScanSizes PROVE Spec => []FirstReadoutZero
<1>1. ScanInv => FirstReadoutZero
  BY DEF ScanInv
<1>2. QED
  BY <1>1, ScanInvariance, PTL

\* When the core returns, every output of its units is written.
THEOREM Completeness == ASSUME ScanSizes PROVE Spec => []ScanComplete
BY CompleteScan, ScanInvariance, PTL

\* Whatever the number of Vecs, every state the scan writes is the one the
\* recurrence of its unit gives, until the core takes a unit that is not finite,
\* and within a unit until one Vec stores S before another has loaded it: that
\* overtaking is the only way the handshake can fail the data.
THEOREM Exactness == ASSUME ScanSizes PROVE Spec => []ExactUnlessOvertaken
<1>1. ScanInv => ExactUnlessOvertaken
  BY DEF ScanInv
<1>2. QED
  BY <1>1, ScanInvariance, PTL
=============================================================================
