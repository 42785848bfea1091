---------------------------- MODULE Compiler_proofs ----------------------------
(***************************************************************************)
(* Proofs about the compiler: the driver, for any pipeline of distinct     *)
(* transforms, any effects of theirs and any measured times; then the      *)
(* levers on the programs themselves, compiled (Rewrites) or planned       *)
(* (Planner), for every forward over any number of chunks: what was kept   *)
(* stays, every program the rewrites build is well formed, and the         *)
(* generator of the epilogues runs out of sites.                           *)
(***************************************************************************)
EXTENDS CompileDriver, Planner, SequenceTheorems, FiniteSetTheorems, WellFoundedInduction,
        TLAPS

RecordSet == [name : Transforms, matched : BOOLEAN, kept : BOOLEAN,
              base : Times \union {0}, cand : Times \union {0}]

LEMMA PipelineFacts ==
  /\ Pipeline \in Seq(Transforms) /\ Len(Pipeline) \in Nat
  /\ \A n \in 1 .. Len(Pipeline) : Pipeline[n] \in Transforms
<1>1. Pipeline \in Seq(Transforms)
  BY PipelineAssumption DEF Transforms
<1>2. QED
  BY <1>1, ElementOfSeq

\* What appending a record leaves alone.
LEMMA AppendRecord ==
  ASSUME records \in Reports, NEW r \in RecordSet, records' = Append(records, r)
  PROVE  /\ records' \in Reports
         /\ Len(records) \in Nat /\ Len(records') = Len(records) + 1
         /\ DOMAIN records = 1 .. Len(records) /\ DOMAIN records' = 1 .. Len(records) + 1
         /\ \A i \in 1 .. Len(records) : records'[i] = records[i]
         /\ records'[Len(records) + 1] = r
         /\ KeptRecords' = IF r.kept THEN KeptRecords \union {Len(records) + 1} ELSE KeptRecords
<1>1. records \in Seq(RecordSet)
  BY DEF Reports, RecordSet
<1>2. /\ records' \in Seq(RecordSet)
      /\ Len(records) \in Nat /\ Len(records') = Len(records) + 1
      /\ DOMAIN records = 1 .. Len(records)
      /\ \A i \in 1 .. Len(records) : records'[i] = records[i]
      /\ records'[Len(records) + 1] = r
  BY <1>1, AppendProperties, LenProperties
<1>3. DOMAIN records' = 1 .. Len(records) + 1
  BY <1>2, LenProperties
<1>4. KeptRecords' = IF r.kept THEN KeptRecords \union {Len(records) + 1} ELSE KeptRecords
  BY <1>2, <1>3 DEF KeptRecords
<1>5. QED
  BY <1>2, <1>3, <1>4 DEF Reports, RecordSet

\* What keeping a transform leaves alone.
LEMMA AppendKept ==
  ASSUME prog \in Seq(Transforms), NEW t \in Transforms
  PROVE  /\ Append(prog, t) \in Seq(Transforms)
         /\ Len(prog) \in Nat /\ Len(Append(prog, t)) = Len(prog) + 1
         /\ DOMAIN prog = 1 .. Len(prog) /\ DOMAIN Append(prog, t) = 1 .. Len(prog) + 1
         /\ \A i \in 1 .. Len(prog) : Append(prog, t)[i] = prog[i]
         /\ Append(prog, t)[Len(prog) + 1] = t
<1>1. Append(prog, t) \in Seq(Transforms)
  BY AppendProperties
<1>2. QED
  BY <1>1, AppendProperties, LenProperties
-----------------------------------------------------------------------------
(* The inductive invariant, one lemma per action.                          *)

LEMMA InitInv == Init => DriverInv
<1> SUFFICES ASSUME Init PROVE DriverInv
  OBVIOUS
<1> USE PipelineFacts DEF Init
<1>1. prog \in Seq(Transforms) /\ records \in Reports /\ DOMAIN prog = {} /\ DOMAIN records = {}
      /\ Len(prog) = 0 /\ Len(records) = 0
  BY EmptySeq DEF Reports
<1>2. TypeOK
  BY <1>1 DEF TypeOK, NotRun, Results
<1>3. KeptRecords = {}
  BY <1>1 DEF KeptRecords
<1>4. Progress /\ Candidate /\ BaseIsTheBest
  BY <1>1, <1>3 DEF Progress, Candidate, BaseIsTheBest
<1>5. KeptAreSound /\ EachBeatsTheBest /\ ReportIsTheProgram
  BY <1>1, <1>3 DEF KeptAreSound, EachBeatsTheBest, ReportIsTheProgram
<1>6. QED
  BY <1>2, <1>4, <1>5 DEF DriverInv

LEMMA StartInv == DriverInv /\ Start => DriverInv'
<1> SUFFICES ASSUME DriverInv, Start PROVE DriverInv'
  OBVIOUS
<1> USE DEF DriverInv, Start
<1>1. TypeOK'
  BY DEF TypeOK, Reports, Results
<1>2. KeptRecords' = KeptRecords /\ KeptRecords = {}
  BY LenProperties DEF KeptRecords, Progress, TypeOK, Reports
<1>3. Progress' /\ Candidate'
  BY DEF Progress, Candidate
<1>4. BaseIsTheBest'
  BY <1>2 DEF BaseIsTheBest
<1>5. KeptAreSound'
  BY DEF KeptAreSound
<1>6. EachBeatsTheBest' /\ ReportIsTheProgram'
  BY <1>2 DEF EachBeatsTheBest, ReportIsTheProgram
<1>7. QED
  BY <1>1, <1>3, <1>4, <1>5, <1>6

\* A record that keeps nothing: a proposal without a site, or a candidate
\* rejected.
LEMMA Dropped ==
  ASSUME DriverInv, next <= Len(Pipeline), pc' = "propose", next' = next + 1,
         NEW r \in RecordSet, r.name = Pipeline[next], ~ r.kept,
         records' = Append(records, r),
         UNCHANGED <<raising, effect, verified, prog, base>>
  PROVE  /\ Progress' /\ BaseIsTheBest'
         /\ KeptAreSound' /\ EachBeatsTheBest' /\ ReportIsTheProgram'
<1>1. next \in Nat /\ Len(records) + 1 = next
  BY PipelineFacts, LenProperties DEF DriverInv, TypeOK, Progress, Reports
<1>2. /\ Len(records) \in Nat /\ Len(records') = Len(records) + 1
      /\ DOMAIN records = 1 .. Len(records) /\ DOMAIN records' = 1 .. Len(records) + 1
      /\ \A i \in 1 .. Len(records) : records'[i] = records[i]
      /\ records'[Len(records) + 1] = r
      /\ KeptRecords' = KeptRecords
  BY AppendRecord DEF DriverInv, TypeOK
<1>3. \A i \in KeptRecords : i \in 1 .. Len(records) /\ records'[i] = records[i]
  BY <1>2 DEF KeptRecords
<1>4. Progress'
  BY <1>1, <1>2, PipelineFacts DEF Progress, DriverInv
<1>5. BaseIsTheBest'
  BY <1>2, <1>3 DEF BaseIsTheBest, DriverInv
<1>6. KeptAreSound'
  BY DEF DriverInv, KeptAreSound
<1>7. EachBeatsTheBest'
  BY <1>2, <1>3 DEF DriverInv, EachBeatsTheBest
<1>8. ReportIsTheProgram'
  <2>1. \A i \in DOMAIN records' : records'[i].name = Pipeline[i]
    BY <1>1, <1>2 DEF DriverInv, ReportIsTheProgram
  <2>2. KeptRecords' = KeptRecords /\ prog' = prog /\ DOMAIN prog' = DOMAIN prog
    BY <1>2
  <2>3. ASSUME NEW i \in DOMAIN prog' PROVE \E j \in KeptRecords' : prog'[i] = records'[j].name
    <3>1. PICK j \in KeptRecords : prog[i] = records[j].name
      BY <2>2 DEF DriverInv, ReportIsTheProgram
    <3>2. j \in KeptRecords' /\ prog'[i] = records'[j].name
      BY <1>3, <2>2, <3>1
    <3>3. QED
      BY <3>2
  <2>4. ASSUME NEW j \in KeptRecords' PROVE \E i \in DOMAIN prog' : prog'[i] = records'[j].name
    <3>1. PICK i \in DOMAIN prog : prog[i] = records[j].name
      BY <2>2 DEF DriverInv, ReportIsTheProgram
    <3>2. i \in DOMAIN prog' /\ prog'[i] = records'[j].name
      BY <1>3, <2>2, <3>1
    <3>3. QED
      BY <3>2
  <2>5. Len(prog') <= Len(records')
    <3>1. Len(prog) \in Nat /\ Len(prog) <= Len(records)
      BY LenProperties DEF DriverInv, TypeOK, ReportIsTheProgram
    <3>2. QED
      BY <1>2, <2>2, <3>1
  <2>6. pc' # "returned"
    OBVIOUS
  <2>7. QED
    BY <2>1, <2>3, <2>4, <2>5, <2>6 DEF ReportIsTheProgram
<1>9. QED
  BY <1>4, <1>5, <1>6, <1>7, <1>8

\* A record that keeps the transform: when the program is verified, it spoils
\* nothing, beats the best program so far and becomes the best.
LEMMA Kept ==
  ASSUME DriverInv, next <= Len(Pipeline), pc' = "propose", next' = next + 1,
         NEW r \in RecordSet, r.name = Pipeline[next], r.kept,
         verified => /\ \A o \in Outputs : effect[Pipeline[next]][o] \in {"right", "flaky"}
                     /\ r.base = base /\ r.cand < base /\ base' = r.cand,
         prog' = Append(prog, Pipeline[next]), records' = Append(records, r),
         UNCHANGED <<raising, effect, verified>>
  PROVE  /\ Progress' /\ BaseIsTheBest'
         /\ KeptAreSound' /\ EachBeatsTheBest' /\ ReportIsTheProgram'
<1> DEFINE t == Pipeline[next]
           n == Len(records) + 1
           m == Len(prog) + 1
<1>1. next \in Nat /\ next = n /\ t \in Transforms
  BY PipelineFacts, LenProperties DEF DriverInv, TypeOK, Progress, Reports
<1>2. /\ Len(records) \in Nat /\ Len(records') = n
      /\ DOMAIN records = 1 .. Len(records) /\ DOMAIN records' = 1 .. n
      /\ \A i \in 1 .. Len(records) : records'[i] = records[i]
      /\ records'[n] = r
      /\ KeptRecords' = KeptRecords \union {n}
  BY AppendRecord DEF DriverInv, TypeOK
<1>3. /\ Len(prog) \in Nat /\ Len(prog') = m
      /\ DOMAIN prog = 1 .. Len(prog) /\ DOMAIN prog' = 1 .. m
      /\ \A i \in 1 .. Len(prog) : prog'[i] = prog[i]
      /\ prog'[m] = t
  BY <1>1, AppendKept DEF DriverInv, TypeOK
<1>4. \A i \in KeptRecords : i \in Nat /\ i < n /\ records'[i] = records[i]
  BY <1>2 DEF KeptRecords
<1>5. Progress'
  BY <1>1, <1>2, PipelineFacts DEF Progress, DriverInv
<1>6. BaseIsTheBest'
  <2> SUFFICES ASSUME verified, NEW i \in KeptRecords', \A k \in KeptRecords' : k <= i
               PROVE  records'[i].cand = base'
    BY DEF BaseIsTheBest
  <2>1. n \in KeptRecords' /\ n <= i
    BY <1>2
  <2>2. i \notin KeptRecords
    BY <1>2, <1>4, <2>1
  <2>3. i = n
    BY <1>2, <2>2
  <2>4. QED
    BY <1>2, <2>3
<1>7. KeptAreSound'
  BY <1>3 DEF DriverInv, KeptAreSound
<1>8. EachBeatsTheBest'
  <2> SUFFICES ASSUME verified, NEW i \in KeptRecords', NEW j \in KeptRecords'
               PROVE  /\ records'[i].cand < records'[i].base
                      /\ i < j /\ (\A k \in KeptRecords' : ~(i < k /\ k < j))
                           => records'[j].base = records'[i].cand
    BY DEF EachBeatsTheBest
  <2>1. /\ r.base = base /\ r.cand < base
        /\ \A x, y \in KeptRecords :
             /\ records[x].cand < records[x].base
             /\ x < y /\ (\A k \in KeptRecords : ~(x < k /\ k < y))
                  => records[y].base = records[x].cand
    BY DEF DriverInv, EachBeatsTheBest
  <2>2. CASE i \in KeptRecords /\ j \in KeptRecords
    <3>1. records'[i] = records[i] /\ records'[j] = records[j]
      BY <1>4, <2>2
    <3>2. (\A k \in KeptRecords' : ~(i < k /\ k < j)) => \A k \in KeptRecords : ~(i < k /\ k < j)
      BY <1>2
    <3>3. QED
      BY <2>1, <2>2, <3>1, <3>2
  <2>3. CASE i = n
    <3>1. ~ (i < j)
      BY <1>2, <1>4, <2>3
    <3>2. records'[i] = r
      BY <1>2, <2>3
    <3>3. QED
      BY <2>1, <3>1, <3>2
  <2>4. CASE i \in KeptRecords /\ j = n
    <3>1. records'[i].cand < records'[i].base
      BY <1>4, <2>1, <2>4
    <3>2. ASSUME \A k \in KeptRecords' : ~(i < k /\ k < j)
          PROVE  records'[j].base = records'[i].cand
      <4>1. \A k \in KeptRecords : k <= i
        BY <1>2, <1>4, <2>4, <3>2
      <4>2. records[i].cand = base
        BY <2>4, <4>1 DEF DriverInv, BaseIsTheBest
      <4>3. QED
        BY <1>2, <1>4, <2>1, <2>4, <4>2
    <3>3. QED
      BY <3>1, <3>2
  <2>5. QED
    BY <1>2, <2>2, <2>3, <2>4
<1>9. ReportIsTheProgram'
  <2>1. \A i \in DOMAIN records' : records'[i].name = Pipeline[i]
    BY <1>1, <1>2 DEF DriverInv, ReportIsTheProgram
  <2>2. ASSUME NEW i \in DOMAIN prog' PROVE \E j \in KeptRecords' : prog'[i] = records'[j].name
    <3>1. CASE i = m
      BY <1>2, <1>3, <3>1
    <3>2. CASE i # m
      <4>1. i \in DOMAIN prog /\ prog'[i] = prog[i]
        BY <1>3, <3>2
      <4>2. PICK j \in KeptRecords : prog[i] = records[j].name
        BY <4>1 DEF DriverInv, ReportIsTheProgram
      <4>3. QED
        BY <1>2, <1>4, <4>1, <4>2
    <3>3. QED
      BY <3>1, <3>2
  <2>3. ASSUME NEW j \in KeptRecords' PROVE \E i \in DOMAIN prog' : prog'[i] = records'[j].name
    <3>1. CASE j = n
      <4>1. m \in DOMAIN prog' /\ prog'[m] = records'[j].name
        BY <1>2, <1>3, <3>1
      <4>2. QED
        BY <4>1
    <3>2. CASE j # n
      <4>1. j \in KeptRecords /\ records'[j] = records[j]
        BY <1>2, <1>4, <3>2
      <4>2. PICK i \in DOMAIN prog : prog[i] = records[j].name
        BY <4>1 DEF DriverInv, ReportIsTheProgram
      <4>3. i \in DOMAIN prog' /\ prog'[i] = prog[i]
        BY <1>3
      <4>4. QED
        BY <4>1, <4>2, <4>3
    <3>3. QED
      BY <3>1, <3>2
  <2>4. Len(prog') <= Len(records')
    <3>1. Len(prog) <= Len(records)
      BY DEF DriverInv, ReportIsTheProgram
    <3>2. QED
      BY <1>2, <1>3, <3>1
  <2>5. QED
    BY <2>1, <2>2, <2>3, <2>4 DEF ReportIsTheProgram
<1>10. QED
  BY <1>5, <1>6, <1>7, <1>8, <1>9

LEMMA SkipInv == DriverInv /\ Skip => DriverInv'
<1> SUFFICES ASSUME DriverInv, Skip PROVE DriverInv'
  OBVIOUS
<1> DEFINE r == Record(Pipeline[next], FALSE, FALSE, 0, 0)
<1>1. next \in 1 .. Len(Pipeline) /\ Pipeline[next] \in Transforms
  BY PipelineFacts DEF DriverInv, TypeOK, Skip
<1>2. r \in RecordSet /\ r.name = Pipeline[next] /\ ~ r.kept
  BY <1>1 DEF RecordSet, Record
<1>3. records' \in Reports
  BY <1>2, AppendRecord DEF DriverInv, TypeOK, Skip
<1>4. TypeOK'
  <2>1. next' \in 1 .. Len(Pipeline) + 1
    BY <1>1, PipelineFacts DEF Skip
  <2>2. QED
    BY <1>3, <2>1 DEF DriverInv, TypeOK, Skip
<1>5. Candidate'
  BY DEF Skip, Candidate
<1>6. QED
  BY <1>1, <1>2, <1>4, <1>5, Dropped DEF Skip, DriverInv

LEMMA ApplyUnverifiedInv == DriverInv /\ ApplyUnverified => DriverInv'
<1> SUFFICES ASSUME DriverInv, ApplyUnverified PROVE DriverInv'
  OBVIOUS
<1> DEFINE r == Record(Pipeline[next], TRUE, TRUE, 0, 0)
<1>1. next \in 1 .. Len(Pipeline) /\ Pipeline[next] \in Transforms
  BY PipelineFacts DEF DriverInv, TypeOK, ApplyUnverified
<1>2. r \in RecordSet /\ r.name = Pipeline[next] /\ r.kept
  BY <1>1 DEF RecordSet, Record
<1>3. records' \in Reports /\ prog' \in Seq(Transforms)
  BY <1>1, <1>2, AppendRecord, AppendKept DEF DriverInv, TypeOK, ApplyUnverified
<1>4. TypeOK'
  <2>1. next' \in 1 .. Len(Pipeline) + 1
    BY <1>1, PipelineFacts DEF ApplyUnverified
  <2>2. QED
    BY <1>3, <2>1 DEF DriverInv, TypeOK, ApplyUnverified
<1>5. Candidate'
  BY DEF ApplyUnverified, Candidate
<1>6. QED
  BY <1>1, <1>2, <1>4, <1>5, Kept DEF ApplyUnverified, DriverInv

LEMMA RunsUnchanged ==
  ASSUME UNCHANGED <<effect, prog, next>>
  PROVE  Runs(Append(prog, Pipeline[next]))' = Runs(Append(prog, Pipeline[next]))
BY DEF Runs, Hits

LEMMA MeasureInv == DriverInv /\ Measure => DriverInv'
<1> SUFFICES ASSUME DriverInv, Measure PROVE DriverInv'
  OBVIOUS
<1> USE DEF DriverInv, Measure
<1>1. Candidate'
  BY RunsUnchanged DEF Candidate, HasSites
<1>2. TypeOK'
  BY DEF TypeOK, Runs, Reports, Results
<1>3. KeptRecords' = KeptRecords
  BY DEF KeptRecords
<1>4. Progress' /\ BaseIsTheBest'
  BY <1>3 DEF Progress, BaseIsTheBest
<1>5. KeptAreSound'
  BY DEF KeptAreSound
<1>6. EachBeatsTheBest' /\ ReportIsTheProgram'
  BY <1>3 DEF EachBeatsTheBest, ReportIsTheProgram
<1>7. QED
  BY <1>1, <1>2, <1>4, <1>5, <1>6

\* The two gates let through only transforms that spoil no output: a wrong
\* factor is green in no run, a NaN is not equal to itself.
LEMMA GatesAreSound ==
  ASSUME DriverInv, pc = "judge", FrobGreen(got),
         NEW a \in Runs(Append(prog, Pipeline[next])),
         NEW b \in Runs(Append(prog, Pipeline[next])), Deterministic(a, b),
         NEW o \in Outputs
  PROVE  effect[Pipeline[next]][o] \in {"right", "flaky"}
<1> DEFINE t == Pipeline[next]
           p == Append(prog, t)
<1>1. t \in Transforms /\ got \in Runs(p)
  BY PipelineFacts DEF DriverInv, TypeOK, Candidate
<1>2. PICK i \in DOMAIN p : p[i] = t
  BY <1>1, AppendKept DEF DriverInv, TypeOK
<1>3. ~ Hits(p, o, "nan")
  BY DEF Runs, Deterministic
<1>4. effect[t][o] # "nan"
  BY <1>2, <1>3 DEF Hits
<1>5. effect[t][o] # "wrong"
  <2>1. ~ Hits(p, o, "wrong")
    BY <1>1, <1>3 DEF Runs, FrobGreen
  <2>2. QED
    BY <1>2, <2>1 DEF Hits
<1>6. effect[t][o] \in {"right", "wrong", "nan", "flaky"}
  BY <1>1, PipelineAssumption DEF DriverInv, TypeOK, Outputs
<1>7. QED
  BY <1>4, <1>5, <1>6

LEMMA JudgeInv == DriverInv /\ Judge => DriverInv'
<1> SUFFICES ASSUME DriverInv, Judge PROVE DriverInv'
  OBVIOUS
<1> DEFINE t == Pipeline[next]
<1>1. verified /\ next \in 1 .. Len(Pipeline) /\ t \in Transforms /\ HasSites(t, prog)
  BY PipelineFacts DEF DriverInv, TypeOK, Candidate, Judge
<1>2. base \in Times /\ ms \in Times
  BY <1>1 DEF DriverInv, TypeOK, Candidate, Judge
<1>3. PICK a \in Runs(Append(prog, t)), b \in Runs(Append(prog, t)) :
        LET green == FrobGreen(got) /\ Deterministic(a, b) /\ ms < base
        IN /\ prog' = IF green THEN Append(prog, t) ELSE prog
           /\ base' = IF green THEN ms ELSE base
           /\ records' = Append(records, Record(t, TRUE, green, base, ms))
  BY DEF Judge
<1> DEFINE green == FrobGreen(got) /\ Deterministic(a, b) /\ ms < base
           r == Record(t, TRUE, green, base, ms)
<1>4. green \in BOOLEAN
  BY DEF FrobGreen, Deterministic
<1>5. r \in RecordSet /\ r.name = t /\ r.kept = green /\ r.base = base /\ r.cand = ms
  BY <1>1, <1>2, <1>4 DEF RecordSet, Record
<1>6. records' \in Reports /\ prog' \in Seq(Transforms)
  BY <1>1, <1>3, <1>5, AppendRecord, AppendKept DEF DriverInv, TypeOK
<1>7. Candidate'
  BY DEF Judge, Candidate
<1>8. pc' = "propose" /\ next' = next + 1 /\ UNCHANGED <<raising, effect, verified>>
  BY DEF Judge
<1>9. CASE green
  <2>1. \A o \in Outputs : effect[t][o] \in {"right", "flaky"}
    BY <1>9, GatesAreSound DEF Judge
  <2>2. ms < base /\ base' = ms /\ prog' = Append(prog, t) /\ records' = Append(records, r)
    BY <1>3, <1>9
  <2>3. /\ Progress' /\ BaseIsTheBest'
        /\ KeptAreSound' /\ EachBeatsTheBest' /\ ReportIsTheProgram'
    <3>1. r \in RecordSet /\ r.name = t /\ r.kept /\ r.base = base /\ r.cand = ms
      BY <1>5, <1>9
    <3>2. next <= Len(Pipeline)
      BY <1>1
    <3> HIDE DEF r, green
    <3>3. QED
      BY <1>8, <2>1, <2>2, <3>1, <3>2, Kept
  <2>4. base' \in Times
    BY <1>2, <2>2
  <2>5. next' \in 1 .. Len(Pipeline) + 1
    BY <1>1, <1>8, PipelineFacts
  <2>6. TypeOK'
    BY <1>6, <1>8, <2>4, <2>5 DEF DriverInv, TypeOK, Judge, NotRun, Results
  <2>7. QED
    BY <1>7, <2>3, <2>6 DEF DriverInv
<1>10. CASE ~ green
  <2>1. base' = base /\ prog' = prog /\ records' = Append(records, r)
    BY <1>3, <1>10
  <2>2. /\ Progress' /\ BaseIsTheBest'
        /\ KeptAreSound' /\ EachBeatsTheBest' /\ ReportIsTheProgram'
    <3>1. r \in RecordSet /\ r.name = t /\ ~ r.kept
      BY <1>5, <1>10
    <3>2. next <= Len(Pipeline)
      BY <1>1
    <3> HIDE DEF r, green
    <3>3. QED
      BY <1>8, <2>1, <3>1, <3>2, Dropped
  <2>3. next' \in 1 .. Len(Pipeline) + 1
    BY <1>1, <1>8, PipelineFacts
  <2>4. TypeOK'
    BY <1>2, <1>6, <1>8, <2>1, <2>3 DEF DriverInv, TypeOK, Judge, NotRun, Results
  <2>5. QED
    BY <1>7, <2>2, <2>4 DEF DriverInv
<1>11. QED
  BY <1>9, <1>10

LEMMA NextInv == DriverInv /\ [Next]_vars => DriverInv'
<1> SUFFICES ASSUME DriverInv, [Next]_vars PROVE DriverInv'
  OBVIOUS
<1>1. CASE Return
  <2> USE <1>1 DEF DriverInv, Return
  <2>1. TypeOK' /\ Candidate'
    BY DEF TypeOK, Candidate
  <2>2. KeptRecords' = KeptRecords
    BY DEF KeptRecords
  <2>3. Progress' /\ BaseIsTheBest' /\ KeptAreSound'
    BY <2>2 DEF Progress, BaseIsTheBest, KeptAreSound
  <2>4. EachBeatsTheBest'
    BY <2>2 DEF EachBeatsTheBest
  <2>5. ReportIsTheProgram'
    <3>1. Len(records) = Len(Pipeline)
      BY PipelineFacts DEF TypeOK, Progress
    <3>2. QED
      BY <2>2, <3>1 DEF ReportIsTheProgram
  <2>6. QED
    BY <2>1, <2>3, <2>4, <2>5
<1>2. CASE UNCHANGED vars
  <2> USE <1>2 DEF DriverInv, vars
  <2>1. TypeOK' /\ Candidate'
    BY RunsUnchanged DEF TypeOK, Candidate, HasSites
  <2>2. KeptRecords' = KeptRecords
    BY DEF KeptRecords
  <2>3. Progress' /\ BaseIsTheBest' /\ KeptAreSound'
    BY <2>2 DEF Progress, BaseIsTheBest, KeptAreSound
  <2>4. EachBeatsTheBest' /\ ReportIsTheProgram'
    BY <2>2 DEF EachBeatsTheBest, ReportIsTheProgram
  <2>5. QED
    BY <2>1, <2>3, <2>4
<1>3. QED
  BY <1>1, <1>2, StartInv, SkipInv, ApplyUnverifiedInv, MeasureInv, JudgeInv DEF Next, Stopped
-----------------------------------------------------------------------------
(* The theorems.                                                           *)

\* The invariant of the proposal loop, whatever the transforms do.
THEOREM DriverInvariance == Spec => []DriverInv
BY InitInv, NextInv, PTL DEF Spec

\* The variables of the driver keep their types; a verified compilation always
\* has a measured base.
THEOREM TypeCorrectness == Spec => []TypeOK
<1>1. DriverInv => TypeOK
  BY DEF DriverInv
<1>2. QED
  BY <1>1, DriverInvariance, PTL

\* No transform that always spoils an output is kept: what the frob gate cannot
\* see past the first output, the determinism gate rejects.
THEOREM GatesCoverEachOther == Spec => []KeptAreSound
<1>1. DriverInv => KeptAreSound
  BY DEF DriverInv
<1>2. QED
  BY <1>1, DriverInvariance, PTL

\* Each kept transform beat the program kept before it.
THEOREM TimesDecrease == Spec => []EachBeatsTheBest
<1>1. DriverInv => EachBeatsTheBest
  BY DEF DriverInv
<1>2. QED
  BY <1>1, DriverInvariance, PTL

\* The report has one record per proposal and names the program returned.
THEOREM ReportIsComplete == Spec => []ReportIsTheProgram
<1>1. DriverInv => ReportIsTheProgram
  BY DEF DriverInv
<1>2. QED
  BY <1>1, DriverInvariance, PTL

-----------------------------------------------------------------------------
(* Rewrites and Planner: what annotating a program does to it.             *)

LEMMA LibraryFacts ==
  /\ DOMAIN Library = 1 .. 8
  /\ \A i, j \in DOMAIN Library : Library[i] = Library[j] => i = j
  /\ \A i \in DOMAIN Library : Order(Library[i]) \in 0 .. 4
  /\ Order("enable-direct-reads") = 3 /\ Order("enable-fused-store") = 4
  /\ Order("fuse-contraction-epilogue") = 2
  /\ \A i \in DOMAIN Library :
       /\ Order(Library[i]) >= 3 =>
            Library[i] = "enable-direct-reads" \/ Library[i] = "enable-fused-store"
       /\ Order(Library[i]) >= 4 => Library[i] = "enable-fused-store"
BY DEF Library, Order

LEMMA LeverApplied ==
  ASSUME NEW p
  PROVE  /\ ReadsDirect(Apply("enable-direct-reads", p))
         /\ StoresFused(Apply("enable-fused-store", p))
         /\ ReadsDirect(p) => ReadsDirect(Apply("enable-fused-store", p))
<1>1. ReadsDirect(Apply("enable-direct-reads", p))
  BY DEF Apply, Annotated, Pinned, Node, Prog, ReadsDirect
<1>2. StoresFused(Apply("enable-fused-store", p))
  BY DEF Apply, Annotated, Pinned, Node, Prog, StoresFused
<1>3. ReadsDirect(p) => ReadsDirect(Apply("enable-fused-store", p))
  BY DEF Apply, Annotated, Pinned, Node, Prog, ReadsDirect
<1>4. QED
  BY <1>1, <1>2, <1>3

\* Planning keeps the contractions, and gives each the lowering it chose.
LEMMA PlannedNodes ==
  ASSUME NEW p
  PROVE  /\ Contractions(Planned(p)) = Contractions(p)
         /\ \A i \in Contractions(p) :
              <<Planned(p).nodes[i].read, Planned(p).nodes[i].fuse>>
                = Lowering(Evaluate(p, Representative(p, i)))
<1> DEFINE q == Planned(p)
<1>1. /\ DOMAIN q.nodes = DOMAIN p.nodes
      /\ \A i \in DOMAIN p.nodes :
           q.nodes[i] = IF p.nodes[i].kind = "einsum"
                        THEN Pinned(p.nodes[i], Lowering(Evaluate(p, Representative(p, i))))
                        ELSE p.nodes[i]
  BY DEF Planned, Annotated, Prog, Contractions
<1>2. ASSUME NEW n, NEW pin
      PROVE  /\ Pinned(n, pin).kind = n.kind
             /\ Pinned(n, pin).read = pin[1] /\ Pinned(n, pin).fuse = pin[2]
  BY DEF Pinned, Node
<1> HIDE DEF q
<1>3. ASSUME NEW i \in DOMAIN p.nodes PROVE q.nodes[i].kind = p.nodes[i].kind
  BY <1>1, <1>2
<1>4. Contractions(q) = Contractions(p)
  BY <1>1, <1>3 DEF Contractions
<1>5. ASSUME NEW i \in Contractions(p)
      PROVE  <<q.nodes[i].read, q.nodes[i].fuse>> = Lowering(Evaluate(p, Representative(p, i)))
  <2> DEFINE pin == Lowering(Evaluate(p, Representative(p, i)))
  <2>1. q.nodes[i].read = pin[1] /\ q.nodes[i].fuse = pin[2]
    BY <1>1, <1>2 DEF Contractions
  <2>2. <<pin[1], pin[2]>> = pin
    BY DEF Lowering
  <2>3. QED
    BY <2>1, <2>2
<1>6. QED
  BY <1>4, <1>5 DEF q
-----------------------------------------------------------------------------
(* Rewrites: a lever that was kept stays, one lemma per action.            *)

LEMMA DueFacts ==
  ASSUME LeverInv, NEW i \in plan, Due(i)
  PROVE  /\ i \in DOMAIN Library /\ Library[i] \notin kept
         /\ \A j \in plan : Order(Library[i]) <= Order(Library[j])
         /\ \A t \in kept : Order(t) <= Order(Library[i])
         /\ \A j \in plan : Due(j) => j = i
<1>1. i \in DOMAIN Library /\ Library[i] \notin kept
  BY LibraryFacts DEF LeverInv
<1>2. \A j \in plan : j \in DOMAIN Library
  BY DEF LeverInv
<1>3. \A j \in plan : Order(Library[i]) <= Order(Library[j])
  BY <1>1, <1>2, LibraryFacts DEF Due
<1>4. ASSUME NEW j \in plan, Due(j) PROVE j = i
  <2>1. /\ Order(Library[i]) < Order(Library[j]) \/ (Order(Library[i]) = Order(Library[j]) /\ i <= j)
        /\ Order(Library[j]) < Order(Library[i]) \/ (Order(Library[j]) = Order(Library[i]) /\ j <= i)
    BY <1>4 DEF Due
  <2>2. /\ i \in 1 .. 8 /\ j \in 1 .. 8
        /\ Order(Library[i]) \in 0 .. 4 /\ Order(Library[j]) \in 0 .. 4
    BY <1>1, <1>2, LibraryFacts
  <2>3. QED
    BY <2>1, <2>2
<1>5. QED
  BY <1>1, <1>3, <1>4 DEF LeverInv

LEMMA RewriteInitInv == RewriteInit => LeverInv
BY DEF RewriteInit, LeverInv, Sticking, Proposals

\* One transform less to try, with the program as it was.
LEMMA SettledInv ==
  ASSUME LeverInv, NEW i \in plan, plan' = plan \ {i}, phase' = "propose",
         UNCHANGED <<best, kept>>
  PROVE  LeverInv'
<1>1. /\ plan' \subseteq DOMAIN Library
      /\ kept' \subseteq {Library[j] : j \in DOMAIN Library \ plan'}
  BY DEF LeverInv
<1>2. \A t \in kept', j \in plan' : Order(t) <= Order(Library[j])
  BY DEF LeverInv
<1>3. Sticking'
  BY DEF LeverInv, Sticking
<1>4. QED
  BY <1>1, <1>2, <1>3 DEF LeverInv

LEMMA RewriteInv == ASSUME LeverInv, NEW i \in plan, Rewrite(i) PROVE LeverInv'
<1>1. /\ Due(i) /\ cand' = Apply(Library[i], best) /\ phase' = "judge"
      /\ UNCHANGED <<best, plan, kept>>
  BY DEF Rewrite
<1>2. ASSUME NEW j \in plan, Due(j)
      PROVE  /\ Library[j] = "enable-direct-reads" => ReadsDirect(cand')
             /\ Library[j] = "enable-fused-store" =>
                  StoresFused(cand') /\ (ReadsDirect(best) => ReadsDirect(cand'))
  <2>1. j = i
    BY <1>1, <1>2, DueFacts
  <2>2. QED
    BY <1>1, <2>1, LeverApplied
<1>3. Sticking'
  BY <1>1 DEF LeverInv, Sticking
<1>4. QED
  BY <1>1, <1>2, <1>3 DEF LeverInv, Due

LEMMA GenerateInv == ASSUME LeverInv, NEW i \in plan, Generate(i) PROVE LeverInv'
<1>1. /\ Due(i) /\ Library[i] = "fuse-contraction-epilogue" /\ phase' = "emit"
      /\ UNCHANGED <<best, plan, kept>>
  BY DEF Generate
<1>2. Sticking'
  BY <1>1 DEF LeverInv, Sticking
<1>3. QED
  BY <1>1, <1>2 DEF LeverInv, Due

LEMMA GeneratedInv == LeverInv /\ Generated => LeverInv'
<1> SUFFICES ASSUME LeverInv, Generated PROVE LeverInv'
  OBVIOUS
<1>1. phase = "emit" /\ phase' = "judge" /\ UNCHANGED <<best, cand, plan, kept>>
  BY DEF Generated
<1>2. PICK i \in plan : Due(i) /\ Library[i] = "fuse-contraction-epilogue"
  BY <1>1 DEF LeverInv
<1>3. \A j \in plan : Due(j) => Library[j] = "fuse-contraction-epilogue"
  BY <1>2, DueFacts
<1>4. Sticking'
  BY <1>1 DEF LeverInv, Sticking
<1>5. QED
  BY <1>1, <1>3, <1>4 DEF LeverInv, Due

\* What is kept comes after everything kept before it: a fusion before both
\* levers, the second lever after the first.
LEMMA KeepInv == ASSUME LeverInv, NEW i \in plan, Keep(i) PROVE LeverInv'
<1> DEFINE t == Library[i]
<1>1. /\ phase = "judge" /\ Due(i) /\ best' = cand /\ kept' = kept \cup {t}
      /\ plan' = plan \ {i} /\ phase' = "propose"
  BY DEF Keep
<1>2. /\ i \in DOMAIN Library /\ t \notin kept /\ Order(t) \in 0 .. 4
      /\ \A j \in plan : Order(t) <= Order(Library[j])
      /\ \A u \in kept : Order(u) <= Order(t)
  BY <1>1, DueFacts, LibraryFacts
<1>3. plan' \subseteq DOMAIN Library /\ kept' \subseteq {Library[j] : j \in DOMAIN Library \ plan'}
  BY <1>1, <1>2 DEF LeverInv
<1>4. \A u \in kept', j \in plan' : Order(u) <= Order(Library[j])
  BY <1>1, <1>2 DEF LeverInv
<1>5. /\ t = "enable-direct-reads" => ReadsDirect(cand)
      /\ t = "enable-fused-store" => StoresFused(cand) /\ (ReadsDirect(best) => ReadsDirect(cand))
  BY <1>1 DEF LeverInv
<1>6. ASSUME "enable-direct-reads" \in kept' PROVE ReadsDirect(cand)
  <2>1. CASE t = "enable-direct-reads"
    BY <1>5, <2>1
  <2>2. CASE "enable-direct-reads" \in kept
    <3>1. t = "enable-fused-store"
      BY <1>2, <2>2, LibraryFacts
    <3>2. QED
      BY <1>5, <2>2, <3>1 DEF LeverInv, Sticking
  <2>3. QED
    BY <1>1, <1>6, <2>1, <2>2
<1>7. ASSUME "enable-fused-store" \in kept' PROVE StoresFused(cand)
  <2>1. "enable-fused-store" \notin kept
    BY <1>2, LibraryFacts
  <2>2. QED
    BY <1>1, <1>5, <1>7, <2>1
<1>8. Sticking'
  BY <1>1, <1>6, <1>7 DEF Sticking, ReadsDirect, StoresFused
<1>9. QED
  BY <1>1, <1>3, <1>4, <1>8 DEF LeverInv

LEMMA LeverStep == LeverInv /\ [RewriteNext]_rewriteVars => LeverInv'
<1> SUFFICES ASSUME LeverInv, [RewriteNext]_rewriteVars PROVE LeverInv'
  OBVIOUS
<1>1. CASE UNCHANGED rewriteVars
  <2>1. UNCHANGED <<family, best, cand, plan, kept, phase>>
    BY <1>1 DEF rewriteVars
  <2>2. Sticking'
    BY <2>1 DEF LeverInv, Sticking
  <2>3. QED
    BY <2>1, <2>2 DEF LeverInv, Due
<1>2. ASSUME NEW i \in plan, PassOver(i) PROVE LeverInv'
  BY <1>2, SettledInv DEF PassOver
<1>3. ASSUME NEW i \in plan, RollBack(i) PROVE LeverInv'
  BY <1>3, SettledInv DEF RollBack
<1>4. QED
  BY <1>1, <1>2, <1>3, RewriteInv, GenerateInv, GeneratedInv, KeepInv DEF RewriteNext, Exited

\* The levers in a compilation of any forward, over any number of chunks.
LEMMA LeverInvariance == PlanSpec => []LeverInv
<1>1. PlanInit => LeverInv
  BY RewriteInitInv DEF PlanInit
<1>2. LeverInv /\ [PlanNext]_<<rewriteVars, planVars>> => LeverInv'
  BY LeverStep DEF PlanNext, Compile, Plan, Returned
<1>3. QED
  BY <1>1, <1>2, PTL DEF PlanSpec

\* A lever that was kept holds for every einsum of the compiled program.
THEOREM LeversStay == PlanSpec => []LeversStick
<1>1. LeverInv => LeversStick
  BY DEF LeverInv, LeversStick
<1>2. QED
  BY <1>1, LeverInvariance, PTL
-----------------------------------------------------------------------------
(* Planner: the forwards are sequences of nodes, and so have a first one   *)
(* of each class.                                                          *)

\* Every set of naturals has a least element: what an induction over the nodes
\* of a program rests on, by a smallest counterexample.
LEMMA Least == ASSUME NEW T \in SUBSET Nat, T # {} PROVE \E x \in T : \A y \in T : x <= y
<1>1. PICK x \in T : \A y \in T : ~ (<<y, x>> \in OpToRel(<, Nat))
  BY NatLessThanWellFounded, WFMin
<1>2. \A y \in T : ~ (y < x)
  BY <1>1 DEF OpToRel
<1>3. QED
  BY <1>2

\* FlattenSeq is defined by choosing a function: there is one.
LEMMA FlattenRec ==
  ASSUME NEW S, NEW seqs \in Seq(Seq(S)), seqs # <<>>
  PROVE  \E f \in [1 .. Len(seqs) -> Seq(S)] :
           f = [i \in 1 .. Len(seqs) |-> IF i = 1 THEN seqs[i] ELSE f[i-1] \o seqs[i]]
<1> DEFINE n == Len(seqs)
           Good(f, k) == \A i \in 1 .. k : f[i] = IF i = 1 THEN seqs[i] ELSE f[i-1] \o seqs[i]
           Bad == {k \in 1 .. n : ~ \E f \in [1 .. k -> Seq(S)] : Good(f, k)}
<1>1. n \in Nat \ {0} /\ \A i \in 1 .. n : seqs[i] \in Seq(S)
  BY EmptySeq, LenProperties
<1> HIDE DEF n
<1>2. Bad \subseteq 1 .. n /\ \A k \in 1 .. n : k \in Bad <=> ~ \E f \in [1 .. k -> Seq(S)] : Good(f, k)
  OBVIOUS
<1> HIDE DEF Bad
<1>3. Bad = {}
  <2> SUFFICES ASSUME Bad # {} PROVE FALSE
    OBVIOUS
  <2>1. Bad \subseteq Nat
    BY <1>1, <1>2
  <2>2. PICK k \in Bad : \A j \in Bad : k <= j
    BY <2>1, Least
  <2>3. k \in 1 .. n
    BY <1>2
  <2>4. CASE k = 1
    <3>1. [i \in 1 .. 1 |-> seqs[i]] \in [1 .. k -> Seq(S)]
      BY <1>1, <2>3, <2>4
    <3>2. Good([i \in 1 .. 1 |-> seqs[i]], k)
      BY <2>4
    <3>3. QED
      BY <1>2, <2>3, <3>1, <3>2
  <2>5. CASE k # 1
    <3>1. k - 1 \in 1 .. n /\ k - 1 \notin Bad
      BY <1>1, <2>1, <2>2, <2>3, <2>5
    <3>2. PICK f \in [1 .. k - 1 -> Seq(S)] : Good(f, k - 1)
      BY <1>2, <3>1
    <3> DEFINE g == [i \in 1 .. k |-> IF i = k THEN f[k-1] \o seqs[k] ELSE f[i]]
    <3>3. f[k-1] \o seqs[k] \in Seq(S)
      BY <1>1, <2>3, <2>5, <3>1, ConcatProperties
    <3>4. g \in [1 .. k -> Seq(S)]
      BY <1>1, <2>3, <3>3
    <3>5. ASSUME NEW i \in 1 .. k
          PROVE  g[i] = IF i = 1 THEN seqs[i] ELSE g[i-1] \o seqs[i]
      <4>1. k \in Nat /\ i \in Nat
        BY <1>1, <2>3
      <4>2. CASE i = k
        <5>1. i - 1 \in 1 .. k /\ i - 1 # k /\ i # 1
          BY <1>1, <2>3, <2>5, <4>2
        <5>2. QED
          BY <4>2, <5>1
      <4>3. CASE i # k
        <5>1. i \in 1 .. k - 1 /\ g[i] = f[i]
          BY <4>1, <4>3
        <5>2. i # 1 => i - 1 \in 1 .. k /\ i - 1 # k
          BY <4>1
        <5>3. i # 1 => g[i-1] = f[i-1]
          BY <5>2
        <5>4. f[i] = IF i = 1 THEN seqs[i] ELSE f[i-1] \o seqs[i]
          BY <3>2, <5>1
        <5>5. QED
          BY <5>1, <5>3, <5>4
      <4>4. QED
        BY <4>2, <4>3
    <3>6. QED
      BY <1>2, <2>3, <3>4, <3>5
  <2>6. QED
    BY <2>4, <2>5
<1>4. PICK f \in [1 .. n -> Seq(S)] : Good(f, n)
  <2>1. n \in 1 .. n /\ n \notin Bad
    BY <1>1, <1>3
  <2>2. QED
    BY <1>2, <2>1
<1>5. f = [i \in 1 .. n |-> IF i = 1 THEN seqs[i] ELSE f[i-1] \o seqs[i]]
  BY <1>4
<1>6. QED
  BY <1>5 DEF n

\* The function it chooses, by its recursion.
LEMMA FlattenUnfold ==
  ASSUME NEW S, NEW seqs \in Seq(Seq(S)), seqs # <<>>
  PROVE  \E flat \in [1 .. Len(seqs) -> Seq(S)] :
           /\ FlattenSeq(seqs) = flat[Len(seqs)]
           /\ \A i \in 1 .. Len(seqs) : flat[i] = IF i = 1 THEN seqs[i] ELSE flat[i-1] \o seqs[i]
<1> DEFINE Recurs(f) == f = [i \in 1 .. Len(seqs) |-> IF i = 1 THEN seqs[i] ELSE f[i-1] \o seqs[i]]
           flat == CHOOSE f : Recurs(f)
<1>1. Len(seqs) \in Nat \ {0} /\ \A i \in 1 .. Len(seqs) : seqs[i] \in Seq(S)
  BY EmptySeq, LenProperties
<1>2. FlattenSeq(seqs) = flat[Len(seqs)]
  <2>1. Len(seqs) # 0
    BY <1>1
  <2>2. QED
    BY <2>1, Zenon DEF FlattenSeq
<1>3. Recurs(flat)
  <2>1. PICK f \in [1 .. Len(seqs) -> Seq(S)] :
          f = [i \in 1 .. Len(seqs) |-> IF i = 1 THEN seqs[i] ELSE f[i-1] \o seqs[i]]
    BY FlattenRec
  <2>2. Recurs(f)
    BY <2>1
  <2> HIDE DEF Recurs
  <2>3. QED
    BY <2>2 DEF flat
<1> HIDE DEF flat
<1>4. /\ flat = [i \in 1 .. Len(seqs) |-> flat[i]]
      /\ \A i \in 1 .. Len(seqs) : flat[i] = IF i = 1 THEN seqs[i] ELSE flat[i-1] \o seqs[i]
  BY <1>3
<1>5. \A k \in 1 .. Len(seqs) : flat[k] \in Seq(S)
  <2> DEFINE Bad == {k \in 1 .. Len(seqs) : flat[k] \notin Seq(S)}
  <2> SUFFICES ASSUME Bad # {} PROVE FALSE
    OBVIOUS
  <2>1. Bad \subseteq Nat
    BY <1>1
  <2>2. PICK k \in Bad : \A j \in Bad : k <= j
    BY <2>1, Least
  <2>3. k # 1 => k - 1 \in 1 .. Len(seqs) /\ flat[k-1] \in Seq(S)
    BY <1>1, <2>1, <2>2
  <2>4. k \in 1 .. Len(seqs) /\ seqs[k] \in Seq(S)
    BY <1>1
  <2> HIDE DEF Bad
  <2>5. CASE k = 1
    BY <1>4, <2>4, <2>5 DEF Bad
  <2>6. CASE k # 1
    <3>1. flat[k] \in Seq(S)
      BY <1>4, <2>3, <2>4, <2>6, ConcatProperties
    <3>2. QED
      BY <3>1 DEF Bad
  <2>7. QED
    BY <2>5, <2>6
<1>6. QED
  BY <1>2, <1>4, <1>5

\* Of no sequence.
LEMMA FlattenEmpty == FlattenSeq(<<>>) = <<>>
BY DEF FlattenSeq

LEMMA FlattenIsSeq ==
  ASSUME NEW S, NEW seqs \in Seq(Seq(S))
  PROVE  FlattenSeq(seqs) \in Seq(S)
<1>1. CASE seqs = <<>>
  BY <1>1, FlattenEmpty, EmptySeq
<1>2. CASE seqs # <<>>
  <2>1. Len(seqs) \in 1 .. Len(seqs)
    BY <1>2, EmptySeq, LenProperties
  <2>2. QED
    BY <1>2, <2>1, FlattenUnfold
<1>3. QED
  BY <1>1, <1>2

\* A sequence, whatever its elements are.
IsSeq(s) == s \in Seq(ToSet(s))

LEMMA SeqIsSeq == ASSUME NEW A, NEW s \in Seq(A) PROVE IsSeq(s) /\ ToSet(s) \subseteq A
<1>1. Len(s) \in Nat /\ s \in [1 .. Len(s) -> A] /\ DOMAIN s = 1 .. Len(s)
  BY LenProperties
<1>2. s \in [1 .. Len(s) -> ToSet(s)] /\ ToSet(s) \subseteq A
  BY <1>1 DEF ToSet
<1>3. s \in Seq(ToSet(s))
  BY <1>1, <1>2, SeqDef
<1>4. QED
  BY <1>2, <1>3 DEF IsSeq

LEMMA ConcatIsSeq == ASSUME NEW s, NEW t, IsSeq(s), IsSeq(t) PROVE IsSeq(s \o t)
<1>1. s \in Seq(ToSet(s) \cup ToSet(t)) /\ t \in Seq(ToSet(s) \cup ToSet(t))
  BY SeqMonotonic DEF IsSeq
<1>2. s \o t \in Seq(ToSet(s) \cup ToSet(t))
  BY <1>1, ConcatProperties
<1>3. QED
  BY <1>2, SeqIsSeq

LEMMA ChunkedIsSeq ==
  ASSUME NEW f, \A c \in Chunks : IsSeq(f[c])
  PROVE  IsSeq(Chunked(f))
<1> DEFINE A == UNION {ToSet(f[c]) : c \in Chunks}
           seqs == [i \in 1 .. nc |-> f[i-1]]
<1>1. \A i \in 1 .. nc : i - 1 \in Chunks
  BY ncAssumption DEF Chunks
<1>2. ASSUME NEW c \in Chunks PROVE f[c] \in Seq(A)
  <2>1. ToSet(f[c]) \subseteq A /\ f[c] \in Seq(ToSet(f[c]))
    BY DEF IsSeq
  <2>2. QED
    BY <2>1, SeqMonotonic
<1> HIDE DEF A
<1>3. seqs \in [1 .. nc -> Seq(A)]
  BY <1>1, <1>2
<1>4. seqs \in Seq(Seq(A))
  BY <1>3, ncAssumption, SeqDef
<1>5. FlattenSeq(seqs) \in Seq(A)
  BY <1>4, FlattenIsSeq
<1>6. QED
  BY <1>5, SeqIsSeq DEF Chunked

LEMMA TupleIsSeq ==
  /\ \A a : IsSeq(<<a>>)
  /\ \A a, b : IsSeq(<<a, b>>)
  /\ \A a, b, c : IsSeq(<<a, b, c>>)
  /\ \A a, b, c, d : IsSeq(<<a, b, c, d>>)
  /\ \A a, b, c, d, e : IsSeq(<<a, b, c, d, e>>)
  /\ \A a, b, c, d, e, f : IsSeq(<<a, b, c, d, e, f>>)
  /\ \A a, b, c, d, e, f, g : IsSeq(<<a, b, c, d, e, f, g>>)
  /\ \A a, b, c, d, e, f, g, h : IsSeq(<<a, b, c, d, e, f, g, h>>)
  /\ \A a, b, c, d, e, f, g, h, i, j, k, l, m : IsSeq(<<a, b, c, d, e, f, g, h, i, j, k, l, m>>)
<1>1. ASSUME NEW a PROVE IsSeq(<<a>>)
  <2>1. <<a>> \in Seq({a})
    OBVIOUS
  <2>2. QED
    BY <2>1, SeqIsSeq
<1>2. ASSUME NEW a, NEW b PROVE IsSeq(<<a, b>>)
  <2>1. <<a, b>> \in Seq({a, b})
    OBVIOUS
  <2>2. QED
    BY <2>1, SeqIsSeq
<1>3. ASSUME NEW a, NEW b, NEW c PROVE IsSeq(<<a, b, c>>)
  <2>1. <<a, b, c>> \in Seq({a, b, c})
    OBVIOUS
  <2>2. QED
    BY <2>1, SeqIsSeq
<1>4. ASSUME NEW a, NEW b, NEW c, NEW d PROVE IsSeq(<<a, b, c, d>>)
  <2>1. <<a, b, c, d>> \in Seq({a, b, c, d})
    OBVIOUS
  <2>2. QED
    BY <2>1, SeqIsSeq
<1>5. ASSUME NEW a, NEW b, NEW c, NEW d, NEW e PROVE IsSeq(<<a, b, c, d, e>>)
  <2>1. <<a, b, c, d, e>> \in Seq({a, b, c, d, e})
    OBVIOUS
  <2>2. QED
    BY <2>1, SeqIsSeq
<1>6. ASSUME NEW a, NEW b, NEW c, NEW d, NEW e, NEW f PROVE IsSeq(<<a, b, c, d, e, f>>)
  <2>1. <<a, b, c, d, e, f>> \in Seq({a, b, c, d, e, f})
    OBVIOUS
  <2>2. QED
    BY <2>1, SeqIsSeq
<1>7. ASSUME NEW a, NEW b, NEW c, NEW d, NEW e, NEW f, NEW g PROVE IsSeq(<<a, b, c, d, e, f, g>>)
  <2>1. <<a, b, c, d, e, f, g>> \in Seq({a, b, c, d, e, f, g})
    OBVIOUS
  <2>2. QED
    BY <2>1, SeqIsSeq
<1>8. ASSUME NEW a, NEW b, NEW c, NEW d, NEW e, NEW f, NEW g, NEW h PROVE IsSeq(<<a, b, c, d, e, f, g, h>>)
  <2>1. <<a, b, c, d, e, f, g, h>> \in Seq({a, b, c, d, e, f, g, h})
    OBVIOUS
  <2>2. QED
    BY <2>1, SeqIsSeq
<1>9. ASSUME NEW a, NEW b, NEW c, NEW d, NEW e, NEW f, NEW g, NEW h,
             NEW i, NEW j, NEW k, NEW l, NEW m
      PROVE  IsSeq(<<a, b, c, d, e, f, g, h, i, j, k, l, m>>)
  <2>1. <<a, b, c, d, e, f, g, h, i, j, k, l, m>> \in Seq({a, b, c, d, e, f, g, h, i, j, k, l, m})
    OBVIOUS
  <2>2. QED
    BY <2>1, SeqIsSeq
<1>10. QED
  BY <1>1, <1>2, <1>3, <1>4, <1>5, <1>6, <1>7, <1>8, <1>9

\* The parts the builders share, then the nodes of each forward.
LEMMA PartsAreSeqs ==
  /\ \A t : IsSeq(SolveTril(t))
  /\ \A wk, coefW, coefU : IsSeq(WyFast(wk, coefW, coefU))
  /\ IsSeq(Views) /\ IsSeq(Stacked) /\ IsSeq(OutSum)
  /\ \A c \in Chunks : IsSeq(Residual(c)) /\ IsSeq(Key(c)) /\ IsSeq(Decay(c))
<1>1. \A t : IsSeq(SolveTril(t))
  BY TupleIsSeq DEF SolveTril
<1>2. \A wk, coefW, coefU : IsSeq(WyFast(wk, coefW, coefU))
  BY TupleIsSeq DEF WyFast
<1>3. IsSeq(Views) /\ IsSeq(Stacked) /\ IsSeq(OutSum)
  BY TupleIsSeq DEF Views, Stacked, OutSum
<1>4. \A c \in Chunks : IsSeq(Residual(c)) /\ IsSeq(Key(c)) /\ IsSeq(Decay(c))
  BY TupleIsSeq DEF Residual, Key, Decay
<1>5. QED
  BY <1>1, <1>2, <1>3, <1>4

LEMMA GDNIsSeq == IsSeq(GDN.nodes)
BY ConcatIsSeq, ChunkedIsSeq, TupleIsSeq, PartsAreSeqs, ZenonT(30) DEF GDN, Prog

LEMMA KDAIsSeq == IsSeq(KDA.nodes)
BY ConcatIsSeq, ChunkedIsSeq, TupleIsSeq, PartsAreSeqs, ZenonT(30) DEF KDA, Prog

LEMMA LinearIsSeq == IsSeq(Linear.nodes)
<1> DEFINE operands == <<"q", "k", "v", "P", "invP", "gammaInvP">>
           slices(c) == [i \in DOMAIN operands |-> Slice(At(operands[i], c), operands[i], c)]
<1>1. ASSUME NEW c PROVE IsSeq(slices(c))
  <2>1. DOMAIN operands = 1 .. 6
    OBVIOUS
  <2>2. slices(c) \in [1 .. 6 -> {slices(c)[i] : i \in 1 .. 6}]
    BY <2>1
  <2>3. slices(c) \in Seq({slices(c)[i] : i \in 1 .. 6})
    BY <2>2, SeqDef
  <2>4. QED
    BY <2>3, SeqIsSeq
<1>2. QED
  BY <1>1, ConcatIsSeq, ChunkedIsSeq, TupleIsSeq, ZenonT(30) DEF Linear, Prog

LEMMA DeltaNetIsSeq == IsSeq(DeltaNet.nodes)
<1>1. \A src, dst : IsSeq(Flat(src, dst))
  BY TupleIsSeq DEF Flat
<1>2. IsSeq(BetaScaled) /\ IsSeq(RecomputedWU)
  BY <1>1, ConcatIsSeq, TupleIsSeq DEF BetaScaled, RecomputedWU
<1>3. IsSeq(ChunkO)
  BY <1>1, ConcatIsSeq, TupleIsSeq, PartsAreSeqs DEF ChunkO
<1>4. QED
  BY <1>2, <1>3, ConcatIsSeq, ChunkedIsSeq, TupleIsSeq, PartsAreSeqs, ZenonT(30) DEF DeltaNet, Prog

LEMMA ForwardIsSeq == \A f : IsSeq(Forward(f).nodes)
BY GDNIsSeq, KDAIsSeq, LinearIsSeq, DeltaNetIsSeq DEF Forward

\* The node a contraction's verdict comes from is a contraction of its class.
LEMMA RepresentativeFacts ==
  ASSUME NEW f, NEW i \in Contractions(Forward(f))
  PROVE  LET r == Representative(Forward(f), i)
         IN r \in Contractions(Forward(f)) /\ Class(Forward(f), r) = Class(Forward(f), i)
<1> DEFINE p == Forward(f)
           T == {j \in Contractions(p) :
                   ClassIn(Extents(p), p.nodes[j]) = ClassIn(Extents(p), p.nodes[i])}
<1>1. T \subseteq Nat
  <2>1. p.nodes \in Seq(ToSet(p.nodes))
    BY ForwardIsSeq DEF IsSeq
  <2>2. DOMAIN p.nodes = 1 .. Len(p.nodes) /\ Len(p.nodes) \in Nat
    BY <2>1, LenProperties
  <2> HIDE DEF p
  <2>3. QED
    BY <2>2 DEF Contractions
<1>2. \E x \in T : \A y \in T : x <= y
  BY <1>1, Least
<1>3. First(T) \in T
  BY <1>2 DEF First
<1>4. Representative(p, i) = First(T)
  BY DEF Representative
<1>5. QED
  BY <1>3, <1>4 DEF Class

\* What is planned is the forward, and what is returned its annotation.
LEMMA PlanInvariance == PlanSpec => []PlanInv
<1>1. PlanInit => PlanInv
  BY DEF PlanInit, RewriteInit, PlanInv, Given
<1>2. PlanInv /\ [PlanNext]_<<rewriteVars, planVars>> => PlanInv'
  <2> SUFFICES ASSUME PlanInv, [PlanNext]_<<rewriteVars, planVars>> PROVE PlanInv'
    OBVIOUS
  <2>1. family' = family
    BY DEF PlanNext, Compile, RewriteNext, PassOver, Rewrite, Generate, Keep, RollBack,
           Generated, Exited, Plan, Returned, rewriteVars
  <2>2. ASSUME UNCHANGED <<broken, pays>> PROVE Given' = Given /\ Planned(Given)' = Planned(Given)
    <3>1. Given' = Given
      BY <2>1 DEF Given
    <3>2. Planned(Given)' = Planned(Given)
      BY <2>2, <3>1 DEF Planned, Annotated, Evaluate, Gated, Right
    <3>3. QED
      BY <3>1, <3>2
  <2>3. CASE Plan
    BY <2>1, <2>2, <2>3 DEF PlanInv, Plan
  <2>4. CASE UNCHANGED planVars
    BY <2>1, <2>2, <2>4 DEF PlanInv, planVars
  <2>5. QED
    BY <2>3, <2>4 DEF PlanNext, Compile, Returned
<1>3. QED
  BY <1>1, <1>2, PTL DEF PlanSpec

\* On any forward, over any number of chunks: a contraction on which a single
\* lever was pinned computes the right product, wherever it was measured,
\* unless the gate had nothing to compare.
THEOREM VerdictsHold == PlanSpec => []VerdictsCarryOver
<1>1. PlanInv => VerdictsCarryOver
  <2> SUFFICES ASSUME PlanInv, stage = "planned", NEW i \in OneLever
               PROVE  RunsRight(i) \/ \E j \in Contractions(Given) :
                                        Class(Given, j) = Class(Given, i) /\ ZeroProduct(Given, j)
    BY DEF VerdictsCarryOver
  <2> DEFINE r == Representative(Given, i)
             levers == Evaluate(Given, r)
             lowering == <<annotated.nodes[i].read, annotated.nodes[i].fuse>>
  <2>1. annotated = Planned(Given)
    BY DEF PlanInv
  <2>2. /\ i \in Contractions(Given) /\ lowering = Lowering(levers)
        /\ lowering \in {<<"auto", FALSE>>, <<"NN", TRUE>>}
    BY <2>1, PlannedNodes DEF OneLever
  <2>3. r \in Contractions(Given) /\ Class(Given, r) = Class(Given, i)
    BY <2>2, RepresentativeFacts DEF Given
  <2> HIDE DEF r, lowering
  <2>4. PICK lever \in levers : Lowering({lever}) = lowering
    <3>1. "direct_read" \in levers <=> "operand_swap" \notin levers
      BY <2>2 DEF Lowering
    <3>2. CASE "direct_read" \in levers
      BY <2>2, <3>1, <3>2 DEF Lowering
    <3>3. CASE "operand_swap" \in levers
      BY <2>2, <3>1, <3>3 DEF Lowering
    <3>4. QED
      BY <3>1, <3>2, <3>3
  <2>5. ZeroProduct(Given, r) \/ Right(Given, r, lowering)
    BY <2>4 DEF Evaluate, Gated
  <2>6. CASE ZeroProduct(Given, r)
    BY <2>3, <2>6
  <2>7. CASE Right(Given, r, lowering)
    BY <2>3, <2>7 DEF Right, RunsRight, lowering
  <2>8. QED
    BY <2>5, <2>6, <2>7
<1>2. QED
  BY <1>1, PlanInvariance, PTL

-----------------------------------------------------------------------------
(* Rewrites: every program built is well formed.                           *)

\* What a node must find bound before it: what it reads, and what a rewrite of
\* the nodes around it will read in its place.
LateNames == {"Aqk", "Aqk_g", "Aqk_t", "Aqk_c", "o_intra", "k_eff"}
ScanOuts(f) == IF f = "gdn" THEN ScanBinds("coef_vcs")
               ELSE IF f = "kda" THEN ScanBinds("coef_krest") ELSE {}
ScanReads == {"Wb", "Ub", "kb5", "W_m", "U_m"}
Needs(f, n) ==
  ToSet(n.ins)
    \cup (IF f \in {"gdn", "kda"} /\ n.outs[1] \in LateNames THEN {"vn_flat"} ELSE {})
    \cup (IF n.outs[1] \in ScanOuts(f) THEN ScanReads ELSE {})

\* What the nodes before the i-th bind; every node of a sequence gets what it needs
\* from B and the nodes before it.
Before(s, i) == UNION {ToSet(s[j].outs) : j \in 1 .. i - 1}
Gets(f, s, B) == \A i \in DOMAIN s : Needs(f, s[i]) \subseteq B \cup Before(s, i)

\* The elements of a sequence are its entries.
LEMMA SeqFacts ==
  ASSUME NEW s, IsSeq(s)
  PROVE  /\ Len(s) \in Nat /\ DOMAIN s = 1 .. Len(s)
         /\ \A i \in DOMAIN s : s[i] \in ToSet(s)
         /\ \A x \in ToSet(s) : \E i \in DOMAIN s : s[i] = x
<1>1. Len(s) \in Nat /\ DOMAIN s = 1 .. Len(s)
  BY LenProperties DEF IsSeq
<1>2. QED
  BY <1>1 DEF ToSet

\* What a program binds is what one of its nodes binds.
LEMMA ProducedFacts ==
  ASSUME NEW s
  PROVE  /\ Produced(s) = UNION {ToSet(n.outs) : n \in ToSet(s)}
         /\ \A x : x \in Produced(s) <=> \E i \in DOMAIN s : x \in ToSet(s[i].outs)
BY DEF Produced, ToSet

\* What is bound before a node is bound by an earlier one.
LEMMA BeforeFacts ==
  ASSUME NEW s, NEW i
  PROVE  \A x : x \in Before(s, i) <=> \E j \in 1 .. i - 1 : x \in ToSet(s[j].outs)
BY DEF Before

\* No node needs nothing.
LEMMA GetsEmpty ==
  /\ \A f, B : Gets(f, <<>>, B)
  /\ Produced(<<>>) = {} /\ ToSet(<<>>) = {} /\ IsSeq(<<>>)
<1>1. DOMAIN <<>> = {}
  OBVIOUS
<1>2. ToSet(<<>>) = {}
  BY <1>1 DEF ToSet
<1>3. QED
  BY <1>1, <1>2, EmptySeq DEF Gets, Produced, IsSeq

\* A single node that finds what it needs.
LEMMA GetsOne ==
  ASSUME NEW f, NEW n, NEW B, Needs(f, n) \subseteq B
  PROVE  /\ Gets(f, <<n>>, B) /\ IsSeq(<<n>>)
         /\ Produced(<<n>>) = ToSet(n.outs) /\ ToSet(<<n>>) = {n}
<1> DEFINE s == <<n>>
<1>1. DOMAIN s = {1} /\ s[1] = n
  OBVIOUS
<1>2. IsSeq(s)
  BY TupleIsSeq
<1> HIDE DEF s
<1>3. ToSet(s) = {n}
  BY <1>1 DEF ToSet
<1>4. Gets(f, s, B)
  BY <1>1 DEF Gets
<1>5. Produced(s) = ToSet(n.outs)
  <2>1. \A x : x \in Produced(s) <=> x \in ToSet(n.outs)
    BY <1>1, ProducedFacts
  <2>2. QED
    BY <2>1
<1>6. QED
  BY <1>2, <1>3, <1>4, <1>5 DEF s

\* Two sequences in a row bind what either binds.
LEMMA ConcatFacts ==
  ASSUME NEW s, NEW t, IsSeq(s), IsSeq(t)
  PROVE  /\ IsSeq(s \o t) /\ ToSet(s \o t) = ToSet(s) \cup ToSet(t)
         /\ Produced(s \o t) = Produced(s) \cup Produced(t)
<1> DEFINE r == s \o t
<1>1. IsSeq(r)
  BY ConcatIsSeq
<1>2. s \in Seq(ToSet(s) \cup ToSet(t)) /\ t \in Seq(ToSet(s) \cup ToSet(t))
  BY SeqMonotonic DEF IsSeq
<1>3. /\ Len(r) = Len(s) + Len(t)
      /\ \A i \in 1 .. Len(r) : r[i] = IF i <= Len(s) THEN s[i] ELSE t[i - Len(s)]
  BY <1>2, ConcatProperties
<1> HIDE DEF r
<1>4. /\ Len(s) \in Nat /\ DOMAIN s = 1 .. Len(s) /\ Len(t) \in Nat /\ DOMAIN t = 1 .. Len(t)
      /\ DOMAIN r = 1 .. Len(r)
  BY <1>1, SeqFacts
<1>5. ToSet(r) \subseteq ToSet(s) \cup ToSet(t)
  <2> SUFFICES ASSUME NEW i \in 1 .. Len(r) PROVE r[i] \in ToSet(s) \cup ToSet(t)
    BY <1>4 DEF ToSet
  <2>1. i <= Len(s) => i \in DOMAIN s
    BY <1>3, <1>4
  <2>2. ~ (i <= Len(s)) => i - Len(s) \in DOMAIN t
    BY <1>3, <1>4
  <2>3. QED
    BY <1>3, <2>1, <2>2, SeqFacts
<1>6. ASSUME NEW i \in DOMAIN s PROVE s[i] \in ToSet(r)
  <2>1. i \in DOMAIN r /\ r[i] = s[i]
    BY <1>3, <1>4
  <2>2. QED
    BY <1>1, <2>1, SeqFacts
<1>7. ASSUME NEW i \in DOMAIN t PROVE t[i] \in ToSet(r)
  <2>1. i + Len(s) \in DOMAIN r /\ r[i + Len(s)] = t[i]
    BY <1>3, <1>4
  <2>2. QED
    BY <1>1, <2>1, SeqFacts
<1>8. ToSet(r) = ToSet(s) \cup ToSet(t)
  BY <1>5, <1>6, <1>7, SeqFacts
<1>9. Produced(r) = Produced(s) \cup Produced(t)
  BY <1>8, ProducedFacts
<1>10. QED
  BY <1>1, <1>8, <1>9 DEF r

\* The second of two sequences may use what the first binds.
LEMMA GetsConcat ==
  ASSUME NEW f, NEW s, NEW t, NEW B, IsSeq(s), IsSeq(t),
         Gets(f, s, B), Gets(f, t, B \cup Produced(s))
  PROVE  Gets(f, s \o t, B)
<1> DEFINE r == s \o t
<1>1. s \in Seq(ToSet(s) \cup ToSet(t)) /\ t \in Seq(ToSet(s) \cup ToSet(t))
  BY SeqMonotonic DEF IsSeq
<1>2. /\ Len(r) = Len(s) + Len(t)
      /\ \A i \in 1 .. Len(r) : r[i] = IF i <= Len(s) THEN s[i] ELSE t[i - Len(s)]
  BY <1>1, ConcatProperties
<1>3. IsSeq(r)
  BY ConcatIsSeq
<1> HIDE DEF r
<1>4. /\ Len(s) \in Nat /\ DOMAIN s = 1 .. Len(s) /\ Len(t) \in Nat /\ DOMAIN t = 1 .. Len(t)
      /\ DOMAIN r = 1 .. Len(r)
  BY <1>3, SeqFacts
<1>5. ASSUME NEW i \in DOMAIN r, NEW x \in Needs(f, r[i]) PROVE x \in B \cup Before(r, i)
  <2>1. CASE i <= Len(s)
    <3>1. i \in DOMAIN s /\ r[i] = s[i]
      BY <1>2, <1>4, <2>1
    <3>2. x \in B \cup Before(s, i)
      BY <1>5, <3>1 DEF Gets
    <3>3. \A j \in 1 .. i - 1 : s[j] = r[j]
      BY <1>2, <1>4, <2>1
    <3>4. QED
      BY <3>2, <3>3, BeforeFacts
  <2>2. CASE ~ (i <= Len(s))
    <3> DEFINE k == i - Len(s)
    <3>1. k \in DOMAIN t /\ r[i] = t[k]
      BY <1>2, <1>4, <2>2
    <3>2. x \in (B \cup Produced(s)) \cup Before(t, k)
      BY <1>5, <3>1 DEF Gets
    <3>3. CASE x \in Produced(s)
      <4>1. PICK j \in DOMAIN s : x \in ToSet(s[j].outs)
        BY <3>3, ProducedFacts
      <4>2. j \in 1 .. i - 1 /\ r[j] = s[j]
        BY <1>2, <1>4, <2>2
      <4>3. QED
        BY <4>1, <4>2, BeforeFacts
    <3>4. CASE x \in Before(t, k)
      <4>1. PICK j \in 1 .. k - 1 : x \in ToSet(t[j].outs)
        BY <3>4, BeforeFacts
      <4>2. i \in Nat /\ i <= Len(s) + Len(t) /\ j \in Nat /\ 1 <= j /\ j < i - Len(s)
        BY <1>2, <1>4, <2>2
      <4>3. j + Len(s) \in 1 .. i - 1 /\ j + Len(s) \in 1 .. Len(r)
        BY <1>2, <1>4, <4>2
      <4>4. ~ (j + Len(s) <= Len(s)) /\ (j + Len(s)) - Len(s) = j
        BY <1>4, <4>2
      <4>5. r[j + Len(s)] = t[j]
        BY <1>2, <4>3, <4>4
      <4>6. QED
        BY <4>1, <4>3, <4>5, BeforeFacts
    <3>5. QED
      BY <3>2, <3>3, <3>4
  <2>3. QED
    BY <2>1, <2>2
<1>6. QED
  BY <1>5 DEF Gets, r

\* More names bound do no harm.
LEMMA GetsMore ==
  ASSUME NEW f, NEW s, NEW B, NEW C, B \subseteq C, Gets(f, s, B)
  PROVE  Gets(f, s, C)
BY DEF Gets

\* Programs put together from pieces, each of which finds what it needs in the
\* pieces before it.
LEMMA FlattenGets ==
  ASSUME NEW f, NEW B, NEW S, NEW seqs \in Seq(Seq(S)),
         \A i \in DOMAIN seqs :
           Gets(f, seqs[i], B \cup UNION {Produced(seqs[j]) : j \in 1 .. i - 1})
  PROVE  /\ IsSeq(FlattenSeq(seqs)) /\ Gets(f, FlattenSeq(seqs), B)
         /\ ToSet(FlattenSeq(seqs)) = UNION {ToSet(seqs[i]) : i \in DOMAIN seqs}
<1>1. CASE seqs = <<>>
  BY <1>1, FlattenEmpty, GetsEmpty
<1>2. CASE seqs # <<>>
  <2>1. PICK flat \in [1 .. Len(seqs) -> Seq(S)] :
          /\ FlattenSeq(seqs) = flat[Len(seqs)]
          /\ \A i \in 1 .. Len(seqs) : flat[i] = IF i = 1 THEN seqs[i] ELSE flat[i-1] \o seqs[i]
    BY <1>2, FlattenUnfold
  <2>2. /\ Len(seqs) \in Nat \ {0} /\ DOMAIN seqs = 1 .. Len(seqs)
        /\ \A i \in 1 .. Len(seqs) : IsSeq(seqs[i]) /\ IsSeq(flat[i])
    <3>1. Len(seqs) \in Nat \ {0} /\ DOMAIN seqs = 1 .. Len(seqs)
      BY <1>2, EmptySeq, LenProperties
    <3>2. \A i \in 1 .. Len(seqs) : seqs[i] \in Seq(S) /\ flat[i] \in Seq(S)
      BY <3>1, LenProperties
    <3>3. QED
      BY <3>1, <3>2, SeqIsSeq
  <2> DEFINE Good(k) == /\ Gets(f, flat[k], B)
                        /\ ToSet(flat[k]) = UNION {ToSet(seqs[i]) : i \in 1 .. k}
             Bad == {k \in 1 .. Len(seqs) : ~ Good(k)}
  <2>3. Bad = {}
    <3> SUFFICES ASSUME Bad # {} PROVE FALSE
      OBVIOUS
    <3>1. Bad \subseteq Nat
      BY <2>2
    <3>2. PICK k \in Bad : \A j \in Bad : k <= j
      BY <3>1, Least
    <3>3. k \in 1 .. Len(seqs) /\ k \in Nat /\ ~ Good(k)
      BY <3>1
    <3>4. k # 1 => k - 1 \in 1 .. Len(seqs) /\ Good(k - 1)
      <4> SUFFICES ASSUME k # 1 PROVE k - 1 \in 1 .. Len(seqs) /\ Good(k - 1)
        OBVIOUS
      <4>1. k - 1 \in 1 .. Len(seqs) /\ ~ (k <= k - 1)
        BY <2>2, <3>3
      <4>2. k - 1 \notin Bad
        BY <3>2, <4>1
      <4> HIDE DEF Good
      <4>3. QED
        BY <4>1, <4>2
    <3> HIDE DEF Bad
    <3>5. CASE k = 1
      <4>1. flat[1] = seqs[1] /\ Gets(f, seqs[1], B \cup UNION {Produced(seqs[j]) : j \in 1 .. 0})
        <5>1. 1 \in 1 .. Len(seqs) /\ 1 \in DOMAIN seqs
          BY <2>2
        <5>2. flat[1] = seqs[1]
          BY <2>1, <5>1
        <5>3. 1 - 1 = 0
          OBVIOUS
        <5>4. QED
          BY <5>1, <5>2, <5>3
      <4>2. B \cup UNION {Produced(seqs[j]) : j \in 1 .. 0} = B
        OBVIOUS
      <4>3. UNION {ToSet(seqs[i]) : i \in 1 .. 1} = ToSet(seqs[1])
        OBVIOUS
      <4>4. QED
        BY <3>3, <3>5, <4>1, <4>2, <4>3
    <3>6. CASE k # 1
      <4> DEFINE j == k - 1
      <4>1. j \in 1 .. Len(seqs) /\ Good(j) /\ flat[k] = flat[j] \o seqs[k]
        BY <2>1, <3>3, <3>4, <3>6
      <4>2. Produced(flat[j]) = UNION {Produced(seqs[i]) : i \in 1 .. j}
        <5>1. ToSet(flat[j]) = UNION {ToSet(seqs[i]) : i \in 1 .. j}
          BY <4>1
        <5>2. QED
          BY <5>1, ProducedFacts
      <4>3. Gets(f, flat[j], B) /\ Gets(f, seqs[k], B \cup Produced(flat[j]))
        BY <2>2, <3>3, <4>1, <4>2
      <4>4. Gets(f, flat[k], B)
        BY <2>2, <3>3, <4>1, <4>3, GetsConcat
      <4>5. ToSet(flat[k]) = ToSet(flat[j]) \cup ToSet(seqs[k])
        BY <2>2, <3>3, <4>1, ConcatFacts
      <4>6. ToSet(flat[j]) \cup ToSet(seqs[k]) = UNION {ToSet(seqs[i]) : i \in 1 .. k}
        <5>1. ToSet(flat[j]) = UNION {ToSet(seqs[i]) : i \in 1 .. j}
          BY <4>1
        <5>2. 1 .. k = (1 .. j) \cup {k}
          BY <3>3, <3>6
        <5>3. QED
          BY <5>1, <5>2
      <4>7. QED
        BY <3>3, <4>4, <4>5, <4>6
    <3>7. QED
      BY <3>5, <3>6
  <2>4. Len(seqs) \in 1 .. Len(seqs) /\ Good(Len(seqs))
    <3>1. Len(seqs) \in 1 .. Len(seqs)
      BY <2>2
    <3>2. \A k \in 1 .. Len(seqs) : k \notin Bad => Good(k)
      OBVIOUS
    <3> HIDE DEF Bad, Good
    <3>3. QED
      BY <2>3, <3>1, <3>2
  <2>5. QED
    BY <2>1, <2>2, <2>4
<1>3. QED
  BY <1>1, <1>2

\* A set of positions has a first one.
LEMMA FirstFacts ==
  ASSUME NEW D, D \subseteq Nat, D # {}
  PROVE  First(D) \in D /\ \A y \in D : First(D) <= y
<1>1. \E x \in D : \A y \in D : x <= y
  BY Least
<1>2. QED
  BY <1>1, Zenon DEF First

\* A set of positions has a last one.
LEMMA LatestFacts ==
  ASSUME NEW n \in Nat, NEW D, D \subseteq 1 .. n, D # {}
  PROVE  Latest(D) \in D
<1> DEFINE E == {n - y : y \in D}
<1>1. E \subseteq Nat /\ E # {}
  <2>1. \A y \in D : n - y \in Nat
    OBVIOUS
  <2>2. PICK y \in D : TRUE
    OBVIOUS
  <2>3. n - y \in E
    OBVIOUS
  <2>4. QED
    BY <2>1, <2>3
<1>2. PICK e \in E : \A y \in E : e <= y
  BY <1>1, Least
<1>3. PICK x \in D : e = n - x
  BY <1>2
<1>4. \A y \in D : y <= x
  <2> SUFFICES ASSUME NEW y \in D PROVE y <= x
    OBVIOUS
  <2>1. n - y \in E
    OBVIOUS
  <2>2. n - x <= n - y
    BY <1>2, <1>3, <2>1
  <2>3. x \in Nat /\ y \in Nat
    OBVIOUS
  <2>4. QED
    BY <2>2, <2>3
<1>5. \E z \in D : \A y \in D : y <= z
  BY <1>4
<1>6. QED
  BY <1>5, Zenon DEF Latest

\* What a splice keeps, in an order in which everything still runs.
Spliced(f, nodes, inputs, outputs, drop, new, rest) ==
  /\ Splice(Prog(nodes, inputs, outputs), drop, new) = Prog(rest, inputs, outputs)
  /\ IsSeq(rest) /\ Gets(f, rest, inputs)
  /\ \A n : n \in ToSet(rest) <=> n \in ToSet(new) \/ \E i \in DOMAIN nodes \ drop : n = nodes[i]

LEMMA SpliceGets ==
  ASSUME NEW f, NEW nodes, NEW inputs, NEW outputs, NEW drop, NEW new,
         IsSeq(nodes), IsSeq(new), drop \subseteq DOMAIN nodes, drop # {},
         Gets(f, nodes, inputs),
         Gets(f, new, inputs \cup Before(nodes, First(drop))),
         \A i \in DOMAIN nodes \ drop, j \in drop :
           Needs(f, nodes[i]) \cap ToSet(nodes[j].outs) \subseteq Produced(new)
  PROVE  \E rest : Spliced(f, nodes, inputs, outputs, drop, new, rest)
<1> DEFINE p == Prog(nodes, inputs, outputs)
           a == First(drop)
           pieces == [i \in DOMAIN nodes |->
                        IF i = a THEN new ELSE IF i \in drop THEN <<>> ELSE <<nodes[i]>>]
           S == ToSet(new) \cup ToSet(nodes)
           B == inputs
<1>1. Len(nodes) \in Nat /\ DOMAIN nodes = 1 .. Len(nodes)
  BY SeqFacts
<1>2. drop \subseteq Nat
  BY <1>1
<1>3. a \in drop /\ \A y \in drop : a <= y
  BY <1>2, FirstFacts
<1>4. Splice(p, drop, new) = Prog(FlattenSeq(pieces), inputs, outputs)
  BY DEF Splice, Prog
<1> HIDE DEF a
<1>5. ASSUME NEW i \in DOMAIN nodes PROVE pieces[i] \in Seq(S)
  <2>1. new \in Seq(S)
    <3>1. ToSet(new) \subseteq S
      OBVIOUS
    <3>2. QED
      BY <3>1, SeqMonotonic DEF IsSeq
  <2>2. <<nodes[i]>> \in Seq(S) /\ <<>> \in Seq(S)
    <3>1. nodes[i] \in S
      BY SeqFacts
    <3> HIDE DEF S
    <3>2. QED
      BY <3>1
  <2>3. QED
    BY <2>1, <2>2
<1>6. pieces \in Seq(Seq(S))
  <2>1. pieces \in [1 .. Len(nodes) -> Seq(S)]
    BY <1>1, <1>5
  <2>2. QED
    BY <1>1, <2>1, SeqDef
<1>7. /\ DOMAIN pieces = DOMAIN nodes /\ pieces[a] = new
      /\ \A i \in drop : i # a => pieces[i] = <<>>
      /\ \A i \in DOMAIN nodes \ drop : pieces[i] = <<nodes[i]>>
  BY <1>3
<1> HIDE DEF pieces
<1>8. ASSUME NEW i \in DOMAIN nodes \ drop
      PROVE  ToSet(pieces[i]) = {nodes[i]} /\ Produced(pieces[i]) = ToSet(nodes[i].outs)
  <2> DEFINE n == nodes[i]
  <2>1. Needs(f, n) \subseteq Needs(f, n)
    OBVIOUS
  <2>2. ToSet(<<n>>) = {n} /\ Produced(<<n>>) = ToSet(n.outs)
    BY <2>1, GetsOne
  <2>3. QED
    BY <1>7, <2>2
<1>9. ASSUME NEW i \in DOMAIN nodes
      PROVE  Gets(f, pieces[i], B \cup UNION {Produced(pieces[j]) : j \in 1 .. i - 1})
  <2> DEFINE C == B \cup UNION {Produced(pieces[j]) : j \in 1 .. i - 1}
  <2>1. CASE i = a
    <3>1. Before(nodes, a) \subseteq UNION {Produced(pieces[j]) : j \in 1 .. i - 1}
      <4> SUFFICES ASSUME NEW x \in Before(nodes, a)
                   PROVE  x \in UNION {Produced(pieces[j]) : j \in 1 .. i - 1}
        OBVIOUS
      <4>1. PICK j \in 1 .. a - 1 : x \in ToSet(nodes[j].outs)
        BY BeforeFacts
      <4>2. j \in DOMAIN nodes \ drop
        BY <1>1, <1>3
      <4>3. x \in Produced(pieces[j])
        BY <1>8, <4>1, <4>2
      <4>4. QED
        BY <2>1, <4>3
    <3>2. inputs \cup Before(nodes, First(drop)) \subseteq C
      BY <3>1 DEF a
    <3> HIDE DEF C
    <3>3. QED
      BY <1>7, <2>1, <3>2, GetsMore DEF C
  <2>2. CASE i \in drop /\ i # a
    BY <1>7, <2>2, GetsEmpty
  <2>3. CASE i \notin drop
    <3> DEFINE n == nodes[i]
    <3>1. Needs(f, n) \subseteq C
      <4> SUFFICES ASSUME NEW x \in Needs(f, n) PROVE x \in C
        OBVIOUS
      <4>1. x \in inputs \cup Before(nodes, i)
        BY DEF Gets
      <4>2. CASE x \in Before(nodes, i)
        <5>1. PICK j \in 1 .. i - 1 : x \in ToSet(nodes[j].outs)
          BY <4>2, BeforeFacts
        <5>2. j \in DOMAIN nodes
          BY <1>1
        <5>3. CASE j \notin drop
          <6>1. x \in Produced(pieces[j])
            BY <1>8, <5>1, <5>2, <5>3
          <6>2. QED
            BY <5>1, <6>1
        <5>4. CASE j \in drop
          <6>1. a \in 1 .. i - 1
            <7>1. a <= j /\ a \in 1 .. Len(nodes) /\ j \in Nat /\ i \in Nat
              BY <1>1, <1>3, <5>4
            <7>2. QED
              BY <5>1, <7>1
          <6>2. x \in Produced(pieces[a])
            BY <1>7, <2>3, <5>1, <5>4
          <6>3. QED
            BY <6>1, <6>2
        <5>5. QED
          BY <5>3, <5>4
      <4>3. QED
        BY <4>1, <4>2
    <3>2. Gets(f, <<n>>, C)
      <4> HIDE DEF C
      <4>1. QED
        BY <3>1, GetsOne
    <3>3. QED
      BY <1>7, <2>3, <3>2
  <2>4. QED
    BY <2>1, <2>2, <2>3
<1>10. /\ IsSeq(FlattenSeq(pieces)) /\ Gets(f, FlattenSeq(pieces), B)
       /\ ToSet(FlattenSeq(pieces)) = UNION {ToSet(pieces[i]) : i \in DOMAIN pieces}
  BY <1>6, <1>7, <1>9, FlattenGets
<1>11. \A n : n \in UNION {ToSet(pieces[i]) : i \in DOMAIN pieces} <=>
               n \in ToSet(new) \/ \E i \in DOMAIN nodes \ drop : n = nodes[i]
  <2>1. \A i \in drop : i # a => ToSet(pieces[i]) = {}
    BY <1>7, GetsEmpty
  <2>2. a \in DOMAIN nodes /\ ToSet(pieces[a]) = ToSet(new)
    BY <1>3, <1>7
  <2>3. \A i \in DOMAIN nodes : i \in drop \/ i \in DOMAIN nodes \ drop
    OBVIOUS
  <2>4. QED
    BY <1>7, <1>8, <2>1, <2>2, <2>3
<1>12. QED
  BY <1>4, <1>10, <1>11 DEF Spliced

\* A program that runs in this sense is well formed.
LEMMA GetsWellFormed ==
  ASSUME NEW f, NEW nodes, NEW inputs, NEW outputs, IsSeq(nodes),
         Gets(f, nodes, inputs), outputs \subseteq inputs \cup Produced(nodes)
  PROVE  WellFormed(Prog(nodes, inputs, outputs))
<1> DEFINE p == Prog(nodes, inputs, outputs)
<1>1. p.nodes = nodes /\ p.inputs = inputs /\ p.outputs = outputs
  BY DEF Prog
<1> HIDE DEF p
<1>2. Len(nodes) \in Nat /\ DOMAIN nodes = 1 .. Len(nodes)
  BY SeqFacts
<1>3. ASSUME NEW i \in DOMAIN nodes
      PROVE  ToSet(nodes[i].ins) \subseteq inputs \cup Produced(SubSeq(nodes, 1, i - 1))
  <2> DEFINE s == SubSeq(nodes, 1, i - 1)
  <2>1. i \in 1 .. Len(nodes)
    BY <1>2
  <2>2. Len(s) = i - 1 /\ \A j \in 1 .. i - 1 : s[j] = nodes[j]
    <3>1. nodes \in Seq(ToSet(nodes)) /\ 1 \in 1 .. Len(nodes) + 1 /\ i - 1 \in 1 - 1 .. Len(nodes)
      BY <1>2, <2>1 DEF IsSeq
    <3>2. QED
      BY <2>1, <3>1, <1>2, SubSeqProperties
  <2>3. DOMAIN s = 1 .. i - 1
    <3>1. s \in Seq(ToSet(nodes))
      BY <1>2, <2>1, SubSeqProperties DEF IsSeq
    <3>2. QED
      BY <2>2, <3>1, LenProperties
  <2> HIDE DEF s
  <2>4. Before(nodes, i) \subseteq Produced(s)
    BY <2>2, <2>3, ProducedFacts, BeforeFacts
  <2>5. ToSet(nodes[i].ins) \subseteq inputs \cup Before(nodes, i)
    BY DEF Gets, Needs
  <2>6. QED
    BY <2>4, <2>5 DEF s
<1>4. QED
  BY <1>1, <1>3 DEF WellFormed, p

\* The levers change nothing of what is read and bound.
LEMMA AnnotatedGets ==
  ASSUME NEW f, NEW nodes, NEW inputs, NEW outputs, NEW pins, IsSeq(nodes)
  PROVE  \E rest : /\ Annotated(Prog(nodes, inputs, outputs), pins) = Prog(rest, inputs, outputs)
                   /\ IsSeq(rest) /\ DOMAIN rest = DOMAIN nodes
                   /\ \A i \in DOMAIN nodes :
                        /\ rest[i].kind = nodes[i].kind /\ rest[i].op = nodes[i].op
                        /\ rest[i].ins = nodes[i].ins /\ rest[i].outs = nodes[i].outs
<1> DEFINE rest == [i \in DOMAIN nodes |->
                      IF nodes[i].kind = "einsum" THEN Pinned(nodes[i], pins[i]) ELSE nodes[i]]
<1>1. Annotated(Prog(nodes, inputs, outputs), pins) = Prog(rest, inputs, outputs)
  BY DEF Annotated, Prog
<1>2. ASSUME NEW n, NEW pin
      PROVE  /\ Pinned(n, pin).kind = n.kind /\ Pinned(n, pin).op = n.op
             /\ Pinned(n, pin).ins = n.ins /\ Pinned(n, pin).outs = n.outs
  BY DEF Pinned, Node
<1>3. /\ DOMAIN rest = DOMAIN nodes
      /\ \A i \in DOMAIN nodes : rest[i] = nodes[i] \/ rest[i] = Pinned(nodes[i], pins[i])
  OBVIOUS
<1>4. Len(nodes) \in Nat /\ DOMAIN nodes = 1 .. Len(nodes)
  BY SeqFacts
<1>5. IsSeq(rest)
  <2>1. rest \in [1 .. Len(nodes) -> {rest[i] : i \in 1 .. Len(nodes)}]
    BY <1>4
  <2> HIDE DEF rest
  <2>2. rest \in Seq({rest[i] : i \in 1 .. Len(nodes)})
    BY <1>4, <2>1, SeqDef
  <2>3. QED
    BY <2>2, SeqIsSeq
<1>6. \A i \in DOMAIN nodes :
         /\ rest[i].kind = nodes[i].kind /\ rest[i].op = nodes[i].op
         /\ rest[i].ins = nodes[i].ins /\ rest[i].outs = nodes[i].outs
  <2> HIDE DEF rest
  <2>1. QED
    BY <1>2, <1>3
<1>7. QED
  BY <1>1, <1>3, <1>5, <1>6

-----------------------------------------------------------------------------
(* Rewrites: the epilogue of a score.                                      *)

\* Each of the nodes of an epilogue is the only reader of the one before it.
Linked(p, k, c) ==
  /\ c \in DOMAIN p.nodes /\ Consumers(p, p.nodes[k].outs[1]) = {c} /\ Absorbable(p.nodes[c])

\* A tensor with a single consumer has the one TheConsumer names.
LEMMA SingleFacts ==
  ASSUME NEW p, NEW x, IsSeq(p.nodes), SingleConsumer(p, x)
  PROVE  /\ Consumers(p, x) = {TheConsumer(p, x)}
         /\ TheConsumer(p, x) \in DOMAIN p.nodes
         /\ x \in ToSet(p.nodes[TheConsumer(p, x)].ins)
<1>1. Consumers(p, x) \subseteq 1 .. Len(p.nodes) /\ Len(p.nodes) \in Nat
  BY SeqFacts DEF Consumers
<1>2. IsFiniteSet(1 .. Len(p.nodes))
  BY <1>1, FS_Interval
<1>3. IsFiniteSet(Consumers(p, x))
  BY <1>1, <1>2, FS_Subset
<1>4. PICK c : Consumers(p, x) = {c}
  BY <1>3, FS_Singleton DEF SingleConsumer
<1>5. TheConsumer(p, x) = c
  BY <1>4 DEF TheConsumer, Only
<1>6. QED
  BY <1>4, <1>5 DEF Consumers

\* Epilogue chooses a function that satisfies its recursion: there is one.
LEMMA ChainRec ==
  ASSUME NEW p, IsSeq(p.nodes)
  PROVE  \E chain :
    chain = [left \in 0 .. Len(p.nodes) |->
               [k \in DOMAIN p.nodes |->
                  IF /\ left > 0 /\ SingleConsumer(p, p.nodes[k].outs[1])
                     /\ Absorbable(p.nodes[TheConsumer(p, p.nodes[k].outs[1])])
                  THEN <<TheConsumer(p, p.nodes[k].outs[1])>>
                         \o chain[left - 1][TheConsumer(p, p.nodes[k].outs[1])]
                  ELSE <<>>]]
<1> DEFINE N == Len(p.nodes)
           D == DOMAIN p.nodes
           succ(k) == TheConsumer(p, p.nodes[k].outs[1])
           More(k) == SingleConsumer(p, p.nodes[k].outs[1]) /\ Absorbable(p.nodes[succ(k)])
           Body(l, g) == [k \in D |-> IF l > 0 /\ More(k) THEN <<succ(k)>> \o g[l-1][succ(k)] ELSE <<>>]
           Good(g, l) == \A x \in 0 .. l : g[x] = Body(x, g)
           Bad == {l \in 0 .. N : ~ \E g : Good(g, l)}
<1>1. N \in Nat
  BY SeqFacts
<1> HIDE DEF N, D, succ, More
<1>2. ASSUME NEW l, NEW g, NEW h, l > 0 => g[l-1] = h[l-1] PROVE Body(l, g) = Body(l, h)
  BY <1>2
<1> HIDE DEF Body
<1>3. Bad \subseteq Nat /\ \A l \in 0 .. N : l \in Bad <=> ~ \E g : Good(g, l)
  BY <1>1
<1>4. Bad \subseteq 0 .. N
  OBVIOUS
<1> HIDE DEF Bad
<1>5. Bad = {}
  <2> SUFFICES ASSUME Bad # {} PROVE FALSE
    OBVIOUS
  <2>1. PICK l \in Bad : \A j \in Bad : l <= j
    BY <1>3, Least
  <2>2. l \in 0 .. N /\ l \in Nat
    BY <1>1, <1>4
  <2>3. PICK g : l > 0 => Good(g, l - 1)
    <3>1. CASE l > 0
      <4>1. l - 1 \in 0 .. N /\ l - 1 \notin Bad
        BY <1>1, <2>1, <2>2, <3>1
      <4>2. QED
        BY <1>3, <4>1
    <3>2. QED
      BY <3>1
  <2> DEFINE h == [x \in 0 .. l |-> IF x = l THEN Body(l, g) ELSE g[x]]
  <2>4. ASSUME NEW x \in 0 .. l PROVE h[x] = Body(x, h)
    <3>1. CASE x = l
      <4>1. l > 0 => l - 1 \in 0 .. l /\ l - 1 # l
        BY <2>2
      <4>2. l > 0 => g[l-1] = h[l-1]
        BY <4>1
      <4>3. Body(l, g) = Body(l, h)
        <5> HIDE DEF h
        <5>1. QED
          BY <1>2, <4>2
      <4>4. h[l] = Body(l, g)
        BY <2>2
      <4>5. QED
        BY <3>1, <4>3, <4>4
    <3>2. CASE x # l
      <4>1. x \in 0 .. l - 1 /\ l > 0 /\ x \in Nat
        BY <2>2, <3>2
      <4>2. h[x] = g[x] /\ g[x] = Body(x, g)
        BY <2>3, <3>2, <4>1
      <4>3. x > 0 => x - 1 \in 0 .. l /\ x - 1 # l
        BY <2>2, <4>1
      <4>4. x > 0 => g[x-1] = h[x-1]
        BY <4>3
      <4>5. Body(x, g) = Body(x, h)
        <5> HIDE DEF h
        <5>1. QED
          BY <1>2, <4>4
      <4>6. QED
        BY <4>2, <4>5
    <3>3. QED
      BY <3>1, <3>2
  <2>5. Good(h, l)
    <3> HIDE DEF h
    <3>1. QED
      BY <2>4
  <2>6. QED
    BY <1>3, <2>2, <2>5
<1>6. PICK g : Good(g, N)
  BY <1>1, <1>5, <1>3
<1> DEFINE chain == [x \in 0 .. N |-> g[x]]
<1>7. ASSUME NEW x \in 0 .. N PROVE chain[x] = Body(x, chain)
  <2>1. x > 0 => x - 1 \in 0 .. N
    BY <1>1
  <2>2. x > 0 => g[x-1] = chain[x-1]
    BY <2>1
  <2>3. Body(x, g) = Body(x, chain)
    <3> HIDE DEF chain
    <3>1. QED
      BY <1>2, <2>2
  <2>4. QED
    BY <1>6, <2>3
<1>8. chain = [x \in 0 .. N |-> Body(x, chain)]
  <2>1. chain = [x \in 0 .. N |-> chain[x]]
    OBVIOUS
  <2> HIDE DEF chain
  <2>2. QED
    BY <1>7, <2>1
<1> HIDE DEF chain
<1> DEFINE Recurs(h) ==
             h = [left \in 0 .. Len(p.nodes) |->
               [k \in DOMAIN p.nodes |->
                  IF /\ left > 0 /\ SingleConsumer(p, p.nodes[k].outs[1])
                     /\ Absorbable(p.nodes[TheConsumer(p, p.nodes[k].outs[1])])
                  THEN <<TheConsumer(p, p.nodes[k].outs[1])>>
                         \o h[left - 1][TheConsumer(p, p.nodes[k].outs[1])]
                  ELSE <<>>]]
<1>9. Recurs(chain)
  <2>1. chain = [x \in 0 .. N |->
                  [k \in D |-> IF x > 0 /\ More(k) THEN <<succ(k)>> \o chain[x-1][succ(k)] ELSE <<>>]]
    BY <1>8 DEF Body
  <2>2. chain = [x \in 0 .. N |->
                  [k \in D |-> IF /\ x > 0 /\ SingleConsumer(p, p.nodes[k].outs[1])
                                  /\ Absorbable(p.nodes[succ(k)])
                               THEN <<succ(k)>> \o chain[x-1][succ(k)] ELSE <<>>]]
    BY <2>1 DEF More
  <2>3. QED
    BY <2>2, Zenon DEF N, D, succ
<1>10. \E h : Recurs(h)
  <2> HIDE DEF Recurs
  <2>1. QED
    BY <1>9
<1>11. QED
  BY <1>10

\* An epilogue is a chain of nodes, each the only reader of the one before it.
LEMMA EpilogueShape ==
  ASSUME NEW p, IsSeq(p.nodes), NEW i \in DOMAIN p.nodes
  PROVE  /\ Epilogue(p, i) \in Seq(DOMAIN p.nodes)
         /\ \A j \in 1 .. Len(Epilogue(p, i)) :
              Linked(p, IF j = 1 THEN i ELSE Epilogue(p, i)[j-1], Epilogue(p, i)[j])
<1> DEFINE N == Len(p.nodes)
           D == DOMAIN p.nodes
           succ(k) == TheConsumer(p, p.nodes[k].outs[1])
           More(k) == SingleConsumer(p, p.nodes[k].outs[1]) /\ Absorbable(p.nodes[succ(k)])
           Recurs(g) == g = [left \in 0 .. Len(p.nodes) |->
               [k \in DOMAIN p.nodes |->
                  IF /\ left > 0 /\ SingleConsumer(p, p.nodes[k].outs[1])
                     /\ Absorbable(p.nodes[TheConsumer(p, p.nodes[k].outs[1])])
                  THEN <<TheConsumer(p, p.nodes[k].outs[1])>>
                         \o g[left - 1][TheConsumer(p, p.nodes[k].outs[1])]
                  ELSE <<>>]]
           chain == CHOOSE g : Recurs(g)
<1>1. Epilogue(p, i) = chain[N][i]
  BY Zenon DEF Epilogue
<1>2. Recurs(chain)
  <2>1. \E g : Recurs(g)
    BY ChainRec
  <2> HIDE DEF Recurs
  <2>2. QED
    BY <2>1
<1> HIDE DEF chain
<1>3. \A left \in 0 .. N, k \in D :
        chain[left][k] = IF left > 0 /\ More(k) THEN <<succ(k)>> \o chain[left-1][succ(k)] ELSE <<>>
  <2>1. \A left \in 0 .. N : chain[left] =
               [k \in DOMAIN p.nodes |->
                  IF /\ left > 0 /\ SingleConsumer(p, p.nodes[k].outs[1])
                     /\ Absorbable(p.nodes[TheConsumer(p, p.nodes[k].outs[1])])
                  THEN <<TheConsumer(p, p.nodes[k].outs[1])>>
                         \o chain[left - 1][TheConsumer(p, p.nodes[k].outs[1])]
                  ELSE <<>>]
    BY <1>2
  <2>2. QED
    BY <2>1
<1>4. \A k \in D : More(k) => succ(k) \in D /\ Linked(p, k, succ(k))
  BY SingleFacts DEF Linked
<1>5. N \in Nat
  BY SeqFacts
<1> HIDE DEF N, D, succ, More, Recurs
<1> DEFINE Shape(k, E) == /\ E \in Seq(D)
                          /\ \A j \in 1 .. Len(E) : Linked(p, IF j = 1 THEN k ELSE E[j-1], E[j])
<1>6. ASSUME NEW k \in D, NEW c \in D, NEW E, Linked(p, k, c), Shape(c, E)
      PROVE  Shape(k, <<c>> \o E)
  <2> DEFINE F == <<c>> \o E
  <2>1. <<c>> \in Seq(D) /\ E \in Seq(D)
    BY <1>6
  <2>2. F \in Seq(D) /\ Len(E) \in Nat /\ Len(F) = 1 + Len(E) /\ F[1] = c
        /\ \A j \in 2 .. Len(F) : F[j] = E[j-1]
    BY <2>1, ConcatProperties, LenProperties
  <2> HIDE DEF F
  <2>3. ASSUME NEW j \in 1 .. Len(F) PROVE Linked(p, IF j = 1 THEN k ELSE F[j-1], F[j])
    <3>1. CASE j = 1
      BY <1>6, <2>2, <3>1
    <3>2. CASE j = 2
      <4>1. 1 \in 1 .. Len(E) /\ F[2] = E[1] /\ F[2-1] = c
        BY <2>2, <3>2
      <4>2. Linked(p, c, E[1])
        BY <1>6, <4>1
      <4>3. QED
        BY <3>2, <4>1, <4>2
    <3>3. CASE j # 1 /\ j # 2
      <4>1. /\ j - 1 \in 1 .. Len(E) /\ j - 1 # 1 /\ F[j] = E[j-1] /\ j - 1 \in 2 .. Len(F)
            /\ F[j-1] = E[(j-1)-1]
        BY <2>2, <3>3
      <4>2. Linked(p, E[(j-1)-1], E[j-1])
        BY <1>6, <4>1
      <4>3. QED
        BY <3>3, <4>1, <4>2
    <3>4. QED
      BY <3>1, <3>2, <3>3
  <2>4. QED
    BY <2>2, <2>3 DEF F
<1>7. \A k : Shape(k, <<>>)
  OBVIOUS
<1> HIDE DEF Shape
<1> DEFINE Bad == {l \in 0 .. N : ~ \A k \in D : Shape(k, chain[l][k])}
<1>8. Bad = {}
  <2> SUFFICES ASSUME Bad # {} PROVE FALSE
    OBVIOUS
  <2>1. Bad \subseteq Nat
    BY <1>5
  <2>2. PICK l \in Bad : \A j \in Bad : l <= j
    BY <2>1, Least
  <2>3. l \in 0 .. N /\ ~ \A k \in D : Shape(k, chain[l][k])
    OBVIOUS
  <2>4. l > 0 => l - 1 \in 0 .. N /\ \A k \in D : Shape(k, chain[l-1][k])
    BY <1>5, <2>1, <2>2, <2>3
  <2> HIDE DEF Bad
  <2>5. ASSUME NEW k \in D PROVE Shape(k, chain[l][k])
    <3>1. CASE l > 0 /\ More(k)
      <4>1. chain[l][k] = <<succ(k)>> \o chain[l-1][succ(k)]
        BY <1>3, <2>3, <3>1
      <4>2. succ(k) \in D /\ Linked(p, k, succ(k)) /\ Shape(succ(k), chain[l-1][succ(k)])
        BY <1>4, <2>4, <3>1
      <4>3. QED
        BY <1>6, <4>1, <4>2
    <3>2. CASE ~ (l > 0 /\ More(k))
      <4>1. chain[l][k] = <<>>
        BY <1>3, <2>3, <3>2
      <4>2. QED
        BY <1>7, <4>1
    <3>3. QED
      BY <3>1, <3>2
  <2>6. QED
    BY <2>3, <2>5
<1>9. N \in 0 .. N /\ i \in D
  BY <1>5 DEF D
<1>10. Shape(i, chain[N][i])
  BY <1>8, <1>9
<1>11. QED
  BY <1>1, <1>10 DEF Shape, D

\* The last of a chain is the last of what follows its head.
LEMMA LastAfter ==
  ASSUME NEW S, NEW i \in S, NEW s \in Seq(S), Len(s) > 0
  PROVE  Last(<<i>> \o s) = s[Len(s)]
<1> DEFINE t == <<i>> \o s
<1>1. <<i>> \in Seq(S) /\ Len(<<i>>) = 1
  OBVIOUS
<1>2. Len(s) \in Nat /\ Len(t) = 1 + Len(s)
  BY <1>1, ConcatProperties, LenProperties
<1>3. 1 + Len(s) \in 1 .. Len(<<i>>) + Len(s) /\ ~ (1 + Len(s) <= Len(<<i>>))
  BY <1>1, <1>2
<1>4. t[1 + Len(s)] = s[(1 + Len(s)) - Len(<<i>>)]
  BY <1>1, <1>3, ConcatProperties
<1>5. (1 + Len(s)) - Len(<<i>>) = Len(s)
  BY <1>1, <1>2
<1> HIDE DEF t
<1>6. QED
  BY <1>2, <1>4, <1>5 DEF Last, t

\* The epilogues the rewrites look for.
LEMMA UnitOfTwo ==
  ASSUME NEW p, IsSeq(p.nodes), NEW i \in DOMAIN p.nodes, NEW op1, NEW op2,
         Ops(p, Epilogue(p, i)) = <<op1, op2>>
  PROVE  \E c1, c2 :
           /\ Linked(p, i, c1) /\ Linked(p, c1, c2)
           /\ p.nodes[c1].op = op1 /\ p.nodes[c2].op = op2
           /\ Epilogue(p, i) = <<c1, c2>>
           /\ BoundaryOut(p, i) = p.nodes[c2].outs[1] /\ Unit(p, i) = {i, c1, c2}
<1> DEFINE E == Epilogue(p, i)
<1>1. /\ E \in Seq(DOMAIN p.nodes)
      /\ \A j \in 1 .. Len(E) : Linked(p, IF j = 1 THEN i ELSE E[j-1], E[j])
  BY EpilogueShape
<1> HIDE DEF E
<1>2. [j \in DOMAIN E |-> p.nodes[E[j]].op] = <<op1, op2>>
  BY DEF Ops, E
<1>3. DOMAIN E = 1 .. 2 /\ p.nodes[E[1]].op = op1 /\ p.nodes[E[2]].op = op2
  <2>1. DOMAIN <<op1, op2>> = 1 .. 2 /\ <<op1, op2>>[1] = op1 /\ <<op1, op2>>[2] = op2
    OBVIOUS
  <2>2. DOMAIN [j \in DOMAIN E |-> p.nodes[E[j]].op] = DOMAIN E
    OBVIOUS
  <2>3. DOMAIN E = 1 .. 2
    BY <1>2, <2>1, <2>2
  <2>4. \A j \in 1 .. 2 : [k \in DOMAIN E |-> p.nodes[E[k]].op][j] = p.nodes[E[j]].op
    BY <2>3
  <2>5. QED
    BY <1>2, <2>1, <2>3, <2>4
<1>4. Len(E) = 2 /\ E = <<E[1], E[2]>>
  <2>1. Len(E) \in Nat /\ DOMAIN E = 1 .. Len(E)
    BY <1>1, LenProperties
  <2>2. Len(E) = 2
    BY <1>3, <2>1
  <2>3. QED
    BY <1>1, <2>2
<1>5. Linked(p, i, E[1]) /\ Linked(p, E[1], E[2])
  <2>1. 1 \in 1 .. Len(E) /\ 2 \in 1 .. Len(E) /\ 2 # 1 /\ 2 - 1 = 1
    BY <1>4
  <2>2. QED
    BY <1>1, <2>1
<1>6. Last(<<i>> \o E) = E[2]
  BY <1>1, <1>4, LastAfter
<1>7. {i} \cup ToSet(E) = {i, E[1], E[2]}
  BY <1>3 DEF ToSet
<1>8. QED
  BY <1>3, <1>4, <1>5, <1>6, <1>7 DEF E, BoundaryOut, Unit

\* The unit of an epilogue of three nodes: its positions, and what it binds.
LEMMA UnitOfThree ==
  ASSUME NEW p, IsSeq(p.nodes), NEW i \in DOMAIN p.nodes, NEW op1, NEW op2, NEW op3,
         Ops(p, Epilogue(p, i)) = <<op1, op2, op3>>
  PROVE  \E c1, c2, c3 :
           /\ Linked(p, i, c1) /\ Linked(p, c1, c2) /\ Linked(p, c2, c3)
           /\ p.nodes[c1].op = op1 /\ p.nodes[c2].op = op2 /\ p.nodes[c3].op = op3
           /\ BoundaryOut(p, i) = p.nodes[c3].outs[1] /\ Unit(p, i) = {i, c1, c2, c3}
<1> DEFINE E == Epilogue(p, i)
<1>1. /\ E \in Seq(DOMAIN p.nodes)
      /\ \A j \in 1 .. Len(E) : Linked(p, IF j = 1 THEN i ELSE E[j-1], E[j])
  BY EpilogueShape
<1> HIDE DEF E
<1>2. [j \in DOMAIN E |-> p.nodes[E[j]].op] = <<op1, op2, op3>>
  BY DEF Ops, E
<1>3. /\ DOMAIN E = 1 .. 3
      /\ p.nodes[E[1]].op = op1 /\ p.nodes[E[2]].op = op2 /\ p.nodes[E[3]].op = op3
  <2>1. /\ DOMAIN <<op1, op2, op3>> = 1 .. 3 /\ <<op1, op2, op3>>[1] = op1
        /\ <<op1, op2, op3>>[2] = op2 /\ <<op1, op2, op3>>[3] = op3
    OBVIOUS
  <2>2. DOMAIN [j \in DOMAIN E |-> p.nodes[E[j]].op] = DOMAIN E
    OBVIOUS
  <2>3. DOMAIN E = 1 .. 3
    BY <1>2, <2>1, <2>2
  <2>4. \A j \in 1 .. 3 : [k \in DOMAIN E |-> p.nodes[E[k]].op][j] = p.nodes[E[j]].op
    BY <2>3
  <2>5. QED
    BY <1>2, <2>1, <2>3, <2>4
<1>4. Len(E) = 3 /\ E = <<E[1], E[2], E[3]>>
  <2>1. Len(E) \in Nat /\ DOMAIN E = 1 .. Len(E)
    BY <1>1, LenProperties
  <2>2. Len(E) = 3
    BY <1>3, <2>1
  <2>3. QED
    BY <1>1, <2>2
<1>5. Linked(p, i, E[1]) /\ Linked(p, E[1], E[2]) /\ Linked(p, E[2], E[3])
  <2>1. /\ 1 \in 1 .. Len(E) /\ 2 \in 1 .. Len(E) /\ 3 \in 1 .. Len(E)
        /\ 2 # 1 /\ 2 - 1 = 1 /\ 3 # 1 /\ 3 - 1 = 2
    BY <1>4
  <2>2. QED
    BY <1>1, <2>1
<1>6. Last(<<i>> \o E) = E[3]
  <2>1. E \in Seq(DOMAIN p.nodes) /\ i \in DOMAIN p.nodes /\ Len(E) > 0 /\ Len(E) = 3
    BY <1>1, <1>4
  <2>2. Last(<<i>> \o E) = E[Len(E)]
    BY <2>1, LastAfter
  <2>3. QED
    BY <2>1, <2>2
<1>7. {i} \cup ToSet(E) = {i, E[1], E[2], E[3]}
  BY <1>3 DEF ToSet
<1>8. QED
  BY <1>3, <1>5, <1>6, <1>7 DEF E, BoundaryOut, Unit

-----------------------------------------------------------------------------
(* Rewrites: what every program of a forward satisfies.                    *)

\* What a node reads, and what makes it a score.
Reads(n, x) == x \in ToSet(n.ins)
IsScore(n) == Is(n, "einsum", "nid,njd->nij")

\* What every node of a program of each forward is, before and after any
\* rewrite: which scores there are, and who may read what an epilogue binds.
GdnNode(n) ==
  /\ IsScore(n) => \/ n.ins = <<"kF", "kF">> /\ n.outs[1] = "Araw"
                   \/ n.ins = <<"qF", "kF">> /\ n.outs[1] = "Aqk"
  /\ Is(n, "glue", "mul") => n.ins # <<"qF", "coef_ag">>
  /\ Reads(n, "Araw") => n.outs[1] = "Ag" /\ n.op # "tril"
  /\ Reads(n, "Ag") => n.outs[1] = "A_t"
  /\ Reads(n, "A_t") => n.outs[1] = "A"
  /\ Reads(n, "A") => n.kind = "opaque"
  /\ Reads(n, "Aqk") => n.outs[1] = "Aqk_g" /\ n.op # "tril"
  /\ Reads(n, "Aqk_g") => n.outs[1] = "Aqk_c"
  /\ Reads(n, "Aqk_c") => n.kind = "einsum" /\ n.outs[1] = "o_intra" /\ n.ins[2] = "vn_flat"

\* For KDA: both scores with their per-channel factors, and their epilogues.
KdaNode(n) ==
  /\ IsScore(n) => \/ n.ins = <<"a_op", "b_op">> /\ n.outs[1] = "Araw"
                   \/ n.ins = <<"q_eff", "k_eff">> /\ n.outs[1] = "Aqk"
  /\ "a_op" \in ToSet(n.outs) => n.ins = <<"kF", "coef_ag">>
  /\ Reads(n, "Araw") => n.op # "tril"
  /\ Reads(n, "Aqk") => n.outs[1] = "Aqk_t"
  /\ Reads(n, "Aqk_t") => n.outs[1] = "Aqk_c" /\ n.kind # "einsum"
  /\ Reads(n, "Aqk_c") => n.outs[1] = "o_intra" /\ n.ins[2] = "vn_flat"

\* For DeltaNet, whose scores no rewrite recognises: neither has the operands a
\* rewrite looks for.
DeltaNode(n) ==
  /\ IsScore(n) => \/ n.ins = <<"kbF", "kF">> /\ n.outs[1] = "Araw"
                   \/ n.ins = <<"qF", "kF">> /\ n.outs[1] = "Aqk_raw"
  /\ Is(n, "glue", "mul") => n.ins # <<"qF", "coef_ag">>
  /\ Reads(n, "Araw") => n.outs[1] = "A_t"
  /\ Reads(n, "A_t") => n.kind # "einsum"
  /\ Reads(n, "Aqk_raw") => n.outs[1] = "Aqk_t" /\ n.op = "tril"
  /\ Reads(n, "Aqk_t") => n.kind # "einsum"

\* For the linear family: no score reads kF or qF, or binds the output.
LinearNode(n) ==
  /\ n.outs = <<n.outs[1]>>
  /\ IsScore(n) => n.ins[1] \notin {"kF", "qF"} /\ n.outs[1] # "o"
  /\ Is(n, "glue", "mul") => n.ins # <<"qF", "coef_ag">>

\* Each node of a program of the forward, and with them the whole program.
NodeOK(f, n) ==
  /\ n.outs = <<n.outs[1]>> \/ n.outs = <<"h_out_k", "final_k">>
  /\ ToSet(n.outs) \cap ScanOuts(f) = {} => ToSet(n.ins) \cap ScanOuts(f) \subseteq {"h_flat", "vn_flat"}
  /\ f = "gdn" => GdnNode(n)
  /\ f = "kda" => KdaNode(n)
  /\ f = "deltanet" => DeltaNode(n)
  /\ f \notin {"gdn", "kda", "deltanet"} => LinearNode(n)

ProgramOK(f, p) ==
  /\ p = Prog(p.nodes, Forward(f).inputs, Forward(f).outputs)
  /\ IsSeq(p.nodes)
  /\ \A n \in ToSet(p.nodes) : NodeOK(f, n)
  /\ Gets(f, p.nodes, p.inputs)
  /\ p.outputs \subseteq p.inputs \cup Produced(p.nodes)

\* What the invariant of a program says of its parts.
LEMMA ProgFacts ==
  ASSUME NEW f, NEW p, ProgramOK(f, p)
  PROVE  /\ p.inputs = Forward(f).inputs /\ p.outputs = Forward(f).outputs
         /\ p = Prog(p.nodes, p.inputs, p.outputs)
         /\ IsSeq(p.nodes) /\ Len(p.nodes) \in Nat /\ DOMAIN p.nodes = 1 .. Len(p.nodes)
         /\ \A i \in DOMAIN p.nodes :
              /\ NodeOK(f, p.nodes[i])
              /\ Needs(f, p.nodes[i]) \subseteq p.inputs \cup Before(p.nodes, i)
<1>1. p = Prog(p.nodes, Forward(f).inputs, Forward(f).outputs)
  BY DEF ProgramOK
<1>2. p.inputs = Forward(f).inputs /\ p.outputs = Forward(f).outputs
  <2> DEFINE q == Prog(p.nodes, Forward(f).inputs, Forward(f).outputs)
  <2>1. q.inputs = Forward(f).inputs /\ q.outputs = Forward(f).outputs
    BY DEF Prog
  <2>2. p = q
    BY <1>1
  <2> HIDE DEF q
  <2>3. QED
    BY <2>1, <2>2
<1>3. QED
  BY <1>1, <1>2, SeqFacts DEF ProgramOK, Gets

\* A program whose nodes find what they need is well formed.
LEMMA ProgramWellFormed == ASSUME NEW f, NEW p, ProgramOK(f, p) PROVE WellFormed(p)
<1>1. WellFormed(Prog(p.nodes, p.inputs, p.outputs))
  BY GetsWellFormed DEF ProgramOK
<1>2. QED
  BY <1>1, ProgFacts

\* The fields of a program.
LEMMA ProgFields ==
  \A a, b, c : Prog(a, b, c).nodes = a /\ Prog(a, b, c).inputs = b /\ Prog(a, b, c).outputs = c
BY DEF Prog

\* A splice is safe when what it drops is bound again or read by nothing it keeps.
LEMMA SpliceOK ==
  ASSUME NEW f, NEW p, ProgramOK(f, p), NEW drop, drop \subseteq DOMAIN p.nodes, drop # {},
         NEW new, IsSeq(new), \A n \in ToSet(new) : NodeOK(f, n),
         Gets(f, new, p.inputs \cup Before(p.nodes, First(drop))),
         \A j \in drop : \A x \in ToSet(p.nodes[j].outs) :
           \/ x \in Produced(new)
           \/ /\ x \notin p.outputs
              /\ \A i \in DOMAIN p.nodes \ drop : x \notin Needs(f, p.nodes[i])
  PROVE  ProgramOK(f, Splice(p, drop, new))
<1>1. /\ p.inputs = Forward(f).inputs /\ p.outputs = Forward(f).outputs
      /\ p = Prog(p.nodes, p.inputs, p.outputs) /\ IsSeq(p.nodes)
  BY ProgFacts
<1> DEFINE nodes == p.nodes
           inputs == p.inputs
           outputs == p.outputs
<1>2. \A i \in DOMAIN nodes \ drop, j \in drop :
        Needs(f, nodes[i]) \cap ToSet(nodes[j].outs) \subseteq Produced(new)
  OBVIOUS
<1>3. Gets(f, nodes, inputs) /\ outputs \subseteq inputs \cup Produced(nodes)
      /\ \A n \in ToSet(nodes) : NodeOK(f, n)
  BY DEF ProgramOK
<1>4. /\ p = Prog(nodes, inputs, outputs) /\ IsSeq(nodes) /\ drop \subseteq DOMAIN nodes
      /\ Gets(f, new, inputs \cup Before(nodes, First(drop)))
  BY <1>1
<1> HIDE DEF nodes, inputs, outputs
<1>5. PICK rest : Spliced(f, nodes, inputs, outputs, drop, new, rest)
  BY <1>4, <1>2, <1>3, SpliceGets
<1>6. /\ Splice(Prog(nodes, inputs, outputs), drop, new) = Prog(rest, inputs, outputs)
      /\ IsSeq(rest) /\ Gets(f, rest, inputs)
      /\ \A n : n \in ToSet(rest) <=> n \in ToSet(new) \/ \E i \in DOMAIN nodes \ drop : n = nodes[i]
  BY <1>5 DEF Spliced
<1>7. \A n \in ToSet(rest) : NodeOK(f, n)
  BY <1>4, <1>3, <1>6, SeqFacts
<1>8. outputs \subseteq inputs \cup Produced(rest)
  <2> SUFFICES ASSUME NEW x \in outputs, x \notin inputs PROVE x \in Produced(rest)
    OBVIOUS
  <2>1. PICK i \in DOMAIN nodes : x \in ToSet(nodes[i].outs)
    BY <1>3, ProducedFacts
  <2>2. Produced(rest) = UNION {ToSet(n.outs) : n \in ToSet(rest)}
        /\ Produced(new) = UNION {ToSet(n.outs) : n \in ToSet(new)}
    BY ProducedFacts
  <2>3. CASE i \in drop
    <3>1. x \in Produced(new)
      BY <2>1, <2>3 DEF nodes, outputs
    <3>2. QED
      BY <1>6, <2>2, <3>1
  <2>4. CASE i \notin drop
    BY <1>6, <2>1, <2>2, <2>4
  <2>5. QED
    BY <2>3, <2>4
<1> DEFINE q == Prog(rest, inputs, outputs)
<1>9. Splice(p, drop, new) = q
  BY <1>4, <1>6
<1>10. q.nodes = rest /\ q.inputs = inputs /\ q.outputs = outputs
  BY ProgFields
<1>11. q = Prog(q.nodes, Forward(f).inputs, Forward(f).outputs)
  BY <1>1, <1>10 DEF inputs, outputs
<1> HIDE DEF q
<1>12. QED
  BY <1>6, <1>7, <1>8, <1>9, <1>10, <1>11 DEF ProgramOK

\* The same for one fused node in the place of a whole site.
Private(p, drop, keep) ==
  \A j \in drop : \E x : /\ p.nodes[j].outs = <<x>>
                         /\ \/ x \in keep
                            \/ /\ x \notin {"o", "vn_flat"} \cup ScanReads
                               /\ Consumers(p, x) \subseteq drop

\* The elements of a tuple.
LEMMA ToSetOfTuple ==
  /\ \A a : ToSet(<<a>>) = {a}
  /\ \A a, b : ToSet(<<a, b>>) = {a, b}
  /\ \A a, b, c : ToSet(<<a, b, c>>) = {a, b, c}
  /\ \A a, b, c, d : ToSet(<<a, b, c, d>>) = {a, b, c, d}
<1>1. \A a : ToSet(<<a>>) = {a}
  BY DEF ToSet
<1>2. \A a, b : ToSet(<<a, b>>) = {a, b}
  BY DEF ToSet
<1>3. \A a, b, c : ToSet(<<a, b, c>>) = {a, b, c}
  BY DEF ToSet
<1>4. \A a, b, c, d : ToSet(<<a, b, c, d>>) = {a, b, c, d}
  BY DEF ToSet
<1>5. QED
  BY <1>1, <1>2, <1>3, <1>4

\* Putting one node in the place of a private set of nodes, none of whose
\* bindings is read elsewhere but its own, keeps the program right.
LEMMA FuseOK ==
  ASSUME NEW f, NEW p, ProgramOK(f, p), p.outputs = {"o"},
         NEW drop, drop \subseteq DOMAIN p.nodes, drop # {},
         NEW n, NEW y, n.outs = <<y>>, NodeOK(f, n), Private(p, drop, {y}),
         Needs(f, n) \subseteq p.inputs \cup Before(p.nodes, First(drop))
  PROVE  ProgramOK(f, Splice(p, drop, <<n>>))
<1>1. /\ Gets(f, <<n>>, p.inputs \cup Before(p.nodes, First(drop))) /\ IsSeq(<<n>>)
      /\ Produced(<<n>>) = ToSet(n.outs) /\ ToSet(<<n>>) = {n}
  BY GetsOne
<1>2. ASSUME NEW j \in drop, NEW x \in ToSet(p.nodes[j].outs), x # y
      PROVE  /\ x \notin p.outputs
             /\ \A i \in DOMAIN p.nodes \ drop : x \notin Needs(f, p.nodes[i])
  <2>1. PICK z : /\ p.nodes[j].outs = <<z>>
                 /\ \/ z \in {y}
                    \/ /\ z \notin {"o", "vn_flat"} \cup ScanReads
                       /\ Consumers(p, z) \subseteq drop
    BY DEF Private
  <2>2. x = z
    BY <2>1, ToSetOfTuple
  <2>3. x \notin {"o", "vn_flat"} \cup ScanReads /\ Consumers(p, x) \subseteq drop
    BY <1>2, <2>1, <2>2
  <2>4. QED
    BY <2>3 DEF Needs, Consumers
<1>3. ToSet(n.outs) = {y}
  BY ToSetOfTuple
<1> DEFINE new == <<n>>
<1>4. /\ IsSeq(new) /\ \A m \in ToSet(new) : NodeOK(f, m)
      /\ Gets(f, new, p.inputs \cup Before(p.nodes, First(drop)))
      /\ Produced(new) = {y}
  BY <1>1, <1>3
<1> HIDE DEF new
<1>5. \A j \in drop : \A x \in ToSet(p.nodes[j].outs) :
        \/ x \in Produced(new)
        \/ /\ x \notin p.outputs
           /\ \A i \in DOMAIN p.nodes \ drop : x \notin Needs(f, p.nodes[i])
  BY <1>2, <1>4
<1>6. ProgramOK(f, Splice(p, drop, new))
  BY <1>4, <1>5, SpliceOK
<1>7. QED
  BY <1>6 DEF new

\* Where the first of a score's epilogue stood, vn_flat is bound: the fused node
\* that takes its place may read it.
LEMMA LateFirst ==
  ASSUME NEW f \in {"gdn", "kda"}, NEW p, ProgramOK(f, p),
         NEW drop, drop \subseteq DOMAIN p.nodes, drop # {},
         \A j \in drop : p.nodes[j].outs[1] \in LateNames
  PROVE  "vn_flat" \in p.inputs \cup Before(p.nodes, First(drop))
<1>1. drop \subseteq Nat
  BY ProgFacts
<1>2. First(drop) \in drop
  BY <1>1, FirstFacts
<1>3. "vn_flat" \in Needs(f, p.nodes[First(drop)])
  BY <1>2 DEF Needs
<1>4. QED
  BY <1>2, <1>3, ProgFacts

\* Two nodes of an epilogue that follow each other.
LEMMA LinkFacts ==
  ASSUME NEW p, NEW k, NEW c, Linked(p, k, c)
  PROVE  /\ c \in DOMAIN p.nodes /\ Reads(p.nodes[c], p.nodes[k].outs[1])
         /\ Consumers(p, p.nodes[k].outs[1]) = {c}
BY DEF Linked, Reads, Consumers

\* Annotating a program changes no name, and so keeps it right.
LEMMA LeverOK ==
  ASSUME NEW f, NEW p, NEW pins, ProgramOK(f, p)
  PROVE  ProgramOK(f, Annotated(p, pins))
<1>1. p = Prog(p.nodes, p.inputs, p.outputs) /\ IsSeq(p.nodes)
      /\ p.inputs = Forward(f).inputs /\ p.outputs = Forward(f).outputs
  BY ProgFacts
<1> DEFINE nodes == p.nodes
           inputs == p.inputs
           outputs == p.outputs
<1>2. PICK rest : /\ Annotated(Prog(nodes, inputs, outputs), pins) = Prog(rest, inputs, outputs)
                  /\ IsSeq(rest) /\ DOMAIN rest = DOMAIN nodes
                  /\ \A i \in DOMAIN nodes :
                       /\ rest[i].kind = nodes[i].kind /\ rest[i].op = nodes[i].op
                       /\ rest[i].ins = nodes[i].ins /\ rest[i].outs = nodes[i].outs
  BY <1>1, AnnotatedGets
<1>3. ASSUME NEW n, NEW m, n.kind = m.kind, n.op = m.op, n.ins = m.ins, n.outs = m.outs,
             NodeOK(f, m)
      PROVE  NodeOK(f, n) /\ Needs(f, n) = Needs(f, m)
  <2>1. /\ GdnNode(m) => GdnNode(n)
        /\ KdaNode(m) => KdaNode(n)
        /\ DeltaNode(m) => DeltaNode(n)
        /\ LinearNode(m) => LinearNode(n)
    BY <1>3, Zenon DEF GdnNode, KdaNode, DeltaNode, LinearNode, IsScore, Is, Reads
  <2>2. NodeOK(f, n)
    BY <1>3, <2>1, Zenon DEF NodeOK
  <2>3. Needs(f, n) = Needs(f, m)
    BY <1>3, Zenon DEF Needs
  <2>4. QED
    BY <2>2, <2>3
<1>4. \A i \in DOMAIN nodes : NodeOK(f, nodes[i])
  BY ProgFacts
<1>5. \A i \in DOMAIN nodes : NodeOK(f, rest[i]) /\ Needs(f, rest[i]) = Needs(f, nodes[i])
  BY <1>2, <1>3, <1>4
<1>6. \A i : Before(nodes, i) \subseteq Before(rest, i) \/ i \notin DOMAIN nodes
  <2> SUFFICES ASSUME NEW i \in DOMAIN nodes, NEW x \in Before(nodes, i) PROVE x \in Before(rest, i)
    OBVIOUS
  <2>1. PICK j \in 1 .. i - 1 : x \in ToSet(nodes[j].outs)
    BY BeforeFacts
  <2>2. j \in DOMAIN nodes
    BY ProgFacts
  <2>3. QED
    BY <1>2, <2>1, <2>2, BeforeFacts
<1>7. Gets(f, rest, inputs)
  <2>1. \A i \in DOMAIN nodes : Needs(f, nodes[i]) \subseteq inputs \cup Before(nodes, i)
    BY ProgFacts
  <2>2. QED
    BY <1>2, <1>5, <1>6, <2>1 DEF Gets
<1>8. \A n \in ToSet(rest) : NodeOK(f, n)
  BY <1>2, <1>5, SeqFacts
<1>9. outputs \subseteq inputs \cup Produced(rest)
  <2>1. outputs \subseteq inputs \cup Produced(nodes)
    BY DEF ProgramOK
  <2>2. QED
    BY <1>2, <2>1, ProducedFacts
<1> DEFINE q == Prog(rest, inputs, outputs)
<1>10. Annotated(p, pins) = q
  BY <1>1, <1>2
<1>11. q.nodes = rest /\ q.inputs = inputs /\ q.outputs = outputs
  BY ProgFields
<1>12. q = Prog(q.nodes, Forward(f).inputs, Forward(f).outputs)
  BY <1>1, <1>11
<1> HIDE DEF q
<1>13. QED
  BY <1>2, <1>7, <1>8, <1>9, <1>10, <1>11, <1>12 DEF ProgramOK

\* The inputs the rewrites read without looking for them, by forward, and the
\* inputs they recognise a forward by.
LEMMA ForwardNames ==
  /\ {"qF", "kF", "g_native", "beta_native", "beta_native_ones", "coef_vcs", "coef_S"}
       \subseteq Forward("gdn").inputs
  /\ {"qF", "kF", "coef_ag", "coef_bg", "coef_krest", "coef_S"} \subseteq Forward("kda").inputs
  /\ "coef_krest" \notin Forward("gdn").inputs /\ "coef_vcs" \notin Forward("kda").inputs
  /\ Forward("gdn").outputs = {"o"} /\ Forward("kda").outputs = {"o"}
  /\ \A f \in Families \ {"gdn", "kda"} :
       "coef_vcs" \notin Forward(f).inputs /\ "coef_krest" \notin Forward(f).inputs
  /\ \A f \in Families \ {"gdn", "kda", "deltanet"} :
       /\ {"q", "k", "P", "invP", "g_intra", "beta_intra"} \subseteq Forward(f).inputs
       /\ Forward(f).outputs = {"o"}
<1>1. /\ GDN.inputs = {"qF", "kF", "vF", "coefA", "coef_kb", "coef_vb", "coef_qg", "coef_o",
                       "coef_vcs", "coef_S", "g_native", "beta_native", "beta_native_ones"}
      /\ GDN.outputs = {"o"}
  BY ProgFields, Zenon DEF GDN
<1>2. /\ KDA.inputs = {"qF", "kF", "vF", "coef_ag", "coef_bg", "coef_beta", "coef_wg", "coef_ub",
                       "coef_krest", "coef_S"}
      /\ KDA.outputs = {"o"}
  BY ProgFields, Zenon DEF KDA
<1>3. /\ Linear.inputs = {"q", "k", "v", "P", "invP", "gammaInvP", "gamma", "g_intra", "beta_intra"}
      /\ Linear.outputs = {"o"}
  <2>1. /\ Linear.inputs = ToSet(<<"q", "k", "v", "P", "invP", "gammaInvP">>)
                             \cup {"gamma", "g_intra", "beta_intra"}
        /\ Linear.outputs = {"o"}
    BY ProgFields, Zenon DEF Linear
  <2>2. ToSet(<<"q", "k", "v", "P", "invP", "gammaInvP">>) = {"q", "k", "v", "P", "invP", "gammaInvP"}
    BY DEF ToSet
  <2>3. QED
    BY <2>1, <2>2
<1>4. DeltaNet.inputs = {"q", "k", "v", "beta"}
  BY ProgFields, Zenon DEF DeltaNet
<1>5. /\ Forward("gdn") = GDN /\ Forward("kda") = KDA
      /\ \A f \in Families \ {"gdn", "kda"} : Forward(f) = IF f = "deltanet" THEN DeltaNet ELSE Linear
  BY DEF Forward, Families
<1>6. QED
  BY <1>1, <1>2, <1>3, <1>4, <1>5

\* Every node but the scan binds one name.
LEMMA OutFacts ==
  ASSUME NEW f, NEW p, ProgramOK(f, p), NEW i \in DOMAIN p.nodes, p.nodes[i].outs[1] # "h_out_k"
  PROVE  p.nodes[i].outs = <<p.nodes[i].outs[1]>>
<1>1. p.nodes[i].outs = <<p.nodes[i].outs[1]>> \/ p.nodes[i].outs = <<"h_out_k", "final_k">>
  BY ProgFacts DEF NodeOK
<1>2. QED
  BY <1>1

\* GDN: the epilogues of its scores are those of its forward.
LEMMA GdnKkt ==
  ASSUME NEW p, ProgramOK("gdn", p), NEW i \in Scores(p), KktSite(p, i)
  PROVE  /\ BoundaryOut(p, i) = "A" /\ i \in Unit(p, i) /\ Unit(p, i) \subseteq DOMAIN p.nodes
         /\ Private(p, Unit(p, i), {"A"})
<1> DEFINE out(k) == p.nodes[k].outs[1]
<1>1. i \in DOMAIN p.nodes /\ IsScore(p.nodes[i]) /\ IsSeq(p.nodes)
  BY ProgFacts DEF Scores, IsScore
<1>2. PICK c1, c2, c3 :
        /\ Linked(p, i, c1) /\ Linked(p, c1, c2) /\ Linked(p, c2, c3)
        /\ BoundaryOut(p, i) = p.nodes[c3].outs[1] /\ Unit(p, i) = {i, c1, c2, c3}
  BY <1>1, UnitOfThree DEF KktSite
<1>3. \A k \in DOMAIN p.nodes : GdnNode(p.nodes[k])
  BY ProgFacts DEF NodeOK
<1>4. p.nodes[i].ins = <<"kF", "kF">> /\ <<"kF", "kF">> # <<"qF", "kF">>
  BY DEF KktSite
<1>5. out(i) = "Araw"
  BY <1>1, <1>3, <1>4 DEF GdnNode
<1>6. c1 \in DOMAIN p.nodes /\ out(c1) = "Ag" /\ Consumers(p, "Araw") = {c1}
  BY <1>2, <1>3, <1>5, LinkFacts DEF GdnNode
<1>7. c2 \in DOMAIN p.nodes /\ out(c2) = "A_t" /\ Consumers(p, "Ag") = {c2}
  BY <1>2, <1>3, <1>6, LinkFacts DEF GdnNode
<1>8. c3 \in DOMAIN p.nodes /\ out(c3) = "A" /\ Consumers(p, "A_t") = {c3}
  BY <1>2, <1>3, <1>7, LinkFacts DEF GdnNode
<1>9. /\ p.nodes[i].outs = <<"Araw">> /\ p.nodes[c1].outs = <<"Ag">>
      /\ p.nodes[c2].outs = <<"A_t">> /\ p.nodes[c3].outs = <<"A">>
  BY <1>1, <1>5, <1>6, <1>7, <1>8, OutFacts
<1>10. QED
  BY <1>1, <1>2, <1>6, <1>7, <1>8, <1>9 DEF Private, ScanReads

\* GDN's output score: its unit binds Aqk_c, and only the epilogue reads the rest.
LEMMA GdnChunkO ==
  ASSUME NEW p, ProgramOK("gdn", p), NEW i \in Scores(p), ChunkOSite(p, i)
  PROVE  /\ BoundaryOut(p, i) = "Aqk_c" /\ i \in Unit(p, i) /\ Unit(p, i) \subseteq DOMAIN p.nodes
         /\ Private(p, Unit(p, i), {"Aqk_c"})
         /\ \A j \in Unit(p, i) : p.nodes[j].outs[1] \in LateNames
<1> DEFINE out(k) == p.nodes[k].outs[1]
<1>1. i \in DOMAIN p.nodes /\ IsScore(p.nodes[i]) /\ IsSeq(p.nodes)
  BY ProgFacts DEF Scores, IsScore
<1>2. PICK c1, c2 :
        /\ Linked(p, i, c1) /\ Linked(p, c1, c2)
        /\ BoundaryOut(p, i) = p.nodes[c2].outs[1] /\ Unit(p, i) = {i, c1, c2}
  BY <1>1, UnitOfTwo DEF ChunkOSite
<1>3. \A k \in DOMAIN p.nodes : GdnNode(p.nodes[k])
  BY ProgFacts DEF NodeOK
<1>4. p.nodes[i].ins = <<"qF", "kF">> /\ <<"kF", "kF">> # <<"qF", "kF">>
  BY DEF ChunkOSite
<1>5. out(i) = "Aqk"
  BY <1>1, <1>3, <1>4 DEF GdnNode
<1>6. c1 \in DOMAIN p.nodes /\ out(c1) = "Aqk_g" /\ Consumers(p, "Aqk") = {c1}
  BY <1>2, <1>3, <1>5, LinkFacts DEF GdnNode
<1>7. c2 \in DOMAIN p.nodes /\ out(c2) = "Aqk_c" /\ Consumers(p, "Aqk_g") = {c2}
  BY <1>2, <1>3, <1>6, LinkFacts DEF GdnNode
<1>8. /\ p.nodes[i].outs = <<"Aqk">> /\ p.nodes[c1].outs = <<"Aqk_g">>
      /\ p.nodes[c2].outs = <<"Aqk_c">>
  BY <1>1, <1>5, <1>6, <1>7, OutFacts
<1>9. QED
  BY <1>1, <1>2, <1>5, <1>6, <1>7, <1>8 DEF Private, ScanReads, LateNames

\* KDA: the only site is the product of the scaled operands, and k_eff goes
\* with it when it is read by nothing else.
LEMMA KdaPrologue ==
  ASSUME NEW p, ProgramOK("kda", p), NEW i \in Scores(p), PrologueSite(p, i)
  PROVE  /\ BoundaryOut(p, i) = "Aqk_c" /\ i \in Unit(p, i)
         /\ Unit(p, i) \cup Prescale(p, i) \subseteq DOMAIN p.nodes
         /\ Private(p, Unit(p, i) \cup Prescale(p, i), {"Aqk_c"})
         /\ \A j \in Unit(p, i) \cup Prescale(p, i) : p.nodes[j].outs[1] \in LateNames
<1> DEFINE out(k) == p.nodes[k].outs[1]
<1>1. i \in DOMAIN p.nodes /\ IsScore(p.nodes[i]) /\ IsSeq(p.nodes)
  BY ProgFacts DEF Scores, IsScore
<1>2. PICK c1, c2 :
        /\ Linked(p, i, c1) /\ Linked(p, c1, c2)
        /\ BoundaryOut(p, i) = p.nodes[c2].outs[1] /\ Unit(p, i) = {i, c1, c2}
  BY <1>1, UnitOfTwo DEF PrologueSite
<1>3. \A k \in DOMAIN p.nodes : KdaNode(p.nodes[k])
  BY ProgFacts DEF NodeOK
<1>4. p.nodes[i].ins # <<"a_op", "b_op">>
  <2> SUFFICES ASSUME p.nodes[i].ins = <<"a_op", "b_op">> PROVE FALSE
    OBVIOUS
  <2> DEFINE l == Latest(Producers(p, "a_op"))
  <2>1. Producers(p, "a_op") # {} /\ p.nodes[l].ins = <<"qF", "coef_ag">>
    BY DEF PrologueSite, IsProduct
  <2>2. Producers(p, "a_op") \subseteq 1 .. Len(p.nodes) /\ Len(p.nodes) \in Nat
    BY ProgFacts DEF Producers
  <2>3. l \in Producers(p, "a_op")
    BY <2>1, <2>2, LatestFacts
  <2>4. p.nodes[l].ins = <<"kF", "coef_ag">>
    BY <1>3, <2>3 DEF KdaNode, Producers
  <2>5. QED
    BY <2>1, <2>4
<1>5. out(i) = "Aqk" /\ p.nodes[i].ins[2] = "k_eff"
  BY <1>1, <1>3, <1>4 DEF KdaNode
<1>6. c1 \in DOMAIN p.nodes /\ out(c1) = "Aqk_t" /\ Consumers(p, "Aqk") = {c1}
  BY <1>2, <1>3, <1>5, LinkFacts DEF KdaNode
<1>7. c2 \in DOMAIN p.nodes /\ out(c2) = "Aqk_c" /\ Consumers(p, "Aqk_t") = {c2}
  BY <1>2, <1>3, <1>6, LinkFacts DEF KdaNode
<1>8. /\ p.nodes[i].outs = <<"Aqk">> /\ p.nodes[c1].outs = <<"Aqk_t">>
      /\ p.nodes[c2].outs = <<"Aqk_c">>
  BY <1>1, <1>5, <1>6, <1>7, OutFacts
<1>9. ASSUME NEW l \in Prescale(p, i)
      PROVE  /\ l \in DOMAIN p.nodes /\ p.nodes[l].outs = <<"k_eff">>
             /\ Consumers(p, "k_eff") = {i}
  <2>1. l = Latest(Producers(p, "k_eff")) /\ Consumers(p, "k_eff") = {i}
    BY <1>5 DEF Prescale
  <2>2. /\ Producers(p, "k_eff") \subseteq 1 .. Len(p.nodes) /\ Len(p.nodes) \in Nat
        /\ Producers(p, "k_eff") # {}
    BY <1>5, ProgFacts DEF Producers, PrologueSite, IsProduct
  <2>3. l \in DOMAIN p.nodes /\ "k_eff" \in ToSet(p.nodes[l].outs)
    BY <2>1, <2>2, LatestFacts DEF Producers
  <2>4. p.nodes[l].outs = <<p.nodes[l].outs[1]>> \/ p.nodes[l].outs = <<"h_out_k", "final_k">>
    BY <2>3, ProgFacts DEF NodeOK
  <2>5. p.nodes[l].outs = <<"k_eff">>
    <3>1. CASE p.nodes[l].outs = <<p.nodes[l].outs[1]>>
      <4>1. ToSet(p.nodes[l].outs) = {p.nodes[l].outs[1]}
        BY <3>1, ToSetOfTuple, Zenon
      <4>2. p.nodes[l].outs[1] = "k_eff"
        BY <2>3, <4>1, Zenon
      <4>3. QED
        BY <3>1, <4>2, Zenon
    <3>2. CASE p.nodes[l].outs = <<"h_out_k", "final_k">>
      <4>1. ToSet(p.nodes[l].outs) = {"h_out_k", "final_k"}
        BY <3>2, ToSetOfTuple, Zenon
      <4>2. QED
        BY <2>3, <4>1
    <3>3. QED
      BY <2>4, <3>1, <3>2
  <2>6. QED
    BY <2>1, <2>3, <2>5
<1>10. \A l \in Prescale(p, i) : out(l) = "k_eff"
  BY <1>9
<1>11. Private(p, Unit(p, i) \cup Prescale(p, i), {"Aqk_c"})
  BY <1>2, <1>6, <1>7, <1>8, <1>9 DEF Private, ScanReads
<1>12. QED
  BY <1>1, <1>2, <1>5, <1>6, <1>7, <1>9, <1>10, <1>11 DEF LateNames

\* No site of another forward is found.
LEMMA NoPrologue ==
  ASSUME NEW f, f # "kda", NEW p, ProgramOK(f, p), NEW i \in Scores(p)
  PROVE  ~ PrologueSite(p, i)
<1> SUFFICES ASSUME PrologueSite(p, i) PROVE FALSE
  OBVIOUS
<1> DEFINE names == Producers(p, p.nodes[i].ins[1])
           n == p.nodes[Latest(names)]
<1>1. names # {} /\ Is(n, "glue", "mul") /\ n.ins = <<"qF", "coef_ag">>
  BY DEF PrologueSite, IsProduct
<1>2. names \subseteq 1 .. Len(p.nodes) /\ Len(p.nodes) \in Nat
  BY ProgFacts DEF Producers
<1>3. Latest(names) \in DOMAIN p.nodes
  <2> HIDE DEF names
  <2>1. Latest(names) \in names
    BY <1>1, <1>2, LatestFacts
  <2>2. QED
    BY <2>1 DEF names, Producers
<1>4. NodeOK(f, n)
  BY <1>3, ProgFacts
<1>5. QED
  BY <1>1, <1>4 DEF NodeOK, GdnNode, DeltaNode, LinearNode

\* Only GDN has a score the kkt or chunk_o rewrite takes.
LEMMA NoKktOrChunkO ==
  ASSUME NEW f, f # "gdn", NEW p, ProgramOK(f, p), NEW i \in Scores(p)
  PROVE  ~ KktSite(p, i) /\ ~ ChunkOSite(p, i)
<1>1. i \in DOMAIN p.nodes /\ IsScore(p.nodes[i]) /\ NodeOK(f, p.nodes[i]) /\ IsSeq(p.nodes)
  BY ProgFacts DEF Scores, IsScore
<1>2. CASE f # "deltanet"
  <2>1. p.nodes[i].ins # <<"kF", "kF">> /\ p.nodes[i].ins # <<"qF", "kF">>
    BY <1>1, <1>2 DEF NodeOK, KdaNode, LinearNode
  <2>2. QED
    BY <2>1 DEF KktSite, ChunkOSite
<1>3. CASE f = "deltanet"
  <2>1. /\ p.nodes[i].ins # <<"kF", "kF">>
        /\ p.nodes[i].ins = <<"qF", "kF">> => p.nodes[i].outs[1] = "Aqk_raw"
    BY <1>1, <1>3 DEF NodeOK, DeltaNode
  <2> SUFFICES ASSUME ChunkOSite(p, i) PROVE FALSE
    BY <2>1 DEF KktSite
  <2>2. PICK c1, c2 : Linked(p, i, c1) /\ p.nodes[c1].op = "mul"
    BY <1>1, UnitOfTwo DEF ChunkOSite
  <2>3. c1 \in DOMAIN p.nodes /\ Reads(p.nodes[c1], "Aqk_raw")
    BY <2>1, <2>2, LinkFacts DEF ChunkOSite
  <2>4. NodeOK(f, p.nodes[c1])
    BY <2>3, ProgFacts
  <2>5. QED
    BY <1>3, <2>2, <2>3, <2>4 DEF NodeOK, DeltaNode
<1>4. QED
  BY <1>2, <1>3

-----------------------------------------------------------------------------
(* Rewrites: building a program node by node.                              *)

\* Programs are built node by node: Adds(f, n, B, C) when n finds what it needs
\* in the names B, and those of C are bound after it.
Adds(f, n, B, C) == NodeOK(f, n) /\ Needs(f, n) \subseteq B /\ C \subseteq B \cup ToSet(n.outs)
Builds(f, s, B, C) ==
  /\ IsSeq(s) /\ \A n \in ToSet(s) : NodeOK(f, n)
  /\ Gets(f, s, B) /\ C \subseteq B \cup Produced(s)

\* Building a program of one node.
LEMMA BuildsNode ==
  ASSUME NEW f, NEW n, NEW B, NEW C, Adds(f, n, B, C)
  PROVE  Builds(f, <<n>>, B, C)
<1>1. Gets(f, <<n>>, B) /\ IsSeq(<<n>>) /\ Produced(<<n>>) = ToSet(n.outs) /\ ToSet(<<n>>) = {n}
  BY GetsOne DEF Adds
<1>2. QED
  BY <1>1 DEF Builds, Adds

\* Building one sequence after another.
LEMMA BuildsThen ==
  ASSUME NEW f, NEW s, NEW t, NEW B, NEW C, NEW D, Builds(f, s, B, C), Builds(f, t, C, D)
  PROVE  Builds(f, s \o t, B, D)
<1>1. /\ IsSeq(s \o t) /\ ToSet(s \o t) = ToSet(s) \cup ToSet(t)
      /\ Produced(s \o t) = Produced(s) \cup Produced(t)
  BY ConcatFacts DEF Builds
<1>2. Gets(f, t, B \cup Produced(s))
  BY GetsMore DEF Builds
<1>3. Gets(f, s \o t, B)
  BY <1>2, GetsConcat DEF Builds
<1>4. QED
  BY <1>1, <1>3 DEF Builds

\* Building from more names, and promising fewer.
LEMMA BuildsMore ==
  ASSUME NEW f, NEW s, NEW A, NEW B, NEW C, NEW D, Builds(f, s, B, C), B \subseteq A, D \subseteq A \cup C
  PROVE  Builds(f, s, A, D)
BY GetsMore DEF Builds

\* Building one node after a sequence.
LEMMA BuildsSnoc ==
  ASSUME NEW f, NEW s, NEW t, NEW B, NEW C, NEW D, Builds(f, s, B, C), IsSeq(t),
         Len(t) = Len(s) + 1, \A i \in 1 .. Len(s) : t[i] = s[i], Adds(f, t[Len(s) + 1], C, D)
  PROVE  Builds(f, t, B, D)
<1> DEFINE k == Len(s)
           n == t[k + 1]
<1>1. IsSeq(s)
  BY DEF Builds
<1>2. k \in Nat /\ DOMAIN s = 1 .. k /\ DOMAIN t = 1 .. k + 1
  BY <1>1, SeqFacts
<1> HIDE DEF k
<1>3. /\ DOMAIN t = (1 .. k) \cup {k + 1}
      /\ \A i \in 1 .. k : t[i] = s[i]
  BY <1>2 DEF k
<1>4. ToSet(t) = ToSet(s) \cup {n}
  BY <1>2, <1>3 DEF ToSet
<1>5. Produced(t) = Produced(s) \cup ToSet(n.outs)
  BY <1>4, ProducedFacts
<1>6. \A i \in 1 .. k : Before(s, i) \subseteq Before(t, i)
  <2> SUFFICES ASSUME NEW i \in 1 .. k, NEW x \in Before(s, i) PROVE x \in Before(t, i)
    OBVIOUS
  <2>1. PICK j \in 1 .. i - 1 : x \in ToSet(s[j].outs)
    BY BeforeFacts
  <2>2. j \in 1 .. k
    BY <1>2
  <2>3. QED
    BY <1>3, <2>1, <2>2, BeforeFacts
<1>7. Produced(s) \subseteq Before(t, k + 1)
  <2> SUFFICES ASSUME NEW x \in Produced(s) PROVE x \in Before(t, k + 1)
    OBVIOUS
  <2>1. PICK j \in DOMAIN s : x \in ToSet(s[j].outs)
    BY ProducedFacts
  <2>2. j \in 1 .. (k + 1) - 1 /\ j \in 1 .. k
    BY <1>2
  <2>3. QED
    BY <1>3, <2>1, <2>2, BeforeFacts
<1>8. Needs(f, n) \subseteq B \cup Before(t, k + 1)
  BY <1>7 DEF Adds, Builds, k
<1>9. \A i \in DOMAIN t : Needs(f, t[i]) \subseteq B \cup Before(t, i)
  BY <1>2, <1>3, <1>6, <1>8 DEF Builds, Gets
<1>10. NodeOK(f, n) /\ D \subseteq C \cup ToSet(n.outs)
  BY DEF Adds, k
<1> HIDE DEF n
<1>11. QED
  BY <1>4, <1>5, <1>9, <1>10 DEF Builds, Gets

\* Building a tuple of up to four nodes, each after the one before it.
LEMMA BuildsTuple ==
  ASSUME NEW f, NEW B
  PROVE  /\ \A a, A : Adds(f, a, B, A) => Builds(f, <<a>>, B, A)
         /\ \A a, b, A, Z : Adds(f, a, B, A) /\ Adds(f, b, A, Z) => Builds(f, <<a, b>>, B, Z)
         /\ \A a, b, c, A, Y, Z :
              Adds(f, a, B, A) /\ Adds(f, b, A, Y) /\ Adds(f, c, Y, Z) => Builds(f, <<a, b, c>>, B, Z)
         /\ \A a, b, c, d, W, X, Y, Z :
              Adds(f, a, B, W) /\ Adds(f, b, W, X) /\ Adds(f, c, X, Y) /\ Adds(f, d, Y, Z)
                => Builds(f, <<a, b, c, d>>, B, Z)
<1>1. \A a, A : Adds(f, a, B, A) => Builds(f, <<a>>, B, A)
  BY BuildsNode
<1>2. ASSUME NEW a, NEW b, NEW A, NEW Z, Adds(f, a, B, A), Adds(f, b, A, Z)
      PROVE  Builds(f, <<a, b>>, B, Z)
  <2> DEFINE s == <<a>>
             t == <<a, b>>
  <2>1. Builds(f, s, B, A) /\ IsSeq(t)
    BY <1>1, <1>2, TupleIsSeq
  <2>2. Len(s) = 1 /\ Len(t) = Len(s) + 1 /\ (\A i \in 1 .. Len(s) : t[i] = s[i]) /\ t[Len(s) + 1] = b
    OBVIOUS
  <2> HIDE DEF s, t
  <2>3. Builds(f, t, B, Z)
    BY <1>2, <2>1, <2>2, BuildsSnoc
  <2>4. QED
    BY <2>3 DEF t
<1>3. ASSUME NEW a, NEW b, NEW c, NEW A, NEW Y, NEW Z,
             Adds(f, a, B, A), Adds(f, b, A, Y), Adds(f, c, Y, Z)
      PROVE  Builds(f, <<a, b, c>>, B, Z)
  <2> DEFINE s == <<a, b>>
             t == <<a, b, c>>
  <2>1. Builds(f, s, B, Y) /\ IsSeq(t)
    BY <1>2, <1>3, TupleIsSeq
  <2>2. Len(s) = 2 /\ Len(t) = Len(s) + 1 /\ (\A i \in 1 .. Len(s) : t[i] = s[i]) /\ t[Len(s) + 1] = c
    OBVIOUS
  <2> HIDE DEF s, t
  <2>3. Builds(f, t, B, Z)
    BY <1>3, <2>1, <2>2, BuildsSnoc
  <2>4. QED
    BY <2>3 DEF t
<1>4. ASSUME NEW a, NEW b, NEW c, NEW d, NEW W, NEW X, NEW Y, NEW Z,
             Adds(f, a, B, W), Adds(f, b, W, X), Adds(f, c, X, Y), Adds(f, d, Y, Z)
      PROVE  Builds(f, <<a, b, c, d>>, B, Z)
  <2> DEFINE s == <<a, b, c>>
             t == <<a, b, c, d>>
  <2>1. Builds(f, s, B, Y) /\ IsSeq(t)
    BY <1>3, <1>4, TupleIsSeq
  <2>2. Len(s) = 3 /\ Len(t) = Len(s) + 1 /\ (\A i \in 1 .. Len(s) : t[i] = s[i]) /\ t[Len(s) + 1] = d
    OBVIOUS
  <2> HIDE DEF s, t
  <2>3. Builds(f, t, B, Z)
    BY <1>4, <2>1, <2>2, BuildsSnoc
  <2>4. QED
    BY <2>3 DEF t
<1>5. QED
  BY <1>1, <1>2, <1>3, <1>4

\* Tuples longer than four, as concatenations.
Joins(r, s, t) ==
  /\ Len(r) = Len(s) + Len(t)
  /\ \A i \in 1 .. Len(s) : r[i] = s[i]
  /\ \A i \in 1 .. Len(t) : r[Len(s) + i] = t[i]

\* A sequence that joins two is their concatenation.
LEMMA IsConcat ==
  ASSUME NEW r, NEW s, NEW t, IsSeq(r), IsSeq(s), IsSeq(t), Joins(r, s, t)
  PROVE  r = s \o t
<1> DEFINE u == s \o t
           S == ToSet(s) \cup ToSet(t)
<1>1. s \in Seq(S) /\ t \in Seq(S)
  BY SeqMonotonic DEF IsSeq
<1>2. /\ Len(u) = Len(s) + Len(t)
      /\ \A i \in 1 .. Len(u) : u[i] = IF i <= Len(s) THEN s[i] ELSE t[i - Len(s)]
  BY <1>1, ConcatProperties
<1>3. IsSeq(u)
  BY ConcatIsSeq
<1> HIDE DEF u
<1>4. Len(s) \in Nat /\ Len(t) \in Nat /\ Len(r) = Len(u)
  BY <1>2, SeqFacts DEF Joins
<1>5. ASSUME NEW i \in 1 .. Len(r) PROVE r[i] = u[i]
  <2>1. CASE i <= Len(s)
    BY <1>2, <1>4, <2>1 DEF Joins
  <2>2. CASE ~ (i <= Len(s))
    <3>1. i - Len(s) \in 1 .. Len(t) /\ Len(s) + (i - Len(s)) = i
      BY <1>4, <2>2 DEF Joins
    <3>2. QED
      BY <1>2, <1>4, <2>2, <3>1 DEF Joins
  <2>3. QED
    BY <2>1, <2>2
<1>6. r \in Seq(ToSet(r) \cup ToSet(u)) /\ u \in Seq(ToSet(r) \cup ToSet(u))
  BY <1>3, SeqMonotonic DEF IsSeq
<1>7. r = u
  BY <1>4, <1>5, <1>6, SeqEqual
<1>8. QED
  BY <1>7 DEF u

\* Building a sequence that joins two.
LEMMA BuildsJoin ==
  ASSUME NEW f, NEW r, NEW s, NEW t, NEW B, NEW C, NEW D,
         Builds(f, s, B, C), Builds(f, t, C, D), IsSeq(r), Joins(r, s, t)
  PROVE  Builds(f, r, B, D)
<1>1. IsSeq(s) /\ IsSeq(t)
  BY DEF Builds
<1>2. r = s \o t
  BY <1>1, IsConcat
<1>3. QED
  BY <1>2, BuildsThen

\* Building a tuple of five to eight nodes, as one of four and the rest.
LEMMA LongBuilds ==
  ASSUME NEW f, NEW B, NEW C, NEW D
  PROVE  /\ \A a, b, c, d, e :
              Builds(f, <<a, b, c, d>>, B, C) /\ Builds(f, <<e>>, C, D)
                => Builds(f, <<a, b, c, d, e>>, B, D)
         /\ \A a, b, c, d, e, g :
              Builds(f, <<a, b, c, d>>, B, C) /\ Builds(f, <<e, g>>, C, D)
                => Builds(f, <<a, b, c, d, e, g>>, B, D)
         /\ \A a, b, c, d, e, g, h :
              Builds(f, <<a, b, c, d>>, B, C) /\ Builds(f, <<e, g, h>>, C, D)
                => Builds(f, <<a, b, c, d, e, g, h>>, B, D)
         /\ \A a, b, c, d, e, g, h, i :
              Builds(f, <<a, b, c, d>>, B, C) /\ Builds(f, <<e, g, h, i>>, C, D)
                => Builds(f, <<a, b, c, d, e, g, h, i>>, B, D)
         /\ \A a, b, c, d, e, g, h, i, j, k, l, m, n :
              Builds(f, <<a, b, c, d, e, g, h, i>>, B, C) /\ Builds(f, <<j, k, l, m, n>>, C, D)
                => Builds(f, <<a, b, c, d, e, g, h, i, j, k, l, m, n>>, B, D)
<1>1. ASSUME NEW a, NEW b, NEW c, NEW d, NEW e,
             Builds(f, <<a, b, c, d>>, B, C), Builds(f, <<e>>, C, D)
      PROVE  Builds(f, <<a, b, c, d, e>>, B, D)
  <2> DEFINE r == <<a, b, c, d, e>>
             s == <<a, b, c, d>>
             t == <<e>>
  <2>1. Joins(r, s, t)
    BY DEF Joins
  <2>2. IsSeq(r)
    BY TupleIsSeq
  <2>3. Builds(f, s, B, C) /\ Builds(f, t, C, D)
    BY <1>1
  <2> HIDE DEF r, s, t
  <2>4. Builds(f, r, B, D)
    BY <2>1, <2>2, <2>3, BuildsJoin
  <2>5. QED
    BY <2>4 DEF r
<1>2. ASSUME NEW a, NEW b, NEW c, NEW d, NEW e, NEW g,
             Builds(f, <<a, b, c, d>>, B, C), Builds(f, <<e, g>>, C, D)
      PROVE  Builds(f, <<a, b, c, d, e, g>>, B, D)
  <2> DEFINE r == <<a, b, c, d, e, g>>
             s == <<a, b, c, d>>
             t == <<e, g>>
  <2>1. Joins(r, s, t)
    BY DEF Joins
  <2>2. IsSeq(r)
    BY TupleIsSeq
  <2>3. Builds(f, s, B, C) /\ Builds(f, t, C, D)
    BY <1>2
  <2> HIDE DEF r, s, t
  <2>4. Builds(f, r, B, D)
    BY <2>1, <2>2, <2>3, BuildsJoin
  <2>5. QED
    BY <2>4 DEF r
<1>3. ASSUME NEW a, NEW b, NEW c, NEW d, NEW e, NEW g, NEW h,
             Builds(f, <<a, b, c, d>>, B, C), Builds(f, <<e, g, h>>, C, D)
      PROVE  Builds(f, <<a, b, c, d, e, g, h>>, B, D)
  <2> DEFINE r == <<a, b, c, d, e, g, h>>
             s == <<a, b, c, d>>
             t == <<e, g, h>>
  <2>1. Joins(r, s, t)
    BY DEF Joins
  <2>2. IsSeq(r)
    BY TupleIsSeq
  <2>3. Builds(f, s, B, C) /\ Builds(f, t, C, D)
    BY <1>3
  <2> HIDE DEF r, s, t
  <2>4. Builds(f, r, B, D)
    BY <2>1, <2>2, <2>3, BuildsJoin
  <2>5. QED
    BY <2>4 DEF r
<1>4. ASSUME NEW a, NEW b, NEW c, NEW d, NEW e, NEW g, NEW h, NEW i,
             Builds(f, <<a, b, c, d>>, B, C), Builds(f, <<e, g, h, i>>, C, D)
      PROVE  Builds(f, <<a, b, c, d, e, g, h, i>>, B, D)
  <2> DEFINE r == <<a, b, c, d, e, g, h, i>>
             s == <<a, b, c, d>>
             t == <<e, g, h, i>>
  <2>1. Joins(r, s, t)
    BY DEF Joins
  <2>2. IsSeq(r)
    BY TupleIsSeq
  <2>3. Builds(f, s, B, C) /\ Builds(f, t, C, D)
    BY <1>4
  <2> HIDE DEF r, s, t
  <2>4. Builds(f, r, B, D)
    BY <2>1, <2>2, <2>3, BuildsJoin
  <2>5. QED
    BY <2>4 DEF r
<1>5. ASSUME NEW a, NEW b, NEW c, NEW d, NEW e, NEW g, NEW h, NEW i,
             NEW j, NEW k, NEW l, NEW m, NEW n,
             Builds(f, <<a, b, c, d, e, g, h, i>>, B, C), Builds(f, <<j, k, l, m, n>>, C, D)
      PROVE  Builds(f, <<a, b, c, d, e, g, h, i, j, k, l, m, n>>, B, D)
  <2> DEFINE r == <<a, b, c, d, e, g, h, i, j, k, l, m, n>>
             s == <<a, b, c, d, e, g, h, i>>
             t == <<j, k, l, m, n>>
  <2>1. Joins(r, s, t)
    BY DEF Joins
  <2>2. IsSeq(r)
    BY TupleIsSeq
  <2>3. Builds(f, s, B, C) /\ Builds(f, t, C, D)
    BY <1>5
  <2> HIDE DEF r, s, t
  <2>4. Builds(f, r, B, D)
    BY <2>1, <2>2, <2>3, BuildsJoin
  <2>5. QED
    BY <2>4 DEF r
<1>6. QED
  BY <1>1, <1>2, <1>3, <1>4, <1>5

\* Nodes no epilogue is made of.
Special == {"Araw", "Ag", "A_t", "A", "Aqk", "Aqk_g", "Aqk_c", "Aqk_t", "Aqk_raw", "qF"}

\* A node that is no score, reads no name an epilogue hands on and binds none a
\* rewrite reads late can be added wherever what it reads is bound.
LEMMA PlainNode ==
  ASSUME NEW f, NEW n, NEW x, NEW B, NEW C, n.outs = <<x>>, ~ IsScore(n),
         x \notin LateNames \cup {"a_op"}, ToSet(n.ins) \cap (Special \cup {"o"}) = {},
         x \in ScanOuts(f) \/ ToSet(n.ins) \cap ScanOuts(f) \subseteq {"h_flat", "vn_flat"},
         x \in ScanOuts(f) => ScanReads \subseteq B,
         ToSet(n.ins) \subseteq B, C \subseteq B \cup {x}
  PROVE  Adds(f, n, B, C)
<1>1. ToSet(n.outs) = {x} /\ n.outs[1] = x
  BY ToSetOfTuple
<1>2. \A y \in Special : ~ Reads(n, y)
  BY DEF Reads
<1>3. n.ins # <<"qF", "coef_ag">>
  BY ToSetOfTuple DEF Special
<1>4. GdnNode(n) /\ KdaNode(n) /\ DeltaNode(n) /\ LinearNode(n)
  BY <1>1, <1>2, <1>3 DEF GdnNode, KdaNode, DeltaNode, LinearNode, Special
<1>5. NodeOK(f, n)
  BY <1>1, <1>4 DEF NodeOK
<1>6. Needs(f, n) \subseteq B
  BY <1>1 DEF Needs
<1>7. QED
  BY <1>1, <1>5, <1>6 DEF Adds

\* The fields of each class of node.
LEMMA NodeFields ==
  /\ \A x, op, ins : LET n == Plumb(x, op, ins)
                     IN n.outs = <<x>> /\ n.ins = ins /\ n.kind = "plumb" /\ n.op = op
  /\ \A x, op, ins : LET n == Glue(x, op, ins)
                     IN n.outs = <<x>> /\ n.ins = ins /\ n.kind = "glue" /\ n.op = op
  /\ \A x, op, a, b : LET n == Einsum(x, op, a, b)
                      IN n.outs = <<x>> /\ n.ins = <<a, b>> /\ n.kind = "einsum" /\ n.op = op
  /\ \A x, a, d : LET n == Tril(x, a, d)
                  IN n.outs = <<x>> /\ n.ins = <<a>> /\ n.kind = "glue" /\ n.op = "tril"
  /\ \A x, a, d : LET n == Slice(x, a, d)
                  IN n.outs = <<x>> /\ n.ins = <<a>> /\ n.kind = "plumb" /\ n.op = "slice"
  /\ \A x, op, a : LET n == Opaque(x, op, a)
                   IN n.outs = <<x>> /\ n.ins = <<a>> /\ n.kind = "opaque" /\ n.op = op
  /\ \A op, ins, outs : LET n == Fused(op, ins, outs)
                   IN n.outs = outs /\ n.ins = ins /\ n.kind = "fused" /\ n.op = op
BY DEF Plumb, Glue, Einsum, Tril, Slice, Opaque, Fused, Node

\* The names of whole tensors are not those of the scan.
LEMMA ScanNamesApart ==
  /\ \A f : ScanOuts(f) \cap WholeNames \subseteq {"h_bh", "h_flat", "vn_bh", "vn_flat"}
  /\ "S0" \notin WholeNames
  /\ \A stem \in ChunkBases, c \in 0 .. nc : At(stem, c) \notin WholeNames
<1>1. At("S", 0) = "S0" /\ \A stem \in ChunkBases, c \in 0 .. nc : At(stem, c) \notin WholeNames
  BY NamesAssumption
<1>2. "S" \in ChunkBases /\ 0 \in 0 .. nc
  BY ncAssumption DEF ChunkBases
<1>3. "S0" \notin WholeNames
  BY <1>1, <1>2, Zenon
<1>4. ASSUME NEW coef, NEW x \in ScanBinds(coef), x \in WholeNames
      PROVE  x \in {"h_bh", "h_flat", "vn_bh", "vn_flat"}
  <2>1. CASE x \in ScanNames
    BY <1>3, <1>4, <2>1 DEF ScanNames
  <2>2. CASE x \notin ScanNames
    <3>1. PICK c \in Chunks : x \in ChunkNames(coef, c)
      BY <2>2 DEF ScanBinds
    <3>2. c \in 0 .. nc /\ c + 1 \in 0 .. nc
      BY ncAssumption DEF Chunks
    <3>3. x = At("S", c + 1) \/ \E stem \in ChunkBases : x = At(stem, c)
      BY <3>1 DEF ChunkNames, ChunkBases
    <3>4. x \notin WholeNames
      BY <1>1, <1>2, <3>2, <3>3, Zenon
    <3>5. QED
      BY <1>4, <3>4
  <2>3. QED
    BY <2>1, <2>2
<1>5. QED
  BY <1>1, <1>3, <1>4 DEF ScanOuts

-----------------------------------------------------------------------------
(* Rewrites: the kernels for a score put in its place.                     *)

\* The kernels the score rewrites introduce, in the place of A, Aqk_c or o_intra.
LEMMA FusedNode ==
  ASSUME NEW f \in {"gdn", "kda"}, NEW x \in {"A", "Aqk_c", "o_intra"},
         NEW kernel, NEW ins,
         ToSet(ins) \subseteq {"qF", "kF", "vn_flat", "g_native", "beta_native",
                               "beta_native_ones", "coef_ag", "coef_bg"}
  PROVE  LET n == Fused(kernel, ins, <<x>>)
         IN /\ n.outs = <<x>> /\ NodeOK(f, n)
            /\ Needs(f, n) \subseteq ToSet(ins) \cup (IF x = "A" THEN {} ELSE {"vn_flat"})
<1> DEFINE n == Fused(kernel, ins, <<x>>)
<1>1. n.outs = <<x>> /\ n.ins = ins /\ n.kind = "fused"
  BY NodeFields
<1> HIDE DEF n
<1>2. n.outs[1] = x /\ ToSet(n.outs) = {x}
  BY <1>1, ToSetOfTuple
<1>3. x \in WholeNames /\ ToSet(ins) \subseteq WholeNames
  BY DEF WholeNames
<1>4. x \notin ScanOuts(f) /\ ToSet(ins) \cap ScanOuts(f) \subseteq {"h_flat", "vn_flat"}
  BY <1>3, ScanNamesApart
<1>5. GdnNode(n) /\ KdaNode(n)
  BY <1>1, <1>2 DEF GdnNode, KdaNode, IsScore, Is, Reads
<1>6. NodeOK(f, n)
  BY <1>1, <1>2, <1>4, <1>5 DEF NodeOK
<1>7. Needs(f, n) \subseteq ToSet(ins) \cup (IF x = "A" THEN {} ELSE {"vn_flat"})
  BY <1>1, <1>2, <1>4 DEF Needs, LateNames
<1>8. QED
  BY <1>1, <1>6, <1>7 DEF n

\* The site a rewrite takes first is one of the scores.
LEMMA SiteFacts ==
  ASSUME NEW f, NEW p, ProgramOK(f, p), NEW sites, sites \subseteq Scores(p), sites # {}
  PROVE  First(sites) \in sites /\ First(sites) \in Scores(p) /\ First(sites) \in DOMAIN p.nodes
<1>1. Scores(p) \subseteq DOMAIN p.nodes
  BY DEF Scores
<1>2. DOMAIN p.nodes \subseteq Nat
  BY ProgFacts
<1>3. First(sites) \in sites
  BY <1>1, <1>2, FirstFacts
<1>4. QED
  BY <1>1, <1>3

\* One turn of the epilogue generator.
LEMMA EmitOK ==
  ASSUME NEW f \in Families, NEW p, ProgramOK(f, p), Sites(p) # {}
  PROVE  ProgramOK(f, Emit(p))
<1> DEFINE i == First(Sites(p))
           node(kernel, ins) == Fused(kernel, ins, <<BoundaryOut(p, i)>>)
<1>1. i \in Sites(p) /\ i \in Scores(p) /\ i \in DOMAIN p.nodes
  <2>1. Sites(p) \subseteq Scores(p)
    BY DEF Sites
  <2>2. QED
    BY <2>1, SiteFacts
<1>2. KktSite(p, i) \/ ChunkOSite(p, i) \/ PrologueSite(p, i)
  BY <1>1 DEF Sites
<1>3. p.inputs = Forward(f).inputs /\ p.outputs = Forward(f).outputs
  BY ProgFacts
<1>4. CASE KktSite(p, i)
  <2> DEFINE ins == <<"kF", "g_native", "beta_native">>
             n == Fused("kkt_gated_native", ins, <<"A">>)
             drop == Unit(p, i)
  <2>1. f = "gdn"
    BY <1>1, <1>4, NoKktOrChunkO
  <2>2. /\ BoundaryOut(p, i) = "A" /\ i \in drop /\ drop \subseteq DOMAIN p.nodes
        /\ Private(p, drop, {"A"})
    BY <1>1, <1>4, <2>1, GdnKkt
  <2>3. Emit(p) = Splice(p, drop, <<n>>)
    BY <1>4, <2>2 DEF Emit, KktSite, ChunkOSite, PrologueSite
  <2>4. ToSet(ins) = {"kF", "g_native", "beta_native"}
    BY ToSetOfTuple
  <2> HIDE DEF ins
  <2>5. n.outs = <<"A">> /\ NodeOK(f, n) /\ Needs(f, n) \subseteq ToSet(ins)
    BY <2>1, <2>4, FusedNode
  <2>6. Needs(f, n) \subseteq p.inputs \cup Before(p.nodes, First(drop))
    BY <1>3, <2>1, <2>4, <2>5, ForwardNames
  <2>7. p.outputs = {"o"}
    BY <1>3, <2>1, ForwardNames
  <2> HIDE DEF n, drop
  <2>8. ProgramOK(f, Splice(p, drop, <<n>>))
    BY <2>2, <2>5, <2>6, <2>7, FuseOK
  <2>9. QED
    BY <2>3, <2>8
<1>5. CASE ChunkOSite(p, i)
  <2> DEFINE ins == <<"qF", "kF", "g_native", "beta_native_ones">>
             n == Fused("gated_qk_native", ins, <<"Aqk_c">>)
             drop == Unit(p, i)
  <2>1. f = "gdn"
    BY <1>1, <1>5, NoKktOrChunkO
  <2>2. /\ BoundaryOut(p, i) = "Aqk_c" /\ i \in drop /\ drop \subseteq DOMAIN p.nodes
        /\ Private(p, drop, {"Aqk_c"})
        /\ \A j \in drop : p.nodes[j].outs[1] \in LateNames
    BY <1>1, <1>5, <2>1, GdnChunkO
  <2>3. Emit(p) = Splice(p, drop, <<n>>)
    <3>1. ~ KktSite(p, i) /\ ~ PrologueSite(p, i)
      <4>1. <<"kF", "kF">> # <<"qF", "kF">>
        OBVIOUS
      <4>2. ~ KktSite(p, i)
        BY <1>5, <4>1 DEF KktSite, ChunkOSite
      <4>3. QED
        BY <1>1, <2>1, <4>2, NoPrologue
    <3>2. QED
      BY <1>5, <2>2, <3>1 DEF Emit
  <2>4. ToSet(ins) = {"qF", "kF", "g_native", "beta_native_ones"}
    BY ToSetOfTuple
  <2> HIDE DEF ins
  <2>5. n.outs = <<"Aqk_c">> /\ NodeOK(f, n) /\ Needs(f, n) \subseteq ToSet(ins) \cup {"vn_flat"}
    BY <2>1, <2>4, FusedNode
  <2> HIDE DEF n, drop
  <2>6. "vn_flat" \in p.inputs \cup Before(p.nodes, First(drop))
    BY <2>1, <2>2, LateFirst
  <2>7. Needs(f, n) \subseteq p.inputs \cup Before(p.nodes, First(drop))
    BY <1>3, <2>1, <2>4, <2>5, <2>6, ForwardNames
  <2>8. p.outputs = {"o"}
    BY <1>3, <2>1, ForwardNames
  <2>9. ProgramOK(f, Splice(p, drop, <<n>>))
    BY <2>2, <2>5, <2>7, <2>8, FuseOK
  <2>10. QED
    BY <2>3, <2>9
<1>6. CASE PrologueSite(p, i)
  <2> DEFINE ins == <<"qF", "kF", "coef_ag", "coef_bg">>
             n == Fused("qk_prologue", ins, <<"Aqk_c">>)
             drop == Unit(p, i) \cup Prescale(p, i)
  <2>1. f = "kda"
    BY <1>1, <1>6, NoPrologue
  <2>2. /\ BoundaryOut(p, i) = "Aqk_c" /\ i \in drop /\ drop \subseteq DOMAIN p.nodes
        /\ Private(p, drop, {"Aqk_c"})
        /\ \A j \in drop : p.nodes[j].outs[1] \in LateNames
    BY <1>1, <1>6, <2>1, KdaPrologue
  <2>3. Emit(p) = Splice(p, drop, <<n>>)
    <3>1. ~ KktSite(p, i) /\ ~ ChunkOSite(p, i)
      BY <1>1, <2>1, NoKktOrChunkO
    <3>2. QED
      BY <1>6, <2>2, <3>1 DEF Emit
  <2>4. ToSet(ins) = {"qF", "kF", "coef_ag", "coef_bg"}
    BY ToSetOfTuple
  <2> HIDE DEF ins
  <2>5. n.outs = <<"Aqk_c">> /\ NodeOK(f, n) /\ Needs(f, n) \subseteq ToSet(ins) \cup {"vn_flat"}
    BY <2>1, <2>4, FusedNode
  <2> HIDE DEF n, drop
  <2>6. "vn_flat" \in p.inputs \cup Before(p.nodes, First(drop))
    BY <2>1, <2>2, LateFirst
  <2>7. Needs(f, n) \subseteq p.inputs \cup Before(p.nodes, First(drop))
    BY <1>3, <2>1, <2>4, <2>5, <2>6, ForwardNames
  <2>8. p.outputs = {"o"}
    BY <1>3, <2>1, ForwardNames
  <2>9. ProgramOK(f, Splice(p, drop, <<n>>))
    BY <2>2, <2>5, <2>7, <2>8, FuseOK
  <2>10. QED
    BY <2>3, <2>9
<1>7. QED
  BY <1>2, <1>4, <1>5, <1>6

\* Score and output in one kernel, for either of the two sites that end in Aqk_c.
LEMMA FlashOK ==
  ASSUME NEW f \in {"gdn", "kda"}, NEW p, ProgramOK(f, p), NEW i, NEW extra, NEW kernel, NEW g, NEW h,
         BoundaryOut(p, i) = "Aqk_c", i \in Unit(p, i) \cup extra, FeedsOutput(p, i),
         Unit(p, i) \cup extra \subseteq DOMAIN p.nodes,
         Private(p, Unit(p, i) \cup extra, {"Aqk_c"}),
         \A j \in Unit(p, i) \cup extra : p.nodes[j].outs[1] \in LateNames,
         {g, h} \subseteq p.inputs \cap {"g_native", "beta_native_ones", "coef_ag", "coef_bg"}
  PROVE  ProgramOK(f, FuseOutput(p, i, kernel, <<g, h>>, extra))
<1> DEFINE c == TheConsumer(p, "Aqk_c")
           ins == <<"qF", "kF", "vn_flat">> \o <<g, h>>
           n == Fused(kernel, ins, <<"o_intra">>)
           drop == Unit(p, i) \cup {c} \cup extra
<1>1. IsSeq(p.nodes) /\ p.inputs = Forward(f).inputs /\ p.outputs = Forward(f).outputs
  BY ProgFacts
<1>2. SingleConsumer(p, "Aqk_c")
  BY DEF FeedsOutput
<1>3. c \in DOMAIN p.nodes /\ Reads(p.nodes[c], "Aqk_c") /\ Consumers(p, "Aqk_c") = {c}
  BY <1>1, <1>2, SingleFacts DEF Reads
<1>4. NodeOK(f, p.nodes[c])
  BY <1>3, ProgFacts
<1>5. p.nodes[c].outs[1] = "o_intra" /\ p.nodes[c].ins[2] = "vn_flat"
  BY <1>3, <1>4 DEF NodeOK, GdnNode, KdaNode
<1>6. p.nodes[c].outs = <<"o_intra">>
  BY <1>3, <1>5, OutFacts
<1>7. FuseOutput(p, i, kernel, <<g, h>>, extra) = Splice(p, drop, <<n>>)
  BY <1>5, <1>6, Zenon DEF FuseOutput
<1>8. ToSet(ins) = {"qF", "kF", "vn_flat", g, h}
  <2>1. IsSeq(<<"qF", "kF", "vn_flat">>) /\ IsSeq(<<g, h>>)
    BY TupleIsSeq
  <2>2. ToSet(ins) = ToSet(<<"qF", "kF", "vn_flat">>) \cup ToSet(<<g, h>>)
    BY <2>1, ConcatFacts
  <2>3. QED
    BY <2>2, ToSetOfTuple
<1> HIDE DEF ins
<1>9. n.outs = <<"o_intra">> /\ NodeOK(f, n) /\ Needs(f, n) \subseteq ToSet(ins) \cup {"vn_flat"}
  BY <1>8, FusedNode
<1> HIDE DEF n, c
<1>10. drop \subseteq DOMAIN p.nodes /\ drop # {} /\ \A j \in drop : p.nodes[j].outs[1] \in LateNames
  BY <1>3, <1>5 DEF LateNames
<1>11. Private(p, drop, {"o_intra"})
  <2> SUFFICES ASSUME NEW j \in drop
               PROVE  \E x : /\ p.nodes[j].outs = <<x>>
                             /\ \/ x \in {"o_intra"}
                                \/ /\ x \notin {"o", "vn_flat"} \cup ScanReads
                                   /\ Consumers(p, x) \subseteq drop
    BY DEF Private
  <2>1. CASE j = c
    BY <1>6, <2>1
  <2>2. CASE j # c
    <3>1. PICK x : /\ p.nodes[j].outs = <<x>>
                   /\ \/ x \in {"Aqk_c"}
                      \/ /\ x \notin {"o", "vn_flat"} \cup ScanReads
                         /\ Consumers(p, x) \subseteq Unit(p, i) \cup extra
      BY <2>2 DEF Private
    <3>2. CASE x = "Aqk_c"
      BY <1>3, <3>1, <3>2 DEF ScanReads
    <3>3. CASE x # "Aqk_c"
      BY <3>1, <3>3
    <3>4. QED
      BY <3>2, <3>3
  <2>3. QED
    BY <2>1, <2>2
<1> HIDE DEF drop
<1>12. "vn_flat" \in p.inputs \cup Before(p.nodes, First(drop))
  BY <1>10, LateFirst
<1>13. {"qF", "kF"} \subseteq p.inputs /\ p.outputs = {"o"}
  BY <1>1, ForwardNames
<1>14. Needs(f, n) \subseteq p.inputs \cup Before(p.nodes, First(drop))
  BY <1>8, <1>9, <1>12, <1>13
<1>15. ProgramOK(f, Splice(p, drop, <<n>>))
  BY <1>9, <1>10, <1>11, <1>13, <1>14, FuseOK
<1>16. QED
  BY <1>7, <1>15

\* Lowering GDN's output to qkv_flash_native keeps the program right.
LEMMA GdnFlashOK ==
  ASSUME NEW f \in Families, NEW p, ProgramOK(f, p), FlashSites(p) # {}
  PROVE  ProgramOK(f, FuseOutput(p, First(FlashSites(p)), "qkv_flash_native",
                                 <<"g_native", "beta_native_ones">>, {}))
<1> DEFINE i == First(FlashSites(p))
<1>1. i \in FlashSites(p) /\ i \in Scores(p)
  <2>1. FlashSites(p) \subseteq Scores(p)
    BY DEF FlashSites
  <2>2. QED
    BY <2>1, SiteFacts
<1>2. ChunkOSite(p, i) /\ FeedsOutput(p, i)
  BY <1>1 DEF FlashSites
<1> HIDE DEF i
<1>3. f = "gdn"
  BY <1>1, <1>2, NoKktOrChunkO
<1>4. /\ BoundaryOut(p, i) = "Aqk_c" /\ i \in Unit(p, i) /\ Unit(p, i) \subseteq DOMAIN p.nodes
      /\ Private(p, Unit(p, i), {"Aqk_c"})
      /\ \A j \in Unit(p, i) : p.nodes[j].outs[1] \in LateNames
  BY <1>1, <1>2, <1>3, GdnChunkO
<1>5. {"g_native", "beta_native_ones"} \subseteq p.inputs
  BY <1>3, ProgFacts, ForwardNames
<1>6. Unit(p, i) \cup {} = Unit(p, i)
  OBVIOUS
<1>7. ProgramOK(f, FuseOutput(p, i, "qkv_flash_native", <<"g_native", "beta_native_ones">>, {}))
  BY <1>2, <1>3, <1>4, <1>5, <1>6, FlashOK
<1>8. QED
  BY <1>7 DEF i

\* Lowering KDA's output to qkvp_flash_native keeps the program right, though the
\* prescaled operand it drops may be another node's.
LEMMA KdaFlashOK ==
  ASSUME NEW f \in Families, NEW p, ProgramOK(f, p), PerDimSites(p) # {}
  PROVE  ProgramOK(f, FuseOutput(p, First(PerDimSites(p)), "qkvp_flash_native",
                                 <<"coef_ag", "coef_bg">>, Prescale(p, First(PerDimSites(p)))))
<1> DEFINE i == First(PerDimSites(p))
<1>1. i \in PerDimSites(p) /\ i \in Scores(p)
  <2>1. PerDimSites(p) \subseteq Scores(p)
    BY DEF PerDimSites
  <2>2. QED
    BY <2>1, SiteFacts
<1>2. PrologueSite(p, i) /\ FeedsOutput(p, i)
  BY <1>1 DEF PerDimSites
<1> HIDE DEF i
<1>3. f = "kda"
  BY <1>1, <1>2, NoPrologue
<1>4. /\ BoundaryOut(p, i) = "Aqk_c" /\ i \in Unit(p, i)
      /\ Unit(p, i) \cup Prescale(p, i) \subseteq DOMAIN p.nodes
      /\ Private(p, Unit(p, i) \cup Prescale(p, i), {"Aqk_c"})
      /\ \A j \in Unit(p, i) \cup Prescale(p, i) : p.nodes[j].outs[1] \in LateNames
  BY <1>1, <1>2, <1>3, KdaPrologue
<1>5. {"coef_ag", "coef_bg"} \subseteq p.inputs
  BY <1>3, ProgFacts, ForwardNames
<1>6. ProgramOK(f, FuseOutput(p, i, "qkvp_flash_native", <<"coef_ag", "coef_bg">>, Prescale(p, i)))
  BY <1>2, <1>3, <1>4, <1>5, FlashOK
<1>7. QED
  BY <1>6 DEF i

-----------------------------------------------------------------------------
(* Rewrites: the resident scan put in the place of the chunks.             *)

\* A node no epilogue is made of: one between whole tensors, or one the
\* resident scan takes away.
Fits(f, x, reads, B, C) ==
  /\ reads \subseteq B /\ C \subseteq B \cup {x} /\ reads \cap (Special \cup {"o"}) = {}
  /\ x \notin LateNames \cup {"a_op"}
  /\ \/ /\ x \in WholeNames /\ reads \subseteq WholeNames \ {"h_bh", "vn_bh"}
        /\ x \in {"h_bh", "h_flat", "vn_bh", "vn_flat"} => ScanReads \subseteq B
     \/ f \in {"gdn", "kda"} => x \in ScanOuts(f) /\ ScanReads \subseteq B

\* A node that fits can be added.
LEMMA FitsAdds ==
  ASSUME NEW f, NEW n, NEW x, NEW B, NEW C, n.outs = <<x>>, ~ IsScore(n),
         Fits(f, x, ToSet(n.ins), B, C)
  PROVE  Adds(f, n, B, C)
<1>1. /\ x \notin LateNames \cup {"a_op"} /\ ToSet(n.ins) \cap (Special \cup {"o"}) = {}
      /\ ToSet(n.ins) \subseteq B /\ C \subseteq B \cup {x}
  BY DEF Fits
<1>2. /\ x \in ScanOuts(f) \/ ToSet(n.ins) \cap ScanOuts(f) \subseteq {"h_flat", "vn_flat"}
      /\ x \in ScanOuts(f) => ScanReads \subseteq B
  <2>1. CASE /\ x \in WholeNames /\ ToSet(n.ins) \subseteq WholeNames \ {"h_bh", "vn_bh"}
             /\ x \in {"h_bh", "h_flat", "vn_bh", "vn_flat"} => ScanReads \subseteq B
    BY <2>1, ScanNamesApart
  <2>2. CASE f \in {"gdn", "kda"} => x \in ScanOuts(f) /\ ScanReads \subseteq B
    BY <2>2 DEF ScanOuts
  <2>3. QED
    BY <2>1, <2>2 DEF Fits
<1>3. QED
  BY <1>1, <1>2, PlainNode

\* The nodes that fit, by class.
LEMMA AddsNode ==
  ASSUME NEW f, NEW B, NEW C
  PROVE  /\ \A x, op, a : Fits(f, x, {a}, B, C) =>
              /\ Adds(f, Plumb(x, op, <<a>>), B, C) /\ Adds(f, Glue(x, op, <<a>>), B, C)
              /\ Adds(f, Opaque(x, op, a), B, C)
              /\ \A d : Adds(f, Slice(x, a, d), B, C) /\ Adds(f, Tril(x, a, d), B, C)
         /\ \A x, op, a, b : Fits(f, x, {a, b}, B, C) =>
              /\ Adds(f, Glue(x, op, <<a, b>>), B, C)
              /\ op # "nid,njd->nij" => Adds(f, Einsum(x, op, a, b), B, C)
<1>1. ASSUME NEW x, NEW op, NEW a, Fits(f, x, {a}, B, C)
      PROVE  Adds(f, Plumb(x, op, <<a>>), B, C)
  <2> DEFINE n == Plumb(x, op, <<a>>)
  <2>1. n.outs = <<x>> /\ n.ins = <<a>> /\ n.kind = "plumb"
    BY NodeFields
  <2>2. ToSet(n.ins) = {a}
    BY <2>1, ToSetOfTuple
  <2> HIDE DEF n
  <2>3. ~ IsScore(n)
    BY <2>1 DEF IsScore, Is
  <2>4. Adds(f, n, B, C)
    BY <1>1, <2>1, <2>2, <2>3, FitsAdds
  <2>5. QED
    BY <2>4 DEF n
<1>2. ASSUME NEW x, NEW op, NEW a, Fits(f, x, {a}, B, C)
      PROVE  Adds(f, Glue(x, op, <<a>>), B, C)
  <2> DEFINE n == Glue(x, op, <<a>>)
  <2>1. n.outs = <<x>> /\ n.ins = <<a>> /\ n.kind = "glue"
    BY NodeFields
  <2>2. ToSet(n.ins) = {a}
    BY <2>1, ToSetOfTuple
  <2> HIDE DEF n
  <2>3. ~ IsScore(n)
    BY <2>1 DEF IsScore, Is
  <2>4. Adds(f, n, B, C)
    BY <1>2, <2>1, <2>2, <2>3, FitsAdds
  <2>5. QED
    BY <2>4 DEF n
<1>3. ASSUME NEW x, NEW op, NEW a, Fits(f, x, {a}, B, C)
      PROVE  Adds(f, Opaque(x, op, a), B, C)
  <2> DEFINE n == Opaque(x, op, a)
  <2>1. n.outs = <<x>> /\ n.ins = <<a>> /\ n.kind = "opaque"
    BY NodeFields
  <2>2. ToSet(n.ins) = {a}
    BY <2>1, ToSetOfTuple
  <2> HIDE DEF n
  <2>3. ~ IsScore(n)
    BY <2>1 DEF IsScore, Is
  <2>4. Adds(f, n, B, C)
    BY <1>3, <2>1, <2>2, <2>3, FitsAdds
  <2>5. QED
    BY <2>4 DEF n
<1>4. ASSUME NEW x, NEW op, NEW a, NEW b, Fits(f, x, {a, b}, B, C)
      PROVE  Adds(f, Glue(x, op, <<a, b>>), B, C)
  <2> DEFINE n == Glue(x, op, <<a, b>>)
  <2>1. n.outs = <<x>> /\ n.ins = <<a, b>> /\ n.kind = "glue"
    BY NodeFields
  <2>2. ToSet(n.ins) = {a, b}
    BY <2>1, ToSetOfTuple
  <2> HIDE DEF n
  <2>3. ~ IsScore(n)
    BY <2>1 DEF IsScore, Is
  <2>4. Adds(f, n, B, C)
    BY <1>4, <2>1, <2>2, <2>3, FitsAdds
  <2>5. QED
    BY <2>4 DEF n
<1>5. ASSUME NEW x, NEW op, NEW a, NEW b, op # "nid,njd->nij", Fits(f, x, {a, b}, B, C)
      PROVE  Adds(f, Einsum(x, op, a, b), B, C)
  <2> DEFINE n == Einsum(x, op, a, b)
  <2>1. n.outs = <<x>> /\ n.ins = <<a, b>> /\ n.kind = "einsum" /\ n.op = op
    BY NodeFields
  <2>2. ToSet(n.ins) = {a, b}
    BY <2>1, ToSetOfTuple
  <2> HIDE DEF n
  <2>3. ~ IsScore(n)
    BY <2>1, <1>5 DEF IsScore, Is
  <2>4. Adds(f, n, B, C)
    BY <1>5, <2>1, <2>2, <2>3, FitsAdds
  <2>5. QED
    BY <2>4 DEF n
<1>6. ASSUME NEW x, NEW a, NEW d, Fits(f, x, {a}, B, C)
      PROVE  Adds(f, Slice(x, a, d), B, C)
  <2> DEFINE n == Slice(x, a, d)
  <2>1. n.outs = <<x>> /\ n.ins = <<a>> /\ n.kind = "plumb"
    BY NodeFields
  <2>2. ToSet(n.ins) = {a}
    BY <2>1, ToSetOfTuple
  <2> HIDE DEF n
  <2>3. ~ IsScore(n)
    BY <2>1 DEF IsScore, Is
  <2>4. Adds(f, n, B, C)
    BY <1>6, <2>1, <2>2, <2>3, FitsAdds
  <2>5. QED
    BY <2>4 DEF n
<1>7. ASSUME NEW x, NEW a, NEW d, Fits(f, x, {a}, B, C)
      PROVE  Adds(f, Tril(x, a, d), B, C)
  <2> DEFINE n == Tril(x, a, d)
  <2>1. n.outs = <<x>> /\ n.ins = <<a>> /\ n.kind = "glue"
    BY NodeFields
  <2>2. ToSet(n.ins) = {a}
    BY <2>1, ToSetOfTuple
  <2> HIDE DEF n
  <2>3. ~ IsScore(n)
    BY <2>1 DEF IsScore, Is
  <2>4. Adds(f, n, B, C)
    BY <1>7, <2>1, <2>2, <2>3, FitsAdds
  <2>5. QED
    BY <2>4 DEF n
<1>8. QED
  BY <1>1, <1>2, <1>3, <1>4, <1>5, <1>6, <1>7

\* The kernel of the resident scan binds two tensors.
LEMMA ScanNode ==
  ASSUME NEW f \in {"gdn", "kda"}, NEW B, NEW C,
         {"sw", "su", "sk", "sdecay"} \subseteq B, C \subseteq B \cup {"h_out_k", "final_k"}
  PROVE  Adds(f, Fused("chunk_h_scan", <<"sw", "su", "sk", "sdecay">>, <<"h_out_k", "final_k">>), B, C)
<1> DEFINE n == Fused("chunk_h_scan", <<"sw", "su", "sk", "sdecay">>, <<"h_out_k", "final_k">>)
<1>1. /\ n.outs = <<"h_out_k", "final_k">> /\ n.ins = <<"sw", "su", "sk", "sdecay">>
      /\ n.kind = "fused"
  BY NodeFields
<1> HIDE DEF n
<1>2. /\ ToSet(n.outs) = {"h_out_k", "final_k"} /\ ToSet(n.ins) = {"sw", "su", "sk", "sdecay"}
      /\ n.outs[1] = "h_out_k"
  BY <1>1, ToSetOfTuple
<1>3. {"sw", "su", "sk", "sdecay", "h_out_k"} \subseteq WholeNames
  BY DEF WholeNames
<1>4. \A x \in {"sw", "su", "sk", "sdecay", "h_out_k"} : x \notin ScanOuts(f)
  BY <1>3, ScanNamesApart
<1>5. GdnNode(n) /\ KdaNode(n)
  BY <1>1, <1>2 DEF GdnNode, KdaNode, IsScore, Is, Reads
<1>6. NodeOK(f, n)
  BY <1>1, <1>2, <1>4, <1>5 DEF NodeOK
<1>7. Needs(f, n) \subseteq B
  BY <1>2, <1>4 DEF Needs, LateNames
<1>8. QED
  BY <1>2, <1>6, <1>7 DEF Adds, n

\* The nodes the resident scan puts in the place of the chunks.
ScanNodes(coef) ==
  LET view(i, via, dst) ==
        << Plumb(via, "reshape", <<ScanSources[i]>>), Plumb(dst, "toTokens", <<via>>) >>
  IN << Glue("k_scaled", "mul", <<"kb5", coef>>) >>
       \o view(1, "sw5", "sw") \o view(2, "su5", "su") \o view(3, "sk5", "sk")
       \o << Plumb("sdecay", "reshape", <<"coef_S">>),
             Fused("chunk_h_scan", <<"sw", "su", "sk", "sdecay">>, <<"h_out_k", "final_k">>),
             Plumb("h_bhn", "fromTokens", <<"h_out_k">>), Plumb("h_flat", "reshape", <<"h_bhn">>),
             [Einsum("WS_all", "nid,nde->nie", "W_m", "h_flat")
                EXCEPT !.read = "NN", !.fuse = FALSE],
             Glue("vn_flat", "sub", <<"U_m", "WS_all">>) >>

\* The nodes of the resident scan find what they need, and bind both results the
\* rest of the program reads.
LEMMA ScanNodesBuild ==
  ASSUME NEW f \in {"gdn", "kda"}, NEW coef \in {"coef_vcs", "coef_krest"},
         NEW B, ScanReads \cup {coef, "coef_S"} \subseteq B
  PROVE  Builds(f, ScanNodes(coef), B, {"h_flat", "vn_flat"})
<1> DEFINE B1 == B \cup {"k_scaled"}
           B2 == B1 \cup {"sw"}
           B3 == B2 \cup {"su"}
           B4 == B3 \cup {"sk"}
           B5 == B4 \cup {"h_flat"}
           view(src, via, dst) ==
             << Plumb(via, "reshape", <<src>>), Plumb(dst, "toTokens", <<via>>) >>
           s1 == << Glue("k_scaled", "mul", <<"kb5", coef>>) >>
           s5 == << Plumb("sdecay", "reshape", <<"coef_S">>),
                    Fused("chunk_h_scan", <<"sw", "su", "sk", "sdecay">>, <<"h_out_k", "final_k">>),
                    Plumb("h_bhn", "fromTokens", <<"h_out_k">>),
                    Plumb("h_flat", "reshape", <<"h_bhn">>) >>
           ws == [Einsum("WS_all", "nid,nde->nie", "W_m", "h_flat")
                    EXCEPT !.read = "NN", !.fuse = FALSE]
           s6 == << ws, Glue("vn_flat", "sub", <<"U_m", "WS_all">>) >>
           s7 == << Plumb("sdecay", "reshape", <<"coef_S">>),
                    Fused("chunk_h_scan", <<"sw", "su", "sk", "sdecay">>, <<"h_out_k", "final_k">>),
                    Plumb("h_bhn", "fromTokens", <<"h_out_k">>),
                    Plumb("h_flat", "reshape", <<"h_bhn">>),
                    ws, Glue("vn_flat", "sub", <<"U_m", "WS_all">>) >>
<1>1. ScanReads = {"Wb", "Ub", "kb5", "W_m", "U_m"}
  BY DEF ScanReads
<1>2. Builds(f, s1, B, B1)
  <2>1. Fits(f, "k_scaled", {"kb5", coef}, B, B1)
    BY <1>1 DEF Fits, WholeNames, LateNames, Special
  <2>2. QED
    BY <2>1, AddsNode, BuildsNode
<1>3. Builds(f, view("Wb", "sw5", "sw"), B1, B2)
  <2>1. Fits(f, "sw5", {"Wb"}, B1, B1 \cup {"sw5"}) /\ Fits(f, "sw", {"sw5"}, B1 \cup {"sw5"}, B2)
    BY <1>1 DEF Fits, WholeNames, LateNames, Special
  <2>2. QED
    BY <2>1, AddsNode, BuildsTuple
<1>4. Builds(f, view("Ub", "su5", "su"), B2, B3)
  <2>1. Fits(f, "su5", {"Ub"}, B2, B2 \cup {"su5"}) /\ Fits(f, "su", {"su5"}, B2 \cup {"su5"}, B3)
    BY <1>1 DEF Fits, WholeNames, LateNames, Special
  <2>2. QED
    BY <2>1, AddsNode, BuildsTuple
<1>5. Builds(f, view("k_scaled", "sk5", "sk"), B3, B4)
  <2>1. Fits(f, "sk5", {"k_scaled"}, B3, B3 \cup {"sk5"}) /\ Fits(f, "sk", {"sk5"}, B3 \cup {"sk5"}, B4)
    BY <1>1 DEF Fits, WholeNames, LateNames, Special
  <2>2. QED
    BY <2>1, AddsNode, BuildsTuple
<1>6. Builds(f, s5, B4, B5)
  <2> DEFINE C1 == B4 \cup {"sdecay"}
             C2 == C1 \cup {"h_out_k"}
             C3 == C2 \cup {"h_bhn"}
  <2>1. Fits(f, "sdecay", {"coef_S"}, B4, C1)
    BY <1>1 DEF Fits, WholeNames, LateNames, Special
  <2>2. Adds(f, Fused("chunk_h_scan", <<"sw", "su", "sk", "sdecay">>, <<"h_out_k", "final_k">>), C1, C2)
    <3>1. {"sw", "su", "sk", "sdecay"} \subseteq C1 /\ C2 \subseteq C1 \cup {"h_out_k", "final_k"}
      OBVIOUS
    <3> HIDE DEF C1, C2
    <3>2. QED
      BY <3>1, ScanNode
  <2>3. Fits(f, "h_bhn", {"h_out_k"}, C2, C3) /\ Fits(f, "h_flat", {"h_bhn"}, C3, B5)
    BY <1>1 DEF Fits, WholeNames, LateNames, Special
  <2> HIDE DEF B4, B5, C1, C2, C3
  <2>4. QED
    BY <2>1, <2>2, <2>3, AddsNode, BuildsTuple
<1>7. Builds(f, s6, B5, {"h_flat", "vn_flat"})
  <2> DEFINE C1 == B5 \cup {"WS_all"}
             vn == Glue("vn_flat", "sub", <<"U_m", "WS_all">>)
  <2>1. /\ ws.outs = <<"WS_all">> /\ ws.ins = <<"W_m", "h_flat">>
        /\ ToSet(ws.ins) = {"W_m", "h_flat"} /\ ~ IsScore(ws)
    <3>1. ws.outs = <<"WS_all">> /\ ws.ins = <<"W_m", "h_flat">>
      BY DEF Einsum, Node
    <3>2. ws.op = "nid,nde->nie"
      BY DEF Einsum, Node
    <3> HIDE DEF ws
    <3>3. ToSet(ws.ins) = {"W_m", "h_flat"}
      BY <3>1, ToSetOfTuple
    <3>4. ~ IsScore(ws)
      BY <3>2, Zenon DEF IsScore, Is
    <3>5. QED
      BY <3>1, <3>3, <3>4
  <2> HIDE DEF ws
  <2>3. Fits(f, "WS_all", {"W_m", "h_flat"}, B5, C1)
    BY <1>1 DEF Fits, WholeNames, LateNames, Special
  <2>4. Fits(f, "vn_flat", {"U_m", "WS_all"}, C1, {"h_flat", "vn_flat"})
    BY <1>1 DEF Fits, WholeNames, LateNames, Special
  <2> HIDE DEF B5, C1
  <2>5. Adds(f, ws, B5, C1)
    BY <2>1, <2>3, FitsAdds
  <2>6. Adds(f, vn, C1, {"h_flat", "vn_flat"})
    BY <2>4, AddsNode
  <2> HIDE DEF vn
  <2>7. Builds(f, <<ws, vn>>, B5, {"h_flat", "vn_flat"})
    BY <2>5, <2>6, BuildsTuple
  <2>8. QED
    BY <2>7 DEF vn
<1>8. ScanNodes(coef) = s1 \o view("Wb", "sw5", "sw") \o view("Ub", "su5", "su")
                           \o view("k_scaled", "sk5", "sk") \o s7
  <2>1. ScanSources[1] = "Wb" /\ ScanSources[2] = "Ub" /\ ScanSources[3] = "k_scaled"
    BY DEF ScanSources
  <2>2. QED
    BY <2>1, Zenon DEF ScanNodes
<1>9. Builds(f, s7, B4, {"h_flat", "vn_flat"})
  BY <1>6, <1>7, LongBuilds
<1> HIDE DEF B1, B2, B3, B4, B5, view, s1, s5, s6, s7
<1>10. QED
  BY <1>2, <1>3, <1>4, <1>5, <1>8, <1>9, BuildsThen, Zenon

\* Lowering the chunks to the resident scan keeps the program right: no node that
\* stays reads a name of the chunks other than h_flat and vn_flat.
LEMMA ScanOK ==
  ASSUME NEW f \in Families, NEW p, ProgramOK(f, p), NEW coef \in {"coef_vcs", "coef_krest"},
         ScanMatches(p, coef)
  PROVE  ProgramOK(f, LowerScan(p, coef))
<1> DEFINE drop == ScanRegion(p, coef)
           new == ScanNodes(coef)
<1>1. f \in {"gdn", "kda"} /\ ScanOuts(f) = ScanBinds(coef) /\ p.outputs = {"o"}
      /\ {coef, "coef_S"} \subseteq p.inputs
  <2>1. coef \in Forward(f).inputs
    BY ProgFacts DEF ScanMatches
  <2>2. \/ f = "gdn" /\ coef = "coef_vcs"
        \/ f = "kda" /\ coef = "coef_krest"
    BY <2>1, ForwardNames
  <2>3. QED
    BY <2>2, ProgFacts, ForwardNames DEF ScanOuts
<1>2. \A j : j \in drop <=> j \in DOMAIN p.nodes /\ ToSet(p.nodes[j].outs) \cap ScanOuts(f) # {}
  BY <1>1 DEF ScanRegion
<1>3. drop \subseteq DOMAIN p.nodes /\ drop # {}
  <2>1. "S0" \in Produced(p.nodes) /\ "S0" \in ScanOuts(f)
    BY <1>1 DEF ScanMatches, ScanBinds, ScanNames
  <2>2. PICK i \in DOMAIN p.nodes : "S0" \in ToSet(p.nodes[i].outs)
    BY <2>1, ProducedFacts
  <2>3. QED
    BY <1>2, <2>1, <2>2
<1>4. LowerScan(p, coef) = Splice(p, drop, new)
  BY Zenon DEF LowerScan, ScanNodes
<1> HIDE DEF drop, new
<1>5. {"o", "h_out_k", "final_k"} \cap ScanOuts(f) = {}
  <2>1. {"o", "h_out_k", "final_k"} \subseteq WholeNames
    BY DEF WholeNames
  <2>2. QED
    BY <2>1, ScanNamesApart
<1>6. ASSUME NEW j \in drop
      PROVE  \E x \in ScanOuts(f) : p.nodes[j].outs = <<x>>
  <2>1. j \in DOMAIN p.nodes /\ ToSet(p.nodes[j].outs) \cap ScanOuts(f) # {}
    BY <1>2
  <2>2. p.nodes[j].outs = <<p.nodes[j].outs[1]>> \/ p.nodes[j].outs = <<"h_out_k", "final_k">>
    BY <2>1, ProgFacts DEF NodeOK
  <2>3. p.nodes[j].outs # <<"h_out_k", "final_k">>
    BY <1>5, <2>1, ToSetOfTuple
  <2>4. QED
    BY <2>1, <2>2, <2>3, ToSetOfTuple
<1>7. ScanReads \subseteq p.inputs \cup Before(p.nodes, First(drop))
  <2>1. DOMAIN p.nodes \subseteq Nat
    BY ProgFacts
  <2>2. First(drop) \in drop
    BY <1>3, <2>1, FirstFacts
  <2>3. PICK x \in ScanOuts(f) : p.nodes[First(drop)].outs = <<x>>
    BY <1>6, <2>2
  <2>4. ScanReads \subseteq Needs(f, p.nodes[First(drop)])
    BY <2>3 DEF Needs
  <2>5. QED
    BY <1>3, <2>2, <2>4, ProgFacts
<1>8. Builds(f, new, p.inputs \cup Before(p.nodes, First(drop)), {"h_flat", "vn_flat"})
  <2> DEFINE B == p.inputs \cup Before(p.nodes, First(drop))
  <2>1. ScanReads \cup {coef, "coef_S"} \subseteq B
    BY <1>1, <1>7
  <2> HIDE DEF B
  <2>2. Builds(f, ScanNodes(coef), B, {"h_flat", "vn_flat"})
    BY <1>1, <2>1, ScanNodesBuild
  <2>3. QED
    BY <2>2 DEF B, new
<1>9. ASSUME NEW j \in drop, NEW x \in ToSet(p.nodes[j].outs), x \notin {"h_flat", "vn_flat"}
      PROVE  x \notin p.outputs /\ \A i \in DOMAIN p.nodes \ drop : x \notin Needs(f, p.nodes[i])
  <2>1. x \in ScanOuts(f)
    <3>1. PICK y \in ScanOuts(f) : p.nodes[j].outs = <<y>>
      BY <1>6
    <3>2. x = y
      BY <1>9, <3>1, ToSetOfTuple
    <3>3. QED
      BY <3>2
  <2>2. x \notin p.outputs
    BY <1>1, <1>5, <2>1
  <2>3. ASSUME NEW i \in DOMAIN p.nodes \ drop PROVE x \notin Needs(f, p.nodes[i])
    <3>1. ToSet(p.nodes[i].outs) \cap ScanOuts(f) = {}
      BY <1>2
    <3>2. NodeOK(f, p.nodes[i])
      BY ProgFacts
    <3>3. ToSet(p.nodes[i].ins) \cap ScanOuts(f) \subseteq {"h_flat", "vn_flat"}
      BY <3>1, <3>2 DEF NodeOK
    <3>4. p.nodes[i].outs[1] \in ToSet(p.nodes[i].outs)
      <4>1. p.nodes[i].outs = <<p.nodes[i].outs[1]>> \/ p.nodes[i].outs = <<"h_out_k", "final_k">>
        BY <3>2 DEF NodeOK
      <4>2. ToSet(<<p.nodes[i].outs[1]>>) = {p.nodes[i].outs[1]}
        BY ToSetOfTuple
      <4>3. ToSet(<<"h_out_k", "final_k">>) = {"h_out_k", "final_k"}
        BY ToSetOfTuple
      <4>4. CASE p.nodes[i].outs = <<p.nodes[i].outs[1]>>
        BY <4>2, <4>4
      <4>5. CASE p.nodes[i].outs = <<"h_out_k", "final_k">>
        BY <4>3, <4>5
      <4>6. QED
        BY <4>1, <4>4, <4>5
    <3>5. p.nodes[i].outs[1] \notin ScanOuts(f)
      BY <3>1, <3>4
    <3>6. Needs(f, p.nodes[i]) \subseteq ToSet(p.nodes[i].ins) \cup {"vn_flat"}
      BY <3>5 DEF Needs
    <3>7. QED
      BY <1>9, <2>1, <3>3, <3>6
  <2>4. QED
    BY <2>2, <2>3
<1>10. ProgramOK(f, Splice(p, drop, new))
  <2>1. IsSeq(new) /\ \A n \in ToSet(new) : NodeOK(f, n)
    BY <1>8 DEF Builds
  <2>2. Gets(f, new, p.inputs \cup Before(p.nodes, First(drop)))
    BY <1>8 DEF Builds
  <2>3. {"h_flat", "vn_flat"} \subseteq Produced(new)
    <3> DEFINE B == ScanReads \cup {coef, "coef_S"}
    <3>1. "h_flat" \notin B /\ "vn_flat" \notin B /\ ScanReads \cup {coef, "coef_S"} \subseteq B
      BY DEF ScanReads
    <3> HIDE DEF B
    <3>2. Builds(f, ScanNodes(coef), B, {"h_flat", "vn_flat"})
      BY <1>1, <3>1, ScanNodesBuild
    <3>3. QED
      BY <3>1, <3>2 DEF Builds, new
  <2>4. \A j \in drop : \A x \in ToSet(p.nodes[j].outs) :
          \/ x \in Produced(new)
          \/ /\ x \notin p.outputs
             /\ \A i \in DOMAIN p.nodes \ drop : x \notin Needs(f, p.nodes[i])
    BY <1>9, <2>3
  <2>5. QED
    BY <1>3, <2>1, <2>2, <2>4, SpliceOK
<1>11. QED
  BY <1>4, <1>10

-----------------------------------------------------------------------------
(* Rewrites: the chunks' scores batched into one.                          *)

\* The batched score is only found in the linear family.
LEMMA IntraFacts ==
  ASSUME NEW f, NEW p, ProgramOK(f, p), NEW i \in IntraScores(p)
  PROVE  LET t == TrilOfScore(p, i)
         IN /\ f \notin {"gdn", "kda", "deltanet"}
            /\ i \in DOMAIN p.nodes /\ IsScore(p.nodes[i]) /\ t \in DOMAIN p.nodes
            /\ Consumers(p, p.nodes[i].outs[1]) = {t}
<1> DEFINE out(k) == p.nodes[k].outs[1]
           t == TrilOfScore(p, i)
           r == TheConsumer(p, out(t))
<1>1. /\ i \in DOMAIN p.nodes /\ IsScore(p.nodes[i]) /\ IsSeq(p.nodes)
      /\ SingleConsumer(p, out(i)) /\ t = TheConsumer(p, out(i))
      /\ Is(p.nodes[t], "glue", "tril") /\ SingleConsumer(p, out(t))
      /\ Is(p.nodes[r], "einsum", "nij,nje->nie")
  BY ProgFacts DEF IntraScores, Scores, IsScore, TrilOfScore
<1> HIDE DEF t, r
<1>2. Consumers(p, out(i)) = {t} /\ t \in DOMAIN p.nodes /\ Reads(p.nodes[t], out(i))
  BY <1>1, SingleFacts DEF Reads
<1>3. r \in DOMAIN p.nodes /\ Reads(p.nodes[r], out(t))
  BY <1>1, SingleFacts DEF Reads, r
<1>4. p.nodes[t].op = "tril" /\ p.nodes[r].kind = "einsum"
  BY <1>1 DEF Is
<1>5. NodeOK(f, p.nodes[i]) /\ NodeOK(f, p.nodes[t]) /\ NodeOK(f, p.nodes[r])
  BY <1>1, <1>2, <1>3, ProgFacts
<1>6. f # "gdn"
  BY <1>1, <1>2, <1>4, <1>5 DEF NodeOK, GdnNode
<1>7. f # "kda"
  BY <1>1, <1>2, <1>3, <1>4, <1>5 DEF NodeOK, KdaNode
<1>8. f # "deltanet"
  BY <1>1, <1>2, <1>3, <1>4, <1>5 DEF NodeOK, DeltaNode
<1>9. QED
  BY <1>1, <1>2, <1>6, <1>7, <1>8 DEF t

\* What a node of the linear family needs is what it reads.
LEMMA LinearFacts ==
  ASSUME NEW f, f \notin {"gdn", "kda", "deltanet"}, NEW n
  PROVE  /\ NodeOK(f, n) <=> LinearNode(n)
         /\ Needs(f, n) = ToSet(n.ins)
<1>1. ScanOuts(f) = {}
  BY DEF ScanOuts
<1>2. QED
  BY <1>1 DEF NodeOK, Needs, LinearNode

\* Batching the linear family's scores keeps the program right.
LEMMA BatchOK ==
  ASSUME NEW f \in Families, NEW p, ProgramOK(f, p), BatchMatches(p), NEW perDimGate
  PROVE  ProgramOK(f, BatchScores(p, perDimGate))
<1> DEFINE hits == IntraScores(p)
           batched == IF perDimGate THEN Fused("qk_prologue", <<"q", "k", "P", "invP">>, <<"A_all">>)
                      ELSE Fused("gated_qk_native", <<"q", "k", "g_intra", "beta_intra">>, <<"A_all">>)
           view == Plumb("A_allr", "reshape", <<"A_all">>)
           chunk(h) == Cardinality({j \in hits : j < h})
           scoreOf(t) == CHOOSE h \in hits : TrilOfScore(p, h) = t
           slice(i) == Slice(p.nodes[i].outs[1], "A_allr", chunk(scoreOf(i)))
           pieces == [i \in DOMAIN p.nodes |->
                        IF i \in hits THEN <<>>
                        ELSE IF \E h \in hits : i = TrilOfScore(p, h) THEN <<slice(i)>>
                        ELSE <<p.nodes[i]>>]
           S == {slice(i) : i \in DOMAIN p.nodes} \cup {p.nodes[i] : i \in DOMAIN p.nodes}
           B == p.inputs \cup {"A_all", "A_allr"}
<1>1. /\ p.inputs = Forward(f).inputs /\ p.outputs = Forward(f).outputs
      /\ p = Prog(p.nodes, p.inputs, p.outputs) /\ Len(p.nodes) \in Nat
      /\ DOMAIN p.nodes = 1 .. Len(p.nodes) /\ IsSeq(p.nodes)
  BY ProgFacts
<1>2. f \notin {"gdn", "kda", "deltanet"}
  <2>1. PICK i \in IntraScores(p) : TRUE
    BY DEF BatchMatches
  <2>2. QED
    BY <2>1, IntraFacts
<1>3. /\ {"q", "k", "P", "invP", "g_intra", "beta_intra"} \subseteq p.inputs
      /\ p.outputs = {"o"}
  BY <1>1, <1>2, ForwardNames
<1>4. \A n : (NodeOK(f, n) <=> LinearNode(n)) /\ Needs(f, n) = ToSet(n.ins)
  BY <1>2, LinearFacts
<1>5. \A i \in DOMAIN p.nodes :
        /\ LinearNode(p.nodes[i]) /\ p.nodes[i].outs = <<p.nodes[i].outs[1]>>
        /\ ToSet(p.nodes[i].ins) \subseteq p.inputs \cup Before(p.nodes, i)
  BY <1>4, ProgFacts DEF LinearNode
<1>6. \A i \in DOMAIN p.nodes : ToSet(p.nodes[i].outs) = {p.nodes[i].outs[1]}
  BY <1>5, ToSetOfTuple, Zenon
<1>7. \A h \in hits : /\ h \in DOMAIN p.nodes /\ IsScore(p.nodes[h]) /\ TrilOfScore(p, h) \in DOMAIN p.nodes
                      /\ Consumers(p, p.nodes[h].outs[1]) = {TrilOfScore(p, h)}
  BY IntraFacts
<1>8. BatchScores(p, perDimGate) = Prog(<<batched, view>> \o FlattenSeq(pieces), p.inputs, p.outputs)
  <2>1. BatchScores(p, perDimGate) = [p EXCEPT !.nodes = <<batched, view>> \o FlattenSeq(pieces)]
    BY Zenon DEF BatchScores
  <2> DEFINE new == <<batched, view>> \o FlattenSeq(pieces)
  <2> HIDE DEF new
  <2>2. [p EXCEPT !.nodes = new] = Prog(new, p.inputs, p.outputs)
    BY <1>1 DEF Prog
  <2>3. QED
    BY <2>1, <2>2 DEF new
<1> HIDE DEF hits
<1>9. ASSUME NEW i \in DOMAIN p.nodes
      PROVE  /\ ToSet(slice(i).outs) = {p.nodes[i].outs[1]} /\ ToSet(slice(i).ins) = {"A_allr"}
             /\ LinearNode(slice(i))
  <2> DEFINE n == slice(i)
             x == p.nodes[i].outs[1]
  <2>1. n.outs = <<x>> /\ n.ins = <<"A_allr">> /\ n.kind = "plumb"
    BY NodeFields
  <2> HIDE DEF n
  <2>2. LinearNode(n)
    BY <2>1 DEF LinearNode, IsScore, Is
  <2>3. ToSet(n.outs) = {x} /\ ToSet(n.ins) = {"A_allr"}
    BY <2>1, ToSetOfTuple
  <2>4. QED
    BY <2>2, <2>3 DEF n
<1> HIDE DEF slice
<1>10. pieces \in Seq(Seq(S))
  <2>1. ASSUME NEW i \in DOMAIN p.nodes PROVE pieces[i] \in Seq(S)
    <3>1. slice(i) \in S /\ p.nodes[i] \in S
      OBVIOUS
    <3> HIDE DEF S
    <3>2. <<>> \in Seq(S) /\ <<slice(i)>> \in Seq(S) /\ <<p.nodes[i]>> \in Seq(S)
      BY <3>1
    <3>3. QED
      BY <3>2
  <2>2. pieces \in [1 .. Len(p.nodes) -> Seq(S)]
    BY <1>1, <2>1
  <2> HIDE DEF pieces, S
  <2>3. QED
    BY <1>1, <2>2, SeqDef
<1>11. /\ DOMAIN pieces = DOMAIN p.nodes
       /\ \A i \in DOMAIN p.nodes :
            \/ i \in hits /\ pieces[i] = <<>>
            \/ i \notin hits /\ (\E h \in hits : i = TrilOfScore(p, h)) /\ pieces[i] = <<slice(i)>>
            \/ i \notin hits /\ (\A h \in hits : i # TrilOfScore(p, h)) /\ pieces[i] = <<p.nodes[i]>>
  OBVIOUS
<1> HIDE DEF pieces, S
<1>12. ASSUME NEW j \in DOMAIN p.nodes, j \notin hits
       PROVE  Produced(pieces[j]) = ToSet(p.nodes[j].outs)
  <2>1. \A n : ToSet(<<n>>) = {n} /\ Produced(<<n>>) = ToSet(n.outs)
    <3>1. \A n : ToSet(<<n>>) = {n}
      BY ToSetOfTuple
    <3>2. QED
      BY <3>1, ProducedFacts
  <2>2. pieces[j] = <<slice(j)>> \/ pieces[j] = <<p.nodes[j]>>
    BY <1>11, <1>12
  <2>3. ToSet(slice(j).outs) = ToSet(p.nodes[j].outs)
    BY <1>9, <1>6
  <2>4. CASE pieces[j] = <<slice(j)>>
    BY <2>1, <2>3, <2>4, Zenon
  <2>5. CASE pieces[j] = <<p.nodes[j]>>
    BY <2>1, <2>5, Zenon
  <2>6. QED
    BY <2>2, <2>4, <2>5
<1>13. ASSUME NEW i \in DOMAIN pieces
       PROVE  Gets(f, pieces[i], B \cup UNION {Produced(pieces[j]) : j \in 1 .. i - 1})
  <2> DEFINE C == B \cup UNION {Produced(pieces[j]) : j \in 1 .. i - 1}
  <2>1. CASE i \in hits /\ pieces[i] = <<>>
    BY <2>1, GetsEmpty
  <2>2. CASE pieces[i] = <<slice(i)>>
    <3> DEFINE n == slice(i)
    <3>1. Needs(f, n) = {"A_allr"}
      BY <1>4, <1>9, <1>11, Zenon
    <3>2. Needs(f, n) \subseteq C
      BY <3>1
    <3> HIDE DEF C, n
    <3>3. Gets(f, <<n>>, C)
      BY <3>2, GetsOne
    <3>4. QED
      BY <2>2, <3>3 DEF C, n
  <2>3. CASE (\A h \in hits : i # TrilOfScore(p, h)) /\ pieces[i] = <<p.nodes[i]>>
    <3> DEFINE n == p.nodes[i]
    <3>1. Needs(f, n) \subseteq C
      <4> SUFFICES ASSUME NEW x \in ToSet(n.ins), x \notin p.inputs PROVE x \in C
        BY <1>4
      <4>1. PICK j \in 1 .. i - 1 : x \in ToSet(p.nodes[j].outs)
        BY <1>5, <1>11, BeforeFacts
      <4>2. j \in DOMAIN p.nodes /\ i \in DOMAIN p.nodes
        BY <1>1, <1>11
      <4>3. j \notin hits
        <5> SUFFICES ASSUME j \in hits PROVE FALSE
          OBVIOUS
        <5>1. x = p.nodes[j].outs[1]
          BY <1>6, <4>1, <4>2
        <5>2. i \in Consumers(p, x)
          BY <4>2 DEF Consumers
        <5>3. QED
          BY <1>7, <2>3, <5>1, <5>2
      <4>4. x \in Produced(pieces[j])
        BY <1>12, <4>1, <4>2, <4>3
      <4>5. QED
        BY <4>4
    <3> HIDE DEF C, n
    <3>2. Gets(f, <<n>>, C)
      BY <3>1, GetsOne
    <3>3. QED
      BY <2>3, <3>2 DEF C, n
  <2>4. QED
    BY <1>11, <2>1, <2>2, <2>3
<1>14. /\ IsSeq(FlattenSeq(pieces)) /\ Gets(f, FlattenSeq(pieces), B)
       /\ ToSet(FlattenSeq(pieces)) = UNION {ToSet(pieces[i]) : i \in DOMAIN pieces}
  <2> HIDE DEF B
  <2>1. QED
    BY <1>10, <1>13, FlattenGets
<1>15. \A n \in ToSet(FlattenSeq(pieces)) : NodeOK(f, n)
  <2> SUFFICES ASSUME NEW i \in DOMAIN p.nodes, NEW n \in ToSet(pieces[i]) PROVE LinearNode(n)
    BY <1>4, <1>11, <1>14
  <2>1. pieces[i] = <<>> \/ pieces[i] = <<slice(i)>> \/ pieces[i] = <<p.nodes[i]>>
    BY <1>11
  <2>2. n = slice(i) \/ n = p.nodes[i]
    <3>1. CASE pieces[i] = <<>>
      BY <3>1, GetsEmpty, Zenon
    <3>2. CASE pieces[i] = <<slice(i)>>
      BY <3>2, ToSetOfTuple, Zenon
    <3>3. CASE pieces[i] = <<p.nodes[i]>>
      BY <3>3, ToSetOfTuple, Zenon
    <3>4. QED
      BY <2>1, <3>1, <3>2, <3>3
  <2>3. QED
    BY <1>5, <1>9, <2>2
<1>16. Builds(f, <<batched, view>>, p.inputs, B)
  <2>1. batched.outs = <<"A_all">> /\ batched.kind = "fused" /\ ToSet(batched.ins) \subseteq p.inputs
    <3>1. CASE perDimGate
      BY <1>3, <3>1, NodeFields, ToSetOfTuple
    <3>2. CASE ~ perDimGate
      BY <1>3, <3>2, NodeFields, ToSetOfTuple
    <3>3. QED
      BY <3>1, <3>2
  <2>2. view.outs = <<"A_allr">> /\ view.kind = "plumb" /\ view.ins = <<"A_all">>
    BY NodeFields
  <2> HIDE DEF batched, view
  <2>3. LinearNode(batched) /\ LinearNode(view)
    BY <2>1, <2>2 DEF LinearNode, IsScore, Is
  <2>4. Adds(f, batched, p.inputs, p.inputs \cup {"A_all"})
    BY <1>4, <2>1, <2>3, ToSetOfTuple DEF Adds
  <2>5. Adds(f, view, p.inputs \cup {"A_all"}, B)
    BY <1>4, <2>2, <2>3, ToSetOfTuple DEF Adds
  <2> HIDE DEF B
  <2>6. QED
    BY <2>4, <2>5, BuildsTuple
<1> DEFINE front == <<batched, view>>
           rest == FlattenSeq(pieces)
           nodes == front \o rest
<1>17. Builds(f, rest, B, B)
  <2> HIDE DEF B
  <2>1. QED
    BY <1>14, <1>15 DEF Builds
<1> HIDE DEF front, rest, B
<1>18. Builds(f, nodes, p.inputs, B)
  BY <1>16, <1>17, BuildsThen DEF front
<1>19. p.outputs \subseteq p.inputs \cup Produced(nodes)
  <2> SUFFICES ASSUME "o" \notin p.inputs PROVE "o" \in Produced(nodes)
    BY <1>3
  <2>1. "o" \in Produced(p.nodes)
    BY <1>3 DEF ProgramOK
  <2>2. PICK j \in DOMAIN p.nodes : "o" \in ToSet(p.nodes[j].outs)
    BY <2>1, ProducedFacts
  <2>3. j \notin hits
    <3>1. p.nodes[j].outs[1] = "o"
      BY <1>6, <2>2
    <3>2. LinearNode(p.nodes[j])
      BY <1>5
    <3>3. QED
      BY <1>7, <3>1, <3>2 DEF LinearNode
  <2>4. "o" \in Produced(pieces[j])
    BY <1>12, <2>2, <2>3
  <2>5. \A s : Produced(s) = UNION {ToSet(n.outs) : n \in ToSet(s)}
    BY ProducedFacts
  <2>6. PICK n \in ToSet(pieces[j]) : "o" \in ToSet(n.outs)
    BY <2>4, <2>5
  <2>7. n \in ToSet(rest)
    BY <1>11, <1>14 DEF rest
  <2>8. "o" \in Produced(rest)
    BY <2>5, <2>6, <2>7
  <2>9. Produced(nodes) = Produced(front) \cup Produced(rest)
    BY <1>16, <1>17, ConcatFacts DEF Builds, front
  <2>10. QED
    BY <2>8, <2>9
<1>20. BatchScores(p, perDimGate) = Prog(nodes, p.inputs, p.outputs)
  BY <1>8 DEF front, rest
<1> HIDE DEF nodes
<1> DEFINE q == Prog(nodes, p.inputs, p.outputs)
<1>21. q.nodes = nodes /\ q.inputs = p.inputs /\ q.outputs = p.outputs
  BY ProgFields
<1>22. q = Prog(q.nodes, Forward(f).inputs, Forward(f).outputs)
  BY <1>1, <1>21
<1>23. BatchScores(p, perDimGate) = q
  BY <1>20
<1> HIDE DEF q
<1>24. QED
  BY <1>18, <1>19, <1>21, <1>22, <1>23 DEF ProgramOK, Builds

-----------------------------------------------------------------------------
(* Forwards: the chunks, whose names are fresh.                            *)

\* A name of a chunk, or of the scan.
Fresh(f, x) == x \notin WholeNames /\ (f \in {"gdn", "kda"} => x \in ScanOuts(f))

\* A node that binds a fresh name can be added.
LEMMA FreshFits ==
  ASSUME NEW f, NEW x, NEW reads, NEW B, NEW C, Fresh(f, x), ScanReads \subseteq B,
         \A r \in reads : r \in WholeNames => r \notin Special \cup {"o"},
         reads \subseteq B, C \subseteq B \cup {x}
  PROVE  Fits(f, x, reads, B, C)
<1>1. LateNames \cup {"a_op"} \subseteq WholeNames /\ Special \cup {"o"} \subseteq WholeNames
  BY DEF LateNames, Special, WholeNames
<1>2. QED
  BY <1>1 DEF Fits, Fresh

\* The states are numbered from zero to the number of chunks.
LEMMA ChunkIndices ==
  /\ 0 \in 0 .. nc /\ nc \in Nat
  /\ \A c \in Chunks : c \in 0 .. nc /\ c + 1 \in 0 .. nc
BY ncAssumption DEF Chunks

\* The states' names are fresh.
LEMMA StatesFresh == ASSUME NEW f, NEW c \in 0 .. nc PROVE Fresh(f, At("S", c))
<1>1. At("S", c) \notin WholeNames
  BY NamesAssumption, Zenon DEF ChunkBases
<1>2. CASE c = 0
  <2>1. At("S", 0) = "S0"
    BY NamesAssumption
  <2>2. f \in {"gdn", "kda"} => "S0" \in ScanOuts(f)
    BY DEF ScanOuts, ScanBinds, ScanNames
  <2>3. QED
    BY <1>1, <1>2, <2>1, <2>2 DEF Fresh
<1>3. CASE c # 0
  <2> DEFINE d == c - 1
  <2>1. d \in Chunks /\ c = d + 1
    BY <1>3, ncAssumption DEF Chunks
  <2> HIDE DEF d
  <2>2. \A coef : At("S", d + 1) \in ChunkNames(coef, d)
    BY DEF ChunkNames
  <2>3. \A coef : At("S", d + 1) \in ScanBinds(coef)
    BY <2>1, <2>2 DEF ScanBinds
  <2>4. QED
    BY <1>1, <2>1, <2>3 DEF Fresh, ScanOuts
<1>4. QED
  BY <1>2, <1>3

\* The names a chunk binds are fresh; the residual and key factors, in the forward
\* that has them.
LEMMA ChunkNamesFresh ==
  ASSUME NEW c \in Chunks
  PROVE  /\ \A f : \A stem \in {"Wc_s", "Wc", "WS", "Uc", "vn", "kc_s", "kc", "dS", "sc", "Sd"} :
              Fresh(f, At(stem, c))
         /\ \A stem \in {"vcs", "vn2"} : Fresh("gdn", At(stem, c))
         /\ \A stem \in {"krc", "krest"} : Fresh("kda", At(stem, c))
<1> DEFINE bases == {"Wc_s", "Wc", "WS", "Uc", "vn", "kc_s", "kc", "dS", "sc", "Sd"}
<1>1. \A stem \in bases \cup {"vcs", "vn2", "krc", "krest"} : At(stem, c) \notin WholeNames
  <2>1. bases \cup {"vcs", "vn2", "krc", "krest"} \subseteq ChunkBases
    BY DEF ChunkBases
  <2> HIDE DEF bases
  <2>2. QED
    BY <2>1, ChunkIndices, NamesAssumption, Zenon
<1>2. \A coef : \A stem \in bases : At(stem, c) \in ScanBinds(coef)
  BY DEF ChunkNames, ScanBinds
<1>3. \A stem \in {"vcs", "vn2"} : At(stem, c) \in ScanBinds("coef_vcs")
  BY DEF ChunkNames, ScanBinds
<1>4. \A stem \in {"krc", "krest"} : At(stem, c) \in ScanBinds("coef_krest")
  BY DEF ChunkNames, ScanBinds
<1> HIDE DEF bases
<1>5. \A f : \A stem \in bases : Fresh(f, At(stem, c))
  BY <1>1, <1>2 DEF Fresh, ScanOuts
<1>6. \A stem \in {"vcs", "vn2"} : Fresh("gdn", At(stem, c))
  BY <1>1, <1>3 DEF Fresh, ScanOuts
<1>7. \A stem \in {"krc", "krest"} : Fresh("kda", At(stem, c))
  BY <1>1, <1>4 DEF Fresh, ScanOuts
<1>8. QED
  BY <1>5, <1>6, <1>7 DEF bases

\* The chunks of a loop hand a state on.
Loops(f, ch, B, out) ==
  \A c \in Chunks : Builds(f, ch[c], B \cup {At("S", c)}, {At("S", c + 1), At(out, c)})

\* The chunks in a row bind every state and every chunk's output, when each does
\* from the state before it: by the least chunk that would not.
LEMMA ChunkedBuilds ==
  ASSUME NEW f, NEW ch, NEW B, NEW out, "S0" \in B, Loops(f, ch, B, out)
  PROVE  Builds(f, Chunked(ch), B,
                B \cup {At("S", c) : c \in Chunks} \cup {At(out, c) : c \in Chunks})
<1> DEFINE seqs == [i \in 1 .. nc |-> ch[i-1]]
           S == UNION {ToSet(ch[c]) : c \in Chunks}
           Past(c) == B \cup UNION {Produced(seqs[j]) : j \in 1 .. c}
           Bad == {c \in 0 .. nc : At("S", c) \notin Past(c)}
<1>1. /\ At("S", 0) \in B
      /\ \A c \in Chunks : Builds(f, ch[c], B \cup {At("S", c)}, {At("S", c + 1), At(out, c)})
  BY NamesAssumption DEF Loops
<1>2. \A i \in 1 .. nc : i - 1 \in Chunks
  BY ncAssumption DEF Chunks
<1>3. \A i \in 1 .. nc : seqs[i] = ch[i-1]
  OBVIOUS
<1>4. \A i \in 1 .. nc : Builds(f, seqs[i], B \cup {At("S", i - 1)}, {At("S", i), At(out, i - 1)})
  <2> SUFFICES ASSUME NEW i \in 1 .. nc
               PROVE  Builds(f, seqs[i], B \cup {At("S", i - 1)}, {At("S", i), At(out, i - 1)})
    OBVIOUS
  <2> DEFINE c == i - 1
  <2>1. c \in Chunks /\ i = c + 1 /\ seqs[i] = ch[c]
    BY <1>2, <1>3, ncAssumption
  <2> HIDE DEF c, seqs
  <2>2. Builds(f, ch[c], B \cup {At("S", c)}, {At("S", c + 1), At(out, c)})
    BY <1>1, <2>1
  <2>3. Builds(f, ch[c], B \cup {At("S", c)}, {At("S", i), At(out, c)})
    BY <2>1, <2>2
  <2>4. QED
    BY <2>1, <2>3 DEF c
<1>5. seqs \in Seq(Seq(S)) /\ DOMAIN seqs = 1 .. nc
  <2>1. ASSUME NEW i \in 1 .. nc PROVE seqs[i] \in Seq(S)
    <3>1. IsSeq(seqs[i])
      BY <1>4 DEF Builds
    <3>2. ToSet(seqs[i]) \subseteq S
      BY <1>2, <1>3
    <3> HIDE DEF S, seqs
    <3>3. QED
      BY <3>1, <3>2, SeqMonotonic DEF IsSeq
  <2>2. seqs \in [1 .. nc -> Seq(S)]
    <3> HIDE DEF S
    <3>1. QED
      BY <2>1
  <2>3. DOMAIN seqs = 1 .. nc
    OBVIOUS
  <2> HIDE DEF S, seqs
  <2>4. QED
    BY <2>2, <2>3, SeqDef, ncAssumption
<1> HIDE DEF seqs, S
<1>6. Bad = {}
  <2> SUFFICES ASSUME Bad # {} PROVE FALSE
    OBVIOUS
  <2>1. Bad \subseteq Nat
    BY ncAssumption
  <2>2. PICK c \in Bad : \A d \in Bad : c <= d
    BY <2>1, Least
  <2>3. c \in 0 .. nc /\ c \in Nat /\ At("S", c) \notin Past(c)
    BY <2>1
  <2>4. c # 0
    BY <1>1, <2>3
  <2>5. c - 1 \in 0 .. nc /\ c - 1 \notin Bad /\ c \in 1 .. nc
    BY <2>2, <2>3, <2>4, ncAssumption
  <2>6. At("S", c - 1) \in Past(c - 1)
    BY <2>5
  <2> HIDE DEF Bad
  <2>7. At("S", c) \in B \cup {At("S", c - 1)} \cup Produced(seqs[c])
    BY <1>4, <2>5 DEF Builds
  <2>8. Past(c - 1) \subseteq Past(c) /\ Produced(seqs[c]) \subseteq Past(c)
    BY <2>3, <2>4
  <2>9. QED
    BY <2>3, <2>6, <2>7, <2>8
<1>7. \A c \in 0 .. nc : At("S", c) \in Past(c)
  BY <1>6
<1> HIDE DEF Bad
<1>8. ASSUME NEW i \in DOMAIN seqs PROVE Gets(f, seqs[i], Past(i - 1))
  <2>1. i \in 1 .. nc /\ i - 1 \in 0 .. nc
    BY <1>5, ncAssumption
  <2>2. At("S", i - 1) \in Past(i - 1)
    BY <1>7, <2>1
  <2>3. B \cup {At("S", i - 1)} \subseteq Past(i - 1)
    BY <2>2
  <2>4. Gets(f, seqs[i], B \cup {At("S", i - 1)})
    BY <1>4, <2>1 DEF Builds
  <2> HIDE DEF Past
  <2>5. QED
    BY <2>3, <2>4, GetsMore
<1>9. /\ IsSeq(FlattenSeq(seqs)) /\ Gets(f, FlattenSeq(seqs), B)
      /\ ToSet(FlattenSeq(seqs)) = UNION {ToSet(seqs[i]) : i \in DOMAIN seqs}
  BY <1>5, <1>8, FlattenGets
<1>10. \A n \in ToSet(FlattenSeq(seqs)) : NodeOK(f, n)
  <2>1. \A i \in 1 .. nc : \A n \in ToSet(seqs[i]) : NodeOK(f, n)
    BY <1>4 DEF Builds
  <2>2. QED
    BY <1>5, <1>9, <2>1
<1>11. \A i \in 1 .. nc : Produced(seqs[i]) \subseteq Produced(FlattenSeq(seqs))
  BY <1>5, <1>9, ProducedFacts
<1>12. \A c \in 0 .. nc : Past(c) \subseteq B \cup Produced(FlattenSeq(seqs))
  <2> SUFFICES ASSUME NEW c \in 0 .. nc, NEW j \in 1 .. c
               PROVE  Produced(seqs[j]) \subseteq Produced(FlattenSeq(seqs))
    OBVIOUS
  <2>1. j \in 1 .. nc
    BY ncAssumption
  <2>2. QED
    BY <1>11, <2>1
<1>13. ASSUME NEW c \in Chunks PROVE {At("S", c), At(out, c)} \subseteq B \cup Produced(FlattenSeq(seqs))
  <2>1. c \in 0 .. nc /\ c + 1 \in 1 .. nc /\ (c + 1) - 1 = c
    BY ncAssumption DEF Chunks
  <2>2. At("S", c) \in B \cup Produced(FlattenSeq(seqs))
    BY <1>7, <1>12, <2>1
  <2>3. At(out, c) \in B \cup {At("S", c)} \cup Produced(seqs[c + 1])
    <3> DEFINE i == c + 1
    <3>1. i \in 1 .. nc /\ i - 1 = c
      BY <2>1
    <3> HIDE DEF i
    <3>2. Builds(f, seqs[i], B \cup {At("S", i - 1)}, {At("S", i), At(out, i - 1)})
      BY <1>4, <3>1
    <3>3. At(out, i - 1) \in B \cup {At("S", i - 1)} \cup Produced(seqs[i])
      BY <3>2 DEF Builds
    <3>4. QED
      BY <3>1, <3>3 DEF i
  <2>4. QED
    BY <1>11, <2>1, <2>2, <2>3
<1>14. Chunked(ch) = FlattenSeq(seqs)
  BY DEF Chunked, seqs
<1>15. QED
  BY <1>9, <1>10, <1>13, <1>14 DEF Builds

-----------------------------------------------------------------------------
(* Forwards: the parts they share.                                         *)

\* The parts the forwards share, each with what it must find bound.
LEMMA ResidualBuilds ==
  ASSUME NEW f, NEW c \in Chunks, NEW B, ScanReads \subseteq B
  PROVE  Builds(f, Residual(c), B \cup {At("S", c)}, B \cup {At("S", c), At("vn", c)})
<1> DEFINE s == At("S", c)
           x1 == At("Wc_s", c)
           x2 == At("Wc", c)
           x3 == At("WS", c)
           x4 == At("Uc", c)
           x5 == At("vn", c)
           B0 == B \cup {s}
           B1 == B0 \cup {x1}
           B2 == B1 \cup {x2}
           B3 == B2 \cup {x3}
           B4 == B3 \cup {x4}
           C  == B \cup {s, x5}
           n1 == Slice(x1, "Wb", c)
           n2 == Plumb(x2, "contiguous", <<x1>>)
           n3 == Einsum(x3, "nid,nde->nie", x2, s)
           n4 == Slice(x4, "Ub", c)
           n5 == Glue(x5, "sub", <<x4, x3>>)
<1>1. Residual(c) = <<n1, n2, n3, n4, n5>>
  BY DEF Residual
<1>2. Fresh(f, s) /\ Fresh(f, x1) /\ Fresh(f, x2) /\ Fresh(f, x3) /\ Fresh(f, x4) /\ Fresh(f, x5)
  BY ChunkNamesFresh, StatesFresh, ChunkIndices
<1> HIDE DEF s, x1, x2, x3, x4, x5
<1>3. {"Wb", "Ub"} \subseteq B /\ {"Wb", "Ub"} \cap (Special \cup {"o"}) = {}
  BY DEF ScanReads, Special
<1>4. /\ Fits(f, x1, {"Wb"}, B0, B1) /\ Fits(f, x2, {x1}, B1, B2)
      /\ Fits(f, x3, {x2, s}, B2, B3)
  BY <1>2, <1>3, FreshFits DEF Fresh
<1>5. Fits(f, x4, {"Ub"}, B3, B4) /\ Fits(f, x5, {x4, x3}, B4, C)
  BY <1>2, <1>3, FreshFits DEF Fresh
<1> HIDE DEF B0, B1, B2, B3, B4, C
<1>6. Builds(f, <<n1, n2, n3, n4>>, B0, B4) /\ Builds(f, <<n5>>, B4, C)
  BY <1>4, <1>5, AddsNode, BuildsTuple
<1> HIDE DEF n1, n2, n3, n4, n5
<1>7. Builds(f, <<n1, n2, n3, n4, n5>>, B0, C)
  BY <1>6, LongBuilds
<1>8. QED
  BY <1>1, <1>7 DEF B0, C, s, x5

\* A chunk's keys.
LEMMA KeyBuilds ==
  ASSUME NEW f, NEW c \in Chunks, NEW B, ScanReads \subseteq B
  PROVE  Builds(f, Key(c), B, B \cup {At("kc", c)})
<1> DEFINE x1 == At("kc_s", c)
           x2 == At("kc", c)
           B1 == B \cup {x1}
           C  == B \cup {x2}
<1>1. Key(c) = <<Slice(x1, "kb5", c), Plumb(x2, "contiguous", <<x1>>)>>
  BY DEF Key
<1>2. Fresh(f, x1) /\ Fresh(f, x2)
  BY ChunkNamesFresh
<1> HIDE DEF x1, x2
<1>3. "kb5" \in B /\ "kb5" \notin Special \cup {"o"}
  BY DEF ScanReads, Special
<1>4. Fits(f, x1, {"kb5"}, B, B1) /\ Fits(f, x2, {x1}, B1, C)
  BY <1>2, <1>3, FreshFits DEF Fresh
<1> HIDE DEF B1, C
<1>5. Builds(f, Key(c), B, C)
  BY <1>1, <1>4, AddsNode, BuildsTuple
<1>6. QED
  BY <1>5 DEF C, x2

\* The state after a chunk, decayed.
LEMMA DecayBuilds ==
  ASSUME NEW f, NEW c \in Chunks, NEW B, ScanReads \subseteq B,
         {"coef_S", At("S", c), At("dS", c)} \subseteq B
  PROVE  Builds(f, Decay(c), B, B \cup {At("S", c + 1)})
<1> DEFINE s == At("S", c)
           ds == At("dS", c)
           x1 == At("sc", c)
           x2 == At("Sd", c)
           x3 == At("S", c + 1)
           B1 == B \cup {x1}
           B2 == B1 \cup {x2}
           C  == B \cup {x3}
<1>1. Decay(c) = <<Slice(x1, "coef_S", c), Glue(x2, "mul", <<s, x1>>), Glue(x3, "add", <<x2, ds>>)>>
  BY DEF Decay
<1>2. Fresh(f, s) /\ Fresh(f, ds) /\ Fresh(f, x1) /\ Fresh(f, x2) /\ Fresh(f, x3)
  BY ChunkNamesFresh, StatesFresh, ChunkIndices
<1>3. s \in B /\ ds \in B /\ "coef_S" \in B
  OBVIOUS
<1> HIDE DEF s, ds, x1, x2, x3
<1>4. "coef_S" \notin Special \cup {"o"}
  BY DEF Special
<1>5. /\ Fits(f, x1, {"coef_S"}, B, B1) /\ Fits(f, x2, {s, x1}, B1, B2)
      /\ Fits(f, x3, {x2, ds}, B2, C)
  BY <1>2, <1>3, <1>4, FreshFits DEF Fresh
<1> HIDE DEF B1, B2, C
<1>6. Builds(f, Decay(c), B, C)
  BY <1>1, <1>5, AddsNode, BuildsTuple
<1>7. QED
  BY <1>6 DEF C, x3

\* The triangular solve.
LEMMA SolveTrilBuilds ==
  ASSUME NEW f, NEW t \in {"T", "Tm"}, NEW B, "A" \in B
  PROVE  Builds(f, SolveTril(t), B, B \cup {t})
<1> DEFINE B1 == B \cup {"T_raw"}
           C  == B \cup {t}
           n == Opaque("T_raw", "tri_inv_rec_unroll", "A")
<1>1. n.outs = <<"T_raw">> /\ n.ins = <<"A">> /\ n.kind = "opaque"
  BY NodeFields
<1> HIDE DEF n
<1>2. ToSet(n.ins) = {"A"} /\ ToSet(n.outs) = {"T_raw"} /\ n.outs[1] = "T_raw"
  BY <1>1, ToSetOfTuple
<1>3. "T_raw" \notin ScanOuts(f) /\ "A" \notin ScanOuts(f)
  BY ScanNamesApart DEF WholeNames
<1>4. NodeOK(f, n)
  <2>1. GdnNode(n) /\ KdaNode(n) /\ DeltaNode(n) /\ LinearNode(n)
    BY <1>1, <1>2 DEF GdnNode, KdaNode, DeltaNode, LinearNode, IsScore, Is, Reads
  <2>2. QED
    BY <1>1, <1>2, <1>3, <2>1 DEF NodeOK
<1>5. Adds(f, n, B, B1)
  BY <1>2, <1>3, <1>4 DEF Adds, Needs, LateNames
<1>6. Fits(f, t, {"T_raw"}, B1, C)
  BY DEF Fits, WholeNames, LateNames, Special
<1> HIDE DEF B1, C
<1>7. Builds(f, SolveTril(t), B, C)
  BY <1>5, <1>6, AddsNode, BuildsTuple DEF SolveTril, n
<1>8. QED
  BY <1>7 DEF C

\* The WY representation.
LEMMA WyFastBuilds ==
  ASSUME NEW f, NEW wk \in {"kb", "wk"}, NEW coefW \in {"coef_kb", "coef_wg"},
         NEW coefU \in {"coef_vb", "coef_ub"}, NEW B, {"kF", "vF", "Tm", coefW, coefU} \subseteq B
  PROVE  Builds(f, WyFast(wk, coefW, coefU), B, B \cup {"W_m", "U_m"})
<1> DEFINE B1 == B \cup {wk}
           B2 == B1 \cup {"vb"}
           B3 == B2 \cup {"W_m"}
           C  == B \cup {"W_m", "U_m"}
<1>1. Fits(f, wk, {"kF", coefW}, B, B1) /\ Fits(f, "vb", {"vF", coefU}, B1, B2)
  BY DEF Fits, WholeNames, LateNames, Special
<1>2. Fits(f, "W_m", {"Tm", wk}, B2, B3) /\ Fits(f, "U_m", {"Tm", "vb"}, B3, C)
  BY DEF Fits, WholeNames, LateNames, Special
<1> HIDE DEF B1, B2, B3, C
<1>3. Builds(f, WyFast(wk, coefW, coefU), B, C)
  BY <1>1, <1>2, AddsNode, BuildsTuple DEF WyFast
<1>4. QED
  BY <1>3 DEF C

\* The per-chunk views, and the first state.
LEMMA ViewsBuild ==
  ASSUME NEW f, NEW B, {"W_m", "U_m", "kF"} \subseteq B
  PROVE  Builds(f, Views, B, B \cup ScanReads \cup {"S0"})
<1> DEFINE B1 == B \cup {"Wb"}
           B2 == B1 \cup {"Ub"}
           B3 == B2 \cup {"kb5"}
           C  == B \cup ScanReads \cup {"S0"}
<1>1. /\ Fits(f, "Wb", {"W_m"}, B, B1) /\ Fits(f, "Ub", {"U_m"}, B1, B2)
      /\ Fits(f, "kb5", {"kF"}, B2, B3)
  BY DEF Fits, WholeNames, LateNames, Special
<1>2. Fits(f, "S0", {"Wb"}, B3, C)
  <2>1. Fresh(f, "S0")
    BY StatesFresh, ChunkIndices, NamesAssumption
  <2>2. ScanReads \subseteq B3 /\ C \subseteq B3 \cup {"S0"} /\ "Wb" \notin Special \cup {"o"}
    BY DEF ScanReads, Special
  <2>3. {"Wb"} \subseteq B3
    OBVIOUS
  <2> HIDE DEF B3, C
  <2>4. QED
    BY <2>1, <2>2, <2>3, FreshFits
<1> HIDE DEF B1, B2, B3, C
<1>3. Builds(f, Views, B, C)
  BY <1>1, <1>2, AddsNode, BuildsTuple DEF Views
<1>4. QED
  BY <1>3 DEF C

\* The names of the chunks of one tensor.
LEMMA EachFacts ==
  ASSUME NEW name
  PROVE  ToSet(Each(name)) = {At(name, c) : c \in Chunks}
<1>1. \A i \in 1 .. nc : i - 1 \in Chunks
  BY ncAssumption DEF Chunks
<1>2. \A c \in Chunks : c + 1 \in 1 .. nc /\ (c + 1) - 1 = c
  BY ncAssumption DEF Chunks
<1>3. DOMAIN Each(name) = 1 .. nc /\ \A i \in 1 .. nc : Each(name)[i] = At(name, i - 1)
  BY DEF Each
<1>4. ASSUME NEW c \in Chunks PROVE At(name, c) \in ToSet(Each(name))
  <2> DEFINE i == c + 1
  <2>1. i \in 1 .. nc /\ i - 1 = c
    BY <1>2
  <2> HIDE DEF i
  <2>2. Each(name)[i] = At(name, c)
    BY <1>3, <2>1
  <2>3. QED
    BY <1>3, <2>1, <2>2 DEF ToSet
<1>5. QED
  BY <1>1, <1>3, <1>4 DEF ToSet

\* Stacking a chunk name over the chunks.
LEMMA StackNode ==
  ASSUME NEW f, NEW name, NEW x, NEW B, NEW C,
         Fits(f, x, {At(name, c) : c \in Chunks}, B, C)
  PROVE  Adds(f, Plumb(x, "stack", Each(name)), B, C)
<1> DEFINE n == Plumb(x, "stack", Each(name))
<1>1. n.outs = <<x>> /\ n.ins = Each(name) /\ n.kind = "plumb"
  BY NodeFields
<1> HIDE DEF n
<1>2. ~ IsScore(n)
  BY <1>1 DEF IsScore, Is
<1>3. ToSet(n.ins) = {At(name, c) : c \in Chunks}
  BY <1>1, EachFacts
<1>4. Fits(f, x, ToSet(n.ins), B, C)
  BY <1>3
<1>5. Adds(f, n, B, C)
  BY <1>1, <1>2, <1>4, FitsAdds
<1>6. QED
  BY <1>5 DEF n

\* The stacked states and residuals, and their flat views, fit.
LEMMA StacksFit ==
  ASSUME NEW f, NEW B, NEW C, ScanReads \subseteq B
  PROVE  /\ {At("S", c) : c \in Chunks} \subseteq B /\ C \subseteq B \cup {"h_bh"}
              => Fits(f, "h_bh", {At("S", c) : c \in Chunks}, B, C)
         /\ {At("vn", c) : c \in Chunks} \subseteq B /\ C \subseteq B \cup {"vn_bh"}
              => Fits(f, "vn_bh", {At("vn", c) : c \in Chunks}, B, C)
         /\ "h_bh" \in B /\ C \subseteq B \cup {"h_flat"} => Fits(f, "h_flat", {"h_bh"}, B, C)
         /\ "vn_bh" \in B /\ C \subseteq B \cup {"vn_flat"} => Fits(f, "vn_flat", {"vn_bh"}, B, C)
<1>1. \A c \in Chunks : Fresh(f, At("S", c)) /\ Fresh(f, At("vn", c))
  BY ChunkNamesFresh, StatesFresh, ChunkIndices
<1>2. Special \cup {"o"} \subseteq WholeNames
  BY DEF Special, WholeNames
<1>3. /\ {At("S", c) : c \in Chunks} \cap (Special \cup {"o"}) = {}
      /\ {At("vn", c) : c \in Chunks} \cap (Special \cup {"o"}) = {}
  BY <1>1, <1>2 DEF Fresh
<1>4. f \in {"gdn", "kda"} => {"h_bh", "h_flat", "vn_bh", "vn_flat"} \subseteq ScanOuts(f)
  BY DEF ScanOuts, ScanBinds, ScanNames
<1>5. /\ {"h_bh", "vn_bh"} \cap (Special \cup {"o"}) = {}
      /\ {"h_bh", "h_flat", "vn_bh", "vn_flat"} \cap (LateNames \cup {"a_op"}) = {}
  BY DEF Special, LateNames
<1>6. QED
  BY <1>3, <1>4, <1>5 DEF Fits

\* The states and the residuals stacked.
LEMMA StackedBuilds ==
  ASSUME NEW f, NEW B, ScanReads \subseteq B, {At("S", c) : c \in Chunks} \subseteq B,
         {At("vn", c) : c \in Chunks} \subseteq B
  PROVE  Builds(f, Stacked, B, B \cup {"h_flat", "vn_flat"})
<1> DEFINE B1 == B \cup {"h_bh"}
           B2 == B1 \cup {"h_flat"}
           B3 == B2 \cup {"vn_bh"}
           C  == B \cup {"h_flat", "vn_flat"}
<1>1. ScanReads \subseteq B1 /\ ScanReads \subseteq B2 /\ ScanReads \subseteq B3
  OBVIOUS
<1>2. {At("vn", c) : c \in Chunks} \subseteq B2
  OBVIOUS
<1>3. /\ B1 \subseteq B \cup {"h_bh"} /\ "h_bh" \in B1 /\ B2 \subseteq B1 \cup {"h_flat"}
      /\ B3 \subseteq B2 \cup {"vn_bh"} /\ "vn_bh" \in B3 /\ C \subseteq B3 \cup {"vn_flat"}
  OBVIOUS
<1> HIDE DEF B1, B2, B3, C
<1>4. Fits(f, "h_bh", {At("S", c) : c \in Chunks}, B, B1)
  BY <1>3, StacksFit
<1>5. Fits(f, "h_flat", {"h_bh"}, B1, B2)
  BY <1>1, <1>3, StacksFit
<1>6. Fits(f, "vn_bh", {At("vn", c) : c \in Chunks}, B2, B3)
  BY <1>1, <1>2, <1>3, StacksFit
<1>7. Fits(f, "vn_flat", {"vn_bh"}, B3, C)
  BY <1>1, <1>3, StacksFit
<1> DEFINE n1 == Plumb("h_bh", "stack", Each("S"))
           n2 == Plumb("h_flat", "reshape", <<"h_bh">>)
           n3 == Plumb("vn_bh", "stack", Each("vn"))
           n4 == Plumb("vn_flat", "reshape", <<"vn_bh">>)
<1>8. Adds(f, n1, B, B1) /\ Adds(f, n3, B2, B3)
  BY <1>4, <1>6, StackNode
<1>9. Adds(f, n2, B1, B2) /\ Adds(f, n4, B3, C)
  BY <1>5, <1>7, AddsNode
<1>10. Stacked = <<n1, n2, n3, n4>>
  BY DEF Stacked
<1> HIDE DEF n1, n2, n3, n4
<1>11. Builds(f, Stacked, B, C)
  BY <1>8, <1>9, <1>10, BuildsTuple
<1>12. QED
  BY <1>11 DEF C

\* The sum of the two halves of the output.
LEMMA OutSumBuilds ==
  ASSUME NEW f, NEW B, {"o_inter", "o_intra"} \subseteq B
  PROVE  Builds(f, OutSum, B, B \cup {"o"})
<1> DEFINE B1 == B \cup {"o_sum"}
           B2 == B1 \cup {"o_s"}
           C  == B \cup {"o"}
<1>1. /\ Fits(f, "o_sum", {"o_inter", "o_intra"}, B, B1) /\ Fits(f, "o_s", {"o_sum"}, B1, B2)
      /\ Fits(f, "o", {"o_s"}, B2, C)
  BY DEF Fits, WholeNames, LateNames, Special
<1> HIDE DEF B1, B2, C
<1>2. Builds(f, OutSum, B, C)
  BY <1>1, AddsNode, BuildsTuple DEF OutSum
<1>3. QED
  BY <1>2 DEF C

-----------------------------------------------------------------------------
(* Forwards: Gated DeltaNet.                                               *)

\* A node an epilogue is made of, or one that reads qF, in a program whose
\* chunks the resident scan may take away.
EpilogueFits(x, reads, B, C) ==
  /\ reads \subseteq B /\ C \subseteq B \cup {x}
  /\ x \in WholeNames \ {"h_bh", "h_flat", "vn_bh", "vn_flat"}
  /\ reads \subseteq WholeNames \ {"h_bh", "vn_bh"}
  /\ x \in LateNames => "vn_flat" \in B

\* A node of an epilogue can be added once vn_flat is bound, if it hands on what a
\* late rewrite reads.
LEMMA EpilogueAdds ==
  ASSUME NEW f \in {"gdn", "kda"}, NEW n, NEW x, NEW reads, NEW B, NEW C,
         n.outs = <<x>>, ToSet(n.ins) = reads, f = "gdn" => GdnNode(n), f = "kda" => KdaNode(n),
         EpilogueFits(x, reads, B, C)
  PROVE  Adds(f, n, B, C)
<1>1. ToSet(n.outs) = {x} /\ n.outs[1] = x /\ n.outs = <<n.outs[1]>>
  BY ToSetOfTuple
<1>2. x \notin ScanOuts(f)
  BY ScanNamesApart DEF EpilogueFits
<1>3. ToSet(n.ins) \cap ScanOuts(f) \subseteq {"h_flat", "vn_flat"}
  BY ScanNamesApart DEF EpilogueFits
<1>4. NodeOK(f, n)
  BY <1>1, <1>3 DEF NodeOK
<1>5. Needs(f, n) \subseteq B
  BY <1>1, <1>2 DEF Needs, EpilogueFits
<1>6. QED
  BY <1>1, <1>4, <1>5 DEF Adds, EpilogueFits

\* A forward built node by node satisfies the invariant.
LEMMA BuiltProgram ==
  ASSUME NEW f, NEW nodes, Builds(f, nodes, Forward(f).inputs, Forward(f).outputs),
         Forward(f) = Prog(nodes, Forward(f).inputs, Forward(f).outputs)
  PROVE  ProgramOK(f, Forward(f))
<1> DEFINE I == Forward(f).inputs
           O == Forward(f).outputs
           p == Forward(f)
<1>1. p = Prog(nodes, I, O) /\ Builds(f, nodes, I, O)
  OBVIOUS
<1>2. p.nodes = nodes /\ p.inputs = I /\ p.outputs = O
  BY <1>1 DEF Prog
<1>3. p = Prog(p.nodes, Forward(f).inputs, Forward(f).outputs)
  BY <1>1, <1>2
<1>4. IsSeq(p.nodes) /\ (\A n \in ToSet(p.nodes) : NodeOK(f, n)) /\ Gets(f, p.nodes, p.inputs)
  BY <1>1, <1>2 DEF Builds
<1>5. p.outputs \subseteq p.inputs \cup Produced(p.nodes)
  BY <1>1, <1>2 DEF Builds
<1>6. QED
  BY <1>3, <1>4, <1>5 DEF ProgramOK
-----------------------------------------------------------------------------
\* The gated delta rule.
LEMMA GdnScoreBuilds ==
  ASSUME NEW B, {"kF", "coefA"} \subseteq B
  PROVE  Builds("gdn", << Einsum("Araw", "nid,njd->nij", "kF", "kF"),
                          Glue("Ag", "mul", <<"Araw", "coefA">>), Tril("A_t", "Ag", -1),
                          Plumb("A", "contiguous", <<"A_t">>) >>, B, B \cup {"A"})
<1> DEFINE n1 == Einsum("Araw", "nid,njd->nij", "kF", "kF")
           n2 == Glue("Ag", "mul", <<"Araw", "coefA">>)
           n3 == Tril("A_t", "Ag", -1)
           n4 == Plumb("A", "contiguous", <<"A_t">>)
           B1 == B \cup {"Araw"}
           B2 == B1 \cup {"Ag"}
           B3 == B2 \cup {"A_t"}
           C == B \cup {"A"}
<1>1. /\ EpilogueFits("Araw", {"kF"}, B, B1)
      /\ EpilogueFits("Ag", {"Araw", "coefA"}, B1, B2)
      /\ EpilogueFits("A_t", {"Ag"}, B2, B3)
      /\ EpilogueFits("A", {"A_t"}, B3, C)
  BY DEF EpilogueFits, WholeNames, LateNames
<1> HIDE DEF B1, B2, B3, C
<1>2. n1.outs = <<"Araw">> /\ n1.ins = <<"kF", "kF">> /\ n1.kind = "einsum"
  BY Zenon DEF Einsum, Node
<1>3. IsScore(n1)
  BY Zenon DEF IsScore, Is, Einsum, Node
<1>4. n2.outs = <<"Ag">> /\ n2.ins = <<"Araw", "coefA">> /\ n2.kind = "glue" /\ n2.op = "mul"
  BY NodeFields
<1>5. n3.outs = <<"A_t">> /\ n3.ins = <<"Ag">> /\ n3.kind = "glue" /\ n3.op = "tril"
  BY NodeFields
<1>6. n4.outs = <<"A">> /\ n4.ins = <<"A_t">> /\ n4.kind = "plumb" /\ n4.op = "contiguous"
  BY NodeFields
<1> HIDE DEF n1, n2, n3, n4
<1>7. ToSet(n1.ins) = {"kF"} /\ GdnNode(n1)
  <2>1. ToSet(n1.ins) = {"kF"} /\ n1.outs[1] = "Araw"
    BY <1>2, ToSetOfTuple
  <2>2. QED
    BY <1>2, <2>1, ToSetOfTuple, <1>3 DEF GdnNode, Is, Reads
<1>8. ToSet(n2.ins) = {"Araw", "coefA"} /\ GdnNode(n2)
  <2>1. ToSet(n2.ins) = {"Araw", "coefA"} /\ n2.outs[1] = "Ag"
    BY <1>4, ToSetOfTuple
  <2>2. QED
    BY <1>4, <2>1, ToSetOfTuple DEF GdnNode, IsScore, Is, Reads
<1>9. ToSet(n3.ins) = {"Ag"} /\ GdnNode(n3)
  <2>1. ToSet(n3.ins) = {"Ag"} /\ n3.outs[1] = "A_t"
    BY <1>5, ToSetOfTuple
  <2>2. QED
    BY <1>5, <2>1, ToSetOfTuple DEF GdnNode, IsScore, Is, Reads
<1>10. ToSet(n4.ins) = {"A_t"} /\ GdnNode(n4)
  <2>1. ToSet(n4.ins) = {"A_t"} /\ n4.outs[1] = "A"
    BY <1>6, ToSetOfTuple
  <2>2. QED
    BY <1>6, <2>1, ToSetOfTuple DEF GdnNode, IsScore, Is, Reads
<1>11. /\ Adds("gdn", n1, B, B1) /\ Adds("gdn", n2, B1, B2)
      /\ Adds("gdn", n3, B2, B3) /\ Adds("gdn", n4, B3, C)
  BY <1>1, <1>2, <1>4, <1>5, <1>6, <1>7, <1>8, <1>9, <1>10, EpilogueAdds
<1>12. Builds("gdn", <<n1, n2, n3, n4>>, B, C)
  BY <1>11, BuildsTuple
<1>13. QED
  BY <1>12 DEF n1, n2, n3, n4, C

\* GDN's output: the score and its epilogue after the states.
LEMMA GdnOutputBuilds ==
  ASSUME NEW B, {"qF", "kF", "coef_qg", "coef_o", "h_flat", "vn_flat"} \subseteq B
  PROVE  Builds("gdn", << Einsum("o_inter_m", "nid,nde->nie", "qF", "h_flat"),
                          Glue("o_inter", "mul", <<"o_inter_m", "coef_qg">>),
                          Einsum("Aqk", "nid,njd->nij", "qF", "kF"),
                          Glue("Aqk_g", "mul", <<"Aqk", "coef_o">>),
                          Plumb("Aqk_c", "contiguous", <<"Aqk_g">>),
                          Einsum("o_intra", "nij,nje->nie", "Aqk_c", "vn_flat") >>,
                B, B \cup {"o_inter", "o_intra"})
<1> DEFINE n1 == Einsum("o_inter_m", "nid,nde->nie", "qF", "h_flat")
           n2 == Glue("o_inter", "mul", <<"o_inter_m", "coef_qg">>)
           n3 == Einsum("Aqk", "nid,njd->nij", "qF", "kF")
           n4 == Glue("Aqk_g", "mul", <<"Aqk", "coef_o">>)
           n5 == Plumb("Aqk_c", "contiguous", <<"Aqk_g">>)
           n6 == Einsum("o_intra", "nij,nje->nie", "Aqk_c", "vn_flat")
           B1 == B \cup {"o_inter_m"}
           B2 == B1 \cup {"o_inter"}
           B3 == B2 \cup {"Aqk"}
           B4 == B3 \cup {"Aqk_g"}
           B5 == B4 \cup {"Aqk_c"}
           C == B \cup {"o_inter", "o_intra"}
<1>1. /\ EpilogueFits("o_inter_m", {"qF", "h_flat"}, B, B1)
      /\ EpilogueFits("o_inter", {"o_inter_m", "coef_qg"}, B1, B2)
      /\ EpilogueFits("Aqk", {"qF", "kF"}, B2, B3)
      /\ EpilogueFits("Aqk_g", {"Aqk", "coef_o"}, B3, B4)
  BY DEF EpilogueFits, WholeNames, LateNames
<1>2. /\ EpilogueFits("Aqk_c", {"Aqk_g"}, B4, B5)
      /\ EpilogueFits("o_intra", {"Aqk_c", "vn_flat"}, B5, C)
  BY DEF EpilogueFits, WholeNames, LateNames
<1> HIDE DEF B1, B2, B3, B4, B5, C
<1>3. n1.outs = <<"o_inter_m">> /\ n1.ins = <<"qF", "h_flat">> /\ n1.kind = "einsum"
  BY Zenon DEF Einsum, Node
<1>4. ~ IsScore(n1)
  BY Zenon DEF IsScore, Is, Einsum, Node
<1>5. n2.outs = <<"o_inter">> /\ n2.ins = <<"o_inter_m", "coef_qg">> /\ n2.kind = "glue" /\ n2.op = "mul"
  BY NodeFields
<1>6. n3.outs = <<"Aqk">> /\ n3.ins = <<"qF", "kF">> /\ n3.kind = "einsum"
  BY Zenon DEF Einsum, Node
<1>7. IsScore(n3)
  BY Zenon DEF IsScore, Is, Einsum, Node
<1>8. n4.outs = <<"Aqk_g">> /\ n4.ins = <<"Aqk", "coef_o">> /\ n4.kind = "glue" /\ n4.op = "mul"
  BY NodeFields
<1>9. n5.outs = <<"Aqk_c">> /\ n5.ins = <<"Aqk_g">> /\ n5.kind = "plumb" /\ n5.op = "contiguous"
  BY NodeFields
<1>10. n6.outs = <<"o_intra">> /\ n6.ins = <<"Aqk_c", "vn_flat">> /\ n6.kind = "einsum"
  BY Zenon DEF Einsum, Node
<1>11. ~ IsScore(n6)
  BY Zenon DEF IsScore, Is, Einsum, Node
<1> HIDE DEF n1, n2, n3, n4, n5, n6
<1>12. ToSet(n1.ins) = {"qF", "h_flat"} /\ GdnNode(n1)
  <2>1. ToSet(n1.ins) = {"qF", "h_flat"} /\ n1.outs[1] = "o_inter_m"
    BY <1>3, ToSetOfTuple
  <2>2. QED
    BY <1>3, <2>1, ToSetOfTuple, <1>4 DEF GdnNode, Is, Reads
<1>13. ToSet(n2.ins) = {"o_inter_m", "coef_qg"} /\ GdnNode(n2)
  <2>1. ToSet(n2.ins) = {"o_inter_m", "coef_qg"} /\ n2.outs[1] = "o_inter"
    BY <1>5, ToSetOfTuple
  <2>2. QED
    BY <1>5, <2>1, ToSetOfTuple DEF GdnNode, IsScore, Is, Reads
<1>14. ToSet(n3.ins) = {"qF", "kF"} /\ GdnNode(n3)
  <2>1. ToSet(n3.ins) = {"qF", "kF"} /\ n3.outs[1] = "Aqk"
    BY <1>6, ToSetOfTuple
  <2>2. QED
    BY <1>6, <2>1, ToSetOfTuple, <1>7 DEF GdnNode, Is, Reads
<1>15. ToSet(n4.ins) = {"Aqk", "coef_o"} /\ GdnNode(n4)
  <2>1. ToSet(n4.ins) = {"Aqk", "coef_o"} /\ n4.outs[1] = "Aqk_g"
    BY <1>8, ToSetOfTuple
  <2>2. QED
    BY <1>8, <2>1, ToSetOfTuple DEF GdnNode, IsScore, Is, Reads
<1>16. ToSet(n5.ins) = {"Aqk_g"} /\ GdnNode(n5)
  <2>1. ToSet(n5.ins) = {"Aqk_g"} /\ n5.outs[1] = "Aqk_c"
    BY <1>9, ToSetOfTuple
  <2>2. QED
    BY <1>9, <2>1, ToSetOfTuple DEF GdnNode, IsScore, Is, Reads
<1>17. ToSet(n6.ins) = {"Aqk_c", "vn_flat"} /\ GdnNode(n6)
  <2>1. ToSet(n6.ins) = {"Aqk_c", "vn_flat"} /\ n6.outs[1] = "o_intra"
    BY <1>10, ToSetOfTuple
  <2>2. QED
    BY <1>10, <2>1, ToSetOfTuple, <1>11 DEF GdnNode, Is, Reads
<1>18. /\ Adds("gdn", n1, B, B1) /\ Adds("gdn", n2, B1, B2) /\ Adds("gdn", n3, B2, B3)
      /\ Adds("gdn", n4, B3, B4) /\ Adds("gdn", n5, B4, B5) /\ Adds("gdn", n6, B5, C)
  BY <1>1, <1>2, <1>3, <1>5, <1>6, <1>8, <1>9, <1>10,
     <1>12, <1>13, <1>14, <1>15, <1>16, <1>17, EpilogueAdds
<1>19. Builds("gdn", <<n1, n2, n3, n4>>, B, B4) /\ Builds("gdn", <<n5, n6>>, B4, C)
  BY <1>18, BuildsTuple
<1>20. Builds("gdn", <<n1, n2, n3, n4, n5, n6>>, B, C)
  BY <1>19, LongBuilds
<1>21. QED
  BY <1>20 DEF n1, n2, n3, n4, n5, n6, C

\* One chunk of GDN.
LEMMA GdnChunkBuilds ==
  ASSUME NEW c \in Chunks, NEW B, ScanReads \cup {"coef_vcs", "coef_S"} \subseteq B
  PROVE  Builds("gdn",
                Residual(c)
                \o << Slice(At("vcs", c), "coef_vcs", c),
                      Glue(At("vn2", c), "mul", <<At("vn", c), At("vcs", c)>>) >>
                \o Key(c) \o << Einsum(At("dS", c), "nid,nie->nde", At("kc", c), At("vn2", c)) >>
                \o Decay(c),
                B \cup {At("S", c)}, {At("S", c + 1), At("vn", c)})
<1> DEFINE s == At("S", c)
           vn == At("vn", c)
           vcs == At("vcs", c)
           vn2 == At("vn2", c)
           kc == At("kc", c)
           ds == At("dS", c)
           n1 == Slice(vcs, "coef_vcs", c)
           n2 == Glue(vn2, "mul", <<vn, vcs>>)
           n3 == Einsum(ds, "nid,nie->nde", kc, vn2)
           B0 == B \cup {s}
           B1 == B \cup {s, vn}
           B2 == B1 \cup {vcs}
           B3 == B2 \cup {vn2}
           B4 == B3 \cup {kc}
           B5 == B4 \cup {ds}
           B6 == B5 \cup {At("S", c + 1)}
<1>1. Fresh("gdn", s) /\ Fresh("gdn", vn) /\ Fresh("gdn", vcs) /\ Fresh("gdn", vn2)
      /\ Fresh("gdn", kc) /\ Fresh("gdn", ds)
  BY ChunkNamesFresh, StatesFresh, ChunkIndices
<1>2. Builds("gdn", Residual(c), B0, B1)
  BY ResidualBuilds
<1>3. Builds("gdn", Key(c), B3, B4)
  <2>1. ScanReads \subseteq B3
    OBVIOUS
  <2> HIDE DEF B3
  <2>2. QED
    BY <2>1, KeyBuilds
<1>4. Builds("gdn", Decay(c), B5, B6)
  <2>1. ScanReads \subseteq B5 /\ {"coef_S", s, ds} \subseteq B5
    OBVIOUS
  <2> HIDE DEF B5
  <2>2. QED
    BY <2>1, DecayBuilds
<1>5. /\ "coef_vcs" \in B1 /\ "coef_vcs" \notin Special \cup {"o"} /\ ScanReads \subseteq B1
      /\ {vn, vcs} \subseteq B2 /\ {kc, vn2} \subseteq B4 /\ ScanReads \subseteq B2 /\ ScanReads \subseteq B4
  BY DEF Special
<1>6. B2 \subseteq B1 \cup {vcs} /\ B3 \subseteq B2 \cup {vn2} /\ B5 \subseteq B4 \cup {ds}
  OBVIOUS
<1>7. B \cup {At("S", c)} = B0 /\ {At("S", c + 1), At("vn", c)} \subseteq B6
  OBVIOUS
<1> HIDE DEF s, vn, vcs, vn2, kc, ds, B0, B1, B2, B3, B4, B5, B6
<1>8. Fits("gdn", vcs, {"coef_vcs"}, B1, B2)
  BY <1>1, <1>5, <1>6, FreshFits
<1>9. Fits("gdn", vn2, {vn, vcs}, B2, B3)
  BY <1>1, <1>5, <1>6, FreshFits DEF Fresh
<1>10. Fits("gdn", ds, {kc, vn2}, B4, B5)
  BY <1>1, <1>5, <1>6, FreshFits DEF Fresh
<1>11. Builds("gdn", <<n1, n2>>, B1, B3)
  BY <1>8, <1>9, AddsNode, BuildsTuple
<1>12. Builds("gdn", <<n3>>, B4, B5)
  BY <1>10, AddsNode, BuildsTuple
<1> HIDE DEF n1, n2, n3
<1>13. Builds("gdn", Residual(c) \o <<n1, n2>> \o Key(c) \o <<n3>> \o Decay(c), B0, B6)
  BY <1>2, <1>3, <1>4, <1>11, <1>12, BuildsThen
<1>14. Builds("gdn", Residual(c) \o <<n1, n2>> \o Key(c) \o <<n3>> \o Decay(c),
              B0, {At("S", c + 1), At("vn", c)})
  BY <1>7, <1>13, BuildsMore
<1>15. QED
  BY <1>7, <1>14 DEF n1, n2, n3, s, vn, vcs, vn2, kc, ds

\* Gated DeltaNet, for any number of chunks.
LEMMA GdnOK == ProgramOK("gdn", Forward("gdn"))
<1> DEFINE ch == [c \in Chunks |->
              Residual(c)
              \o << Slice(At("vcs", c), "coef_vcs", c),
                    Glue(At("vn2", c), "mul", <<At("vn", c), At("vcs", c)>>) >>
              \o Key(c) \o << Einsum(At("dS", c), "nid,nie->nde", At("kc", c), At("vn2", c)) >>
              \o Decay(c)]
           score == << Einsum("Araw", "nid,njd->nij", "kF", "kF"),
                       Glue("Ag", "mul", <<"Araw", "coefA">>), Tril("A_t", "Ag", -1),
                       Plumb("A", "contiguous", <<"A_t">>) >>
           output == << Einsum("o_inter_m", "nid,nde->nie", "qF", "h_flat"),
                        Glue("o_inter", "mul", <<"o_inter_m", "coef_qg">>),
                        Einsum("Aqk", "nid,njd->nij", "qF", "kF"),
                        Glue("Aqk_g", "mul", <<"Aqk", "coef_o">>),
                        Plumb("Aqk_c", "contiguous", <<"Aqk_g">>),
                        Einsum("o_intra", "nij,nje->nie", "Aqk_c", "vn_flat") >>
           wy == WyFast("kb", "coef_kb", "coef_vb")
           I == {"qF", "kF", "vF", "coefA", "coef_kb", "coef_vb", "coef_qg", "coef_o",
                 "coef_vcs", "coef_S", "g_native", "beta_native", "beta_native_ones"}
           B1 == I \cup {"A"}
           B2 == B1 \cup {"Tm"}
           B3 == B2 \cup {"W_m", "U_m"}
           B4 == B3 \cup ScanReads \cup {"S0"}
           B5 == B4 \cup {At("S", c) : c \in Chunks} \cup {At("vn", c) : c \in Chunks}
           B6 == B5 \cup {"h_flat", "vn_flat"}
           B7 == B6 \cup {"o_inter", "o_intra"}
           B8 == B7 \cup {"o"}
           nodes == score \o SolveTril("Tm") \o wy \o Views \o Chunked(ch) \o Stacked
                    \o output \o OutSum
<1>1. Builds("gdn", score, I, B1)
  BY GdnScoreBuilds
<1>2. Builds("gdn", SolveTril("Tm"), B1, B2)
  BY SolveTrilBuilds
<1>3. Builds("gdn", wy, B2, B3)
  <2>1. {"kF", "vF", "Tm", "coef_kb", "coef_vb"} \subseteq B2
    OBVIOUS
  <2> HIDE DEF B2
  <2>2. QED
    BY <2>1, WyFastBuilds
<1>4. Builds("gdn", Views, B3, B4)
  <2>1. {"W_m", "U_m", "kF"} \subseteq B3
    OBVIOUS
  <2> HIDE DEF B3
  <2>2. QED
    BY <2>1, ViewsBuild
<1>5. Builds("gdn", Chunked(ch), B4, B5)
  <2>1. ScanReads \cup {"coef_vcs", "coef_S"} \subseteq B4 /\ "S0" \in B4
    OBVIOUS
  <2> HIDE DEF B4
  <2>2. Loops("gdn", ch, B4, "vn")
    BY <2>1, GdnChunkBuilds DEF Loops
  <2> HIDE DEF ch
  <2>3. QED
    BY <2>1, <2>2, ChunkedBuilds DEF B5
<1>6. Builds("gdn", Stacked, B5, B6)
  <2>1. /\ ScanReads \subseteq B5 /\ {At("S", c) : c \in Chunks} \subseteq B5
        /\ {At("vn", c) : c \in Chunks} \subseteq B5
    OBVIOUS
  <2> HIDE DEF B5
  <2>2. QED
    BY <2>1, StackedBuilds
<1>7. Builds("gdn", output, B6, B7)
  <2>1. {"qF", "kF", "coef_qg", "coef_o", "h_flat", "vn_flat"} \subseteq B6
    OBVIOUS
  <2> HIDE DEF B6
  <2>2. QED
    BY <2>1, GdnOutputBuilds
<1>8. Builds("gdn", OutSum, B7, B8)
  <2>1. {"o_inter", "o_intra"} \subseteq B7
    OBVIOUS
  <2> HIDE DEF B7
  <2>2. QED
    BY <2>1, OutSumBuilds
<1>9. {"o"} \subseteq B8 /\ I \subseteq I
  OBVIOUS
<1>10. Forward("gdn") = Prog(nodes, I, {"o"})
  BY Zenon DEF Forward, GDN
<1> HIDE DEF score, output, wy, ch, I, B1, B2, B3, B4, B5, B6, B7, B8
<1>11. Builds("gdn", nodes, I, B8)
  BY <1>1, <1>2, <1>3, <1>4, <1>5, <1>6, <1>7, <1>8, BuildsThen
<1> HIDE DEF nodes
<1>12. Builds("gdn", nodes, I, {"o"})
  BY <1>9, <1>11, BuildsMore
<1>13. Forward("gdn").inputs = I /\ Forward("gdn").outputs = {"o"}
  BY <1>10 DEF Prog
<1>14. QED
  BY <1>10, <1>12, <1>13, BuiltProgram
-----------------------------------------------------------------------------
\* The per-channel delta rule.
LEMMA KdaScoreBuilds ==
  ASSUME NEW B, {"kF", "coef_ag", "coef_bg", "coef_beta"} \subseteq B
  PROVE  Builds("kda", << Glue("a_op", "mul", <<"kF", "coef_ag">>),
                          Glue("b_op", "mul", <<"kF", "coef_bg">>),
                          Einsum("Araw", "nid,njd->nij", "a_op", "b_op"),
                          Glue("Ag", "mul", <<"Araw", "coef_beta">>), Tril("A_t", "Ag", -1),
                          Plumb("A", "contiguous", <<"A_t">>) >>, B, B \cup {"A"})
<1> DEFINE n1 == Glue("a_op", "mul", <<"kF", "coef_ag">>)
           n2 == Glue("b_op", "mul", <<"kF", "coef_bg">>)
           n3 == Einsum("Araw", "nid,njd->nij", "a_op", "b_op")
           n4 == Glue("Ag", "mul", <<"Araw", "coef_beta">>)
           n5 == Tril("A_t", "Ag", -1)
           n6 == Plumb("A", "contiguous", <<"A_t">>)
           B1 == B \cup {"a_op"}
           B2 == B1 \cup {"b_op"}
           B3 == B2 \cup {"Araw"}
           B4 == B3 \cup {"Ag"}
           B5 == B4 \cup {"A_t"}
           C == B \cup {"A"}
<1>1. /\ EpilogueFits("a_op", {"kF", "coef_ag"}, B, B1)
      /\ EpilogueFits("b_op", {"kF", "coef_bg"}, B1, B2)
      /\ EpilogueFits("Araw", {"a_op", "b_op"}, B2, B3)
  BY DEF EpilogueFits, WholeNames, LateNames
<1>2. /\ EpilogueFits("Ag", {"Araw", "coef_beta"}, B3, B4)
      /\ EpilogueFits("A_t", {"Ag"}, B4, B5)
      /\ EpilogueFits("A", {"A_t"}, B5, C)
  BY DEF EpilogueFits, WholeNames, LateNames
<1> HIDE DEF B1, B2, B3, B4, B5, C
<1>3. n1.outs = <<"a_op">> /\ n1.ins = <<"kF", "coef_ag">> /\ n1.kind = "glue" /\ n1.op = "mul"
  BY NodeFields
<1>4. n2.outs = <<"b_op">> /\ n2.ins = <<"kF", "coef_bg">> /\ n2.kind = "glue" /\ n2.op = "mul"
  BY NodeFields
<1>5. n3.outs = <<"Araw">> /\ n3.ins = <<"a_op", "b_op">> /\ n3.kind = "einsum"
  BY Zenon DEF Einsum, Node
<1>6. IsScore(n3)
  BY Zenon DEF IsScore, Is, Einsum, Node
<1>7. n4.outs = <<"Ag">> /\ n4.ins = <<"Araw", "coef_beta">> /\ n4.kind = "glue" /\ n4.op = "mul"
  BY NodeFields
<1>8. n5.outs = <<"A_t">> /\ n5.ins = <<"Ag">> /\ n5.kind = "glue" /\ n5.op = "tril"
  BY NodeFields
<1>9. n6.outs = <<"A">> /\ n6.ins = <<"A_t">> /\ n6.kind = "plumb" /\ n6.op = "contiguous"
  BY NodeFields
<1> HIDE DEF n1, n2, n3, n4, n5, n6
<1>10. ToSet(n1.ins) = {"kF", "coef_ag"} /\ KdaNode(n1)
  <2>1. ToSet(n1.ins) = {"kF", "coef_ag"} /\ n1.outs[1] = "a_op"
    BY <1>3, ToSetOfTuple
  <2>2. QED
    BY <1>3, <2>1, ToSetOfTuple DEF KdaNode, IsScore, Is, Reads
<1>11. ToSet(n2.ins) = {"kF", "coef_bg"} /\ KdaNode(n2)
  <2>1. ToSet(n2.ins) = {"kF", "coef_bg"} /\ n2.outs[1] = "b_op"
    BY <1>4, ToSetOfTuple
  <2>2. QED
    BY <1>4, <2>1, ToSetOfTuple DEF KdaNode, IsScore, Is, Reads
<1>12. ToSet(n3.ins) = {"a_op", "b_op"} /\ KdaNode(n3)
  <2>1. ToSet(n3.ins) = {"a_op", "b_op"} /\ n3.outs[1] = "Araw"
    BY <1>5, ToSetOfTuple
  <2>2. QED
    BY <1>5, <2>1, ToSetOfTuple, <1>6 DEF KdaNode, Is, Reads
<1>13. ToSet(n4.ins) = {"Araw", "coef_beta"} /\ KdaNode(n4)
  <2>1. ToSet(n4.ins) = {"Araw", "coef_beta"} /\ n4.outs[1] = "Ag"
    BY <1>7, ToSetOfTuple
  <2>2. QED
    BY <1>7, <2>1, ToSetOfTuple DEF KdaNode, IsScore, Is, Reads
<1>14. ToSet(n5.ins) = {"Ag"} /\ KdaNode(n5)
  <2>1. ToSet(n5.ins) = {"Ag"} /\ n5.outs[1] = "A_t"
    BY <1>8, ToSetOfTuple
  <2>2. QED
    BY <1>8, <2>1, ToSetOfTuple DEF KdaNode, IsScore, Is, Reads
<1>15. ToSet(n6.ins) = {"A_t"} /\ KdaNode(n6)
  <2>1. ToSet(n6.ins) = {"A_t"} /\ n6.outs[1] = "A"
    BY <1>9, ToSetOfTuple
  <2>2. QED
    BY <1>9, <2>1, ToSetOfTuple DEF KdaNode, IsScore, Is, Reads
<1>16. /\ Adds("kda", n1, B, B1) /\ Adds("kda", n2, B1, B2) /\ Adds("kda", n3, B2, B3)
      /\ Adds("kda", n4, B3, B4) /\ Adds("kda", n5, B4, B5) /\ Adds("kda", n6, B5, C)
  BY <1>1, <1>2, <1>3, <1>4, <1>5, <1>7, <1>8, <1>9,
     <1>10, <1>11, <1>12, <1>13, <1>14, <1>15, EpilogueAdds
<1>17. Builds("kda", <<n1, n2, n3, n4>>, B, B4) /\ Builds("kda", <<n5, n6>>, B4, C)
  BY <1>16, BuildsTuple
<1>18. Builds("kda", <<n1, n2, n3, n4, n5, n6>>, B, C)
  BY <1>17, LongBuilds
<1>19. QED
  BY <1>18 DEF n1, n2, n3, n4, n5, n6, C

\* KDA's output.
LEMMA KdaOutputBuilds ==
  ASSUME NEW B, {"qF", "kF", "coef_ag", "coef_bg", "h_flat", "vn_flat"} \subseteq B
  PROVE  Builds("kda", << Glue("q_eff", "mul", <<"qF", "coef_ag">>),
                          Einsum("o_inter", "nid,nde->nie", "q_eff", "h_flat"),
                          Glue("k_eff", "mul", <<"kF", "coef_bg">>),
                          Einsum("Aqk", "nid,njd->nij", "q_eff", "k_eff"), Tril("Aqk_t", "Aqk", 0),
                          Plumb("Aqk_c", "contiguous", <<"Aqk_t">>),
                          Einsum("o_intra", "nij,nje->nie", "Aqk_c", "vn_flat") >>,
                B, B \cup {"o_inter", "o_intra"})
<1> DEFINE n1 == Glue("q_eff", "mul", <<"qF", "coef_ag">>)
           n2 == Einsum("o_inter", "nid,nde->nie", "q_eff", "h_flat")
           n3 == Glue("k_eff", "mul", <<"kF", "coef_bg">>)
           n4 == Einsum("Aqk", "nid,njd->nij", "q_eff", "k_eff")
           n5 == Tril("Aqk_t", "Aqk", 0)
           n6 == Plumb("Aqk_c", "contiguous", <<"Aqk_t">>)
           n7 == Einsum("o_intra", "nij,nje->nie", "Aqk_c", "vn_flat")
           B1 == B \cup {"q_eff"}
           B2 == B1 \cup {"o_inter"}
           B3 == B2 \cup {"k_eff"}
           B4 == B3 \cup {"Aqk"}
           B5 == B4 \cup {"Aqk_t"}
           B6 == B5 \cup {"Aqk_c"}
           C == B \cup {"o_inter", "o_intra"}
<1>1. /\ EpilogueFits("q_eff", {"qF", "coef_ag"}, B, B1)
      /\ EpilogueFits("o_inter", {"q_eff", "h_flat"}, B1, B2)
      /\ EpilogueFits("k_eff", {"kF", "coef_bg"}, B2, B3)
      /\ EpilogueFits("Aqk", {"q_eff", "k_eff"}, B3, B4)
  BY DEF EpilogueFits, WholeNames, LateNames
<1>2. /\ EpilogueFits("Aqk_t", {"Aqk"}, B4, B5)
      /\ EpilogueFits("Aqk_c", {"Aqk_t"}, B5, B6)
      /\ EpilogueFits("o_intra", {"Aqk_c", "vn_flat"}, B6, C)
  BY DEF EpilogueFits, WholeNames, LateNames
<1> HIDE DEF B1, B2, B3, B4, B5, B6, C
<1>3. n1.outs = <<"q_eff">> /\ n1.ins = <<"qF", "coef_ag">> /\ n1.kind = "glue" /\ n1.op = "mul"
  BY NodeFields
<1>4. n2.outs = <<"o_inter">> /\ n2.ins = <<"q_eff", "h_flat">> /\ n2.kind = "einsum"
  BY Zenon DEF Einsum, Node
<1>5. ~ IsScore(n2)
  BY Zenon DEF IsScore, Is, Einsum, Node
<1>6. n3.outs = <<"k_eff">> /\ n3.ins = <<"kF", "coef_bg">> /\ n3.kind = "glue" /\ n3.op = "mul"
  BY NodeFields
<1>7. n4.outs = <<"Aqk">> /\ n4.ins = <<"q_eff", "k_eff">> /\ n4.kind = "einsum"
  BY Zenon DEF Einsum, Node
<1>8. IsScore(n4)
  BY Zenon DEF IsScore, Is, Einsum, Node
<1>9. n5.outs = <<"Aqk_t">> /\ n5.ins = <<"Aqk">> /\ n5.kind = "glue" /\ n5.op = "tril"
  BY NodeFields
<1>10. n6.outs = <<"Aqk_c">> /\ n6.ins = <<"Aqk_t">> /\ n6.kind = "plumb" /\ n6.op = "contiguous"
  BY NodeFields
<1>11. n7.outs = <<"o_intra">> /\ n7.ins = <<"Aqk_c", "vn_flat">> /\ n7.kind = "einsum"
  BY Zenon DEF Einsum, Node
<1>12. ~ IsScore(n7)
  BY Zenon DEF IsScore, Is, Einsum, Node
<1> HIDE DEF n1, n2, n3, n4, n5, n6, n7
<1>13. ToSet(n1.ins) = {"qF", "coef_ag"} /\ KdaNode(n1)
  <2>1. ToSet(n1.ins) = {"qF", "coef_ag"} /\ n1.outs[1] = "q_eff"
    BY <1>3, ToSetOfTuple
  <2>2. QED
    BY <1>3, <2>1, ToSetOfTuple DEF KdaNode, IsScore, Is, Reads
<1>14. ToSet(n2.ins) = {"q_eff", "h_flat"} /\ KdaNode(n2)
  <2>1. ToSet(n2.ins) = {"q_eff", "h_flat"} /\ n2.outs[1] = "o_inter"
    BY <1>4, ToSetOfTuple
  <2>2. QED
    BY <1>4, <2>1, ToSetOfTuple, <1>5 DEF KdaNode, Is, Reads
<1>15. ToSet(n3.ins) = {"kF", "coef_bg"} /\ KdaNode(n3)
  <2>1. ToSet(n3.ins) = {"kF", "coef_bg"} /\ n3.outs[1] = "k_eff"
    BY <1>6, ToSetOfTuple
  <2>2. QED
    BY <1>6, <2>1, ToSetOfTuple DEF KdaNode, IsScore, Is, Reads
<1>16. ToSet(n4.ins) = {"q_eff", "k_eff"} /\ KdaNode(n4)
  <2>1. ToSet(n4.ins) = {"q_eff", "k_eff"} /\ n4.outs[1] = "Aqk"
    BY <1>7, ToSetOfTuple
  <2>2. QED
    BY <1>7, <2>1, ToSetOfTuple, <1>8 DEF KdaNode, Is, Reads
<1>17. ToSet(n5.ins) = {"Aqk"} /\ KdaNode(n5)
  <2>1. ToSet(n5.ins) = {"Aqk"} /\ n5.outs[1] = "Aqk_t"
    BY <1>9, ToSetOfTuple
  <2>2. QED
    BY <1>9, <2>1, ToSetOfTuple DEF KdaNode, IsScore, Is, Reads
<1>18. ToSet(n6.ins) = {"Aqk_t"} /\ KdaNode(n6)
  <2>1. ToSet(n6.ins) = {"Aqk_t"} /\ n6.outs[1] = "Aqk_c"
    BY <1>10, ToSetOfTuple
  <2>2. QED
    BY <1>10, <2>1, ToSetOfTuple DEF KdaNode, IsScore, Is, Reads
<1>19. ToSet(n7.ins) = {"Aqk_c", "vn_flat"} /\ KdaNode(n7)
  <2>1. ToSet(n7.ins) = {"Aqk_c", "vn_flat"} /\ n7.outs[1] = "o_intra"
    BY <1>11, ToSetOfTuple
  <2>2. QED
    BY <1>11, <2>1, ToSetOfTuple, <1>12 DEF KdaNode, Is, Reads
<1>20. /\ Adds("kda", n1, B, B1) /\ Adds("kda", n2, B1, B2) /\ Adds("kda", n3, B2, B3)
      /\ Adds("kda", n4, B3, B4) /\ Adds("kda", n5, B4, B5) /\ Adds("kda", n6, B5, B6)
      /\ Adds("kda", n7, B6, C)
  BY <1>1, <1>2, <1>3, <1>4, <1>6, <1>7, <1>9, <1>10, <1>11,
     <1>13, <1>14, <1>15, <1>16, <1>17, <1>18, <1>19, EpilogueAdds
<1>21. Builds("kda", <<n1, n2, n3, n4>>, B, B4) /\ Builds("kda", <<n5, n6, n7>>, B4, C)
  BY <1>20, BuildsTuple
<1>22. Builds("kda", <<n1, n2, n3, n4, n5, n6, n7>>, B, C)
  BY <1>21, LongBuilds
<1>23. QED
  BY <1>22 DEF n1, n2, n3, n4, n5, n6, n7, C

\* One chunk of KDA.
LEMMA KdaChunkBuilds ==
  ASSUME NEW c \in Chunks, NEW B, ScanReads \cup {"coef_krest", "coef_S"} \subseteq B
  PROVE  Builds("kda",
                Residual(c) \o Key(c)
                \o << Slice(At("krc", c), "coef_krest", c),
                      Glue(At("krest", c), "mul", <<At("kc", c), At("krc", c)>>),
                      Einsum(At("dS", c), "nid,nie->nde", At("krest", c), At("vn", c)) >>
                \o Decay(c),
                B \cup {At("S", c)}, {At("S", c + 1), At("vn", c)})
<1> DEFINE s == At("S", c)
           vn == At("vn", c)
           krc == At("krc", c)
           krest == At("krest", c)
           kc == At("kc", c)
           ds == At("dS", c)
           n1 == Slice(krc, "coef_krest", c)
           n2 == Glue(krest, "mul", <<kc, krc>>)
           n3 == Einsum(ds, "nid,nie->nde", krest, vn)
           B0 == B \cup {s}
           B1 == B \cup {s, vn}
           B2 == B1 \cup {kc}
           B3 == B2 \cup {krc}
           B4 == B3 \cup {krest}
           B5 == B4 \cup {ds}
           B6 == B5 \cup {At("S", c + 1)}
<1>1. /\ Fresh("kda", s) /\ Fresh("kda", vn) /\ Fresh("kda", krc) /\ Fresh("kda", krest)
      /\ Fresh("kda", kc) /\ Fresh("kda", ds)
  BY ChunkNamesFresh, StatesFresh, ChunkIndices
<1>2. Builds("kda", Residual(c), B0, B1)
  BY ResidualBuilds
<1>3. Builds("kda", Key(c), B1, B2)
  <2>1. ScanReads \subseteq B1
    OBVIOUS
  <2> HIDE DEF B1
  <2>2. QED
    BY <2>1, KeyBuilds
<1>4. Builds("kda", Decay(c), B5, B6)
  <2>1. ScanReads \subseteq B5 /\ {"coef_S", s, ds} \subseteq B5
    OBVIOUS
  <2> HIDE DEF B5
  <2>2. QED
    BY <2>1, DecayBuilds
<1>5. /\ "coef_krest" \in B2 /\ "coef_krest" \notin Special \cup {"o"} /\ ScanReads \subseteq B2
      /\ {kc, krc} \subseteq B3 /\ {krest, vn} \subseteq B4 /\ ScanReads \subseteq B3 /\ ScanReads \subseteq B4
  BY DEF Special
<1>6. B3 \subseteq B2 \cup {krc} /\ B4 \subseteq B3 \cup {krest} /\ B5 \subseteq B4 \cup {ds}
  OBVIOUS
<1>7. B \cup {At("S", c)} = B0 /\ {At("S", c + 1), At("vn", c)} \subseteq B6
  OBVIOUS
<1> HIDE DEF s, vn, krc, krest, kc, ds, B0, B1, B2, B3, B4, B5, B6
<1>8. Fits("kda", krc, {"coef_krest"}, B2, B3)
  BY <1>1, <1>5, <1>6, FreshFits
<1>9. Fits("kda", krest, {kc, krc}, B3, B4)
  BY <1>1, <1>5, <1>6, FreshFits DEF Fresh
<1>10. Fits("kda", ds, {krest, vn}, B4, B5)
  BY <1>1, <1>5, <1>6, FreshFits DEF Fresh
<1>11. Builds("kda", <<n1, n2, n3>>, B2, B5)
  BY <1>8, <1>9, <1>10, AddsNode, BuildsTuple
<1> HIDE DEF n1, n2, n3
<1>12. Builds("kda", Residual(c) \o Key(c) \o <<n1, n2, n3>> \o Decay(c), B0, B6)
  BY <1>2, <1>3, <1>4, <1>11, BuildsThen
<1>13. Builds("kda", Residual(c) \o Key(c) \o <<n1, n2, n3>> \o Decay(c),
              B0, {At("S", c + 1), At("vn", c)})
  BY <1>7, <1>12, BuildsMore
<1>14. QED
  BY <1>7, <1>13 DEF n1, n2, n3, s, vn, krc, krest, kc, ds

\* KDA, for any number of chunks.
LEMMA KdaOK == ProgramOK("kda", Forward("kda"))
<1> DEFINE ch == [c \in Chunks |->
              Residual(c) \o Key(c)
              \o << Slice(At("krc", c), "coef_krest", c),
                    Glue(At("krest", c), "mul", <<At("kc", c), At("krc", c)>>),
                    Einsum(At("dS", c), "nid,nie->nde", At("krest", c), At("vn", c)) >>
              \o Decay(c)]
           score == << Glue("a_op", "mul", <<"kF", "coef_ag">>),
                       Glue("b_op", "mul", <<"kF", "coef_bg">>),
                       Einsum("Araw", "nid,njd->nij", "a_op", "b_op"),
                       Glue("Ag", "mul", <<"Araw", "coef_beta">>), Tril("A_t", "Ag", -1),
                       Plumb("A", "contiguous", <<"A_t">>) >>
           output == << Glue("q_eff", "mul", <<"qF", "coef_ag">>),
                        Einsum("o_inter", "nid,nde->nie", "q_eff", "h_flat"),
                        Glue("k_eff", "mul", <<"kF", "coef_bg">>),
                        Einsum("Aqk", "nid,njd->nij", "q_eff", "k_eff"), Tril("Aqk_t", "Aqk", 0),
                        Plumb("Aqk_c", "contiguous", <<"Aqk_t">>),
                        Einsum("o_intra", "nij,nje->nie", "Aqk_c", "vn_flat") >>
           wy == WyFast("wk", "coef_wg", "coef_ub")
           I == {"qF", "kF", "vF", "coef_ag", "coef_bg", "coef_beta", "coef_wg", "coef_ub",
                 "coef_krest", "coef_S"}
           B1 == I \cup {"A"}
           B2 == B1 \cup {"Tm"}
           B3 == B2 \cup {"W_m", "U_m"}
           B4 == B3 \cup ScanReads \cup {"S0"}
           B5 == B4 \cup {At("S", c) : c \in Chunks} \cup {At("vn", c) : c \in Chunks}
           B6 == B5 \cup {"h_flat", "vn_flat"}
           B7 == B6 \cup {"o_inter", "o_intra"}
           B8 == B7 \cup {"o"}
           nodes == score \o SolveTril("Tm") \o wy \o Views \o Chunked(ch) \o Stacked
                    \o output \o OutSum
<1>1. Builds("kda", score, I, B1)
  BY KdaScoreBuilds
<1>2. Builds("kda", SolveTril("Tm"), B1, B2)
  BY SolveTrilBuilds
<1>3. Builds("kda", wy, B2, B3)
  <2>1. {"kF", "vF", "Tm", "coef_wg", "coef_ub"} \subseteq B2
    OBVIOUS
  <2> HIDE DEF B2
  <2>2. QED
    BY <2>1, WyFastBuilds
<1>4. Builds("kda", Views, B3, B4)
  <2>1. {"W_m", "U_m", "kF"} \subseteq B3
    OBVIOUS
  <2> HIDE DEF B3
  <2>2. QED
    BY <2>1, ViewsBuild
<1>5. Builds("kda", Chunked(ch), B4, B5)
  <2>1. ScanReads \cup {"coef_krest", "coef_S"} \subseteq B4 /\ "S0" \in B4
    OBVIOUS
  <2> HIDE DEF B4
  <2>2. Loops("kda", ch, B4, "vn")
    BY <2>1, KdaChunkBuilds DEF Loops
  <2> HIDE DEF ch
  <2>3. QED
    BY <2>1, <2>2, ChunkedBuilds DEF B5
<1>6. Builds("kda", Stacked, B5, B6)
  <2>1. /\ ScanReads \subseteq B5 /\ {At("S", c) : c \in Chunks} \subseteq B5
        /\ {At("vn", c) : c \in Chunks} \subseteq B5
    OBVIOUS
  <2> HIDE DEF B5
  <2>2. QED
    BY <2>1, StackedBuilds
<1>7. Builds("kda", output, B6, B7)
  <2>1. {"qF", "kF", "coef_ag", "coef_bg", "h_flat", "vn_flat"} \subseteq B6
    OBVIOUS
  <2> HIDE DEF B6
  <2>2. QED
    BY <2>1, KdaOutputBuilds
<1>8. Builds("kda", OutSum, B7, B8)
  <2>1. {"o_inter", "o_intra"} \subseteq B7
    OBVIOUS
  <2> HIDE DEF B7
  <2>2. QED
    BY <2>1, OutSumBuilds
<1>9. {"o"} \subseteq B8 /\ I \subseteq I
  OBVIOUS
<1>10. Forward("kda") = Prog(nodes, I, {"o"})
  BY Zenon DEF Forward, KDA
<1> HIDE DEF score, output, wy, ch, I, B1, B2, B3, B4, B5, B6, B7, B8
<1>11. Builds("kda", nodes, I, B8)
  BY <1>1, <1>2, <1>3, <1>4, <1>5, <1>6, <1>7, <1>8, BuildsThen
<1> HIDE DEF nodes
<1>12. Builds("kda", nodes, I, {"o"})
  BY <1>9, <1>11, BuildsMore
<1>13. Forward("kda").inputs = I /\ Forward("kda").outputs = {"o"}
  BY <1>10 DEF Prog
<1>14. QED
  BY <1>10, <1>12, <1>13, BuiltProgram

-----------------------------------------------------------------------------
(* Forwards: DeltaNet.                                                     *)

LEMMA DeltaAdds ==
  ASSUME NEW n, NEW x, NEW reads, NEW B, NEW C, n.outs = <<x>>, DeltaNode(n),
         ToSet(n.ins) = reads, reads \subseteq B, C \subseteq B \cup {x}
  PROVE  Adds("deltanet", n, B, C)
<1>1. ToSet(n.outs) = {x} /\ n.outs = <<n.outs[1]>>
  BY ToSetOfTuple
<1>2. ScanOuts("deltanet") = {}
  BY DEF ScanOuts
<1>3. NodeOK("deltanet", n)
  BY <1>1, <1>2 DEF NodeOK
<1>4. Needs("deltanet", n) = reads
  BY <1>2 DEF Needs
<1>5. QED
  BY <1>1, <1>3, <1>4 DEF Adds

\* A flattened view.
LEMMA FlatBuilds ==
  ASSUME NEW src, src \notin Special \cup {"o"}, NEW B, src \in B,
         NEW dst \in {"kbF", "vbF", "kF", "qF", "h_flat", "vn_flat"}
  PROVE  Builds("deltanet", Flat(src, dst), B, B \cup {dst})
<1> DEFINE x == dst \o "_r"
           B1 == B \cup {x}
           C == B \cup {dst}
<1>1. x \notin WholeNames
  BY NamesAssumption
<1>2. Special \cup {"o"} \cup LateNames \cup {"a_op"} \subseteq WholeNames
  BY DEF Special, LateNames, WholeNames
<1>3. dst \notin LateNames \cup {"a_op"}
  BY DEF LateNames
<1>4. Flat(src, dst) = << Plumb(x, "reshape", <<src>>), Plumb(dst, "contiguous", <<x>>) >>
  BY DEF Flat
<1> HIDE DEF x
<1>5. Fits("deltanet", x, {src}, B, B1) /\ Fits("deltanet", dst, {x}, B1, C)
  BY <1>1, <1>2, <1>3 DEF Fits
<1> HIDE DEF B1, C
<1>6. Builds("deltanet", Flat(src, dst), B, C)
  BY <1>4, <1>5, AddsNode, BuildsTuple
<1>7. QED
  BY <1>6 DEF C

\* The operands scaled by beta.
LEMMA BetaScaledBuilds ==
  ASSUME NEW B, {"q", "k", "v", "beta"} \subseteq B
  PROVE  Builds("deltanet", BetaScaled, B, B \cup {"kbF", "vbF", "kF", "qF"})
<1> DEFINE n1 == Plumb("beta_u", "reshape", <<"beta">>)
           n2 == Glue("kb", "mul", <<"beta_u", "k">>)
           n3 == Glue("vb", "mul", <<"beta_u", "v">>)
           n4 == Plumb("k_h", "cast", <<"k">>)
           n5 == Plumb("q_h", "cast", <<"q">>)
           B1 == B \cup {"beta_u"}
           B2 == B1 \cup {"kb"}
           B3 == B2 \cup {"vb"}
           B4 == B3 \cup {"k_h"}
           B5 == B4 \cup {"q_h"}
           B6 == B5 \cup {"kbF"}
           B7 == B6 \cup {"vbF"}
           B8 == B7 \cup {"kF"}
           B9 == B8 \cup {"qF"}
           C == B \cup {"kbF", "vbF", "kF", "qF"}
<1>1. /\ Fits("deltanet", "beta_u", {"beta"}, B, B1)
      /\ Fits("deltanet", "kb", {"beta_u", "k"}, B1, B2)
      /\ Fits("deltanet", "vb", {"beta_u", "v"}, B2, B3)
  BY DEF Fits, LateNames, Special
<1>2. /\ Fits("deltanet", "k_h", {"k"}, B3, B4)
      /\ Fits("deltanet", "q_h", {"q"}, B4, B5)
  BY DEF Fits, LateNames, Special
<1>3. "kb" \in B5 /\ "vb" \in B6 /\ "k_h" \in B7 /\ "q_h" \in B8 /\ C \subseteq B9
  OBVIOUS
<1>4. {"kb", "vb", "k_h", "q_h"} \cap (Special \cup {"o"}) = {}
  BY DEF Special
<1> HIDE DEF B1, B2, B3, B4, B5
<1>5. Builds("deltanet", <<n1, n2, n3, n4>>, B, B4) /\ Builds("deltanet", <<n5>>, B4, B5)
  BY <1>1, <1>2, AddsNode, BuildsTuple
<1> HIDE DEF n1, n2, n3, n4, n5
<1>6. Builds("deltanet", <<n1, n2, n3, n4, n5>>, B, B5)
  BY <1>5, LongBuilds
<1>7. Builds("deltanet", Flat("kb", "kbF"), B5, B6)
  BY <1>3, <1>4, FlatBuilds
<1>8. Builds("deltanet", Flat("vb", "vbF"), B6, B7)
  <2> HIDE DEF B6
  <2>1. QED
    BY <1>3, <1>4, FlatBuilds
<1>9. Builds("deltanet", Flat("k_h", "kF"), B7, B8)
  <2> HIDE DEF B7
  <2>1. QED
    BY <1>3, <1>4, FlatBuilds
<1>10. Builds("deltanet", Flat("q_h", "qF"), B8, B9)
  <2> HIDE DEF B8
  <2>1. QED
    BY <1>3, <1>4, FlatBuilds
<1>11. BetaScaled = <<n1, n2, n3, n4, n5>>
                    \o Flat("kb", "kbF") \o Flat("vb", "vbF") \o Flat("k_h", "kF") \o Flat("q_h", "qF")
  BY Zenon DEF BetaScaled, n1, n2, n3, n4, n5
<1> HIDE DEF B6, B7, B8, B9, C
<1>12. Builds("deltanet", BetaScaled, B, B9)
  BY <1>6, <1>7, <1>8, <1>9, <1>10, <1>11, BuildsThen
<1>13. Builds("deltanet", BetaScaled, B, C)
  BY <1>3, <1>12, BuildsMore
<1>14. QED
  BY <1>13 DEF C

\* DeltaNet's score.
LEMMA DeltaScoreBuilds ==
  ASSUME NEW B, {"kbF", "kF"} \subseteq B
  PROVE  Builds("deltanet", << Einsum("Araw", "nid,njd->nij", "kbF", "kF"), Tril("A_t", "Araw", -1),
                               Plumb("A", "contiguous", <<"A_t">>) >>, B, B \cup {"A"})
<1> DEFINE n1 == Einsum("Araw", "nid,njd->nij", "kbF", "kF")
           n2 == Tril("A_t", "Araw", -1)
           n3 == Plumb("A", "contiguous", <<"A_t">>)
           B1 == B \cup {"Araw"}
           B2 == B1 \cup {"A_t"}
           C == B \cup {"A"}
<1>1. n1.outs = <<"Araw">> /\ n1.ins = <<"kbF", "kF">> /\ n1.kind = "einsum"
  BY Zenon DEF Einsum, Node
<1>2. IsScore(n1)
  BY Zenon DEF IsScore, Is, Einsum, Node
<1>3. n2.outs = <<"A_t">> /\ n2.ins = <<"Araw">> /\ n2.kind = "glue" /\ n2.op = "tril"
  BY NodeFields
<1>4. n3.outs = <<"A">> /\ n3.ins = <<"A_t">> /\ n3.kind = "plumb" /\ n3.op = "contiguous"
  BY NodeFields
<1> HIDE DEF n1, n2, n3
<1>5. ToSet(n1.ins) = {"kbF", "kF"} /\ DeltaNode(n1)
  <2>1. ToSet(n1.ins) = {"kbF", "kF"} /\ n1.outs[1] = "Araw"
    BY <1>1, ToSetOfTuple
  <2>2. QED
    BY <1>1, <2>1, ToSetOfTuple, <1>2 DEF DeltaNode, Is, Reads
<1>6. ToSet(n2.ins) = {"Araw"} /\ DeltaNode(n2)
  <2>1. ToSet(n2.ins) = {"Araw"} /\ n2.outs[1] = "A_t"
    BY <1>3, ToSetOfTuple
  <2>2. QED
    BY <1>3, <2>1, ToSetOfTuple DEF DeltaNode, IsScore, Is, Reads
<1>7. ToSet(n3.ins) = {"A_t"} /\ DeltaNode(n3)
  <2>1. ToSet(n3.ins) = {"A_t"} /\ n3.outs[1] = "A"
    BY <1>4, ToSetOfTuple
  <2>2. QED
    BY <1>4, <2>1, ToSetOfTuple DEF DeltaNode, IsScore, Is, Reads
<1>8. Adds("deltanet", n1, B, B1)
  BY <1>1, <1>5, DeltaAdds
<1>9. Adds("deltanet", n2, B1, B2)
  BY <1>3, <1>6, DeltaAdds
<1>10. Adds("deltanet", n3, B2, C)
  BY <1>4, <1>7, DeltaAdds
<1> HIDE DEF B1, B2, C
<1>11. Builds("deltanet", <<n1, n2, n3>>, B, C)
  BY <1>8, <1>9, <1>10, BuildsTuple
<1>12. QED
  BY <1>11 DEF n1, n2, n3, C

\* W and U recomputed from the solved score.
LEMMA RecomputedBuilds ==
  ASSUME NEW B, {"T", "kbF", "vbF", "kF"} \subseteq B
  PROVE  Builds("deltanet", RecomputedWU, B, B \cup ScanReads \cup {"S0", "W", "U"})
<1> DEFINE n1 == Einsum("W_m", "nij,njd->nid", "T", "kbF")
           n2 == Plumb("W", "reshape", <<"W_m">>)
           n3 == Einsum("U_m", "nij,njd->nid", "T", "vbF")
           n4 == Plumb("U", "reshape", <<"U_m">>)
           n5 == Plumb("Wb", "reshape", <<"W">>)
           n6 == Plumb("Ub", "reshape", <<"U">>)
           n7 == Plumb("kb5", "reshape", <<"kF">>)
           n8 == Plumb("S0", "zeros", <<"Wb">>)
           B1 == B \cup {"W_m"}
           B2 == B1 \cup {"W"}
           B3 == B2 \cup {"U_m"}
           B4 == B3 \cup {"U"}
           B5 == B4 \cup {"Wb"}
           B6 == B5 \cup {"Ub"}
           B7 == B6 \cup {"kb5"}
           C == B \cup ScanReads \cup {"S0", "W", "U"}
<1>1. /\ Fits("deltanet", "W_m", {"T", "kbF"}, B, B1)
      /\ Fits("deltanet", "W", {"W_m"}, B1, B2)
      /\ Fits("deltanet", "U_m", {"T", "vbF"}, B2, B3)
      /\ Fits("deltanet", "U", {"U_m"}, B3, B4)
  BY DEF Fits, LateNames, Special
<1>2. /\ Fits("deltanet", "Wb", {"W"}, B4, B5)
      /\ Fits("deltanet", "Ub", {"U"}, B5, B6)
      /\ Fits("deltanet", "kb5", {"kF"}, B6, B7)
  BY DEF Fits, LateNames, Special
<1>3. Fits("deltanet", "S0", {"Wb"}, B7, C)
  BY DEF Fits, LateNames, Special, ScanReads
<1> HIDE DEF B1, B2, B3, B4, B5, B6, B7, C
<1>4. Builds("deltanet", <<n1, n2, n3, n4>>, B, B4)
  <2>1. "nij,njd->nid" # "nid,njd->nij"
    OBVIOUS
  <2>2. QED
    BY <1>1, <2>1, AddsNode, BuildsTuple
<1>5. Builds("deltanet", <<n5, n6, n7, n8>>, B4, C)
  BY <1>2, <1>3, AddsNode, BuildsTuple
<1>6. RecomputedWU = <<n1, n2, n3, n4, n5, n6, n7, n8>>
  BY Zenon DEF RecomputedWU
<1> HIDE DEF n1, n2, n3, n4, n5, n6, n7, n8
<1>7. Builds("deltanet", <<n1, n2, n3, n4, n5, n6, n7, n8>>, B, C)
  BY <1>4, <1>5, LongBuilds
<1>8. QED
  BY <1>6, <1>7 DEF C

\* DeltaNet's output.
LEMMA ChunkOBuilds ==
  ASSUME NEW B, {"h_bh", "vn_bh", "qF", "kF"} \subseteq B
  PROVE  Builds("deltanet", ChunkO, B, B \cup {"o"})
<1> DEFINE n1 == Einsum("o_inter", "nid,nde->nie", "qF", "h_flat")
           n2 == Einsum("Aqk_raw", "nid,njd->nij", "qF", "kF")
           n3 == Tril("Aqk_t", "Aqk_raw", 0)
           n4 == Plumb("Aqk", "contiguous", <<"Aqk_t">>)
           n5 == Einsum("o_intra", "nij,nje->nie", "Aqk", "vn_flat")
           D1 == B \cup {"h_flat"}
           D2 == D1 \cup {"vn_flat"}
           B1 == D2 \cup {"o_inter"}
           B2 == B1 \cup {"Aqk_raw"}
           B3 == B2 \cup {"Aqk_t"}
           B4 == B3 \cup {"Aqk"}
           B5 == B4 \cup {"o_intra"}
           B6 == B5 \cup {"o"}
           C == B \cup {"o"}
<1>1. n1.outs = <<"o_inter">> /\ n1.ins = <<"qF", "h_flat">> /\ n1.kind = "einsum"
  BY Zenon DEF Einsum, Node
<1>2. ~ IsScore(n1)
  BY Zenon DEF IsScore, Is, Einsum, Node
<1>3. n2.outs = <<"Aqk_raw">> /\ n2.ins = <<"qF", "kF">> /\ n2.kind = "einsum"
  BY Zenon DEF Einsum, Node
<1>4. IsScore(n2)
  BY Zenon DEF IsScore, Is, Einsum, Node
<1>5. n3.outs = <<"Aqk_t">> /\ n3.ins = <<"Aqk_raw">> /\ n3.kind = "glue" /\ n3.op = "tril"
  BY NodeFields
<1>6. n4.outs = <<"Aqk">> /\ n4.ins = <<"Aqk_t">> /\ n4.kind = "plumb" /\ n4.op = "contiguous"
  BY NodeFields
<1>7. n5.outs = <<"o_intra">> /\ n5.ins = <<"Aqk", "vn_flat">> /\ n5.kind = "einsum"
  BY Zenon DEF Einsum, Node
<1>8. ~ IsScore(n5)
  BY Zenon DEF IsScore, Is, Einsum, Node
<1> HIDE DEF n1, n2, n3, n4, n5
<1>9. ToSet(n1.ins) = {"qF", "h_flat"} /\ DeltaNode(n1)
  <2>1. ToSet(n1.ins) = {"qF", "h_flat"} /\ n1.outs[1] = "o_inter"
    BY <1>1, ToSetOfTuple
  <2>2. QED
    BY <1>1, <2>1, ToSetOfTuple, <1>2 DEF DeltaNode, Is, Reads
<1>10. ToSet(n2.ins) = {"qF", "kF"} /\ DeltaNode(n2)
  <2>1. ToSet(n2.ins) = {"qF", "kF"} /\ n2.outs[1] = "Aqk_raw"
    BY <1>3, ToSetOfTuple
  <2>2. QED
    BY <1>3, <2>1, ToSetOfTuple, <1>4 DEF DeltaNode, Is, Reads
<1>11. ToSet(n3.ins) = {"Aqk_raw"} /\ DeltaNode(n3)
  <2>1. ToSet(n3.ins) = {"Aqk_raw"} /\ n3.outs[1] = "Aqk_t"
    BY <1>5, ToSetOfTuple
  <2>2. QED
    BY <1>5, <2>1, ToSetOfTuple DEF DeltaNode, IsScore, Is, Reads
<1>12. ToSet(n4.ins) = {"Aqk_t"} /\ DeltaNode(n4)
  <2>1. ToSet(n4.ins) = {"Aqk_t"} /\ n4.outs[1] = "Aqk"
    BY <1>6, ToSetOfTuple
  <2>2. QED
    BY <1>6, <2>1, ToSetOfTuple DEF DeltaNode, IsScore, Is, Reads
<1>13. ToSet(n5.ins) = {"Aqk", "vn_flat"} /\ DeltaNode(n5)
  <2>1. ToSet(n5.ins) = {"Aqk", "vn_flat"} /\ n5.outs[1] = "o_intra"
    BY <1>7, ToSetOfTuple
  <2>2. QED
    BY <1>7, <2>1, ToSetOfTuple, <1>8 DEF DeltaNode, Is, Reads
<1>14. Adds("deltanet", n1, D2, B1)
  BY <1>1, <1>9, DeltaAdds
<1>15. Adds("deltanet", n2, B1, B2)
  BY <1>3, <1>10, DeltaAdds
<1>16. Adds("deltanet", n3, B2, B3)
  BY <1>5, <1>11, DeltaAdds
<1>17. Adds("deltanet", n4, B3, B4)
  BY <1>6, <1>12, DeltaAdds
<1>18. Adds("deltanet", n5, B4, B5)
  BY <1>7, <1>13, DeltaAdds
<1>19. /\ "vn_bh" \in D1 /\ {"h_bh", "vn_bh"} \cap (Special \cup {"o"}) = {}
      /\ {"o_inter", "o_intra"} \subseteq B5 /\ C \subseteq B6
  BY DEF Special
<1>20. Builds("deltanet", Flat("h_bh", "h_flat"), B, D1)
  BY <1>19, FlatBuilds
<1>21. Builds("deltanet", Flat("vn_bh", "vn_flat"), D1, D2)
  <2> HIDE DEF D1
  <2>1. QED
    BY <1>19, FlatBuilds
<1> HIDE DEF D1, D2, B1, B2, B3, B4, C
<1>22. Builds("deltanet", OutSum, B5, B6)
  <2> HIDE DEF B5
  <2>1. QED
    BY <1>19, OutSumBuilds
<1> HIDE DEF B5, B6
<1>23. Builds("deltanet", <<n1, n2, n3, n4>>, D2, B4) /\ Builds("deltanet", <<n5>>, B4, B5)
  BY <1>14, <1>15, <1>16, <1>17, <1>18, BuildsTuple
<1>24. Builds("deltanet", <<n1, n2, n3, n4, n5>>, D2, B5)
  BY <1>23, LongBuilds
<1>25. ChunkO = Flat("h_bh", "h_flat") \o Flat("vn_bh", "vn_flat") \o <<n1, n2, n3, n4, n5>> \o OutSum
  BY Zenon DEF ChunkO, n1, n2, n3, n4, n5
<1>26. Builds("deltanet", ChunkO, B, B6)
  BY <1>20, <1>21, <1>22, <1>24, <1>25, BuildsThen
<1>27. Builds("deltanet", ChunkO, B, C)
  BY <1>19, <1>26, BuildsMore
<1>28. QED
  BY <1>27 DEF C

\* One chunk of DeltaNet.
LEMMA DeltaChunkBuilds ==
  ASSUME NEW c \in Chunks, NEW B, ScanReads \subseteq B
  PROVE  Builds("deltanet",
                Residual(c) \o Key(c)
                \o << Einsum(At("dS", c), "nid,nie->nde", At("kc", c), At("vn", c)),
                      Glue(At("S", c + 1), "add", <<At("S", c), At("dS", c)>>) >>,
                B \cup {At("S", c)}, {At("S", c + 1), At("vn", c)})
<1> DEFINE s == At("S", c)
           sn == At("S", c + 1)
           vn == At("vn", c)
           kc == At("kc", c)
           ds == At("dS", c)
           n1 == Einsum(ds, "nid,nie->nde", kc, vn)
           n2 == Glue(sn, "add", <<s, ds>>)
           B0 == B \cup {s}
           B1 == B \cup {s, vn}
           B2 == B1 \cup {kc}
           B3 == B2 \cup {ds}
           B4 == B3 \cup {sn}
<1>1. /\ Fresh("deltanet", s) /\ Fresh("deltanet", sn) /\ Fresh("deltanet", vn)
      /\ Fresh("deltanet", kc) /\ Fresh("deltanet", ds)
  BY ChunkNamesFresh, StatesFresh, ChunkIndices
<1>2. Builds("deltanet", Residual(c), B0, B1)
  BY ResidualBuilds
<1>3. Builds("deltanet", Key(c), B1, B2)
  <2>1. ScanReads \subseteq B1
    OBVIOUS
  <2> HIDE DEF B1
  <2>2. QED
    BY <2>1, KeyBuilds
<1>4. {kc, vn} \subseteq B2 /\ {s, ds} \subseteq B3 /\ ScanReads \subseteq B2 /\ ScanReads \subseteq B3
  OBVIOUS
<1>5. B3 \subseteq B2 \cup {ds} /\ B4 \subseteq B3 \cup {sn}
  OBVIOUS
<1>6. B \cup {At("S", c)} = B0 /\ {At("S", c + 1), At("vn", c)} \subseteq B4
  OBVIOUS
<1> HIDE DEF s, sn, vn, kc, ds, B0, B1, B2, B3, B4
<1>7. Fits("deltanet", ds, {kc, vn}, B2, B3)
  BY <1>1, <1>4, <1>5, FreshFits DEF Fresh
<1>8. Fits("deltanet", sn, {s, ds}, B3, B4)
  BY <1>1, <1>4, <1>5, FreshFits DEF Fresh
<1>9. Builds("deltanet", <<n1, n2>>, B2, B4)
  BY <1>7, <1>8, AddsNode, BuildsTuple
<1> HIDE DEF n1, n2
<1>10. Builds("deltanet", Residual(c) \o Key(c) \o <<n1, n2>>, B0, B4)
  BY <1>2, <1>3, <1>9, BuildsThen
<1>11. Builds("deltanet", Residual(c) \o Key(c) \o <<n1, n2>>, B0, {At("S", c + 1), At("vn", c)})
  BY <1>6, <1>10, BuildsMore
<1>12. QED
  BY <1>6, <1>11 DEF n1, n2, s, sn, vn, kc, ds

\* DeltaNet's states and residuals stacked, and returned.
LEMMA DeltaStackedBuilds ==
  ASSUME NEW B, ScanReads \subseteq B, {At("S", c) : c \in Chunks} \subseteq B,
         {At("vn", c) : c \in Chunks} \subseteq B
  PROVE  Builds("deltanet",
                << Plumb("h_bh", "stack", Each("S")), Plumb("h_state", "reshape", <<"h_bh">>),
                   Plumb("vn_bh", "stack", Each("vn")), Plumb("v_new", "reshape", <<"vn_bh">>) >>,
                B, B \cup {"h_bh", "vn_bh", "h_state", "v_new"})
<1> DEFINE n1 == Plumb("h_bh", "stack", Each("S"))
           n2 == Plumb("h_state", "reshape", <<"h_bh">>)
           n3 == Plumb("vn_bh", "stack", Each("vn"))
           n4 == Plumb("v_new", "reshape", <<"vn_bh">>)
           B1 == B \cup {"h_bh"}
           B2 == B1 \cup {"h_state"}
           B3 == B2 \cup {"vn_bh"}
           C  == B \cup {"h_bh", "vn_bh", "h_state", "v_new"}
<1>1. /\ B1 \subseteq B \cup {"h_bh"} /\ B3 \subseteq B2 \cup {"vn_bh"} /\ ScanReads \subseteq B2
      /\ {At("vn", c) : c \in Chunks} \subseteq B2
  OBVIOUS
<1>2. Fits("deltanet", "h_state", {"h_bh"}, B1, B2) /\ Fits("deltanet", "v_new", {"vn_bh"}, B3, C)
  BY DEF Fits, Special, LateNames
<1> HIDE DEF B1, B2, B3, C
<1>3. Fits("deltanet", "h_bh", {At("S", c) : c \in Chunks}, B, B1)
  BY <1>1, StacksFit
<1>4. Fits("deltanet", "vn_bh", {At("vn", c) : c \in Chunks}, B2, B3)
  BY <1>1, StacksFit
<1>5. Adds("deltanet", n1, B, B1) /\ Adds("deltanet", n3, B2, B3)
  BY <1>3, <1>4, StackNode
<1>6. Adds("deltanet", n2, B1, B2) /\ Adds("deltanet", n4, B3, C)
  BY <1>2, AddsNode
<1> HIDE DEF n1, n2, n3, n4
<1>7. Builds("deltanet", <<n1, n2, n3, n4>>, B, C)
  BY <1>5, <1>6, BuildsTuple
<1>8. QED
  BY <1>7 DEF C, n1, n2, n3, n4

\* DeltaNet, for any number of chunks.
LEMMA DeltaOK == ProgramOK("deltanet", Forward("deltanet"))
<1> DEFINE ch == [c \in Chunks |->
              Residual(c) \o Key(c)
              \o << Einsum(At("dS", c), "nid,nie->nde", At("kc", c), At("vn", c)),
                    Glue(At("S", c + 1), "add", <<At("S", c), At("dS", c)>>) >>]
           score == << Einsum("Araw", "nid,njd->nij", "kbF", "kF"), Tril("A_t", "Araw", -1),
                       Plumb("A", "contiguous", <<"A_t">>) >>
           stacked == << Plumb("h_bh", "stack", Each("S")), Plumb("h_state", "reshape", <<"h_bh">>),
                         Plumb("vn_bh", "stack", Each("vn")), Plumb("v_new", "reshape", <<"vn_bh">>) >>
           I == {"q", "k", "v", "beta"}
           O == {"A", "T", "W", "U", "v_new", "h_state", "o"}
           B1 == I \cup {"kbF", "vbF", "kF", "qF"}
           B2 == B1 \cup {"A"}
           B3 == B2 \cup {"T"}
           B4 == B3 \cup ScanReads \cup {"S0", "W", "U"}
           B5 == B4 \cup {At("S", c) : c \in Chunks} \cup {At("vn", c) : c \in Chunks}
           B6 == B5 \cup {"h_bh", "vn_bh", "h_state", "v_new"}
           B7 == B6 \cup {"o"}
           nodes == BetaScaled \o score \o SolveTril("T") \o RecomputedWU \o Chunked(ch)
                    \o stacked \o ChunkO
<1>1. Builds("deltanet", BetaScaled, I, B1)
  BY BetaScaledBuilds
<1>2. Builds("deltanet", score, B1, B2)
  BY DeltaScoreBuilds
<1>3. Builds("deltanet", SolveTril("T"), B2, B3)
  BY SolveTrilBuilds
<1>4. Builds("deltanet", RecomputedWU, B3, B4)
  <2>1. {"T", "kbF", "vbF", "kF"} \subseteq B3
    OBVIOUS
  <2> HIDE DEF B3
  <2>2. QED
    BY <2>1, RecomputedBuilds
<1>5. Builds("deltanet", Chunked(ch), B4, B5)
  <2>1. ScanReads \subseteq B4 /\ "S0" \in B4
    OBVIOUS
  <2> HIDE DEF B4
  <2>2. Loops("deltanet", ch, B4, "vn")
    BY <2>1, DeltaChunkBuilds DEF Loops
  <2> HIDE DEF ch
  <2>3. QED
    BY <2>1, <2>2, ChunkedBuilds DEF B5
<1>6. Builds("deltanet", stacked, B5, B6)
  <2>1. /\ ScanReads \subseteq B5 /\ {At("S", c) : c \in Chunks} \subseteq B5
        /\ {At("vn", c) : c \in Chunks} \subseteq B5
    OBVIOUS
  <2> HIDE DEF B5
  <2>2. QED
    BY <2>1, DeltaStackedBuilds
<1>7. Builds("deltanet", ChunkO, B6, B7)
  <2>1. {"h_bh", "vn_bh", "qF", "kF"} \subseteq B6
    OBVIOUS
  <2> HIDE DEF B6
  <2>2. QED
    BY <2>1, ChunkOBuilds
<1>8. O \subseteq B7 /\ I \subseteq I
  OBVIOUS
<1>9. Forward("deltanet") = Prog(nodes, I, O)
  BY Zenon DEF Forward, DeltaNet
<1> HIDE DEF score, stacked, ch, I, O, B1, B2, B3, B4, B5, B6, B7
<1>10. Builds("deltanet", nodes, I, B7)
  BY <1>1, <1>2, <1>3, <1>4, <1>5, <1>6, <1>7, BuildsThen
<1> HIDE DEF nodes
<1>11. Builds("deltanet", nodes, I, O)
  BY <1>8, <1>10, BuildsMore
<1>12. Forward("deltanet").inputs = I /\ Forward("deltanet").outputs = O
  BY <1>9 DEF Prog
<1>13. QED
  BY <1>9, <1>11, <1>12, BuiltProgram

-----------------------------------------------------------------------------
(* Forwards: the linear family.                                            *)

LEMMA UnrolledFits ==
  ASSUME NEW f, f \notin {"gdn", "kda"}, NEW x, NEW reads, NEW B, NEW C, x \notin WholeNames,
         \A r \in reads : r \in WholeNames => r \notin Special \cup {"o"},
         reads \subseteq B, C \subseteq B \cup {x}
  PROVE  Fits(f, x, reads, B, C)
<1>1. LateNames \cup {"a_op"} \subseteq WholeNames /\ Special \cup {"o"} \subseteq WholeNames
  BY DEF LateNames, Special, WholeNames
<1>2. QED
  BY <1>1 DEF Fits

\* A chunk's own score, of operands that are no whole tensor.
LEMMA UnrolledScore ==
  ASSUME NEW f, f \notin {"gdn", "kda", "deltanet"}, NEW x, NEW a, NEW b, NEW B, NEW C,
         x \notin WholeNames, a \notin WholeNames, {a, b} \subseteq B, C \subseteq B \cup {x}
  PROVE  Adds(f, Einsum(x, "nid,njd->nij", a, b), B, C)
<1> DEFINE n == Einsum(x, "nid,njd->nij", a, b)
<1>1. n.outs = <<x>> /\ n.ins = <<a, b>> /\ n.kind = "einsum"
  BY Zenon DEF Einsum, Node
<1> HIDE DEF n
<1>2. {"kF", "qF", "o"} \subseteq WholeNames
  BY DEF WholeNames
<1>3. ToSet(n.outs) = {x} /\ ToSet(n.ins) = {a, b} /\ n.outs = <<n.outs[1]>>
  BY <1>1, ToSetOfTuple
<1>4. n.ins[1] = a /\ n.outs[1] = x
  BY <1>1
<1>5. LinearNode(n)
  BY <1>1, <1>2, <1>3, <1>4 DEF LinearNode, Is
<1>6. NodeOK(f, n) /\ Needs(f, n) = {a, b}
  BY <1>3, <1>5, LinearFacts
<1>7. QED
  BY <1>3, <1>6 DEF Adds, n

\* The operands of a chunk.
LEMMA SlicesBuild ==
  ASSUME NEW f, f \notin {"gdn", "kda"}, NEW c \in Chunks, NEW B,
         {"q", "k", "v", "P", "invP", "gammaInvP"} \subseteq B
  PROVE  LET operands == <<"q", "k", "v", "P", "invP", "gammaInvP">>
         IN Builds(f, [i \in DOMAIN operands |-> Slice(At(operands[i], c), operands[i], c)], B,
                   B \cup {At("q", c), At("k", c), At("v", c), At("P", c), At("invP", c),
                           At("gammaInvP", c)})
<1> DEFINE operands == <<"q", "k", "v", "P", "invP", "gammaInvP">>
           s == [i \in DOMAIN operands |-> Slice(At(operands[i], c), operands[i], c)]
           x1 == At("q", c)
           x2 == At("k", c)
           x3 == At("v", c)
           x4 == At("P", c)
           x5 == At("invP", c)
           x6 == At("gammaInvP", c)
           n1 == Slice(x1, "q", c)
           n2 == Slice(x2, "k", c)
           n3 == Slice(x3, "v", c)
           n4 == Slice(x4, "P", c)
           n5 == Slice(x5, "invP", c)
           n6 == Slice(x6, "gammaInvP", c)
           B1 == B \cup {x1}
           B2 == B1 \cup {x2}
           B3 == B2 \cup {x3}
           B4 == B3 \cup {x4}
           B5 == B4 \cup {x5}
           C  == B \cup {x1, x2, x3, x4, x5, x6}
<1>1. s = <<n1, n2, n3, n4, n5, n6>>
  <2>1. DOMAIN operands = 1 .. 6 /\ operands[1] = "q" /\ operands[2] = "k" /\ operands[3] = "v"
        /\ operands[4] = "P" /\ operands[5] = "invP" /\ operands[6] = "gammaInvP"
    OBVIOUS
  <2> HIDE DEF operands
  <2>2. s = [i \in 1 .. 6 |-> Slice(At(operands[i], c), operands[i], c)]
    BY <2>1
  <2>3. DOMAIN s = 1 .. 6 /\ s[1] = n1 /\ s[2] = n2 /\ s[3] = n3 /\ s[4] = n4 /\ s[5] = n5 /\ s[6] = n6
    BY <2>1, <2>2
  <2>4. s = [i \in 1 .. 6 |-> s[i]]
    BY <2>2
  <2> HIDE DEF s, n1, n2, n3, n4, n5, n6
  <2>5. QED
    BY <2>3, <2>4
<1>2. /\ x1 \notin WholeNames /\ x2 \notin WholeNames /\ x3 \notin WholeNames
      /\ x4 \notin WholeNames /\ x5 \notin WholeNames /\ x6 \notin WholeNames
  BY NamesAssumption, ChunkIndices, Zenon DEF ChunkBases
<1> HIDE DEF x1, x2, x3, x4, x5, x6
<1>3. {"q", "k", "v", "P", "invP", "gammaInvP"} \cap (Special \cup {"o"}) = {}
  BY DEF Special
<1>4. Fits(f, x1, {"q"}, B, B1) /\ Fits(f, x2, {"k"}, B1, B2) /\ Fits(f, x3, {"v"}, B2, B3)
  BY <1>2, <1>3, UnrolledFits
<1>5. Fits(f, x4, {"P"}, B3, B4) /\ Fits(f, x5, {"invP"}, B4, B5) /\ Fits(f, x6, {"gammaInvP"}, B5, C)
  BY <1>2, <1>3, UnrolledFits
<1> HIDE DEF B1, B2, B3, B4, B5, C
<1>6. Builds(f, <<n1, n2, n3, n4>>, B, B4) /\ Builds(f, <<n5, n6>>, B4, C)
  BY <1>4, <1>5, AddsNode, BuildsTuple
<1> HIDE DEF n1, n2, n3, n4, n5, n6, s
<1>7. Builds(f, <<n1, n2, n3, n4, n5, n6>>, B, C)
  BY <1>6, LongBuilds
<1>8. Builds(f, s, B, C)
  BY <1>1, <1>7
<1>9. QED
  BY <1>8 DEF C, s, x1, x2, x3, x4, x5, x6

\* One chunk of the linear family.
LEMMA UnrolledBuilds ==
  ASSUME NEW f, f \notin {"gdn", "kda", "deltanet"}, NEW c \in Chunks, NEW B, NEW D,
         {"gamma", At("S", c), At("q", c), At("k", c), At("v", c), At("P", c), At("invP", c),
          At("gammaInvP", c)} \subseteq B,
         D = {At("S", c + 1), At("o", c)}
  PROVE  Builds(f,
           << Slice(At("g", c), "gamma", c),
              Glue(At("qd", c), "mul", <<At("q", c), At("P", c)>>),
              Glue(At("kinv", c), "mul", <<At("k", c), At("invP", c)>>),
              Glue(At("kout", c), "mul", <<At("k", c), At("gammaInvP", c)>>),
              Einsum(At("A", c), "nid,njd->nij", At("qd", c), At("kinv", c)),
              Tril(At("Am", c), At("A", c), 0),
              Einsum(At("o_intra", c), "nij,nje->nie", At("Am", c), At("v", c)),
              Einsum(At("o_inter", c), "nid,nde->nie", At("qd", c), At("S", c)),
              Glue(At("o", c), "add", <<At("o_inter", c), At("o_intra", c)>>),
              Einsum(At("dS", c), "nid,nie->nde", At("kout", c), At("v", c)),
              Plumb(At("gcol", c), "reshape", <<At("g", c)>>),
              Glue(At("Sdec", c), "mul", <<At("S", c), At("gcol", c)>>),
              Glue(At("S", c + 1), "add", <<At("Sdec", c), At("dS", c)>>) >>, B, D)
<1> DEFINE s == At("S", c)
           q == At("q", c)
           k == At("k", c)
           v == At("v", c)
           P == At("P", c)
           ip == At("invP", c)
           gp == At("gammaInvP", c)
           x1 == At("g", c)
           x2 == At("qd", c)
           x3 == At("kinv", c)
           x4 == At("kout", c)
           x5 == At("A", c)
           x6 == At("Am", c)
           x7 == At("o_intra", c)
           x8 == At("o_inter", c)
           x9 == At("o", c)
           x10 == At("dS", c)
           x11 == At("gcol", c)
           x12 == At("Sdec", c)
           x13 == At("S", c + 1)
           n1 == Slice(x1, "gamma", c)
           n2 == Glue(x2, "mul", <<q, P>>)
           n3 == Glue(x3, "mul", <<k, ip>>)
           n4 == Glue(x4, "mul", <<k, gp>>)
           n5 == Einsum(x5, "nid,njd->nij", x2, x3)
           n6 == Tril(x6, x5, 0)
           n7 == Einsum(x7, "nij,nje->nie", x6, v)
           n8 == Einsum(x8, "nid,nde->nie", x2, s)
           n9 == Glue(x9, "add", <<x8, x7>>)
           n10 == Einsum(x10, "nid,nie->nde", x4, v)
           n11 == Plumb(x11, "reshape", <<x1>>)
           n12 == Glue(x12, "mul", <<s, x11>>)
           n13 == Glue(x13, "add", <<x12, x10>>)
           B1 == B \cup {x1}
           B2 == B1 \cup {x2}
           B3 == B2 \cup {x3}
           B4 == B3 \cup {x4}
           B5 == B4 \cup {x5}
           B6 == B5 \cup {x6}
           B7 == B6 \cup {x7}
           B8 == B7 \cup {x8}
           B9 == B8 \cup {x9}
           B10 == B9 \cup {x10}
           B11 == B10 \cup {x11}
           B12 == B11 \cup {x12}
           B13 == B12 \cup {x13}
<1>1. /\ x1 \notin WholeNames /\ x2 \notin WholeNames /\ x3 \notin WholeNames
      /\ x4 \notin WholeNames /\ x5 \notin WholeNames /\ x6 \notin WholeNames
      /\ x7 \notin WholeNames /\ x8 \notin WholeNames /\ x9 \notin WholeNames
  BY NamesAssumption, ChunkIndices, Zenon DEF ChunkBases
<1>2. x10 \notin WholeNames /\ x11 \notin WholeNames /\ x12 \notin WholeNames /\ x13 \notin WholeNames
  BY NamesAssumption, ChunkIndices, Zenon DEF ChunkBases
<1>3. /\ s \notin WholeNames /\ q \notin WholeNames /\ k \notin WholeNames /\ v \notin WholeNames
      /\ P \notin WholeNames /\ ip \notin WholeNames /\ gp \notin WholeNames
  BY NamesAssumption, ChunkIndices, Zenon DEF ChunkBases
<1>4. {"gamma", s, q, k, v, P, ip, gp} \subseteq B /\ "gamma" \notin Special \cup {"o"}
  BY DEF Special
<1>5. D = {x13, x9}
  OBVIOUS
<1> HIDE DEF s, q, k, v, P, ip, gp, x1, x2, x3, x4, x5, x6, x7, x8, x9, x10, x11, x12, x13
<1>6. Fits(f, x1, {"gamma"}, B, B1) /\ Fits(f, x2, {q, P}, B1, B2)
  BY <1>1, <1>3, <1>4, UnrolledFits
<1>7. Fits(f, x3, {k, ip}, B2, B3) /\ Fits(f, x4, {k, gp}, B3, B4)
  BY <1>1, <1>3, <1>4, UnrolledFits
<1>8. Adds(f, n5, B4, B5)
  <2>1. {x2, x3} \subseteq B4 /\ B5 \subseteq B4 \cup {x5}
    OBVIOUS
  <2> HIDE DEF B4, B5
  <2>2. QED
    BY <1>1, <2>1, UnrolledScore
<1>9. Fits(f, x6, {x5}, B5, B6) /\ Fits(f, x7, {x6, v}, B6, B7) /\ Fits(f, x8, {x2, s}, B7, B8)
  BY <1>1, <1>3, <1>4, UnrolledFits
<1>10. Fits(f, x9, {x8, x7}, B8, B9) /\ Fits(f, x10, {x4, v}, B9, B10)
  BY <1>1, <1>2, <1>3, <1>4, UnrolledFits
<1>11. Fits(f, x11, {x1}, B10, B11) /\ Fits(f, x12, {s, x11}, B11, B12)
  BY <1>1, <1>2, <1>3, <1>4, UnrolledFits
<1>12. Fits(f, x13, {x12, x10}, B12, B13) /\ D \subseteq B13 /\ B \subseteq B
  BY <1>2, <1>5, UnrolledFits
<1> HIDE DEF B1, B2, B3, B4, B5, B6, B7, B8, B9, B10, B11, B12, B13
<1>13. Builds(f, <<n1, n2, n3, n4>>, B, B4)
  BY <1>6, <1>7, AddsNode, BuildsTuple
<1>14. Adds(f, n6, B5, B6) /\ Adds(f, n7, B6, B7) /\ Adds(f, n8, B7, B8)
  BY <1>9, AddsNode
<1>15. Adds(f, n9, B8, B9) /\ Adds(f, n10, B9, B10)
  BY <1>10, AddsNode
<1>16. Adds(f, n11, B10, B11) /\ Adds(f, n12, B11, B12) /\ Adds(f, n13, B12, B13)
  BY <1>11, <1>12, AddsNode
<1> HIDE DEF n1, n2, n3, n4, n5, n6, n7, n8, n9, n10, n11, n12, n13
<1>17. Builds(f, <<n5, n6, n7, n8>>, B4, B8)
  BY <1>8, <1>14, BuildsTuple
<1>18. Builds(f, <<n9, n10, n11, n12>>, B8, B12) /\ Builds(f, <<n13>>, B12, B13)
  BY <1>15, <1>16, BuildsTuple
<1>19. Builds(f, <<n9, n10, n11, n12, n13>>, B8, B13)
  BY <1>18, LongBuilds
<1>20. Builds(f, <<n1, n2, n3, n4, n5, n6, n7, n8>>, B, B8)
  BY <1>13, <1>17, LongBuilds
<1>21. Builds(f, <<n1, n2, n3, n4, n5, n6, n7, n8, n9, n10, n11, n12, n13>>, B, B13)
  BY <1>19, <1>20, LongBuilds
<1>22. Builds(f, <<n1, n2, n3, n4, n5, n6, n7, n8, n9, n10, n11, n12, n13>>, B, D)
  BY <1>12, <1>21, BuildsMore
<1>23. QED
  BY <1>22 DEF n1, n2, n3, n4, n5, n6, n7, n8, n9, n10, n11, n12, n13,
               s, q, k, v, P, ip, gp, x1, x2, x3, x4, x5, x6, x7, x8, x9, x10, x11, x12, x13

\* The linear family, scalar or per-channel, for any number of chunks.
LEMMA LinearOK == ASSUME NEW f \in {"scalar", "perchannel"} PROVE ProgramOK(f, Forward(f))
<1> DEFINE operands == <<"q", "k", "v", "P", "invP", "gammaInvP">>
           slices(c) == [i \in DOMAIN operands |-> Slice(At(operands[i], c), operands[i], c)]
           body(c) ==
            << Slice(At("g", c), "gamma", c),
              Glue(At("qd", c), "mul", <<At("q", c), At("P", c)>>),
              Glue(At("kinv", c), "mul", <<At("k", c), At("invP", c)>>),
              Glue(At("kout", c), "mul", <<At("k", c), At("gammaInvP", c)>>),
              Einsum(At("A", c), "nid,njd->nij", At("qd", c), At("kinv", c)),
              Tril(At("Am", c), At("A", c), 0),
              Einsum(At("o_intra", c), "nij,nje->nie", At("Am", c), At("v", c)),
              Einsum(At("o_inter", c), "nid,nde->nie", At("qd", c), At("S", c)),
              Glue(At("o", c), "add", <<At("o_inter", c), At("o_intra", c)>>),
              Einsum(At("dS", c), "nid,nie->nde", At("kout", c), At("v", c)),
              Plumb(At("gcol", c), "reshape", <<At("g", c)>>),
              Glue(At("Sdec", c), "mul", <<At("S", c), At("gcol", c)>>),
              Glue(At("S", c + 1), "add", <<At("Sdec", c), At("dS", c)>>) >>
           ch == [c \in Chunks |-> slices(c) \o body(c)]
           first == <<Plumb("S0", "zeros", <<"q">>)>>
           last == <<Plumb("o", "stack", Each("o"))>>
           I == ToSet(operands) \cup {"gamma", "g_intra", "beta_intra"}
           B1 == I \cup {"S0"}
           B2 == B1 \cup {At("S", c) : c \in Chunks} \cup {At("o", c) : c \in Chunks}
           B3 == B2 \cup {"o"}
           nodes == first \o Chunked(ch) \o last
<1>1. ToSet(operands) = {"q", "k", "v", "P", "invP", "gammaInvP"}
  BY DEF ToSet
<1>2. {"q", "k", "v", "P", "invP", "gammaInvP", "gamma"} \subseteq B1 /\ "S0" \in B1 /\ "q" \in I
  BY <1>1
<1>3. Forward(f) = Prog(nodes, I, {"o"})
  BY Zenon DEF Forward, Linear
<1>4. Builds(f, first, I, B1)
  <2>1. "q" \notin Special \cup {"o"} /\ "S0" \notin LateNames \cup {"a_op"}
    BY DEF Special, LateNames
  <2>2. B1 \subseteq I \cup {"S0"}
    OBVIOUS
  <2> HIDE DEF I, B1
  <2>3. Fits(f, "S0", {"q"}, I, B1)
    BY <1>2, <2>1, <2>2 DEF Fits
  <2>4. QED
    BY <2>3, AddsNode, BuildsTuple
<1>5. ASSUME NEW c \in Chunks
      PROVE  Builds(f, slices(c) \o body(c), B1 \cup {At("S", c)}, {At("S", c + 1), At("o", c)})
  <2> DEFINE A == B1 \cup {At("S", c)}
             G == A \cup {At("q", c), At("k", c), At("v", c), At("P", c), At("invP", c),
                          At("gammaInvP", c)}
             D == {At("S", c + 1), At("o", c)}
  <2>1. {"q", "k", "v", "P", "invP", "gammaInvP"} \subseteq A
    BY <1>2
  <2>2. {"gamma", At("S", c), At("q", c), At("k", c), At("v", c), At("P", c), At("invP", c),
         At("gammaInvP", c)} \subseteq G
    BY <1>2
  <2>3. f \notin {"gdn", "kda", "deltanet"}
    OBVIOUS
  <2> HIDE DEF A
  <2>4. Builds(f, slices(c), A, G)
    BY <2>1, <2>3, SlicesBuild
  <2>5. D = {At("S", c + 1), At("o", c)}
    OBVIOUS
  <2> HIDE DEF G, D
  <2>6. Builds(f, body(c), G, D)
    BY <2>2, <2>3, <2>5, UnrolledBuilds
  <2> HIDE DEF slices, body
  <2>7. Builds(f, slices(c) \o body(c), A, D)
    BY <2>4, <2>6, BuildsThen
  <2>8. QED
    BY <2>7 DEF A, D
<1>6. Builds(f, Chunked(ch), B1, B2)
  <2> HIDE DEF slices, body, B1
  <2>1. Loops(f, ch, B1, "o")
    BY <1>5 DEF Loops
  <2> HIDE DEF ch
  <2>2. QED
    BY <1>2, <2>1, ChunkedBuilds DEF B2
<1>7. Builds(f, last, B2, B3)
  <2>1. \A c \in Chunks : At("o", c) \notin WholeNames
    BY NamesAssumption, ChunkIndices, Zenon DEF ChunkBases
  <2>2. Special \cup {"o"} \subseteq WholeNames /\ "o" \notin LateNames \cup {"a_op"}
    BY DEF Special, WholeNames, LateNames
  <2>3. {At("o", c) : c \in Chunks} \cap (Special \cup {"o"}) = {}
    BY <2>1, <2>2
  <2>4. {At("o", c) : c \in Chunks} \subseteq B2 /\ B3 \subseteq B2 \cup {"o"}
    OBVIOUS
  <2> HIDE DEF B2, B3
  <2>5. Fits(f, "o", {At("o", c) : c \in Chunks}, B2, B3)
    BY <2>2, <2>3, <2>4 DEF Fits
  <2>6. Adds(f, Plumb("o", "stack", Each("o")), B2, B3)
    BY <2>5, StackNode
  <2>7. QED
    BY <2>6, BuildsNode
<1>8. {"o"} \subseteq B3 /\ I \subseteq I
  OBVIOUS
<1> HIDE DEF first, last, ch, I, B1, B2, B3
<1>9. Builds(f, nodes, I, B3)
  BY <1>4, <1>6, <1>7, BuildsThen
<1> HIDE DEF nodes
<1>10. Builds(f, nodes, I, {"o"})
  BY <1>8, <1>9, BuildsMore
<1>11. Forward(f).inputs = I /\ Forward(f).outputs = {"o"}
  BY <1>3 DEF Prog
<1>12. QED
  BY <1>3, <1>10, <1>11, BuiltProgram

-----------------------------------------------------------------------------
(* Rewrites: the invariant, and the theorem.                               *)

\* Every forward, as traced.
LEMMA ForwardOK == ASSUME NEW f \in Families PROVE ProgramOK(f, Forward(f))
BY GdnOK, KdaOK, DeltaOK, LinearOK DEF Families

\* Every forward, canonicalized.
LEMMA CanonicalOK == ASSUME NEW f \in Families PROVE ProgramOK(f, Canonicalize(Forward(f)))
<1> DEFINE pins == [i \in DOMAIN Forward(f).nodes |-> <<"NN", FALSE>>]
<1>1. Canonicalize(Forward(f)) = Annotated(Forward(f), pins)
  BY DEF Canonicalize
<1> HIDE DEF pins
<1>2. QED
  BY <1>1, ForwardOK, LeverOK

\* Every lever that fires.
LEMMA ApplyOK ==
  ASSUME family \in Families, NEW p, ProgramOK(family, p), NEW i \in DOMAIN Library,
         Library[i] # "fuse-contraction-epilogue", Matches(Library[i], p)
  PROVE  ProgramOK(family, Apply(Library[i], p))
<1> DEFINE t == Library[i]
           direct == [j \in DOMAIN p.nodes |-> <<"auto", p.nodes[j].fuse>>]
           fused == [j \in DOMAIN p.nodes |-> <<p.nodes[j].read, TRUE>>]
<1>1. t \in {"lower-resident-scan", "lower-perdim-scan", "fuse-chunk-o-flash",
             "fuse-perdim-chunk-o-flash", "batch-chunk-intra-score", "enable-direct-reads",
             "enable-fused-store"}
  BY DEF Library
<1> HIDE DEF t
<1>2. ASSUME t = "lower-resident-scan" PROVE ProgramOK(family, Apply(t, p))
  <2>1. ScanMatches(p, "coef_vcs") /\ Apply(t, p) = LowerScan(p, "coef_vcs")
    BY <1>2, Zenon DEF t, Matches, Apply
  <2>2. QED
    BY <2>1, ScanOK
<1>3. ASSUME t = "lower-perdim-scan" PROVE ProgramOK(family, Apply(t, p))
  <2>1. ScanMatches(p, "coef_krest") /\ Apply(t, p) = LowerScan(p, "coef_krest")
    BY <1>3, Zenon DEF t, Matches, Apply
  <2>2. QED
    BY <2>1, ScanOK
<1>4. ASSUME t = "fuse-chunk-o-flash" PROVE ProgramOK(family, Apply(t, p))
  <2>1. /\ FlashSites(p) # {}
        /\ Apply(t, p) = FuseOutput(p, First(FlashSites(p)), "qkv_flash_native",
                                    <<"g_native", "beta_native_ones">>, {})
    BY <1>4, Zenon DEF t, Matches, Apply
  <2>2. QED
    BY <2>1, GdnFlashOK
<1>5. ASSUME t = "fuse-perdim-chunk-o-flash" PROVE ProgramOK(family, Apply(t, p))
  <2>1. /\ PerDimSites(p) # {}
        /\ Apply(t, p) = FuseOutput(p, First(PerDimSites(p)), "qkvp_flash_native",
                                    <<"coef_ag", "coef_bg">>, Prescale(p, First(PerDimSites(p))))
    BY <1>5, Zenon DEF t, Matches, Apply
  <2>2. QED
    BY <2>1, KdaFlashOK
<1>6. ASSUME t = "batch-chunk-intra-score" PROVE ProgramOK(family, Apply(t, p))
  <2>1. BatchMatches(p) /\ Apply(t, p) = BatchScores(p, family = "perchannel")
    BY <1>6, Zenon DEF t, Matches, Apply
  <2>2. QED
    BY <2>1, BatchOK
<1>7. ASSUME t = "enable-direct-reads" PROVE ProgramOK(family, Apply(t, p))
  <2>1. Apply(t, p) = Annotated(p, direct)
    BY <1>7, Zenon DEF Apply
  <2> HIDE DEF direct
  <2>2. QED
    BY <2>1, LeverOK
<1>8. ASSUME t = "enable-fused-store" PROVE ProgramOK(family, Apply(t, p))
  <2>1. Apply(t, p) = Annotated(p, fused)
    BY <1>8, Zenon DEF Apply
  <2> HIDE DEF fused
  <2>2. QED
    BY <2>1, LeverOK
<1>9. QED
  BY <1>1, <1>2, <1>3, <1>4, <1>5, <1>6, <1>7, <1>8 DEF t

\* The best program so far and the candidate are both right.
ProgramInv ==
  family \in Families /\ ProgramOK(family, best) /\ ProgramOK(family, cand)

\* The initial programs, and every step of the driver.
LEMMA ProgramInit == RewriteInit => ProgramInv
<1> SUFFICES ASSUME RewriteInit PROVE ProgramInv
  OBVIOUS
<1>1. family \in Families /\ best = Canonicalize(Forward(family)) /\ cand = best
  BY DEF RewriteInit
<1>2. QED
  BY <1>1, CanonicalOK DEF ProgramInv

LEMMA ProgramStep ==
  ASSUME LeverInv, ProgramInv, [RewriteNext]_rewriteVars
  PROVE  ProgramInv'
<1>1. ASSUME family' = family, ProgramOK(family, best'), ProgramOK(family, cand')
      PROVE  ProgramInv'
  <2>1. ProgramOK(family, best)' /\ ProgramOK(family, cand)'
    BY <1>1 DEF ProgramOK, NodeOK
  <2>2. QED
    BY <1>1, <2>1 DEF ProgramInv
<1>2. /\ family \in Families /\ ProgramOK(family, best) /\ ProgramOK(family, cand)
      /\ plan \subseteq DOMAIN Library
  BY DEF ProgramInv, LeverInv
<1>3. ASSUME NEW i \in plan, Rewrite(i) PROVE ProgramInv'
  <2>1. /\ family' = family /\ best' = best /\ cand' = Apply(Library[i], best)
        /\ Matches(Library[i], best) /\ Library[i] # "fuse-contraction-epilogue"
    BY <1>3 DEF Rewrite
  <2>2. QED
    BY <1>1, <1>2, <2>1, ApplyOK
<1>4. ASSUME NEW i \in plan, Generate(i) PROVE ProgramInv'
  <2>1. family' = family /\ best' = best /\ cand' = Emit(cand) /\ Sites(cand) # {}
    BY <1>4 DEF Generate
  <2>2. QED
    BY <1>1, <1>2, <2>1, EmitOK
<1>5. ASSUME NEW i \in plan, Keep(i) PROVE ProgramInv'
  BY <1>1, <1>2, <1>5 DEF Keep
<1>6. ASSUME NEW i \in plan, RollBack(i) PROVE ProgramInv'
  BY <1>1, <1>2, <1>6 DEF RollBack
<1>7. ASSUME UNCHANGED <<family, best, cand>> PROVE ProgramInv'
  BY <1>1, <1>2, <1>7
<1>8. QED
  BY <1>3, <1>4, <1>5, <1>6, <1>7 DEF RewriteNext, PassOver, Generated, Exited, rewriteVars

\* The invariant of the levers names the lever a step applies; together they are
\* inductive.
LEMMA ProgramInvariance == PlanSpec => []ProgramInv
<1>1. PlanInit => ProgramInv
  BY ProgramInit DEF PlanInit
<1>2. LeverInv /\ ProgramInv /\ [PlanNext]_<<rewriteVars, planVars>> => ProgramInv'
  <2> SUFFICES ASSUME LeverInv, ProgramInv, [PlanNext]_<<rewriteVars, planVars>> PROVE ProgramInv'
    OBVIOUS
  <2>1. [RewriteNext]_rewriteVars
    BY DEF PlanNext, Compile, Plan, Returned
  <2>2. QED
    BY <2>1, ProgramStep
<1>3. QED
  BY <1>1, <1>2, LeverInvariance, PTL DEF PlanSpec

\* RewriteTypeOK: whatever levers match and whichever verdicts keep them or roll
\* them back, for every forward over any number of chunks, no rewrite leaves a
\* program in which a node reads a tensor that nothing before it binds, or in
\* which an output is bound by nothing: every node a rewrite drops was read only
\* by nodes it drops too.
THEOREM RewritesWellFormed == PlanSpec => []RewriteTypeOK
<1>1. LeverInv /\ ProgramInv => RewriteTypeOK
  <2> SUFFICES ASSUME LeverInv, ProgramInv PROVE RewriteTypeOK
    OBVIOUS
  <2>1. WellFormed(best) /\ WellFormed(cand)
    BY ProgramWellFormed DEF ProgramInv
  <2>2. kept \subseteq ToSet(Library)
    BY DEF LeverInv, ToSet
  <2>3. QED
    BY <2>1, <2>2 DEF LeverInv, ProgramInv, RewriteTypeOK
<1>2. QED
  BY <1>1, LeverInvariance, ProgramInvariance, PTL

-----------------------------------------------------------------------------
(* Rewrites: where a splice moves the nodes it leaves.                    *)

\* Where the entries of a flattened sequence come from, when its pieces have at
\* most one: flat has those of the first k pieces.
Places(seqs, flat, k, h) ==
  /\ h \in [DOMAIN flat -> 1 .. k]
  /\ \A a, b \in DOMAIN flat : h[a] = h[b] => a = b
  /\ \A a \in DOMAIN flat : seqs[h[a]] = <<flat[a]>>
  /\ \A i \in 1 .. k : seqs[i] # <<>> => \E a \in DOMAIN flat : h[a] = i

\* One more piece.
LEMMA PlacesStep ==
  ASSUME NEW S, NEW seqs, NEW flat \in Seq(S), NEW k \in Nat, NEW h,
         Places(seqs, flat, k, h), NEW piece, seqs[k+1] = piece,
         piece = <<>> \/ \E x \in S : piece = <<x>>
  PROVE  \E g : Places(seqs, flat \o piece, k + 1, g)
<1>1. /\ h \in [DOMAIN flat -> 1 .. k]
      /\ \A a, b \in DOMAIN flat : h[a] = h[b] => a = b
      /\ \A a \in DOMAIN flat : seqs[h[a]] = <<flat[a]>>
      /\ \A i \in 1 .. k : seqs[i] # <<>> => \E a \in DOMAIN flat : h[a] = i
  BY DEF Places
<1>2. Len(flat) \in Nat /\ DOMAIN flat = 1 .. Len(flat)
  BY LenProperties
<1>3. CASE piece = <<>>
  <2>1. flat \o piece = flat
    BY <1>3, ConcatEmptySeq
  <2>2. \A i \in 1 .. k + 1 : seqs[i] # <<>> => \E a \in DOMAIN flat : h[a] = i
    <3>1. \A i \in 1 .. k + 1 : i \in 1 .. k \/ i = k + 1
      OBVIOUS
    <3>2. QED
      BY <1>1, <1>3, <3>1
  <2>3. h \in [DOMAIN flat -> 1 .. k + 1]
    BY <1>1
  <2>4. Places(seqs, flat, k + 1, h)
    BY <1>1, <2>2, <2>3 DEF Places
  <2>5. QED
    BY <2>1, <2>4
<1>4. ASSUME NEW x \in S, piece = <<x>> PROVE \E g : Places(seqs, flat \o piece, k + 1, g)
  <2> DEFINE long == flat \o <<x>>
             l == Len(flat) + 1
             g == [a \in DOMAIN long |-> IF a = l THEN k + 1 ELSE h[a]]
  <2>1. /\ long \in Seq(S) /\ Len(long) = l /\ long[l] = x
        /\ \A a \in DOMAIN flat : long[a] = flat[a]
    BY <1>2, ConcatProperties
  <2>2. DOMAIN long = 1 .. l
    BY <2>1, LenProperties
  <2> HIDE DEF long
  <2>3. \A a \in DOMAIN long : a = l \/ (a \in DOMAIN flat /\ a # l)
    BY <1>2, <2>2
  <2>4. l \in DOMAIN long /\ l \notin DOMAIN flat /\ DOMAIN flat \subseteq DOMAIN long
    BY <1>2, <2>2
  <2>5. g[l] = k + 1 /\ \A a \in DOMAIN flat : g[a] = h[a] /\ g[a] \in 1 .. k
    BY <1>1, <2>4
  <2>6. DOMAIN g = DOMAIN long /\ g = [a \in DOMAIN long |-> g[a]]
    OBVIOUS
  <2> HIDE DEF g, l
  <2>7. g \in [DOMAIN long -> 1 .. k + 1]
    <3>1. \A a \in DOMAIN long : g[a] \in 1 .. k + 1
      BY <2>3, <2>5
    <3>2. QED
      BY <2>6, <3>1
  <2>8. \A a, b \in DOMAIN long : g[a] = g[b] => a = b
    <3>1. \A a \in DOMAIN flat : g[a] # k + 1
      BY <2>5
    <3>2. QED
      BY <1>1, <2>3, <2>5, <3>1
  <2>9. \A a \in DOMAIN long : seqs[g[a]] = <<long[a]>>
    BY <1>1, <1>4, <2>1, <2>3, <2>5
  <2>10. \A i \in 1 .. k + 1 : seqs[i] # <<>> => \E a \in DOMAIN long : g[a] = i
    <3>1. \A i \in 1 .. k + 1 : i \in 1 .. k \/ i = k + 1
      OBVIOUS
    <3>2. QED
      BY <1>1, <2>4, <2>5, <3>1
  <2>11. Places(seqs, long, k + 1, g)
    BY <2>7, <2>8, <2>9, <2>10 DEF Places
  <2>12. QED
    BY <1>4, <2>11 DEF long
<1>5. QED
  BY <1>3, <1>4

\* All pieces.
LEMMA FlattenPlaces ==
  ASSUME NEW S, NEW seqs \in Seq(Seq(S)), seqs # <<>>,
         \A i \in DOMAIN seqs : seqs[i] = <<>> \/ \E x \in S : seqs[i] = <<x>>
  PROVE  \E h : Places(seqs, FlattenSeq(seqs), Len(seqs), h)
<1> DEFINE N == Len(seqs)
<1>1. PICK flat \in [1 .. N -> Seq(S)] :
        /\ FlattenSeq(seqs) = flat[N]
        /\ \A i \in 1 .. N : flat[i] = IF i = 1 THEN seqs[i] ELSE flat[i-1] \o seqs[i]
  BY FlattenUnfold
<1>2. N \in Nat \ {0} /\ DOMAIN seqs = 1 .. N
  BY EmptySeq, LenProperties
<1> HIDE DEF N
<1> DEFINE Bad == {k \in 1 .. N : ~ \E h : Places(seqs, flat[k], k, h)}
<1>3. ASSUME NEW k \in 1 .. N, k # 1, NEW h, Places(seqs, flat[k-1], k - 1, h)
      PROVE  \E g : Places(seqs, flat[k], k, g)
  <2> DEFINE j == k - 1
  <2>1. j \in Nat /\ j + 1 = k /\ j \in 1 .. N /\ flat[k] = flat[j] \o seqs[k] /\ flat[j] \in Seq(S)
    <3>1. j \in Nat /\ j + 1 = k /\ j \in 1 .. N
      BY <1>2, <1>3
    <3>2. flat[k] = flat[j] \o seqs[k]
      BY <1>1, <1>3, Zenon
    <3>3. flat[j] \in Seq(S)
      BY <1>1, <3>1, Zenon
    <3>4. QED
      BY <3>1, <3>2, <3>3, Zenon
  <2>2. seqs[j+1] = seqs[k] /\ (seqs[k] = <<>> \/ \E x \in S : seqs[k] = <<x>>)
    BY <1>2, <2>1
  <2>3. Places(seqs, flat[j], j, h)
    BY <1>3
  <2> HIDE DEF j
  <2>4. \E g : Places(seqs, flat[j] \o seqs[k], j + 1, g)
    BY <2>1, <2>2, <2>3, PlacesStep
  <2>5. QED
    BY <2>1, <2>4
<1>4. \E g : Places(seqs, flat[1], 1, g)
  <2> DEFINE e == [a \in {} |-> 0]
             s == <<>>
  <2>1. s \in Seq(S) /\ DOMAIN s = {}
    BY EmptySeq
  <2>2. 1 \in DOMAIN seqs /\ 1 \in 1 .. N /\ 0 + 1 = 1 /\ 1 .. 0 = {}
    BY <1>2
  <2>3. Places(seqs, s, 0, e)
    <3> HIDE DEF s
    <3>1. QED
      BY <2>1, <2>2 DEF Places
  <2> HIDE DEF e
  <2>4. seqs[1] = <<>> \/ \E x \in S : seqs[1] = <<x>>
    BY <2>2
  <2>5. flat[1] = seqs[1] /\ s \o seqs[1] = seqs[1] /\ seqs[1] \in Seq(S)
    <3>1. flat[1] = seqs[1] /\ flat[1] \in Seq(S)
      BY <1>1, <2>2
    <3>2. QED
      BY <3>1, ConcatEmptySeq
  <2> HIDE DEF s
  <2>6. \E g : Places(seqs, s \o seqs[1], 0 + 1, g)
    BY <2>1, <2>2, <2>3, <2>4, PlacesStep
  <2>7. QED
    BY <2>2, <2>5, <2>6
<1>5. Bad = {}
  <2> SUFFICES ASSUME Bad # {} PROVE FALSE
    OBVIOUS
  <2>1. Bad \subseteq Nat
    BY <1>2
  <2>2. PICK k \in Bad : \A j \in Bad : k <= j
    BY <2>1, Least
  <2>3. k \in 1 .. N /\ ~ \E h : Places(seqs, flat[k], k, h)
    OBVIOUS
  <2>4. k # 1
    BY <1>4, <2>3
  <2>5. k - 1 \in 1 .. N /\ ~ (k <= k - 1)
    BY <1>2, <2>3, <2>4
  <2>6. \E h : Places(seqs, flat[k-1], k - 1, h)
    BY <2>2, <2>5
  <2>7. QED
    BY <1>3, <2>3, <2>4, <2>6
<1>6. N \in 1 .. N
  BY <1>2
<1>7. \E h : Places(seqs, flat[N], N, h)
  BY <1>5, <1>6
<1>8. QED
  BY <1>1, <1>7 DEF N

\* A function on an initial segment is a sequence.
LEMMA FunctionIsSeq ==
  ASSUME NEW S, NEW n \in Nat, NEW f \in [1 .. n -> S]
  PROVE  f \in Seq(S)
<1>1. f \in UNION {[1 .. m -> S] : m \in Nat}
  OBVIOUS
<1>2. QED
  BY <1>1, SeqDef, Zenon

\* Where the nodes of a program were before a splice of one node: the new one
\* at a position that was dropped, the others at their own.
Moved(p, q, drop, n, h) ==
  /\ h \in [DOMAIN q.nodes -> DOMAIN p.nodes]
  /\ \A a, b \in DOMAIN q.nodes : h[a] = h[b] => a = b
  /\ \A a \in DOMAIN q.nodes : q.nodes[a] = IF h[a] \in drop THEN n ELSE p.nodes[h[a]]
  /\ \A i \in DOMAIN p.nodes \ drop : \E a \in DOMAIN q.nodes : h[a] = i

\* Splice itself moves them so.
LEMMA SpliceMoves ==
  ASSUME NEW p, p = Prog(p.nodes, p.inputs, p.outputs), IsSeq(p.nodes),
         NEW drop, drop \subseteq DOMAIN p.nodes, drop # {}, NEW n
  PROVE  \E h : Moved(p, Splice(p, drop, <<n>>), drop, n, h)
<1> DEFINE nodes == p.nodes
           a0 == First(drop)
           pieces == [i \in DOMAIN nodes |->
                        IF i = a0 THEN <<n>> ELSE IF i \in drop THEN <<>> ELSE <<nodes[i]>>]
           S == {n} \cup ToSet(nodes)
           q == Splice(p, drop, <<n>>)
<1>1. Len(nodes) \in Nat /\ DOMAIN nodes = 1 .. Len(nodes)
  BY SeqFacts
<1>2. a0 \in drop
  <2>1. drop \subseteq Nat
    BY <1>1
  <2>2. QED
    BY <2>1, FirstFacts
<1>3. q.nodes = FlattenSeq(pieces)
  <2>1. Splice(Prog(nodes, p.inputs, p.outputs), drop, <<n>>)
          = Prog(FlattenSeq(pieces), p.inputs, p.outputs)
    BY DEF Splice, Prog
  <2> HIDE DEF pieces
  <2>2. q = Prog(FlattenSeq(pieces), p.inputs, p.outputs)
    BY <2>1
  <2> HIDE DEF q
  <2>3. QED
    BY <2>2, ProgFields
<1> HIDE DEF a0, q
<1>4. \A i \in DOMAIN nodes : nodes[i] \in S
  BY SeqFacts
<1>5. n \in S
  OBVIOUS
<1> HIDE DEF S
<1>6. \A i \in DOMAIN nodes : pieces[i] = <<>> \/ \E x \in S : pieces[i] = <<x>>
  BY <1>4, <1>5
<1>7. /\ DOMAIN pieces = DOMAIN nodes
      /\ \A i \in DOMAIN nodes : pieces[i] # <<>> =>
           pieces[i] = IF i \in drop THEN <<n>> ELSE <<nodes[i]>>
      /\ \A i \in DOMAIN nodes \ drop : pieces[i] = <<nodes[i]>>
  BY <1>2
<1>8. pieces = [i \in DOMAIN nodes |-> pieces[i]]
  OBVIOUS
<1> HIDE DEF pieces
<1>9. pieces \in Seq(Seq(S))
  <2>1. \A i \in DOMAIN nodes : pieces[i] \in Seq(S)
    <3>1. <<>> \in Seq(S) /\ \A x \in S : <<x>> \in Seq(S)
      OBVIOUS
    <3>2. QED
      BY <1>6, <3>1
  <2>2. pieces \in [1 .. Len(nodes) -> Seq(S)]
    BY <1>1, <1>8, <2>1
  <2>3. QED
    BY <1>1, <2>2, FunctionIsSeq, Zenon
<1>10. Len(pieces) = Len(nodes) /\ pieces # <<>>
  <2>1. DOMAIN pieces = 1 .. Len(pieces) /\ Len(pieces) \in Nat
    BY <1>9, LenProperties
  <2>2. Len(pieces) = Len(nodes)
    BY <1>1, <1>7, <2>1
  <2>3. QED
    BY <1>1, <1>2, <2>1, <2>2, EmptySeq
<1> DEFINE flat == FlattenSeq(pieces)
<1>11. PICK h : Places(pieces, flat, Len(nodes), h)
  <2>1. \A i \in DOMAIN pieces : pieces[i] = <<>> \/ \E x \in S : pieces[i] = <<x>>
    BY <1>6, <1>7
  <2>2. QED
    BY <1>9, <1>10, <2>1, FlattenPlaces
<1> HIDE DEF flat
<1>12. /\ h \in [DOMAIN flat -> DOMAIN nodes]
       /\ \A a, b \in DOMAIN flat : h[a] = h[b] => a = b
       /\ \A a \in DOMAIN flat : pieces[h[a]] = <<flat[a]>>
       /\ \A i \in DOMAIN nodes : pieces[i] # <<>> => \E a \in DOMAIN flat : h[a] = i
  BY <1>1, <1>11 DEF Places
<1>13. ASSUME NEW x, NEW y, <<x>> = <<y>> PROVE x = y
  <2>1. <<x>>[1] = x /\ <<y>>[1] = y
    OBVIOUS
  <2>2. QED
    BY <1>13, <2>1
<1>14. ASSUME NEW a \in DOMAIN flat
       PROVE  flat[a] = IF h[a] \in drop THEN n ELSE nodes[h[a]]
  <2> DEFINE m == IF h[a] \in drop THEN n ELSE nodes[h[a]]
  <2>1. h[a] \in DOMAIN nodes /\ pieces[h[a]] = <<flat[a]>>
    BY <1>12
  <2>2. <<flat[a]>> # <<>>
    OBVIOUS
  <2>3. pieces[h[a]] = <<m>>
    BY <1>7, <2>1, <2>2
  <2> HIDE DEF m
  <2>4. flat[a] = m
    BY <1>13, <2>1, <2>3
  <2>5. QED
    BY <2>4 DEF m
<1>15. ASSUME NEW i \in DOMAIN nodes \ drop PROVE \E a \in DOMAIN flat : h[a] = i
  <2>1. pieces[i] = <<nodes[i]>> /\ <<nodes[i]>> # <<>>
    BY <1>7
  <2>2. QED
    BY <1>12, <2>1
<1>16. q.nodes = flat
  BY <1>3 DEF flat
<1>17. Moved(p, q, drop, n, h)
  BY <1>12, <1>14, <1>15, <1>16 DEF Moved
<1>18. QED
  BY <1>17 DEF q

-----------------------------------------------------------------------------
(* Rewrites: an epilogue is what the links of its program make it.        *)

\* How the links of a program determine its epilogues.
LEMMA EpilogueUnfold ==
  ASSUME NEW p, IsSeq(p.nodes)
  PROVE  \E chain :
           /\ \A i \in DOMAIN p.nodes : Epilogue(p, i) = chain[Len(p.nodes)][i]
           /\ \A left \in 0 .. Len(p.nodes), k \in DOMAIN p.nodes :
                /\ \A c : Linked(p, k, c) /\ left > 0 =>
                            chain[left][k] = <<c>> \o chain[left-1][c]
                /\ (\A c : ~ Linked(p, k, c)) => chain[left][k] = <<>>
<1> DEFINE N == Len(p.nodes)
           D == DOMAIN p.nodes
           succ(k) == TheConsumer(p, p.nodes[k].outs[1])
           More(k) == SingleConsumer(p, p.nodes[k].outs[1]) /\ Absorbable(p.nodes[succ(k)])
           Recurs(g) == g = [left \in 0 .. Len(p.nodes) |->
               [k \in DOMAIN p.nodes |->
                  IF /\ left > 0 /\ SingleConsumer(p, p.nodes[k].outs[1])
                     /\ Absorbable(p.nodes[TheConsumer(p, p.nodes[k].outs[1])])
                  THEN <<TheConsumer(p, p.nodes[k].outs[1])>>
                         \o g[left - 1][TheConsumer(p, p.nodes[k].outs[1])]
                  ELSE <<>>]]
           chain == CHOOSE g : Recurs(g)
<1>1. \A i \in D : Epilogue(p, i) = chain[N][i]
  BY Zenon DEF Epilogue
<1>2. Recurs(chain)
  <2>1. \E g : Recurs(g)
    BY ChainRec
  <2> HIDE DEF Recurs
  <2>2. QED
    BY <2>1
<1> HIDE DEF chain
<1>3. \A left \in 0 .. N, k \in D :
        chain[left][k] = IF left > 0 /\ More(k) THEN <<succ(k)>> \o chain[left-1][succ(k)] ELSE <<>>
  <2>1. \A left \in 0 .. N : chain[left] =
               [k \in DOMAIN p.nodes |->
                  IF /\ left > 0 /\ SingleConsumer(p, p.nodes[k].outs[1])
                     /\ Absorbable(p.nodes[TheConsumer(p, p.nodes[k].outs[1])])
                  THEN <<TheConsumer(p, p.nodes[k].outs[1])>>
                         \o chain[left - 1][TheConsumer(p, p.nodes[k].outs[1])]
                  ELSE <<>>]
    BY <1>2
  <2>2. QED
    BY <2>1
<1>4. \A k \in D : More(k) => Linked(p, k, succ(k))
  BY SingleFacts DEF Linked
<1>5. ASSUME NEW k \in D, NEW c, Linked(p, k, c) PROVE More(k) /\ succ(k) = c
  <2>1. Consumers(p, p.nodes[k].outs[1]) = {c} /\ Absorbable(p.nodes[c])
    BY <1>5 DEF Linked
  <2>2. SingleConsumer(p, p.nodes[k].outs[1])
    BY <2>1, FS_Singleton DEF SingleConsumer
  <2>3. succ(k) = c
    BY <2>1 DEF TheConsumer, Only
  <2>4. QED
    BY <2>1, <2>2, <2>3
<1> HIDE DEF More, succ, Recurs
<1>6. \A left \in 0 .. N, k \in D :
        /\ \A c : Linked(p, k, c) /\ left > 0 => chain[left][k] = <<c>> \o chain[left-1][c]
        /\ (\A c : ~ Linked(p, k, c)) => chain[left][k] = <<>>
  BY <1>3, <1>4, <1>5
<1>7. QED
  BY <1>1, <1>6

\* A tuple, put together from its end.
LEMMA ChainTuples ==
  /\ \A a, b : <<a>> \o (<<b>> \o <<>>) = <<a, b>>
  /\ \A a, b, c : <<a>> \o (<<b>> \o (<<c>> \o <<>>)) = <<a, b, c>>
<1>1. ASSUME NEW a PROVE <<a>> \o <<>> = <<a>>
  OBVIOUS
<1>2. ASSUME NEW a, NEW b PROVE <<a>> \o <<b>> = <<a, b>>
  <2> DEFINE r == <<a, b>>
             s == <<a>>
             t == <<b>>
  <2>1. Joins(r, s, t)
    <3>1. Len(r) = 2 /\ Len(s) = 1 /\ Len(t) = 1 /\ r[1] = s[1] /\ r[2] = t[1]
      OBVIOUS
    <3> HIDE DEF r, s, t
    <3>2. \A i \in 1 .. 1 : i = 1
      OBVIOUS
    <3>3. QED
      BY <3>1, <3>2 DEF Joins
  <2>2. IsSeq(r) /\ IsSeq(s) /\ IsSeq(t)
    BY TupleIsSeq
  <2> HIDE DEF r, s, t
  <2>3. r = s \o t
    BY <2>1, <2>2, IsConcat
  <2>4. QED
    BY <2>3 DEF r, s, t
<1>3. ASSUME NEW a, NEW b, NEW c PROVE <<a>> \o <<b, c>> = <<a, b, c>>
  <2> DEFINE r == <<a, b, c>>
             s == <<a>>
             t == <<b, c>>
  <2>1. Joins(r, s, t)
    BY DEF Joins
  <2>2. IsSeq(r) /\ IsSeq(s) /\ IsSeq(t)
    BY TupleIsSeq
  <2> HIDE DEF r, s, t
  <2>3. r = s \o t
    BY <2>1, <2>2, IsConcat
  <2>4. QED
    BY <2>3 DEF r, s, t
<1>4. ASSUME NEW a, NEW b PROVE <<a>> \o (<<b>> \o <<>>) = <<a, b>>
  BY <1>1, <1>2, Zenon
<1>5. ASSUME NEW a, NEW b, NEW c PROVE <<a>> \o (<<b>> \o (<<c>> \o <<>>)) = <<a, b, c>>
  <2>1. <<c>> \o <<>> = <<c>>
    BY <1>1
  <2>2. <<b>> \o <<c>> = <<b, c>>
    BY <1>2
  <2>3. <<a>> \o <<b, c>> = <<a, b, c>>
    BY <1>3
  <2>4. QED
    BY <2>1, <2>2, <2>3, Zenon
<1>6. QED
  BY <1>4, <1>5, Zenon

\* A chain of two, and of three, that ends where nothing is linked.
LEMMA EpilogueOfTwo ==
  ASSUME NEW p, IsSeq(p.nodes), NEW i \in DOMAIN p.nodes, NEW c1, NEW c2, c1 # c2,
         Linked(p, i, c1), Linked(p, c1, c2), \A c : ~ Linked(p, c2, c)
  PROVE  Epilogue(p, i) = <<c1, c2>>
<1> DEFINE N == Len(p.nodes)
<1>1. PICK chain :
        /\ \A k \in DOMAIN p.nodes : Epilogue(p, k) = chain[N][k]
        /\ \A left \in 0 .. N, k \in DOMAIN p.nodes :
             /\ \A c : Linked(p, k, c) /\ left > 0 => chain[left][k] = <<c>> \o chain[left-1][c]
             /\ (\A c : ~ Linked(p, k, c)) => chain[left][k] = <<>>
  BY EpilogueUnfold
<1>2. N \in Nat /\ DOMAIN p.nodes = 1 .. N
  BY SeqFacts
<1> HIDE DEF N
<1>3. c1 \in DOMAIN p.nodes /\ c2 \in DOMAIN p.nodes
  BY DEF Linked
<1>4. N \in 0 .. N /\ N > 0 /\ N - 1 \in 0 .. N /\ N - 1 > 0 /\ (N - 1) - 1 \in 0 .. N
  BY <1>2, <1>3
<1>5. chain[(N - 1) - 1][c2] = <<>>
  BY <1>1, <1>3, <1>4
<1>6. chain[N - 1][c1] = <<c2>> \o chain[(N - 1) - 1][c2]
  BY <1>1, <1>3, <1>4
<1>7. chain[N][i] = <<c1>> \o chain[N - 1][c1]
  BY <1>1, <1>4
<1>8. <<c1>> \o (<<c2>> \o <<>>) = <<c1, c2>>
  BY ChainTuples
<1>9. QED
  BY <1>1, <1>5, <1>6, <1>7, <1>8

\* The same of three.
LEMMA EpilogueOfThree ==
  ASSUME NEW p, IsSeq(p.nodes), NEW i \in DOMAIN p.nodes, NEW c1, NEW c2, NEW c3,
         c1 # c2, c1 # c3, c2 # c3,
         Linked(p, i, c1), Linked(p, c1, c2), Linked(p, c2, c3), \A c : ~ Linked(p, c3, c)
  PROVE  Epilogue(p, i) = <<c1, c2, c3>>
<1> DEFINE N == Len(p.nodes)
<1>1. PICK chain :
        /\ \A k \in DOMAIN p.nodes : Epilogue(p, k) = chain[N][k]
        /\ \A left \in 0 .. N, k \in DOMAIN p.nodes :
             /\ \A c : Linked(p, k, c) /\ left > 0 => chain[left][k] = <<c>> \o chain[left-1][c]
             /\ (\A c : ~ Linked(p, k, c)) => chain[left][k] = <<>>
  BY EpilogueUnfold
<1>2. N \in Nat /\ DOMAIN p.nodes = 1 .. N
  BY SeqFacts
<1> HIDE DEF N
<1>3. c1 \in DOMAIN p.nodes /\ c2 \in DOMAIN p.nodes /\ c3 \in DOMAIN p.nodes
  BY DEF Linked
<1>4. /\ N \in 0 .. N /\ N > 0 /\ N - 1 \in 0 .. N /\ N - 1 > 0
      /\ (N - 1) - 1 \in 0 .. N /\ (N - 1) - 1 > 0 /\ ((N - 1) - 1) - 1 \in 0 .. N
  BY <1>2, <1>3
<1>5. chain[((N - 1) - 1) - 1][c3] = <<>>
  BY <1>1, <1>3, <1>4
<1>6. chain[(N - 1) - 1][c2] = <<c3>> \o chain[((N - 1) - 1) - 1][c3]
  <2>2. (N - 1) - 1 \in 0 .. N /\ (N - 1) - 1 > 0
    BY <1>4, Zenon
  <2>3. c2 \in DOMAIN p.nodes /\ Linked(p, c2, c3)
    BY <1>3, Zenon
  <2>4. QED
    BY <1>1, <2>2, <2>3, Zenon
<1>7. chain[N - 1][c1] = <<c2>> \o chain[(N - 1) - 1][c2]
  BY <1>1, <1>3, <1>4
<1>8. chain[N][i] = <<c1>> \o chain[N - 1][c1]
  BY <1>1, <1>4
<1>9. <<c1>> \o (<<c2>> \o (<<c3>> \o <<>>)) = <<c1, c2, c3>>
  BY ChainTuples
<1>10. QED
  BY <1>1, <1>5, <1>6, <1>7, <1>8, <1>9

\* A link of the new program is one of the old one, when the tensor it goes by
\* is read by nothing the splice puts in or takes out.
LEMMA MovedLink ==
  ASSUME NEW p, NEW q, NEW drop, NEW n, NEW h, Moved(p, q, drop, n, h),
         NEW k \in DOMAIN q.nodes, h[k] \notin drop, NEW c, Linked(q, k, c),
         NEW x, x = q.nodes[k].outs[1], ~ Reads(n, x),
         \A d \in drop : ~ Reads(p.nodes[d], x)
  PROVE  /\ c \in DOMAIN q.nodes /\ h[c] \in DOMAIN p.nodes \ drop
         /\ q.nodes[c] = p.nodes[h[c]] /\ Linked(p, h[k], h[c])
<1>1. c \in DOMAIN q.nodes /\ Consumers(q, x) = {c} /\ Absorbable(q.nodes[c])
  BY DEF Linked
<1>2. \A a \in DOMAIN q.nodes : /\ h[a] \in DOMAIN p.nodes
                                /\ h[a] \in drop => q.nodes[a] = n
                                /\ h[a] \notin drop => q.nodes[a] = p.nodes[h[a]]
  BY DEF Moved
<1>3. \A a \in DOMAIN q.nodes : Reads(q.nodes[a], x) <=> a = c
  BY <1>1 DEF Consumers, Reads
<1>4. h[c] \in DOMAIN p.nodes \ drop /\ q.nodes[c] = p.nodes[h[c]]
  BY <1>1, <1>2, <1>3
<1>5. p.nodes[h[k]].outs[1] = x
  BY <1>2
<1>6. Consumers(p, x) = {h[c]}
  <2>1. h[c] \in Consumers(p, x)
    BY <1>1, <1>3, <1>4 DEF Consumers, Reads
  <2>2. ASSUME NEW b \in Consumers(p, x) PROVE b = h[c]
    <3>1. b \in DOMAIN p.nodes /\ Reads(p.nodes[b], x)
      BY DEF Consumers, Reads
    <3>2. b \in DOMAIN p.nodes \ drop
      BY <3>1
    <3>3. PICK a \in DOMAIN q.nodes : h[a] = b
      BY <3>2 DEF Moved
    <3>4. Reads(q.nodes[a], x)
      BY <1>2, <3>1, <3>2, <3>3
    <3>5. QED
      BY <1>3, <3>3, <3>4
  <2>3. QED
    BY <2>1, <2>2
<1>7. QED
  BY <1>1, <1>4, <1>5, <1>6 DEF Linked

\* A tensor all of whose readers are taken out, and which the new node does not
\* read, is linked to nothing any more.
LEMMA MovedGone ==
  ASSUME NEW p, NEW q, NEW drop, NEW n, NEW h, Moved(p, q, drop, n, h),
         NEW k, NEW x, x = q.nodes[k].outs[1], ~ Reads(n, x), Consumers(p, x) \subseteq drop
  PROVE  \A c : ~ Linked(q, k, c)
<1> SUFFICES ASSUME NEW c, Linked(q, k, c) PROVE FALSE
  OBVIOUS
<1>1. c \in DOMAIN q.nodes /\ c \in Consumers(q, x)
  BY DEF Linked
<1>2. Reads(q.nodes[c], x)
  BY <1>1 DEF Consumers, Reads
<1>3. h[c] \in DOMAIN p.nodes /\ q.nodes[c] = IF h[c] \in drop THEN n ELSE p.nodes[h[c]]
  BY <1>1 DEF Moved
<1>4. h[c] \notin drop /\ Reads(p.nodes[h[c]], x)
  BY <1>2, <1>3
<1>5. h[c] \in Consumers(p, x)
  BY <1>3, <1>4 DEF Consumers, Reads
<1>6. QED
  BY <1>4, <1>5

-----------------------------------------------------------------------------
(* Rewrites: what the scores of a forward are linked to.                  *)

\* The coefficient of a multiplication: its operand that is not x.
Factor(n, x) == SelectSeq(n.ins, LAMBDA y : y # x)[1]

\* What scaling an epilogue by a coefficient says of its last node.
LEMMA ScaledFacts ==
  ASSUME NEW p, NEW i, NEW coef
  PROVE  ScaledBy(p, i, coef) <=>
           \E j \in DOMAIN Epilogue(p, i) :
             /\ Is(p.nodes[Epilogue(p, i)[j]], "glue", "mul")
             /\ \A m \in 1 .. j - 1 : Ops(p, Epilogue(p, i))[m] # "mul"
             /\ Factor(p.nodes[Epilogue(p, i)[j]], p.nodes[i].outs[1]) = coef
BY Zenon DEF ScaledBy, Factor

\* An epilogue of the same nodes is scaled by the same coefficient.
LEMMA ScaledMoves ==
  ASSUME NEW p, NEW q, NEW i, NEW j, NEW coef, ScaledBy(q, j, coef),
         q.nodes[j] = p.nodes[i], DOMAIN Epilogue(q, j) = DOMAIN Epilogue(p, i),
         Ops(q, Epilogue(q, j)) = Ops(p, Epilogue(p, i)),
         \A m \in DOMAIN Epilogue(q, j) : q.nodes[Epilogue(q, j)[m]] = p.nodes[Epilogue(p, i)[m]]
  PROVE  ScaledBy(p, i, coef)
<1>1. PICK m \in DOMAIN Epilogue(q, j) :
        /\ Is(q.nodes[Epilogue(q, j)[m]], "glue", "mul")
        /\ \A k \in 1 .. m - 1 : Ops(q, Epilogue(q, j))[k] # "mul"
        /\ Factor(q.nodes[Epilogue(q, j)[m]], q.nodes[j].outs[1]) = coef
  BY ScaledFacts
<1>2. /\ Is(p.nodes[Epilogue(p, i)[m]], "glue", "mul")
      /\ \A k \in 1 .. m - 1 : Ops(p, Epilogue(p, i))[k] # "mul"
      /\ Factor(p.nodes[Epilogue(p, i)[m]], p.nodes[i].outs[1]) = coef
  BY <1>1
<1>3. QED
  BY <1>1, <1>2, ScaledFacts

\* What the generator puts in the place of a site: a kernel that reads nothing an
\* epilogue hands on.
Handed == Special \ {"qF"}
SiteKernel(n) == n.kind = "fused" /\ \A x \in Handed : ~ Reads(n, x)

\* A score of the new program is one of the old.
LEMMA ScoreMoves ==
  ASSUME NEW p, NEW q, NEW drop, NEW n, NEW h, Moved(p, q, drop, n, h), SiteKernel(n),
         NEW j \in Scores(q)
  PROVE  /\ j \in DOMAIN q.nodes /\ h[j] \in Scores(p) /\ h[j] \notin drop
         /\ q.nodes[j] = p.nodes[h[j]]
<1>1. j \in DOMAIN q.nodes /\ q.nodes[j].kind = "einsum"
  BY DEF Scores, Is
<1>2. h[j] \in DOMAIN p.nodes /\ q.nodes[j] = IF h[j] \in drop THEN n ELSE p.nodes[h[j]]
  BY <1>1 DEF Moved
<1>3. h[j] \notin drop
  BY <1>1, <1>2 DEF SiteKernel
<1>4. QED
  BY <1>1, <1>2, <1>3 DEF Scores

\* The links of GDN's two sites, and the names that go by them.
KktUnit(p, i, c1, c2, c3) ==
  /\ Linked(p, i, c1) /\ Linked(p, c1, c2) /\ Linked(p, c2, c3)
  /\ p.nodes[i].outs[1] = "Araw" /\ p.nodes[c1].outs[1] = "Ag"
  /\ p.nodes[c2].outs[1] = "A_t" /\ p.nodes[c3].outs[1] = "A"
  /\ p.nodes[c1].op = "mul" /\ p.nodes[c2].op = "tril" /\ p.nodes[c3].op = "contiguous"
ChunkOUnit(p, i, c1, c2) ==
  /\ Linked(p, i, c1) /\ Linked(p, c1, c2)
  /\ p.nodes[i].outs[1] = "Aqk" /\ p.nodes[c1].outs[1] = "Aqk_g" /\ p.nodes[c2].outs[1] = "Aqk_c"
  /\ p.nodes[c1].op = "mul" /\ p.nodes[c2].op = "contiguous"

\* The links of a KKT score: three nodes, each linked to the next alone.
LEMMA KktLinks ==
  ASSUME NEW p, ProgramOK("gdn", p), NEW i \in Scores(p), KktSite(p, i)
  PROVE  \E c1, c2, c3 : KktUnit(p, i, c1, c2, c3) /\ Unit(p, i) = {i, c1, c2, c3}
<1> DEFINE out(k) == p.nodes[k].outs[1]
<1>1. i \in DOMAIN p.nodes /\ IsScore(p.nodes[i]) /\ IsSeq(p.nodes)
  BY ProgFacts DEF Scores, IsScore
<1>2. PICK c1, c2, c3 :
        /\ Linked(p, i, c1) /\ Linked(p, c1, c2) /\ Linked(p, c2, c3)
        /\ p.nodes[c1].op = "mul" /\ p.nodes[c2].op = "tril" /\ p.nodes[c3].op = "contiguous"
        /\ Unit(p, i) = {i, c1, c2, c3}
  BY <1>1, UnitOfThree DEF KktSite
<1>3. \A k \in DOMAIN p.nodes : GdnNode(p.nodes[k])
  BY ProgFacts DEF NodeOK
<1>4. p.nodes[i].ins = <<"kF", "kF">> /\ <<"kF", "kF">> # <<"qF", "kF">>
  BY DEF KktSite
<1>5. out(i) = "Araw"
  BY <1>1, <1>3, <1>4 DEF GdnNode
<1>6. c1 \in DOMAIN p.nodes /\ out(c1) = "Ag"
  BY <1>2, <1>3, <1>5, LinkFacts DEF GdnNode
<1>7. c2 \in DOMAIN p.nodes /\ out(c2) = "A_t"
  BY <1>2, <1>3, <1>6, LinkFacts DEF GdnNode
<1>8. c3 \in DOMAIN p.nodes /\ out(c3) = "A"
  BY <1>2, <1>3, <1>7, LinkFacts DEF GdnNode
<1>9. QED
  BY <1>2, <1>5, <1>6, <1>7, <1>8 DEF KktUnit

\* The links of an output score: two nodes.
LEMMA ChunkOLinks ==
  ASSUME NEW p, ProgramOK("gdn", p), NEW i \in Scores(p), ChunkOSite(p, i)
  PROVE  \E c1, c2 : /\ ChunkOUnit(p, i, c1, c2) /\ Unit(p, i) = {i, c1, c2}
                     /\ Epilogue(p, i) = <<c1, c2>>
<1> DEFINE out(k) == p.nodes[k].outs[1]
<1>1. i \in DOMAIN p.nodes /\ IsScore(p.nodes[i]) /\ IsSeq(p.nodes)
  BY ProgFacts DEF Scores, IsScore
<1>2. PICK c1, c2 :
        /\ Linked(p, i, c1) /\ Linked(p, c1, c2)
        /\ p.nodes[c1].op = "mul" /\ p.nodes[c2].op = "contiguous"
        /\ Epilogue(p, i) = <<c1, c2>> /\ Unit(p, i) = {i, c1, c2}
  BY <1>1, UnitOfTwo DEF ChunkOSite
<1>3. \A k \in DOMAIN p.nodes : GdnNode(p.nodes[k])
  BY ProgFacts DEF NodeOK
<1>4. p.nodes[i].ins = <<"qF", "kF">> /\ <<"kF", "kF">> # <<"qF", "kF">>
  BY DEF ChunkOSite
<1>5. out(i) = "Aqk"
  BY <1>1, <1>3, <1>4 DEF GdnNode
<1>6. c1 \in DOMAIN p.nodes /\ out(c1) = "Aqk_g"
  BY <1>2, <1>3, <1>5, LinkFacts DEF GdnNode
<1>7. c2 \in DOMAIN p.nodes /\ out(c2) = "Aqk_c"
  BY <1>2, <1>3, <1>6, LinkFacts DEF GdnNode
<1>8. QED
  BY <1>2, <1>5, <1>6, <1>7 DEF ChunkOUnit

\* Neither chain goes on: what it ends in is read by the triangular inverse or by
\* the output contraction, which no kernel absorbs.
LEMMA GdnEnds ==
  ASSUME NEW p, ProgramOK("gdn", p), NEW k, p.nodes[k].outs[1] \in {"A", "Aqk_c"}
  PROVE  \A c : ~ Linked(p, k, c)
<1> SUFFICES ASSUME NEW c, Linked(p, k, c) PROVE FALSE
  OBVIOUS
<1>1. c \in DOMAIN p.nodes /\ Reads(p.nodes[c], p.nodes[k].outs[1]) /\ Absorbable(p.nodes[c])
  BY LinkFacts DEF Linked
<1>2. GdnNode(p.nodes[c])
  BY <1>1, ProgFacts DEF NodeOK
<1>3. p.nodes[c].kind \in {"opaque", "einsum"}
  BY <1>1, <1>2 DEF GdnNode
<1>4. QED
  BY <1>1, <1>3 DEF Absorbable, Is

-----------------------------------------------------------------------------
(* Rewrites: Gated DeltaNet's scores, over a turn of the generator.       *)

\* GDN: an output score that is a site after a turn was one before it.
LEMMA ChunkOMoves ==
  ASSUME NEW p, ProgramOK("gdn", p), NEW q, ProgramOK("gdn", q),
         NEW drop, NEW n, NEW h, Moved(p, q, drop, n, h), SiteKernel(n), drop \subseteq DOMAIN p.nodes,
         \A d \in drop : p.nodes[d].outs[1] \notin {"Aqk_g", "Aqk_c"},
         NEW j \in Scores(q), ChunkOSite(q, j)
  PROVE  ChunkOSite(p, h[j])
<1>1. /\ j \in DOMAIN q.nodes /\ h[j] \in Scores(p) /\ h[j] \notin drop
      /\ q.nodes[j] = p.nodes[h[j]]
  BY ScoreMoves
<1>2. PICK c1, c2 : ChunkOUnit(q, j, c1, c2) /\ Epilogue(q, j) = <<c1, c2>>
  BY ChunkOLinks
<1>3. /\ Linked(q, j, c1) /\ Linked(q, c1, c2)
      /\ q.nodes[j].outs[1] = "Aqk" /\ q.nodes[c1].outs[1] = "Aqk_g" /\ q.nodes[c2].outs[1] = "Aqk_c"
      /\ q.nodes[c1].op = "mul" /\ q.nodes[c2].op = "contiguous"
  BY <1>2 DEF ChunkOUnit
<1>4. \A x \in {"Aqk", "Aqk_g"} : ~ Reads(n, x) /\ \A d \in drop : ~ Reads(p.nodes[d], x)
  <2>1. \A d \in drop : GdnNode(p.nodes[d])
    BY ProgFacts DEF NodeOK
  <2>2. \A d \in drop : ~ Reads(p.nodes[d], "Aqk") /\ ~ Reads(p.nodes[d], "Aqk_g")
    BY <2>1 DEF GdnNode
  <2>3. ~ Reads(n, "Aqk") /\ ~ Reads(n, "Aqk_g")
    BY DEF SiteKernel, Handed, Special
  <2>4. QED
    BY <2>2, <2>3
<1>5. /\ c1 \in DOMAIN q.nodes /\ h[c1] \in DOMAIN p.nodes \ drop
      /\ q.nodes[c1] = p.nodes[h[c1]] /\ Linked(p, h[j], h[c1])
  BY <1>1, <1>3, <1>4, MovedLink
<1>6. /\ c2 \in DOMAIN q.nodes /\ h[c2] \in DOMAIN p.nodes \ drop
      /\ q.nodes[c2] = p.nodes[h[c2]] /\ Linked(p, h[c1], h[c2])
  BY <1>3, <1>4, <1>5, MovedLink
<1>7. \A c : ~ Linked(p, h[c2], c)
  BY <1>3, <1>6, GdnEnds
<1>8. h[j] \in DOMAIN p.nodes /\ IsSeq(p.nodes) /\ h[c1] # h[c2]
  BY <1>1, <1>3, <1>5, <1>6, ProgFacts DEF Scores
<1>9. Epilogue(p, h[j]) = <<h[c1], h[c2]>>
  BY <1>5, <1>6, <1>7, <1>8, EpilogueOfTwo
<1>10. /\ DOMAIN Epilogue(q, j) = 1 .. 2 /\ DOMAIN Epilogue(p, h[j]) = 1 .. 2
       /\ \A m \in 1 .. 2 : q.nodes[Epilogue(q, j)[m]] = p.nodes[Epilogue(p, h[j])[m]]
  <2>1. \A a, b : DOMAIN <<a, b>> = 1 .. 2 /\ <<a, b>>[1] = a /\ <<a, b>>[2] = b
    OBVIOUS
  <2>2. \A m \in 1 .. 2 : m = 1 \/ m = 2
    OBVIOUS
  <2>3. QED
    BY <1>2, <1>5, <1>6, <1>9, <2>1, <2>2
<1>11. Ops(q, Epilogue(q, j)) = Ops(p, Epilogue(p, h[j]))
  BY <1>10 DEF Ops
<1>12. ScaledBy(p, h[j], "coef_o")
  <2>1. ScaledBy(q, j, "coef_o")
    BY DEF ChunkOSite
  <2>2. QED
    BY <1>1, <1>10, <1>11, <2>1, ScaledMoves
<1>13. p.nodes[h[j]].ins = <<"qF", "kF">> /\ Ops(p, Epilogue(p, h[j])) = <<"mul", "contiguous">>
  BY <1>1, <1>11 DEF ChunkOSite
<1>14. QED
  BY <1>12, <1>13 DEF ChunkOSite

\* The same of the other score.
LEMMA KktMoves ==
  ASSUME NEW p, ProgramOK("gdn", p), NEW q, ProgramOK("gdn", q),
         NEW drop, NEW n, NEW h, Moved(p, q, drop, n, h), SiteKernel(n), drop \subseteq DOMAIN p.nodes,
         \A d \in drop : p.nodes[d].outs[1] \notin {"Ag", "A_t", "A"},
         NEW j \in Scores(q), KktSite(q, j)
  PROVE  KktSite(p, h[j])
<1>1. /\ j \in DOMAIN q.nodes /\ h[j] \in Scores(p) /\ h[j] \notin drop
      /\ q.nodes[j] = p.nodes[h[j]]
  BY ScoreMoves
<1>2. PICK c1, c2, c3 : KktUnit(q, j, c1, c2, c3)
  BY KktLinks
<1>3. /\ Linked(q, j, c1) /\ Linked(q, c1, c2) /\ Linked(q, c2, c3)
      /\ q.nodes[j].outs[1] = "Araw" /\ q.nodes[c1].outs[1] = "Ag"
      /\ q.nodes[c2].outs[1] = "A_t" /\ q.nodes[c3].outs[1] = "A"
      /\ q.nodes[c1].op = "mul" /\ q.nodes[c2].op = "tril" /\ q.nodes[c3].op = "contiguous"
  BY <1>2 DEF KktUnit
<1>4. \A x \in {"Araw", "Ag", "A_t"} : ~ Reads(n, x) /\ \A d \in drop : ~ Reads(p.nodes[d], x)
  <2>1. \A d \in drop : GdnNode(p.nodes[d])
    BY ProgFacts DEF NodeOK
  <2>2. \A d \in drop : /\ ~ Reads(p.nodes[d], "Araw") /\ ~ Reads(p.nodes[d], "Ag")
                        /\ ~ Reads(p.nodes[d], "A_t")
    BY <2>1 DEF GdnNode
  <2>3. ~ Reads(n, "Araw") /\ ~ Reads(n, "Ag") /\ ~ Reads(n, "A_t")
    BY DEF SiteKernel, Handed, Special
  <2>4. QED
    BY <2>2, <2>3
<1>5. /\ c1 \in DOMAIN q.nodes /\ h[c1] \in DOMAIN p.nodes \ drop
      /\ q.nodes[c1] = p.nodes[h[c1]] /\ Linked(p, h[j], h[c1])
  BY <1>1, <1>3, <1>4, MovedLink
<1>6. /\ c2 \in DOMAIN q.nodes /\ h[c2] \in DOMAIN p.nodes \ drop
      /\ q.nodes[c2] = p.nodes[h[c2]] /\ Linked(p, h[c1], h[c2])
  BY <1>3, <1>4, <1>5, MovedLink
<1>7. /\ c3 \in DOMAIN q.nodes /\ h[c3] \in DOMAIN p.nodes \ drop
      /\ q.nodes[c3] = p.nodes[h[c3]] /\ Linked(p, h[c2], h[c3])
  BY <1>3, <1>4, <1>6, MovedLink
<1>8. \A c : ~ Linked(p, h[c3], c)
  BY <1>3, <1>7, GdnEnds
<1>9. /\ h[j] \in DOMAIN p.nodes /\ IsSeq(p.nodes)
      /\ h[c1] # h[c2] /\ h[c1] # h[c3] /\ h[c2] # h[c3]
  BY <1>1, <1>3, <1>5, <1>6, <1>7, ProgFacts DEF Scores
<1>10. Epilogue(p, h[j]) = <<h[c1], h[c2], h[c3]>>
  BY <1>5, <1>6, <1>7, <1>8, <1>9, EpilogueOfThree
<1>11. Ops(p, Epilogue(p, h[j])) = <<"mul", "tril", "contiguous">>
  <2> DEFINE E == <<h[c1], h[c2], h[c3]>>
  <2>1. DOMAIN E = 1 .. 3 /\ E[1] = h[c1] /\ E[2] = h[c2] /\ E[3] = h[c3]
    OBVIOUS
  <2> HIDE DEF E
  <2>2. /\ p.nodes[E[1]].op = "mul" /\ p.nodes[E[2]].op = "tril"
        /\ p.nodes[E[3]].op = "contiguous"
    BY <1>3, <1>5, <1>6, <1>7, <2>1
  <2>3. [m \in DOMAIN E |-> p.nodes[E[m]].op] = <<"mul", "tril", "contiguous">>
    BY <2>1, <2>2
  <2>4. QED
    BY <1>10, <2>3 DEF Ops, E
<1>12. p.nodes[h[j]].ins = <<"kF", "kF">>
  BY <1>1 DEF KktSite
<1>13. QED
  BY <1>11, <1>12 DEF KktSite

\* A turn takes away every score of the kind it took.
LEMMA KktGone ==
  ASSUME NEW p, ProgramOK("gdn", p), NEW q, ProgramOK("gdn", q),
         NEW drop, NEW n, NEW h, Moved(p, q, drop, n, h), SiteKernel(n),
         Consumers(p, "Araw") \subseteq drop, NEW j \in Scores(q)
  PROVE  ~ KktSite(q, j)
<1> SUFFICES ASSUME KktSite(q, j) PROVE FALSE
  OBVIOUS
<1>1. PICK c1, c2, c3 : KktUnit(q, j, c1, c2, c3)
  BY KktLinks
<1>2. Linked(q, j, c1) /\ q.nodes[j].outs[1] = "Araw"
  BY <1>1 DEF KktUnit
<1>3. ~ Reads(n, "Araw")
  BY DEF SiteKernel, Handed, Special
<1>4. QED
  BY <1>2, <1>3, MovedGone

\* The same of the other kind.
LEMMA ChunkOGone ==
  ASSUME NEW p, ProgramOK("gdn", p), NEW q, ProgramOK("gdn", q),
         NEW drop, NEW n, NEW h, Moved(p, q, drop, n, h), SiteKernel(n),
         Consumers(p, "Aqk") \subseteq drop, NEW j \in Scores(q)
  PROVE  ~ ChunkOSite(q, j)
<1> SUFFICES ASSUME ChunkOSite(q, j) PROVE FALSE
  OBVIOUS
<1>1. PICK c1, c2 : ChunkOUnit(q, j, c1, c2)
  BY ChunkOLinks
<1>2. Linked(q, j, c1) /\ q.nodes[j].outs[1] = "Aqk"
  BY <1>1 DEF ChunkOUnit
<1>3. ~ Reads(n, "Aqk")
  BY DEF SiteKernel, Handed, Special
<1>4. QED
  BY <1>2, <1>3, MovedGone

-----------------------------------------------------------------------------
(* Rewrites: a turn of the generator leaves fewer sites.                  *)

\* KDA: the score of a site binds Aqk.
LEMMA PrologueScore ==
  ASSUME NEW p, ProgramOK("kda", p), NEW i \in Scores(p), PrologueSite(p, i)
  PROVE  p.nodes[i].outs[1] = "Aqk" /\ p.nodes[i].ins[2] = "k_eff"
<1>1. i \in DOMAIN p.nodes /\ IsScore(p.nodes[i]) /\ IsSeq(p.nodes)
  BY ProgFacts DEF Scores, IsScore
<1>2. \A k \in DOMAIN p.nodes : KdaNode(p.nodes[k])
  BY ProgFacts DEF NodeOK
<1>3. p.nodes[i].ins # <<"a_op", "b_op">>
  <2> SUFFICES ASSUME p.nodes[i].ins = <<"a_op", "b_op">> PROVE FALSE
    OBVIOUS
  <2> DEFINE l == Latest(Producers(p, "a_op"))
  <2>1. Producers(p, "a_op") # {} /\ p.nodes[l].ins = <<"qF", "coef_ag">>
    BY DEF PrologueSite, IsProduct
  <2>2. Producers(p, "a_op") \subseteq 1 .. Len(p.nodes) /\ Len(p.nodes) \in Nat
    BY ProgFacts DEF Producers
  <2>3. l \in Producers(p, "a_op")
    BY <2>1, <2>2, LatestFacts
  <2>4. p.nodes[l].ins = <<"kF", "coef_ag">>
    BY <1>2, <2>3 DEF KdaNode, Producers
  <2>5. QED
    BY <2>1, <2>4
<1>4. QED
  BY <1>1, <1>2, <1>3 DEF KdaNode

\* The first of the nodes of its epilogue.
LEMMA PrologueLink ==
  ASSUME NEW p, ProgramOK("kda", p), NEW i \in Scores(p), PrologueSite(p, i)
  PROVE  \E c : Linked(p, i, c) /\ c \in Unit(p, i)
<1>1. i \in DOMAIN p.nodes /\ IsSeq(p.nodes)
  BY ProgFacts DEF Scores
<1>2. QED
  BY <1>1, UnitOfTwo DEF PrologueSite

\* What a turn of the generator makes of the site it takes.
LEMMA EmitSplices ==
  ASSUME NEW p, NEW i, i = First(Sites(p)), i \in Sites(p)
  PROVE  \E drop, kernel, ins :
           /\ Emit(p) = Splice(p, drop, << Fused(kernel, ins, <<BoundaryOut(p, i)>>) >>)
           /\ ToSet(ins) \subseteq {"qF", "kF", "g_native", "beta_native", "beta_native_ones",
                                    "coef_ag", "coef_bg"}
           /\ \/ drop = Unit(p, i)
              \/ PrologueSite(p, i) /\ drop = Unit(p, i) \cup Prescale(p, i)
<1> DEFINE Made(drop, kernel, ins) ==
             Emit(p) = Splice(p, drop, << Fused(kernel, ins, <<BoundaryOut(p, i)>>) >>)
           operands == {"qF", "kF", "g_native", "beta_native", "beta_native_ones",
                        "coef_ag", "coef_bg"}
           kkt == <<"kF", "g_native", "beta_native">>
           qk == <<"qF", "kF", "g_native", "beta_native_ones">>
           pre == <<"qF", "kF", "coef_ag", "coef_bg">>
<1>1. KktSite(p, i) \/ ChunkOSite(p, i) \/ PrologueSite(p, i)
  BY DEF Sites
<1>2. \/ Made(Unit(p, i), "kkt_gated_native", kkt)
      \/ Made(Unit(p, i), "gated_qk_native", qk)
      \/ PrologueSite(p, i) /\ Made(Unit(p, i) \cup Prescale(p, i), "qk_prologue", pre)
  BY <1>1 DEF Emit
<1>3. ToSet(kkt) \subseteq operands /\ ToSet(qk) \subseteq operands /\ ToSet(pre) \subseteq operands
  BY ToSetOfTuple
<1> HIDE DEF kkt, qk, pre, Made, operands
<1>4. \E drop, kernel, ins :
        /\ Made(drop, kernel, ins) /\ ToSet(ins) \subseteq operands
        /\ \/ drop = Unit(p, i)
           \/ PrologueSite(p, i) /\ drop = Unit(p, i) \cup Prescale(p, i)
  BY <1>2, <1>3
<1>5. QED
  BY <1>4 DEF Made, operands

\* A turn leaves no new site: each that is left was one, and not the one it took.
LEMMA SitesMove ==
  ASSUME NEW f \in Families, NEW p, ProgramOK(f, p), Sites(p) # {},
         NEW q, q = Emit(p), NEW i, i = First(Sites(p))
  PROVE  \E h : /\ \A j \in Sites(q) : h[j] \in Sites(p) \ {i}
                /\ \A a, b \in Sites(q) : h[a] = h[b] => a = b
<1>1. i \in Sites(p) /\ i \in Scores(p) /\ i \in DOMAIN p.nodes
  <2>1. Sites(p) \subseteq Scores(p)
    BY DEF Sites
  <2>2. QED
    BY <2>1, SiteFacts
<1>2. KktSite(p, i) \/ ChunkOSite(p, i) \/ PrologueSite(p, i)
  BY <1>1 DEF Sites
<1>3. ProgramOK(f, q)
  BY EmitOK
<1>4. PICK drop, kernel, ins :
        /\ Emit(p) = Splice(p, drop, << Fused(kernel, ins, <<BoundaryOut(p, i)>>) >>)
        /\ ToSet(ins) \subseteq {"qF", "kF", "g_native", "beta_native", "beta_native_ones",
                                 "coef_ag", "coef_bg"}
        /\ \/ drop = Unit(p, i)
           \/ PrologueSite(p, i) /\ drop = Unit(p, i) \cup Prescale(p, i)
  BY <1>1, EmitSplices
<1> DEFINE n == Fused(kernel, ins, <<BoundaryOut(p, i)>>)
<1>5. SiteKernel(n)
  <2>1. n.kind = "fused" /\ n.ins = ins
    BY NodeFields
  <2>2. QED
    BY <1>4, <2>1 DEF SiteKernel, Handed, Special, Reads
<1>6. /\ f = "gdn" => drop = Unit(p, i)
      /\ i \in drop /\ drop \subseteq DOMAIN p.nodes
  <2>1. CASE KktSite(p, i)
    <3>1. f = "gdn"
      BY <1>1, <2>1, NoKktOrChunkO
    <3>2. ~ PrologueSite(p, i)
      BY <1>1, <3>1, NoPrologue
    <3>3. QED
      BY <1>1, <1>4, <2>1, <3>1, <3>2, GdnKkt
  <2>2. CASE ChunkOSite(p, i)
    <3>1. f = "gdn"
      BY <1>1, <2>2, NoKktOrChunkO
    <3>2. ~ PrologueSite(p, i)
      BY <1>1, <3>1, NoPrologue
    <3>3. QED
      BY <1>1, <1>4, <2>2, <3>1, <3>2, GdnChunkO
  <2>3. CASE PrologueSite(p, i)
    <3>1. f = "kda"
      BY <1>1, <2>3, NoPrologue
    <3>2. i \in Unit(p, i) /\ Unit(p, i) \cup Prescale(p, i) \subseteq DOMAIN p.nodes
      BY <1>1, <2>3, <3>1, KdaPrologue
    <3>3. QED
      BY <1>4, <3>1, <3>2
  <2>4. QED
    BY <1>2, <2>1, <2>2, <2>3
<1> HIDE DEF n
<1>7. PICK h : Moved(p, q, drop, n, h)
  <2>1. p = Prog(p.nodes, p.inputs, p.outputs) /\ IsSeq(p.nodes)
    BY ProgFacts
  <2>2. Emit(p) = Splice(p, drop, <<n>>)
    BY <1>4 DEF n
  <2>3. QED
    BY <1>6, <2>1, <2>2, SpliceMoves
<1>8. \A j \in Sites(q) : j \in Scores(q) /\ j \in DOMAIN q.nodes
  BY DEF Sites, Scores
<1>9. \A j \in Sites(q) : h[j] \in Scores(p) /\ h[j] # i
  BY <1>5, <1>6, <1>7, <1>8, ScoreMoves
<1>10. \A a, b \in Sites(q) : h[a] = h[b] => a = b
  BY <1>7, <1>8 DEF Moved
<1>11. ASSUME NEW j \in Sites(q) PROVE KktSite(p, h[j]) \/ ChunkOSite(p, h[j])
  <2>1. CASE f = "gdn"
    <3>1. ProgramOK("gdn", p) /\ ProgramOK("gdn", q) /\ drop = Unit(p, i)
      BY <1>3, <1>6, <2>1
    <3>2. KktSite(q, j) \/ ChunkOSite(q, j)
      <4>1. ~ PrologueSite(q, j)
        BY <1>3, <1>8, <2>1, NoPrologue
      <4>2. QED
        BY <4>1 DEF Sites
    <3>3. CASE KktSite(p, i)
      <4>1. PICK c1, c2, c3 : KktUnit(p, i, c1, c2, c3) /\ Unit(p, i) = {i, c1, c2, c3}
        BY <1>1, <3>1, <3>3, KktLinks
      <4>2. Consumers(p, "Araw") \subseteq drop
        BY <3>1, <4>1 DEF KktUnit, Linked
      <4>3. ~ KktSite(q, j)
        BY <1>5, <1>7, <1>8, <3>1, <4>2, KktGone
      <4>4. \A d \in drop : p.nodes[d].outs[1] \notin {"Aqk_g", "Aqk_c"}
        BY <3>1, <4>1 DEF KktUnit
      <4>5. ChunkOSite(p, h[j])
        BY <1>5, <1>6, <1>7, <1>8, <3>1, <3>2, <4>3, <4>4, ChunkOMoves
      <4>6. QED
        BY <4>5
    <3>4. CASE ChunkOSite(p, i)
      <4>1. PICK c1, c2 : ChunkOUnit(p, i, c1, c2) /\ Unit(p, i) = {i, c1, c2}
        BY <1>1, <3>1, <3>4, ChunkOLinks
      <4>2. Consumers(p, "Aqk") \subseteq drop
        BY <3>1, <4>1 DEF ChunkOUnit, Linked
      <4>3. ~ ChunkOSite(q, j)
        BY <1>5, <1>7, <1>8, <3>1, <4>2, ChunkOGone
      <4>4. \A d \in drop : p.nodes[d].outs[1] \notin {"Ag", "A_t", "A"}
        BY <3>1, <4>1 DEF ChunkOUnit
      <4>5. KktSite(p, h[j])
        BY <1>5, <1>6, <1>7, <1>8, <3>1, <3>2, <4>3, <4>4, KktMoves
      <4>6. QED
        BY <4>5
    <3>5. ~ PrologueSite(p, i)
      BY <1>1, <2>1, NoPrologue
    <3>6. QED
      BY <1>2, <3>3, <3>4, <3>5
  <2>2. CASE f = "kda"
    <3>1. ProgramOK("kda", p) /\ ProgramOK("kda", q)
      BY <1>3, <2>2
    <3>2. PrologueSite(p, i)
      BY <1>1, <1>2, <2>2, NoKktOrChunkO
    <3>3. PrologueSite(q, j)
      <4>1. ~ KktSite(q, j) /\ ~ ChunkOSite(q, j)
        BY <1>3, <1>8, <2>2, NoKktOrChunkO
      <4>2. QED
        BY <4>1 DEF Sites
    <3>4. PICK c : Linked(p, i, c) /\ c \in Unit(p, i)
      BY <1>1, <3>1, <3>2, PrologueLink
    <3>5. Consumers(p, "Aqk") \subseteq drop
      <4>1. p.nodes[i].outs[1] = "Aqk"
        BY <1>1, <3>1, <3>2, PrologueScore
      <4>2. QED
        BY <1>4, <3>4, <4>1 DEF Linked
    <3>6. PICK d : Linked(q, j, d)
      BY <1>8, <3>1, <3>3, PrologueLink
    <3>7. q.nodes[j].outs[1] = "Aqk"
      BY <1>8, <3>1, <3>3, PrologueScore
    <3>8. ~ Reads(n, "Aqk")
      BY <1>5 DEF SiteKernel, Handed, Special
    <3>9. QED
      BY <1>7, <3>5, <3>6, <3>7, <3>8, MovedGone
  <2>3. CASE f \notin {"gdn", "kda"}
    BY <1>1, <1>2, <2>3, NoPrologue, NoKktOrChunkO
  <2>4. QED
    BY <2>1, <2>2, <2>3
<1>12. \A j \in Sites(q) : h[j] \in Sites(p) \ {i}
  BY <1>9, <1>11 DEF Sites
<1>13. QED
  BY <1>10, <1>12

\* Hence there are fewer.
LEMMA FewerSites ==
  ASSUME NEW f \in Families, NEW p, ProgramOK(f, p), Sites(p) # {}
  PROVE  Cardinality(Sites(Emit(p))) < Cardinality(Sites(p))
<1> DEFINE q == Emit(p)
           i == First(Sites(p))
<1>1. PICK h : /\ \A j \in Sites(q) : h[j] \in Sites(p) \ {i}
               /\ \A a, b \in Sites(q) : h[a] = h[b] => a = b
  BY SitesMove
<1>2. i \in Sites(p)
  <2>1. Sites(p) \subseteq Scores(p)
    BY DEF Sites
  <2>2. QED
    BY <2>1, SiteFacts
<1>3. IsFiniteSet(Sites(p))
  <2>1. Sites(p) \subseteq 1 .. Len(p.nodes) /\ Len(p.nodes) \in Nat
    BY ProgFacts DEF Sites, Scores
  <2>2. IsFiniteSet(1 .. Len(p.nodes))
    BY <2>1, FS_Interval
  <2>3. QED
    BY <2>1, <2>2, FS_Subset
<1> HIDE DEF q, i
<1> DEFINE S == Sites(q)
           T == Sites(p) \ {i}
           g == [j \in S |-> h[j]]
<1>4. g \in Injection(S, T)
  <2>1. g \in [S -> T]
    BY <1>1
  <2>2. \A a, b \in S : g[a] = g[b] => a = b
    BY <1>1
  <2>3. QED
    BY <2>1, <2>2 DEF Injection, IsInjective
<1>5. /\ IsFiniteSet(T) /\ Cardinality(T) = Cardinality(Sites(p)) - 1
      /\ Cardinality(Sites(p)) \in Nat
  BY <1>2, <1>3, FS_RemoveElement, FS_CardinalityType
<1> HIDE DEF S, T, g
<1>6. Cardinality(S) <= Cardinality(T) /\ Cardinality(S) \in Nat
  BY <1>4, <1>5, FS_Injection, FS_CardinalityType
<1>7. QED
  BY <1>5, <1>6 DEF S, q

-----------------------------------------------------------------------------
(* Rewrites: the generator's loop ends.                                   *)

\* What a step of the driver settles.
LEMMA StepSettles ==
  ASSUME LeverInv, ProgramInv, RewriteNext
  PROVE  \/ Cardinality(plan') < Cardinality(plan)
         \/ phase # "judge" /\ phase' = "judge"
         \/ Cardinality(Sites(cand')) < Cardinality(Sites(cand))
         \/ UNCHANGED rewriteVars
<1>1. IsFiniteSet(plan)
  <2>1. DOMAIN Library = 1 .. 8
    BY DEF Library
  <2>2. IsFiniteSet(1 .. 8)
    <3>1. 1 \in Int /\ 8 \in Int
      OBVIOUS
    <3>2. QED
      BY <3>1, FS_Interval, Zenon
  <2>3. plan \subseteq 1 .. 8
    BY <2>1 DEF LeverInv
  <2>4. QED
    BY <2>2, <2>3, FS_Subset
<1>2. ASSUME NEW i \in plan, plan' = plan \ {i} PROVE Cardinality(plan') < Cardinality(plan)
  <2>1. Cardinality(plan \ {i}) = Cardinality(plan) - 1 /\ Cardinality(plan) \in Nat
    BY <1>1, FS_RemoveElement, FS_CardinalityType
  <2>2. QED
    BY <1>2, <2>1
<1>3. ASSUME NEW i \in plan, PassOver(i) \/ Keep(i) \/ RollBack(i)
      PROVE  Cardinality(plan') < Cardinality(plan)
  BY <1>2, <1>3 DEF PassOver, Keep, RollBack
<1>4. ASSUME NEW i \in plan, Rewrite(i) PROVE phase # "judge" /\ phase' = "judge"
  BY <1>4 DEF Rewrite
<1>5. ASSUME Generated PROVE phase # "judge" /\ phase' = "judge"
  BY <1>5 DEF Generated
<1>6. ASSUME NEW i \in plan, Generate(i)
      PROVE  Cardinality(Sites(cand')) < Cardinality(Sites(cand))
  <2>1. cand' = Emit(cand) /\ Sites(cand) # {}
    BY <1>6 DEF Generate
  <2>2. Cardinality(Sites(Emit(cand))) < Cardinality(Sites(cand))
    BY <2>1, FewerSites DEF ProgramInv
  <2>3. QED
    BY <2>1, <2>2
<1>7. QED
  BY <1>3, <1>4, <1>5, <1>6 DEF RewriteNext, Exited

\* Variant: whatever is kept and rolled back, for every forward over any number of
\* chunks, each step of a compilation settles a transform, hands a candidate to
\* the judge, or leaves the generator of the epilogues fewer sites than it had:
\* its loop searches a program it has just changed, and still ends.
THEOREM GeneratorEnds == PlanSpec => Variant
<1>1. LeverInv /\ ProgramInv /\ [PlanNext]_<<rewriteVars, planVars>> =>
        [ \/ Cardinality(plan') < Cardinality(plan)
          \/ phase # "judge" /\ phase' = "judge"
          \/ Cardinality(Sites(cand')) < Cardinality(Sites(cand)) ]_rewriteVars
  <2> SUFFICES ASSUME LeverInv, ProgramInv, [PlanNext]_<<rewriteVars, planVars>>
               PROVE  [ \/ Cardinality(plan') < Cardinality(plan)
                        \/ phase # "judge" /\ phase' = "judge"
                        \/ Cardinality(Sites(cand')) < Cardinality(Sites(cand)) ]_rewriteVars
    OBVIOUS
  <2>1. RewriteNext \/ UNCHANGED rewriteVars
    BY DEF PlanNext, Compile, Plan, Returned
  <2>2. QED
    BY <2>1, StepSettles
<1>2. QED
  BY <1>1, LeverInvariance, ProgramInvariance, PTL DEF PlanSpec, Variant
=============================================================================
