---------------------------- MODULE CompileDriver ----------------------------
(***************************************************************************)
(* compile_program (compile.py): the policy's pipeline is tried transform  *)
(* by transform; each candidate is captured, timed, compared with the      *)
(* canonical outputs, replayed twice for the determinism gate, and kept or *)
(* disposed.                                                               *)
(*                                                                         *)
(* A program is the sequence of transforms applied to the canonical one.   *)
(* What a transform does to each output is unknown to the driver: the      *)
(* variable effect, chosen at the start.  "flaky" is a kernel that races:  *)
(* each run gives the right output or a wrong one.                         *)
(***************************************************************************)
EXTENDS Naturals, Sequences

CONSTANTS Pipeline,    \* what policy.pipeline proposed: distinct transforms
          Outs,        \* the program's outputs, in the order of the dict
          Shadows,     \* <<s, t>>: applying s removes the sites t matches
          Effects,     \* what a transform may do to the outputs
          Times        \* measured ms per call

ASSUME PipelineAssumption ==
  /\ Pipeline \in Seq({Pipeline[i] : i \in DOMAIN Pipeline})
  /\ \A i, j \in DOMAIN Pipeline : Pipeline[i] = Pipeline[j] => i = j
  /\ \A i, j \in DOMAIN Outs : Outs[i] = Outs[j] => i = j
  /\ Outs # <<>>
  /\ Effects \subseteq [{Outs[i] : i \in DOMAIN Outs} -> {"right", "wrong", "nan", "flaky"}]
  /\ Times \subseteq Nat

Transforms == {Pipeline[i] : i \in DOMAIN Pipeline}
Outputs    == {Outs[i] : i \in DOMAIN Outs}
Results    == [Outputs -> {"right", "wrong", "nan"}]    \* one run's outputs

VARIABLES
  raising,     \* the transforms whose kernel cannot be launched
  effect,      \* effect[t]: what t makes of each output
  verified,    \* verify and bindings given
  pc,          \* "start", "propose", "judge", "returned", "raised"
  next,        \* index of the transform being tried
  prog,        \* the transforms kept so far, in order
  base,        \* base_ms, 0 when nothing is measured
  got, ms,     \* outputs and time of the candidate
  records      \* the report: one record per proposal

vars == <<raising, effect, verified, pc, next, prog, base, got, ms, records>>

NotRun  == [o \in Outputs |-> "right"]

Record(t, matched, kept, b, c) ==
  [name |-> t, matched |-> matched, kept |-> kept, base |-> b, cand |-> c]

Reports == Seq([name : Transforms, matched : BOOLEAN, kept : BOOLEAN,
                base : Times \union {0}, cand : Times \union {0}])

TypeOK ==
  /\ raising \subseteq Transforms
  /\ effect \in [Transforms -> Effects] /\ verified \in BOOLEAN
  /\ pc \in {"start", "propose", "judge", "returned", "raised"}
  /\ next \in 1 .. Len(Pipeline) + 1
  /\ prog \in Seq(Transforms)
  /\ base \in Times \union {0} /\ ms \in Times \union {0}
  /\ got \in Results
  /\ records \in Reports
  /\ verified /\ pc \in {"propose", "judge", "returned"} => base \in Times

Init ==
  /\ raising \in SUBSET Transforms
  /\ effect \in [Transforms -> Effects] /\ verified \in BOOLEAN
  /\ pc = "start" /\ next = 1 /\ prog = <<>> /\ base = 0
  /\ got = NotRun /\ ms = 0 /\ records = <<>>

Hits(p, o, e) == \E i \in DOMAIN p : effect[p[i]][o] = e

\* What running the program p may return: NaN spreads, a wrong factor shows.
Runs(p) ==
  {r \in Results : \A o \in Outputs :
     /\ Hits(p, o, "nan") <=> r[o] = "nan"
     /\ Hits(p, o, "wrong") /\ ~ Hits(p, o, "nan") => r[o] = "wrong"
     /\ r[o] = "wrong" => Hits(p, o, "wrong") \/ Hits(p, o, "flaky")}

Raises(p) == \E i \in DOMAIN p : p[i] \in raising

\* t.match(prog) > 0: no transform kept before has removed t's sites.
HasSites(t, p) == \A i \in DOMAIN p : <<p[i], t>> \notin Shadows

\* worst = max(frob_rel ...) < tol.  Python's max keeps its first item unless a
\* later one is greater, and no comparison with NaN is true: a NaN is seen only
\* in the first output.
FrobGreen(r) ==
  /\ r[Outs[1]] # "nan"
  /\ \A o \in Outputs : r[o] # "wrong"

\* gate_determinism: two runs, torch.equal on every output; NaN equals nothing.
\* The slip compares bit patterns.
BitPatterns(a, b) == a = b

Deterministic(a, b) == a = b /\ \A o \in Outputs : a[o] # "nan"
-----------------------------------------------------------------------------
\* The reference run, when there is something to verify.
Start ==
  /\ pc = "start" /\ pc' = "propose"
  /\ IF verified THEN base' \in Times ELSE base' = base
  /\ UNCHANGED <<raising, effect, verified, next, prog, got, ms, records>>

\* Slip: an unmatched proposal leaves no record.
SkipSilently ==
  /\ pc = "propose" /\ next <= Len(Pipeline)
  /\ ~HasSites(Pipeline[next], prog)
  /\ next' = next + 1
  /\ UNCHANGED <<raising, effect, verified, pc, prog, base, got, ms, records>>

Skip ==
  /\ pc = "propose" /\ next <= Len(Pipeline)
  /\ ~HasSites(Pipeline[next], prog)
  /\ records' = Append(records, Record(Pipeline[next], FALSE, FALSE, 0, 0))
  /\ next' = next + 1
  /\ UNCHANGED <<raising, effect, verified, pc, prog, base, got, ms>>

ApplyUnverified ==
  /\ pc = "propose" /\ next <= Len(Pipeline) /\ ~verified
  /\ HasSites(Pipeline[next], prog)
  /\ prog' = Append(prog, Pipeline[next])
  /\ records' = Append(records, Record(Pipeline[next], TRUE, TRUE, 0, 0))
  /\ next' = next + 1
  /\ UNCHANGED <<raising, effect, verified, pc, base, got, ms>>

\* _run_and_time: capture, warm up (its last replay gives got), time.
Measure ==
  /\ pc = "propose" /\ next <= Len(Pipeline) /\ verified
  /\ HasSites(Pipeline[next], prog)
  /\ LET cand == Append(prog, Pipeline[next])
     IN IF Raises(cand)
          THEN pc' = "raised" /\ UNCHANGED <<got, ms>>
          ELSE pc' = "judge" /\ got' \in Runs(cand) /\ ms' \in Times
  /\ UNCHANGED <<raising, effect, verified, next, prog, base, records>>

\* Slip: the candidate is not timed against the best so far.
JudgeAgainstFirst ==
  /\ pc = "judge" /\ pc' = "propose"
  /\ LET t == Pipeline[next]
     IN \E a, b \in Runs(Append(prog, t)) :
          LET kept == FrobGreen(got) /\ Deterministic(a, b) /\ ms < base
          IN /\ prog' = IF kept THEN Append(prog, t) ELSE prog
             /\ records' = Append(records, Record(t, TRUE, kept, base, ms))
  /\ next' = next + 1 /\ got' = NotRun /\ ms' = 0
  /\ UNCHANGED <<raising, effect, verified, base>>

\* The three verdicts and the disposal.
Judge ==
  /\ pc = "judge" /\ pc' = "propose"
  /\ LET t == Pipeline[next]
     IN \E a, b \in Runs(Append(prog, t)) :
          LET kept == FrobGreen(got) /\ Deterministic(a, b) /\ ms < base
          IN /\ prog' = IF kept THEN Append(prog, t) ELSE prog
             /\ base' = IF kept THEN ms ELSE base
             /\ records' = Append(records, Record(t, TRUE, kept, base, ms))
  /\ next' = next + 1 /\ got' = NotRun /\ ms' = 0
  /\ UNCHANGED <<raising, effect, verified>>

Return ==
  /\ pc = "propose" /\ next > Len(Pipeline) /\ pc' = "returned"
  /\ UNCHANGED <<raising, effect, verified, next, prog, base, got, ms, records>>

Stopped == pc \in {"returned", "raised"} /\ UNCHANGED vars

Next == Start \/ Skip \/ ApplyUnverified \/ Measure \/ Judge \/ Return \/ Stopped

Spec == Init /\ [][Next]_vars
-----------------------------------------------------------------------------
(* Properties.                                                             *)

KeptRecords == {i \in DOMAIN records : records[i].kept}

\* "A mispredicted win is never a correctness event" (DESIGN.md 3.5): no kept
\* transform always spoils an output.  A NaN past the first output is invisible
\* to the frob gate and is caught by the determinism gate alone.
KeptAreSound ==
  verified => \A i \in DOMAIN prog, o \in Outputs : effect[prog[i]][o] \in {"right", "flaky"}

\* Each kept transform was measured faster than the program without it: its
\* base is the time of the last transform kept before it.
EachBeatsTheBest ==
  verified => \A i, j \in KeptRecords :
    /\ records[i].cand < records[i].base
    /\ i < j /\ (\A k \in KeptRecords : ~(i < k /\ k < j)) => records[j].base = records[i].cand

\* The report is the program: each proposal has one record, in order, and the
\* kept ones are the program that is returned.
ReportIsTheProgram ==
  /\ \A i \in DOMAIN records : records[i].name = Pipeline[i]
  /\ pc = "returned" => Len(records) = Len(Pipeline)
  /\ \A i \in DOMAIN prog : \E j \in KeptRecords : prog[i] = records[j].name
  /\ \A j \in KeptRecords : \E i \in DOMAIN prog : prog[i] = records[j].name
  /\ Len(prog) <= Len(records)

\* The inductive invariant.  One record per proposal tried; a candidate being
\* judged extends the program with a transform that still matches, and got is a
\* run of it; base is the time of the last transform kept.
Progress ==
  /\ Len(records) = next - 1
  /\ pc = "start" => next = 1
  /\ pc = "returned" => next > Len(Pipeline)

Candidate ==
  pc = "judge" =>
    /\ verified /\ next <= Len(Pipeline) /\ HasSites(Pipeline[next], prog)
    /\ got \in Runs(Append(prog, Pipeline[next])) /\ ms \in Times

BaseIsTheBest ==
  verified => \A i \in KeptRecords :
    (\A k \in KeptRecords : k <= i) => records[i].cand = base

DriverInv ==
  /\ TypeOK /\ Progress /\ Candidate /\ BaseIsTheBest
  /\ KeptAreSound /\ EachBeatsTheBest /\ ReportIsTheProgram

\* "... otherwise roll back" (compile.py:13-14): a bad candidate never ends the
\* compilation.  It does when it raises, for want of a handler.
FloorStands == pc # "raised"
=============================================================================
