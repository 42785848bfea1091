---------------------------- MODULE FusionDecision ----------------------------
(***************************************************************************)
(* decide (fusion.py) over a captured fused stage: one run gated against   *)
(* the staged outputs, two runs compared with each other, a timing loop,   *)
(* and the verdict.  A run is a replay of the executor of GraphReplay on   *)
(* the operands of its capture; what it returns is either a copy of the    *)
(* graph's output buffers or, with clone=False, those buffers themselves.  *)
(* compile_program gates a candidate the same way, always with copies.     *)
(*                                                                         *)
(* The kernel may race: each replay of the graph leaves in its buffers     *)
(* either the outputs of the staged program or others.                     *)
(***************************************************************************)
EXTENDS GraphReplay

CONSTANT Cloned        \* what the caller's run function passes as clone

ASSUME ClonedAssumption == Cloned \in BOOLEAN

VARIABLES
  pool,       \* what the last replay left in the graph's output buffers
  ran,        \* history: what each run of this decision computed
  held,       \* the results decide holds, in the order of the runs
  verdict     \* the FusionDecision, once there is one

decideVars == <<pool, ran, held, verdict>>
allVars == <<vars, decideVars>>

Computed  == {"staged", "other"}
Pool      == "pool"                 \* a result that is the graph's buffers
Undecided == [gated |-> FALSE, deterministic |-> FALSE, kept |-> FALSE, done |-> FALSE]

DecisionTypeOK ==
  /\ TypeOK
  /\ pool \in Computed
  /\ ran \in Seq(Computed) /\ Len(ran) <= 3
  /\ held \in Seq(Computed \union {Pool}) /\ Len(held) = Len(ran)
  /\ verdict \in [gated : BOOLEAN, deterministic : BOOLEAN, kept : BOOLEAN, done : BOOLEAN]

DecisionInit ==
  /\ Init
  /\ pool = "staged" /\ ran = <<>> /\ held = <<>> /\ verdict = Undecided

\* Slip: replay hands out its own buffers whatever clone says.
ReturnedShared(out) == IF out \in Computed THEN Pool ELSE out

\* The last statement of replay.
Returned(out) == IF Cloned THEN out ELSE Pool

\* What a result reads as, now that the graph's buffers hold p.
Read(result, p) == IF result = Pool THEN p ELSE result

\* One run of the fused stage.
RunOnce(out) ==
  /\ Replay(staticIn)
  /\ pool' = out
  /\ ran' = Append(ran, out)
  /\ held' = Append(held, Returned(out))

\* got = fused(), and the frob gate.
RunAndGate ==
  /\ ran = <<>> /\ answer = NoAnswer /\ linked
  /\ \E out \in Computed : RunOnce(out)
  /\ verdict' = [verdict EXCEPT !.gated = Read(held'[1], pool') = "staged"]

\* A run of gate_determinism.
RunAgain ==
  /\ Len(ran) \in {1, 2}
  /\ \E out \in Computed : RunOnce(out)
  /\ UNCHANGED verdict

\* torch.equal over the two results; then the timing loops, which replay the
\* graph, and the verdict.
Decide ==
  /\ Len(ran) = 3 /\ ~verdict.done
  /\ \E faster \in BOOLEAN :
       LET same == Read(held[2], pool) = Read(held[3], pool)
       IN verdict' = [gated |-> verdict.gated, deterministic |-> same,
                      kept |-> verdict.gated /\ same /\ faster, done |-> TRUE]
  /\ pool' \in Computed
  /\ UNCHANGED <<vars, ran, held>>

\* The caller prints the decision; a later one is about the same graph or a
\* new capture.
Return ==
  /\ verdict.done
  /\ ran' = <<>> /\ held' = <<>> /\ verdict' = Undecided
  /\ UNCHANGED <<vars, pool>>
-----------------------------------------------------------------------------
Deciding == RunAndGate \/ RunAgain \/ Decide \/ Return

DecisionNext == (ran = <<>> /\ Next /\ UNCHANGED decideVars) \/ Deciding

DecisionSpec == DecisionInit /\ [][DecisionNext]_allVars
-----------------------------------------------------------------------------
(* Properties.                                                             *)

\* "The fused kernel run twice must be bit-identical" (fusion.py:17): a stage
\* is declared deterministic, and so kept, only if the two runs did compute
\* the same.
DeterminismIsReal == verdict.deterministic => ran[2] = ran[3]

\* What makes it hold: the results held are copies of what was computed, and a
\* verdict does not outlive the runs it is about.  With it, what holds of the
\* executor however it is driven.
DecisionInv ==
  /\ GraphInv /\ DecisionTypeOK
  /\ Cloned => held = ran /\ DeterminismIsReal
  /\ verdict.deterministic => Len(ran) = 3
=============================================================================
