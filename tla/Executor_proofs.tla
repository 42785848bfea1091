---------------------------- MODULE Executor_proofs ----------------------------
(***************************************************************************)
(* Proofs about the executor: for any programs, operands, warmup and       *)
(* sequence of captures, replays and decisions (the first part, about      *)
(* GraphReplay and FusionDecision), and for any operands, calls, memory    *)
(* and pace of the device when it launches (the second, about Launches).   *)
(***************************************************************************)
EXTENDS FusionDecision, Launches, SequenceTheorems, FiniteSetTheorems, TLAPS

\* What the capture executes, and the shapes of what it executes it on.
LEMMA NodesFacts ==
  ASSUME NEW p \in Programs
  PROVE  /\ NodesOf[p] \in Seq(NodesIn(p)) /\ NodesOf[p] \in Seq(Nodes)
         /\ NodesIn(p) \subseteq Nodes
         /\ \A n \in NodesIn(p) : \E i \in DOMAIN NodesOf[p] : NodesOf[p][i] = n
<1>1. NodesOf[p] \in Seq(Nodes)
  BY GraphAssumption
<1>2. NodesIn(p) \subseteq Nodes
  BY DEF Nodes
<1>3. NodesOf[p] \in Seq(NodesIn(p))
  BY <1>1, LenProperties DEF NodesIn
<1>4. QED
  BY <1>1, <1>2, <1>3 DEF NodesIn

LEMMA ShapesFacts ==
  ASSUME NEW b \in Buffers
  PROVE  /\ b \in [Inputs -> Operands]
         /\ ShapesOf(b) \in [Inputs -> Shapes]
<1>1. b \in [Inputs -> Operands]
  BY DEF Buffers
<1>2. \A n \in Inputs : b[n].shape \in Shapes
  BY <1>1 DEF Shapes
<1>3. QED
  BY <1>1, <1>2 DEF ShapesOf

\* What executing the head of a pass does to it.
LEMMA HeadFacts ==
  ASSUME NEW S, NEW s \in Seq(S), s # <<>>
  PROVE  /\ Head(s) \in S /\ Tail(s) \in Seq(S)
         /\ \A i \in DOMAIN s : s[i] = Head(s) \/ \E j \in DOMAIN Tail(s) : Tail(s)[j] = s[i]
<1>1. /\ Head(s) \in S /\ Tail(s) \in Seq(S) /\ Head(s) = s[1]
      /\ Len(s) \in Nat \ {0} /\ DOMAIN s = 1 .. Len(s)
      /\ Len(Tail(s)) = Len(s) - 1 /\ DOMAIN Tail(s) = 1 .. Len(s) - 1
      /\ \A i \in 1 .. Len(s) - 1 : Tail(s)[i] = s[i + 1]
  BY HeadTailProperties, LenProperties, EmptySeq
<1>2. ASSUME NEW i \in DOMAIN s, i # 1
      PROVE  \E j \in DOMAIN Tail(s) : Tail(s)[j] = s[i]
  <2>1. i - 1 \in DOMAIN Tail(s) /\ (i - 1) + 1 = i
    BY <1>1, <1>2
  <2>2. Tail(s)[i - 1] = s[i]
    BY <1>1, <2>1
  <2>3. QED
    BY <2>1, <2>2
<1>3. QED
  BY <1>1, <1>2

\* A program has a node, so a capture always has something to run first.
LEMMA EmptyPass == <<>> \in Seq(Nodes) /\ DOMAIN <<>> = {}
BY EmptySeq
-----------------------------------------------------------------------------
(* The executor, one lemma per action.                                     *)

LEMMA GraphInit == Init => GraphInv
<1> SUFFICES ASSUME Init PROVE GraphInv
  OBVIOUS
<1>1. TypeOK
  <2>1. launch \in [kind : Kinds \union {"none"}, recorded : BOOLEAN, hostWork : BOOLEAN]
    BY DEF Init, NoLaunch
  <2>2. todo \in Seq(Nodes) /\ rounds \in 0 .. Warmup
    BY GraphAssumption, EmptyPass DEF Init
  <2>3. QED
    BY <2>1, <2>2 DEF Init, TypeOK
<1>2. CaptureScope /\ WarmupBuilds /\ HostWork
  BY DEF Init, CaptureScope, WarmupBuilds, HostWork, NoLaunch
<1>3. GraphIsCurrent /\ ReplayIsFresh /\ StaticShapes
  BY DEF Init, GraphIsCurrent, ReplayIsFresh, StaticShapes, NoAnswer
<1>4. QED
  BY <1>1, <1>2, <1>3 DEF GraphInv

LEMMA BeginCaptureInv == GraphInv /\ BeginCapture => GraphInv'
<1> SUFFICES ASSUME GraphInv, BeginCapture PROVE GraphInv'
  OBVIOUS
<1> USE DEF GraphInv, BeginCapture, execVars
<1>1. target' \in Programs /\ staticIn' \in Buffers /\ EagerPasses \in 0 .. Warmup
  BY GraphAssumption DEF EagerPasses
<1>2. todo' \in Seq(NodesIn(target')) /\ todo' \in Seq(Nodes)
  BY <1>1, NodesFacts
<1>3. TypeOK'
  <2>1. /\ rounds' \in 0 .. Warmup /\ phase' = "warmup" /\ linked' = FALSE
        /\ UNCHANGED <<graph, graphIn, runners, captureMode, launch>>
    BY <1>1
  <2>2. QED
    BY <1>1, <1>2, <2>1 DEF TypeOK
<1>4. CaptureScope'
  BY <1>1, <1>2 DEF CaptureScope
<1>5. WarmupBuilds'
  BY <1>1, NodesFacts DEF WarmupBuilds
<1>6. HostWork'
  BY DEF HostWork
<1>7. GraphIsCurrent' /\ ReplayIsFresh' /\ StaticShapes'
  BY DEF GraphIsCurrent, ReplayIsFresh, StaticShapes, NoAnswer
<1>8. QED
  BY <1>3, <1>4, <1>5, <1>6, <1>7

\* What a node needs, once it is built, is a runner the executor may have.
LEMMA BuiltFacts ==
  ASSUME NEW n \in Nodes, staticIn \in Buffers
  PROVE  Built(n) \subseteq Keys
BY DEF Built, Keys

LEMMA ExecuteInv == GraphInv /\ Execute => GraphInv'
<1> SUFFICES ASSUME GraphInv, Execute PROVE GraphInv'
  OBVIOUS
<1> DEFINE node == Head(todo)
<1>1. /\ target \in Programs /\ answer = NoAnswer /\ todo \in Seq(NodesIn(target))
      /\ staticIn \in Buffers /\ phase \in {"warmup", "record"}
  BY DEF GraphInv, TypeOK, CaptureScope, Execute
<1>2. /\ node \in NodesIn(target) /\ Tail(todo) \in Seq(NodesIn(target))
      /\ \A i \in DOMAIN todo :
           todo[i] = node \/ \E j \in DOMAIN Tail(todo) : Tail(todo)[j] = todo[i]
  BY <1>1, HeadFacts DEF Execute
<1>3. node \in Nodes /\ Tail(todo) \in Seq(Nodes) /\ node.kind \in Kinds
  BY <1>1, <1>2, NodesFacts, HeadFacts, GraphAssumption DEF Execute, GraphInv, TypeOK
<1>4. /\ runners' = runners \union Built(node)
      /\ launch' = [kind |-> node.kind, recorded |-> phase = "record",
                    hostWork |-> ~(Built(node) \subseteq runners)
                                 \/ (node.kind = "opaque" /\ ~captureMode)]
      /\ todo' = Tail(todo)
      /\ UNCHANGED <<staticIn, graph, graphIn, linked, captureMode, phase, target, rounds, answer>>
  BY DEF Execute
<1> HIDE DEF node
<1>5. TypeOK'
  <2>1. runners' \subseteq Keys
    BY <1>1, <1>3, <1>4, BuiltFacts DEF GraphInv, TypeOK
  <2>2. launch' \in [kind : Kinds \union {"none"}, recorded : BOOLEAN, hostWork : BOOLEAN]
    BY <1>3, <1>4
  <2>3. QED
    BY <1>3, <1>4, <2>1, <2>2 DEF GraphInv, TypeOK
<1>6. CaptureScope'
  BY <1>2, <1>4 DEF GraphInv, CaptureScope
<1>7. WarmupBuilds'
  <2>1. ASSUME NEW n \in NodesIn(target), Built(n) \subseteq runners
        PROVE  Built(n) \subseteq runners'
    BY <1>4, <2>1
  <2>2. Built(node) \subseteq runners' /\ \A n : Built(n)' = Built(n)
    BY <1>4 DEF Built, Key, ShapesOf
  <2>3. QED
    BY <1>2, <1>4, <2>1, <2>2 DEF GraphInv, WarmupBuilds
<1>8. HostWork'
  <2>1. CASE phase = "record"
    <3>1. Built(node) \subseteq runners /\ captureMode
      BY <1>2, <2>1 DEF GraphInv, WarmupBuilds, CaptureScope
    <3>2. QED
      BY <1>4, <2>1, <3>1 DEF HostWork
  <2>2. CASE phase = "warmup"
    <3>1. ~captureMode
      BY <2>2 DEF GraphInv, CaptureScope
    <3>2. QED
      BY <1>4, <2>2, <3>1 DEF HostWork
  <2>3. QED
    BY <1>1, <2>1, <2>2
<1>9. Reliable => GraphIsCurrent' /\ ReplayIsFresh' /\ StaticShapes'
  BY <1>1, <1>4 DEF GraphInv, GraphIsCurrent, ReplayIsFresh, StaticShapes
<1>10. QED
  BY <1>5, <1>6, <1>7, <1>8, <1>9 DEF GraphInv

LEMMA NextPassInv == GraphInv /\ NextPass => GraphInv'
<1> SUFFICES ASSUME GraphInv, NextPass PROVE GraphInv'
  OBVIOUS
<1> USE DEF GraphInv, NextPass, execVars
<1>1. target \in Programs
  BY DEF CaptureScope
<1>2. todo' \in Seq(NodesIn(target)) /\ todo' \in Seq(Nodes)
  BY <1>1, NodesFacts
<1>3. TypeOK'
  BY <1>2, GraphAssumption DEF TypeOK
<1>4. CaptureScope' /\ HostWork'
  BY <1>2 DEF CaptureScope, HostWork
<1>5. WarmupBuilds'
  BY <1>1, NodesFacts DEF WarmupBuilds, Built
<1>6. Reliable => GraphIsCurrent' /\ ReplayIsFresh' /\ StaticShapes'
  BY DEF GraphIsCurrent, ReplayIsFresh, StaticShapes
<1>7. QED
  BY <1>3, <1>4, <1>5, <1>6

LEMMA BeginRecordingInv == GraphInv /\ BeginRecording => GraphInv'
<1> SUFFICES ASSUME GraphInv, BeginRecording PROVE GraphInv'
  OBVIOUS
<1> USE DEF GraphInv, BeginRecording
<1>1. target \in Programs
  BY DEF CaptureScope
<1>2. todo' \in Seq(NodesIn(target)) /\ todo' \in Seq(Nodes)
  BY <1>1, NodesFacts
<1>3. TypeOK'
  BY <1>2 DEF TypeOK
<1>4. CaptureScope' /\ HostWork'
  BY <1>2 DEF CaptureScope, HostWork
<1>5. WarmupBuilds'
  <2>1. \A n \in NodesIn(target) : Built(n) \subseteq runners
    BY EmptyPass DEF WarmupBuilds
  <2>2. \A n : Built(n)' = Built(n)
    BY DEF Built, Key, ShapesOf
  <2>3. QED
    BY <2>1, <2>2 DEF WarmupBuilds
<1>6. Reliable => GraphIsCurrent' /\ ReplayIsFresh' /\ StaticShapes'
  BY DEF GraphIsCurrent, ReplayIsFresh, StaticShapes
<1>7. QED
  BY <1>3, <1>4, <1>5, <1>6

LEMMA EndCaptureInv == GraphInv /\ EndCapture => GraphInv'
<1> SUFFICES ASSUME GraphInv, EndCapture PROVE GraphInv'
  OBVIOUS
<1> USE DEF GraphInv, EndCapture
<1>1. target \in Programs /\ staticIn \in Buffers /\ answer = NoAnswer
  BY DEF CaptureScope
<1>2. graph' \in [program : Programs, shapes : [Inputs -> Shapes]]
  BY <1>1, ShapesFacts
<1>3. TypeOK'
  <2>1. graphIn' = staticIn /\ staticIn' = staticIn /\ linked' = TRUE /\ captureMode' = FALSE
        /\ phase' = "idle" /\ target' = "none"
        /\ UNCHANGED <<runners, launch, todo, rounds>>
    OBVIOUS
  <2>2. QED
    BY <1>1, <1>2, <2>1 DEF TypeOK
<1>4. CaptureScope' /\ WarmupBuilds' /\ HostWork'
  BY <1>1 DEF CaptureScope, WarmupBuilds, HostWork
<1>5. GraphIsCurrent' /\ ReplayIsFresh' /\ StaticShapes'
  <2>1. ShapesOf(staticIn)' = ShapesOf(staticIn)
    BY DEF ShapesOf
  <2>2. QED
    BY <1>1, <2>1 DEF GraphIsCurrent, ReplayIsFresh, StaticShapes, NoAnswer
<1>6. QED
  BY <1>3, <1>4, <1>5

LEMMA CaptureRaisesInv == GraphInv /\ CaptureRaises => GraphInv'
<1> SUFFICES ASSUME GraphInv, CaptureRaises PROVE GraphInv'
  OBVIOUS
<1>1. /\ target \in Programs /\ staticIn \in Buffers /\ answer = NoAnswer
      /\ todo \in Seq(Nodes) /\ todo # <<>>
  BY DEF GraphInv, CaptureScope, TypeOK, CaptureRaises
<1>2. Head(todo) \in Nodes
  BY <1>1, HeadFacts
<1>3. TypeOK'
  <2>1. runners' \subseteq Keys
    BY <1>1, <1>2, BuiltFacts DEF CaptureRaises, GraphInv, TypeOK
  <2>2. todo' \in Seq(Nodes) /\ rounds' \in 0 .. Warmup
    BY EmptyPass, GraphAssumption DEF CaptureRaises
  <2>3. /\ phase' = "idle" /\ captureMode' = FALSE /\ target' = "none"
        /\ UNCHANGED <<staticIn, graph, graphIn, linked, launch>>
    BY DEF CaptureRaises
  <2>4. QED
    BY <2>1, <2>2, <2>3 DEF GraphInv, TypeOK
<1>4. CaptureScope' /\ WarmupBuilds' /\ HostWork'
  BY DEF GraphInv, CaptureRaises, CaptureScope, WarmupBuilds, HostWork
<1>5. Reliable => GraphIsCurrent' /\ ReplayIsFresh' /\ StaticShapes'
  BY <1>1 DEF GraphInv, CaptureRaises, GraphIsCurrent, ReplayIsFresh, StaticShapes, NoAnswer
<1>6. QED
  BY <1>3, <1>4, <1>5 DEF GraphInv

LEMMA ReplayInv == ASSUME GraphInv, NEW b \in Buffers, Replay(b) PROVE GraphInv'
<1> USE DEF GraphInv, Replay, execVars
<1>1. TypeOK'
  BY DEF TypeOK
<1>2. CaptureScope' /\ WarmupBuilds' /\ HostWork'
  BY DEF CaptureScope, WarmupBuilds, HostWork
<1>3. Reliable => GraphIsCurrent' /\ ReplayIsFresh' /\ StaticShapes'
  <2>1. ShapesOf(staticIn)' = ShapesOf(b) /\ ShapesOf(b) = ShapesOf(staticIn)
    BY DEF ShapesOf, Fits
  <2>2. answer'.asked = b /\ (linked => answer'.saw = b)
    OBVIOUS
  <2>3. QED
    BY <2>1, <2>2 DEF GraphIsCurrent, ReplayIsFresh, StaticShapes, ShapesOf
<1>4. QED
  BY <1>1, <1>2, <1>3

LEMMA ReplayRaisesInv == ASSUME GraphInv, NEW b \in Buffers, ReplayRaises(b) PROVE GraphInv'
<1>1. PICK k \in DOMAIN Ins :
        /\ \A i \in DOMAIN Ins : i < k => b[Ins[i]].shape = staticIn[Ins[i]].shape
        /\ staticIn' = CopiedBefore(k, b)
  BY DEF ReplayRaises
<1>2. /\ phase = "idle" /\ graph # NoGraph /\ answer' = NoAnswer
      /\ graphIn' = (IF linked THEN staticIn' ELSE graphIn)
      /\ UNCHANGED <<graph, linked, execVars, phase, target, todo, rounds>>
  BY DEF ReplayRaises
<1>3. staticIn \in Buffers
  BY <1>2 DEF GraphInv, CaptureScope
<1>4. staticIn' \in Buffers
  BY <1>1, <1>3 DEF CopiedBefore, Buffers
<1>5. ShapesOf(staticIn)' = ShapesOf(staticIn)
  BY <1>1 DEF CopiedBefore, ShapesOf
<1>6. TypeOK'
  BY <1>2, <1>4 DEF GraphInv, TypeOK, execVars
<1>7. CaptureScope' /\ WarmupBuilds' /\ HostWork'
  BY <1>2, <1>4 DEF GraphInv, execVars, CaptureScope, WarmupBuilds, HostWork
<1>8. Reliable => GraphIsCurrent' /\ ReplayIsFresh' /\ StaticShapes'
  BY <1>2, <1>5 DEF GraphInv, GraphIsCurrent, ReplayIsFresh, StaticShapes, NoAnswer
<1>9. QED
  BY <1>6, <1>7, <1>8 DEF GraphInv

LEMMA CloseRegistryInv == GraphInv /\ CloseRegistry => GraphInv'
<1> SUFFICES ASSUME GraphInv, CloseRegistry PROVE GraphInv'
  OBVIOUS
<1> USE DEF GraphInv, CloseRegistry
<1>1. runners' \subseteq runners
  OBVIOUS
<1>2. TypeOK'
  BY <1>1 DEF TypeOK
<1>3. CaptureScope' /\ WarmupBuilds' /\ HostWork'
  BY DEF CaptureScope, WarmupBuilds, HostWork
<1>4. Reliable => GraphIsCurrent' /\ ReplayIsFresh' /\ StaticShapes'
  BY DEF GraphIsCurrent, ReplayIsFresh, StaticShapes, ShapesOf
<1>5. QED
  BY <1>2, <1>3, <1>4

LEMMA GraphNext == GraphInv /\ [Next]_vars => GraphInv'
<1> SUFFICES ASSUME GraphInv, [Next]_vars PROVE GraphInv'
  OBVIOUS
<1>1. CASE BeginCapture \/ CloseRegistry
  BY <1>1, BeginCaptureInv, CloseRegistryInv
<1>2. CASE Capturing
  BY <1>2, ExecuteInv, NextPassInv, BeginRecordingInv, EndCaptureInv, CaptureRaisesInv
  DEF Capturing
<1>3. CASE \E b \in Buffers : Replay(b) \/ ReplayRaises(b)
  BY <1>3, ReplayInv, ReplayRaisesInv
<1>4. CASE UNCHANGED vars
  BY <1>4 DEF vars, execVars, GraphInv, TypeOK, CaptureScope, WarmupBuilds, HostWork,
              GraphIsCurrent, ReplayIsFresh, StaticShapes, Built, Key, ShapesOf
<1>5. QED
  BY <1>1, <1>2, <1>3, <1>4 DEF Next
-----------------------------------------------------------------------------
(* The decisions over it.                                                  *)

LEMMA DecisionInitInv == DecisionInit => DecisionInv
<1> SUFFICES ASSUME DecisionInit PROVE DecisionInv
  OBVIOUS
<1>1. GraphInv
  BY GraphInit DEF DecisionInit
<1>2. ran \in Seq(Computed) /\ held \in Seq(Computed \union {Pool}) /\ Len(ran) = 0 /\ Len(held) = 0
  BY EmptySeq DEF DecisionInit
<1>3. DecisionTypeOK
  BY <1>1, <1>2 DEF DecisionInit, DecisionTypeOK, GraphInv, Computed, Undecided
<1>4. ~verdict.deterministic /\ held = ran
  BY DEF DecisionInit, Undecided
<1>5. QED
  BY <1>1, <1>3, <1>4 DEF DecisionInv, DeterminismIsReal

\* A decision drives the executor through nothing but replays of the operands
\* that are in its buffers already.
LEMMA DecidingReplays ==
  ASSUME DecisionInv, [DecisionNext]_allVars
  PROVE  [Next]_vars
<1>1. ASSUME NEW x, RunOnce(x) PROVE Next
  <2>1. Replay(staticIn) /\ graph # NoGraph
    BY <1>1 DEF RunOnce, Replay
  <2>2. staticIn \in Buffers
    BY <2>1 DEF DecisionInv, GraphInv, CaptureScope
  <2>3. QED
    BY <2>1, <2>2 DEF Next
<1>2. CASE ran = <<>> /\ Next /\ UNCHANGED decideVars
  BY <1>2
<1>3. CASE RunAndGate \/ RunAgain
  BY <1>1, <1>3 DEF RunAndGate, RunAgain
<1>4. CASE Decide \/ Return \/ UNCHANGED allVars
  BY <1>4 DEF Decide, Return, allVars
<1>5. QED
  BY <1>2, <1>3, <1>4 DEF DecisionNext, Deciding

\* What a run appends, and what a copy of it reads as from then on.
LEMMA RunOnceFacts ==
  ASSUME DecisionInv, NEW x \in Computed, RunOnce(x), Len(ran) < 3
  PROVE  /\ pool' \in Computed
         /\ ran' \in Seq(Computed) /\ held' \in Seq(Computed \union {Pool})
         /\ Len(ran) \in Nat /\ Len(ran') = Len(ran) + 1 /\ Len(held') = Len(ran')
         /\ Cloned => held' = ran'
<1>1. ran \in Seq(Computed) /\ held \in Seq(Computed \union {Pool}) /\ Len(held) = Len(ran)
  BY DEF DecisionInv, DecisionTypeOK
<1>2. Returned(x) \in Computed \union {Pool} /\ (Cloned => Returned(x) = x)
  BY DEF Returned
<1>3. pool' = x /\ ran' = Append(ran, x) /\ held' = Append(held, Returned(x))
  BY DEF RunOnce
<1>4. QED
  BY <1>1, <1>2, <1>3, AppendProperties, LenProperties DEF DecisionInv

LEMMA RunInv ==
  ASSUME DecisionInv, GraphInv', RunAndGate \/ RunAgain
  PROVE  DecisionInv'
<1>1. ran \in Seq(Computed) /\ Len(ran) \in Nat /\ (ran = <<>> => Len(ran) = 0)
  BY LenProperties, EmptySeq DEF DecisionInv, DecisionTypeOK
<1>2. Len(ran) < 3 /\ ~verdict.deterministic
  <2>1. ran = <<>> \/ Len(ran) \in {1, 2}
    BY DEF RunAndGate, RunAgain
  <2>2. Len(ran) \in 0 .. 2
    BY <1>1, <2>1
  <2>3. verdict.deterministic => Len(ran) = 3
    BY DEF DecisionInv
  <2>4. \A n \in 0 .. 2 : n < 3 /\ n # 3
    OBVIOUS
  <2>5. QED
    BY <2>2, <2>3, <2>4
<1>3. PICK x \in Computed : RunOnce(x)
  BY DEF RunAndGate, RunAgain
<1>4. verdict' \in [gated : BOOLEAN, deterministic : BOOLEAN, kept : BOOLEAN, done : BOOLEAN]
      /\ ~verdict'.deterministic
  <2>1. CASE RunAgain
    BY <1>2, <2>1 DEF RunAgain, DecisionInv, DecisionTypeOK
  <2>2. CASE RunAndGate
    <3>1. verdict' = [verdict EXCEPT !.gated = Read(held'[1], pool') = "staged"]
      BY <2>2 DEF RunAndGate
    <3>2. QED
      BY <1>2, <3>1 DEF DecisionInv, DecisionTypeOK
  <2>3. QED
    BY <2>1, <2>2
<1>5. QED
  BY <1>2, <1>3, <1>4, RunOnceFacts DEF DecisionInv, DecisionTypeOK, DeterminismIsReal, GraphInv

\* Two copies are equal exactly if what they are copies of was.
LEMMA DecideInv == ASSUME DecisionInv, GraphInv', Decide PROVE DecisionInv'
<1>1. PICK faster \in BOOLEAN :
        verdict' = [gated |-> verdict.gated,
                    deterministic |-> Read(held[2], pool) = Read(held[3], pool),
                    kept |-> verdict.gated /\ Read(held[2], pool) = Read(held[3], pool) /\ faster,
                    done |-> TRUE]
  BY DEF Decide
<1>2. Len(ran) = 3 /\ ran' = ran /\ held' = held /\ pool' \in Computed
  BY DEF Decide
<1>3. DecisionTypeOK'
  <2>1. verdict.gated \in BOOLEAN
    BY DEF DecisionInv, DecisionTypeOK
  <2>2. verdict' \in [gated : BOOLEAN, deterministic : BOOLEAN, kept : BOOLEAN, done : BOOLEAN]
    BY <1>1, <2>1
  <2>3. QED
    BY <1>2, <2>2 DEF DecisionInv, DecisionTypeOK, GraphInv
<1>4. ASSUME Cloned PROVE held' = ran' /\ DeterminismIsReal'
  <2>1. held = ran /\ ran[2] \in Computed /\ ran[3] \in Computed
    <3>1. ran \in Seq(Computed) /\ 2 \in 1 .. Len(ran) /\ 3 \in 1 .. Len(ran)
      BY <1>2 DEF DecisionInv, DecisionTypeOK
    <3>2. ran[2] \in Computed /\ ran[3] \in Computed
      BY <3>1, ElementOfSeq
    <3>3. QED
      BY <1>4, <3>2 DEF DecisionInv
  <2>2. Read(held[2], pool) = ran[2] /\ Read(held[3], pool) = ran[3]
    BY <2>1 DEF Read, Computed, Pool
  <2>3. QED
    BY <1>1, <1>2, <2>1, <2>2 DEF DeterminismIsReal
<1>5. QED
  BY <1>2, <1>3, <1>4 DEF DecisionInv

LEMMA ReturnInv == ASSUME DecisionInv, GraphInv', Return PROVE DecisionInv'
<1>1. ran' \in Seq(Computed) /\ held' \in Seq(Computed \union {Pool})
      /\ Len(ran') = 0 /\ Len(held') = 0 /\ held' = ran' /\ pool' = pool
  BY EmptySeq DEF Return
<1>2. verdict' = Undecided /\ ~verdict'.deterministic
  BY DEF Return, Undecided
<1>3. DecisionTypeOK'
  BY <1>1, <1>2 DEF DecisionInv, DecisionTypeOK, GraphInv, Undecided
<1>4. QED
  BY <1>1, <1>2, <1>3 DEF DecisionInv, DeterminismIsReal

LEMMA DecisionStep == DecisionInv /\ [DecisionNext]_allVars => DecisionInv'
<1> SUFFICES ASSUME DecisionInv, [DecisionNext]_allVars PROVE DecisionInv'
  OBVIOUS
<1>1. GraphInv'
  BY DecidingReplays, GraphNext DEF DecisionInv
<1>2. CASE UNCHANGED decideVars
  BY <1>1, <1>2 DEF decideVars, DecisionInv, DecisionTypeOK, DeterminismIsReal, GraphInv
<1>3. CASE Deciding
  BY <1>1, <1>3, RunInv, DecideInv, ReturnInv DEF Deciding
<1>4. QED
  BY <1>2, <1>3 DEF DecisionNext, allVars
-----------------------------------------------------------------------------
(* The theorems.                                                           *)

\* The inductive invariant of the executor under decisions: who owns the
\* buffers, what a warmup has built, and what a decision holds.
THEOREM DecisionInvariance == DecisionSpec => []DecisionInv
BY DecisionInitInv, DecisionStep, PTL DEF DecisionSpec

\* A decision does nothing to the executor that its own operations do not do:
\* what holds of captures and replays in any order holds under decisions.
THEOREM DecisionsAreReplays == DecisionSpec => Spec
<1>1. DecisionInit => Init
  BY DEF DecisionInit
<1>2. DecisionInv /\ [DecisionNext]_allVars => [Next]_vars
  BY DecidingReplays
<1>3. QED
  BY <1>1, <1>2, DecisionInvariance, PTL DEF DecisionSpec, Spec

\* The executor alone, however its operations are called.
THEOREM GraphInvariance == Spec => []GraphInv
BY GraphInit, GraphNext, PTL DEF Spec

\* The variables of the executor and of a decision keep their types.
THEOREM DecisionTypes == DecisionSpec => []DecisionTypeOK
<1>1. DecisionInv => DecisionTypeOK
  BY DEF DecisionInv
<1>2. QED
  BY <1>1, DecisionInvariance, PTL

\* While a capture fails only when there is no graph, a replay returns what
\* the graph computes from the operands passed to it.
THEOREM FreshReplays == ASSUME Reliable PROVE DecisionSpec => []ReplayIsFresh
<1>1. DecisionInv => ReplayIsFresh
  BY DEF DecisionInv, GraphInv
<1>2. QED
  BY <1>1, DecisionInvariance, PTL

\* ... and returns for operands of the captured shapes only.
THEOREM ShapesEnforced == ASSUME Reliable PROVE DecisionSpec => []StaticShapes
<1>1. DecisionInv => StaticShapes
  BY DEF DecisionInv, GraphInv
<1>2. QED
  BY <1>1, DecisionInvariance, PTL

\* Whatever fails, and with any warmup, no recorded node works on the host and
\* no opaque kernel is launched eagerly without its synchronization.
THEOREM NoHostWorkRecorded == DecisionSpec => []HostWork
<1>1. DecisionInv => HostWork
  BY DEF DecisionInv, GraphInv
<1>2. QED
  BY <1>1, DecisionInvariance, PTL

\* What a recorded einsum or tril uses was built for its own operands.
THEOREM RecordedRunners == DecisionSpec => []RecordedRunnersFit
<1>1. DecisionInv => RecordedRunnersFit
  <2> SUFFICES ASSUME DecisionInv, phase = "record",
                      NEW i \in DOMAIN NodesOf[target],
                      NodesOf[target][i].kind \in {"einsum", "tril"}
               PROVE  [op |-> NodesOf[target][i].op, mode |-> NodesOf[target][i].mode,
                       shapes |-> ShapesOf(staticIn)] \in runners
    BY DEF RecordedRunnersFit
  <2>1. NodesOf[target][i] \in NodesIn(target)
    BY DEF NodesIn
  <2>2. Built(NodesOf[target][i]) \subseteq runners
    BY <2>1 DEF DecisionInv, GraphInv, WarmupBuilds
  <2>3. QED
    BY <2>2 DEF Built, Key
<1>2. QED
  BY <1>1, DecisionInvariance, PTL

\* With results that are copies, a stage is declared deterministic only if the
\* two runs compared did compute the same.
THEOREM DeterminismHolds == ASSUME Cloned PROVE DecisionSpec => []DeterminismIsReal
<1>1. DecisionInv => DeterminismIsReal
  BY DEF DecisionInv
<1>2. QED
  BY <1>1, DecisionInvariance, PTL
-----------------------------------------------------------------------------
(* Launches: what a block holds when the device gets to a place of the     *)
(* stream.                                                                 *)

\* What is queued later does not change what a place finds,
LEMMA HeldBefore ==
  ASSUME NEW S, NEW m, NEW q \in Seq(S), NEW op \in S, NEW i \in 1 .. Len(q) + 1,
         NEW b, NEW n, HoldsAt(m, q, i, b, n)
  PROVE  HoldsAt(m, Append(q, op), i, b, n)
<1>1. Len(q) \in Nat /\ \A j \in 1 .. Len(q) : Append(q, op)[j] = q[j]
  BY AppendProperties, LenProperties
<1>2. \A j \in 1 .. i - 1 : Append(q, op)[j] = q[j]
  BY <1>1
<1>3. QED
  BY <1>2 DEF HoldsAt

\* the end of the queue finds the last write,
LEMMA HeldWritten ==
  ASSUME NEW S, NEW m, NEW q \in Seq(S), NEW op \in S
  PROVE  HoldsAt(m, Append(q, op), Len(q) + 2, op.writes, op.name)
<1>1. Len(q) \in Nat /\ Append(q, op)[Len(q) + 1] = op
  BY AppendProperties, LenProperties
<1>2. Len(q) + 1 \in 1 .. (Len(q) + 2) - 1 /\ \A l \in 1 .. (Len(q) + 2) - 1 : l <= Len(q) + 1
  BY <1>1
<1>3. QED
  BY <1>1, <1>2 DEF HoldsAt

\* or, in a block that is not written, what it would have found before it.
LEMMA HeldAfter ==
  ASSUME NEW S, NEW m, NEW q \in Seq(S), NEW op \in S,
         NEW b, NEW n, HoldsAt(m, q, Len(q) + 1, b, n), op.writes # b
  PROVE  HoldsAt(m, Append(q, op), Len(q) + 2, b, n)
<1> DEFINE p == Append(q, op)
<1>1. /\ Len(q) \in Nat /\ p[Len(q) + 1] = op
      /\ \A j \in 1 .. Len(q) : p[j] = q[j]
  BY AppendProperties, LenProperties
<1>2. /\ 1 .. (Len(q) + 1) - 1 = 1 .. Len(q)
      /\ 1 .. (Len(q) + 2) - 1 = 1 .. Len(q) + 1
      /\ \A l \in 1 .. Len(q) + 1 : l \in 1 .. Len(q) \/ l = Len(q) + 1
      /\ \A l \in 1 .. Len(q) : l \in 1 .. Len(q) + 1
  BY <1>1
<1> HIDE DEF p
<1>3. CASE m[b] = n /\ \A l \in 1 .. Len(q) : q[l].writes # b
  <2>1. \A l \in 1 .. Len(q) + 1 : p[l].writes # b
    BY <1>1, <1>2, <1>3
  <2>2. HoldsAt(m, p, Len(q) + 2, b, n)
    BY <1>2, <1>3, <2>1 DEF HoldsAt
  <2>3. QED
    BY <2>2 DEF p
<1>4. CASE \E j \in 1 .. Len(q) : /\ q[j].writes = b /\ q[j].name = n
                                 /\ \A l \in 1 .. Len(q) : q[l].writes = b => l <= j
  <2>1. PICK j \in 1 .. Len(q) : /\ q[j].writes = b /\ q[j].name = n
                                 /\ \A l \in 1 .. Len(q) : q[l].writes = b => l <= j
    BY <1>4
  <2>2. /\ j \in 1 .. Len(q) + 1 /\ p[j].writes = b /\ p[j].name = n
        /\ \A l \in 1 .. Len(q) + 1 : p[l].writes = b => l <= j
    BY <1>1, <1>2, <2>1
  <2>3. HoldsAt(m, p, Len(q) + 2, b, n)
    BY <1>2, <2>2 DEF HoldsAt
  <2>4. QED
    BY <2>3 DEF p
<1>5. QED
  BY <1>2, <1>3, <1>4 DEF HoldsAt

\* Once the head of the queue is executed every place finds what it would have.
LEMMA HeldNext ==
  ASSUME NEW S, NEW m, NEW q \in Seq(S), q # <<>>, NEW i \in 1 .. Len(q),
         NEW b \in DOMAIN m, NEW n, HoldsAt(m, q, i + 1, b, n)
  PROVE  HoldsAt([m EXCEPT ![Head(q).writes] = Head(q).name], Tail(q), i, b, n)
<1> DEFINE p == Tail(q)
           m2 == [m EXCEPT ![q[1].writes] = q[1].name]
<1>1. /\ Len(q) \in Nat \ {0} /\ Head(q) = q[1]
      /\ \A j \in 1 .. Len(q) - 1 : p[j] = q[j + 1]
  BY HeadTailProperties, LenProperties, EmptySeq
<1>2. /\ (i + 1) - 1 = i /\ \A j \in 1 .. i - 1 : p[j] = q[j + 1] /\ j + 1 \in 1 .. i
      /\ \A j \in 1 .. i : j = 1 \/ j - 1 \in 1 .. i - 1
      /\ \A j \in 1 .. i : (j - 1) + 1 = j
  BY <1>1
<1>3. m2[b] = IF b = q[1].writes THEN q[1].name ELSE m[b]
  OBVIOUS
<1> HIDE DEF p, m2
<1>4. CASE m[b] = n /\ \A l \in 1 .. i : q[l].writes # b
  <2>1. 1 \in 1 .. i
    OBVIOUS
  <2>2. m2[b] = n
    BY <1>3, <1>4, <2>1
  <2>3. \A l \in 1 .. i - 1 : p[l].writes # b
    BY <1>2, <1>4
  <2>4. QED
    BY <1>1, <2>2, <2>3 DEF HoldsAt, p, m2
<1>5. CASE \E j \in 1 .. i : /\ q[j].writes = b /\ q[j].name = n
                            /\ \A l \in 1 .. i : q[l].writes = b => l <= j
  <2>1. PICK j \in 1 .. i : /\ q[j].writes = b /\ q[j].name = n
                            /\ \A l \in 1 .. i : q[l].writes = b => l <= j
    BY <1>5
  <2>2. CASE j = 1
    <3>1. \A l \in 1 .. i - 1 : p[l].writes # b
      <4> SUFFICES ASSUME NEW l \in 1 .. i - 1, p[l].writes = b PROVE FALSE
        OBVIOUS
      <4>1. l + 1 \in 1 .. i /\ q[l + 1].writes = b
        BY <1>2
      <4>2. l + 1 <= j
        BY <2>1, <4>1
      <4>3. QED
        BY <2>2, <4>2
    <3>2. m2[b] = n
      BY <1>3, <2>1, <2>2
    <3>3. QED
      BY <1>1, <3>1, <3>2 DEF HoldsAt, p, m2
  <2>3. CASE j # 1
    <3>1. j - 1 \in 1 .. i - 1 /\ p[j - 1] = q[j]
      BY <1>2, <2>1, <2>3
    <3>2. \A l \in 1 .. i - 1 : p[l].writes = b => l <= j - 1
      <4> SUFFICES ASSUME NEW l \in 1 .. i - 1, p[l].writes = b PROVE l <= j - 1
        OBVIOUS
      <4>1. l + 1 \in 1 .. i /\ q[l + 1].writes = b
        BY <1>2
      <4>2. l + 1 <= j
        BY <2>1, <4>1
      <4>3. QED
        BY <4>2
    <3>3. p[j - 1].writes = b /\ p[j - 1].name = n
      BY <2>1, <3>1
    <3>4. QED
      BY <1>1, <3>1, <3>2, <3>3 DEF HoldsAt, p, m2
  <2>4. QED
    BY <2>2, <2>3
<1>6. QED
  BY <1>2, <1>4, <1>5 DEF HoldsAt

\* What a block will hold, once a step is taken.
WillStill(b, n) == HoldsAt(mem', stream', Len(stream') + 1, b, n)

\* Appending an operation whose reads will hold keeps every queued read right,
\* and spoils nothing but the block it writes.
LEMMA Queued ==
  ASSUME stream \in Seq(Operations), QueuedReads, NEW op \in Operations,
         \A r \in DOMAIN op.reads : WillHold(op.reads[r][1], op.reads[r][2]),
         stream' = Append(stream, op), mem' = mem
  PROVE  /\ QueuedReads' /\ stream' \in Seq(Operations)
         /\ WillStill(op.writes, op.name)
         /\ \A b, n : WillHold(b, n) /\ b # op.writes => WillStill(b, n)
<1>1. /\ stream' \in Seq(Operations) /\ Len(stream) \in Nat /\ Len(stream') = Len(stream) + 1
      /\ DOMAIN stream = 1 .. Len(stream) /\ DOMAIN stream' = 1 .. Len(stream) + 1
      /\ \A i \in 1 .. Len(stream) : stream'[i] = stream[i]
      /\ stream'[Len(stream) + 1] = op
      /\ Len(stream') + 1 = Len(stream) + 2
  BY AppendProperties, LenProperties
<1>2. WillStill(op.writes, op.name)
  BY <1>1, HeldWritten DEF WillStill
<1>3. ASSUME NEW b, NEW n, WillHold(b, n), b # op.writes PROVE WillStill(b, n)
  BY <1>1, <1>3, HeldAfter DEF WillHold, WillStill
<1>4. ASSUME NEW i \in DOMAIN stream', NEW r \in DOMAIN stream'[i].reads
      PROVE  HoldsAt(mem', stream', i, stream'[i].reads[r][1], stream'[i].reads[r][2])
  <2>1. i \in 1 .. Len(stream) + 1
    BY <1>1
  <2>2. HoldsAt(mem, stream, i, stream'[i].reads[r][1], stream'[i].reads[r][2])
    <3>1. CASE i \in 1 .. Len(stream)
      BY <1>1, <1>4, <3>1 DEF QueuedReads
    <3>2. CASE i = Len(stream) + 1
      BY <1>1, <1>4, <3>2 DEF WillHold
    <3>3. QED
      BY <1>1, <2>1, <3>1, <3>2
  <2>3. QED
    BY <2>1, <2>2, HeldBefore
<1>5. QED
  BY <1>1, <1>2, <1>3, <1>4 DEF QueuedReads

\* Executing the head of the stream finds its operands and changes nothing of
\* what any place will find.
LEMMA StreamStep ==
  ASSUME LaunchTypeOK, QueuedReads, ExecuteStream
  PROVE  /\ QueuedReads' /\ stream' \in Seq(Operations)
         /\ mem' \in [Blocks -> Names \cup {"zeros", "garbage"}]
         /\ misread' = misread
         /\ \A b \in Blocks : \A n : WillHold(b, n) => WillStill(b, n)
<1> DEFINE op == Head(stream)
<1>1. /\ stream \in Seq(Operations) /\ stream # <<>> /\ stream' = Tail(stream)
      /\ op = stream[1] /\ op \in Operations
      /\ mem \in [Blocks -> Names \cup {"zeros", "garbage"}]
  BY DEF LaunchTypeOK, ExecuteStream
<1>2. /\ Len(stream) \in Nat \ {0} /\ DOMAIN stream = 1 .. Len(stream)
      /\ stream' \in Seq(Operations) /\ Len(stream') = Len(stream) - 1
      /\ DOMAIN stream' = 1 .. Len(stream) - 1
      /\ \A i \in 1 .. Len(stream) - 1 : stream'[i] = stream[i + 1]
  BY <1>1, HeadTailProperties, LenProperties, EmptySeq
<1>3. \A r \in DOMAIN op.reads : mem[op.reads[r][1]] = op.reads[r][2]
  <2>1. ASSUME NEW r \in DOMAIN op.reads
        PROVE  HoldsAt(mem, stream, 1, op.reads[r][1], op.reads[r][2])
    BY <1>1, <1>2 DEF QueuedReads
  <2>2. QED
    BY <2>1 DEF HoldsAt
<1>4. mem' = [mem EXCEPT ![op.writes] = op.name] /\ misread' = misread
  BY <1>1, <1>3 DEF ExecuteStream, Perform, LaunchTypeOK
<1>5. mem' \in [Blocks -> Names \cup {"zeros", "garbage"}]
  BY <1>1, <1>4 DEF Operations
<1>6. ASSUME NEW i \in 1 .. Len(stream), NEW b \in Blocks, NEW n, HoldsAt(mem, stream, i + 1, b, n)
      PROVE  HoldsAt(mem', stream', i, b, n)
  BY <1>1, <1>4, <1>6, HeldNext
<1>7. ASSUME NEW b \in Blocks, NEW n, WillHold(b, n) PROVE WillStill(b, n)
  <2>1. Len(stream) \in 1 .. Len(stream) /\ Len(stream') + 1 = Len(stream)
    BY <1>2
  <2>2. QED
    BY <1>6, <1>7, <2>1 DEF WillHold, WillStill
<1>8. ASSUME NEW i \in DOMAIN stream', NEW r \in DOMAIN stream'[i].reads
      PROVE  HoldsAt(mem', stream', i, stream'[i].reads[r][1], stream'[i].reads[r][2])
  <2>1. /\ i \in 1 .. Len(stream) /\ i + 1 \in DOMAIN stream /\ stream'[i] = stream[i + 1]
    BY <1>2
  <2>2. stream[i + 1].reads \in Seq(Blocks \X Names) /\ r \in DOMAIN stream[i + 1].reads
    <3>1. stream[i + 1] \in Operations
      BY <1>1, <1>2, <2>1, ElementOfSeq
    <3>2. QED
      BY <2>1, <3>1 DEF Operations
  <2>3. stream[i + 1].reads[r][1] \in Blocks
    BY <2>2, LenProperties, ElementOfSeq
  <2>4. HoldsAt(mem, stream, i + 1, stream[i + 1].reads[r][1], stream[i + 1].reads[r][2])
    BY <2>1, <2>2 DEF QueuedReads
  <2>5. QED
    BY <1>6, <2>1, <2>3, <2>4
<1>9. QED
  BY <1>2, <1>4, <1>5, <1>7, <1>8 DEF QueuedReads

\* With nothing queued a block will hold what it holds.
LEMMA NothingQueued ==
  ASSUME stream = <<>>, NEW b, NEW n
  PROVE  WillHold(b, n) <=> mem[b] = n
BY EmptySeq DEF WillHold, HoldsAt

\* The operations of the host.
LEMMA ResultFacts ==
  ASSUME LaunchTypeOK, call > 0
  PROVE  Results[call] \in Names /\ Results[call] \notin RunInputs
<1>1. Results \in Seq(STRING \ RunInputs) /\ call \in 1 .. Len(Results)
  BY LaunchesAssumption, LenProperties DEF LaunchTypeOK
<1>2. call \in DOMAIN Results /\ Results[call] \in STRING \ RunInputs
  BY <1>1, LenProperties, ElementOfSeq
<1>3. QED
  BY <1>2 DEF Names, Range

LEMMA CopyFacts ==
  ASSUME NEW a \in Blocks, NEW b \in Blocks, NEW n \in Names
  PROVE  /\ Copy(a, b, n) \in Operations
         /\ Copy(a, b, n).writes = b /\ Copy(a, b, n).name = n
         /\ Copy(a, b, n).reads = << <<a, n>> >>
BY DEF Copy, Op, Operations

LEMMA ZerosFacts ==
  ASSUME NEW b \in Blocks
  PROVE  /\ Zeros(b) \in Operations /\ Zeros(b).writes = b
         /\ Zeros(b).reads = <<>> /\ DOMAIN Zeros(b).reads = {}
<1>1. <<>> \in Seq(Blocks \X Names) /\ DOMAIN <<>> = {}
  BY EmptySeq
<1>2. QED
  BY <1>1 DEF Zeros, Op, Operations

LEMMA KernelFacts ==
  ASSUME LaunchTypeOK, Pointers, pc \in {"launch", "raw"}, call > 0, NEW b \in Blocks
  PROVE  /\ KernelOp(ptrs, b) \in Operations
         /\ KernelOp(ptrs, b).writes = b /\ KernelOp(ptrs, b).name = Results[call]
         /\ \A r \in DOMAIN KernelOp(ptrs, b).reads :
              WillHold(KernelOp(ptrs, b).reads[r][1], KernelOp(ptrs, b).reads[r][2])
<1> DEFINE rs == [i \in DOMAIN ptrs |-> <<ptrs[i], operands[i]>>]
<1>1. /\ ptrs \in Seq(Blocks) /\ operands \in Seq(DOMAIN env) /\ DOMAIN env \subseteq Names
      /\ Len(ptrs) \in Nat /\ Len(operands) \in Nat /\ Len(ptrs) <= Len(operands)
      /\ DOMAIN ptrs = 1 .. Len(ptrs)
      /\ \A i \in DOMAIN ptrs : WillHold(ptrs[i], operands[i])
  BY LenProperties DEF LaunchTypeOK, Pointers
<1>2. \A i \in 1 .. Len(ptrs) : ptrs[i] \in Blocks /\ operands[i] \in Names
  <2> TAKE i \in 1 .. Len(ptrs)
  <2>1. i \in 1 .. Len(operands)
    BY <1>1
  <2>2. QED
    BY <1>1, <2>1, ElementOfSeq
<1>3. rs \in [1 .. Len(ptrs) -> Blocks \X Names]
  BY <1>1, <1>2
<1>4. rs \in Seq(Blocks \X Names)
  BY <1>1, <1>3, SeqDef
<1>5. KernelOp(ptrs, b) = [reads |-> rs, writes |-> b, name |-> Results[call]]
  BY DEF KernelOp, Op
<1>6. Results[call] \in Names
  BY ResultFacts
<1>7. \A r \in DOMAIN rs : WillHold(rs[r][1], rs[r][2])
  BY <1>1
<1> HIDE DEF rs
<1>8. QED
  BY <1>4, <1>5, <1>6, <1>7 DEF Operations
-----------------------------------------------------------------------------
(* Launches: the invariant, one lemma per action.                          *)

LEMMA LaunchInitInv == LaunchInit => LaunchInv
<1> SUFFICES ASSUME LaunchInit PROVE LaunchInv
  OBVIOUS
<1>1. /\ env \in [RunInputs -> Blocks] /\ IsInjective(env) /\ DOMAIN env = RunInputs
      /\ RunInputs \subseteq Names
  BY DEF LaunchInit, Injection, Names
<1>2. ASSUME NEW b \in Blocks
      PROVE  mem[b] \in Names \cup {"garbage"} /\ \A x \in RunInputs : env[x] = b => mem[b] = x
  <2>1. CASE b \in Range(env)
    <3>1. PICK x \in RunInputs : env[x] = b
      BY <1>1, <2>1 DEF Range
    <3>2. mem[b] = CHOOSE y \in RunInputs : env[y] = b
      BY <2>1 DEF LaunchInit
    <3>3. mem[b] \in RunInputs /\ env[mem[b]] = b
      BY <3>1, <3>2
    <3>4. QED
      BY <1>1, <3>3 DEF IsInjective
  <2>2. CASE b \notin Range(env)
    <3>1. \A x \in RunInputs : env[x] # b
      BY <1>1, <2>2 DEF Range
    <3>2. mem[b] = "garbage"
      BY <2>2 DEF LaunchInit
    <3>3. QED
      BY <3>1, <3>2
  <2>3. QED
    BY <2>1, <2>2
<1>3. mem \in [Blocks -> Names \cup {"zeros", "garbage"}]
  <2>1. mem = [b \in Blocks |-> mem[b]]
    BY DEF LaunchInit
  <2>2. QED
    BY <1>2, <2>1
<1>4. <<>> \in Seq(Blocks) /\ <<>> \in Seq(Operations) /\ DOMAIN <<>> = {}
  BY EmptySeq
<1>5. LaunchTypeOK
  <2>1. 0 \in 0 .. Len(Results)
    BY LaunchesAssumption, LenProperties
  <2>2. QED
    BY <1>1, <1>3, <1>4, <2>1 DEF LaunchInit, LaunchTypeOK
<1>6. QueuedReads
  BY <1>4 DEF LaunchInit, QueuedReads
<1>7. Environment
  <2>1. \A x \in RunInputs : WillHold(env[x], x)
    BY <1>1, <1>2, NothingQueued DEF LaunchInit
  <2>2. \A x \in RunInputs : env[x] # NoBlock
    BY <1>1, LaunchesAssumption
  <2>3. QED
    BY <1>1, <2>1, <2>2 DEF LaunchInit, Environment
<1>8. Pointers /\ Progress /\ ReadsItsOperands
  BY DEF LaunchInit, Pointers, Progress, ReadsItsOperands
<1>9. QED
  BY <1>5, <1>6, <1>7, <1>8 DEF LaunchInv

\* A set of at most one number.
LEMMA AtMostOne ==
  ASSUME NEW k \in Nat, NEW T \in SUBSET (1 .. k), Cardinality(T) <= 1, NEW i \in T, NEW j \in T
  PROVE  i = j
<1> SUFFICES ASSUME i # j PROVE FALSE
  OBVIOUS
<1>1. IsFiniteSet(T) /\ Cardinality(T) \in Nat
  <2>1. IsFiniteSet(1 .. k)
    BY FS_Interval
  <2>2. QED
    BY <2>1, FS_Subset, FS_CardinalityType
<1>2. IsFiniteSet({i}) /\ Cardinality({i}) = 1
  BY FS_Singleton
<1>3. {i, j} = {i} \cup {j} /\ j \notin {i}
  OBVIOUS
<1>4. Cardinality({i, j}) = 2
  BY <1>2, <1>3, FS_AddElement
<1>5. Cardinality({i, j}) <= Cardinality(T)
  BY <1>1, FS_Subset
<1>6. QED
  BY <1>1, <1>4, <1>5

LEMMA CallInv ==
  ASSUME ScanCopies <= 1, LaunchInv, NEW n \in Nat \ {0}, NEW k \in {"tile", "scan", "tri"},
         NEW names \in [1 .. n -> DOMAIN env], NEW needCopy \in SUBSET (1 .. n),
         Call(k, names, needCopy)
  PROVE  LaunchInv'
<1>1. /\ pc = "idle" /\ pc' = "adapt" /\ call' = call + 1 /\ call < Len(Results)
      /\ kind' = k /\ operands' = names /\ copied' = needCopy /\ ptrs' = <<>>
      /\ UNCHANGED <<capturing, temps, env, mem, misread, stream, raw>>
  BY DEF Call, device
<1>2. LaunchTypeOK /\ temps = {} /\ out = NoBlock
  BY <1>1 DEF LaunchInv, LaunchTypeOK
<1>3. /\ <<>> \in Seq(Blocks) /\ Len(<<>>) = 0 /\ DOMAIN <<>> = {}
  BY EmptySeq
<1>4. names \in Seq(DOMAIN env) /\ Len(names) = n
  <2>1. names \in Seq(DOMAIN env)
    BY SeqDef
  <2>2. QED
    BY <2>1, LenProperties
<1>5. /\ out' \in Blocks \cup {NoBlock} /\ (k = "scan" => out' \in Blocks)
      /\ \A x \in DOMAIN env : env[x] # out'
  <2>1. CASE k = "scan"
    BY <2>1 DEF Call, Free, Range
  <2>2. CASE k # "scan"
    BY <1>2, <2>2, LaunchesAssumption DEF Call, LaunchTypeOK
  <2>3. QED
    BY <2>1, <2>2
<1>6. call' \in 0 .. Len(Results) /\ call' > 0
  BY <1>1, <1>2, LaunchesAssumption, LenProperties DEF LaunchTypeOK
<1>7. LaunchTypeOK'
  BY <1>1, <1>2, <1>3, <1>5, <1>6 DEF LaunchTypeOK
<1>8. QueuedReads' /\ \A b, x : WillHold(b, x) <=> WillStill(b, x)
  BY <1>1 DEF LaunchInv, QueuedReads, WillHold, WillStill
<1>9. Environment'
  BY <1>1, <1>2, <1>5, <1>8 DEF LaunchInv, Environment, WillHold, WillStill
<1>10. k = "scan" => \A i, j \in needCopy : i = j
  <2>1. ASSUME k = "scan" PROVE Cardinality(needCopy) <= 1
    <3>1. Cardinality(needCopy) <= ScanCopies
      BY <2>1 DEF Call
    <3>2. IsFiniteSet(needCopy) /\ Cardinality(needCopy) \in Nat
      <4>1. IsFiniteSet(1 .. n)
        BY FS_Interval
      <4>2. QED
        BY <4>1, FS_Subset, FS_CardinalityType
    <3>3. QED
      BY <3>1, <3>2, LaunchesAssumption
  <2>2. QED
    BY <2>1, AtMostOne
<1>11. Pointers'
  BY <1>1, <1>2, <1>3, <1>4, <1>10 DEF Pointers
<1>12. Progress'
  <2>1. raw = <<>>
    BY <1>1 DEF LaunchInv, Progress
  <2>2. QED
    BY <1>1, <1>5, <1>6, <2>1 DEF Progress
<1>13. QED
  BY <1>1, <1>7, <1>8, <1>9, <1>11, <1>12 DEF LaunchInv, ReadsItsOperands

\* The operand Adapt is at.
LEMMA AdaptFacts ==
  ASSUME LaunchInv, pc = "adapt"
  PROVE  LET i == Len(ptrs) + 1
         IN /\ i \in 1 .. Len(operands) /\ DOMAIN ptrs = 1 .. Len(ptrs) /\ Len(ptrs) \in Nat
            /\ Len(operands) \in Nat
            /\ operands[i] \in DOMAIN env /\ operands[i] \in Names
            /\ env[operands[i]] \in Blocks
            /\ WillHold(env[operands[i]], operands[i])
<1>1. /\ ptrs \in Seq(Blocks) /\ operands \in Seq(DOMAIN env) /\ Len(ptrs) < Len(operands)
      /\ DOMAIN env \subseteq Names /\ env \in [DOMAIN env -> Blocks]
  BY DEF LaunchInv, LaunchTypeOK, Pointers
<1>2. Len(ptrs) \in Nat /\ Len(operands) \in Nat /\ DOMAIN ptrs = 1 .. Len(ptrs)
  BY <1>1, LenProperties
<1>3. Len(ptrs) + 1 \in 1 .. Len(operands)
  BY <1>1, <1>2
<1>4. operands[Len(ptrs) + 1] \in DOMAIN env
  BY <1>1, <1>3, ElementOfSeq
<1>5. QED
  BY <1>1, <1>2, <1>3, <1>4 DEF LaunchInv, Environment

\* What a pointer taken adds to the ones there.
LEMMA PointerTaken ==
  ASSUME LaunchInv, pc = "adapt", NEW b \in Blocks, ptrs' = Append(ptrs, b),
         pc' = IF Len(ptrs) + 1 = Len(operands) THEN "launch" ELSE "adapt",
         UNCHANGED <<operands, kind, copied, env, call, capturing, out, raw, misread>>,
         out \notin temps', temps' \subseteq Blocks, temps \subseteq temps',
         \A x \in DOMAIN env : env[x] \notin temps' /\ WillStill(env[x], x),
         \A i \in DOMAIN ptrs : WillStill(ptrs[i], operands[i]),
         WillStill(b, operands[Len(ptrs) + 1]),
         Len(ptrs) + 1 \notin copied => b = env[operands[Len(ptrs) + 1]],
         Len(ptrs) + 1 \in copied /\ kind # "scan" => b \in temps',
         stream' \in Seq(Operations), mem' = mem, QueuedReads'
  PROVE  LaunchInv'
<1>1. /\ Len(ptrs) + 1 \in 1 .. Len(operands) /\ DOMAIN ptrs = 1 .. Len(ptrs)
      /\ Len(ptrs) \in Nat /\ Len(operands) \in Nat /\ LaunchTypeOK /\ Pointers
  BY AdaptFacts DEF LaunchInv
<1>2. /\ ptrs' \in Seq(Blocks) /\ Len(ptrs') = Len(ptrs) + 1
      /\ DOMAIN ptrs' = 1 .. Len(ptrs) + 1
      /\ \A i \in 1 .. Len(ptrs) : ptrs'[i] = ptrs[i]
      /\ ptrs'[Len(ptrs) + 1] = b
  BY <1>1, AppendProperties, LenProperties DEF LaunchTypeOK
<1>3. pc' \in {"adapt", "launch"} /\ (pc' = "adapt") = (Len(ptrs') < Len(operands))
      /\ Len(ptrs') <= Len(operands)
  BY <1>1, <1>2
<1>4. LaunchTypeOK'
  BY <1>1, <1>2, <1>3 DEF LaunchTypeOK
<1>5. Environment'
  BY <1>3 DEF LaunchInv, Environment, WillHold, WillStill
<1>6. Pointers'
  <2>1. ASSUME NEW i \in 1 .. Len(ptrs) + 1
        PROVE  /\ WillStill(ptrs'[i], operands[i])
               /\ i \notin copied => ptrs'[i] = env[operands[i]]
               /\ i \in copied /\ kind # "scan" => ptrs'[i] \in temps'
    <3>1. CASE i \in 1 .. Len(ptrs)
      <4>1. i \in DOMAIN ptrs /\ ptrs'[i] = ptrs[i]
        BY <1>1, <1>2, <3>1
      <4>2. (i \notin copied => ptrs[i] = env[operands[i]])
            /\ (i \in copied /\ kind # "scan" => ptrs[i] \in temps)
        BY <1>1, <4>1 DEF Pointers
      <4>3. QED
        BY <4>1, <4>2
    <3>2. CASE i = Len(ptrs) + 1
      BY <1>2, <3>2
    <3>3. QED
      BY <1>1, <3>1, <3>2
  <2>2. QED
    BY <1>1, <1>2, <1>3, <2>1 DEF Pointers, WillHold, WillStill
<1>7. Progress'
  BY <1>3 DEF LaunchInv, Progress
<1>8. QED
  BY <1>4, <1>5, <1>6, <1>7 DEF LaunchInv, ReadsItsOperands

LEMMA AdaptInv == LaunchInv /\ Adapt => LaunchInv'
<1> SUFFICES ASSUME LaunchInv, Adapt PROVE LaunchInv'
  OBVIOUS
<1> DEFINE i == Len(ptrs) + 1
           own == env[operands[i]]
<1>1. /\ pc = "adapt" /\ pc' = IF i = Len(operands) THEN "launch" ELSE "adapt"
      /\ UNCHANGED <<capturing, call, kind, operands, copied, out, env, mem, misread, raw>>
  BY DEF Adapt, device
<1>2. /\ DOMAIN ptrs = 1 .. Len(ptrs) /\ operands[i] \in DOMAIN env /\ operands[i] \in Names
      /\ own \in Blocks /\ WillHold(own, operands[i])
  BY <1>1, AdaptFacts
<1>3. /\ LaunchTypeOK /\ QueuedReads /\ Environment /\ Pointers
      /\ out \notin temps
      /\ \A j \in DOMAIN ptrs : WillHold(ptrs[j], operands[j])
  BY <1>1 DEF LaunchInv, Pointers
<1>4. CASE i \in copied
  <2>1. PICK b \in Free : /\ stream' = Append(stream, Copy(own, b, operands[i]))
                          /\ ptrs' = Append(ptrs, b) /\ temps' = Holds(b)
    BY <1>4 DEF Adapt
  <2>2. b \in Blocks /\ b \notin temps /\ b # out /\ \A x \in DOMAIN env : env[x] # b
    BY DEF Free, Range
  <2>3. /\ QueuedReads' /\ stream' \in Seq(Operations)
        /\ WillStill(b, operands[i])
        /\ \A a, n : WillHold(a, n) /\ a # b => WillStill(a, n)
    <3>1. /\ Copy(own, b, operands[i]) \in Operations
          /\ Copy(own, b, operands[i]).writes = b /\ Copy(own, b, operands[i]).name = operands[i]
          /\ Copy(own, b, operands[i]).reads = << <<own, operands[i]>> >>
      BY <1>2, <2>2, CopyFacts
    <3>2. \A r \in DOMAIN << <<own, operands[i]>> >> :
            WillHold(<< <<own, operands[i]>> >>[r][1], << <<own, operands[i]>> >>[r][2])
      BY <1>2
    <3>3. QED
      BY <1>1, <1>3, <2>1, <3>1, <3>2, Queued DEF LaunchTypeOK
  <2>4. temps' \subseteq Blocks /\ temps \subseteq temps' /\ temps' \subseteq temps \cup {b}
        /\ (kind # "scan" => b \in temps')
    BY <1>3, <2>1, <2>2 DEF Holds, LaunchTypeOK
  <2>5. ASSUME NEW j \in DOMAIN ptrs PROVE ptrs[j] # b
    <3>1. CASE j \notin copied
      <4>1. ptrs[j] = env[operands[j]] /\ operands[j] \in DOMAIN env
        <5>1. j \in 1 .. Len(operands) /\ operands \in Seq(DOMAIN env)
          BY <1>1, <1>2, <1>3, AdaptFacts DEF Pointers
        <5>2. QED
          BY <1>1, <1>3, <3>1, <5>1, ElementOfSeq DEF Pointers
      <4>2. QED
        BY <2>2, <4>1
    <3>2. CASE j \in copied /\ kind # "scan"
      BY <1>1, <1>3, <2>2, <3>2 DEF Pointers
    <3>3. CASE j \in copied /\ kind = "scan"
      <4>1. j = i
        BY <1>1, <1>3, <1>4, <3>3 DEF Pointers
      <4>2. j < i
        BY <1>1, <1>2, AdaptFacts
      <4>3. QED
        BY <4>1, <4>2, <1>1, AdaptFacts
    <3>4. QED
      BY <3>1, <3>2, <3>3
  <2>6. \A j \in DOMAIN ptrs : WillStill(ptrs[j], operands[j])
    BY <1>1, <1>3, <2>3, <2>5
  <2>7. \A x \in DOMAIN env : env[x] \notin temps' /\ WillStill(env[x], x)
    BY <1>1, <1>3, <2>2, <2>3, <2>4 DEF Environment
  <2>8. QED
    BY <1>1, <1>3, <1>4, <2>1, <2>2, <2>3, <2>4, <2>6, <2>7, PointerTaken
<1>5. CASE i \notin copied
  <2>1. ptrs' = Append(ptrs, own) /\ UNCHANGED <<stream, temps>>
    BY <1>5 DEF Adapt
  <2>2. \A a, n : WillHold(a, n) <=> WillStill(a, n)
    BY <1>1, <2>1 DEF WillHold, WillStill
  <2>3. QueuedReads'
    BY <1>1, <1>3, <2>1 DEF QueuedReads
  <2>4. QED
    BY <1>1, <1>2, <1>3, <1>5, <2>1, <2>2, <2>3, PointerTaken DEF LaunchTypeOK, Environment
<1>6. QED
  BY <1>4, <1>5

\* Binding the result of a call: its block, that nobody has, will hold it.
LEMMA BindResult ==
  ASSUME LaunchInv, call > 0, NEW b \in Blocks, \A x \in DOMAIN env : env[x] # b,
         NEW op \in Operations, op.writes = b, op.name = Results[call],
         \A r \in DOMAIN op.reads : WillHold(op.reads[r][1], op.reads[r][2]),
         stream' = Append(stream, op), ReturnResult(b), raw' = raw, pc # "settle"
  PROVE  LaunchInv'
<1>1. /\ env' = [x \in DOMAIN env \cup {Results[call]} |-> IF x = Results[call] THEN b ELSE env[x]]
      /\ temps' = {} /\ out' = NoBlock /\ pc' = "idle"
      /\ UNCHANGED <<capturing, call, kind, operands, copied, ptrs, mem, misread, raw>>
  BY DEF ReturnResult, device
<1>2. LaunchTypeOK /\ QueuedReads /\ Environment /\ raw = <<>>
  BY DEF LaunchInv, Progress
<1>3. /\ QueuedReads' /\ stream' \in Seq(Operations) /\ WillStill(b, Results[call])
      /\ \A a, n : WillHold(a, n) /\ a # b => WillStill(a, n)
  BY <1>1, <1>2, Queued DEF LaunchTypeOK
<1>4. /\ DOMAIN env' = DOMAIN env \cup {Results[call]}
      /\ env'[Results[call]] = b /\ \A x \in DOMAIN env \ {Results[call]} : env'[x] = env[x]
  BY <1>1
<1>5. /\ env' \in [DOMAIN env' -> Blocks] /\ IsInjective(env') /\ DOMAIN env' \subseteq Names
  <2>1. env' \in [DOMAIN env' -> Blocks]
    BY <1>1, <1>2 DEF LaunchTypeOK
  <2>2. IsInjective(env')
    BY <1>2, <1>4 DEF LaunchTypeOK, IsInjective
  <2>3. QED
    BY <1>2, <1>4, <2>1, <2>2, ResultFacts DEF LaunchTypeOK
<1>6. LaunchTypeOK'
  BY <1>1, <1>2, <1>3, <1>5 DEF LaunchTypeOK
<1>7. Environment'
  <2>1. \A x \in DOMAIN env' : WillStill(env'[x], x) /\ env'[x] # NoBlock
    BY <1>2, <1>3, <1>4, LaunchesAssumption DEF Environment, LaunchTypeOK
  <2>2. QED
    BY <1>1, <1>2, <1>4, <2>1 DEF Environment, WillHold, WillStill
<1>8. Pointers' /\ Progress'
  BY <1>1, <1>2 DEF Pointers, Progress
<1>9. QED
  BY <1>1, <1>3, <1>6, <1>7, <1>8 DEF LaunchInv, ReadsItsOperands

LEMMA LaunchTileInv == LaunchInv /\ LaunchTile => LaunchInv'
<1> SUFFICES ASSUME LaunchInv, LaunchTile PROVE LaunchInv'
  OBVIOUS
<1>1. PICK b \in Free : stream' = Append(stream, KernelOp(ptrs, b)) /\ ReturnResult(b)
  BY DEF LaunchTile
<1>2. b \in Blocks /\ \A x \in DOMAIN env : env[x] # b
  BY DEF Free, Range
<1>3. pc = "launch" /\ call > 0 /\ raw' = raw
  BY DEF LaunchTile, LaunchInv, Progress
<1>4. QED
  BY <1>1, <1>2, <1>3, KernelFacts, BindResult DEF LaunchInv

LEMMA LaunchScanInv == LaunchInv /\ LaunchScan => LaunchInv'
<1> SUFFICES ASSUME LaunchInv, LaunchScan PROVE LaunchInv'
  OBVIOUS
<1>1. stream' = Append(stream, KernelOp(ptrs, out)) /\ ReturnResult(out)
  BY DEF LaunchScan
<1>2. pc = "launch" /\ call > 0 /\ raw' = raw /\ out \in Blocks
  BY DEF LaunchScan, LaunchInv, Progress
<1>3. \A x \in DOMAIN env : env[x] # out
  BY DEF LaunchInv, Environment
<1>4. QED
  BY <1>1, <1>2, <1>3, KernelFacts, BindResult DEF LaunchInv

LEMMA ReturnTriInv == LaunchInv /\ ReturnTri => LaunchInv'
<1> SUFFICES ASSUME LaunchInv, ReturnTri PROVE LaunchInv'
  OBVIOUS
<1>1. PICK b \in Free : stream' = Append(stream, Copy(out, b, Results[call])) /\ ReturnResult(b)
  BY DEF ReturnTri
<1>2. b \in Blocks /\ \A x \in DOMAIN env : env[x] # b
  BY DEF Free, Range
<1>3. /\ pc = "result" /\ call > 0 /\ raw' = raw /\ out \in Blocks
      /\ WillHold(out, Results[call]) /\ LaunchTypeOK
  BY DEF ReturnTri, LaunchInv, Progress
<1>4. Results[call] \in Names
  BY <1>3, ResultFacts
<1>5. /\ Copy(out, b, Results[call]) \in Operations
      /\ Copy(out, b, Results[call]).writes = b /\ Copy(out, b, Results[call]).name = Results[call]
      /\ Copy(out, b, Results[call]).reads = << <<out, Results[call]>> >>
  BY <1>2, <1>3, <1>4, CopyFacts
<1>6. \A r \in DOMAIN << <<out, Results[call]>> >> :
        WillHold(<< <<out, Results[call]>> >>[r][1], << <<out, Results[call]>> >>[r][2])
  BY <1>3
<1>7. QED
  BY <1>1, <1>2, <1>3, <1>5, <1>6, BindResult

LEMMA AllocTriInv == LaunchInv /\ AllocTri => LaunchInv'
<1> SUFFICES ASSUME LaunchInv, AllocTri PROVE LaunchInv'
  OBVIOUS
<1>1. PICK b \in Free : out' = b /\ stream' = Append(stream, Zeros(b))
  BY DEF AllocTri
<1>2. /\ pc = "launch" /\ kind = "tri" /\ pc' = IF capturing THEN "raw" ELSE "order"
      /\ UNCHANGED <<capturing, call, kind, operands, copied, ptrs, temps, env, mem, misread, raw>>
  BY DEF AllocTri, device
<1>3. b \in Blocks /\ b \notin temps /\ \A x \in DOMAIN env : env[x] # b
  BY DEF Free, Range
<1>4. /\ LaunchTypeOK /\ QueuedReads /\ Environment /\ Pointers /\ raw = <<>> /\ call > 0
  BY <1>2 DEF LaunchInv, Progress
<1>5. /\ QueuedReads' /\ stream' \in Seq(Operations)
      /\ \A a, n : WillHold(a, n) /\ a # b => WillStill(a, n)
  BY <1>1, <1>2, <1>3, <1>4, ZerosFacts, Queued DEF LaunchTypeOK
<1>6. LaunchTypeOK'
  BY <1>1, <1>2, <1>3, <1>4, <1>5 DEF LaunchTypeOK
<1>7. Environment'
  BY <1>1, <1>2, <1>3, <1>4, <1>5 DEF Environment, WillHold, WillStill
<1>8. ASSUME NEW i \in DOMAIN ptrs PROVE WillStill(ptrs[i], operands[i])
  <2>1. ptrs[i] # b
    <3>1. CASE i \in copied
      BY <1>2, <1>3, <1>4, <3>1 DEF Pointers
    <3>2. CASE i \notin copied
      <4>1. /\ operands \in Seq(DOMAIN env) /\ ptrs \in Seq(Blocks)
            /\ Len(ptrs) <= Len(operands) /\ ptrs[i] = env[operands[i]]
        BY <1>2, <1>4, <3>2 DEF Pointers, LaunchTypeOK
      <4>2. i \in 1 .. Len(ptrs) /\ Len(ptrs) \in Nat /\ Len(operands) \in Nat
        BY <4>1, LenProperties
      <4>3. i \in 1 .. Len(operands)
        BY <4>1, <4>2
      <4>4. operands[i] \in DOMAIN env
        BY <4>1, <4>3, ElementOfSeq
      <4>5. QED
        BY <1>3, <4>1, <4>4
    <3>3. QED
      BY <3>1, <3>2
  <2>2. QED
    BY <1>2, <1>4, <1>5, <2>1 DEF Pointers
<1>9. Pointers'
  <2>1. pc' \in {"order", "raw"} /\ pc' # "adapt" /\ out' \notin temps'
    BY <1>1, <1>2, <1>3
  <2>2. /\ operands \in Seq(DOMAIN env) /\ Len(ptrs) <= Len(operands)
        /\ (FALSE = (Len(ptrs) < Len(operands)))
        /\ \A i \in DOMAIN ptrs : /\ i \notin copied => ptrs[i] = env[operands[i]]
                                  /\ i \in copied /\ kind # "scan" => ptrs[i] \in temps
    BY <1>2, <1>4 DEF Pointers
  <2>3. QED
    BY <1>2, <1>8, <2>1, <2>2 DEF Pointers, WillHold, WillStill
<1>10. Progress'
  BY <1>1, <1>2, <1>3, <1>4 DEF Progress
<1>11. QED
  BY <1>2, <1>5, <1>6, <1>7, <1>9, <1>10 DEF LaunchInv, ReadsItsOperands

\* The host goes on and nothing else changes.
LEMMA OrderInv == LaunchInv /\ Order => LaunchInv'
<1> SUFFICES ASSUME LaunchInv, Order PROVE LaunchInv'
  OBVIOUS
<1>1. /\ pc = "order" /\ pc' = "raw" /\ stream = <<>> /\ raw = <<>>
      /\ UNCHANGED <<capturing, call, kind, operands, copied, ptrs, out, temps, env, mem, misread,
                     stream, raw>>
  BY DEF Order, Goto, Synchronized, device
<1>2. LaunchTypeOK'
  BY <1>1 DEF LaunchInv, LaunchTypeOK
<1>3. QueuedReads' /\ \A b, n : WillHold(b, n) <=> WillStill(b, n)
  BY <1>1 DEF LaunchInv, QueuedReads, WillHold, WillStill
<1>4. Environment'
  BY <1>1, <1>3 DEF LaunchInv, Environment, WillHold, WillStill
<1>5. Pointers'
  <2>1. /\ operands \in Seq(DOMAIN env) /\ Len(ptrs) <= Len(operands)
        /\ FALSE = (Len(ptrs) < Len(operands)) /\ out \notin temps
        /\ kind = "scan" => \A i, j \in copied : i = j
    BY <1>1 DEF LaunchInv, Pointers
  <2>2. \A i \in DOMAIN ptrs : /\ WillStill(ptrs[i], operands[i])
                               /\ i \notin copied => ptrs[i] = env[operands[i]]
                               /\ i \in copied /\ kind # "scan" => ptrs[i] \in temps
    BY <1>1, <1>3 DEF LaunchInv, Pointers
  <2>3. QED
    BY <1>1, <2>1, <2>2 DEF Pointers, WillHold, WillStill
<1>6. Progress'
  BY <1>1 DEF LaunchInv, Progress
<1>7. QED
  BY <1>1, <1>2, <1>3, <1>4, <1>5, <1>6 DEF LaunchInv, ReadsItsOperands

LEMMA SettleInv == LaunchInv /\ Settle => LaunchInv'
<1> SUFFICES ASSUME LaunchInv, Settle PROVE LaunchInv'
  OBVIOUS
<1>1. /\ pc = "settle" /\ pc' = "result" /\ stream = <<>> /\ raw = <<>>
      /\ UNCHANGED <<capturing, call, kind, operands, copied, ptrs, out, temps, env, mem, misread,
                     stream, raw>>
  BY DEF Settle, Goto, Synchronized, device
<1>2. LaunchTypeOK'
  BY <1>1 DEF LaunchInv, LaunchTypeOK
<1>3. QueuedReads' /\ \A b, n : WillHold(b, n) <=> WillStill(b, n)
  BY <1>1 DEF LaunchInv, QueuedReads, WillHold, WillStill
<1>4. Environment'
  BY <1>1, <1>3 DEF LaunchInv, Environment, WillHold, WillStill
<1>5. Pointers'
  BY <1>1 DEF Pointers
<1>6. WillStill(out, Results[call])
  <2>1. mem[out] = Results[call]
    BY <1>1 DEF LaunchInv, Progress
  <2>2. QED
    BY <1>1, <1>3, <2>1, NothingQueued
<1>7. Progress'
  BY <1>1, <1>6 DEF LaunchInv, Progress, WillHold, WillStill
<1>8. QED
  BY <1>1, <1>2, <1>3, <1>4, <1>5, <1>7 DEF LaunchInv, ReadsItsOperands

\* Under capture the kernel is queued behind what it reads; outside it is alone.
LEMMA RawLaunchInv == LaunchInv /\ RawLaunch => LaunchInv'
<1> SUFFICES ASSUME LaunchInv, RawLaunch PROVE LaunchInv'
  OBVIOUS
<1> DEFINE op == KernelOp(ptrs, out)
<1>1. /\ pc = "raw"
      /\ UNCHANGED <<capturing, call, kind, operands, copied, ptrs, out, temps, env, mem, misread>>
  BY DEF RawLaunch, Goto, device
<1>2. /\ LaunchTypeOK /\ QueuedReads /\ Environment /\ Pointers /\ Progress
      /\ raw = <<>> /\ call > 0 /\ out \in Blocks
  BY <1>1 DEF LaunchInv, Progress
<1>3. /\ op \in Operations /\ op.writes = out /\ op.name = Results[call]
      /\ \A r \in DOMAIN op.reads : WillHold(op.reads[r][1], op.reads[r][2])
  BY <1>1, <1>2, KernelFacts
<1> HIDE DEF op
<1>4. CASE capturing
  <2>1. stream' = Append(stream, op) /\ raw' = raw /\ pc' = "result"
    BY <1>4 DEF RawLaunch, Goto, op
  <2>2. /\ QueuedReads' /\ stream' \in Seq(Operations) /\ WillStill(out, Results[call])
        /\ \A b, n : WillHold(b, n) /\ b # out => WillStill(b, n)
    BY <1>1, <1>2, <1>3, <2>1, Queued DEF LaunchTypeOK
  <2>3. LaunchTypeOK'
    BY <1>1, <1>2, <2>1, <2>2 DEF LaunchTypeOK
  <2>4. Environment'
    BY <1>1, <1>2, <2>1, <2>2 DEF Environment, WillHold, WillStill
  <2>5. Pointers'
    BY <2>1 DEF Pointers
  <2>6. Progress'
    BY <1>1, <1>2, <2>1, <2>2 DEF Progress, WillHold, WillStill
  <2>7. QED
    BY <1>1, <2>2, <2>3, <2>4, <2>5, <2>6 DEF LaunchInv, ReadsItsOperands
<1>5. CASE ~capturing
  <2>1. raw' = Append(raw, op) /\ stream' = stream /\ pc' = "settle"
    BY <1>5 DEF RawLaunch, Goto, op
  <2>2. stream = <<>>
    BY <1>1, <1>2, <1>5 DEF Progress
  <2>3. raw' \in Seq(Operations) /\ raw' # <<>> /\ Len(raw') = 1 /\ raw'[1] = op
    BY <1>2, <1>3, <2>1
  <2>4. QueuedReads' /\ \A b, n : WillHold(b, n) <=> WillStill(b, n)
    BY <1>1, <1>2, <2>1 DEF QueuedReads, WillHold, WillStill
  <2>5. LaunchTypeOK'
    BY <1>1, <1>2, <2>1, <2>3 DEF LaunchTypeOK
  <2>6. Environment'
    BY <1>1, <1>2, <2>1, <2>4 DEF Environment, WillHold, WillStill
  <2>7. Pointers'
    BY <2>1 DEF Pointers
  <2>8. \A r \in DOMAIN op.reads : mem[op.reads[r][1]] = op.reads[r][2]
    BY <1>3, <2>2, NothingQueued
  <2>9. Progress'
    BY <1>1, <1>2, <1>3, <2>1, <2>2, <2>3, <2>8 DEF Progress
  <2>10. QED
    BY <1>1, <2>4, <2>5, <2>6, <2>7, <2>9 DEF LaunchInv, ReadsItsOperands
<1>6. QED
  BY <1>4, <1>5

\* A run ends: the environment shrinks.
LEMMA EndRunInv == LaunchInv /\ EndRun => LaunchInv'
<1> SUFFICES ASSUME LaunchInv, EndRun PROVE LaunchInv'
  OBVIOUS
<1>1. /\ pc = "idle" /\ call > 0
      /\ env' = [x \in RunInputs \cup {Results[call]} |-> env[x]]
      /\ UNCHANGED <<capturing, pc, call, kind, operands, copied, ptrs, out, temps, mem, misread,
                     stream, raw>>
  BY DEF EndRun, host, device
<1>2. LaunchTypeOK /\ QueuedReads /\ Environment /\ Progress
  BY DEF LaunchInv
<1>3. /\ DOMAIN env' = RunInputs \cup {Results[call]} /\ DOMAIN env' \subseteq DOMAIN env
      /\ \A x \in DOMAIN env' : env'[x] = env[x]
  BY <1>1, <1>2 DEF Environment
<1>4. env' \in [DOMAIN env' -> Blocks] /\ IsInjective(env')
  <2>1. env' \in [DOMAIN env' -> Blocks]
    BY <1>1, <1>2, <1>3 DEF LaunchTypeOK
  <2>2. QED
    BY <1>2, <1>3, <2>1 DEF LaunchTypeOK, IsInjective
<1>5. LaunchTypeOK'
  BY <1>1, <1>2, <1>3, <1>4 DEF LaunchTypeOK
<1>6. QueuedReads' /\ \A b, n : WillHold(b, n) <=> WillStill(b, n)
  BY <1>1, <1>2 DEF QueuedReads, WillHold, WillStill
<1>7. Environment'
  <2>1. \A x \in DOMAIN env' : WillStill(env'[x], x) /\ env'[x] # out /\ env'[x] \notin temps
    BY <1>2, <1>3, <1>6 DEF Environment
  <2>2. QED
    BY <1>1, <1>2, <1>3, <2>1 DEF Environment, WillHold, WillStill
<1>8. Pointers'
  BY <1>1 DEF Pointers
<1>9. Progress'
  BY <1>1, <1>2 DEF Progress
<1>10. QED
  BY <1>1, <1>5, <1>6, <1>7, <1>8, <1>9 DEF LaunchInv, ReadsItsOperands
-----------------------------------------------------------------------------
(* Launches: the device.                                                   *)

LEMMA ExecuteStreamInv == LaunchInv /\ ExecuteStream => LaunchInv'
<1> SUFFICES ASSUME LaunchInv, ExecuteStream PROVE LaunchInv'
  OBVIOUS
<1>1. /\ stream # <<>>
      /\ UNCHANGED <<capturing, pc, call, kind, operands, copied, ptrs, out, temps, env, raw>>
  BY DEF ExecuteStream, Perform, host
<1>2. LaunchTypeOK /\ QueuedReads /\ Environment /\ Pointers /\ Progress /\ ~misread
  BY DEF LaunchInv, ReadsItsOperands
<1>3. /\ QueuedReads' /\ stream' \in Seq(Operations) /\ misread' = misread
      /\ mem' \in [Blocks -> Names \cup {"zeros", "garbage"}]
      /\ \A b \in Blocks : \A n : WillHold(b, n) => WillStill(b, n)
  BY <1>2, StreamStep
<1>4. LaunchTypeOK'
  BY <1>1, <1>2, <1>3 DEF LaunchTypeOK
<1>5. Environment'
  <2>1. \A x \in DOMAIN env : WillStill(env[x], x)
    BY <1>2, <1>3 DEF Environment, LaunchTypeOK
  <2>2. QED
    BY <1>1, <1>2, <2>1 DEF Environment, WillHold, WillStill
<1>6. Pointers'
  <2>1. CASE pc \in {"adapt", "launch", "order", "raw"}
    <3>1. \A i \in DOMAIN ptrs : ptrs[i] \in Blocks
      BY <1>2 DEF LaunchTypeOK
    <3>2. \A i \in DOMAIN ptrs : /\ WillStill(ptrs[i], operands[i])
                                 /\ i \notin copied => ptrs[i] = env[operands[i]]
                                 /\ i \in copied /\ kind # "scan" => ptrs[i] \in temps
      BY <1>2, <1>3, <2>1, <3>1 DEF Pointers
    <3>3. /\ operands \in Seq(DOMAIN env) /\ Len(ptrs) <= Len(operands)
          /\ (pc = "adapt") = (Len(ptrs) < Len(operands)) /\ out \notin temps
          /\ kind = "scan" => \A i, j \in copied : i = j
      BY <1>2, <2>1 DEF Pointers
    <3>4. QED
      BY <1>1, <3>2, <3>3 DEF Pointers, WillHold, WillStill
  <2>2. CASE pc \notin {"adapt", "launch", "order", "raw"}
    BY <1>1, <2>2 DEF Pointers
  <2>3. QED
    BY <2>1, <2>2
<1>7. Progress'
  <2>1. ~(pc = "settle" \/ (pc = "raw" /\ ~capturing)) /\ raw = <<>>
    BY <1>1, <1>2 DEF Progress
  <2>2. pc = "result" => WillStill(out, Results[call])
    BY <1>2, <1>3 DEF Progress
  <2>3. QED
    BY <1>1, <1>2, <2>1, <2>2 DEF Progress, WillHold, WillStill
<1>8. QED
  BY <1>2, <1>3, <1>4, <1>5, <1>6, <1>7 DEF LaunchInv, ReadsItsOperands

LEMMA ExecuteRawInv == LaunchInv /\ ExecuteRaw => LaunchInv'
<1> SUFFICES ASSUME LaunchInv, ExecuteRaw PROVE LaunchInv'
  OBVIOUS
<1> DEFINE op == Head(raw)
<1>1. /\ raw # <<>> /\ raw' = Tail(raw) /\ Perform(op) /\ stream' = stream
      /\ UNCHANGED <<capturing, pc, call, kind, operands, copied, ptrs, out, temps, env>>
  BY DEF ExecuteRaw, Perform, host
<1>2. LaunchTypeOK /\ QueuedReads /\ Environment /\ Progress /\ ~misread
  BY DEF LaunchInv, ReadsItsOperands
<1>3. /\ pc = "settle" /\ stream = <<>> /\ call > 0 /\ out \in Blocks
      /\ raw \in Seq(Operations) /\ Len(raw) = 1
      /\ mem \in [Blocks -> Names \cup {"zeros", "garbage"}]
      /\ raw[1].writes = out /\ raw[1].name = Results[call]
      /\ \A r \in DOMAIN raw[1].reads : mem[raw[1].reads[r][1]] = raw[1].reads[r][2]
  BY <1>1, <1>2 DEF Progress, LaunchTypeOK
<1>4. raw' = <<>> /\ op = raw[1]
  <2>1. op = raw[1] /\ raw' \in Seq(Operations) /\ Len(raw') = 0
    BY <1>1, <1>3, HeadTailProperties
  <2>2. QED
    BY <2>1, EmptySeq
<1>5. mem' = [mem EXCEPT ![out] = Results[call]] /\ misread' = misread
  BY <1>1, <1>2, <1>3, <1>4 DEF Perform, LaunchTypeOK
<1>6. /\ mem' \in [Blocks -> Names \cup {"zeros", "garbage"}] /\ mem'[out] = Results[call]
      /\ \A b \in Blocks : b # out => mem'[b] = mem[b]
  BY <1>2, <1>3, <1>5, ResultFacts
<1>7. LaunchTypeOK'
  <2>1. <<>> \in Seq(Operations)
    BY EmptySeq
  <2>2. QED
    BY <1>1, <1>2, <1>3, <1>4, <1>5, <1>6, <2>1 DEF LaunchTypeOK
<1>8. QueuedReads'
  BY <1>1, <1>3, EmptySeq DEF QueuedReads
<1>9. Environment'
  <2>1. ASSUME NEW x \in DOMAIN env PROVE WillStill(env[x], x)
    <3>1. env[x] \in Blocks /\ env[x] # out /\ WillHold(env[x], x)
      BY <1>2 DEF Environment, LaunchTypeOK
    <3>2. mem'[env[x]] = x
      BY <1>3, <1>6, <3>1, NothingQueued
    <3>3. QED
      BY <1>1, <1>3, <3>2, EmptySeq DEF WillStill, HoldsAt
  <2>2. QED
    BY <1>1, <1>2, <2>1 DEF Environment, WillHold, WillStill
<1>10. Pointers'
  BY <1>1, <1>3 DEF Pointers
<1>11. Progress'
  BY <1>1, <1>3, <1>4, <1>6 DEF Progress
<1>12. QED
  BY <1>2, <1>5, <1>7, <1>8, <1>9, <1>10, <1>11 DEF LaunchInv, ReadsItsOperands
-----------------------------------------------------------------------------
(* Launches: every step.                                                   *)

LEMMA LaunchStep ==
  ASSUME ScanCopies <= 1, LaunchInv, [LaunchNext]_launchVars
  PROVE  LaunchInv'
<1>1. ASSUME NEW n \in Arities, NEW k \in {"tile", "scan"}, NEW names \in [1 .. n -> DOMAIN env],
             NEW needCopy \in SUBSET (1 .. n), Call(k, names, needCopy)
      PROVE  LaunchInv'
  <2>1. n \in Nat \ {0}
    BY LaunchesAssumption
  <2>2. QED
    BY <1>1, <2>1, CallInv
<1>2. ASSUME NEW x \in DOMAIN env, Call("tri", <<x>>, {1}) PROVE LaunchInv'
  <2>1. ASSUME NEW names \in [1 .. 1 -> DOMAIN env], NEW needCopy \in SUBSET (1 .. 1),
               Call("tri", names, needCopy)
        PROVE  LaunchInv'
    <3>1. 1 \in Nat \ {0}
      OBVIOUS
    <3>2. QED
      BY <2>1, <3>1, CallInv
  <2>2. <<x>> \in [1 .. 1 -> DOMAIN env] /\ {1} \in SUBSET (1 .. 1)
    OBVIOUS
  <2>3. QED
    BY <1>2, <2>1, <2>2
<1>3. CASE UNCHANGED launchVars
  <2>1. UNCHANGED <<capturing, pc, call, kind, operands, copied, ptrs, out, temps, env, mem,
                    misread, stream, raw>>
    BY <1>3 DEF launchVars, host, device
  <2>2. LaunchTypeOK'
    BY <2>1 DEF LaunchInv, LaunchTypeOK
  <2>3. QueuedReads' /\ Environment'
    BY <2>1 DEF LaunchInv, QueuedReads, Environment, WillHold
  <2>4. Pointers'
    BY <2>1 DEF LaunchInv, Pointers, WillHold
  <2>5. Progress'
    BY <2>1 DEF LaunchInv, Progress, WillHold
  <2>6. QED
    BY <2>1, <2>2, <2>3, <2>4, <2>5 DEF LaunchInv, ReadsItsOperands
<1>4. QED
  BY <1>1, <1>2, <1>3, AdaptInv, LaunchTileInv, LaunchScanInv, AllocTriInv, OrderInv,
     RawLaunchInv, SettleInv, ReturnTriInv, EndRunInv, ExecuteStreamInv, ExecuteRawInv
     DEF LaunchNext, Finished

\* If a scan needs at most one adapted copy, every block the device will read
\* or the host still holds will have in it what the host put there.
THEOREM LaunchInvariance ==
  ASSUME ScanCopies <= 1 PROVE LaunchSpec => []LaunchInv
<1>1. LaunchInit => LaunchInv
  BY LaunchInitInv
<1>2. LaunchInv /\ [LaunchNext]_launchVars => LaunchInv'
  BY LaunchStep
<1>3. QED
  BY <1>1, <1>2, PTL DEF LaunchSpec

\* The state of a launch function is always well formed.
THEOREM LaunchTypes ==
  ASSUME ScanCopies <= 1 PROVE LaunchSpec => []LaunchTypeOK
<1>1. LaunchInv => LaunchTypeOK
  BY DEF LaunchInv
<1>2. QED
  BY <1>1, LaunchInvariance, PTL

\* Every operation finds its own operands when the device gets to it.
THEOREM OperandsFound ==
  ASSUME ScanCopies <= 1 PROVE LaunchSpec => []ReadsItsOperands
<1>1. LaunchInv => ReadsItsOperands
  BY DEF LaunchInv
<1>2. QED
  BY <1>1, LaunchInvariance, PTL

\* Once the device has caught up every tensor the host holds is its own.
THEOREM ResultsStand ==
  ASSUME ScanCopies <= 1 PROVE LaunchSpec => []ResultsExact
<1>1. LaunchInv => ResultsExact
  BY NothingQueued DEF LaunchInv, Environment, ResultsExact, Synchronized
<1>2. QED
  BY <1>1, LaunchInvariance, PTL
===============================================================================
