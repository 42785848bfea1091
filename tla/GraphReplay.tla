----------------------------- MODULE GraphReplay -----------------------------
(***************************************************************************)
(* One GraphReplayExecutor (graph.py) with its CaptureExecutor: capture    *)
(* runs the program eagerly a few times, then once more while an NPUGraph  *)
(* records it; replay copies new operands into the static input buffers    *)
(* and replays the graph.                                                  *)
(*                                                                         *)
(* A capture is modelled node by node, because every node may raise and    *)
(* because host work (building a runner, synchronizing the stream) is      *)
(* required of an eager node and forbidden to a recorded one.  What is     *)
(* built once and kept: the einsum runners of the executor and, process-   *)
(* wide, the tril masks, the fused kernels with their workspaces and the   *)
(* callables of the opaque kernels.  The buffers of a capture belong to    *)
(* it: a graph reads the ones it was recorded over, whatever the           *)
(* executor's static buffers are by now.                                   *)
(***************************************************************************)
EXTENDS Naturals, Sequences

CONSTANTS
  Programs,       \* the programs captured
  NodesOf,        \* NodesOf[p]: its nodes, a sequence of [kind, op, mode]
  Ins,            \* a program's inputs, in the order of the dict
  OperandsOf,     \* OperandsOf[n]: the operands input n is given, [shape, val]
  Warmup,         \* capture's argument
  Reliable        \* TRUE: a capture fails only when there is no graph yet

Inputs   == {Ins[i] : i \in DOMAIN Ins}
Operands == UNION {OperandsOf[n] : n \in Inputs}
Shapes   == {x.shape : x \in Operands}
Buffers  == {b \in [Inputs -> Operands] : \A n \in Inputs : b[n] \in OperandsOf[n]}
Kinds    == {"einsum", "tril", "fused", "opaque"}
NodesIn(p) == {NodesOf[p][i] : i \in DOMAIN NodesOf[p]}
Nodes    == UNION {NodesIn(p) : p \in Programs}
NoBufs   == <<>>           \* an empty dict
NoGraph  == [program |-> "none"]

ASSUME GraphAssumption ==
  /\ "none" \notin Programs
  /\ \A p \in Programs : NodesOf[p] \in Seq(Nodes) /\ NodesOf[p] # <<>>
  /\ \A n \in Nodes : n.kind \in Kinds
  /\ Warmup \in Nat /\ Reliable \in BOOLEAN

VARIABLES
  staticIn,     \* _static_in: contents of the executor's input buffers
  graph,        \* _graph, program and _out: NoGraph or [program, shapes]
  graphIn,      \* contents of the buffers the graph reads ...
  linked,       \* ... which are the executor's own: no capture failed since
  runners,      \* what is built, by key: einsum runners, masks, fused and opaque kernels
  captureMode,  \* registry._CAPTURE_MODE
  phase,        \* "idle", "warmup", "record": where capture is
  target,       \* the program being captured
  todo, rounds, \* nodes left in this pass, eager passes left after it
  launch,       \* the last node executed and the host work it did
  answer        \* what the last replay was asked and what it returned

execVars == <<runners, captureMode, launch>>
vars == <<staticIn, graph, graphIn, linked, execVars, phase, target, todo,
          rounds, answer>>

ShapesOf(b) == [n \in Inputs |-> b[n].shape]
NoAnswer    == [asked |-> NoBufs, saw |-> NoBufs]
NoLaunch    == [kind |-> "none", recorded |-> FALSE, hostWork |-> FALSE]

\* What a node needs built, and the key it is kept under: the runner of an
\* einsum (equation, operand shapes, mode) and the mask of a tril (diagonal,
\* shape) depend on the operands; a fused kernel (registry key, params) and an
\* opaque one do not.
Key(node, b) ==
  [op |-> node.op, mode |-> node.mode,
   shapes |-> IF node.kind \in {"einsum", "tril"} THEN ShapesOf(b) ELSE NoBufs]

Keys == {Key(n, b) : n \in Nodes, b \in Buffers}

TypeOK ==
  /\ staticIn \in Buffers \union {NoBufs} /\ graphIn \in Buffers \union {NoBufs}
  /\ (graph = NoGraph \/ graph \in [program : Programs, shapes : [Inputs -> Shapes]])
  /\ linked \in BOOLEAN /\ captureMode \in BOOLEAN
  /\ runners \subseteq Keys
  /\ phase \in {"idle", "warmup", "record"}
  /\ target \in Programs \union {"none"}
  /\ todo \in Seq(Nodes)
  /\ rounds \in 0 .. Warmup
  /\ launch \in [kind : Kinds \union {"none"}, recorded : BOOLEAN, hostWork : BOOLEAN]

Init ==
  /\ staticIn = NoBufs /\ graph = NoGraph /\ graphIn = NoBufs /\ linked = TRUE
  /\ runners = {} /\ captureMode = FALSE /\ launch = NoLaunch
  /\ phase = "idle" /\ target = "none" /\ todo = <<>> /\ rounds = 0
  /\ answer = NoAnswer
-----------------------------------------------------------------------------
(* capture                                                                 *)

\* "for _ in range(max(1, warmup))": eager passes after the first.  The slip
\* runs two more.
EagerPassesExtra == Warmup + 1

EagerPasses == IF Warmup = 0 THEN 0 ELSE Warmup - 1

\* Slip: the capture starts recording at once.
BeginCaptureCold ==
  /\ phase = "idle" /\ phase' = "record" /\ captureMode' = TRUE
  /\ target' \in Programs
  /\ staticIn' \in Buffers /\ linked' = FALSE
  /\ todo' = NodesOf[target'] /\ rounds' = 0
  /\ answer' = NoAnswer
  /\ UNCHANGED <<graph, graphIn, runners, launch>>

\* The static buffers are replaced before anything can fail.
BeginCapture ==
  /\ phase = "idle" /\ phase' = "warmup"
  /\ target' \in Programs
  /\ staticIn' \in Buffers /\ linked' = FALSE
  /\ todo' = NodesOf[target'] /\ rounds' = EagerPasses
  /\ answer' = NoAnswer
  /\ UNCHANGED <<graph, graphIn, execVars>>

Built(node) == {Key(node, staticIn)}

\* One node of a pass.  What it needs is built unless it is there; an opaque
\* kernel also synchronizes the stream unless in capture mode.
Execute ==
  /\ phase # "idle" /\ todo # <<>>
  /\ LET node  == Head(todo)
         build == ~(Built(node) \subseteq runners)
         sync  == node.kind = "opaque" /\ ~captureMode
     IN /\ runners' = runners \union Built(node)
        /\ launch' = [kind |-> node.kind, recorded |-> phase = "record",
                      hostWork |-> build \/ sync]
  /\ todo' = Tail(todo)
  /\ UNCHANGED <<staticIn, graph, graphIn, linked, captureMode, phase, target,
                 rounds, answer>>

NextPass ==
  /\ phase = "warmup" /\ todo = <<>> /\ rounds > 0
  /\ todo' = NodesOf[target] /\ rounds' = rounds - 1
  /\ UNCHANGED <<staticIn, graph, graphIn, linked, execVars, phase, target, answer>>

BeginRecording ==
  /\ phase = "warmup" /\ todo = <<>> /\ rounds = 0
  /\ phase' = "record" /\ captureMode' = TRUE /\ todo' = NodesOf[target]
  /\ UNCHANGED <<staticIn, graph, graphIn, linked, runners, launch, target,
                 rounds, answer>>

EndCapture ==
  /\ phase = "record" /\ todo = <<>>
  /\ phase' = "idle" /\ captureMode' = FALSE /\ target' = "none"
  /\ graph' = [program |-> target, shapes |-> ShapesOf(staticIn)]
  /\ graphIn' = staticIn /\ linked' = TRUE
  /\ UNCHANGED <<staticIn, runners, launch, todo, rounds, answer>>

\* Slip: capture mode is left only on the way out without an exception.
CaptureRaisesNoFinally ==
  /\ phase # "idle" /\ todo # <<>>
  /\ Reliable => graph = NoGraph
  /\ phase' = "idle" /\ target' = "none" /\ todo' = <<>> /\ rounds' = 0
  /\ UNCHANGED <<staticIn, graph, graphIn, linked, execVars, answer>>

\* A node raises (operands that do not fit, a failed build, no memory): the
\* context managers clean up, the attributes keep what they had.  Its runner
\* may have been built before.
CaptureRaises ==
  /\ phase # "idle" /\ todo # <<>>
  /\ Reliable => graph = NoGraph
  /\ phase' = "idle" /\ captureMode' = FALSE
  /\ target' = "none" /\ todo' = <<>> /\ rounds' = 0
  /\ runners' \in {runners, runners \union Built(Head(todo))}
  /\ UNCHANGED <<staticIn, graph, graphIn, linked, launch, answer>>
-----------------------------------------------------------------------------
(* replay                                                                  *)

\* The buffers after the copy loop has done the inputs before position k.
CopiedBefore(k, b) ==
  [n \in Inputs |-> IF \E i \in DOMAIN Ins : i < k /\ Ins[i] = n THEN b[n] ELSE staticIn[n]]

Fits(b) == ShapesOf(b) = ShapesOf(staticIn)

\* Slips of Replay: the copy is not checked; the static buffers are replaced
\* by the operands instead of receiving them.
ReplayUnchecked(b) ==
  /\ phase = "idle" /\ graph # NoGraph
  /\ staticIn' = [n \in Inputs |-> [staticIn[n] EXCEPT !.val = b[n].val]]
  /\ graphIn' = IF linked THEN staticIn' ELSE graphIn
  /\ answer' = [asked |-> b, saw |-> graphIn']
  /\ UNCHANGED <<graph, linked, execVars, phase, target, todo, rounds>>

ReplayRebinds(b) ==
  /\ phase = "idle" /\ graph # NoGraph /\ Fits(b)
  /\ staticIn' = b /\ linked' = FALSE
  /\ answer' = [asked |-> b, saw |-> graphIn]
  /\ UNCHANGED <<graph, graphIn, execVars, phase, target, todo, rounds>>

Replay(b) ==
  /\ phase = "idle" /\ graph # NoGraph /\ Fits(b)
  /\ staticIn' = b
  /\ graphIn' = IF linked THEN b ELSE graphIn
  /\ answer' = [asked |-> b, saw |-> graphIn']
  /\ UNCHANGED <<graph, linked, execVars, phase, target, todo, rounds>>

\* An operand of another shape: the ones before it are already copied.
ReplayRaises(b) ==
  /\ phase = "idle" /\ graph # NoGraph
  /\ \E k \in DOMAIN Ins :
       /\ b[Ins[k]].shape # staticIn[Ins[k]].shape
       /\ \A i \in DOMAIN Ins : i < k => b[Ins[i]].shape = staticIn[Ins[i]].shape
       /\ staticIn' = CopiedBefore(k, b)
  /\ graphIn' = IF linked THEN staticIn' ELSE graphIn
  /\ answer' = NoAnswer
  /\ UNCHANGED <<graph, linked, execVars, phase, target, todo, rounds>>
-----------------------------------------------------------------------------
\* FusedKernelRegistry.close: the kernels and their workspaces are gone, and
\* are built again when they are asked for.  A graph that launches them would
\* be left with freed workspaces; nothing in the repository closes the
\* registry under a graph.
CloseRegistry ==
  /\ phase = "idle" /\ graph = NoGraph
  /\ runners' = runners \ {Key(n, staticIn) : n \in {x \in Nodes : x.kind = "fused"}}
  /\ UNCHANGED <<staticIn, graph, graphIn, linked, captureMode, launch, phase,
                 target, todo, rounds, answer>>
-----------------------------------------------------------------------------
Capturing == Execute \/ NextPass \/ BeginRecording \/ EndCapture \/ CaptureRaises

Next ==
  \/ BeginCapture \/ Capturing \/ CloseRegistry
  \/ \E b \in Buffers : Replay(b) \/ ReplayRaises(b)

Spec == Init /\ [][Next]_vars
-----------------------------------------------------------------------------
(* Properties.                                                             *)

\* A replay that returns has run the graph on exactly the operands passed to
\* it, after any number of replays that raised halfway through the copies.
ReplayIsFresh == answer.saw = answer.asked

\* "Static shape enforced, not silently wrong" (DESIGN.md 4): a replay returns
\* for operands of the captured shapes only.
StaticShapes ==
  answer # NoAnswer => ShapesOf(answer.asked) = graph.shapes

\* No recorded node works on the host, because the warmup has run the same
\* nodes on the same buffers; and no opaque kernel is launched eagerly without
\* the synchronization that orders it, because capture mode never outlives a
\* capture, whichever way it ends.
HostWork ==
  /\ launch.recorded => ~launch.hostWork
  /\ launch.kind = "opaque" /\ ~launch.recorded => launch.hostWork

\* A runner or a mask that is reused was built for these operand shapes and
\* this mode: what a recorded node uses is there under its own full key.
RecordedRunnersFit ==
  phase = "record" => \A i \in DOMAIN NodesOf[target] :
    LET node == NodesOf[target][i] IN
    node.kind \in {"einsum", "tril"} =>
      [op |-> node.op, mode |-> node.mode, shapes |-> ShapesOf(staticIn)] \in runners

\* What makes the four hold.  A capture owns the executor: it runs nodes of its
\* own program over static buffers nobody replaces, records exactly in capture
\* mode, and no answer is out.
CaptureScope ==
  /\ captureMode = (phase = "record")
  /\ phase # "idle" => /\ target \in Programs /\ answer = NoAnswer
                       /\ todo \in Seq(NodesIn(target))
  /\ (phase # "idle" \/ graph # NoGraph) => staticIn \in Buffers

\* After the first eager pass everything the program needs on these buffers is
\* built; before, what is not built is still to be executed.
WarmupBuilds ==
  /\ phase = "warmup" => \A n \in NodesIn(target) :
       Built(n) \subseteq runners \/ \E i \in DOMAIN todo : todo[i] = n
  /\ phase = "record" => \A n \in NodesIn(target) : Built(n) \subseteq runners

\* Between captures the buffers a graph reads are the executor's own, unless a
\* recapture failed.
GraphIsCurrent ==
  phase = "idle" /\ graph # NoGraph => linked /\ ShapesOf(staticIn) = graph.shapes

GraphInv ==
  /\ TypeOK /\ CaptureScope /\ WarmupBuilds /\ HostWork
  /\ Reliable => GraphIsCurrent /\ ReplayIsFresh /\ StaticShapes
=============================================================================
