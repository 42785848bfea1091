# Verification of pto-fuser

TLA+ models of pto-fuser (`src/`), TLC configurations that check them on small
instances, and TLAPS proofs. Paths below are relative to `src/src/pto_fuser/`
unless they start with `docs/`.

## 1. Inventory

pto-fuser lowers chunked linear-attention programs to an NPU. It has two halves:
a Python compiler that rewrites, verifies, captures and replays programs, and
hand-written kernels in which one Cube and two Vec subblocks of an AICore
cooperate through cross-core flags (FFTS).

| Component | State it keeps | Operations | Talks to |
|---|---|---|---|
| flash V2 (`kernels/qkv_fused.h`) | two 2-slot rings (S, A), flags 7-10, `o` | produce S, mask S to A, consume A | Cube and Vecs, by flags |
| per-channel flash V2 (`kernels/qkv_prologue_fused.h`) | three 2-slot rings (operands, S, A), flags 16-21 | prescale, score, mask, output | same |
| kkt V2 (`kernels/kkt_fused.h`) | one 2-slot ring, flags 0-3 | fill, drain | same; READY and FREE |
| prologue V2 (`kernels/prologue_fused.h`) | one operand slot, one A slot, flags 5-6 | prescale, matmul, mask | same |
| chunk scan (`kernels/scan_fused.h`, `scan_lib.cpp`) | per-core workspace S, WS, VC, KV; flags 0-3 | zero, `w@S`, readout/residual, `k^T@vc`, recurrence, final | same; workspace outlives the launch |
| V1 kernels, `*_lib.cpp` | a scratch tensor per launch | the stages one after the other, SyncAll between them | host stream |
| compile driver (`compile.py`, `gate.py`, `report.py`) | best program, best time, records | propose, measure, judge, dispose | policy, transforms, graph replay |
| policy, cost (`policy.py`, `cost.py`) | none | order and prune transforms | transforms' `match` |
| rewrites (`transform.py`, `template.py`, `transforms/`) | none: pure `Program -> Program` | match, apply, splice | `ir.py` |
| graph replay (`graph.py`) | static inputs, graph, outputs, runner cache | capture, replay | executor, registry |
| executor (`executor.py`) | runner and mask caches, environment variables | run a program node by node | registries |
| registries (`registry.py`, `fused.py`) | capture mode (process-global), compiled kernels, workspaces | run a kernel, `close` | kernels |
| analysis, planner, fusion (`analysis.py`, `planner.py`, `fusion.py`) | none / a per-contraction cache | regions; levers; one-stage verdict | executor, gate |

What is hard here:

* **Concurrency without locks.** The kernels reuse two-slot buffers with READY flags
  only; that nothing is overwritten follows from the order of each unit's own
  instructions (comment at `kernels/qkv_fused.h:94-102`). The tests run the kernels
  on a device and compare outputs; an interleaving that does not occur there is not
  seen. The docs report an intermittent race in the scan (`docs/DESIGN.md:430-436`).
* **Boundaries.** Tiles not divisible by cores leave an iteration without a tile that
  must still keep its flags.
* **State that outlives its user.** Scan workspaces and flag counters outlive a
  launch; static buffers, runners and capture mode outlive a capture; the output buffers
  of a graph are handed out and written again by its next replay.
* **A device behind the host.** A launch function returns before its kernel has run; the
  operands it adapted are freed when it returns, or earlier.
* **Partial failure.** A candidate that raises in the middle of a compilation, a
  capture that raises halfway, a replay that raises between two copies.
* **Verdicts on measurements.** NaN in comparisons, two-run determinism, a baseline
  that moves, a verdict reused for operands it was not measured on.

What makes each part correct: for a kernel, that each output is computed from its own
inputs, that all are written, that no slot is overwritten in use, that flags balance
and that it ends; for the scan, that the values are those of the sequential
recurrence; for the driver, that a kept transform was judged right and faster and that
the report is the program; for graph replay, that an answer belongs to the operands
passed, and that a captured region is pure launches; for the rewrites, that a
program stays well-formed and keeps its meaning; for the planner, that a verdict holds
where it is reused; for the launch functions, that a kernel reads its own operands.

`PROJECT.json` lists every component with what is modelled, and every hazard with the
line where it bites and the properties that watch it.

## 2. Modules

| Module | Models |
|---|---|
| `Ffts` | `ffts_cross_core_sync` in mode 2 and `wait_flag_dev`: external, from how the kernels use them |
| `TileMap` | abstract specification: each tile of a launch (or each half of one) is written once, whole, in any order |
| `TileLaunch` | what the tile kernels share: the loop bound, tile and slot of an iteration, reads and writes that take time |
| `FlashRing` | `qkv_flash_kernel_v2` |
| `PerDimFlash` | `qkv_prologue_flash_v2` |
| `KktRing` | `kkt_fused_kernel_v2` |
| `PrologueRing` | `qk_prologue_kernel_v2` |
| `FlashRing_proofs`, `PerDimFlash_proofs`, `KktRing_proofs`, `PrologueRing_proofs` | theorems about the four kernels |
| `ChunkScan` | `scan_kernel` |
| `ChunkScan_proofs` | theorems about the scan |
| `CoreLaunches` | composition: one AICore executing a stream of launches of the five kernels over one set of counters |
| `CoreLaunches_proofs` | theorems about streams of launches of any length |
| `Launches` | the launch functions of `fused.py` and the lowering of `registry.py`, over an allocator and a device that lags behind |
| `CompileDriver` | `compile_program`, the gates, the report |
| `GraphReplay` | `CaptureExecutor`, `GraphReplayExecutor`, capture mode, build-or-fetch and `close` of the fused registry |
| `FusionDecision` | composition: `decide` over a `GraphReplay` executor, with and without copies |
| `Executor_proofs` | theorems about `GraphReplay`, `FusionDecision` and `Launches` |
| `Programs` | `ir.py`, the helpers of `transform.py`, the regions of `analysis.py` |
| `Forwards` | the builders of the GDN, KDA, chunked linear and DeltaNet programs |
| `Meaning` | `executor.py` over symbolic values, and what the kernels of `fused.py` compute |
| `Rewrites` | the transform library and the policy's order, under any verdicts |
| `Planner` | `Planner.plan` over the same forwards |
| `Compiler_proofs` | theorems about `CompileDriver`, about the programs and levers of `Rewrites`, and about `Planner` |
| `MC*` | the instances TLC checks |

```
Ffts <- TileLaunch <- FlashRing, PerDimFlash, KktRing, PrologueRing     Ffts <- ChunkScan
FlashRing, PerDimFlash, KktRing, PrologueRing, ChunkScan (x2) <- (INSTANCE) CoreLaunches
TileMap <- (refinement) FlashRing, PerDimFlash, KktRing, PrologueRing
GraphReplay <- FusionDecision        CompileDriver        Launches
Programs <- Forwards <- Meaning <- Rewrites <- Planner
```

### Kernels

One core is modelled, whichever it is: cores share only their inputs, and `cid` is
chosen in `Init`. The Cube and each Vec have a program counter and take turns in any
order. A counter exists per Vec and flag id; a wait of the Cube needs a signal of every
Vec. This reading of mode 2 is the only assumption about the hardware and is kept in
`Ffts`.

A slot holds the *number of the tile* it was computed from. While it is being written it
holds `Torn`, and a read compares what it saw at its beginning with what it finds at its
end, so an overlap of a read and a write becomes visible in the output instead of being
hidden by an atomic step. Arithmetic inside a tile (gate, mask, casts) is abstracted: a
result is named by the tile of its operands. In `FlashRing` each wait, matmul, load,
store and signal is an action; in the modules that came after it a wait is joined to the
access it guards and a signal to the access before it, since they move only the actor's
own counter.

`ChunkScan` names values by unit and chunk: `<<u, c>>` is what the sequential reference
has for chunk `c` of unit `u`, `Zero` the zero state, `Bad` anything finite and wrong,
`NaN` what no finite operand repairs. The scalar and per-dimension recurrences are one
operator, as they differ in arithmetic only. `Vecs` is the set of subblocks that run
the Vec side: the kernel does not divide the work among them. `overtaken` is a history
variable, which the code does not have and no guard reads: a store to S adds the outputs
that it spoils, namely those of the Vecs that had not yet loaded the state it replaces
(`NextHits`, `ZeroHits`).

`CoreLaunches` runs these kernels one after the other on one core, in any order. It owns
the variables, and each kernel module is an instance over them, so a step of a launch is a
step of the kernel's own module; the instances are of the proof modules, so the theorems
of a kernel carry over to its launches. Between two launches only `bank` matters: the counter of
every flag id at the Cube and at each Vec. `Ports` says which counter a flag of a kernel
is, and two kernels share a counter only if they use the same id in the same direction:
flag 3 is `PP_FREE + 1` of kkt and `F_REC` of the scan, both received by the Cube. No
kernel resets a counter. `Cleared` names the kernels before which the runtime is relied on
to have done so; the repository never says that it does, so what a kkt launch leaves for
the next kkt or scan is assumed away here, not checked. Every kernel is launched with both
Vecs.

### Launch functions

`Launches` is the Python side of a launch. The host appends operations to the stream and
frees blocks when it drops a tensor; the allocator may hand a freed block out at once,
because everything on the stream runs in order. Two places depart from this scheme. The
scan's launch function passes pointers of temporaries that are dead before the launch is
queued, and outside a capture the triangular inverse is launched past the stream, between
two synchronizations. A block holds the name of the tensor last written to it, so a kernel
that reads a reused block is seen. `Arities` is how many operands a kernel has, `ScanCopies`
how many of a scan's may need a copy.

### Compile driver

A program is the sequence of transforms applied to the canonical one. What a transform
does to each output (right, wrong, NaN, racing) is chosen once in `Init` and unknown to
the driver, as are the transforms whose kernels cannot be launched. `FrobGreen` is
Python's `max(...) < tol` with its treatment of NaN: the first item is kept unless a
later one compares greater. A `Judge` step makes the two determinism replays, the three
verdicts and the disposal of `compile.py:85-100`; `Start`, `Skip`, `ApplyUnverified`,
`Measure` and `Return` are the other branches of the loop.

### Graph replay

`capture` is modelled node by node, because each node may raise. The buffers of a
capture belong to it: `linked` says whether the buffers the graph reads are still the
executor's static buffers, which is false from the moment `capture` replaces them until
it ends. `launch` records the last node executed and whether it did host work (built a
runner, synchronized the stream), which an eager opaque node must and a recorded node
must not do. A replay that raises has copied the operands before the offending one. A
node is a kind, an operation and a mode, and `Key` is what its runner, mask, kernel or
callable is kept under: the key of an einsum has its operand shapes and its two toggles,
that of a fused kernel only its parameters. `CloseRegistry` drops the fused kernels.

`FusionDecision` adds `decide`: a run is a replay, `pool` is what the last replay left in
the graph's output buffers, and a result the caller holds is either a copy or `Pool`, the
buffers themselves, whose contents are those of the moment it is read. The constant
`Cloned` is the `clone` argument of the caller's run function.

### Programs and rewrites

A program is the sequence of its nodes over named tensors, as the builders emit it, so a
transform matches and splices what it would in Python: names, equations, consumers and
positions are kept, shapes and dtypes are not. The names of a chunk's tensors end in the
chunk (`At`). `WellFormed` is the check of `Program.__post_init__`; the model states it
as an invariant where the code raises.

What a program computes is given by `Meaning`: each tensor has, for each chunk, a term
over the inputs, and running a program builds the terms of its outputs. The fused kernels
equal what they replace only by some algebra and by how the host computes the
coefficients (`examples/attention/_gdn_full.py:103-144`). These facts are stated where
the terms are built, and nothing else is identified: a coefficient that contains the
causal mask masks; a factor per row moves across an outer product (`coef_vcs`); a scalar
decay of both operands is a gate of their score; the two permutations of the scan are
inverses. The `min(., 0)` of the kernels' exponents is part of `Gate`: it bites only above
the diagonal, which the mask clears. The V1 and V2 variants of a kernel compute the same
and are one kernel here.

`Rewrites` runs the loop of `compile.py` over these programs with the verdict left free
(`Keep` or `RollBack`), so every subset of the transforms is applied, in the order of
`policy.py`. `plan` holds the transforms proposed and not yet tried, by their place in the
library, and `Due` is the one the stable sort puts first; `best` is `prog` of the code. The
generator's `while True` is a step per turn. `CompileDriver` is the same loop with the
verdicts modelled and the programs abstract. The repository compiles GDN, KDA and the linear
programs; DeltaNet goes to the executor and the planner, and is included because the policy
claims to be agnostic to the forward: only the levers match it.

`Planner` takes the same forwards through `Planner.plan` instead. `Class` is its cache key
with the extents the forwards vary (one chunk or all of them), `Representative` the node
whose measurement a contraction gets. What the library does is external: `broken` is at
most one lowering of one class that computes something else, `pays` the levers that fire
and are faster. `frob_rel` against a baseline of zeros passes everything that is zero. `Planned`
is what `plan` returns, as a function of the program and of these two.

## 3. What TLC checks

| Run | Instance | Shows |
|---|---|---|
| `flash_ring` | 7 tiles, 2 cores, 2 Vecs | `RingInv` (the inductive invariant, which contains the types), no overwritten slot, exact and complete outputs, balanced flags, implements `TileMap`, terminates |
| `core_launches` | any 3 launches of the five kernels; 7 tiles, 5 units, 2 cores, 2 chunks, 2 Vecs, units 2 and 4 not finite | every kernel starts as its protocol assumes, `StreamInv` (the inductive invariant of the stream, with those of the five kernels), no overwritten slot, exact outputs, balanced signals, zeroed start of every unit of the scan, complete outputs, the values of the recurrence up to the first state one Vec replaced under the other, the four tile kernels implement `TileMap`, every launch returns |
| `scan_race` | both Vecs | **violated**: finding 1 |
| `scan_nan` | one Vec, unit 0 not finite | **violated**: finding 2 |
| `compile_driver` | 3 transforms, 2 outputs, 3 times | `DriverInv` (the inductive invariant, which contains the types), kept transforms are sound and beat the best; the report is the program |
| `compile_raises` | same | **violated**: finding 3 |
| `graph_replay` | 2 programs, 2 inputs, 2 shapes, 2 values, captures fail only while there is no graph, runs return copies | `DecisionInv` (the inductive invariant), fresh answers, static shapes, no host work in a captured region, runners fit, a stage declared deterministic did compute the same twice |
| `graph_recapture` | the same, captures fail at any time | **violated**: finding 4 |
| `decide_aliasing` | the same, runs return the buffers | **violated**: finding 6 |
| `rewrites` | five forwards, three chunks, all verdicts; or planned, with any one lowering broken | every candidate is well-formed and computes what the canonical program does; rewrites stay in a region; kept levers hold at the end; the generator's loop ends; one pass of the pipeline leaves no site it could have tried; a verdict of the planner carries over to its class unless it was taken on zeros |
| `planner_gate` | the same | **violated**: finding 5 |
| `launches` | 2 calls, 2 inputs, 6 blocks, eager or under capture | `LaunchInv` (the inductive invariant), kernels read their own operands; what the host holds is what it computed |

**Bounds.** Seven tiles on two cores give core 0 four full iterations and core 1 three
and a tail: each slot is used twice, and the pipeline is filled, steady and drained. The
proofs remove these bounds for the five kernels, and the bound on the stream. Three launches
let each kernel follow each other one and itself, with what two launches before it left. Five units on two cores give three and two
units on the same workspace, so a unit follows a non-finite one and a finite one. Three
times and three transforms let two candidates beat the base one after the other; two
outputs let a NaN hide behind the first. Two inputs let a replay raise between two
copies, and a warmup of two passes has a first and a repeated one. Three chunks have a
first, a middle and a last one, so that a state read too early or a slice out of order
gives another term. The proofs of `CompileDriver` hold for any pipeline, any number of outputs and
any times, those of the rewrites and the planner for any number of chunks, those of graph
replay for any programs, shapes and number of warmup passes, those of
the launches for any number of calls, blocks and operands. Two calls and six blocks are the fewest in which the copies and the
output of one call can be reused by the next while both are queued. `ScanCopies` is 1:
every caller in the repository hands the scan at most one operand that needs a copy; with
2, TLC finds `ReadsItsOperands` violated. The planner has one broken lowering at a time,
since verdicts on different classes do not meet.

**Fairness.** Weak fairness of the Cube and of each Vec: they are processors of their
own, each executes its instructions as long as it is not blocked in `wait_flag_dev`, and
a wait once possible stays possible, since only the waiter decrements its counter.
Nothing is assumed about who goes first. `CoreLaunches` adds weak fairness of `Return`; nothing
obliges the host to launch. The driver and graph replay are sequential
Python: only safety is checked (for the generator's loop, a variant), and `CompileDriver` ends in a stuttering `Stopped`.

Each property is also checked to fail for a plausible bug in a mapped definition; these
slips are the definitions marked "Slip" in the modules and are not part of any `Next`.

### Findings

1. **The scan races between its two Vecs** (`kernels/scan_fused.h:239-252`). The kernel
   never asks for its subblock number: both Vecs run the whole Vec side on one workspace.
   The flags order the Cube against each Vec, not the Vecs against each other, so one may
   load the state the other has already updated, and apply the recurrence twice. This
   is a candidate explanation of the intermittent race the docs report. The finding needs
   both subblocks to be active, which the other kernels rely on (`kernels/kkt_fused.h:215`).
   `ExactUnlessOvertaken`, checked in `core_launches` and proved, says how far the damage
   goes: outputs are wrong only from the first state that one Vec replaced before the other
   had loaded it, and only to the end of that unit.
2. **A non-finite state spreads** (`kernels/scan_fused.h:58`). Zeroing by `x - x` keeps
   NaN, so a half overflow in one unit spoils every later unit of that core and the first
   units of the next launch.
3. **A candidate that raises ends the compilation** (`compile.py:84`), where the module
   comment and the design promise that the canonical program stands.
4. **A failed re-capture makes replay silently wrong** (`graph.py:97`). The old graph
   stays behind new static buffers; operands of the new shape are accepted and the outputs
   of the last replay are returned.
5. **The planner's gate can be vacuous** (`planner.py:111`). The first contraction with the
   state reads the zero state, against which any lowering passes, and its verdict is pinned
   on the contractions of all other chunks.
6. **A fusion decision compares buffers with themselves** (`graph.py:138`). Its callers
   replay with `clone=False`, so both results of the determinism gate are the output buffers
   of the graph, and a racing kernel is declared deterministic.

Two more things a reader should know, which no document contradicts. The kernels rely on
flag counters being cleared before kkt and the scan: with `Cleared = {}` a second kkt launch
overwrites a slot in use, so no property of `core_launches` speaks of that hazard. And the regions of `analysis.py` can span an opaque kernel: in
DeltaNet `kbF` and `kF` feed both sides of the triangular inverse, so that the union-find
joins what the inverse should cut (`analysis.py:13-14` calls it a hard cut). `Contained` uses the
same regions and cannot notice.

## 4. What is proved

### The tile kernels

For every number of tiles and cores, every `cid` and every non-empty set of Vecs
(`SizesAssumption`, `VecsAssumption`), of a launch of one kernel:

| | `FlashRing` | `PerDimFlash` | `KktRing` | `PrologueRing` |
|---|---|---|---|---|
| `RingInvariance`: `Spec => []RingInv` | yes | yes | yes | yes |
| `TypeCorrectness`: `Spec => []TypeOK` | yes | yes | yes | yes |
| `NoOverwrite`: `Spec => []SlotExclusion` | yes | yes | yes | yes |
| `OutputsAreExact`: `Spec => []OutputsExact` | yes | yes | yes | yes |
| every tile is written | `OutputsAreComplete` | in `OutputsExact` | in `OutputsExact` | in `OutputsExact` |
| signals | `FlagsAreBalanced` | `FlagsAreBalanced` | `CreditConserved` | `FlagsAreBalanced` |
| `Refinement`: `Spec => ImplementsTileMap` | yes | yes | of halves | of halves |

In the last two kernels each Vec writes its half of an output tile at a time of its own, so
what is written once and whole is a half: they implement `TileMap` with the pairs of a tile
and a Vec for its tiles (`Halves`, `AbstractHalves`).

The argument. `SlotExclusion` alone is not inductive: that two sides are in different
slots follows from how far apart they are. `RingInv` says it in each module. In `FlashRing`
the cursors of the pipeline (tiles announced, scores waited for, masks signalled, masks
waited for) are ordered and span at most two iterations (`CubeCursor`, `VecCursor`), so two
iterations in flight never share a slot; each counter is one exactly when an iteration in
flight has been signalled and not waited for (`Counters`); hence a passed wait tells where
the other side is; and the slots of the iterations in flight hold their own tiles
(`Contents`), so that what is written out is exact (`OutputsExact`, `Written`).
`PerDimFlash` has one stage more: the cursors of prescaling and masking are two iterations
apart at most in each Vec, those of scoring and output in the Cube, and the three rings have
contents of their own (`Operands`, `Scores`, `Masked`). `KktRing` counts instead: the
credits, the signals and the accesses of a slot add up to one, which with the alternation of
fills and drains puts the two sides of a slot in the same iteration. `PrologueRing` is a
ping-pong: a Vec is at the iteration of the Cube, or one behind with the score in hand.

There is one lemma per action, then each property follows from `RingInv`; completeness
also needs that every tile of the core is `Pid(n)` of some `n < Iters` (`TileOfIteration`),
and refinement that an output, once written, is not written again, since the cursor `w`
only moves forward.

### The scan

For every number of units, chunks and cores, every set of units that are not finite, and
every non-empty set of Vecs (`ScanSizes`):

| Theorem of `ChunkScan_proofs` | States |
|---|---|
| `ScanInvariance` | `Spec => []ScanInv` |
| `TypeCorrect` | `Spec => []TypeOK` |
| `HandshakeHolds` | `Spec => []Handshake` |
| `FirstReadout` | `Spec => []FirstReadoutZero` |
| `Completeness` | `Spec => []ScanComplete` |
| `Exactness` | `Spec => []ExactUnlessOvertaken` |

The argument has two layers. The control (`Control`: `TypeOK`, `Cursors`, `Phases`) does not
look at the data. In a unit, the signals a side has given and the waits it has passed follow
from its place, and each counter is their difference (`SameUnit`). Only at the ends of a
unit is one side ahead: the Vec may prime the next unit before the Cube has drained this
one (`VecAhead`), and the Cube may drain and leave while the Vec stores the final state
(`CubeAhead`). From this `LockStep` reads off where the Cube can be for each place of a
Vec. The data rests on it: when one Vec reads the first state, every Vec has zeroed it
(`AllZeroed`) and none has applied a recurrence; what each Vec has written grows with its
cursors (`WrittenUpTo`); and each place finds in the workspace what it expects (`Exact`),
unless an output at or before it in its unit was overtaken (`Intact`). `ScanExact` itself is
false with two Vecs (finding 1). What makes the weaker statement inductive is in `VecExact`:
a Vec about to load the state for the recurrence either has lost it, and `overtaken` says
so, or no Vec has stored the next one yet, because all are still in the same chunk
(`Together`). The Cube's products and the next unit are then right by the lock step:
whoever is late in a chunk holds up the Cube, and with it everybody, at the chunk's end.

### Streams of launches

For streams of any length (`MaxLaunches` bounds TLC only), if the counters are cleared
before kkt and the scan (`RuntimeClears`):

| Theorem of `CoreLaunches_proofs` | States |
|---|---|
| `StreamInvariance` | `Spec => []StreamInv` |
| `LaunchesStartClean` | `Spec => StartsClean` |
| `NoOverwrite`, `OutputsAreExact`, `SignalsAreBalanced` | `Spec => []SlotExclusion`, `[]OutputsExact`, `[]SignalsBalanced` |
| `ScansStartFromZero`, `ScansComplete`, `ScansAreExact` | `Spec => []FirstReadoutZero`, `[]ScanComplete`, `[]ExactUnlessOvertaken` |
| `TypeCorrect` | `Spec => []TypeOK` |
| `Refinement` | `Spec => ImplementsTileMap`, for the four tile kernels |

A launch is a behaviour of the kernel's own module as soon as it starts in that module's
`Init`. For kkt and the scan that is the assumption. For the other three it is
`BankQuiet`: the ports they use are at zero between launches, because the flag theorems of
these kernels say that a launch returns its own counters to zero, and because no other
kernel touches them (`OthersSave`), which is a fact about the flag ids (`Ports`).

### The compile driver

For every pipeline, every number of outputs and every effect of the transforms
(`PipelineAssumption`), `Compiler_proofs` proves `DriverInv`, which ties the records,
the program and the times together at every point of the loop, and from it:

| Theorem | States |
|---|---|
| `DriverInvariance` | `Spec => []DriverInv` |
| `TypeCorrectness` | `Spec => []TypeOK` |
| `GatesCoverEachOther` | `Spec => []KeptAreSound`: Python's comparisons let a NaN pass the frob gate, but not both gates |
| `TimesDecrease` | `Spec => []EachBeatsTheBest` |
| `ReportIsComplete` | `Spec => []ReportIsTheProgram` |

### The rewrites and the levers

For every forward, any number of chunks (`ncAssumption`) and any sequence of verdicts:

| Theorem of `Compiler_proofs` | States |
|---|---|
| `RewritesWellFormed` | `PlanSpec => []RewriteTypeOK` |
| `GeneratorEnds` | `PlanSpec => Variant` |
| `LeversStay` | `PlanSpec => []LeversStick` |
| `VerdictsHold` | `PlanSpec => []VerdictsCarryOver` |

`RewriteTypeOK` contains `WellFormed` of the best program and of the candidate: whatever was kept
and rolled back before, every node reads what an earlier one binds, and the outputs are bound.
That is not inductive, because a rewrite splices: it drops nodes, and puts a new one that reads
some of their inputs where one of them stood. `ProgramInv` says what every later rewrite relies on.

* `NodeOK`: each node is one its forward can have at that place in its development, identified by
  what it binds and reads (`GdnNode`, `KdaNode`, and one for the chunked forwards). So
  the consumers of a tensor are known, and with them what a match can be a match of.
* `Gets`: each node finds what it needs among the tensors bound before it. It `Needs` what it reads,
  and also what a rewrite will make it read in its place: the late names of the prologue
  fusion (`LateNames`), the operands of the scan (`ScanReads`).

A transform that fires drops a set of nodes nobody else reads (`Spliced`), so both are kept. That the
forwards start so is the other half: `Builds` adds the nodes of a builder one after another,
and for any number of chunks (`ChunkedBuilds`) the argument is by the least chunk whose nodes
miss something, for all that a chunk needs of the one before it is its state.

This needs that names do not collide, and names are built by concatenating strings,
of which the provers know nothing. `NamesAssumption` states the three facts used: the name of
a chunk's tensor is not the name of a whole one, the state of chunk 0 is `S0`, and a reshaped
operand has a new name. They hold for every `nc`, since a chunk's name ends in a digit and, but for `S0`,
a whole name does not, or is `kb5`, `sw5`, `su5`, `sk5` with a base that no chunk has; TLC evaluates them on
the instance. That two names of chunks differ is not among them, and is false from 22 chunks on
(the `vn2` of chunk 1 and the `vn` of chunk 21): nothing proved here needs it.

`Variant` rests on `SitesMove`: a site of the program after a turn of the generator was one before it, and
not the one the turn took. `Moved` sends each position of the spliced program to the one its node had,
injectively (`SpliceMoves`). An epilogue is what the links of its program make it
(`EpilogueUnfold`), and a link goes by the readers of one tensor, so it is the same before and
after when the splice neither adds nor drops a reader (`MovedLink`). Of Gated DeltaNet's two scores
a turn drops every reader of the one it takes, whose chains end (`KktGone`, `ChunkOGone`), and touches no
name of the other's; neither chain can grow into the other's, because they end at the triangular
inverse and at the output contraction. The steps without a turn settle a transform or hand a
candidate to the judge.

`LeversStick` speaks of the end of a compilation. `LeverInv` is what holds on the way: nothing
left to try comes before anything kept in the policy's order (`Due` picks a least one), so after a
lever only levers come; the program a lever hands to the judge has it on every contraction;
and the one of the second lever still has the first, because `Annotated` replaces one
annotation and copies the other. The rewrites themselves stay opaque to
this proof: it does not matter what a fusion does, only that it cannot come later.

`PlanInv` says that what was planned is the forward and what is returned its `Planned` form. A
contraction that runs with exactly one lever got it from the verdict of its `Representative`,
which was measured under that same lowering; since the class decides the lowering's result,
either the representative could judge and the product is right for the whole class, or the
representative was a zero product. What remains is that there is a representative: the
contractions of a forward are a set of naturals, hence one of them comes first (`Least`). That
needs every builder's node list to be a sequence, however many chunks are unrolled
(`ForwardIsSeq`), which is an induction over the flattened chunks, made as a smallest
counterexample from the well-foundedness of the naturals (`FlattenRec`, `FlattenIsSeq`).

### Graph replay and fusion decisions

For every set of programs, inputs, shapes and values, every number of warmup passes, with
captures, replays and decisions that raise anywhere:

| Theorem of `Executor_proofs` | States | If |
|---|---|---|
| `GraphInvariance`, `DecisionInvariance` | `Spec => []GraphInv`, `DecisionSpec => []DecisionInv` | |
| `DecisionsAreReplays` | `DecisionSpec => Spec`: a decision does to the executor what replays do | |
| `DecisionTypes` | `DecisionSpec => []DecisionTypeOK` | |
| `NoHostWorkRecorded` | `DecisionSpec => []HostWork` | |
| `RecordedRunners` | `DecisionSpec => []RecordedRunnersFit` | |
| `FreshReplays`, `ShapesEnforced` | `DecisionSpec => []ReplayIsFresh`, `[]StaticShapes` | `Reliable` |
| `DeterminismHolds` | `DecisionSpec => []DeterminismIsReal` | `Cloned` |

The two conditions are the constants that findings 4 and 6 set the other way: `Reliable`, that
no capture fails while there is a graph, and `Cloned`, that the caller's runs return
copies. Without them TLC refutes these properties, and nothing else in the invariant needs them.
`graph_replay` and the two theorems therefore say nothing of a capture that fails over an older
graph: `graph_recapture` does. `CloseRegistry` is more than the repository does, where nobody calls
`close`.

`HostWork` is not inductive. `CaptureScope` adds that capture mode is on exactly while a pass
is recorded and that the executor runs nodes of one program over buffers nobody replaces;
`WarmupBuilds` that in a warmup pass each runner is there or its node is still to be executed, so that
after the pass they are all there until the recording ends, the registry being closed only
between captures. `GraphIsCurrent` adds for `ReplayIsFresh` that between
captures the buffers a graph reads are the executor's own and of the captured shapes.

### Launches

For any number of calls, blocks and operands, eager or under capture, if a scan copies at most one
operand (`ScanCopies <= 1`), which is what every caller in the repository does (with 2, TLC
refutes it):

| Theorem of `Executor_proofs` | States |
|---|---|
| `LaunchInvariance` | `LaunchSpec => []LaunchInv` |
| `LaunchTypes` | `LaunchSpec => []LaunchTypeOK` |
| `OperandsFound` | `LaunchSpec => []ReadsItsOperands` |
| `ResultsStand` | `LaunchSpec => []ResultsExact` |

What the device will find is decided when an operation is queued: `HoldsAt` says that the last
write to a block before a place in the queue is the wanted tensor's. It is about memory and
queue together, so that the device's step, which turns the head of the queue into memory, does
not change it, and an operation appended changes it only for the block it writes. `QueuedReads` states it for
every operand in the queue, `Environment` for every tensor the host holds, and `Pointers` for
the pointers a launch has collected so far: those of copies are in blocks it holds, and the
one copy of a scan, which nobody holds, is safe because nothing is allocated between it and the
launch. `Progress` is for the triangular inverse: after the first synchronization the stream
is empty until the second has seen its launch finish.

### Only model-checked

* `MeaningKept`: it evaluates the programs, and its terms are built along a program by recursive
  functions, about which only induction over data would say anything.
* `NoSiteLeft`: that no rewrite opens a site for a transform whose turn is over is, for the
  structural transforms, a fact about the shapes of all programs on the way; `Variant` has it for the
  generator and `LeversStick` for the levers.
* `Contained`: the regions are a union-find, a fold over the nodes and their operands, out of reach
  for the same reason.
* Everything about liveness: `Termination`, `EveryLaunchReturns`.

## 5. Not modelled

Arithmetic, tile layouts, addresses and data types; the `pto_einsum` library, torch and the
runtime, except as the external definitions of `Ffts`, `CoreLaunches`, `Launches` and
`Planner`; the V1 kernels, whose SyncAll phases leave nothing to interleave inside a core;
`library_modes` (a context manager around one build); the sizes and ranks of the region
analysis; the cost model beyond its outcome, that it expects every transform to pay; the
timing loops beyond a free choice of who is faster; `absorption_candidates`; the one-stage
forwards; examples, benchmarks and tests, except as evidence of how the package is used.

## 6. What could be added

The one-stage forwards, and `library_modes`, which is a context manager around one build.
