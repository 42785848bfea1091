------------------------------ MODULE Launches ------------------------------
(***************************************************************************)
(* How the host hands its operands to the kernels: the launch functions of *)
(* fused.py and the tri_inv lowering of registry.py, over a device that    *)
(* runs behind the host and an allocator that reuses a block as soon as    *)
(* the host has dropped it.                                                *)
(*                                                                         *)
(* torch and the runtime are external: operations on the current stream    *)
(* run in order; a raw launch has a queue of its own, unless it is made    *)
(* under capture, when it is recorded on the stream; synchronize waits for *)
(* both.  A block holds the name of the tensor written to it last.         *)
(***************************************************************************)
EXTENDS Naturals, FiniteSets, Sequences, Functions

CONSTANTS Blocks,        \* device memory
          RunInputs,     \* the tensors bound at run time
          Results,       \* the names of the results, in the order of the calls
          Arities,       \* how many operands the fused kernels have
          ScanCopies,    \* at most so many operands of a scan need a copy
          NoBlock

ASSUME LaunchesAssumption ==
  /\ RunInputs # {} /\ RunInputs \subseteq STRING /\ Results \in Seq(STRING \ RunInputs)
  /\ Arities \subseteq Nat \ {0} /\ NoBlock \notin Blocks /\ ScanCopies \in Nat

VARIABLES
  capturing,             \* _CAPTURE_MODE, for the whole of a run
  pc, call,              \* the place in a launch function, and which call it is
  kind, operands,        \* "tile", "scan" or "tri", and the names it was given
  copied,                \* the operands, by position, that need an adapted copy
  ptrs, out, temps,      \* its locals: pointers, the output, the blocks held
  env,                   \* the executor's environment: the block of each tensor
  mem, stream, raw,      \* the device: memory, the stream, the raw launches
  misread                \* an operation did not find its own operands

host   == <<pc, call, kind, operands, copied, ptrs, out, temps>>
device == <<mem, misread>>
launchVars   == <<capturing, host, env, device, stream, raw>>

Free == Blocks \ (Range(env) \cup temps \cup {out})

\* A queued operation: what it reads and ought to find there, what it writes.
\* (An output is also zeroed, just before its kernel and in order, but for
\* tri_inv, whose kernel is not in the stream.)
Op(reads, block, name) == [reads |-> reads, writes |-> block, name |-> name]
Zeros(block) == Op(<<>>, block, "zeros")
Copy(from, to, name) == Op(<< <<from, name>> >>, to, name)
KernelOp(ps, block) ==
  Op([i \in DOMAIN ps |-> <<ps[i], operands[i]>>], block, Results[call])

Names == RunInputs \cup Range(Results)
Operations == [reads : Seq(Blocks \X Names), writes : Blocks, name : Names \cup {"zeros"}]

LaunchTypeOK ==
  /\ pc \in {"idle", "adapt", "launch", "order", "raw", "settle", "result"}
  /\ call \in 0 .. Len(Results) /\ kind \in {"tile", "scan", "tri"}
  /\ ptrs \in Seq(Blocks) /\ temps \subseteq Blocks /\ out \in Blocks \cup {NoBlock}
  /\ env \in [DOMAIN env -> Blocks] /\ IsInjective(env)
  /\ DOMAIN env \subseteq Names /\ misread \in BOOLEAN
  /\ mem \in [Blocks -> Names \cup {"zeros", "garbage"}]
  /\ stream \in Seq(Operations) /\ raw \in Seq(Operations)
  /\ pc = "idle" => temps = {} /\ out = NoBlock

LaunchInit ==
  /\ capturing \in BOOLEAN
  /\ pc = "idle" /\ call = 0 /\ kind = "tile" /\ operands = <<>> /\ copied = {}
  /\ ptrs = <<>> /\ out = NoBlock /\ temps = {}
  /\ env \in Injection(RunInputs, Blocks)
  /\ mem = [b \in Blocks |-> IF b \in Range(env) THEN CHOOSE x \in RunInputs : env[x] = b
                             ELSE "garbage"]
  /\ stream = <<>> /\ raw = <<>> /\ misread = FALSE
-----------------------------------------------------------------------------
(* The host.                                                               *)

\* The scan allocates its outputs before it looks at its operands, the tile
\* kernels after; tri_inv always feeds a transposed copy.
Call(k, names, needCopy) ==
  /\ pc = "idle" /\ call < Len(Results)
  /\ k = "scan" => Cardinality(needCopy) <= ScanCopies
  /\ k = "tri" => needCopy = DOMAIN names
  /\ pc' = "adapt" /\ call' = call + 1
  /\ kind' = k /\ operands' = names /\ copied' = needCopy /\ ptrs' = <<>>
  /\ IF k = "scan"
       THEN out' \in Free
       ELSE UNCHANGED out
  /\ UNCHANGED <<capturing, temps, env, device, stream, raw>>

\* Slip: no adapted copy outlives the expression that made it.
HoldsNothing(b) == temps

\* A tile launch function keeps its adapted copies in locals; _scan_launch
\* passes the pointers of temporaries that are freed at once.
Holds(b) == IF kind = "scan" THEN temps ELSE temps \cup {b}

Adapt ==
  LET i == Len(ptrs) + 1
      own == env[operands[i]]
  IN /\ pc = "adapt"
     /\ IF i \in copied
          THEN \E b \in Free :
                 /\ stream' = Append(stream, Copy(own, b, operands[i]))
                 /\ ptrs' = Append(ptrs, b) /\ temps' = Holds(b)
          ELSE ptrs' = Append(ptrs, own) /\ UNCHANGED <<stream, temps>>
     /\ pc' = IF i = Len(operands) THEN "launch" ELSE "adapt"
     /\ UNCHANGED <<capturing, call, kind, operands, copied, out, env, device, raw>>

\* Slip: the copies stay referenced after the call.
ReturnLeaks(b) ==
  /\ env' = [x \in DOMAIN env \cup {Results[call]} |-> IF x = Results[call] THEN b ELSE env[x]]
  /\ out' = NoBlock /\ pc' = "idle"
  /\ UNCHANGED <<capturing, call, kind, operands, copied, ptrs, temps, device>>

\* The call returns: its locals go, the result is bound.
ReturnResult(b) ==
  /\ env' = [x \in DOMAIN env \cup {Results[call]} |-> IF x = Results[call] THEN b ELSE env[x]]
  /\ temps' = {} /\ out' = NoBlock /\ pc' = "idle"
  /\ UNCHANGED <<capturing, call, kind, operands, copied, ptrs, device>>

LaunchTile ==
  /\ pc = "launch" /\ kind = "tile"
  /\ \E b \in Free :
       stream' = Append(stream, KernelOp(ptrs, b)) /\ ReturnResult(b)
  /\ UNCHANGED raw

LaunchScan ==
  /\ pc = "launch" /\ kind = "scan"
  /\ stream' = Append(stream, KernelOp(ptrs, out))
  /\ ReturnResult(out)
  /\ UNCHANGED raw

AllocTri ==
  /\ pc = "launch" /\ kind = "tri"
  /\ \E b \in Free : out' = b /\ stream' = Append(stream, Zeros(b))
  /\ pc' = IF capturing THEN "raw" ELSE "order"
  /\ UNCHANGED <<capturing, call, kind, operands, copied, ptrs, temps, env, device, raw>>

Goto(place) ==
  /\ pc' = place
  /\ UNCHANGED <<capturing, call, kind, operands, copied, ptrs, out, temps, env, device>>

Synchronized == stream = <<>> /\ raw = <<>>

\* Slips: nothing waits before the raw launch; nothing waits after it.
OrderNoSync  == pc = "order" /\ Goto("raw") /\ UNCHANGED <<stream, raw>>
SettleNoSync == pc = "settle" /\ Goto("result") /\ UNCHANGED <<stream, raw>>

Order  == pc = "order" /\ Synchronized /\ Goto("raw") /\ UNCHANGED <<stream, raw>>
Settle == pc = "settle" /\ Synchronized /\ Goto("result") /\ UNCHANGED <<stream, raw>>

RawLaunch ==
  /\ pc = "raw"
  /\ IF capturing
       THEN stream' = Append(stream, KernelOp(ptrs, out)) /\ UNCHANGED raw /\ Goto("result")
       ELSE raw' = Append(raw, KernelOp(ptrs, out)) /\ UNCHANGED stream /\ Goto("settle")

\* What tri_inv returns is a transposed copy of what the kernel wrote.
ReturnTri ==
  /\ pc = "result"
  /\ \E b \in Free : stream' = Append(stream, Copy(out, b, Results[call])) /\ ReturnResult(b)
  /\ UNCHANGED raw

\* A run ends: only its last result is returned, the environment goes.
EndRun ==
  /\ pc = "idle" /\ call > 0 /\ DOMAIN env # RunInputs \cup {Results[call]}
  /\ env' = [x \in RunInputs \cup {Results[call]} |-> env[x]]
  /\ UNCHANGED <<capturing, host, device, stream, raw>>
-----------------------------------------------------------------------------
(* The device.                                                             *)

Perform(op) ==
  LET right == \A i \in DOMAIN op.reads : mem[op.reads[i][1]] = op.reads[i][2]
  IN /\ mem' = [mem EXCEPT ![op.writes] = IF right THEN op.name ELSE "garbage"]
     /\ misread' = (misread \/ ~right)
     /\ UNCHANGED <<capturing, host, env>>

ExecuteStream ==
  /\ stream # <<>> /\ Perform(Head(stream)) /\ stream' = Tail(stream) /\ UNCHANGED raw
ExecuteRaw ==
  /\ raw # <<>> /\ Perform(Head(raw)) /\ raw' = Tail(raw) /\ UNCHANGED stream

Finished ==
  /\ pc = "idle" /\ call = Len(Results) /\ Synchronized
  /\ UNCHANGED launchVars

LaunchNext ==
  \/ \E n \in Arities, k \in {"tile", "scan"} :
       \E names \in [1 .. n -> DOMAIN env], needCopy \in SUBSET (1 .. n) : Call(k, names, needCopy)
  \/ \E x \in DOMAIN env : Call("tri", <<x>>, {1})
  \/ Adapt \/ LaunchTile \/ LaunchScan
  \/ AllocTri \/ Order \/ RawLaunch \/ Settle \/ ReturnTri \/ EndRun
  \/ ExecuteStream \/ ExecuteRaw \/ Finished

LaunchSpec == LaunchInit /\ [][LaunchNext]_launchVars
-----------------------------------------------------------------------------
(* Properties.                                                             *)

\* Whenever the device gets to an operation, its operands are where the host
\* said they were: no block was reused, and no launch overtook a copy.
ReadsItsOperands == ~misread

\* Once the device has caught up, every tensor the host holds is the one it
\* computed: nothing was written to its block after the kernel.
ResultsExact == Synchronized => \A x \in DOMAIN env : mem[env[x]] = x

\* What makes them hold.  Block b holds n when the device gets to place i of a
\* queue q over memory m: the last write to b before it was n's, or none was
\* queued and n is there already.
HoldsAt(m, q, i, b, n) ==
  \/ \E j \in 1 .. i - 1 :
       /\ q[j].writes = b /\ q[j].name = n
       /\ \A l \in 1 .. i - 1 : q[l].writes = b => l <= j
  \/ (m[b] = n /\ \A l \in 1 .. i - 1 : q[l].writes # b)

WillHold(b, n) == HoldsAt(mem, stream, Len(stream) + 1, b, n)

QueuedReads ==
  \A i \in DOMAIN stream : \A r \in DOMAIN stream[i].reads :
    HoldsAt(mem, stream, i, stream[i].reads[r][1], stream[i].reads[r][2])

\* Every tensor the host holds will be in its block, and the blocks of the
\* call under way are not among them.
Environment ==
  /\ RunInputs \subseteq DOMAIN env
  /\ \A x \in DOMAIN env : WillHold(env[x], x) /\ env[x] # out /\ env[x] \notin temps
  /\ pc = "idle" /\ call > 0 => Results[call] \in DOMAIN env

\* Up to the launch the pointers taken so far will find their operands.  Those
\* that are not copies are in the environment and those that are, but for the
\* one of a scan, are held: no block handed out before the launch is theirs.
Pointers ==
  pc \in {"adapt", "launch", "order", "raw"} =>
    /\ operands \in Seq(DOMAIN env) /\ Len(ptrs) <= Len(operands)
    /\ (pc = "adapt") = (Len(ptrs) < Len(operands))
    /\ out \notin temps
    /\ \A i \in DOMAIN ptrs :
         /\ WillHold(ptrs[i], operands[i])
         /\ i \notin copied => ptrs[i] = env[operands[i]]
         /\ i \in copied /\ kind # "scan" => ptrs[i] \in temps
    /\ kind = "scan" => \A i, j \in copied : i = j

\* Whose output is where, and that a launch outside the stream has it to itself.
Progress ==
  /\ pc # "idle" => call > 0
  /\ (pc \in {"order", "raw", "settle", "result"} \/ (kind = "scan" /\ pc # "idle")) => out \in Blocks
  /\ pc = "result" => WillHold(out, Results[call])
  /\ raw # <<>> => pc = "settle" /\ Len(raw) = 1
  /\ (pc = "settle" \/ (pc = "raw" /\ ~capturing)) => stream = <<>>
  /\ pc = "settle" =>
       IF raw = <<>> THEN mem[out] = Results[call]
       ELSE /\ raw[1].writes = out /\ raw[1].name = Results[call]
            /\ \A r \in DOMAIN raw[1].reads : mem[raw[1].reads[r][1]] = raw[1].reads[r][2]

LaunchInv ==
  /\ LaunchTypeOK /\ QueuedReads /\ Environment /\ Pointers /\ Progress
  /\ ReadsItsOperands
=============================================================================
