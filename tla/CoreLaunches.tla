---------------------------- MODULE CoreLaunches ----------------------------
(***************************************************************************)
(* One AICore executing a stream of launches of the fused kernels, one     *)
(* after the other: what a compiled program, a benchmark loop or a graph   *)
(* replay makes it do.  The launches share the processors, the flag        *)
(* counters and nothing else.  (A launch finds its own workspace as an     *)
(* earlier one left it; the kernels' Init allows for any finite contents.) *)
(*                                                                         *)
(* No kernel resets a counter, and the flag ids overlap: the scan uses the *)
(* ids of the kkt ring.  Cleared is the set of kernels before whose launch *)
(* the runtime is relied on to have cleared the counters; the repository   *)
(* does not say that it ever does.                                         *)
(*                                                                         *)
(* A kernel module is an instance over the shared variables: its counters  *)
(* are loaded at the launch and stored back at the return, and the cursors *)
(* and buffers a kernel does not have keep a value nobody reads.           *)
(***************************************************************************)
EXTENDS Integers, Sequences

CONSTANTS Vecs, I, bnum, UNITS, NC, NonFinite,    \* as in the kernel modules
          Cleared,
          MaxLaunches                             \* bound on the stream

ASSUME LaunchAssumption ==
  /\ I \in Nat \ {0} /\ bnum \in Nat \ {0}
  /\ UNITS \in Nat \ {0} /\ NC \in Nat \ {0}
  /\ NonFinite \subseteq Nat
  /\ Vecs # {}

VARIABLES
  kernel,                      \* the kernel running, or "none"
  launches,                    \* how many have been launched
  bank,                        \* between launches: the counter of each port, per Vec
  cid,                         \* the core: get_block_idx
  cpc, cw, cn, creg,           \* the Cube
  vpc, vw, vn, vreg,           \* the Vecs
  fa, fb, fc,                  \* the counters of the running kernel
  w1, w2, w3, w4,              \* its workspace
  out,                         \* its output
  overtaken                    \* history of the scan, not in the code

processors == <<cpc, cw, cn, creg, vpc, vw, vn, vreg, fa, fb, fc, w1, w2, w3, w4, out,
                overtaken>>
vars == <<kernel, launches, bank, cid, processors>>

Flash == INSTANCE FlashRing_proofs
           WITH w <- cw, np <- cn, sReady <- fa, aReady <- fb, S <- w1, A <- w2, o <- out
PerDim == INSTANCE PerDimFlash_proofs
           WITH opReady <- fa, sReady <- fb, aReady <- fc, OP <- w1, S <- w2, A <- w3, o <- out
Pro == INSTANCE PrologueRing_proofs
         WITH opReady <- fa, aReady <- fb, op <- w1, Aout <- w2, L <- out
Kkt == INSTANCE KktRing_proofs WITH ready <- fa, free <- fb, ring <- w1, L <- out
Scan == INSTANCE ChunkScan_proofs
          WITH cu <- cw, cc <- cn, vu <- vw, vc <- vn, flag <- fa,
               S <- w1, WS <- w2, VC <- w3, KV <- w4, h <- out

Kernels == {"flash", "perdim", "pro", "kkt", "scan"}

\* The counters a kernel waits on: where they are, and the flag's id.
Slots == {0, 1}
At(receiver, id) == [s \in Slots |-> <<receiver, id + s>>]
OneAt(receiver, id) == [s \in {0} |-> <<receiver, id>>]
ScanPorts == [MM1 |-> <<"vec", 0>>, RES |-> <<"cube", 1>>,
              MM2 |-> <<"vec", 2>>, REC |-> <<"cube", 3>>]
Ports ==
  [flash  |-> << At("vec", 7), At("cube", 9), <<>> >>,
   perdim |-> << At("cube", 16), At("vec", 18), At("cube", 20) >>,
   pro    |-> << OneAt("cube", 5), OneAt("vec", 6), <<>> >>,
   kkt    |-> << At("vec", 0), At("cube", 2), <<>> >>,
   scan   |-> << ScanPorts, <<>>, <<>> >>]
AllPorts == {"cube", "vec"} \X (0 .. 21)

Load(k, j) ==
  [v \in Vecs |-> [x \in DOMAIN Ports[k][j] |->
     IF k \in Cleared THEN 0 ELSE bank[Ports[k][j][x]][v]]]

\* Where the running kernel k keeps the counter of a port.
Stored(k, port) ==
  UNION {{<<j, x>> : x \in {y \in DOMAIN Ports[k][j] : Ports[k][j][y] = port}} : j \in 1 .. 3}

Save(k, port, v) ==
  IF Stored(k, port) # {}
  THEN LET f == CHOOSE f \in Stored(k, port) : TRUE
       IN <<fa, fb, fc>>[f[1]][v][f[2]]
  ELSE IF k \in Cleared THEN 0 ELSE bank[port][v]
-----------------------------------------------------------------------------
(* Launching.                                                              *)

Absent == << >>       \* what the running kernel does not have
Whole  == [s \in Slots |-> Flash!Stale]
Halves == [s \in Slots |-> Flash!Unwritten]
Workspace ==
  [flash  |-> << Whole, Halves, Absent >>,
   perdim |-> << Halves, Whole, Halves >>,
   pro    |-> << Flash!Unwritten, Flash!Stale, Absent >>,
   kkt    |-> << Whole, Absent, Absent >>]

Entry ==      \* the first place of the Cube and of the Vecs
  [flash |-> <<"produce", "wait">>, perdim |-> <<"score", "scale">>,
   pro |-> <<"score", "scale">>, kkt |-> <<"fill", "prime">>,
   scan |-> <<"ws", "zero">>]

Init ==
  /\ kernel = "none" /\ launches = 0
  /\ bank = [port \in AllPorts |-> [v \in Vecs |-> 0]]
  /\ cid \in 0 .. bnum - 1
  /\ cpc = "done" /\ cw = 0 /\ cn = 0 /\ creg = Absent
  /\ vpc = Absent /\ vw = Absent /\ vn = Absent /\ vreg = Absent
  /\ fa = Absent /\ fb = Absent /\ fc = Absent
  /\ w1 = Absent /\ w2 = Absent /\ w3 = Absent /\ w4 = Absent /\ out = Absent
  /\ overtaken = {}

Launch(k) ==
  LET none == k = "scan" /\ ~ Scan!More(cid)      \* a core without a unit
      start == IF k = "scan" THEN cid ELSE 0
  IN /\ kernel = "none" /\ launches < MaxLaunches
     /\ kernel' = k /\ launches' = launches + 1
     /\ cpc' = IF none THEN "done" ELSE Entry[k][1]
     /\ cw' = start /\ cn' = 0
     /\ creg' = IF k = "scan" THEN Scan!Bad ELSE Flash!Unwritten
     /\ vpc' = [v \in Vecs |-> IF none THEN "done" ELSE Entry[k][2]]
     /\ vw' = [v \in Vecs |-> start] /\ vn' = [v \in Vecs |-> 0]
     /\ vreg' = IF k = "scan" THEN [v \in Vecs |-> <<Scan!Bad, Scan!Bad>>]
                ELSE Flash!Unwritten
     /\ fa' = Load(k, 1) /\ fb' = Load(k, 2) /\ fc' = Load(k, 3)
     /\ IF k = "scan"
          THEN /\ w1' \in {Scan!Zero, Scan!Bad} /\ w2' = w1' /\ w3' = w1' /\ w4' = w1'
               /\ out' = [p \in Scan!Outputs |-> Scan!None]
          ELSE /\ w1' = Workspace[k][1] /\ w2' = Workspace[k][2] /\ w3' = Workspace[k][3]
               /\ w4' = Absent
               /\ out' = [p \in Flash!Tiles |-> Flash!Unwritten]
     /\ overtaken' = {}
     /\ UNCHANGED <<bank, cid>>

Done == CASE kernel = "flash"  -> Flash!Done
          [] kernel = "perdim" -> PerDim!Done
          [] kernel = "pro"    -> Pro!Done
          [] kernel = "kkt"    -> Kkt!Done
          [] kernel = "scan"   -> Scan!Done
          [] OTHER             -> FALSE

Return ==
  /\ Done
  /\ bank' = [port \in AllPorts |-> [v \in Vecs |-> Save(kernel, port, v)]]
  /\ kernel' = "none"
  /\ UNCHANGED <<launches, cid, processors>>

CubeStep ==
  /\ \/ kernel = "flash"  /\ Flash!Cube  /\ UNCHANGED <<vn, fc, w3, w4, overtaken>>
     \/ kernel = "perdim" /\ PerDim!Cube /\ UNCHANGED <<w4, overtaken>>
     \/ kernel = "pro"    /\ Pro!Cube    /\ UNCHANGED <<cn, vn, fc, w3, w4, overtaken>>
     \/ kernel = "kkt"    /\ Kkt!Cube    /\ UNCHANGED <<cn, creg, vn, fc, w2, w3, w4, overtaken>>
     \/ kernel = "scan"   /\ Scan!Cube   /\ UNCHANGED <<fb, fc>>
  /\ UNCHANGED <<kernel, launches, bank>>

VecStep(v) ==
  /\ \/ kernel = "flash"  /\ Flash!Vec(v)  /\ UNCHANGED <<vn, fc, w3, w4, overtaken>>
     \/ kernel = "perdim" /\ PerDim!Vec(v) /\ UNCHANGED <<w4, overtaken>>
     \/ kernel = "pro"    /\ Pro!Vec(v)    /\ UNCHANGED <<cn, vn, fc, w3, w4, overtaken>>
     \/ kernel = "kkt"    /\ Kkt!Vec(v)    /\ UNCHANGED <<cn, creg, vn, fc, w2, w3, w4, overtaken>>
     \/ kernel = "scan"   /\ Scan!Vec(v)   /\ UNCHANGED <<fb, fc>>
  /\ UNCHANGED <<kernel, launches, bank>>

Idle == kernel = "none" /\ launches = MaxLaunches /\ UNCHANGED vars

Next ==
  \/ \E k \in Kernels : Launch(k)
  \/ CubeStep
  \/ \E v \in Vecs : VecStep(v)
  \/ Return
  \/ Idle

Spec == Init /\ [][Next]_vars

\* No processor stops while it can execute an instruction, and a core whose
\* processors are done returns.  Nothing obliges the host to launch.
FairSpec ==
  Spec /\ WF_vars(CubeStep) /\ (\A v \in Vecs : WF_vars(VecStep(v))) /\ WF_vars(Return)
-----------------------------------------------------------------------------
(* Properties.                                                             *)

TypeOK ==
  /\ kernel \in Kernels \union {"none"} /\ bank \in [AllPorts -> [Vecs -> Nat]]
  /\ kernel = "flash"   => Flash!TypeOK
  /\ kernel = "perdim"  => PerDim!TypeOK
  /\ kernel = "pro"     => Pro!TypeOK
  /\ kernel = "kkt"     => Kkt!TypeOK
  /\ kernel = "scan"    => Scan!TypeOK

\* Every kernel starts in the state its protocol assumes, whatever ran on the
\* core before it: no launch needs the counters cleared but those of Cleared.
StartsClean ==
  [][ /\ kernel' = "flash"   => Flash!Init'
      /\ kernel' = "perdim"  => PerDim!Init'
      /\ kernel' = "pro"     => Pro!Init'
      /\ kernel' = "kkt"     => Kkt!Init'
      /\ kernel' = "scan"    => Scan!Init' ]_kernel

\* No slot of a ring is written while the other side uses it, in any launch of
\* the stream.
SlotExclusion ==
  /\ kernel = "flash"   => Flash!SlotExclusion
  /\ kernel = "perdim"  => PerDim!SlotExclusion
  /\ kernel = "pro"     => Pro!SlotExclusion
  /\ kernel = "kkt"     => Kkt!SlotExclusion

\* Every launch of a tile kernel writes each tile of the core from that tile's
\* own operands, tails included.
OutputsExact ==
  /\ kernel = "flash"   => Flash!OutputsExact /\ Flash!OutputsComplete
  /\ kernel = "perdim"  => PerDim!OutputsExact
  /\ kernel = "pro"     => Pro!OutputsExact
  /\ kernel = "kkt"     => Kkt!OutputsExact

\* No signal is lost or given twice: a launch leaves its counters at zero, and
\* the kkt ring, which conserves one credit per slot, at its two credits.
SignalsBalanced ==
  /\ kernel = "flash"   => Flash!FlagsBalanced
  /\ kernel = "perdim"  => PerDim!FlagsBalanced
  /\ kernel = "pro"     => Pro!FlagsBalanced
  /\ kernel = "kkt"     => Kkt!OneCredit
  /\ kernel = "scan"    => Scan!Handshake

\* The ports of the kernels that leave no signal behind.
QuietPorts ==
  {<<"cube", 5>>, <<"vec", 6>>, <<"vec", 7>>, <<"vec", 8>>, <<"cube", 9>>, <<"cube", 10>>,
   <<"cube", 16>>, <<"cube", 17>>, <<"vec", 18>>, <<"vec", 19>>, <<"cube", 20>>, <<"cube", 21>>}

BankQuiet == \A port \in QuietPorts, v \in Vecs : bank[port][v] = 0

ProtocolsAgree ==
  /\ kernel = "flash"   => Flash!RingInv
  /\ kernel = "perdim"  => PerDim!RingInv
  /\ kernel = "pro"     => Pro!RingInv
  /\ kernel = "kkt"     => Kkt!RingInv
  /\ kernel = "scan"    => Scan!ScanInv

\* The inductive invariant: between launches the counters of the kernels that
\* rely on it are at zero, although nobody resets them, and in every launch the
\* cursors of the two sides, the counters between them and the contents of the
\* slots in flight, or of the scan's workspace, agree.
StreamInv ==
  /\ kernel \in Kernels \union {"none"} /\ cid \in 0 .. bnum - 1
  /\ bank \in [AllPorts -> [Vecs -> Nat]]
  /\ BankQuiet /\ ProtocolsAgree

\* The first chunk of a unit starts from the zero state, whatever the unit
\* before it on the workspace left, as long as that was finite.
FirstReadoutZero == kernel = "scan" => Scan!FirstReadoutZero

\* When a core returns from a scan, all outputs of its units are written.
ScanComplete == kernel = "scan" => Scan!ScanComplete

\* Both Vecs run the scan on one workspace.  In any launch of the stream, what
\* they write is exactly the states of the recurrence, for every unit before one
\* that is not finite and, within a unit, up to the first state that one Vec
\* replaced before the other had loaded it; the next unit is exact again.
ExactUnlessOvertaken == kernel = "scan" => Scan!ExactUnlessOvertaken

\* The four stages of the per-channel flash, and the two of the scalar one,
\* write each tile once, whole, and never again; so do the Vecs of the prologue
\* and the kkt ring, each with its half of a tile.
ImplementsTileMap ==
  [][ /\ kernel = "perdim" /\ kernel' = "perdim" => [PerDim!TM!Next]_(PerDim!TileOut)
      /\ kernel = "flash" /\ kernel' = "flash" => [Flash!TM!Next]_(Flash!TileOut)
      /\ kernel = "pro" /\ kernel' = "pro" => [Pro!TM!Next]_(Pro!HalfOut)
      /\ kernel = "kkt" /\ kernel' = "kkt" => [Kkt!TM!Next]_(Kkt!HalfOut) ]_vars

\* Every launch returns: no handshake leaves the processors waiting for each
\* other, whatever signals the launch before it left behind.
EveryLaunchReturns == \A k \in Kernels : kernel = k ~> kernel = "none"
=============================================================================
