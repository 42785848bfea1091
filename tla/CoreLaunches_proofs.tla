------------------------- MODULE CoreLaunches_proofs -------------------------
(***************************************************************************)
(* What holds of every launch of a stream, of any length and in any order. *)
(* A launch of a tile kernel is a behaviour of that kernel's own module,   *)
(* so its theorems carry over as soon as the launch starts in the kernel's *)
(* initial state.  That it does is an invariant of the counters between    *)
(* launches: three of the kernels leave their own counters at zero, and no *)
(* other kernel touches these.  The kkt ring leaves its two credits behind *)
(* and the scan waits on the same counter; both need theirs cleared.       *)
(***************************************************************************)
EXTENDS CoreLaunches, TLAPS

\* What the theorems rely on.
RuntimeClears == {"kkt", "scan"} \subseteq Cleared

LEMMA Sizes ==
  /\ I \in Nat \ {0} /\ bnum \in Nat \ {0} /\ Vecs # {}
  /\ Scan!ScanSizes
BY LaunchAssumption DEF Scan!ScanSizes
-----------------------------------------------------------------------------
(* The theorems of the kernels.                                            *)

LEMMA FlashFacts ==
  /\ Flash!Init => Flash!RingInv
  /\ Flash!RingInv /\ [Flash!Next]_(Flash!vars) => Flash!RingInv'
  /\ Flash!RingInv => Flash!SlotExclusion /\ Flash!OutputsExact
                      /\ Flash!OutputsComplete /\ Flash!FlagsBalanced
BY Sizes, Flash!InitRingInv, Flash!NextRingInv, Flash!SlotsApart, Flash!ExactOutputs,
   Flash!CompleteOutputs, Flash!BalancedFlags

LEMMA PerDimFacts ==
  /\ PerDim!Init => PerDim!RingInv
  /\ PerDim!RingInv /\ [PerDim!Next]_(PerDim!vars) => PerDim!RingInv'
  /\ PerDim!RingInv => PerDim!SlotExclusion /\ PerDim!OutputsExact /\ PerDim!FlagsBalanced
BY Sizes, PerDim!InitRingInv, PerDim!NextRingInv, PerDim!SlotsApart, PerDim!ExactOutputs,
   PerDim!BalancedFlags

LEMMA ProFacts ==
  /\ Pro!Init => Pro!RingInv
  /\ Pro!RingInv /\ [Pro!Next]_(Pro!vars) => Pro!RingInv'
  /\ Pro!RingInv => Pro!SlotExclusion /\ Pro!OutputsExact /\ Pro!FlagsBalanced
BY Sizes, Pro!InitRingInv, Pro!NextRingInv, Pro!SlotsApart, Pro!ExactOutputs, Pro!BalancedFlags

LEMMA KktFacts ==
  /\ Kkt!Init => Kkt!RingInv
  /\ Kkt!RingInv /\ [Kkt!Next]_(Kkt!vars) => Kkt!RingInv'
  /\ Kkt!RingInv => Kkt!SlotExclusion /\ Kkt!OutputsExact /\ Kkt!OneCredit
BY Sizes, Kkt!InitRingInv, Kkt!NextRingInv, Kkt!SlotsApart, Kkt!ExactOutputs, Kkt!CreditsAddUp

LEMMA ScanFacts ==
  /\ Scan!Init => Scan!ScanInv
  /\ Scan!ScanInv /\ [Scan!Next]_(Scan!vars) => Scan!ScanInv'
  /\ Scan!ScanInv => Scan!Handshake /\ Scan!ScanComplete /\ Scan!FirstReadoutZero /\ Scan!TypeOK
                     /\ Scan!ExactUnlessOvertaken
BY Sizes, Scan!ScanInit, Scan!ScanStep, Scan!InLockStep, Scan!CompleteScan DEF Scan!ScanInv

LEMMA InitsPrimed ==
  /\ Flash!Init' => Flash!RingInv'
  /\ PerDim!Init' => PerDim!RingInv'
  /\ Pro!Init' => Pro!RingInv'
  /\ Kkt!Init' => Kkt!RingInv'
  /\ Scan!Init' => Scan!ScanInv'
BY FlashFacts, PerDimFacts, ProFacts, KktFacts, ScanFacts, PTL
-----------------------------------------------------------------------------
(* Launching.                                                              *)

LEMMA QuietLoad ==
  ASSUME BankQuiet, NEW k \in {"flash", "perdim", "pro"}, NEW j \in 1 .. 3,
         \A x \in DOMAIN Ports[k][j] : Ports[k][j][x] \in QuietPorts
  PROVE  Load(k, j) = [v \in Vecs |-> [x \in DOMAIN Ports[k][j] |-> 0]]
BY DEF Load, BankQuiet

LEMMA ClearedLoad ==
  ASSUME NEW k \in Cleared, NEW j \in 1 .. 3
  PROVE  Load(k, j) = [v \in Vecs |-> [x \in DOMAIN Ports[k][j] |-> 0]]
BY DEF Load

LEMMA LaunchFlash == ASSUME StreamInv, Launch("flash") PROVE Flash!Init'
<1>0. BankQuiet
  BY DEF StreamInv
<1>1. /\ Ports["flash"][1] = At("vec", 7) /\ Ports["flash"][2] = At("cube", 9)
      /\ DOMAIN At("vec", 7) = Slots /\ DOMAIN At("cube", 9) = Slots
  BY DEF Ports, At
<1>2. /\ \A x \in Slots : At("vec", 7)[x] \in QuietPorts
      /\ \A x \in Slots : At("cube", 9)[x] \in QuietPorts
  BY DEF At, Slots, QuietPorts
<1>3. fa' = Flash!NoSignal /\ fb' = Flash!NoSignal
  BY <1>1, <1>2, <1>0, QuietLoad DEF Launch, Flash!NoSignal, Flash!Slots, Slots
<1>4. QED
  BY <1>3 DEF StreamInv, Launch, Flash!Init, Entry, Workspace, Whole, Halves,
              Slots, Flash!Slots

LEMMA LaunchPerDim == ASSUME StreamInv, Launch("perdim") PROVE PerDim!Init'
<1>0. BankQuiet
  BY DEF StreamInv
<1>1. /\ Ports["perdim"][1] = At("cube", 16) /\ Ports["perdim"][2] = At("vec", 18)
      /\ Ports["perdim"][3] = At("cube", 20)
      /\ DOMAIN At("cube", 16) = Slots /\ DOMAIN At("vec", 18) = Slots
      /\ DOMAIN At("cube", 20) = Slots
  BY DEF Ports, At
<1>2. /\ \A x \in Slots : At("cube", 16)[x] \in QuietPorts
      /\ \A x \in Slots : At("vec", 18)[x] \in QuietPorts
      /\ \A x \in Slots : At("cube", 20)[x] \in QuietPorts
  BY DEF At, Slots, QuietPorts
<1>3. fa' = PerDim!NoSignal /\ fb' = PerDim!NoSignal /\ fc' = PerDim!NoSignal
  <2>1. \A j \in 1 .. 3 : Load("perdim", j) = [v \in Vecs |-> [x \in Slots |-> 0]]
    BY <1>1, <1>2, <1>0, QuietLoad
  <2>2. fa' = Load("perdim", 1) /\ fb' = Load("perdim", 2) /\ fc' = Load("perdim", 3)
    BY DEF Launch
  <2>3. Slots = PerDim!Slots
    BY DEF Slots, PerDim!Slots
  <2>4. QED
    BY <2>1, <2>2, <2>3 DEF PerDim!NoSignal
<1>4. Flash!Unwritten = PerDim!Unwritten /\ Flash!Stale = PerDim!Stale /\ Flash!Tiles = PerDim!Tiles
  BY DEF Flash!Unwritten, PerDim!Unwritten, Flash!Stale, PerDim!Stale, Flash!Tiles, PerDim!Tiles
<1>5. QED
  BY <1>3, <1>4 DEF StreamInv, Launch, PerDim!Init, Entry, Workspace, Whole,
                    Halves, Slots, PerDim!Slots

LEMMA LaunchPro == ASSUME StreamInv, Launch("pro") PROVE Pro!Init'
<1>0. BankQuiet
  BY DEF StreamInv
<1>1. /\ Ports["pro"][1] = OneAt("cube", 5) /\ Ports["pro"][2] = OneAt("vec", 6)
      /\ DOMAIN OneAt("cube", 5) = {0} /\ DOMAIN OneAt("vec", 6) = {0}
  BY DEF Ports, OneAt
<1>2. /\ \A x \in {0} : OneAt("cube", 5)[x] \in QuietPorts
      /\ \A x \in {0} : OneAt("vec", 6)[x] \in QuietPorts
  BY DEF OneAt, QuietPorts
<1>3. fa' = [v \in Vecs |-> [x \in {0} |-> 0]] /\ fb' = [v \in Vecs |-> [x \in {0} |-> 0]]
  BY <1>1, <1>2, <1>0, QuietLoad DEF Launch
<1>4. Flash!Unwritten = Pro!Unwritten /\ Flash!Stale = Pro!Stale /\ Flash!Tiles = Pro!Tiles
  BY DEF Flash!Unwritten, Pro!Unwritten, Flash!Stale, Pro!Stale, Flash!Tiles, Pro!Tiles
<1>5. QED
  BY <1>3, <1>4 DEF StreamInv, Launch, Pro!Init, Entry, Workspace, Pro!Only

LEMMA LaunchKkt ==
  ASSUME "kkt" \in Cleared, StreamInv, Launch("kkt")
  PROVE  Kkt!Init'
<1>1. /\ Ports["kkt"][1] = At("vec", 0) /\ Ports["kkt"][2] = At("cube", 2)
      /\ DOMAIN At("vec", 0) = Slots /\ DOMAIN At("cube", 2) = Slots
  BY DEF Ports, At
<1>2. fa' = Kkt!NoSignal /\ fb' = Kkt!NoSignal
  <2>1. /\ Load("kkt", 1) = [v \in Vecs |-> [x \in Slots |-> 0]]
        /\ Load("kkt", 2) = [v \in Vecs |-> [x \in Slots |-> 0]]
    BY <1>1, ClearedLoad
  <2>2. Slots = Kkt!Slots
    BY DEF Slots, Kkt!Slots
  <2>3. QED
    BY <2>1, <2>2 DEF Launch, Kkt!NoSignal
<1>3. Flash!Unwritten = Kkt!Unwritten /\ Flash!Stale = Kkt!Stale /\ Flash!Tiles = Kkt!Tiles
  BY DEF Flash!Unwritten, Kkt!Unwritten, Flash!Stale, Kkt!Stale, Flash!Tiles, Kkt!Tiles
<1>4. QED
  BY <1>2, <1>3 DEF StreamInv, Launch, Kkt!Init, Entry, Workspace, Whole,
                    Slots, Kkt!Slots

LEMMA ScanDomain == DOMAIN ScanPorts = {"MM1", "RES", "MM2", "REC"}
BY DEF ScanPorts

LEMMA LaunchScan ==
  ASSUME "scan" \in Cleared, StreamInv, Launch("scan")
  PROVE  Scan!Init'
<1>1. Ports["scan"][1] = ScanPorts
  BY DEF Ports
<1>2. fa' = [v \in Vecs |-> [f \in Scan!Flags |-> 0]]
  <2>1. Load("scan", 1) = [v \in Vecs |-> [x \in DOMAIN ScanPorts |-> 0]]
    BY <1>1, ClearedLoad
  <2>2. DOMAIN ScanPorts = Scan!Flags
    BY ScanDomain DEF Scan!Flags
  <2>3. QED
    BY <2>1, <2>2 DEF Launch
<1>3. QED
  BY <1>2 DEF StreamInv, Launch, Scan!Init, Entry

-----------------------------------------------------------------------------
(* Running: a step of a launch is a step of the kernel.                    *)

Running == CubeStep \/ \E v \in Vecs : VecStep(v)

LEMMA FlashRuns ==
  ASSUME kernel = "flash", Running
  PROVE  [Flash!Next]_(Flash!vars)
BY DEF Running, CubeStep, VecStep, Flash!Next

LEMMA PerDimRuns ==
  ASSUME kernel = "perdim", Running
  PROVE  [PerDim!Next]_(PerDim!vars)
BY DEF Running, CubeStep, VecStep, PerDim!Next

LEMMA ProRuns ==
  ASSUME kernel = "pro", Running
  PROVE  [Pro!Next]_(Pro!vars)
BY DEF Running, CubeStep, VecStep, Pro!Next

LEMMA KktRuns ==
  ASSUME kernel = "kkt", Running
  PROVE  [Kkt!Next]_(Kkt!vars)
BY DEF Running, CubeStep, VecStep, Kkt!Next

LEMMA ScanRuns ==
  ASSUME kernel = "scan", Running
  PROVE  [Scan!Next]_(Scan!vars)
BY DEF Running, CubeStep, VecStep, Scan!Next

LEMMA RunningInv == ASSUME StreamInv, Running PROVE StreamInv'
<1>1. kernel' = kernel /\ bank' = bank /\ kernel \in Kernels
  BY DEF Running, CubeStep, VecStep, Kernels
<1>2. ProtocolsAgree'
  <2>1. kernel = "flash" => Flash!RingInv'
    BY FlashRuns, FlashFacts DEF StreamInv, ProtocolsAgree
  <2>2. kernel = "perdim" => PerDim!RingInv'
    BY PerDimRuns, PerDimFacts DEF StreamInv, ProtocolsAgree
  <2>3. kernel = "pro" => Pro!RingInv'
    BY ProRuns, ProFacts DEF StreamInv, ProtocolsAgree
  <2>4. kernel = "kkt" => Kkt!RingInv'
    BY KktRuns, KktFacts DEF StreamInv, ProtocolsAgree
  <2>5. kernel = "scan" => Scan!ScanInv'
    BY ScanRuns, ScanFacts DEF StreamInv, ProtocolsAgree
  <2>6. QED
    BY <1>1, <2>1, <2>2, <2>3, <2>4, <2>5 DEF ProtocolsAgree
<1>3. cid' \in 0 .. bnum - 1
  <2>1. CASE kernel = "flash"
    BY <1>1, <1>2, <2>1 DEF ProtocolsAgree, Flash!RingInv, Flash!TypeOK
  <2>2. CASE kernel = "perdim"
    BY <1>1, <1>2, <2>2 DEF ProtocolsAgree, PerDim!RingInv, PerDim!TypeOK
  <2>3. CASE kernel = "pro"
    BY <1>1, <1>2, <2>3 DEF ProtocolsAgree, Pro!RingInv, Pro!TypeOK
  <2>4. CASE kernel = "kkt"
    BY <1>1, <1>2, <2>4 DEF ProtocolsAgree, Kkt!RingInv, Kkt!TypeOK
  <2>5. CASE kernel = "scan"
    BY <1>1, <1>2, <2>5 DEF ProtocolsAgree, Scan!ScanInv, Scan!TypeOK
  <2>6. QED
    BY <1>1, <2>1, <2>2, <2>3, <2>4, <2>5 DEF Kernels
<1>4. QED
  BY <1>1, <1>2, <1>3 DEF StreamInv, BankQuiet
-----------------------------------------------------------------------------
(* Returning: what a launch stores back on the quiet ports is zero.        *)

LEMMA StoredFacts ==
  ASSUME NEW k \in Kernels, NEW port, NEW f \in Stored(k, port)
  PROVE  \E j \in 1 .. 3 : \E x \in DOMAIN Ports[k][j] :
            f = <<j, x>> /\ Ports[k][j][x] = port
BY DEF Stored

\* A kernel that has returned and stores a quiet port stores zero.
QuietSaves(k) ==
  \A j \in 1 .. 3 : \A x \in DOMAIN Ports[k][j] : \A v \in Vecs :
    Ports[k][j][x] \in QuietPorts => <<fa, fb, fc>>[j][v][x] = 0

LEMMA FlashSaves == ASSUME StreamInv, Done, kernel = "flash" PROVE QuietSaves("flash")
<1>1. Flash!Done /\ Flash!FlagsBalanced
  BY FlashFacts DEF Done, StreamInv, ProtocolsAgree
<1>2. \A v \in Vecs, x \in Slots : fa[v][x] = 0 /\ fb[v][x] = 0
  BY <1>1 DEF Flash!FlagsBalanced, Flash!Slots, Slots
<1>3. /\ DOMAIN Ports["flash"][1] = Slots /\ DOMAIN Ports["flash"][2] = Slots
      /\ DOMAIN Ports["flash"][3] = {}
  BY DEF Ports, At
<1>4. QED
  BY <1>2, <1>3 DEF QuietSaves

LEMMA PerDimSaves == ASSUME StreamInv, Done, kernel = "perdim" PROVE QuietSaves("perdim")
<1>1. PerDim!Done /\ PerDim!FlagsBalanced
  BY PerDimFacts DEF Done, StreamInv, ProtocolsAgree
<1>2. \A v \in Vecs, x \in Slots : fa[v][x] = 0 /\ fb[v][x] = 0 /\ fc[v][x] = 0
  BY <1>1 DEF PerDim!FlagsBalanced, PerDim!Slots, Slots
<1>3. /\ DOMAIN Ports["perdim"][1] = Slots /\ DOMAIN Ports["perdim"][2] = Slots
      /\ DOMAIN Ports["perdim"][3] = Slots
  BY DEF Ports, At
<1>4. QED
  BY <1>2, <1>3 DEF QuietSaves

LEMMA ProSaves == ASSUME StreamInv, Done, kernel = "pro" PROVE QuietSaves("pro")
<1>1. Pro!Done /\ Pro!FlagsBalanced
  BY ProFacts DEF Done, StreamInv, ProtocolsAgree
<1>2. \A v \in Vecs : fa[v][0] = 0 /\ fb[v][0] = 0
  BY <1>1 DEF Pro!FlagsBalanced, Pro!Only
<1>3. /\ DOMAIN Ports["pro"][1] = {0} /\ DOMAIN Ports["pro"][2] = {0}
      /\ DOMAIN Ports["pro"][3] = {}
  BY DEF Ports, OneAt
<1>4. QED
  BY <1>2, <1>3 DEF QuietSaves

\* The kkt ring and the scan have no quiet port.
LEMMA OthersSave == ASSUME NEW k \in {"kkt", "scan"} PROVE QuietSaves(k)
<1>1. CASE k = "kkt"
  <2>1. /\ Ports["kkt"][1] = At("vec", 0) /\ Ports["kkt"][2] = At("cube", 2)
        /\ DOMAIN Ports["kkt"][3] = {}
        /\ DOMAIN At("vec", 0) = Slots /\ DOMAIN At("cube", 2) = Slots
    BY DEF Ports, At
  <2>2. /\ \A x \in Slots : At("vec", 0)[x] \notin QuietPorts
        /\ \A x \in Slots : At("cube", 2)[x] \notin QuietPorts
    BY DEF At, Slots, QuietPorts
  <2>3. QED
    BY <1>1, <2>1, <2>2 DEF QuietSaves
<1>2. CASE k = "scan"
  <2>1. /\ Ports[k][1] = ScanPorts /\ DOMAIN Ports[k][2] = {} /\ DOMAIN Ports[k][3] = {}
    BY <1>2 DEF Ports
  <2>2. \A x \in DOMAIN ScanPorts : ScanPorts[x] \notin QuietPorts
    BY ScanDomain DEF ScanPorts, QuietPorts
  <2>3. QED
    BY <2>1, <2>2 DEF QuietSaves
<1>3. QED
  BY <1>1, <1>2

LEMMA SaveIsQuiet ==
  ASSUME StreamInv, NEW k \in Kernels, QuietSaves(k), NEW port \in QuietPorts, NEW v \in Vecs
  PROVE  Save(k, port, v) = 0
<1>1. CASE Stored(k, port) # {}
  <2> DEFINE f == CHOOSE f \in Stored(k, port) : TRUE
  <2>1. f \in Stored(k, port)
    BY <1>1
  <2>2. PICK j \in 1 .. 3 : \E x \in DOMAIN Ports[k][j] : f = <<j, x>> /\ Ports[k][j][x] = port
    BY <2>1, StoredFacts
  <2>3. PICK x \in DOMAIN Ports[k][j] : f = <<j, x>> /\ Ports[k][j][x] = port
    BY <2>2
  <2>4. <<fa, fb, fc>>[j][v][x] = 0
    BY <1>1, <2>3 DEF QuietSaves
  <2>5. f[1] = j /\ f[2] = x
    <3> HIDE DEF f
    <3>1. QED
      BY <2>3
  <2>6. <<fa, fb, fc>>[f[1]][v][f[2]] = 0
    <3> HIDE DEF f
    <3>1. QED
      BY <2>4, <2>5
  <2>7. QED
    BY <1>1, <2>6 DEF Save
<1>2. CASE Stored(k, port) = {}
  BY <1>2 DEF Save, StreamInv, BankQuiet
<1>3. QED
  BY <1>1, <1>2

\* What a kernel stores back is a count.
CountSaves(k) ==
  \A j \in 1 .. 3 : \A x \in DOMAIN Ports[k][j] : \A v \in Vecs :
    <<fa, fb, fc>>[j][v][x] \in Nat

LEMMA KernelSaves == ASSUME StreamInv, kernel \in Kernels PROVE CountSaves(kernel)
<1>1. CASE kernel = "flash"
  <2>1. \A v \in Vecs, x \in Slots : fa[v][x] \in Nat /\ fb[v][x] \in Nat
    BY <1>1 DEF StreamInv, ProtocolsAgree, Flash!RingInv, Flash!TypeOK, Flash!Counters2, Flash!Slots, Slots
  <2>2. /\ DOMAIN Ports["flash"][1] = Slots /\ DOMAIN Ports["flash"][2] = Slots
        /\ DOMAIN Ports["flash"][3] = {}
    BY DEF Ports, At
  <2>3. ASSUME NEW j \in 1 .. 3, NEW x \in DOMAIN Ports["flash"][j], NEW v \in Vecs
        PROVE  <<fa, fb, fc>>[j][v][x] \in Nat
    BY <2>1, <2>2
  <2>4. QED
    BY <1>1, <2>3 DEF CountSaves
<1>2. CASE kernel = "perdim"
  <2>1. \A v \in Vecs, x \in Slots : fa[v][x] \in Nat /\ fb[v][x] \in Nat /\ fc[v][x] \in Nat
    BY <1>2 DEF StreamInv, ProtocolsAgree, PerDim!RingInv, PerDim!TypeOK, PerDim!Counters2, PerDim!Slots, Slots
  <2>2. /\ DOMAIN Ports["perdim"][1] = Slots /\ DOMAIN Ports["perdim"][2] = Slots
        /\ DOMAIN Ports["perdim"][3] = Slots
    BY DEF Ports, At
  <2>3. ASSUME NEW j \in 1 .. 3, NEW x \in DOMAIN Ports["perdim"][j], NEW v \in Vecs
        PROVE  <<fa, fb, fc>>[j][v][x] \in Nat
    BY <2>1, <2>2
  <2>4. QED
    BY <1>2, <2>3 DEF CountSaves
<1>3. CASE kernel = "pro"
  <2>1. \A v \in Vecs : fa[v][0] \in Nat /\ fb[v][0] \in Nat
    BY <1>3 DEF StreamInv, ProtocolsAgree, Pro!RingInv, Pro!TypeOK, Pro!Counters1, Pro!Only
  <2>2. /\ DOMAIN Ports["pro"][1] = {0} /\ DOMAIN Ports["pro"][2] = {0}
        /\ DOMAIN Ports["pro"][3] = {}
    BY DEF Ports, OneAt
  <2>3. ASSUME NEW j \in 1 .. 3, NEW x \in DOMAIN Ports["pro"][j], NEW v \in Vecs
        PROVE  <<fa, fb, fc>>[j][v][x] \in Nat
    BY <2>1, <2>2
  <2>4. QED
    BY <1>3, <2>3 DEF CountSaves
<1>4. CASE kernel = "kkt"
  <2>1. \A v \in Vecs, x \in Slots : fa[v][x] \in Nat /\ fb[v][x] \in Nat
    BY <1>4 DEF StreamInv, ProtocolsAgree, Kkt!RingInv, Kkt!TypeOK, Kkt!Counters2, Kkt!Slots, Slots
  <2>2. /\ DOMAIN Ports["kkt"][1] = Slots /\ DOMAIN Ports["kkt"][2] = Slots
        /\ DOMAIN Ports["kkt"][3] = {}
    BY DEF Ports, At
  <2>3. ASSUME NEW j \in 1 .. 3, NEW x \in DOMAIN Ports["kkt"][j], NEW v \in Vecs
        PROVE  <<fa, fb, fc>>[j][v][x] \in Nat
    BY <2>1, <2>2
  <2>4. QED
    BY <1>4, <2>3 DEF CountSaves
<1>5. CASE kernel = "scan"
  <2>1. \A v \in Vecs, x \in {"MM1", "RES", "MM2", "REC"} : fa[v][x] \in Nat
    BY <1>5 DEF StreamInv, ProtocolsAgree, Scan!ScanInv, Scan!TypeOK, Scan!Flags
  <2>2. /\ DOMAIN Ports["scan"][1] = {"MM1", "RES", "MM2", "REC"}
        /\ DOMAIN Ports["scan"][2] = {} /\ DOMAIN Ports["scan"][3] = {}
    BY DEF Ports, ScanPorts
  <2>3. ASSUME NEW j \in 1 .. 3, NEW x \in DOMAIN Ports["scan"][j], NEW v \in Vecs
        PROVE  <<fa, fb, fc>>[j][v][x] \in Nat
    BY <2>1, <2>2
  <2>4. QED
    BY <1>5, <2>3 DEF CountSaves
<1>6. QED
  BY <1>1, <1>2, <1>3, <1>4, <1>5 DEF Kernels

LEMMA SaveIsCount ==
  ASSUME StreamInv, NEW k \in Kernels, CountSaves(k), NEW port \in AllPorts, NEW v \in Vecs
  PROVE  Save(k, port, v) \in Nat
<1>1. CASE Stored(k, port) # {}
  <2> DEFINE f == CHOOSE f \in Stored(k, port) : TRUE
  <2>1. f \in Stored(k, port)
    BY <1>1
  <2>2. PICK j \in 1 .. 3 : \E x \in DOMAIN Ports[k][j] : f = <<j, x>>
    BY <2>1, StoredFacts
  <2>3. PICK x \in DOMAIN Ports[k][j] : f = <<j, x>>
    BY <2>2
  <2>4. <<fa, fb, fc>>[j][v][x] \in Nat
    BY <1>1 DEF CountSaves
  <2>5. <<fa, fb, fc>>[f[1]][v][f[2]] \in Nat
    <3> HIDE DEF f
    <3>1. f[1] = j /\ f[2] = x
      BY <2>3
    <3>2. QED
      BY <2>4, <3>1
  <2>6. QED
    BY <1>1, <2>5 DEF Save
<1>2. CASE Stored(k, port) = {}
  BY <1>2 DEF Save, StreamInv
<1>3. QED
  BY <1>1, <1>2

LEMMA ReturnInv == ASSUME StreamInv, Return PROVE StreamInv'
<1>1. kernel \in Kernels
  BY DEF Return, Done, StreamInv, Kernels
<1>2. QuietSaves(kernel)
  BY <1>1, FlashSaves, PerDimSaves, ProSaves, OthersSave DEF Return, Kernels
<1>3. BankQuiet'
  <2> SUFFICES ASSUME NEW port \in QuietPorts, NEW v \in Vecs PROVE bank'[port][v] = 0
    BY DEF BankQuiet
  <2>1. port \in AllPorts
    BY DEF QuietPorts, AllPorts
  <2>2. QED
    BY <1>1, <1>2, <2>1, SaveIsQuiet DEF Return
<1>4. bank' \in [AllPorts -> [Vecs -> Nat]]
  BY <1>1, KernelSaves, SaveIsCount DEF Return
<1>5. QED
  BY <1>3, <1>4 DEF Return, StreamInv, ProtocolsAgree, Kernels
-----------------------------------------------------------------------------
(* The theorems.                                                           *)

LEMMA InitInv == Init => StreamInv
BY DEF Init, StreamInv, BankQuiet, ProtocolsAgree, QuietPorts, AllPorts, Kernels

LEMMA LaunchInv ==
  ASSUME RuntimeClears, StreamInv, NEW k \in Kernels, Launch(k)
  PROVE  StreamInv'
<1>1. kernel' = k /\ bank' = bank /\ cid' = cid
  BY DEF Launch
<1>2. ProtocolsAgree'
  BY <1>1, LaunchFlash, LaunchPerDim, LaunchPro, LaunchKkt, LaunchScan, InitsPrimed
  DEF ProtocolsAgree, RuntimeClears
<1>3. QED
  BY <1>1, <1>2 DEF StreamInv, BankQuiet

LEMMA NextInv ==
  ASSUME RuntimeClears
  PROVE  StreamInv /\ [Next]_vars => StreamInv'
<1> SUFFICES ASSUME StreamInv, [Next]_vars PROVE StreamInv'
  OBVIOUS
<1>1. CASE \E k \in Kernels : Launch(k)
  BY <1>1, LaunchInv
<1>2. CASE Running
  BY <1>2, RunningInv
<1>3. CASE Return
  BY <1>3, ReturnInv
<1>4. CASE UNCHANGED vars
  <2>1. UNCHANGED <<kernel, bank, cid>>
    BY <1>4 DEF vars
  <2>2. /\ UNCHANGED Flash!vars /\ UNCHANGED PerDim!vars /\ UNCHANGED Pro!vars
        /\ UNCHANGED Kkt!vars /\ UNCHANGED Scan!vars
    BY <1>4 DEF vars, processors, Flash!vars, Flash!cubeVars, Flash!vecVars, PerDim!vars,
                PerDim!cubeVars, PerDim!vecVars, PerDim!flagVars, Pro!vars, Pro!cubeVars,
                Pro!vecVars, Kkt!vars, Scan!vars, Scan!cubeVars, Scan!vecVars
  <2>3. ProtocolsAgree'
    BY <2>1, <2>2, FlashFacts, PerDimFacts, ProFacts, KktFacts, ScanFacts
    DEF StreamInv, ProtocolsAgree
  <2>4. QED
    BY <2>1, <2>3 DEF StreamInv, BankQuiet
<1>5. QED
  BY <1>1, <1>2, <1>3, <1>4 DEF Next, Running, Idle

\* Between the launches of a stream of any length the quiet ports are at zero,
\* and in every launch the invariants of the rings hold.
THEOREM StreamInvariance ==
  ASSUME RuntimeClears
  PROVE  Spec => []StreamInv
BY InitInv, NextInv, PTL DEF Spec

\* No slot of a ring is written in use, whatever was launched before.
THEOREM NoOverwrite ==
  ASSUME RuntimeClears
  PROVE  Spec => []SlotExclusion
<1>1. StreamInv => SlotExclusion
  BY FlashFacts, PerDimFacts, ProFacts, KktFacts DEF StreamInv, ProtocolsAgree, SlotExclusion
<1>2. QED
  BY <1>1, StreamInvariance, PTL

\* Every launch of the stream writes each of its tiles from its own operands.
THEOREM OutputsAreExact ==
  ASSUME RuntimeClears
  PROVE  Spec => []OutputsExact
<1>1. StreamInv => OutputsExact
  BY FlashFacts, PerDimFacts, ProFacts, KktFacts DEF StreamInv, ProtocolsAgree, OutputsExact
<1>2. QED
  BY <1>1, StreamInvariance, PTL

\* No signal is lost or given twice: a launch leaves its own counters at zero,
\* and the kkt ring at its two credits.
THEOREM SignalsAreBalanced ==
  ASSUME RuntimeClears
  PROVE  Spec => []SignalsBalanced
<1>1. StreamInv => SignalsBalanced
  BY FlashFacts, PerDimFacts, ProFacts, KktFacts, ScanFacts
  DEF StreamInv, ProtocolsAgree, SignalsBalanced
<1>2. QED
  BY <1>1, StreamInvariance, PTL

\* A scan of the stream starts each of its units from the zero state.
THEOREM ScansStartFromZero ==
  ASSUME RuntimeClears
  PROVE  Spec => []FirstReadoutZero
<1>1. StreamInv => FirstReadoutZero
  BY ScanFacts DEF StreamInv, ProtocolsAgree, FirstReadoutZero
<1>2. QED
  BY <1>1, StreamInvariance, PTL

\* A scan that returns has written all the outputs of the core's units.
THEOREM ScansComplete ==
  ASSUME RuntimeClears
  PROVE  Spec => []ScanComplete
<1>1. StreamInv => ScanComplete
  BY ScanFacts DEF StreamInv, ProtocolsAgree, ScanComplete
<1>2. QED
  BY <1>1, StreamInvariance, PTL

\* In every scan of the stream, run by both Vecs on one workspace, every output
\* before the first that one Vec overtook is a state of the recurrence, and the
\* next unit is exact again, until a unit that is not finite.
THEOREM ScansAreExact ==
  ASSUME RuntimeClears
  PROVE  Spec => []ExactUnlessOvertaken
<1>1. StreamInv => ExactUnlessOvertaken
  BY ScanFacts DEF StreamInv, ProtocolsAgree, ExactUnlessOvertaken
<1>2. QED
  BY <1>1, StreamInvariance, PTL

\* The running kernel's variables and the bank keep their types.
THEOREM TypeCorrect ==
  ASSUME RuntimeClears
  PROVE  Spec => []TypeOK
<1>1. StreamInv => TypeOK
  BY ScanFacts
  DEF StreamInv, ProtocolsAgree, TypeOK, Flash!RingInv, PerDim!RingInv, Pro!RingInv, Kkt!RingInv
<1>2. QED
  BY <1>1, StreamInvariance, PTL

\* Clearing the counters before the kkt ring and the scan is enough for every
\* launch of every stream to start in the initial state of its kernel.
THEOREM LaunchesStartClean ==
  ASSUME RuntimeClears
  PROVE  Spec => StartsClean
<1> DEFINE Clean ==
      /\ kernel' = "flash"   => Flash!Init'
      /\ kernel' = "perdim"  => PerDim!Init'
      /\ kernel' = "pro"     => Pro!Init'
      /\ kernel' = "kkt"     => Kkt!Init'
      /\ kernel' = "scan"    => Scan!Init'
<1>1. StreamInv /\ [Next]_vars => [Clean]_kernel
  <2> SUFFICES ASSUME StreamInv, [Next]_vars PROVE [Clean]_kernel
    OBVIOUS
  <2>1. CASE \E k \in Kernels : Launch(k)
    <3>1. PICK k \in Kernels : Launch(k)
      BY <2>1
    <3>2. kernel' = k
      BY <3>1 DEF Launch
    <3>3. QED
      BY <3>1, <3>2, LaunchFlash, LaunchPerDim, LaunchPro, LaunchKkt, LaunchScan
      DEF RuntimeClears
  <2>2. CASE Return
    BY <2>2 DEF Return
  <2>3. CASE CubeStep \/ (\E v \in Vecs : VecStep(v)) \/ Idle \/ UNCHANGED vars
    BY <2>3 DEF CubeStep, VecStep, Idle, vars
  <2>4. QED
    BY <2>1, <2>2, <2>3 DEF Next
<1>2. StreamInv /\ [Next]_vars => StreamInv'
  BY NextInv
<1>3. QED
  BY <1>1, <1>2, InitInv, PTL DEF Spec, StartsClean

\* In every launch, a flash kernel writes each tile once, whole, and each Vec
\* of the prologue and the kkt ring its half of it.
THEOREM Refinement ==
  ASSUME RuntimeClears
  PROVE  Spec => ImplementsTileMap
<1> DEFINE Maps ==
      /\ kernel = "perdim" /\ kernel' = "perdim" => [PerDim!TM!Next]_(PerDim!TileOut)
      /\ kernel = "flash" /\ kernel' = "flash" => [Flash!TM!Next]_(Flash!TileOut)
      /\ kernel = "pro" /\ kernel' = "pro" => [Pro!TM!Next]_(Pro!HalfOut)
      /\ kernel = "kkt" /\ kernel' = "kkt" => [Kkt!TM!Next]_(Kkt!HalfOut)
<1>1. StreamInv /\ StreamInv' /\ [Next]_vars => [Maps]_vars
  <2> SUFFICES ASSUME StreamInv, StreamInv', Next PROVE Maps
    OBVIOUS
  <2>1. CASE Running
    <3>1. ASSUME kernel = "perdim", kernel' = "perdim"
          PROVE  [PerDim!TM!Next]_(PerDim!TileOut)
      BY <2>1, <3>1, Sizes, PerDimRuns, PerDim!StepRefines DEF StreamInv, ProtocolsAgree
    <3>2. ASSUME kernel = "flash", kernel' = "flash"
          PROVE  [Flash!TM!Next]_(Flash!TileOut)
      BY <2>1, <3>2, Sizes, FlashRuns, Flash!StepRefines DEF StreamInv, ProtocolsAgree
    <3>3. ASSUME kernel = "pro", kernel' = "pro" PROVE [Pro!TM!Next]_(Pro!HalfOut)
      BY <2>1, <3>3, Sizes, ProRuns, Pro!StepRefines DEF StreamInv, ProtocolsAgree
    <3>4. ASSUME kernel = "kkt", kernel' = "kkt" PROVE [Kkt!TM!Next]_(Kkt!HalfOut)
      BY <2>1, <3>4, Sizes, KktRuns, Kkt!StepRefines DEF StreamInv, ProtocolsAgree
    <3>5. QED
      BY <3>1, <3>2, <3>3, <3>4
  <2>2. CASE Return \/ Idle \/ \E k \in Kernels : Launch(k)
    BY <2>2 DEF Return, Idle, Launch
  <2>3. QED
    BY <2>1, <2>2 DEF Next, Running
<1>2. StreamInv /\ [Next]_vars => StreamInv'
  BY NextInv
<1>3. QED
  BY <1>1, <1>2, InitInv, PTL DEF Spec, ImplementsTileMap
=============================================================================
