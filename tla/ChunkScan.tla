------------------------------ MODULE ChunkScan ------------------------------
(***************************************************************************)
(* One AICore running scan_kernel (kernels/scan_fused.h): for each (b,h)   *)
(* unit the core owns, a sequential scan over NC chunks,                   *)
(*     h_out[c] = S ;  vc = u[c] - w[c]@S ;  S = decay[c]*S + k[c]^T@vc    *)
(* with the matmuls on the Cube, the rest on the Vecs, four FFTS flags and *)
(* one workspace per core.                                                 *)
(*                                                                         *)
(* Unlike the tile kernels, this one never asks for its subblock number:   *)
(* each Vec that runs it executes the whole Vec side, on the same          *)
(* workspace.  Vecs is the set of those that do.                           *)
(*                                                                         *)
(* A Vec operation is a load (with the wait before it) and a store (with   *)
(* the signal after it): a wait and a signal only move the actor's own     *)
(* counter, so joining them to the access hides no interleaving.           *)
(***************************************************************************)
EXTENDS Integers, Ffts

CONSTANTS UNITS,       \* number of (b,h) units (B * H)
          NC,          \* number of chunks
          bnum,        \* number of cores launched
          NonFinite    \* units whose operands are not finite, or whose state overflows half

Flags == {"MM1", "RES", "MM2", "REC"}

\* Values are named by where they come from: <<u, c>> is what the reference
\* computes for chunk c of unit u.  A state after no chunk is the zero matrix.
Zero == <<-1, 0>>
Bad  == <<-1, 1>>         \* finite, and not what the reference computes
NaN  == <<-1, 2>>
None == <<-1, 3>>         \* an output that is not written yet
R(u, c) == IF c = 0 THEN Zero ELSE <<u, c>>

Values  == ((0 .. UNITS - 1) \X (0 .. NC)) \union {Zero, Bad, NaN, None}
Outputs == (0 .. UNITS - 1) \X (0 .. NC)    \* h_out, and final as chunk NC

VARIABLES
  cid,                  \* get_block_idx
  cpc, cu, cc, creg,    \* the Cube: place, unit, chunk, operand being read
  vpc, vu, vc, vreg,    \* each Vec likewise; vreg holds S and the other operand
  flag,                 \* the four counters
  S, WS, VC, KV,        \* the core's workspace
  h,                    \* h_out and final
  overtaken             \* history, not in the code: the outputs from which on, within
                        \* their unit, a Vec lost a state it had still to read

cubeVars == <<cpc, cu, cc, creg>>
vecVars  == <<vpc, vu, vc, vreg>>
vars     == <<cid, cubeVars, vecVars, flag, S, WS, VC, KV, h, overtaken>>

TypeOK ==
  /\ cid \in 0 .. bnum - 1
  /\ cpc \in {"ws", "wsOut", "kv", "kvOut", "drain", "done"}
  /\ cu \in Nat /\ cc \in 0 .. NC /\ creg \in Values
  /\ vpc \in [Vecs -> {"zero", "prime", "read", "readOut", "recur", "recurOut",
                       "final", "finalOut", "done"}]
  /\ vu \in [Vecs -> Nat] /\ vc \in [Vecs -> 0 .. NC]
  /\ vreg \in [Vecs -> Values \X Values]
  /\ flag \in [Vecs -> [Flags -> Nat]]
  /\ {S, WS, VC, KV} \subseteq Values
  /\ h \in [Outputs -> Values]
  /\ overtaken \subseteq Outputs

\* The arithmetic, on names: a result is the reference's when its operands are.
\* Residual and both matmuls of chunk c: good if their input is.
Derive(x, good, u, c) == IF x = NaN THEN NaN ELSE IF x = good THEN <<u, c>> ELSE Bad

Recurrence(s, x, u, c) ==
  IF s = NaN \/ x = NaN \/ u \in NonFinite THEN NaN
  ELSE IF s = R(u, c) /\ x = <<u, c>> THEN R(u, c + 1) ELSE Bad

\* vec_zero_state computes x - x, which is zero for a finite x only.
Minus(x) == IF x = NaN THEN NaN ELSE Zero

\* Slip: the unit loop stops one stride early.
MoreStopsEarly(u) == u + bnum < UNITS

\* The loop "for (unit = cid; unit < UNITS; unit += bnum)".
More(u) == u < UNITS

\* The workspace is cleared when it is allocated, then keeps what the last
\* launch left: any finite state.
Init ==
  /\ cid \in 0 .. bnum - 1
  /\ cu = cid /\ cc = 0 /\ creg = Bad
  /\ cpc = IF More(cid) THEN "ws" ELSE "done"
  /\ vu = [v \in Vecs |-> cid] /\ vc = [v \in Vecs |-> 0]
  /\ vreg = [v \in Vecs |-> <<Bad, Bad>>]
  /\ vpc = [v \in Vecs |-> IF More(cid) THEN "zero" ELSE "done"]
  /\ flag = [v \in Vecs |-> [f \in Flags |-> 0]]
  /\ S \in {Zero, Bad} /\ WS = S /\ VC = S /\ KV = S
  /\ h = [p \in Outputs |-> None]
  /\ overtaken = {}
-----------------------------------------------------------------------------
(* The Cube: WS = w @ S, then KV = k^T @ vc, per chunk.                    *)

LoadS ==
  /\ cpc = "ws" /\ CubeMayPass(flag, "REC")
  /\ flag' = CubePasses(flag, "REC")
  /\ cpc' = "wsOut" /\ creg' = S
  /\ UNCHANGED <<cid, cu, cc, vecVars, S, WS, VC, KV, h, overtaken>>

StoreWS ==
  /\ cpc = "wsOut"
  /\ WS' = Derive(creg, R(cu, cc), cu, cc)
  /\ flag' = CubeSignals(flag, "MM1")
  /\ cpc' = "kv"
  /\ UNCHANGED <<cid, cu, cc, creg, vecVars, S, VC, KV, h, overtaken>>

\* Slip: k^T @ vc does not wait for the residual.
LoadVCNoWait ==
  /\ cpc = "kv"
  /\ cpc' = "kvOut" /\ creg' = VC
  /\ UNCHANGED <<cid, cu, cc, vecVars, flag, S, WS, VC, KV, h, overtaken>>

LoadVC ==
  /\ cpc = "kv" /\ CubeMayPass(flag, "RES")
  /\ flag' = CubePasses(flag, "RES")
  /\ cpc' = "kvOut" /\ creg' = VC
  /\ UNCHANGED <<cid, cu, cc, vecVars, S, WS, VC, KV, h, overtaken>>

StoreKV ==
  /\ cpc = "kvOut"
  /\ KV' = Derive(creg, <<cu, cc>>, cu, cc)
  /\ flag' = CubeSignals(flag, "MM2")
  /\ cc' = cc + 1
  /\ cpc' = IF cc + 1 < NC THEN "ws" ELSE "drain"
  /\ UNCHANGED <<cid, cu, creg, vecVars, S, WS, VC, h, overtaken>>

\* Slip: the last signal of the unit is not consumed.
DrainSkips ==
  /\ cpc = "drain"
  /\ cu' = cu + bnum /\ cc' = 0
  /\ cpc' = IF More(cu + bnum) THEN "ws" ELSE "done"
  /\ UNCHANGED <<cid, creg, vecVars, flag, S, WS, VC, KV, h, overtaken>>

\* Consumes the signal of the last recurrence, then takes the next unit.
Drain ==
  /\ cpc = "drain" /\ CubeMayPass(flag, "REC")
  /\ flag' = CubePasses(flag, "REC")
  /\ cu' = cu + bnum /\ cc' = 0
  /\ cpc' = IF More(cu + bnum) THEN "ws" ELSE "done"
  /\ UNCHANGED <<cid, creg, vecVars, S, WS, VC, KV, h, overtaken>>
-----------------------------------------------------------------------------
(* Vec v.                                                                  *)

Goto(v, place) == vpc' = [vpc EXCEPT ![v] = place]
Keep(v, s, x)  == vreg' = [vreg EXCEPT ![v] = <<s, x>>]

Chunk(v) == <<vu[v], vc[v]>>

\* History: the outputs that a store to S by v takes from under the other Vecs.
\* The next state hits those with this chunk's state still to load, the zero of
\* the next unit those with the final state still to load.
NextHits(v) ==
  {<<vu[x], vc[x] + 1>> : x \in {y \in Vecs : Chunk(y) = Chunk(v) /\ vpc[y] = "recur"}}
ZeroHits(v) ==
  {<<vu[x], NC>> : x \in {y \in Vecs : vu[y] # vu[v] /\ vpc[y] = "final"}}

ZeroLoad(v) ==
  /\ vpc[v] = "zero" /\ Goto(v, "prime") /\ Keep(v, S, S)
  /\ UNCHANGED <<cid, cubeVars, vu, vc, flag, S, WS, VC, KV, h, overtaken>>

\* Slip: S is not zeroed.
ZeroStoreKeeps(v) ==
  /\ vpc[v] = "prime" /\ Goto(v, "read")
  /\ flag' = VecSignals(flag, v, "REC")
  /\ UNCHANGED <<cid, cubeVars, vu, vc, vreg, S, WS, VC, KV, h, overtaken>>

ZeroStore(v) ==
  /\ vpc[v] = "prime" /\ Goto(v, "read")
  /\ S' = Minus(vreg[v][1])
  /\ flag' = VecSignals(flag, v, "REC")
  /\ overtaken' = overtaken \union ZeroHits(v)
  /\ UNCHANGED <<cid, cubeVars, vu, vc, vreg, WS, VC, KV, h>>

ReadoutLoad(v) ==
  /\ vpc[v] = "read" /\ VecMayPass(flag, v, "MM1")
  /\ flag' = VecPasses(flag, v, "MM1")
  /\ Goto(v, "readOut") /\ Keep(v, S, WS)
  /\ UNCHANGED <<cid, cubeVars, vu, vc, S, WS, VC, KV, h, overtaken>>

ReadoutStore(v) ==
  /\ vpc[v] = "readOut" /\ Goto(v, "recur")
  /\ h' = [h EXCEPT ![<<vu[v], vc[v]>>] = vreg[v][1]]
  /\ VC' = Derive(vreg[v][2], <<vu[v], vc[v]>>, vu[v], vc[v])
  /\ flag' = VecSignals(flag, v, "RES")
  /\ UNCHANGED <<cid, cubeVars, vu, vc, vreg, S, WS, KV, overtaken>>

RecurrenceLoad(v) ==
  /\ vpc[v] = "recur" /\ VecMayPass(flag, v, "MM2")
  /\ flag' = VecPasses(flag, v, "MM2")
  /\ Goto(v, "recurOut") /\ Keep(v, S, KV)
  /\ UNCHANGED <<cid, cubeVars, vu, vc, S, WS, VC, KV, h, overtaken>>

RecurrenceStore(v) ==
  /\ vpc[v] = "recurOut"
  /\ S' = Recurrence(vreg[v][1], vreg[v][2], vu[v], vc[v])
  /\ flag' = VecSignals(flag, v, "REC")
  /\ vc' = [vc EXCEPT ![v] = @ + 1]
  /\ Goto(v, IF vc[v] + 1 < NC THEN "read" ELSE "final")
  /\ overtaken' = overtaken \union NextHits(v)
  /\ UNCHANGED <<cid, cubeVars, vu, vreg, WS, VC, KV, h>>

\* The final state is stored with no handshake: the Cube only reads S next.
FinalLoad(v) ==
  /\ vpc[v] = "final" /\ Goto(v, "finalOut") /\ Keep(v, S, S)
  /\ UNCHANGED <<cid, cubeVars, vu, vc, flag, S, WS, VC, KV, h, overtaken>>

FinalStore(v) ==
  /\ vpc[v] = "finalOut"
  /\ h' = [h EXCEPT ![<<vu[v], NC>>] = vreg[v][1]]
  /\ vu' = [vu EXCEPT ![v] = @ + bnum] /\ vc' = [vc EXCEPT ![v] = 0]
  /\ Goto(v, IF More(vu[v] + bnum) THEN "zero" ELSE "done")
  /\ UNCHANGED <<cid, cubeVars, vreg, flag, S, WS, VC, KV, overtaken>>
-----------------------------------------------------------------------------
Cube == LoadS \/ StoreWS \/ LoadVC \/ StoreKV \/ Drain
Vec(v) ==
  \/ ZeroLoad(v) \/ ZeroStore(v) \/ ReadoutLoad(v) \/ ReadoutStore(v)
  \/ RecurrenceLoad(v) \/ RecurrenceStore(v) \/ FinalLoad(v) \/ FinalStore(v)

Done == cpc = "done" /\ \A v \in Vecs : vpc[v] = "done"
Exited == Done /\ UNCHANGED vars

Next == Cube \/ (\E v \in Vecs : Vec(v)) \/ Exited

Spec == Init /\ [][Next]_vars
-----------------------------------------------------------------------------
(* Properties.                                                             *)

\* Units before which this core has run no unit that is not finite.
Untainted(u) == \A x \in NonFinite : x % bnum = cid => u < x

\* The state read out before chunk c, and the state stored after the last
\* chunk, are those of the recurrence of that unit alone, although all the
\* units of a core share one workspace that is never freed.
ScanExact ==
  \A p \in Outputs : Untainted(p[1]) => h[p] \in {None, R(p[1], p[2])}

\* No Vec has lost a state that output c of unit u depends on.
Intact(u, c) == \A q \in overtaken : q[1] = u => c < q[2]

\* A Vec that stores S before another has loaded it is all that can spoil an
\* output: whatever the Vecs, every output before the first one hit is that of
\* its unit's recurrence, and the next unit is not touched by what the last lost.
ExactUnlessOvertaken ==
  \A p \in Outputs :
    Untainted(p[1]) /\ Intact(p[1], p[2]) => h[p] \in {None, R(p[1], p[2])}

\* The same for every unit whose own state stays finite: the units are
\* independent.
UnitsIndependent ==
  \A p \in Outputs : p[1] \notin NonFinite => h[p] \in {None, R(p[1], p[2])}

\* The first chunk of a unit always starts from the zero state, whatever the
\* unit before it left: the Cube waits for every Vec to have zeroed it.
FirstReadoutZero ==
  \A p \in Outputs : p[2] = 0 /\ Untainted(p[1]) => h[p] \in {None, Zero}

\* When the core returns, all outputs of its units are written.
ScanComplete ==
  Done => \A p \in Outputs : p[1] % bnum = cid => h[p] # None

\* The chunk loop is in lock step: the Vecs are never a whole operation ahead
\* of the Cube, except to prime the next unit, and no signal is left over.
Handshake ==
  \A v \in Vecs :
    /\ \A f \in {"MM1", "RES", "MM2"} : flag[v][f] <= 1
    /\ flag[v]["REC"] <= 2
    /\ flag[v]["REC"] = 2 => cpc = "drain" /\ vu[v] = cu + bnum
    /\ Done => \A f \in Flags : flag[v][f] = 0

\* The inductive invariant.  Per unit, the signals a side has given and the waits
\* it has passed follow from where it is; a counter is the difference of two.
RecGot   == IF cpc \in {"wsOut", "kv", "kvOut"} THEN cc + 1 ELSE cc
Mm1Given == IF cpc \in {"kv", "kvOut"} THEN cc + 1 ELSE cc
ResGot   == IF cpc = "kvOut" THEN cc + 1 ELSE cc
RecGiven(v) == IF vpc[v] \in {"zero", "prime", "done"} THEN 0 ELSE vc[v] + 1
Mm1Got(v)   == IF vpc[v] \in {"readOut", "recur", "recurOut"} THEN vc[v] + 1 ELSE vc[v]
ResGiven(v) == IF vpc[v] \in {"recur", "recurOut"} THEN vc[v] + 1 ELSE vc[v]
Mm2Got(v)   == IF vpc[v] = "recurOut" THEN vc[v] + 1 ELSE vc[v]

Cursors ==
  /\ cu % bnum = cid /\ (cpc = "done" <=> ~ More(cu)) /\ (cpc = "drain" <=> cc = NC)
  /\ cpc = "done" => cc = 0
  /\ \A v \in Vecs :
       /\ vu[v] % bnum = cid /\ (vpc[v] = "done" <=> ~ More(vu[v]))
       /\ vpc[v] \in {"final", "finalOut"} <=> vc[v] = NC
       /\ vpc[v] \in {"zero", "prime", "done"} => vc[v] = 0

\* In one unit nobody passes a wait before its signal; a side leaves a unit
\* ahead of the other only at its two ends.
SameUnit(v) ==
  /\ vu[v] = cu
  /\ RecGot <= RecGiven(v) /\ flag[v]["REC"] = RecGiven(v) - RecGot
  /\ Mm1Got(v) <= Mm1Given /\ flag[v]["MM1"] = Mm1Given - Mm1Got(v)
  /\ ResGot <= ResGiven(v) /\ flag[v]["RES"] = ResGiven(v) - ResGot
  /\ Mm2Got(v) <= cc /\ flag[v]["MM2"] = cc - Mm2Got(v)

VecAhead(v) ==
  /\ vu[v] = cu + bnum /\ cpc = "drain" /\ vc[v] = 0
  /\ vpc[v] \in {"zero", "prime", "read", "done"}
  /\ \A f \in Flags : flag[v][f] = IF f = "REC" THEN 1 + RecGiven(v) ELSE 0

CubeAhead(v) ==
  /\ cu = vu[v] + bnum /\ cpc \in {"ws", "done"} /\ cc = 0
  /\ vpc[v] \in {"final", "finalOut"}
  /\ \A f \in Flags : flag[v][f] = 0

Phases == \A v \in Vecs : SameUnit(v) \/ VecAhead(v) \/ CubeAhead(v)

\* Until the core takes a unit that is not finite, nothing is, and S is zero
\* once every Vec has zeroed it for the first chunk.
AllZeroed ==
  \A v \in Vecs : vc[v] = 0 /\ vpc[v] \in {"read", "readOut", "recur", "recurOut"}

FiniteData ==
  /\ NaN \notin {S, WS, VC, KV, creg} /\ \A v \in Vecs : NaN \notin {vreg[v][1], vreg[v][2]}
  /\ AllZeroed => S = Zero
  /\ \A v \in Vecs : vpc[v] = "readOut" /\ vc[v] = 0 => vreg[v][1] = Zero

Finite == Untainted(cu) => FiniteData

\* What each Vec has written.
WrittenUpTo(v) ==
  \A p \in Outputs :
    p[1] % bnum = cid /\ (p[1] < vu[v] \/ (p[1] = vu[v] /\ p[2] < ResGiven(v))) => h[p] # None

Written ==
  /\ None \notin {S, WS, VC, KV, creg} /\ \A v \in Vecs : None \notin {vreg[v][1], vreg[v][2]}
  /\ \A v \in Vecs : WrittenUpTo(v)

\* What the workspace holds as long as nothing the Vec depends on was overtaken.
\* A Vec before its load of S is overtaken, or no Vec has left its chunk.
State(v) == R(vu[v], vc[v])
Together(v) == \A w \in Vecs : Chunk(w) = Chunk(v)

VecExact(v) ==
  LET intact == Intact(vu[v], vc[v])
      next   == Intact(vu[v], vc[v] + 1)
  IN /\ vpc[v] = "read" /\ vc[v] > 0 /\ intact => S = State(v)
     /\ vpc[v] = "readOut" /\ intact => S = State(v) /\ vreg[v] = <<State(v), Chunk(v)>>
     /\ vpc[v] = "recur" /\ intact => VC = Chunk(v)
     /\ vpc[v] = "recur" /\ next => S = State(v) /\ Together(v)
     /\ vpc[v] = "recurOut" /\ next => vreg[v] = <<State(v), Chunk(v)>>
     /\ vpc[v] = "final" /\ intact => S = State(v)
     /\ vpc[v] = "finalOut" /\ intact => vreg[v][1] = State(v)

CubeExact(v) ==
  cu = vu[v] /\ Intact(vu[v], vc[v]) =>
    /\ cpc = "wsOut" => creg = R(cu, cc)
    /\ cpc = "kv" /\ vpc[v] = "read" => WS = Chunk(v)
    /\ cpc = "kvOut" => creg = <<cu, cc>>
    /\ vpc[v] = "recur" /\ cc = vc[v] + 1 => KV = Chunk(v)

Exact == \A v \in Vecs : Untainted(vu[v]) => VecExact(v) /\ CubeExact(v)

ScanInv ==
  TypeOK /\ Cursors /\ Phases /\ Finite /\ FirstReadoutZero /\ Written
  /\ Exact /\ ExactUnlessOvertaken
=============================================================================
