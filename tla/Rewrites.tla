------------------------------ MODULE Rewrites ------------------------------
(***************************************************************************)
(* The transform library (template.py, transform.py, transforms/) under    *)
(* the policy's order and any sequence of verdicts: what the compile       *)
(* driver does to the programs themselves.  Each verdict is a free choice  *)
(* here; CompileDriver models how it is reached.                           *)
(***************************************************************************)
EXTENDS Meaning

VARIABLES
  family,   \* the forward being compiled
  best,     \* the best program so far (prog of compile_program)
  cand,     \* the program being rewritten
  plan,     \* the transforms still to be tried, by their place in the library
  kept,     \* the names of the transforms kept
  phase     \* "propose", "emit" (inside the epilogue generator), "judge"

rewriteVars == <<family, best, cand, plan, kept, phase>>
-----------------------------------------------------------------------------
(* Epilogue units.                                                         *)

Absorbable(n) == \/ n.kind = "glue" /\ n.op \in {"mul", "scale", "tril"}
                 \/ Is(n, "plumb", "contiguous")

\* The nodes after i that only feed each other, up to the first a kernel
\* could not absorb; and what the last of them (or i itself) binds.  There
\* are no more of them than nodes.
Epilogue(p, i) ==
  LET next(k) == TheConsumer(p, p.nodes[k].outs[1])
      chain[left \in 0 .. Len(p.nodes)] ==
        [k \in DOMAIN p.nodes |->
           IF left > 0 /\ SingleConsumer(p, p.nodes[k].outs[1]) /\ Absorbable(p.nodes[next(k)])
           THEN <<next(k)>> \o chain[left - 1][next(k)] ELSE <<>>]
  IN chain[Len(p.nodes)][i]
Ops(p, is) == [j \in DOMAIN is |-> p.nodes[is[j]].op]
BoundaryOut(p, i) == p.nodes[Last(<<i>> \o Epilogue(p, i))].outs[1]
Unit(p, i) == {i} \cup ToSet(Epilogue(p, i))

\* The first multiplication of the epilogue is by coef.
ScaledBy(p, i, coef) ==
  \E j \in DOMAIN Epilogue(p, i) :
    LET n == p.nodes[Epilogue(p, i)[j]]
    IN /\ Is(n, "glue", "mul") /\ \A m \in 1 .. j - 1 : Ops(p, Epilogue(p, i))[m] # "mul"
       /\ SelectSeq(n.ins, LAMBDA x : x # p.nodes[i].outs[1])[1] = coef

\* The operand is the product of the two tensors of ins, by a node of its own.
IsProduct(p, name, ins) ==
  /\ Producers(p, name) # {}
  /\ LET n == p.nodes[Latest(Producers(p, name))] IN Is(n, "glue", "mul") /\ n.ins = ins

Scores(p) == {i \in DOMAIN p.nodes : Is(p.nodes[i], "einsum", "nid,njd->nij")}

KktSite(p, i) == /\ p.nodes[i].ins = <<"kF", "kF">>
                 /\ Ops(p, Epilogue(p, i)) = <<"mul", "tril", "contiguous">>
ChunkOSite(p, i) == /\ p.nodes[i].ins = <<"qF", "kF">>
                    /\ Ops(p, Epilogue(p, i)) = <<"mul", "contiguous">>
                    /\ ScaledBy(p, i, "coef_o")
PrologueSite(p, i) == /\ IsProduct(p, p.nodes[i].ins[1], <<"qF", "coef_ag">>)
                      /\ IsProduct(p, p.nodes[i].ins[2], <<"kF", "coef_bg">>)
                      /\ Ops(p, Epilogue(p, i)) = <<"tril", "contiguous">>

\* Slip: both products are dropped with the unit, shared or not.
PrescaleShared(p, i) == {Latest(Producers(p, name)) : name \in ToSet(p.nodes[i].ins)}

\* k_eff is dropped with the unit when nothing else reads it; q_eff stays.
Prescale(p, i) ==
  IF Consumers(p, p.nodes[i].ins[2]) = {i} THEN {Latest(Producers(p, p.nodes[i].ins[2]))} ELSE {}
-----------------------------------------------------------------------------
(* The epilogue generator: one site at a time, in the order of the nodes.  *)

Sites(p) == {i \in Scores(p) : KktSite(p, i) \/ ChunkOSite(p, i) \/ PrologueSite(p, i)}

\* Slip: the result of the splice is not used.
EmitDiscarded(p) == p

Emit(p) ==
  LET i == First(Sites(p))
      node(kernel, ins) == <<Fused(kernel, ins, <<BoundaryOut(p, i)>>)>>
  IN CASE KktSite(p, i) ->
            Splice(p, Unit(p, i), node("kkt_gated_native", <<"kF", "g_native", "beta_native">>))
       [] ChunkOSite(p, i) ->
            Splice(p, Unit(p, i),
                   node("gated_qk_native", <<"qF", "kF", "g_native", "beta_native_ones">>))
       [] PrologueSite(p, i) ->
            Splice(p, Unit(p, i) \cup Prescale(p, i),
                   node("qk_prologue", <<"qF", "kF", "coef_ag", "coef_bg">>))
-----------------------------------------------------------------------------
(* Score and output in one kernel.                                         *)

\* The unit's result is read by one contraction only, as its first operand.
FeedsOutput(p, i) ==
  /\ SingleConsumer(p, BoundaryOut(p, i))
  /\ LET n == p.nodes[TheConsumer(p, BoundaryOut(p, i))]
     IN Is(n, "einsum", "nij,nje->nie") /\ n.ins[1] = BoundaryOut(p, i)

FlashSites(p)  == {i \in Scores(p) : ChunkOSite(p, i) /\ FeedsOutput(p, i)}
PerDimSites(p) == {i \in Scores(p) : PrologueSite(p, i) /\ FeedsOutput(p, i)}

FuseOutput(p, i, kernel, coefs, extra) ==
  LET c == TheConsumer(p, BoundaryOut(p, i))
  IN Splice(p, Unit(p, i) \cup {c} \cup extra,
            <<Fused(kernel, <<"qF", "kF", p.nodes[c].ins[2]>> \o coefs, p.nodes[c].outs)>>)
-----------------------------------------------------------------------------
(* The resident scan.  coef is coef_vcs (GDN) or coef_krest (KDA).         *)

ScanNames == {"S0", "h_bh", "h_flat", "vn_bh", "vn_flat"}
ChunkNames(coef, c) ==
  LET scaled == IF coef = "coef_vcs" THEN {"vcs", "vn2"} ELSE {"krc", "krest"}
  IN {At(name, c) : name \in scaled \cup {"Wc_s", "Wc", "WS", "Uc", "vn", "kc_s", "kc", "dS",
                                          "sc", "Sd"}} \cup {At("S", c + 1)}

ScanBinds(coef) == ScanNames \cup UNION {ChunkNames(coef, c) : c \in Chunks}
ScanRegion(p, coef) == {i \in DOMAIN p.nodes : ToSet(p.nodes[i].outs) \cap ScanBinds(coef) # {}}

ScanMatches(p, coef) ==
  /\ \A i \in DOMAIN p.nodes : ~ Is(p.nodes[i], "fused", "chunk_h_scan")
  /\ coef \in p.inputs
  /\ {"S0", "h_flat", "vn_flat"} \subseteq Produced(p.nodes)

\* Slip: the keys are not scaled.
ScanSourcesRaw == <<"Wb", "Ub", "kb5">>
ScanSources == <<"Wb", "Ub", "k_scaled">>

LowerScan(p, coef) ==
  LET view(i, via, dst) ==
        << Plumb(via, "reshape", <<ScanSources[i]>>), Plumb(dst, "toTokens", <<via>>) >>
  IN Splice(p, ScanRegion(p, coef),
       << Glue("k_scaled", "mul", <<"kb5", coef>>) >>
       \o view(1, "sw5", "sw") \o view(2, "su5", "su") \o view(3, "sk5", "sk")
       \o << Plumb("sdecay", "reshape", <<"coef_S">>),
             Fused("chunk_h_scan", <<"sw", "su", "sk", "sdecay">>, <<"h_out_k", "final_k">>),
             Plumb("h_bhn", "fromTokens", <<"h_out_k">>), Plumb("h_flat", "reshape", <<"h_bhn">>),
             [Einsum("WS_all", "nid,nde->nie", "W_m", "h_flat")
                EXCEPT !.read = "NN", !.fuse = FALSE],
             Glue("vn_flat", "sub", <<"U_m", "WS_all">>) >>)
-----------------------------------------------------------------------------
(* One batched kernel for the scores of all chunks.                        *)

\* The per-chunk scores: einsum, its tril, and one reader, the output
\* contraction.
IntraScores(p) ==
  {i \in Scores(p) :
     LET out(k) == p.nodes[k].outs[1]
     IN /\ SingleConsumer(p, out(i))
        /\ LET t == TheConsumer(p, out(i))
           IN /\ Is(p.nodes[t], "glue", "tril") /\ SingleConsumer(p, out(t))
              /\ Is(p.nodes[TheConsumer(p, out(t))], "einsum", "nij,nje->nie")}
TrilOfScore(p, i) == TheConsumer(p, p.nodes[i].outs[1])

BatchMatches(p) ==
  IntraScores(p) # {} /\ \A i \in DOMAIN p.nodes : ~ (p.nodes[i].kind = "fused"
                                                      /\ p.nodes[i].outs[1] = "A_all")

BatchScores(p, perDimGate) ==
  LET hits == IntraScores(p)
      batched == IF perDimGate THEN Fused("qk_prologue", <<"q", "k", "P", "invP">>, <<"A_all">>)
                 ELSE Fused("gated_qk_native", <<"q", "k", "g_intra", "beta_intra">>, <<"A_all">>)
      chunk(h) == Cardinality({j \in hits : j < h})
      scoreOf(t) == CHOOSE h \in hits : TrilOfScore(p, h) = t
      rest == FlattenSeq([i \in DOMAIN p.nodes |->
                IF i \in hits THEN <<>>
                ELSE IF \E h \in hits : i = TrilOfScore(p, h)
                THEN <<Slice(p.nodes[i].outs[1], "A_allr", chunk(scoreOf(i)))>>
                ELSE <<p.nodes[i]>>])
  IN [p EXCEPT !.nodes = << batched, Plumb("A_allr", "reshape", <<"A_all">>) >> \o rest]
-----------------------------------------------------------------------------
(* The policy.                                                             *)

\* The whole library, as Policy.candidates lists it.
Library == << "lower-resident-scan", "lower-perdim-scan", "fuse-chunk-o-flash",
              "fuse-perdim-chunk-o-flash", "fuse-contraction-epilogue",
              "batch-chunk-intra-score", "enable-direct-reads", "enable-fused-store" >>

Matches(t, p) ==
  CASE t = "lower-resident-scan"       -> ScanMatches(p, "coef_vcs")
    [] t = "lower-perdim-scan"         -> ScanMatches(p, "coef_krest")
    [] t = "fuse-chunk-o-flash"        -> FlashSites(p) # {}
    [] t = "fuse-perdim-chunk-o-flash" -> PerDimSites(p) # {}
    [] t = "fuse-contraction-epilogue" -> Sites(p) # {}
    [] t = "batch-chunk-intra-score"   -> BatchMatches(p)
    [] t = "enable-direct-reads" ->
         \E i \in DOMAIN p.nodes : p.nodes[i].kind = "einsum" /\ p.nodes[i].read = "NN"
    [] t = "enable-fused-store" ->
         \E i \in DOMAIN p.nodes : p.nodes[i].kind = "einsum" /\ ~ p.nodes[i].fuse

\* What apply makes of p, the generator excepted, whose loop is Generate.
Apply(t, p) ==
  CASE t = "lower-resident-scan" -> LowerScan(p, "coef_vcs")
    [] t = "lower-perdim-scan"   -> LowerScan(p, "coef_krest")
    [] t = "fuse-chunk-o-flash" ->
         FuseOutput(p, First(FlashSites(p)), "qkv_flash_native",
                    <<"g_native", "beta_native_ones">>, {})
    [] t = "fuse-perdim-chunk-o-flash" ->
         FuseOutput(p, First(PerDimSites(p)), "qkvp_flash_native",
                    <<"coef_ag", "coef_bg">>, Prescale(p, First(PerDimSites(p))))
    [] t = "batch-chunk-intra-score" -> BatchScores(p, family = "perchannel")
    [] t = "enable-direct-reads" ->
         Annotated(p, [i \in DOMAIN p.nodes |-> <<"auto", p.nodes[i].fuse>>])
    [] t = "enable-fused-store" ->
         Annotated(p, [i \in DOMAIN p.nodes |-> <<p.nodes[i].read, TRUE>>])

\* Slip: the annotation levers before the structural fusions.
OrderLeversFirst(t) ==
  CASE t \in {"enable-direct-reads", "enable-fused-store"} -> 0
    [] OTHER -> 1

Order(t) ==
  CASE t \in {"lower-resident-scan", "lower-perdim-scan"}             -> 0
    [] t \in {"fuse-chunk-o-flash", "fuse-perdim-chunk-o-flash"}      -> 1
    [] t \in {"fuse-contraction-epilogue", "batch-chunk-intra-score"} -> 2
    [] t = "enable-direct-reads" -> 3
    [] t = "enable-fused-store"  -> 4

\* Every transform that matches the canonical program: the cost model expects
\* each of them to pay, whatever the dimensions.
Proposals(p) == {i \in DOMAIN Library : Matches(Library[i], p)}

\* The first of those left when they are sorted by their order (a stable sort).
Due(i) ==
  /\ i \in plan
  /\ \A j \in plan : \/ Order(Library[i]) < Order(Library[j])
                     \/ Order(Library[i]) = Order(Library[j]) /\ i <= j
-----------------------------------------------------------------------------
(* Names.  A name of a chunk ends in the number of the chunk, so that it is *)
(* none of the names of a whole tensor; S0 is the only name of both kinds.  *)
(* (Two names of chunks may be the same: the vn2 of chunk 1 is the vn of    *)
(* chunk 21, and nothing here relies on the contrary.)                      *)

ChunkBases ==
  {"Wc_s", "Wc", "WS", "Uc", "vn", "kc_s", "kc", "vcs", "vn2", "krc", "krest", "dS", "sc", "Sd",
   "S", "q", "k", "v", "P", "invP", "gammaInvP", "g", "qd", "kinv", "kout", "A", "Am",
   "o_intra", "o_inter", "o", "gcol", "Sdec"}

WholeNames ==
  {"qF", "kF", "vF", "coefA", "coef_kb", "coef_vb", "coef_qg", "coef_o", "coef_vcs", "coef_S",
   "coef_ag", "coef_bg", "coef_beta", "coef_wg", "coef_ub", "coef_krest", "g_native",
   "beta_native", "beta_native_ones", "Araw", "Ag", "A_t", "A", "T_raw", "T", "Tm", "kb", "wk", "vb",
   "W_m", "U_m", "Wb", "Ub", "kb5", "h_bh", "h_flat", "vn_bh", "vn_flat", "a_op", "b_op",
   "q_eff", "k_eff", "o_inter_m", "o_inter", "Aqk", "Aqk_g", "Aqk_t", "Aqk_c", "Aqk_raw",
   "o_intra", "o_sum", "o_s", "o", "k_scaled", "sw5", "sw", "su5", "su", "sk5", "sk", "sdecay",
   "h_out_k", "final_k", "h_bhn", "WS_all"}

ASSUME NamesAssumption ==
  /\ At("S", 0) = "S0"
  /\ \A base \in ChunkBases, c \in 0 .. nc : At(base, c) \notin WholeNames
  /\ \A name \in {"kbF", "vbF", "kF", "qF", "h_flat", "vn_flat"} : name \o "_r" \notin WholeNames
-----------------------------------------------------------------------------
RewriteInit ==
  /\ family \in Families
  /\ best = Canonicalize(Forward(family))
  /\ cand = best
  /\ plan = Proposals(best)
  /\ kept = {}
  /\ phase = "propose"

PassOver(i) ==
  /\ phase = "propose" /\ Due(i)
  /\ ~ Matches(Library[i], best)
  /\ plan' = plan \ {i}
  /\ UNCHANGED <<family, best, cand, kept, phase>>

Rewrite(i) ==
  /\ phase = "propose" /\ Due(i)
  /\ Library[i] # "fuse-contraction-epilogue"
  /\ Matches(Library[i], best)
  /\ cand' = Apply(Library[i], best)
  /\ phase' = "judge"
  /\ UNCHANGED <<family, best, plan, kept>>

\* One turn of the generator's loop: its sites are searched for again after
\* every splice.
Generate(i) ==
  /\ phase \in {"propose", "emit"} /\ Due(i)
  /\ Library[i] = "fuse-contraction-epilogue"
  /\ Sites(cand) # {}
  /\ cand' = Emit(cand)
  /\ phase' = "emit"
  /\ UNCHANGED <<family, best, plan, kept>>

\* Slip: the generator may end with sites left, as after its first splice.
GeneratedEarly ==
  /\ phase = "emit"
  /\ phase' = "judge"
  /\ UNCHANGED <<family, best, cand, plan, kept>>

Generated ==
  /\ phase = "emit" /\ Sites(cand) = {}
  /\ phase' = "judge"
  /\ UNCHANGED <<family, best, cand, plan, kept>>

Keep(i) ==
  /\ phase = "judge" /\ Due(i)
  /\ best' = cand
  /\ kept' = kept \cup {Library[i]}
  /\ plan' = plan \ {i}
  /\ phase' = "propose"
  /\ UNCHANGED <<family, cand>>

RollBack(i) ==
  /\ phase = "judge" /\ Due(i)
  /\ cand' = best
  /\ plan' = plan \ {i}
  /\ phase' = "propose"
  /\ UNCHANGED <<family, best, kept>>

Compiled == phase = "propose" /\ plan = {}
Exited == Compiled /\ UNCHANGED rewriteVars

RewriteNext ==
  \/ \E i \in plan : PassOver(i) \/ Rewrite(i) \/ Generate(i) \/ Keep(i) \/ RollBack(i)
  \/ Generated \/ Exited

RewriteSpec == RewriteInit /\ [][RewriteNext]_rewriteVars
-----------------------------------------------------------------------------
(* Properties.                                                             *)

\* Every program built is one Program's constructor accepts: no rewrite, in
\* whatever combination, drops a tensor that is still read or returned.
RewriteTypeOK ==
  /\ family \in Families
  /\ plan \subseteq DOMAIN Library /\ kept \subseteq ToSet(Library)
  /\ phase \in {"propose", "emit", "judge"}
  /\ WellFormed(best) /\ WellFormed(cand)

\* A rewrite is a lowering: every output of the program, and of every
\* candidate before it is judged, is what the canonical program computes.
MeaningKept == OutputsOf(family, cand) = OutputsOf(family, Forward(family))

\* Every structural rewrite stays inside one fusion region of the program it
\* is applied to.
Contained ==
  [][ phase # "judge" /\ cand' # cand =>
        LET gone == {i \in DOMAIN cand.nodes :
                       ~ \E j \in DOMAIN cand'.nodes : cand'.nodes[j].outs = cand.nodes[i].outs}
        IN gone = {} \/ \E region \in Regions(cand) : gone \subseteq region ]_rewriteVars

\* A lever that was kept holds for every einsum of the compiled program, those
\* a fusion introduced included: no fusion comes after it.
ReadsDirect(p) == \A i \in DOMAIN p.nodes : p.nodes[i].kind = "einsum" => p.nodes[i].read = "auto"
StoresFused(p) == \A i \in DOMAIN p.nodes : p.nodes[i].kind = "einsum" => p.nodes[i].fuse

Sticking ==
  /\ "enable-direct-reads" \in kept => ReadsDirect(best)
  /\ "enable-fused-store" \in kept => StoresFused(best)

LeversStick == Compiled => Sticking

\* What makes it hold: nothing is left to try that comes before what was kept,
\* a candidate of a lever has it, and that of the second keeps the first.
LeverInv ==
  /\ plan \subseteq DOMAIN Library /\ kept \subseteq {Library[i] : i \in DOMAIN Library \ plan}
  /\ phase \in {"propose", "emit", "judge"}
  /\ \A t \in kept, i \in plan : Order(t) <= Order(Library[i])
  /\ Sticking
  /\ phase = "emit" => \E i \in plan : Due(i) /\ Library[i] = "fuse-contraction-epilogue"
  /\ phase = "judge" => \A i \in plan : Due(i) =>
       /\ Library[i] = "enable-direct-reads" => ReadsDirect(cand)
       /\ Library[i] = "enable-fused-store" =>
            StoresFused(cand) /\ (ReadsDirect(best) => ReadsDirect(cand))

\* One pass is enough: nothing kept later gives a site to a transform whose turn
\* is over or that was never proposed, and a transform that was kept has none
\* left, although the policy matches the canonical program only and sorts once.
NoSiteLeft ==
  [][\A i \in DOMAIN Library \ plan' :
       Matches(Library[i], best') => Matches(Library[i], best) /\ Library[i] \notin kept']_rewriteVars

\* The generator's loop, and with it the compilation, ends: every step settles
\* a transform, hands a candidate to the judge or rewrites a site away, and no
\* rewrite leaves the generator a new site.
Variant ==
  [][ \/ Cardinality(plan') < Cardinality(plan)
      \/ phase # "judge" /\ phase' = "judge"
      \/ Cardinality(Sites(cand')) < Cardinality(Sites(cand)) ]_rewriteVars
=============================================================================
