------------------------------ MODULE Forwards ------------------------------
(***************************************************************************)
(* The programs the fuser is used on, as their builders emit them, over nc *)
(* chunks: the gated delta rule (examples/attention/_gdn_full.py), its     *)
(* per-channel form (_kda_full.py), the linear family (_chunked.py) and    *)
(* DeltaNet (forwards/deltanet.py).  The list of one chunk is f[c]; a      *)
(* builder's loop is Chunked(f).                                           *)
(***************************************************************************)
EXTENDS Programs

CONSTANT nc
ASSUME ncAssumption == nc \in Nat \ {0}

Chunks == 0 .. nc - 1

\* The nodes of every chunk, in order; the names of a per-chunk tensor.
Chunked(f) == FlattenSeq([i \in 1 .. nc |-> f[i - 1]])
Each(name) == [i \in 1 .. nc |-> At(name, i - 1)]

\* The opaque inverse of A, and the two contractions with it.
SolveTril(t) == << Opaque("T_raw", "tri_inv_rec_unroll", "A"), Plumb(t, "cast", <<"T_raw">>) >>
WyFast(wk, coefW, coefU) ==
  << Glue(wk, "mul", <<"kF", coefW>>), Glue("vb", "mul", <<"vF", coefU>>),
     Einsum("W_m", "nij,njd->nid", "Tm", wk), Einsum("U_m", "nij,njd->nid", "Tm", "vb") >>

Views == << Plumb("Wb", "reshape", <<"W_m">>), Plumb("Ub", "reshape", <<"U_m">>),
            Plumb("kb5", "reshape", <<"kF">>), Plumb("S0", "zeros", <<"Wb">>) >>

\* v_new of chunk c is U - W S, and its key the c-th slice of kb5.
Residual(c) ==
  << Slice(At("Wc_s", c), "Wb", c), Plumb(At("Wc", c), "contiguous", <<At("Wc_s", c)>>),
     Einsum(At("WS", c), "nid,nde->nie", At("Wc", c), At("S", c)),
     Slice(At("Uc", c), "Ub", c),
     Glue(At("vn", c), "sub", <<At("Uc", c), At("WS", c)>>) >>
Key(c) == << Slice(At("kc_s", c), "kb5", c), Plumb(At("kc", c), "contiguous", <<At("kc_s", c)>>) >>

\* S(c+1) = coef_S S(c) + dS(c).
Decay(c) ==
  << Slice(At("sc", c), "coef_S", c), Glue(At("Sd", c), "mul", <<At("S", c), At("sc", c)>>),
     Glue(At("S", c + 1), "add", <<At("Sd", c), At("dS", c)>>) >>

\* The states before each chunk and the corrected values, stacked.
Stacked == << Plumb("h_bh", "stack", Each("S")), Plumb("h_flat", "reshape", <<"h_bh">>),
              Plumb("vn_bh", "stack", Each("vn")), Plumb("vn_flat", "reshape", <<"vn_bh">>) >>

\* The sum of the two halves of the output, scaled.
OutSum == << Glue("o_sum", "add", <<"o_inter", "o_intra">>), Glue("o_s", "scale", <<"o_sum">>),
             Plumb("o", "reshape", <<"o_s">>) >>

GDN ==
  LET chunk[c \in Chunks] == Residual(c)
        \o << Slice(At("vcs", c), "coef_vcs", c),
              Glue(At("vn2", c), "mul", <<At("vn", c), At("vcs", c)>>) >>
        \o Key(c) \o << Einsum(At("dS", c), "nid,nie->nde", At("kc", c), At("vn2", c)) >>
        \o Decay(c)
  IN Prog(<< Einsum("Araw", "nid,njd->nij", "kF", "kF"),
             Glue("Ag", "mul", <<"Araw", "coefA">>), Tril("A_t", "Ag", -1),
             Plumb("A", "contiguous", <<"A_t">>) >>
          \o SolveTril("Tm") \o WyFast("kb", "coef_kb", "coef_vb") \o Views \o Chunked(chunk) \o Stacked
          \o << Einsum("o_inter_m", "nid,nde->nie", "qF", "h_flat"),
                Glue("o_inter", "mul", <<"o_inter_m", "coef_qg">>),
                Einsum("Aqk", "nid,njd->nij", "qF", "kF"),
                Glue("Aqk_g", "mul", <<"Aqk", "coef_o">>),
                Plumb("Aqk_c", "contiguous", <<"Aqk_g">>),
                Einsum("o_intra", "nij,nje->nie", "Aqk_c", "vn_flat") >> \o OutSum,
          {"qF", "kF", "vF", "coefA", "coef_kb", "coef_vb", "coef_qg", "coef_o",
           "coef_vcs", "coef_S", "g_native", "beta_native", "beta_native_ones"}, {"o"})

KDA ==
  LET chunk[c \in Chunks] == Residual(c) \o Key(c)
        \o << Slice(At("krc", c), "coef_krest", c),
              Glue(At("krest", c), "mul", <<At("kc", c), At("krc", c)>>),
              Einsum(At("dS", c), "nid,nie->nde", At("krest", c), At("vn", c)) >>
        \o Decay(c)
  IN Prog(<< Glue("a_op", "mul", <<"kF", "coef_ag">>), Glue("b_op", "mul", <<"kF", "coef_bg">>),
             Einsum("Araw", "nid,njd->nij", "a_op", "b_op"),
             Glue("Ag", "mul", <<"Araw", "coef_beta">>), Tril("A_t", "Ag", -1),
             Plumb("A", "contiguous", <<"A_t">>) >>
          \o SolveTril("Tm") \o WyFast("wk", "coef_wg", "coef_ub") \o Views \o Chunked(chunk) \o Stacked
          \o << Glue("q_eff", "mul", <<"qF", "coef_ag">>),
                Einsum("o_inter", "nid,nde->nie", "q_eff", "h_flat"),
                Glue("k_eff", "mul", <<"kF", "coef_bg">>),
                Einsum("Aqk", "nid,njd->nij", "q_eff", "k_eff"), Tril("Aqk_t", "Aqk", 0),
                Plumb("Aqk_c", "contiguous", <<"Aqk_t">>),
                Einsum("o_intra", "nij,nje->nie", "Aqk_c", "vn_flat") >> \o OutSum,
          {"qF", "kF", "vF", "coef_ag", "coef_bg", "coef_beta", "coef_wg", "coef_ub",
           "coef_krest", "coef_S"}, {"o"})

\* One program for the scalar gates and for the per-channel gate (GLA): they
\* differ in the tensors bound to its inputs.
Linear ==
  LET operands == <<"q", "k", "v", "P", "invP", "gammaInvP">>
      chunk[c \in Chunks] ==
        [i \in DOMAIN operands |-> Slice(At(operands[i], c), operands[i], c)]
        \o << Slice(At("g", c), "gamma", c),
              Glue(At("qd", c), "mul", <<At("q", c), At("P", c)>>),
              Glue(At("kinv", c), "mul", <<At("k", c), At("invP", c)>>),
              Glue(At("kout", c), "mul", <<At("k", c), At("gammaInvP", c)>>),
              Einsum(At("A", c), "nid,njd->nij", At("qd", c), At("kinv", c)),
              Tril(At("Am", c), At("A", c), 0),
              Einsum(At("o_intra", c), "nij,nje->nie", At("Am", c), At("v", c)),
              Einsum(At("o_inter", c), "nid,nde->nie", At("qd", c), At("S", c)),
              Glue(At("o", c), "add", <<At("o_inter", c), At("o_intra", c)>>),
              Einsum(At("dS", c), "nid,nie->nde", At("kout", c), At("v", c)),
              Plumb(At("gcol", c), "reshape", <<At("g", c)>>),
              Glue(At("Sdec", c), "mul", <<At("S", c), At("gcol", c)>>),
              Glue(At("S", c + 1), "add", <<At("Sdec", c), At("dS", c)>>) >>
  IN Prog(<<Plumb("S0", "zeros", <<"q">>)>> \o Chunked(chunk)
          \o <<Plumb("o", "stack", Each("o"))>>,
          ToSet(operands) \cup {"gamma", "g_intra", "beta_intra"}, {"o"})

\* A tensor per token as one per chunk; DeltaNet's first stage, which scales and
\* flattens the operands, its fourth (W and U from T) and its last.
Flat(src, dst) == << Plumb(dst \o "_r", "reshape", <<src>>),
                     Plumb(dst, "contiguous", <<dst \o "_r">>) >>
BetaScaled ==
  << Plumb("beta_u", "reshape", <<"beta">>),
     Glue("kb", "mul", <<"beta_u", "k">>), Glue("vb", "mul", <<"beta_u", "v">>),
     Plumb("k_h", "cast", <<"k">>), Plumb("q_h", "cast", <<"q">>) >>
  \o Flat("kb", "kbF") \o Flat("vb", "vbF") \o Flat("k_h", "kF") \o Flat("q_h", "qF")
RecomputedWU ==
  << Einsum("W_m", "nij,njd->nid", "T", "kbF"), Plumb("W", "reshape", <<"W_m">>),
     Einsum("U_m", "nij,njd->nid", "T", "vbF"), Plumb("U", "reshape", <<"U_m">>),
     Plumb("Wb", "reshape", <<"W">>), Plumb("Ub", "reshape", <<"U">>),
     Plumb("kb5", "reshape", <<"kF">>), Plumb("S0", "zeros", <<"Wb">>) >>
ChunkO ==
  Flat("h_bh", "h_flat") \o Flat("vn_bh", "vn_flat")
  \o << Einsum("o_inter", "nid,nde->nie", "qF", "h_flat"),
        Einsum("Aqk_raw", "nid,njd->nij", "qF", "kF"), Tril("Aqk_t", "Aqk_raw", 0),
        Plumb("Aqk", "contiguous", <<"Aqk_t">>),
        Einsum("o_intra", "nij,nje->nie", "Aqk", "vn_flat") >>
  \o OutSum

\* Every intermediate of interest is an output here.
DeltaNet ==
  LET chunk[c \in Chunks] == Residual(c) \o Key(c)
        \o << Einsum(At("dS", c), "nid,nie->nde", At("kc", c), At("vn", c)),
              Glue(At("S", c + 1), "add", <<At("S", c), At("dS", c)>>) >>
  IN Prog(BetaScaled
          \o << Einsum("Araw", "nid,njd->nij", "kbF", "kF"), Tril("A_t", "Araw", -1),
                Plumb("A", "contiguous", <<"A_t">>) >>
          \o SolveTril("T") \o RecomputedWU \o Chunked(chunk)
          \o << Plumb("h_bh", "stack", Each("S")), Plumb("h_state", "reshape", <<"h_bh">>),
                Plumb("vn_bh", "stack", Each("vn")), Plumb("v_new", "reshape", <<"vn_bh">>) >>
          \o ChunkO,
          {"q", "k", "v", "beta"}, {"A", "T", "W", "U", "v_new", "h_state", "o"})

Families == {"gdn", "kda", "scalar", "perchannel", "deltanet"}

Forward(family) ==
  CASE family = "gdn"      -> GDN
    [] family = "kda"      -> KDA
    [] family = "deltanet" -> DeltaNet
    [] OTHER               -> Linear
=============================================================================
