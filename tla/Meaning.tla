------------------------------- MODULE Meaning -------------------------------
(***************************************************************************)
(* What a program computes, as StagedExecutor.run does, over symbolic      *)
(* values: a tensor has a term for every chunk, a per-chunk tensor the     *)
(* same one for all of them.  Terms keep what an operation does to its     *)
(* operands and forget shapes, dtypes and rounding; the four algebraic     *)
(* facts the fused kernels rely on are built into the operations below.    *)
(***************************************************************************)
EXTENDS Forwards

In(name, c) == <<"in", name, c>>

\* The score coefficient exp(g_i - g_j) * beta_i.
Gate(g, beta) == <<"gate", g, beta>>

\* What the forwards bind to their inputs: the host-side coefficients are made
\* from the gate operands the fused kernels read.  causal(t) is t zeroed above
\* the diagonal, row(t) one factor per row, decay(g) and inverse(g) the scalar
\* exp(g) and exp(-g).
Bound(family, name, c) ==
  CASE family = "gdn" /\ name = "coefA" -> Gate(In("g_native", c), In("beta_native", c))
    [] family = "gdn" /\ name = "coef_o" ->
         <<"causal", Gate(In("g_native", c), In("beta_native_ones", c))>>
    [] family = "gdn" /\ name = "coef_vcs"  -> <<"row", In(name, c)>>
    [] family = "scalar" /\ name = "P"      -> <<"decay", In("g_intra", c)>>
    [] family = "scalar" /\ name = "invP"   -> <<"inverse", In("g_intra", c)>>
    [] OTHER -> In(name, c)

TrilOf(x, diagonal) == <<"tril", x, diagonal>>

\* A coefficient with the causal mask in it masks.
Mul(x, y) == IF y[1] = "causal" THEN TrilOf(<<"mul", x, y[2]>>, 0) ELSE <<"mul", x, y>>

IsMulBy(x, tag) == x[1] = "mul" /\ x[3][1] = tag

\* a b^T: a scalar decay of the operands is a gate of the score.
Score(a, b) ==
  IF IsMulBy(a, "decay") /\ IsMulBy(b, "inverse")
  THEN Mul(<<"score", a[2], b[2]>>, Gate(a[3][2], In("beta_intra", a[3][2][3])))
  ELSE <<"score", a, b>>

\* a^T b: a factor per row may move from b to a.
Outer(a, b) == IF IsMulBy(b, "row") THEN <<"outer", Mul(a, b[3]), b[2]>> ELSE <<"outer", a, b>>

Contract(eq, a, b) ==
  CASE eq = "nid,njd->nij" -> Score(a, b)
    [] eq = "nid,nie->nde" -> Outer(a, b)
    [] OTHER               -> <<eq, a, b>>

\* The two permutations of the resident scan: its operands are read, and its
\* states written, with the head after the chunk.
ToTokens(x)   == <<"tokens", x>>
FromTokens(x) == IF x[1] = "tokens" THEN x[2] ELSE <<"heads", x>>
-----------------------------------------------------------------------------
(* The kernels of fused.py, as their contracts state them.                 *)

\* S(0) = 0, S(c+1) = decay(c) S(c) + k(c)^T (u(c) - w(c) S(c)); the state
\* before chunk c is read out.  x[i][c] is operand i (w, u, k, decay) at chunk c.
ScanState(x, chunk) ==
  LET S[c \in 0 .. nc] ==
        IF c = 0 THEN <<"zeros">>
        ELSE <<"add", Mul(S[c - 1], x[4][c - 1]),
               Outer(FromTokens(x[3][c - 1]),
                     <<"sub", FromTokens(x[2][c - 1]),
                       Contract("nid,nde->nie", FromTokens(x[1][c - 1]), S[c - 1])>>)>>
  IN ToTokens(S[chunk])

GatedScore(a, b, g, beta, diagonal) == TrilOf(Mul(Score(a, b), Gate(g, beta)), diagonal)
PrescaledScore(q, k, p, invP) == TrilOf(Score(Mul(q, p), Mul(k, invP)), 0)
TimesV(a, v) == Contract("nij,nje->nie", a, v)

\* What a kernel writes at chunk c, its operand i being x[i].
Kernel(kernel, x, c) ==
  CASE kernel = "kkt_gated_native" -> GatedScore(x[1][c], x[1][c], x[2][c], x[3][c], -1)
    [] kernel = "gated_qk_native"  -> GatedScore(x[1][c], x[2][c], x[3][c], x[4][c], 0)
    [] kernel = "qk_prologue"      -> PrescaledScore(x[1][c], x[2][c], x[3][c], x[4][c])
    [] kernel = "qkv_flash_native" ->
         TimesV(GatedScore(x[1][c], x[2][c], x[4][c], x[5][c], 0), x[3][c])
    [] kernel = "qkvp_flash_native" ->
         TimesV(PrescaledScore(x[1][c], x[2][c], x[4][c], x[5][c]), x[3][c])
    [] kernel = "chunk_h_scan"     -> ScanState(x, c)
-----------------------------------------------------------------------------
(* executor.py.                                                            *)

\* The term a step binds to its first output at chunk c, its operands being x.
Value(n, x, c) ==
  CASE n.kind = "einsum" -> Contract(n.op, x[1][c], x[2][c])
    [] n.kind = "fused"  -> Kernel(n.op, x, c)
    [] n.kind = "opaque" -> <<n.op, x[1][c]>>
    [] Is(n, "glue", "mul")  -> Mul(x[1][c], x[2][c])
    [] Is(n, "glue", "tril") -> TrilOf(x[1][c], n.arg)
    [] n.kind = "glue" /\ n.op \notin {"mul", "tril"} ->
         <<n.op>> \o [i \in DOMAIN n.ins |-> x[i][c]]
    [] Is(n, "plumb", "zeros") -> <<"zeros">>
    [] Is(n, "plumb", "slice") -> x[1][n.arg]
    [] Is(n, "plumb", "stack") -> x[c + 1][c]
    [] Is(n, "plumb", "toTokens")   -> ToTokens(x[1][c])
    [] Is(n, "plumb", "fromTokens") -> FromTokens(x[1][c])
    [] Is(n, "plumb", "reshape") \/ Is(n, "plumb", "contiguous") \/ Is(n, "plumb", "cast") -> x[1][c]

\* The environment at the end of a run: a term for every name and chunk.
\* (Nothing reads the final state, the second output of the scan.)
Environment(family, p) ==
  LET step(env, n) ==
        LET x == [i \in DOMAIN n.ins |-> [c \in Chunks |-> env[<<n.ins[i], c>>]]]
        IN [at \in {n.outs[1]} \X Chunks |-> Value(n, x, at[2])] @@ env
  IN FoldLeft(step, [at \in p.inputs \X Chunks |-> Bound(family, at[1], at[2])], p.nodes)

OutputsOf(family, p) ==
  LET env == Environment(family, p) IN [at \in p.outputs \X Chunks |-> env[at]]
=============================================================================
