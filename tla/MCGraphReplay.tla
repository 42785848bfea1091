---------------------------- MODULE MCGraphReplay ----------------------------
(* GraphReplay with two programs that share an einsum: one has the opaque node,
   the other the same einsum in two modes.  Two inputs, so that a replay can
   raise between two copies; two shapes and two values of each; a warmup of
   two passes.
   MCGraphReplay.cfg: captures fail only before there is a graph.
   MCGraphReplayRecapture.cfg: a capture may fail at any time.               *)
EXTENDS FusionDecision

MCPrograms == {"deltanet", "gdn"}
MCNode(kind, op, mode) == [kind |-> kind, op |-> op, mode |-> mode]
MCNodesOf == [p \in MCPrograms |->
  IF p = "deltanet"
    THEN <<MCNode("einsum", "nid,njd->nij", "NN"), MCNode("tril", "tril", "-1"),
           MCNode("opaque", "tri_inv_rec_unroll", "")>>
    ELSE <<MCNode("einsum", "nid,njd->nij", "NN"), MCNode("einsum", "nid,njd->nij", "auto"),
           MCNode("fused", "gated_qk_native", "nc8")>>]
MCIns == <<"q", "k">>
MCOperand(shape, val) == [shape |-> shape, val |-> val]
MCOperandsOf == [n \in {"q", "k"} |->
  IF n = "q" THEN {MCOperand(16, 0), MCOperand(16, 1)}
             ELSE {MCOperand(16, 0), MCOperand(128, 0), MCOperand(128, 1)}]
=============================================================================
