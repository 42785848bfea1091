------------------------------ MODULE Programs ------------------------------
(***************************************************************************)
(* The fuser's IR (ir.py) and the helpers of the rewrites (transform.py).  *)
(* A program is a sequence of nodes over named tensors.  A node is         *)
(*   kind  einsum, glue, plumb (TensorOp), opaque or fused                 *)
(*   op    its equation, operation or kernel                               *)
(*   ins, outs   the names it reads and binds, in order                    *)
(*   arg   the diagonal of a tril, the index of a slice, else 0            *)
(*   read, fuse  the annotations of an einsum (read_mode, fuse_out)        *)
(* Shapes and dtypes are left out.                                         *)
(***************************************************************************)
EXTENDS Integers, SequencesExt

Node(kind, op, ins, outs, arg) ==
  [kind |-> kind, op |-> op, ins |-> ins, outs |-> outs, arg |-> arg,
   read |-> "auto", fuse |-> TRUE]

Einsum(out, eq, a, b)    == Node("einsum", eq, <<a, b>>, <<out>>, 0)
Glue(out, op, ins)       == Node("glue", op, ins, <<out>>, 0)
Tril(out, x, diagonal)   == Node("glue", "tril", <<x>>, <<out>>, diagonal)
Plumb(out, op, ins)      == Node("plumb", op, ins, <<out>>, 0)
Slice(out, x, index)     == Node("plumb", "slice", <<x>>, <<out>>, index)
Opaque(out, kernel, x)   == Node("opaque", kernel, <<x>>, <<out>>, 0)
Fused(kernel, ins, outs) == Node("fused", kernel, ins, outs, 0)

\* The name of chunk c of a tensor the builders unroll: f"WS{c}".
At(name, c) == name \o ToString(c)

Is(n, kind, op) == n.kind = kind /\ n.op = op

\* A program: its nodes, the names bound at run time, the names returned.
Prog(nodes, inputs, outputs) == [nodes |-> nodes, inputs |-> inputs, outputs |-> outputs]

Produced(nodes) == UNION {ToSet(nodes[i].outs) : i \in DOMAIN nodes}

\* Program.__post_init__: every name a step reads is bound before it, and the
\* outputs are bound at the end; otherwise the constructor raises.
WellFormed(p) ==
  /\ \A i \in DOMAIN p.nodes :
       ToSet(p.nodes[i].ins) \subseteq p.inputs \cup Produced(SubSeq(p.nodes, 1, i - 1))
  /\ p.outputs \subseteq p.inputs \cup Produced(p.nodes)

Consumers(p, name) == {i \in DOMAIN p.nodes : name \in ToSet(p.nodes[i].ins)}
Producers(p, name) == {i \in DOMAIN p.nodes : name \in ToSet(p.nodes[i].outs)}

Only(S) == CHOOSE x \in S : TRUE
First(S) == CHOOSE x \in S : \A y \in S : x <= y
Latest(S) == CHOOSE x \in S : \A y \in S : y <= x

\* A tensor read by one node only; being an output of the program is not
\* counted as a reader.
SingleConsumer(p, name) == Cardinality(Consumers(p, name)) = 1
TheConsumer(p, name) == Only(Consumers(p, name))

\* The nodes of drop are removed and new takes the place of the first.
Splice(p, drop, new) ==
  [p EXCEPT !.nodes = FlattenSeq([i \in DOMAIN p.nodes |->
     IF i = First(drop) THEN new ELSE IF i \in drop THEN <<>> ELSE <<p.nodes[i]>>])]

\* An einsum with its two annotations replaced, and a program with those of
\* all its einsums: pins has a read mode and a fused store for each.
Pinned(n, pin) ==
  [Node(n.kind, n.op, n.ins, n.outs, n.arg) EXCEPT !.read = pin[1], !.fuse = pin[2]]

Annotated(p, pins) ==
  Prog([i \in DOMAIN p.nodes |->
          IF p.nodes[i].kind = "einsum" THEN Pinned(p.nodes[i], pins[i]) ELSE p.nodes[i]],
       p.inputs, p.outputs)

\* The always-valid baseline: every einsum reads NN and stores unfused.
Canonicalize(p) == Annotated(p, [i \in DOMAIN p.nodes |-> <<"NN", FALSE>>])
-----------------------------------------------------------------------------
(* analysis.py: the scopes that could become one kernel.                   *)

\* The nodes a single kernel may contain, and the last writers of what j reads.
Fusible(p) == {i \in DOMAIN p.nodes : p.nodes[i].kind # "opaque"}
Feeders(p, j) ==
  {Latest(Producers(p, name)) :
     name \in {x \in ToSet(p.nodes[j].ins) : Producers(p, x) # {}}} \cap Fusible(p)

\* Slip: only the node itself is moved, not the rest of its component.
JoinedShallow(e, parts) ==
  {IF e[2] \in part THEN part \cup {e[1]} ELSE part \ {e[1]} : part \in parts} \ {{}}

\* The union-find: a fusible node is joined with each of its feeders.
Joined(e, parts) ==
  LET met == {part \in parts : part \cap ToSet(e) # {}}
  IN (parts \ met) \cup {UNION met}

Regions(p) ==
  FoldSet(Joined, {{i} : i \in Fusible(p)},
          UNION {{<<i, j>> : i \in Feeders(p, j)} : j \in Fusible(p)})
=============================================================================
