------------------------------- MODULE Planner -------------------------------
(***************************************************************************)
(* The lever planner (planner.py), used on a forward instead of the        *)
(* compile driver: it walks the contractions, measures each distinct one   *)
(* under either lever against the NN baseline, on the operands of the      *)
(* first node that has it, and pins the kept levers on every node alike.   *)
(*                                                                         *)
(* The einsum library is external.  Here it gets at most one lowering of   *)
(* one contraction wrong (broken), among those a single lever selects, and *)
(* pays is the levers that fire and are faster on this machine.            *)
(***************************************************************************)
EXTENDS Rewrites

VARIABLES
  stage,       \* "off" (the forward is compiled instead), "plan", "planned"
  annotated,   \* the program planned, then returned
  broken, pays

planVars == <<stage, annotated, broken, pays>>

Levers == {"direct_read", "operand_swap"}

\* A lowering of the library: the read mode, and whether the store is fused.
Lowering(levers) ==
  <<IF "direct_read" \in levers THEN "auto" ELSE "NN", "operand_swap" \in levers>>

\* A tensor is of one chunk or of all of them; the dimensions are otherwise
\* fixed by the equation.
Extents(p) ==
  LET extent(env, n) ==
        CASE n.op \in {"slice", "zeros"} -> "one"
          [] n.op = "stack"              -> "all"
          [] OTHER                       -> env[n.ins[1]]
      step(env, n) == [name \in ToSet(n.outs) |-> extent(env, n)] @@ env
  IN FoldLeft(step, [name \in p.inputs |-> "all"], p.nodes)

\* A contraction: its equation and the shapes of both operands.
ClassIn(extents, n) == <<n.op, extents[n.ins[1]], extents[n.ins[2]]>>
Class(p, i) == ClassIn(Extents(p), p.nodes[i])

Contractions(p) == {i \in DOMAIN p.nodes : p.nodes[i].kind = "einsum"}

\* Slip: the shapes are left out of the key.
RepresentativeByEquation(p, i) ==
  First({j \in Contractions(p) : p.nodes[j].op = p.nodes[i].op})

\* The node whose verdict i gets: the first of its class, the others find it in
\* the cache.
Representative(p, i) ==
  LET extents == Extents(p)
  IN First({j \in Contractions(p) : ClassIn(extents, p.nodes[j]) = ClassIn(extents, p.nodes[i])})

\* An operand is the zero initial state, so that any lowering gives zero.
ZeroProduct(p, i) ==
  \E name \in ToSet(p.nodes[i].ins) :
    Producers(p, name) # {} /\ Is(p.nodes[Latest(Producers(p, name))], "plumb", "zeros")

Right(p, i, lowering) == broken # <<Class(p, i), lowering>>

\* frob_rel < tol: against a zero baseline, everything that is zero passes.
Gated(p, i, lever) == ZeroProduct(p, i) \/ Right(p, i, Lowering({lever}))

Evaluate(p, i) == {lever \in pays : Gated(p, i, lever)}
-----------------------------------------------------------------------------
PlanInit ==
  /\ RewriteInit
  /\ stage \in {"off", "plan"}
  /\ annotated = Forward(family)
  /\ pays \in IF stage = "off" THEN {{}} ELSE SUBSET Levers
  /\ broken \in IF stage = "off" THEN {<<>>}
                ELSE {<<>>} \cup ({Class(annotated, i) : i \in Contractions(annotated)}
                                   \X {Lowering({lever}) : lever \in Levers})

\* Planner.plan, a function of the program and of what the measurements give.
Planned(p) ==
  Annotated(p, [i \in Contractions(p) |-> Lowering(Evaluate(p, Representative(p, i)))])

Plan ==
  /\ stage = "plan"
  /\ annotated' = Planned(annotated)
  /\ stage' = "planned"
  /\ UNCHANGED <<rewriteVars, broken, pays>>

Returned == stage = "planned" /\ UNCHANGED <<rewriteVars, planVars>>

Compile == stage = "off" /\ RewriteNext /\ UNCHANGED planVars

PlanNext == Compile \/ Plan \/ Returned

PlanSpec == PlanInit /\ [][PlanNext]_<<rewriteVars, planVars>>
-----------------------------------------------------------------------------
(* Properties.                                                             *)

\* The contractions of the returned program that run with exactly one lever on.
OneLever ==
  {i \in Contractions(annotated) :
     <<annotated.nodes[i].read, annotated.nodes[i].fuse>> \in {<<"auto", FALSE>>, <<"NN", TRUE>>}}

\* What is planned is the forward with its contractions annotated: they are
\* those of the forward, where they were measured.
Given == Forward(family)
RunsRight(i) == Right(Given, i, <<annotated.nodes[i].read, annotated.nodes[i].fuse>>)

\* The verdict of the first contraction of a class holds for the others: one
\* on which a single lever was pinned computes the right product, unless the
\* gate had nothing to compare.  (Both levers together are never measured.)
VerdictsCarryOver ==
  stage = "planned" =>
    \A i \in OneLever :
      RunsRight(i) \/ \E j \in Contractions(Given) :
                        Class(Given, j) = Class(Given, i) /\ ZeroProduct(Given, j)

\* What makes it hold: planning adds the annotations and nothing else.
PlanInv ==
  /\ family \in Families
  /\ annotated = IF stage = "planned" THEN Planned(Given) ELSE Given

\* The promise of planner.py's header: a lowering that produces garbage fails
\* the gate, so that one that was kept is right.
BrokenIsDropped == stage = "planned" => \A i \in OneLever : RunsRight(i)
=============================================================================
