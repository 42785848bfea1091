----------------------------- MODULE MCRewrites -----------------------------
(* The five forwards over three chunks, compiled or planned.
   MCPlanner.cfg: the finding about the planner's gate.                      *)
EXTENDS Planner

=============================================================================
