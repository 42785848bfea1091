----------------------------- MODULE MCLaunches -----------------------------
(* Two inputs, two calls, six blocks: the copies and the output of one call
   are there to be reused by the other.  At most one operand of a scan needs
   a copy.  The blocks are interchangeable.                                  *)
EXTENDS Launches, TLC

MCResults == <<"r1", "r2">>
MCSymmetry == Permutations(Blocks)
=============================================================================
