--------------------------- MODULE MCCompileDriver ---------------------------
(* CompileDriver with the pipeline the policy orders for KDA: the resident
   scan, then the per-channel flash, whose rewrite removes the only site of the
   epilogue generator after it.  Two outputs and three times let a NaN hide in
   the second output and two candidates beat the base one after the other.
   The effects: right, wrong in one output, NaN in either, and a race.        *)
EXTENDS CompileDriver

MCPipeline == <<"lower-perdim-scan", "fuse-perdim-chunk-o-flash",
                "fuse-contraction-epilogue">>
MCOuts     == <<"o", "final">>
MCShadows  == {<<"fuse-perdim-chunk-o-flash", "fuse-contraction-epilogue">>}
MCEffects  ==
  {[o |-> x, final |-> y] : x \in {"right", "nan"}, y \in {"right", "wrong", "nan"}}
    \union {[o |-> "flaky", final |-> "right"]}
=============================================================================
