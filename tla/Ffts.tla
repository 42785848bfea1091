-------------------------------- MODULE Ffts --------------------------------
(***************************************************************************)
(* The cross-core flag counters of one AICore, as the fused kernels use    *)
(* them.  An AICore is one Cube and its Vec subblocks.  Mode 2 of          *)
(* ffts_cross_core_sync works inside that group (kkt_fused.h:43-45): a     *)
(* signal of the Cube increments the counter each Vec waits on; a signal   *)
(* of the Vecs reaches the Cube once every Vec has given it.  So a wait of *)
(* the Cube is a wait for one pending signal of each Vec.  wait_flag_dev   *)
(* blocks until the counter is positive and decrements it.  The hardware   *)
(* is not in the repository: this module is an external assumption.        *)
(*                                                                         *)
(* A flag variable f maps each Vec and each flag id to a counter.          *)
(***************************************************************************)
EXTENDS Naturals

CONSTANT Vecs          \* the Vec subblocks of the AICore (vid 0 and 1)

\* ffts_cross_core_sync executed by the Cube / by Vec v.
CubeSignals(f, id)   == [v \in Vecs |-> [f[v] EXCEPT ![id] = @ + 1]]
VecSignals(f, v, id) == [f EXCEPT ![v][id] = @ + 1]

\* wait_flag_dev: when it may return, and what it leaves.
CubeMayPass(f, id)   == \A v \in Vecs : f[v][id] > 0
CubePasses(f, id)    == [v \in Vecs |-> [f[v] EXCEPT ![id] = @ - 1]]
VecMayPass(f, v, id) == f[v][id] > 0
VecPasses(f, v, id)  == [f EXCEPT ![v][id] = @ - 1]
=============================================================================
