--------------------------- MODULE MCCoreLaunches ---------------------------
(* Three launches on one of two cores.  Seven tiles: four iterations use
   each slot twice, and core 1 has a tail.  Five units: three on core 0, two
   on core 1, on one workspace; two chunks; units 2 and 4 are not finite.   *)
EXTENDS CoreLaunches

=============================================================================
