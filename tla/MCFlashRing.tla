----------------------------- MODULE MCFlashRing -----------------------------
(* FlashRing with seven tiles on two cores: core 0 gets tiles 0, 2, 4, 6;
   core 1 gets 1, 3, 5 and a tail iteration with no tile.  Four iterations
   use each slot of both rings twice.                                        *)
EXTENDS FlashRing

=============================================================================
