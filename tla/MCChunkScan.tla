----------------------------- MODULE MCChunkScan -----------------------------
(* The two findings about the scan.
   MCChunkScanRace.cfg: both Vecs run the whole Vec side.
   MCChunkScanNaN.cfg: one Vec, and a unit that is not finite.               *)
EXTENDS ChunkScan

=============================================================================
