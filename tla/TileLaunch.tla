----------------------------- MODULE TileLaunch -----------------------------
(***************************************************************************)
(* What the fused tile kernels share: a launch of bnum cores over I tiles, *)
(* core cid doing tiles cid, cid + bnum, ... in iterations 0 .. Iters - 1, *)
(* the last of which may have no tile, with per-core slots in workspace    *)
(* memory.  Cores share nothing but the inputs, so the kernels are modelled*)
(* for one core, whichever it is: cid is chosen at launch.                 *)
(*                                                                         *)
(* A slot holds the number of the tile it was computed from.  Reading and  *)
(* writing take time: a slot being written holds Torn, and a read whose    *)
(* slot changes before it ends yields Torn.                                *)
(***************************************************************************)
EXTENDS Integers, Ffts

CONSTANTS I,           \* number of tiles (CFG::n_inplace)
          bnum         \* number of cores launched (get_block_num)

ASSUME SizesAssumption == I \in Nat \ {0} /\ bnum \in Nat \ {0}
ASSUME VecsAssumption  == Vecs # {}

VARIABLE cid           \* get_block_idx

Tiles == 0 .. I - 1
Slots == {0, 1}
Stale == -1            \* left by an earlier launch: the slots are not cleared
Torn  == -2
Values == Tiles \union {Stale, Torn}

\* Slip: the tail of the tiles is not rounded up.
ItersFloor == I \div bnum

\* Slip: both iterations of a pair use the first slot.
SingleSlot(n) == 0 * n

Iters      == (I + bnum - 1) \div bnum
Pid(n)     == n * bnum + cid       \* the tile of iteration n
Slot(n)    == n % 2
HasTile(n) == Pid(n) < I           \* false in a tail iteration

\* A buffer whose halves the Vecs write: both from tile p, or never written.
Exact(p)  == [v \in Vecs |-> p]
Unwritten == [v \in Vecs |-> Stale]

\* What a read yields that saw before when it began and finds now at its end.
Settle(before, now) == IF now = before THEN before ELSE Torn

\* The abstract output of a kernel whose output buffer is out.
AbstractOutput(out) ==
  [p \in Tiles |-> CASE out[p] = Unwritten -> Stale
                     [] out[p] = Exact(p)  -> p
                     [] OTHER              -> Torn]

\* The same where each Vec writes its half of a tile: a tile there is a half.
Halves == Tiles \X Vecs
AbstractHalves(out) ==
  [h \in Halves |-> IF out[h[1]][h[2]] = Stale THEN <<>> ELSE <<out[h[1]][h[2]], h[2]>>]

NoSignal == [v \in Vecs |-> [s \in Slots |-> 0]]
Counters2 == [Vecs -> [Slots -> Nat]]

\* For the invariants: which signals of the iterations from..to-1, at most two,
\* are pending on slot s.
InFlight(from, to, s) ==
  IF \/ from < to /\ s = Slot(from)
     \/ from + 1 < to /\ s = Slot(from + 1)
  THEN 1 ELSE 0
=============================================================================
