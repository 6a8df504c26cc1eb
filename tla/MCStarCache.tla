---------------------------- MODULE MCStarCache ----------------------------
(***************************************************************************)
(* Small instances of StarCache.                                           *)
(***************************************************************************)
EXTENDS StarCache, TLC

Symmetry == Permutations(Thread) \cup Permutations(Key) \cup Permutations(Item) \cup Permutations(Slot)
=============================================================================
