--------------------------------- MODULE MCGc ---------------------------------
(***************************************************************************)
(* Instances of Gc: pages of 16 words, zones of at least 2 objects, sizes  *)
(* whose zone is one page, two of them in one class, a size whose zone is  *)
(* two pages, and a large object.                                          *)
(***************************************************************************)
EXTENDS Gc, TLC

ThreadSymmetry == Permutations(Threads)
===============================================================================
