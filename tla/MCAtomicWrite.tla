--------------------------- MODULE MCAtomicWrite ----------------------------
(* An instance of AtomicWrite for TLC: payloads of one and of two blocks. *)
EXTENDS AtomicWrite, TLC

CONSTANTS w1, w2

MCBlocks == (w1 :> 2) @@ (w2 :> 1)

\* WritesAreAtomic says nothing of an inode.
MCSymmetry == Permutations(Inodes)
=============================================================================
