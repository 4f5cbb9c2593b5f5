-------------------------- MODULE MCProfileInstaller --------------------------
(* An instance of ProfileInstaller small enough for TLC. *)
EXTENDS ProfileInstaller, TLC

CONSTANTS a, b, c, i1, i2, v1, v2

MCProc == {a, b, c}
MCInode == {i1, i2}
MCVersion == {v1, v2}

\* Nothing orders processes, inode numbers or versions.
Symmetry == Permutations(MCProc) \cup Permutations(MCInode) \cup Permutations(MCVersion)
=============================================================================
