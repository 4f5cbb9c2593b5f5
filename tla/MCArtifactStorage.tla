-------------------------- MODULE MCArtifactStorage --------------------------
(* An instance of ArtifactStorage small enough for TLC. *)
EXTENDS ArtifactStorage, TLC

CONSTANTS o1, o2, c1, c2, p1, p2, k1, k2

MCObject == {o1, o2}
MCContent == {c1, c2}
MCPolicy == {p1, p2}
MCKey == {k1, k2}

\* Nothing orders objects, contents, policies or keys.
Symmetry == Permutations(MCObject) \cup Permutations(MCContent)
            \cup Permutations(MCPolicy) \cup Permutations(MCKey)
=============================================================================
