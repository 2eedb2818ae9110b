-------------------------- MODULE MCFailoverGroups --------------------------
(* Channels, groups and requests are interchangeable. *)
EXTENDS FailoverGroups

Symmetry == Permutations(Chan) \cup Permutations(GroupId) \cup Permutations(Req)

=============================================================================
