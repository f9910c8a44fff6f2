----------------------- MODULE ValidatorRepositoryMC -----------------------
(* Two validators: one with a node account, under which alone the API knows *)
(* its name, and one whose node the endpoint does not know.                 *)
EXTENDS ValidatorRepository, TLC

CONSTANTS r1, r2, v1, v2, n1, name1, name2

MCNodeOf == (v1 :> n1) @@ (v2 :> NoNode)
MCNameOf == (v1 :> NoName) @@ (n1 :> name1) @@ (v2 :> name2)

Symmetry == Permutations(Requests)
=============================================================================
