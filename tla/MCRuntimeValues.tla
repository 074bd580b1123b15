--------------------------- MODULE MCRuntimeValues ---------------------------
(* Instances of RuntimeValues for TLC: strings of two contents and handles, *)
(* in arrays that grow; arrays of handles in arrays that grow and in fixed  *)
(* ones; the payloads come from a registry and a view.                      *)
EXTENDS RuntimeValues

CONSTANTS x, y, u, v

MCTypes == {Maybe(Str), Host, Dyn(Maybe(Str)), Dyn(Host), Dyn(Dyn(Host)), Fix(Dyn(Host))}
Symmetry == Permutations(Vars) \union Permutations(Bytes)
=============================================================================
