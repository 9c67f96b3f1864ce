--------------------------- MODULE MCCodegenCache ---------------------------
(***************************************************************************)
(* Two processes, two artifacts that share the cache.                      *)
(***************************************************************************)
EXTENDS CodegenCache, TLC

CONSTANTS l1, l2, a, b

MCLoader == {l1, l2}
MCDir    == {a, b}
Sym      == Permutations(MCLoader) \cup Permutations(MCDir)
=============================================================================
