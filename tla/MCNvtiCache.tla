----------------------------- MODULE MCNvtiCache -----------------------------
(* Two files and two OIDs; a VT has no or two preferences.                 *)
EXTENDS NvtiCache, TLC

CONSTANTS f1, f2, o1, o2

MC_File == {f1, f2}
MC_Oid == {o1, o2}
MC_PrefLens == {0, 2}
MC_NoPrefs == {0}
MC_Symmetry == Permutations(MC_File) \union Permutations(MC_Oid)
=============================================================================
