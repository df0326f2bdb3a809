------------------------ MODULE MCPersistentDictionary ----------------------
(* TLC instance of PersistentDictionary; the values are in the cfg.        *)
EXTENDS PersistentDictionary
CONSTANTS k1, k2, v1, v2

(* Keys and values are only compared; no liveness is checked.              *)
Symmetry == Permutations(Keys) \union Permutations(Vals)
=============================================================================
