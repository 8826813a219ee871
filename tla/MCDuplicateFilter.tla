------------------------- MODULE MCDuplicateFilter -------------------------
(***************************************************************************)
(* DuplicateFilter for TLC: one id more than the filter has entries, so    *)
(* that it evicts and evicted ids come back, and a tick of a few values in *)
(* place of 32 bits: long enough for every order of evictions.             *)
(***************************************************************************)
EXTENDS FilterWindow

MCIds == 1 .. Capacity + 1
=============================================================================
