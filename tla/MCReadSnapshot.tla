--------------------------- MODULE MCReadSnapshot ---------------------------
(* Instances of ReadSnapshot for TLC.                                      *)
EXTENDS ReadSnapshot, TLC

CONSTANTS core, inpi, core1, core2, inpi1, r1   \* model values

TwoCorpora == {core, inpi}
ThreeGenerations == {core1, core2, inpi1}
Labels == (core1 :> core) @@ (core2 :> core) @@ (inpi1 :> inpi)

(* Two of the replicated tables, in the order of REPLICATED_TABLES.        *)
TwoViews == <<"documents", "chunks">>
=============================================================================
