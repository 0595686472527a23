--------------------------- MODULE MC_BatchNormPd ---------------------------
(* Model-checking instance of BatchNormPd: a channel count that nChw16c    *)
(* pads (3) and one it does not (16), 1- and 8-bit workspaces.             *)
EXTENDS BatchNormPd

MC_DimsSet == {<<2, 3, 1, 1>>, <<1, 16, 1, 1>>}
=============================================================================
