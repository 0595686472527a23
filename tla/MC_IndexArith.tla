---------------------------- MODULE MC_IndexArith ----------------------------
(* The index arithmetic of the parallel and JIT kernels: the region of     *)
(* partition_unit_diff calls, and the conv width ranges over strides 1-3,  *)
(* kernels up to 4 wide, rows up to 7 columns and every pad below kw.      *)
EXTENDS PartitionRegion, ConvIndex

MC_Strides == 1..3
MC_KWs == 1..4
MC_IWs == 1..7
MC_Pads == 0..3

\* The two components share no state: the region of partition_unit_diff
\* calls runs beside a kernel object that keeps its jcp.
IndexInit == Init /\ GeoInit
IndexNext == Claim /\ UNCHANGED geo
IndexSpec == IndexInit /\ [][IndexNext]_<<vars, geo>>
=============================================================================
