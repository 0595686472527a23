----------------------------- MODULE MC_GemmNthr -----------------------------
(* Inputs of the three calc_nthr_nocopy functions that reach every branch: *)
(* M and N below, at and above their large blocks, K enough to split, 1 to *)
(* 16 threads.                                                             *)
EXTENDS GemmNthr

MC_Ms == {1, 600, 5000, 40000}
MC_Ns == {1, 100, 3000}
MC_Ks == {1, 768, 4096}
MC_Nthrs == 1..16
MC_Isas == {"ve", "avx512_common", "avx"}

\* An empty M or N, as a GEMM call may have.
MC_Ms0 == {0} \cup MC_Ms
MC_Ns0 == {0} \cup MC_Ns
=============================================================================
