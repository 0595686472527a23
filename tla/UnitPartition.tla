---------------------------- MODULE UnitPartition ----------------------------
(***************************************************************************)
(* partition_unit_diff (src/vgemm/gemm_utils.cpp): the share <<t_offset,   *)
(* t_block>> of n units that thread ithr of nthr gets, and the reference   *)
(* split it is meant to compute: band = n / nthr units each, one more for  *)
(* the first n % nthr threads, consecutive ranges in thread order.         *)
(***************************************************************************)
EXTENDS Integers

\* Fault model: the clamp of a negative tail (n < nthr) left out.
partition_unit_diff_no_clamp(ithr, nthr, n) ==
  LET band == IF n \div nthr = 0 THEN 1 ELSE n \div nthr
      tail == n - band * nthr
      b    == IF ithr < tail THEN band + 1 ELSE band
      off0 == IF ithr < tail THEN b * ithr ELSE band * ithr + tail
      off  == IF off0 >= n THEN 0 ELSE off0
      blk  == IF off0 >= n THEN 0 ELSE b
  IN <<off, IF off + blk > n THEN n - off ELSE blk>>

\* Fault model: the tail units not handed out (band++ left out).
partition_unit_diff_no_tail(ithr, nthr, n) ==
  LET band == IF n \div nthr = 0 THEN 1 ELSE n \div nthr
      tail0 == n - band * nthr
      tail == IF tail0 < 0 THEN 0 ELSE tail0
      off0 == IF ithr < tail THEN band * ithr ELSE band * ithr + tail
      off  == IF off0 >= n THEN 0 ELSE off0
      blk  == IF off0 >= n THEN 0 ELSE band
  IN <<off, IF off + blk > n THEN n - off ELSE blk>>

\* Lines 35-62.  C's / on the non-negative operands is \div.
partition_unit_diff(ithr, nthr, n) ==
  LET band == IF n \div nthr = 0 THEN 1 ELSE n \div nthr
      tail0 == n - band * nthr
      tail == IF tail0 < 0 THEN 0 ELSE tail0
      b    == IF ithr < tail THEN band + 1 ELSE band
      off0 == IF ithr < tail THEN b * ithr ELSE band * ithr + tail
      off  == IF off0 >= n THEN 0 ELSE off0
      blk  == IF off0 >= n THEN 0 ELSE b
  IN <<off, IF off + blk > n THEN n - off ELSE blk>>

\* The reference split.
RefShare(ithr, nthr, n) ==
  LET q == n \div nthr
      r == n % nthr
  IN <<ithr * q + (IF ithr < r THEN ithr ELSE r), q + (IF ithr < r THEN 1 ELSE 0)>>

\* The units thread ithr owns.
Units(ithr, nthr, n) ==
  LET s == partition_unit_diff(ithr, nthr, n) IN s[1]..(s[1] + s[2] - 1)
=============================================================================
