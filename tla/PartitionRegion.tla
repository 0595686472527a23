--------------------------- MODULE PartitionRegion ---------------------------
(***************************************************************************)
(* The threads 0..nthr-1 of a parallel region each call                    *)
(* partition_unit_diff(ithr, nthr, n) and take the units it returns, for   *)
(* every unit count n and thread count nthr within the bounds.             *)
(***************************************************************************)
EXTENDS UnitPartition, Sequences

CONSTANTS MaxN, MaxThr   \* bounds on the unit count and the thread count

VARIABLES
  n, nthr,   \* the arguments shared by the region
  ithr,      \* the next thread to take its share
  shares     \* shares[i + 1]: <<t_offset, t_block>> thread i got

vars == <<n, nthr, ithr, shares>>

Init ==
  /\ n \in 0..MaxN /\ nthr \in 1..MaxThr
  /\ ithr = 0 /\ shares = << >>

\* Thread ithr calls partition_unit_diff.
Claim ==
  /\ ithr < nthr
  /\ shares' = Append(shares, partition_unit_diff(ithr, nthr, n))
  /\ ithr' = ithr + 1
  /\ UNCHANGED <<n, nthr>>

Spec == Init /\ [][Claim]_vars

\* Every thread gets the reference share: band or band + 1 units, the
\* larger shares first, consecutive in thread order (an empty share may sit
\* at offset 0); so the shares tile 0..n-1 with no unit twice.
PartitionMatchesReference ==
  \A i \in 1..Len(shares) :
    LET s == shares[i]  r == RefShare(i - 1, nthr, n) IN
    s[2] = r[2] /\ (s[2] > 0 => s[1] = r[1])
=============================================================================
