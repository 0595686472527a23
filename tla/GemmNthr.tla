------------------------------ MODULE GemmNthr ------------------------------
(***************************************************************************)
(* calc_nthr_nocopy_ve, calc_nthr_nocopy_avx512_common and                 *)
(* calc_nthr_nocopy_avx (src/vgemm/gemm_utils.cpp): the choice of a 3-D   *)
(* thread grid nthr_m x nthr_n x nthr_k and of the blocks MB, NB, KB for a *)
(* no-copy GEMM of m x n x k on nthrs threads.  The avx512_common function *)
(* is the VE one token for token with other blocking constants; the avx   *)
(* one has its own K split, walk and fallback guard.                       *)
(*                                                                         *)
(* The function runs on one thread; every while loop of it is an action    *)
(* that performs one iteration, so a loop that does not end is a behaviour *)
(* that never reaches "done".  An integer division by zero (SIGFPE) moves  *)
(* to pc = "fault".                                                        *)
(***************************************************************************)
EXTENDS Integers

CONSTANTS Ms, Ns, Ks, Nthrs,  \* the inputs m, n, k, nthrs a caller may pass
          Isas                \* the functions called: "ve", "avx512_common", "avx"

\* The blocking constants, lines 350-356 (VE), 175-181 (avx512_common) and
\* 67-73 (avx): the large blocks M, N, K and the small blocks Ms, Ns, Ks.
NOCOPY_VE == [M |-> 512, N |-> 64, K |-> 256, Ms |-> 32, Ns |-> 1, Ks |-> 8]
NOCOPY_AVX512_COMMON ==
  [M |-> 32, N |-> 64, K |-> 192, Ms |-> 16, Ns |-> 1, Ks |-> 4]
NOCOPY_AVX == [M |-> 64, N |-> 48, K |-> 384, Ms |-> 16, Ns |-> 1, Ks |-> 4]

Blocking == [ve |-> NOCOPY_VE, avx512_common |-> NOCOPY_AVX512_COMMON,
             avx |-> NOCOPY_AVX]

(***************************************************************************)
(* ratio_float = (float)nthr_m / nthr_n, then (int)ratio_float or           *)
(* (int)(1. / ratio_float).  The float quotient of small integers is       *)
(* floor-exact except when nthr_n = q * nthr_m: 1./fl(1/q) lies below q     *)
(* for every q up to 64 outside InvExact, and truncates to q - 1.          *)
(***************************************************************************)
InvExact == {1, 2, 4, 8, 16, 25, 29, 31, 32, 41, 43, 47, 49, 50, 55, 58, 61,
             62, 64}
Ratio(a, b) ==
  IF a > b THEN a \div b
  ELSE IF b % a = 0 /\ (b \div a) \notin InvExact THEN b \div a - 1
  ELSE b \div a

ASSUME Isas \subseteq DOMAIN Blocking
ASSUME \A n \in Ns, i \in Isas : (n + Blocking[i].N - 1) \div Blocking[i].N <= 64

isqrt(x) == CHOOSE r \in 0..x : r * r <= x /\ (r + 1) * (r + 1) > x

VARIABLES
  pc, isa, m, n, k, nthrs,       \* control point, function called, arguments
  nthr, nthr_m, nthr_n, nthr_k,  \* the locals of the same names
  nthr_other,                    \* the avx K-split candidate
  counter, ratio, MB, NB, KB

vars == <<pc, isa, m, n, k, nthrs, nthr, nthr_m, nthr_n, nthr_k, nthr_other,
          counter, ratio, MB, NB, KB>>
args == <<isa, m, n, k, nthrs>>

Blk == Blocking[isa]

Init ==
  /\ isa \in Isas
  /\ pc = IF isa = "avx" THEN "avx_start" ELSE "start"
  /\ m \in Ms /\ n \in Ns /\ k \in Ks /\ nthrs \in Nthrs
  /\ nthr = nthrs
  /\ nthr_m = 0 /\ nthr_n = 0 /\ nthr_k = 0 /\ nthr_other = 0
  /\ counter = 0 /\ ratio = 1 /\ MB = 0 /\ NB = 0 /\ KB = 0

\* Lines 379-393: split along K when M and N are small.
SplitK ==
  /\ pc = "start"
  /\ IF n <= 2 * Blk.N /\ m <= 2 * Blk.M * nthr
     THEN LET c == k \div Blk.K
              d == IF c > nthr \div 4 THEN nthr \div 4 ELSE c
          IN nthr_k' = IF d < 1 THEN 1 ELSE d
     ELSE nthr_k' = 1
  /\ pc' = "kdiv"
  /\ UNCHANGED <<args, nthr_other, nthr, nthr_m, nthr_n, counter, ratio, MB, NB, KB>>

\* Fault model: nthr /= nthr_k left out.
KDiv_no_divide ==
  /\ pc = "kdiv"
  /\ IF nthr_k > 1 /\ nthr % nthr_k # 0
     THEN nthr_k' = nthr_k - 1 /\ UNCHANGED <<pc, nthr>>
     ELSE pc' = "init_mn" /\ UNCHANGED <<nthr, nthr_k>>
  /\ UNCHANGED <<args, nthr_other, nthr_m, nthr_n, counter, ratio, MB, NB, KB>>

\* Fault model: nthr_k-- left out of the loop body.
KDiv_no_decrement ==
  /\ pc = "kdiv"
  /\ IF nthr_k > 1 /\ nthr % nthr_k # 0
     THEN UNCHANGED <<pc, nthr, nthr_k>>
     ELSE nthr' = nthr \div nthr_k /\ pc' = "init_mn" /\ UNCHANGED nthr_k
  /\ UNCHANGED <<args, nthr_other, nthr_m, nthr_n, counter, ratio, MB, NB, KB>>

\* Lines 387-390: nthr_k shrinks until it divides nthr (a no-op for the
\* "else" branch, nthr_k = 1).
KDiv ==
  /\ pc = "kdiv"
  /\ IF nthr_k > 1 /\ nthr % nthr_k # 0
     THEN nthr_k' = nthr_k - 1 /\ UNCHANGED <<pc, nthr>>
     ELSE nthr' = nthr \div nthr_k /\ pc' = "init_mn" /\ UNCHANGED nthr_k
  /\ UNCHANGED <<args, nthr_other, nthr_m, nthr_n, counter, ratio, MB, NB, KB>>

\* Lines 394-409: the initial grid from the large blocks, and the ratio.
InitMN ==
  /\ pc = "init_mn"
  /\ LET a == (m + Blk.M - 1) \div Blk.M
         b == (n + Blk.N - 1) \div Blk.N
         a1 == IF a < 1 THEN 1 ELSE a
         b1 == IF b < 1 THEN 1 ELSE b
     IN nthr_m' = a1 /\ nthr_n' = b1 /\ ratio' = Ratio(a1, b1)
  /\ pc' = "scale"
  /\ UNCHANGED <<args, nthr_other, nthr, nthr_k, counter, MB, NB, KB>>

\* Lines 411-419: halve both while the grid exceeds 4 * nthr, then clamp.
Scale ==
  /\ pc = "scale"
  /\ IF nthr_m * nthr_n > 4 * nthr
     THEN nthr_m' = nthr_m \div 2 /\ nthr_n' = nthr_n \div 2 /\ UNCHANGED pc
     ELSE /\ nthr_m' = IF nthr_m < 1 THEN 1 ELSE nthr_m
          /\ nthr_n' = IF nthr_n < 1 THEN 1 ELSE nthr_n
          /\ pc' = "reduce"
  /\ counter' = 0
  /\ UNCHANGED <<args, nthr_other, nthr, nthr_k, ratio, MB, NB, KB>>

\* Fault model: counter = -1 left out when the other dimension moves.
Walk_no_reset(d) ==
  IF nthr_m > nthr_n
  THEN IF counter < ratio
       THEN nthr_m' = nthr_m + d /\ counter' = counter + 1 /\ UNCHANGED nthr_n
       ELSE nthr_n' = nthr_n + d /\ counter' = counter + 1 /\ UNCHANGED nthr_m
  ELSE IF counter < ratio
       THEN nthr_n' = nthr_n + d /\ counter' = counter + 1 /\ UNCHANGED nthr_m
       ELSE nthr_m' = nthr_m + d /\ counter' = counter + 1 /\ UNCHANGED nthr_n

\* One step of the larger dimension (or of the other, every ratio + 1-th
\* step), by d = -1 or +1; the counter restarts after the other one moved.
Walk(d) ==
  IF nthr_m > nthr_n
  THEN IF counter < ratio
       THEN nthr_m' = nthr_m + d /\ counter' = counter + 1 /\ UNCHANGED nthr_n
       ELSE nthr_n' = nthr_n + d /\ counter' = 0 /\ UNCHANGED nthr_m
  ELSE IF counter < ratio
       THEN nthr_n' = nthr_n + d /\ counter' = counter + 1 /\ UNCHANGED nthr_m
       ELSE nthr_m' = nthr_m + d /\ counter' = 0 /\ UNCHANGED nthr_n

\* Lines 422-440: simple partition reduction.
Reduce ==
  /\ pc = "reduce"
  /\ IF nthr_m * nthr_n > nthr
     THEN Walk(-1) /\ UNCHANGED pc
     ELSE pc' = "increment" /\ counter' = 0 /\ UNCHANGED <<nthr_m, nthr_n>>
  /\ UNCHANGED <<args, nthr_other, nthr, nthr_k, ratio, MB, NB, KB>>

\* Lines 443-461: simple partition increment, while below 0.95 * nthr.
Increment ==
  /\ pc = "increment"
  /\ IF 100 * (nthr_m * nthr_n) < 95 * nthr
     THEN Walk(1) /\ UNCHANGED pc
     ELSE pc' = "fallback" /\ UNCHANGED <<nthr_m, nthr_n, counter>>
  /\ UNCHANGED <<args, nthr_other, nthr, nthr_k, ratio, MB, NB, KB>>

\* Line 464 (ve, avx512_common): the fallback is skipped when the grid fits.
FallbackSkipped == nthr_m * nthr_n <= nthr

\* Line 120 (avx): it is skipped also when one side is already 1.
AvxFallbackSkipped == ~(nthr_m * nthr_n > nthr /\ nthr_m > 1 /\ nthr_n > 1)

\* Lines 464-484 (and 120-142): "if nothing works out": the smaller side
\* becomes sqrt(nthr), capped by its small-block count, and the other
\* nthr / it.
Fallback ==
  /\ pc = "fallback"
  /\ IF IF isa = "avx" THEN AvxFallbackSkipped ELSE FallbackSkipped
     THEN pc' = "blocks" /\ UNCHANGED <<nthr_m, nthr_n>>
     ELSE IF nthr_m <= nthr_n
     THEN LET cap == (m + Blk.Ms - 1) \div Blk.Ms
              r == IF isqrt(nthr) > cap THEN cap ELSE isqrt(nthr)
          IN IF r = 0 THEN pc' = "fault" /\ UNCHANGED <<nthr_m, nthr_n>>
             ELSE nthr_m' = r /\ nthr_n' = nthr \div r /\ pc' = "fb_m"
     ELSE LET cap == (n + Blk.Ns - 1) \div Blk.Ns
              r == IF isqrt(nthr) > cap THEN cap ELSE isqrt(nthr)
          IN IF r = 0 THEN pc' = "fault" /\ UNCHANGED <<nthr_m, nthr_n>>
             ELSE nthr_n' = r /\ nthr_m' = nthr \div r /\ pc' = "fb_n"
  /\ UNCHANGED <<args, nthr_other, nthr, nthr_k, counter, ratio, MB, NB, KB>>

\* Lines 474-477 and 486-489: shrink the side until the grid is exact.
FallbackLoop ==
  /\ pc \in {"fb_m", "fb_n"}
  /\ LET s == IF pc = "fb_m" THEN nthr_m ELSE nthr_n IN
     IF s > 1 /\ nthr_m * nthr_n # nthr
     THEN /\ IF pc = "fb_m"
             THEN nthr_m' = s - 1 /\ nthr_n' = nthr \div (s - 1)
             ELSE nthr_n' = s - 1 /\ nthr_m' = nthr \div (s - 1)
          /\ UNCHANGED pc
     ELSE pc' = "blocks" /\ UNCHANGED <<nthr_m, nthr_n>>
  /\ UNCHANGED <<args, nthr_other, nthr, nthr_k, counter, ratio, MB, NB, KB>>

\* Lines 493-513: the blocks, rounded to the small blocks, and the grid
\* trimmed to the blocks that hold work.
\* Fault model: x / t rounded down instead of up.
RoundBlock_floor(x, t, b) == LET v == x \div t + b - 1 IN v - (v % b)
RoundBlock(x, t, b) == LET v == (x + t - 1) \div t + b - 1 IN v - (v % b)
Trim(x, t, blk) == IF blk * t > x THEN (x + blk - 1) \div blk ELSE t
Blocks ==
  /\ pc = "blocks"
  /\ IF 0 \in {nthr_m, nthr_n, nthr_k}
     THEN pc' = "fault" /\ UNCHANGED <<nthr_m, nthr_n, nthr_k, MB, NB, KB>>
     ELSE LET mb == RoundBlock(m, nthr_m, Blk.Ms)
              nb == RoundBlock(n, nthr_n, Blk.Ns)
              kb == RoundBlock(k, nthr_k, Blk.Ks)
          IN /\ MB' = mb /\ NB' = nb /\ KB' = kb
             /\ nthr_m' = Trim(m, nthr_m, mb)
             /\ nthr_n' = Trim(n, nthr_n, nb)
             /\ nthr_k' = Trim(k, nthr_k, kb)
             /\ pc' = "done"
  /\ UNCHANGED <<args, nthr_other, nthr, counter, ratio>>

\* Lines 84-94 (avx): the grid from the large blocks, no K split yet.
AvxInit ==
  /\ pc = "avx_start"
  /\ nthr_m' = (m + Blk.M - 1) \div Blk.M
  /\ nthr_n' = (n + Blk.N - 1) \div Blk.N
  /\ nthr_k' = 1 /\ nthr_other' = 1
  /\ pc' = "avx_splitk"
  /\ UNCHANGED <<args, nthr, counter, ratio, MB, NB, KB>>

\* Lines 95-106 (avx): one K-split candidate per step, taken while it
\* keeps more than 0.9 * nthr threads busy; then nthr /= nthr_k and a
\* side of 1 gives the other side all threads.
AvxSplitK ==
  /\ pc = "avx_splitk"
  /\ IF nthr_m * nthr_n * nthr_other < nthr
        /\ k \div (nthr_other + 1) > Blk.K
     THEN LET o == nthr_other + 1 IN
          /\ nthr_other' = o
          /\ nthr_k' = IF 10 * ((nthr \div o) * o) > 9 * nthr THEN o ELSE nthr_k
          /\ UNCHANGED <<pc, nthr, nthr_m, nthr_n>>
     ELSE LET t == nthr \div nthr_k
              tn == IF nthr_m = 1 THEN t ELSE nthr_n
          IN /\ nthr' = t /\ nthr_n' = tn
             /\ nthr_m' = IF tn = 1 THEN t ELSE nthr_m
             /\ pc' = "avx_reduce" /\ UNCHANGED <<nthr_k, nthr_other>>
  /\ UNCHANGED <<args, counter, ratio, MB, NB, KB>>

\* Lines 109-113 (avx): the larger side shrinks until the grid fits.
AvxReduce ==
  /\ pc = "avx_reduce"
  /\ IF nthr_m * nthr_n > nthr
     THEN /\ IF nthr_m > nthr_n THEN nthr_m' = nthr_m - 1 /\ UNCHANGED nthr_n
                                ELSE nthr_n' = nthr_n - 1 /\ UNCHANGED nthr_m
          /\ UNCHANGED pc
     ELSE pc' = "avx_increment" /\ UNCHANGED <<nthr_m, nthr_n>>
  /\ UNCHANGED <<args, nthr_other, nthr, nthr_k, counter, ratio, MB, NB, KB>>

\* Lines 114-118 (avx): the smaller side grows until the grid is full.
AvxIncrement ==
  /\ pc = "avx_increment"
  /\ IF nthr_m * nthr_n < nthr
     THEN /\ IF nthr_m < nthr_n THEN nthr_m' = nthr_m + 1 /\ UNCHANGED nthr_n
                                ELSE nthr_n' = nthr_n + 1 /\ UNCHANGED nthr_m
          /\ UNCHANGED pc
     ELSE pc' = "fallback" /\ UNCHANGED <<nthr_m, nthr_n>>
  /\ UNCHANGED <<args, nthr_other, nthr, nthr_k, counter, ratio, MB, NB, KB>>

Next ==
  \/ AvxInit \/ AvxSplitK \/ AvxReduce \/ AvxIncrement
  \/ SplitK \/ KDiv \/ InitMN \/ Scale \/ Reduce \/ Increment
  \/ Fallback \/ FallbackLoop \/ Blocks

Spec == Init /\ [][Next]_vars /\ WF_vars(Next)
-----------------------------------------------------------------------------
Pcs == {"start", "kdiv", "init_mn", "scale", "reduce", "increment",
        "fallback", "fb_m", "fb_n", "blocks", "done", "fault",
        "avx_start", "avx_splitk", "avx_reduce", "avx_increment"}

\* The locals keep their ranges; the walk counter never passes the ratio.
TypeOK ==
  /\ pc \in Pcs
  /\ <<isa, m, n, k, nthrs>> \in Isas \X Ms \X Ns \X Ks \X Nthrs
  /\ {nthr, nthr_m, nthr_n, nthr_k, nthr_other, MB, NB, KB} \subseteq Nat
  /\ ratio \in Nat /\ counter \in 0..ratio

\* The grid the function returns has at least one thread per dimension and
\* no more threads in all than the nthrs it was given.
NthrGridFits ==
  pc = "done" =>
    /\ 1 <= nthr_m /\ 1 <= nthr_n /\ 1 <= nthr_k
    /\ nthr_m * nthr_n * nthr_k <= nthrs

\* The blocks cover the problem (no row, column or depth slice is left to
\* no thread) and every thread of the grid has a non-empty block.
NthrBlocksCover ==
  pc = "done" =>
    /\ MB * nthr_m >= m /\ NB * nthr_n >= n /\ KB * nthr_k >= k
    /\ (nthr_m - 1) * MB < m /\ (nthr_n - 1) * NB < n /\ (nthr_k - 1) * KB < k

\* Every loop of the function ends: the call returns or traps.
NthrTerminates == <>(pc \in {"done", "fault"})

\* The function never divides by zero (no SIGFPE), for any m, n it is given.
NthrNoDivByZero == pc # "fault"

=============================================================================
