----------------------------- MODULE SoftmaxBwd -----------------------------
(***************************************************************************)
(* The parallel region of ref_softmax_bwd_t::execute_backward_generic      *)
(* (src/cpu/ve/dev/ref_softmax.cpp, VE_BWD_GEN build): parallel_nd over    *)
(* outer_size_ x inner_size_ hands each worker a contiguous range of the   *)
(* flattened (ou, in) items.  For an item the worker sums sbr over the     *)
(* channels (one chunk when channels_ <= MEDIUM, else chunks of MEDIUM,    *)
(* lines 610-633 and 754-761) and then writes diff_src over the channels,  *)
(* chunk by chunk.  When the primitive runs in place diff_src and          *)
(* diff_dst are one buffer, and the write loop overwrites what the sum     *)
(* loop read.                                                              *)
(*                                                                         *)
(* A diff_src element holds <<ou, in, full, orig>>: the row it was         *)
(* computed for, whether sbr then held every channel, and whether every    *)
(* diff_dst element read for it was an input value.  softmax and          *)
(* logsoftmax have the same loop structure and are not told apart.         *)
(***************************************************************************)
EXTENDS Integers, FiniteSets

CONSTANTS
  outer_size, channels, inner_size,  \* the pd's outer_size_, channels_, inner_size_
  NThr,                              \* threads of the parallel region
  MEDIUM,                            \* the chunk length of the blocked branch
  DiffLayout,                        \* diff_d: "channels_first" or "channels_last"
  InPlace                            \* diff_src is the diff_dst buffer

ASSUME NThr >= 1 /\ MEDIUM >= 1 /\ InPlace \in BOOLEAN
ASSUME DiffLayout \in {"channels_first", "channels_last"}

Threads == 0..(NThr - 1)
Chans == 0..(channels - 1)
Cells == 0..(outer_size * channels * inner_size - 1)
Work == outer_size * inner_size

\* balance211 (dnnl_thread.hpp): the items [start, start + n) of worker t.
balance211(t) ==
  LET n1 == (Work + NThr - 1) \div NThr
      n2 == n1 - 1
      T1 == Work - n2 * NThr
      start == IF t < T1 THEN t * n1 ELSE T1 * n1 + (t - T1) * n2
  IN <<start, IF t < T1 THEN n1 ELSE n2>>

\* nd_iterator_init: item w is (ou, in) = (w / inner_size_, w % inner_size_).
ItemOu(w) == w \div inner_size
ItemIn(w) == w % inner_size

\* memory_desc_wrapper::off_l of diff_d.
off_l(l) ==
  LET ou == l \div (channels * inner_size)
      c  == (l % (channels * inner_size)) \div inner_size
      in == l % inner_size
  IN IF DiffLayout = "channels_first" THEN l
     ELSE ou * channels * inner_size + in * channels + c

\* Line 548.
ou_in_offset(ou, in) == ou * channels * inner_size + in
\* Fault model: the channel stride left out of the channel offset.
diff_off_no_stride(w, c) == off_l(ou_in_offset(ItemOu(w), ItemIn(w)) + c)
\* Lines 566-568, 616-617, 639-640: diff_d.off_l of the channel's element.
diff_off(w, c) == off_l(ou_in_offset(ItemOu(w), ItemIn(w)) + c * inner_size)

\* The channels a chunk starting at c0 covers: the whole row in the short
\* and medium branches (lines 557-608), cmax of line 613 / 636 otherwise.
cmax(c0) == IF channels <= MEDIUM THEN channels
            ELSE IF c0 < channels - MEDIUM THEN MEDIUM ELSE channels - c0
ChunkOf(c0) == c0..(c0 + cmax(c0) - 1)
NextC0(c0) == IF channels <= MEDIUM THEN channels ELSE c0 + MEDIUM

None == <<-1, -1, FALSE, FALSE>>

VARIABLES
  w,         \* w[t]: the item worker t is at
  phase,     \* phase[t]: "sum" | "write" | "done"
  c0,        \* c0[t]: the first channel of the current chunk
  sbr,       \* sbr[t]: the channels summed into sbr so far
  orig,      \* orig[t]: every diff_dst value read so far was an input value
  diff_src,  \* diff_src[p]
  writers    \* writers[p]: the workers that wrote diff_src[p]

vars == <<w, phase, c0, sbr, orig, diff_src, writers>>

\* diff_dst[p] still holds its input value.
Unclobbered(p) == ~InPlace \/ diff_src[p] = None

First(t) == balance211(t)[1]
End(t) == balance211(t)[1] + balance211(t)[2]

Init ==
  /\ w = [t \in Threads |-> First(t)]
  /\ phase = [t \in Threads |-> IF First(t) < End(t) THEN "sum" ELSE "done"]
  /\ c0 = [t \in Threads |-> 0]
  /\ sbr = [t \in Threads |-> {}]
  /\ orig = [t \in Threads |-> TRUE]
  /\ diff_src = [p \in Cells |-> None]
  /\ writers = [p \in Cells |-> {}]

\* Fault model: the blocked branch's two loops fused, so every chunk is
\* written right after it is summed.
Sum_fused(t) ==
  /\ phase[t] = "sum"
  /\ LET ch == ChunkOf(c0[t])
         full == sbr[t] \cup ch = Chans
         ok == orig[t] /\ \A c \in ch : Unclobbered(diff_off(w[t], c))
         D == {diff_off(w[t], c) : c \in ch}
     IN /\ diff_src' = [p \in Cells |->
                          IF p \in D THEN <<ItemOu(w[t]), ItemIn(w[t]), full, ok>>
                          ELSE diff_src[p]]
        /\ writers' = [p \in Cells |-> IF p \in D THEN writers[p] \cup {t}
                                                  ELSE writers[p]]
        /\ IF NextC0(c0[t]) < channels
           THEN /\ c0' = [c0 EXCEPT ![t] = NextC0(@)]
                /\ sbr' = [sbr EXCEPT ![t] = @ \cup ch]
                /\ orig' = [orig EXCEPT ![t] = ok]
                /\ UNCHANGED <<phase, w>>
           ELSE /\ c0' = [c0 EXCEPT ![t] = 0]
                /\ sbr' = [sbr EXCEPT ![t] = {}] /\ orig' = [orig EXCEPT ![t] = TRUE]
                /\ w' = [w EXCEPT ![t] = @ + 1]
                /\ phase' = [phase EXCEPT ![t] =
                                IF w[t] + 1 < End(t) THEN "sum" ELSE "done"]

\* Lines 610-633: one chunk of diff_dst read into sbr; after the last
\* chunk the write loop starts at channel 0.
Sum(t) ==
  /\ phase[t] = "sum"
  /\ LET ch == ChunkOf(c0[t]) IN
       /\ sbr' = [sbr EXCEPT ![t] = @ \cup ch]
       /\ orig' = [orig EXCEPT ![t] =
                     @ /\ \A c \in ch : Unclobbered(diff_off(w[t], c))]
  /\ IF NextC0(c0[t]) < channels
     THEN c0' = [c0 EXCEPT ![t] = NextC0(@)] /\ UNCHANGED phase
     ELSE c0' = [c0 EXCEPT ![t] = 0] /\ phase' = [phase EXCEPT ![t] = "write"]
  /\ UNCHANGED <<w, diff_src, writers>>

\* Fault model: the next item taken without the range bound.
Write_no_end_check(t) ==
  /\ phase[t] = "write"
  /\ LET ch == ChunkOf(c0[t])
         D == {diff_off(w[t], c) : c \in ch}
     IN /\ diff_src' = [p \in Cells |->
                          IF p \in D
                          THEN <<ItemOu(w[t]), ItemIn(w[t]), sbr[t] = Chans,
                                 orig[t] /\ Unclobbered(p)>>
                          ELSE diff_src[p]]
        /\ writers' = [p \in Cells |-> IF p \in D THEN writers[p] \cup {t}
                                                  ELSE writers[p]]
  /\ IF NextC0(c0[t]) < channels
     THEN /\ c0' = [c0 EXCEPT ![t] = NextC0(@)]
          /\ UNCHANGED <<w, phase, sbr, orig>>
     ELSE /\ c0' = [c0 EXCEPT ![t] = 0]
          /\ sbr' = [sbr EXCEPT ![t] = {}]
          /\ orig' = [orig EXCEPT ![t] = TRUE]
          /\ w' = [w EXCEPT ![t] = @ + 1]
          /\ phase' = [phase EXCEPT ![t] = "sum"]

\* Fault model: each worker stops after its first item.
Write_stop_after_item(t) ==
  /\ phase[t] = "write"
  /\ LET ch == ChunkOf(c0[t])
         D == {diff_off(w[t], c) : c \in ch}
     IN /\ diff_src' = [p \in Cells |->
                          IF p \in D
                          THEN <<ItemOu(w[t]), ItemIn(w[t]), sbr[t] = Chans,
                                 orig[t] /\ Unclobbered(p)>>
                          ELSE diff_src[p]]
        /\ writers' = [p \in Cells |-> IF p \in D THEN writers[p] \cup {t}
                                                  ELSE writers[p]]
  /\ IF NextC0(c0[t]) < channels
     THEN /\ c0' = [c0 EXCEPT ![t] = NextC0(@)]
          /\ UNCHANGED <<w, phase, sbr, orig>>
     ELSE /\ c0' = [c0 EXCEPT ![t] = 0]
          /\ sbr' = [sbr EXCEPT ![t] = {}]
          /\ orig' = [orig EXCEPT ![t] = TRUE]
          /\ w' = [w EXCEPT ![t] = @ + 1]
          /\ phase' = [phase EXCEPT ![t] = "done"]

\* Lines 634-657: one chunk of diff_src = f(dst, diff_dst, sbr), each
\* element reading its own diff_dst element just before writing it; after
\* the last chunk the next item, or the range is done.
Write(t) ==
  /\ phase[t] = "write"
  /\ LET ch == ChunkOf(c0[t])
         D == {diff_off(w[t], c) : c \in ch}
     IN /\ diff_src' = [p \in Cells |->
                          IF p \in D
                          THEN <<ItemOu(w[t]), ItemIn(w[t]), sbr[t] = Chans,
                                 orig[t] /\ Unclobbered(p)>>
                          ELSE diff_src[p]]
        /\ writers' = [p \in Cells |-> IF p \in D THEN writers[p] \cup {t}
                                                  ELSE writers[p]]
  /\ IF NextC0(c0[t]) < channels
     THEN /\ c0' = [c0 EXCEPT ![t] = NextC0(@)]
          /\ UNCHANGED <<w, phase, sbr, orig>>
     ELSE /\ c0' = [c0 EXCEPT ![t] = 0]
          /\ sbr' = [sbr EXCEPT ![t] = {}]
          /\ orig' = [orig EXCEPT ![t] = TRUE]
          /\ w' = [w EXCEPT ![t] = @ + 1]
          /\ phase' = [phase EXCEPT ![t] = IF w[t] + 1 < End(t) THEN "sum" ELSE "done"]

Next == \E t \in Threads : Sum(t) \/ Write(t)

\* OpenMP runs every thread of the region to the end of its range.
Spec == Init /\ [][Next]_vars /\ \A t \in Threads : WF_vars(Sum(t) \/ Write(t))

-----------------------------------------------------------------------------
\* Every worker stays within its range of items and its row's channels.
TypeOK ==
  /\ phase \in [Threads -> {"sum", "write", "done"}]
  /\ \A t \in Threads : /\ w[t] \in First(t)..End(t)
                       /\ phase[t] # "done" => w[t] < End(t)
                       /\ c0[t] \in Chans \cup {0}
  /\ sbr \in [Threads -> SUBSET Chans]

\* Every diff_src element written was computed for its own row, from a sum
\* over all of the row's channels, and from input diff_dst values only,
\* even when the write loop overwrites the buffer the sum loop reads.
SoftmaxBwdFullSum ==
  \A p \in Cells : diff_src[p] # None =>
    LET r == diff_src[p] IN
      /\ \E c \in Chans : p = off_l(ou_in_offset(r[1], r[2]) + c * inner_size)
      /\ r[3] /\ r[4]

\* No two workers write the same diff_src element.
SoftmaxBwdNoSharedCells == \A p \in Cells : Cardinality(writers[p]) <= 1

\* A row as the caller sees it: "none" until every element is written,
\* then "correct" if each was computed for the row from the full sum of
\* input values, else "wrong".
RowCells(i) == {diff_off(i, c) : c \in Chans}
AbsOut == [i \in 0..(Work - 1) |->
             IF \E p \in RowCells(i) : diff_src[p] = None THEN "none"
             ELSE IF \A p \in RowCells(i) :
                       diff_src[p] = <<ItemOu(i), ItemIn(i), TRUE, TRUE>>
                  THEN "correct" ELSE "wrong"]
Rows == INSTANCE SoftmaxRows WITH Items <- 0..(Work - 1), out <- AbsOut

\* The parallel region implements SoftmaxRows: each row of diff_src turns
\* correct in one step and stays so, and, with every OpenMP thread running
\* to the end of its range, every row is computed.
SoftmaxBwdRefinesRows == Rows!Spec
=============================================================================
