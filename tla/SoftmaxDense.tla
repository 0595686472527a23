---------------------------- MODULE SoftmaxDense ----------------------------
(***************************************************************************)
(* The dense parallel regions of src/cpu/ve/dev/ref_softmax.cpp:           *)
(* ref_softmax_fwd_t::execute_forward_dense (VE_FWD_DENSE build) and       *)
(* ref_softmax_bwd_t::execute_backward_dense.  The pd takes them when the  *)
(* softmax axis is the innermost dense dimension (inner_size_ = 1); row ou *)
(* then occupies offsets ou * outer_stride() + c for c < channels_, and    *)
(* outer_stride() is at least channels_ (the padded axis length).  Both    *)
(* run parallel_nd(outer_size_), so each worker gets the contiguous range  *)
(* of rows partition_unit_diff gives it, and keep their reductions         *)
(* (space_max, space_denom, sbr) in locals.                                *)
(*                                                                         *)
(* dir is the primitive run: "fwd" (buffer is dst, aliasing src when in    *)
(* place) or "bwd" (buffer is diff_src, aliasing diff_dst when in place).  *)
(* A buffer element holds <<ou, pass, ok>>: the row it was computed for,   *)
(* the pass that wrote it, and whether every value it was computed from    *)
(* was the right one.  softmax and logsoftmax run the same loops.          *)
(***************************************************************************)
EXTENDS UnitPartition, FiniteSets

CONSTANTS
  outer_size, channels,  \* the pd's outer_size_ and channels_
  OuStride,              \* pd()->outer_stride()
  NThr,                  \* threads of the parallel region
  InPlace                \* the output buffer is the input buffer

ASSUME NThr >= 1 /\ OuStride >= channels /\ InPlace \in BOOLEAN

DThreads == 0..(NThr - 1)
DChans == 0..(channels - 1)
DCells == 0..(outer_size * OuStride - 1)
DNone == <<-1, "none", FALSE>>

\* Fault model: the channel loop run to c <= channels_.
RowOffsets_le(ou) == {ou * OuStride + c : c \in 0..channels}
\* Lines 101-102 and 516: the offsets of row ou.
RowOffsets(ou) == {ou * OuStride + c : c \in DChans}

DFirst(t) == partition_unit_diff(t, NThr, outer_size)[1]
DEnd(t) == DFirst(t) + partition_unit_diff(t, NThr, outer_size)[2]

VARIABLES
  dir,      \* "fwd" or "bwd": which primitive runs
  row,      \* row[t]: the ou worker t is at
  pass,     \* pass[t]: "max" | "exp" | "scal" (fwd), "sum" | "write" (bwd), "done"
  rok,      \* rok[t]: every input read for the row so far was an input value
  buf,      \* buf[p]: dst (fwd) or diff_src (bwd)
  dwriters, \* dwriters[p]: the workers that wrote buf[p]
  doverflow \* a write fell outside the buffer

dvars == <<dir, row, pass, rok, buf, dwriters, doverflow>>

\* The input element at p (src or diff_dst) is in the buffer and still
\* holds its input value.
Unclobbered(p) == p \in DCells /\ (~InPlace \/ buf[p] = DNone)

\* The first pass of a row, or "done" past the end of the range.
Start(t, ou) ==
  IF ou < DEnd(t) THEN IF dir = "fwd" THEN "max" ELSE "sum" ELSE "done"

DenseInit ==
  /\ dir \in {"fwd", "bwd"}
  /\ row = [t \in DThreads |-> DFirst(t)]
  /\ pass = [t \in DThreads |-> Start(t, DFirst(t))]
  /\ rok = [t \in DThreads |-> TRUE]
  /\ buf = [p \in DCells |-> DNone]
  /\ dwriters = [p \in DCells |-> {}]
  /\ doverflow = FALSE

\* Worker t stores v at every offset of D.
Store(t, D, v) ==
  /\ buf' = [p \in DCells |-> IF p \in D THEN v ELSE buf[p]]
  /\ dwriters' = [p \in DCells |-> IF p \in D THEN dwriters[p] \cup {t}
                                   ELSE dwriters[p]]
  /\ doverflow' = (doverflow \/ D \ DCells # {})

\* The row is finished: the next row of the range, or done.
NextRow(t) ==
  /\ row' = [row EXCEPT ![t] = @ + 1]
  /\ pass' = [pass EXCEPT ![t] = Start(t, row[t] + 1)]
  /\ rok' = [rok EXCEPT ![t] = TRUE]

\* Lines 111-116: space_max over the row's src elements.
FwdMax(t) ==
  /\ pass[t] = "max"
  /\ rok' = [rok EXCEPT ![t] = \A p \in RowOffsets(row[t]) : Unclobbered(p)]
  /\ pass' = [pass EXCEPT ![t] = "exp"]
  /\ UNCHANGED <<dir, row, buf, dwriters, doverflow>>

\* Lines 155-166: dst[c] = expf(src[c] - space_max) (src[c] - space_max for
\* logsoftmax), each element reading its own src element just before it is
\* written, summed into space_denom.
FwdExp(t) ==
  /\ pass[t] = "exp"
  /\ LET ok == rok[t] /\ \A p \in RowOffsets(row[t]) : Unclobbered(p) IN
       /\ Store(t, RowOffsets(row[t]), <<row[t], "exp", ok>>)
       /\ rok' = [rok EXCEPT ![t] = ok]
  /\ pass' = [pass EXCEPT ![t] = "scal"]
  /\ UNCHANGED <<dir, row>>

\* Lines 196-208: space_denom inverted (guarded against 0) or its log
\* taken, and every dst[c] of the row rescaled from its exp value.
FwdScal(t) ==
  /\ pass[t] = "scal"
  /\ Store(t, RowOffsets(row[t]),
           <<row[t], "final",
             \A p \in RowOffsets(row[t]) :
               p \in DCells /\ buf[p] = <<row[t], "exp", TRUE>>>>)
  /\ NextRow(t)
  /\ UNCHANGED dir

\* Fault model: the sum and write loops fused, so each diff_src element is
\* written from a partial sbr.
BwdSum_fused(t) ==
  /\ pass[t] = "sum"
  /\ Store(t, RowOffsets(row[t]), <<row[t], "final", channels <= 1>>)
  /\ NextRow(t)
  /\ UNCHANGED dir

\* Lines 518-519, 524-525: sbr summed over the row's diff_dst (times dst).
BwdSum(t) ==
  /\ pass[t] = "sum"
  /\ rok' = [rok EXCEPT ![t] = \A p \in RowOffsets(row[t]) : Unclobbered(p)]
  /\ pass' = [pass EXCEPT ![t] = "write"]
  /\ UNCHANGED <<dir, row, buf, dwriters, doverflow>>

\* Lines 520-521, 526-527: diff_src[c] from dst[c], diff_dst[c] and sbr,
\* each element reading its own diff_dst element just before writing it.
BwdWrite(t) ==
  /\ pass[t] = "write"
  /\ Store(t, RowOffsets(row[t]),
           <<row[t], "final",
             rok[t] /\ \A p \in RowOffsets(row[t]) : Unclobbered(p)>>)
  /\ NextRow(t)
  /\ UNCHANGED dir

DenseStep(t) == FwdMax(t) \/ FwdExp(t) \/ FwdScal(t) \/ BwdSum(t) \/ BwdWrite(t)

DenseNext == \E t \in DThreads : DenseStep(t)

\* OpenMP runs every thread of the region to the end of its range.
DenseSpec == DenseInit /\ [][DenseNext]_dvars
               /\ \A t \in DThreads : WF_dvars(DenseStep(t))

-----------------------------------------------------------------------------
\* No two workers write the same output element, and none writes past the
\* buffer: the row offsets of the partitioned ranges, outer_stride()
\* apart, never overlap.
DenseNoSharedCells ==
  /\ ~doverflow
  /\ \A p \in DCells : Cardinality(dwriters[p]) <= 1

\* A row as the caller sees it: "correct" once every element holds its
\* final value computed from the right inputs, "none" while they hold
\* nothing or the row's own exp values, else "wrong".
DenseOut == [ou \in 0..(outer_size - 1) |->
               IF \A p \in RowOffsets(ou) \cap DCells : buf[p] = <<ou, "final", TRUE>>
               THEN "correct"
               ELSE IF \A p \in RowOffsets(ou) \cap DCells :
                         buf[p] = DNone \/ <<buf[p][1], buf[p][2]>> = <<ou, "exp">>
               THEN "none" ELSE "wrong"]
DenseRows == INSTANCE SoftmaxRows WITH Items <- 0..(outer_size - 1),
                                       out <- DenseOut

\* Both dense regions implement SoftmaxRows: each row of the output turns
\* into its final values in one step and is never written again, even in
\* place, and every row is computed in the end.
DenseRefinesRows == DenseRows!Spec
=============================================================================
