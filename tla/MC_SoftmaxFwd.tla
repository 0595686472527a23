---------------------------- MODULE MC_SoftmaxFwd ----------------------------
(* The generic region: five outer rows on three threads (two of them get a *)
(* tail row), two channels and two inner positions (so the scratchpad is   *)
(* used).  After it, on the same stream, a dense region (forward or       *)
(* backward): three unpadded rows of three channels on two threads (one  *)
(* gets two rows), in place.                                               *)
EXTENDS SoftmaxFwd

VARIABLES dir, row, pass, rok, buf, dwriters, doverflow

Dense == INSTANCE SoftmaxDense
           WITH outer_size <- 3, channels <- 3, OuStride <- 3, NThr <- 2,
                InPlace <- TRUE, dir <- dir, row <- row, pass <- pass,
                rok <- rok, buf <- buf, dwriters <- dwriters,
                doverflow <- doverflow

denseVars == <<dir, row, pass, rok, buf, dwriters, doverflow>>

\* A cpu stream runs the primitives it is given one after another: the
\* dense one starts once every worker of the generic region has finished.
GenericDone == \A t \in Threads : step[t] = "done"
DenseAfter(t) == GenericDone /\ Dense!DenseStep(t)

FwdInit == Init /\ Dense!DenseInit
FwdNext == \/ Next /\ UNCHANGED denseVars
           \/ \E t \in Dense!DThreads : DenseAfter(t) /\ UNCHANGED vars
FwdSpec ==
  /\ FwdInit /\ [][FwdNext]_<<vars, denseVars>>
  /\ \A t \in Threads : WF_vars(Enter(t) \/ Exp(t) \/ Scale(t))
  /\ \A t \in Dense!DThreads : WF_denseVars(DenseAfter(t))

\* The dense region's workers write disjoint elements (execute_forward_dense
\* and execute_backward_dense, rows ou * outer_stride() apart).
DenseNoSharedCells == Dense!DenseNoSharedCells

\* The dense region, run after the generic one, implements SoftmaxRows.
DenseRefinesRows == Dense!DenseRefinesRows
=============================================================================
