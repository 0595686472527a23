----------------------------- MODULE SoftmaxFwd -----------------------------
(***************************************************************************)
(* The parallel region of ref_softmax_fwd_t::execute_forward_generic       *)
(* (src/cpu/ve/dev/ref_softmax.cpp, VE_FWD_GEN build): parallel_nd over    *)
(* outer_size_ hands each worker a contiguous range of ou; for each ou the *)
(* worker points space_max / space_denom at its slice of the scratchpad    *)
(* (when inner_size_ > 1), clears them, and for each in runs the max and   *)
(* exp pass over the channels, then the scaling pass.                      *)
(*                                                                         *)
(* Values are abstracted to the row that produced them: a dst element      *)
(* holds <<ou, in, pass>>, a scratchpad float the ou that wrote it.  The   *)
(* channel-count branches (channels_ <= MVL, <= MEDIUM, blocked) touch the *)
(* same elements in the same two passes; channels_ = 0 touches none.       *)
(***************************************************************************)
EXTENDS UnitPartition, FiniteSets

CONSTANTS
  outer_size, channels, inner_size,  \* the pd's outer_size_, channels_, inner_size_
  NThr,                              \* threads of the parallel region
  Layout                             \* "channels_first" or "channels_last"

ASSUME NThr >= 1 /\ Layout \in {"channels_first", "channels_last"}

Threads == 0..(NThr - 1)
NElems == outer_size * channels * inner_size
DstCells == 0..(NElems - 1)
\* The scratchpad booked for key_softmax_reduction: 2 * inner * outer floats.
ScratchCells == 0..(2 * inner_size * outer_size - 1)

\* memory_desc_wrapper::off_l: logical index (ou, c, in order) to offset.
off_l(l) ==
  LET ou == l \div (channels * inner_size)
      c  == (l % (channels * inner_size)) \div inner_size
      in == l % inner_size
  IN IF Layout = "channels_first" THEN l
     ELSE ou * channels * inner_size + in * channels + c

\* The <<ou, in>> row an offset belongs to (off_l is a bijection).
RowOf(p) == CHOOSE r \in (0..(outer_size - 1)) \X (0..(inner_size - 1)) :
              \E c \in 0..(channels - 1) :
                off_l(r[1] * channels * inner_size + c * inner_size + r[2]) = p

\* Fault model: the channel stride left out of the row offset.
ou_in_offset_no_channels(ou, in) == ou * inner_size + in
\* Line 261.
ou_in_offset(ou, in) == ou * channels * inner_size + in
RowCells(ou, in) ==
  {off_l(ou_in_offset(ou, in) + c * inner_size) : c \in 0..(channels - 1)}

\* Fault model: one inner_size_ per ou instead of two.
space_max_base_single(ou) == ou * inner_size
\* Lines 251-254: space_max, and space_denom = space_max + inner_size_.
space_max_base(ou) == ou * 2 * inner_size
space_denom_base(ou) == space_max_base(ou) + inner_size

VARIABLES
  ou,        \* ou[t]: the ou worker t is at
  in,        \* in[t]: the in worker t is at
  step,      \* step[t]: "enter" | "exp" | "scale" | "done"
  dst,       \* dst[p]: the value at offset p
  scratch,   \* scratch[s]: the ou whose worker last wrote float s
  writers,   \* writers[<<"dst"|"scratch", p>>]: the workers that wrote it
  overflow   \* an access fell outside dst or the booked scratchpad

vars == <<ou, in, step, dst, scratch, writers, overflow>>

None == <<-1, -1, "none">>
Keys == ({"dst"} \X DstCells) \cup ({"scratch"} \X ScratchCells)

\* Worker t writes value vd at the dst offsets D and vs at the scratchpad
\* offsets S in one step.
Write(t, D, vd, S, vs) ==
  /\ dst' = [p \in DstCells |-> IF p \in D THEN vd ELSE dst[p]]
  /\ scratch' = [s \in ScratchCells |-> IF s \in S THEN vs ELSE scratch[s]]
  /\ writers' = [k \in Keys |->
                   IF k \in ({"dst"} \X D) \cup ({"scratch"} \X S)
                   THEN writers[k] \cup {t} ELSE writers[k]]
  /\ overflow' = (overflow \/ D \ DstCells # {} \/ S \ ScratchCells # {})

\* The scratchpad floats worker t uses for ou o: none when inner_size_ = 1.
Slice(b, i) == IF inner_size > 1 THEN {b + i} ELSE {}

First(t) == partition_unit_diff(t, NThr, outer_size)[1]
End(t) == First(t) + partition_unit_diff(t, NThr, outer_size)[2]

Init ==
  /\ ou = [t \in Threads |-> First(t)]
  /\ in = [t \in Threads |-> 0]
  /\ step = [t \in Threads |-> "enter"]
  /\ dst = [p \in DstCells |-> None]
  /\ scratch = [s \in ScratchCells |-> -1]
  /\ writers = [k \in Keys |-> {}]
  /\ overflow = FALSE

\* Lines 246-258: the next ou of the worker's range, its scratchpad slice
\* cleared by array_set (a local float when inner_size_ = 1); or the range
\* is done.
Enter(t) ==
  /\ step[t] = "enter"
  /\ IF ou[t] >= End(t)
     THEN step' = [step EXCEPT ![t] = "done"]
          /\ UNCHANGED <<dst, scratch, writers, overflow>>
     ELSE /\ step' = [step EXCEPT ![t] = "exp"]
          /\ Write(t, {}, None,
                   UNION {Slice(space_max_base(ou[t]), i) \cup
                          Slice(space_denom_base(ou[t]), i) :
                            i \in 0..(inner_size - 1)}, ou[t])
  /\ in' = [in EXCEPT ![t] = 0]
  /\ UNCHANGED ou

\* Lines 260-421, for row (ou, in): the max over the channels, then
\* dst = exp(src - max) (or src - max) on every channel, and space_max[in].
Exp(t) ==
  /\ step[t] = "exp"
  /\ Write(t, RowCells(ou[t], in[t]), <<ou[t], in[t], "exp">>,
           Slice(space_max_base(ou[t]), in[t]), ou[t])
  /\ step' = [step EXCEPT ![t] = "scale"]
  /\ UNCHANGED <<ou, in>>

\* Fault model: the in loop bound taken as in <= inner_size_.
Scale_le(t) ==
  /\ step[t] = "scale"
  /\ Write(t, RowCells(ou[t], in[t]), <<ou[t], in[t], "final">>,
           Slice(space_denom_base(ou[t]), in[t]), ou[t])
  /\ IF in[t] + 1 <= inner_size
     THEN step' = [step EXCEPT ![t] = "exp"] /\ in' = [in EXCEPT ![t] = @ + 1]
          /\ UNCHANGED ou
     ELSE step' = [step EXCEPT ![t] = "enter"] /\ ou' = [ou EXCEPT ![t] = @ + 1]
          /\ UNCHANGED in

\* Lines 309-320, 358-369, 424-455: the row's dst scaled by its denominator
\* (or shifted by its log), and space_denom[in]; then the next in, or the
\* next ou.
Scale(t) ==
  /\ step[t] = "scale"
  /\ Write(t, RowCells(ou[t], in[t]), <<ou[t], in[t], "final">>,
           Slice(space_denom_base(ou[t]), in[t]), ou[t])
  /\ IF in[t] + 1 < inner_size
     THEN step' = [step EXCEPT ![t] = "exp"] /\ in' = [in EXCEPT ![t] = @ + 1]
          /\ UNCHANGED ou
     ELSE step' = [step EXCEPT ![t] = "enter"] /\ ou' = [ou EXCEPT ![t] = @ + 1]
          /\ UNCHANGED in

Next == \E t \in Threads : Enter(t) \/ Exp(t) \/ Scale(t)

\* OpenMP runs every thread of the region to the end of its range.
Spec == Init /\ [][Next]_vars
          /\ \A t \in Threads : WF_vars(Enter(t) \/ Exp(t) \/ Scale(t))

-----------------------------------------------------------------------------
\* Every worker stays within its row and step bounds.
TypeOK ==
  /\ step \in [Threads -> {"enter", "exp", "scale", "done"}]
  /\ in \in [Threads -> 0..(inner_size - 1)]
  /\ \A t \in Threads : ou[t] \in First(t)..End(t)
  /\ overflow \in BOOLEAN

\* No two workers of the parallel region write the same dst element or
\* scratchpad float, and none writes outside dst or the booked
\* scratchpad: the ranges need no synchronisation.
SoftmaxNoSharedCells ==
  /\ ~overflow
  /\ \A k \in Keys : Cardinality(writers[k]) <= 1

\* Every dst element holds only values computed for its own <<ou, in>>
\* row: the row offsets of line 261 never reach another row's elements.
SoftmaxRowIntegrity ==
  \A p \in DstCells :
    dst[p] # None => <<dst[p][1], dst[p][2]>> = RowOf(p)

Rows == (0..(outer_size - 1)) \X (0..(inner_size - 1))

\* A row is computed once its every dst element holds its own scaled
\* value; it is not yet while its elements hold nothing or its own exp
\* pass; anything else is a wrong value.
AbsOut == [r \in Rows |->
             IF \A p \in RowCells(r[1], r[2]) : dst[p] = <<r[1], r[2], "final">>
             THEN "correct"
             ELSE IF \A p \in RowCells(r[1], r[2]) :
                       dst[p] \in {None, <<r[1], r[2], "exp">>}
             THEN "none" ELSE "wrong"]
Abs == INSTANCE SoftmaxRows WITH Items <- Rows, out <- AbsOut

\* The forward region implements SoftmaxRows: each <<ou, in>> row of dst
\* turns into its scaled values in one step (the scaling pass) and is
\* never written again by any worker, and, with every OpenMP thread
\* running to the end of its range, every row is computed.
SoftmaxFwdRefinesRows == Abs!Spec
=============================================================================
