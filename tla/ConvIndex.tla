------------------------------ MODULE ConvIndex ------------------------------
(***************************************************************************)
(* The width-index helpers of src/cpu/jit_avx512_common_conv_kernel.hpp.    *)
(* The forward kernel generator emits, for a kernel tap ki, FMAs only for  *)
(* the outputs oi in get_ow_start .. get_ow_end - 1 of an unrolled block   *)
(* of ur_w outputs; the backward-data one only for the diff_src columns    *)
(* get_iw_start .. get_iw_end - 1.  Outside these ranges the input column  *)
(* read is padding and must be skipped, inside it must be taken.           *)
(*                                                                         *)
(* A jcp is abstracted to the fields the helpers read: stride_w, kw, ur_w. *)
(* The pads are the caller's (jit_conv_conf init_conf, not in this source):*)
(* r_pad = (ow - 1) * stride_w + kw - 1 - (iw + l_pad - 1), clamped at 0,  *)
(* and, for backward data at stride 1, l_overflow = max(0, kw - 1 - l_pad) *)
(* and r_overflow = max(0, kw - 1 - r_pad).                                *)
(***************************************************************************)
EXTENDS Integers

CONSTANTS Strides, KWs, IWs, Pads   \* the geometries to check

\* C's / on ints truncates toward zero; \div is floor division.
CDiv(a, b) == IF a >= 0 THEN a \div b ELSE -((-a) \div b)
MaxI(a, b) == IF a > b THEN a ELSE b

\* Lines 142-148: the input column of output oi for tap ki (the offset
\* without its type size and channel strides).
InputColumn(jcp, ki, oi, pad_l) == ki + oi * jcp.stride_w - pad_l

\* Fault model: the division rounded down instead of up.
get_ow_start_floor(jcp, ki, pad_l) == MaxI(0, CDiv(pad_l - ki, jcp.stride_w))

\* Lines 157-159.
get_ow_start(jcp, ki, pad_l) ==
  MaxI(0, CDiv(pad_l - ki + jcp.stride_w - 1, jcp.stride_w))

\* Lines 161-164.
get_ow_end(jcp, ki, pad_r) ==
  jcp.ur_w - MaxI(0, CDiv(ki + pad_r - (jcp.kw - 1) + jcp.stride_w - 1,
                          jcp.stride_w))

\* Fault model: the tap index added instead of subtracted.
get_iw_start_plus(jcp, ki, l_overflow) ==
  MaxI(0, l_overflow - (jcp.kw - 1) - ki)

\* Lines 238-240.
get_iw_start(jcp, ki, l_overflow) == MaxI(0, l_overflow - (jcp.kw - 1) + ki)

\* Lines 241-243.
get_iw_end(jcp, ki, r_overflow) == jcp.ur_w - MaxI(0, r_overflow - ki)

(***************************************************************************)
(* The geometries: a row of iw input columns, l_pad < kw, and the ow       *)
(* outputs that fit; the whole row is one unrolled block (ur_w = ow).      *)
(***************************************************************************)
Ow(s, kw, iw, l) == (iw + l - kw) \div s + 1
FwdGeoms ==
  {g \in [stride_w : Strides, kw : KWs, iw : IWs, l_pad : Pads] :
     g.l_pad < g.kw /\ Ow(g.stride_w, g.kw, g.iw, g.l_pad) >= 1}
FwdJcp(g) ==
  [stride_w |-> g.stride_w, kw |-> g.kw,
   ur_w |-> Ow(g.stride_w, g.kw, g.iw, g.l_pad)]
RPad(g) ==
  MaxI(0, (FwdJcp(g).ur_w - 1) * g.stride_w + g.kw - 1 - (g.iw + g.l_pad - 1))

\* Backward data at stride 1: ur_w = iw diff_src columns, diff_dst ow wide.
BwdGeoms ==
  {g \in [kw : KWs, iw : IWs, l_pad : Pads, r_pad : Pads] :
     g.l_pad < g.kw /\ g.r_pad < g.kw /\ g.iw + g.l_pad + g.r_pad - g.kw >= 0}
BwdJcp(g) == [stride_w |-> 1, kw |-> g.kw, ur_w |-> g.iw]
BwdOw(g) == g.iw + g.l_pad + g.r_pad - g.kw + 1

\* The geometry a kernel object was constructed with: its jcp member is set
\* by the constructor (jcp(ajcp)) and read by every helper afterwards.
VARIABLE geo

GeoInit == geo \in ({"fwd"} \X FwdGeoms) \cup ({"bwd_data"} \X BwdGeoms)

-----------------------------------------------------------------------------
(***************************************************************************)
(* The forward generator's range for tap ki is exactly the set of outputs  *)
(* whose input column (get_input_offset) lies inside the row: no FMA reads *)
(* a padded column, and none that reads a real column is skipped.          *)
(***************************************************************************)
ConvOwRangeExact ==
  geo[1] = "fwd" =>
  \A ki \in 0..(geo[2].kw - 1) :
    LET g == geo[2]  j == FwdJcp(g) IN
    get_ow_start(j, ki, g.l_pad)..(get_ow_end(j, ki, RPad(g)) - 1) =
      {oi \in 0..(j.ur_w - 1) :
         InputColumn(j, ki, oi, g.l_pad) \in 0..(g.iw - 1)}

(***************************************************************************)
(* The backward-data generator's range for tap ki is exactly the set of    *)
(* diff_src columns iw whose diff_dst column iw + l_pad - ki exists.       *)
(***************************************************************************)
ConvIwRangeExact ==
  geo[1] = "bwd_data" =>
  \A ki \in 0..(geo[2].kw - 1) :
    LET g == geo[2]  j == BwdJcp(g) IN
    get_iw_start(j, ki, MaxI(0, g.kw - 1 - g.l_pad))
      ..(get_iw_end(j, ki, MaxI(0, g.kw - 1 - g.r_pad)) - 1) =
      {i \in 0..(g.iw - 1) : i + g.l_pad - ki \in 0..(BwdOw(g) - 1)}
=============================================================================
