---------------------------- MODULE BatchNormPd ----------------------------
(***************************************************************************)
(* The batch-normalization primitive descriptors of                        *)
(* src/common/batch_normalization_pd.hpp and the forward/backward          *)
(* workspace check primitive_desc_t::compare_ws of                         *)
(* src/common/primitive_desc.cpp.                                          *)
(*                                                                         *)
(* The state is the table of descriptors created so far: forward ones,     *)
(* and backward ones holding a hint (a non-owning index) to a forward one. *)
(* Creating a descriptor is the pd constructor followed by the             *)
(* implementation's init, which sizes the workspace and, for backward,    *)
(* gates the pairing with compare_ws.                                      *)
(***************************************************************************)
EXTENDS Naturals, Sequences, FiniteSets, SequencesExt

CONSTANTS
  DimsSet,       \* logical dims <<MB, C, H, W>> a data descriptor may have
  BwdPropKinds,  \* backward propagation kinds requested by callers
  Bits,          \* bits_per_element the implementations ask the workspace for
  MaxFwd,        \* bound on forward descriptors created
  MaxBwd         \* bound on backward descriptors created

FwdPropKinds == {"forward_training", "forward_inference"}
Flags == {"use_global_stats", "use_scaleshift", "fuse_norm_relu"}
DataFmts == {"nchw", "nChw16c"}

(***************************************************************************)
(* Memory descriptors: format, data type, dims.  glob_zero_md is the zero  *)
(* descriptor; "any" is a format still to be chosen.                       *)
(***************************************************************************)
glob_zero_md == [fmt |-> "undef", dt |-> "undef", dims |-> << >>]
is_zero_md(m) == m = glob_zero_md

div_up(a, b) == (a + b - 1) \div b

\* memory_desc_wrapper::nelems(with_padding = true): nChw16c pads C to 16.
padded_dims(m) ==
  IF m.fmt = "nChw16c"
  THEN [m.dims EXCEPT ![2] = div_up(@, 16) * 16] ELSE m.dims
nelems_padded(m) == FoldSeq(LAMBDA x, y : x * y, 1, padded_dims(m))
has_zero_dim(m) == \E i \in DOMAIN m.dims : m.dims[i] = 0

(***************************************************************************)
(* The operation descriptor (batch_normalization_desc_t) as the caller     *)
(* builds it (dnnl_batch_normalization_*_desc_init): stat_desc is 1-D    *)
(* over C, data_scaleshift_desc is the <<2, C>> f32 nc descriptor whatever *)
(* the flags, and diff_data_scaleshift_desc is a copy of it for prop_kind  *)
(* backward only, zero otherwise.                                          *)
(***************************************************************************)
MakeDesc(pk, flags, data, diff_fmt) ==
  LET ss == [fmt |-> "nc", dt |-> "f32", dims |-> <<2, data.dims[2]>>]
  IN [prop_kind |-> pk, flags |-> flags, data_desc |-> data,
      stat_desc |-> [fmt |-> "x", dt |-> "f32", dims |-> <<data.dims[2]>>],
      data_scaleshift_desc |-> ss,
      diff_data_desc |-> [data EXCEPT !.fmt = diff_fmt],
      diff_data_scaleshift_desc |-> IF pk = "backward" THEN ss ELSE glob_zero_md]

(***************************************************************************)
(* Common aux functions of batch_normalization_pd_t.                       *)
(***************************************************************************)
stats_is_src(p)   == "use_global_stats" \in p.desc.flags
use_scaleshift(p) == "use_scaleshift" \in p.desc.flags
fuse_norm_relu(p) == "fuse_norm_relu" \in p.desc.flags
is_fwd(p)         == p.desc.prop_kind \in FwdPropKinds
is_training(p)    == p.desc.prop_kind = "forward_training"

\* Fault model: the workspace typed f32 instead of u8.
init_default_ws_f32(p, bits) ==
  [p EXCEPT !.ws_md = [fmt |-> "x", dt |-> "f32",
                       dims |-> <<div_up(nelems_padded(p.data_md) * bits, 8)>>],
             !.bits = bits]

\* init_default_ws: a rank-1 u8 descriptor of div_up(nelems * bits, 8) bytes.
init_default_ws(p, bits) ==
  [p EXCEPT !.ws_md = [fmt |-> "x", dt |-> "u8",
                       dims |-> <<div_up(nelems_padded(p.data_md) * bits, 8)>>],
             !.bits = bits]   \* bits: a history field, not kept by the code

\* The pd constructor copies the descriptors out of desc_; ws_md_ starts zero.
NewPd(desc, hint) ==
  [desc |-> desc, hint |-> hint, data_md |-> desc.data_desc,
   stat_md |-> desc.stat_desc, scaleshift_md |-> desc.data_scaleshift_desc,
   ws_md |-> glob_zero_md, diff_data_md |-> desc.diff_data_desc,
   diff_scaleshift_md |-> desc.diff_data_scaleshift_desc, status |-> "success",
   bits |-> 0]

Args == {"SRC", "DST", "MEAN", "VARIANCE", "SCALE_SHIFT", "WORKSPACE",
         "DIFF_SRC", "DIFF_DST", "DIFF_SCALE_SHIFT"}

(***************************************************************************)
(* batch_normalization_fwd_pd_t.  A memory-descriptor "pointer" is the     *)
(* slot it points at: <<"glob_zero">> or <<fwd index, field>>.             *)
(***************************************************************************)
fwd_src_md(p, i) ==
  CASE i = 0                                -> "data_md"
    [] stats_is_src(p) /\ i \in {1, 2}      -> "stat_md"
    [] OTHER                                -> "glob_zero"
fwd_dst_md(p, i) ==
  CASE i = 0                                             -> "data_md"
    [] ~stats_is_src(p) /\ is_training(p) /\ i \in {1, 2} -> "stat_md"
    [] OTHER                                             -> "glob_zero"
fwd_workspace_md(p, i) ==
  IF i = 0 /\ is_training(p) /\ fuse_norm_relu(p) THEN "ws_md" ELSE "glob_zero"

fwd_arg_usage(p, arg) ==
  CASE arg = "SRC" -> "input"
    [] arg = "DST" -> "output"
    [] arg \in {"MEAN", "VARIANCE"} ->
         IF stats_is_src(p) THEN "input"
         ELSE IF is_training(p) THEN "output" ELSE "unused"
    [] arg = "SCALE_SHIFT" /\ use_scaleshift(p) -> "input"
    [] arg = "WORKSPACE" /\ is_training(p) /\ fuse_norm_relu(p) -> "output"
    [] OTHER -> "unused"

\* arg_md; WORKSPACE falls through to primitive_desc_t::arg_md.
fwd_arg_md(p, arg) ==
  CASE arg = "SRC"         -> fwd_src_md(p, 0)
    [] arg = "DST"         -> fwd_dst_md(p, 0)
    [] arg = "MEAN"        -> IF stats_is_src(p) THEN fwd_src_md(p, 1) ELSE fwd_dst_md(p, 1)
    [] arg = "VARIANCE"    -> IF stats_is_src(p) THEN fwd_src_md(p, 2) ELSE fwd_dst_md(p, 2)
    [] arg = "SCALE_SHIFT" -> "scaleshift_md"
    [] arg = "WORKSPACE"   -> fwd_workspace_md(p, 0)
    [] OTHER               -> "glob_zero"

B(b) == IF b THEN 1 ELSE 0
fwd_n_inputs(p) == 1 + 2 * B(stats_is_src(p)) + B(use_scaleshift(p))
\* Fault model: the is_training() factor dropped.
fwd_n_outputs_any_prop(p) ==
  1 + B(fuse_norm_relu(p)) + 2 * B(~stats_is_src(p))
fwd_n_outputs(p) ==
  1 + (B(fuse_norm_relu(p)) + 2 * B(~stats_is_src(p))) * B(is_training(p))

(***************************************************************************)
(* batch_normalization_bwd_pd_t.                                           *)
(***************************************************************************)
\* Fault model: the statistics index test off by one (index < 2).
bwd_src_md_lt(p, i) ==
  CASE i = 0 -> "data_md" [] i < 2 -> "stat_md" [] OTHER -> "glob_zero"
bwd_src_md(p, i) ==
  CASE i = 0 -> "data_md" [] i <= 2 -> "stat_md" [] OTHER -> "glob_zero"
bwd_workspace_md(p, i) ==
  IF i = 0 /\ fuse_norm_relu(p) THEN "ws_md" ELSE "glob_zero"

bwd_arg_usage(p, arg) ==
  CASE arg \in {"SRC", "MEAN", "VARIANCE", "DIFF_DST"} -> "input"
    [] arg = "SCALE_SHIFT" /\ use_scaleshift(p) -> "input"
    [] arg = "WORKSPACE" /\ fuse_norm_relu(p) -> "input"
    [] arg = "DIFF_SRC" -> "output"
    [] arg = "DIFF_SCALE_SHIFT" /\ use_scaleshift(p) -> "output"
    [] OTHER -> "unused"

bwd_arg_md(p, arg) ==
  CASE arg = "SRC"              -> bwd_src_md(p, 0)
    [] arg = "MEAN"             -> bwd_src_md(p, 1)
    [] arg = "VARIANCE"         -> bwd_src_md(p, 2)
    [] arg = "SCALE_SHIFT"      -> "scaleshift_md"
    [] arg \in {"DIFF_SRC", "DIFF_DST"} -> "diff_data_md"
    [] arg = "DIFF_SCALE_SHIFT" -> "diff_scaleshift_md"
    [] arg = "WORKSPACE"        -> bwd_workspace_md(p, 0)
    [] OTHER                    -> "glob_zero"

bwd_n_inputs(p) == 4 + B(use_scaleshift(p)) + B(fuse_norm_relu(p))
bwd_n_outputs(p) == 1 + B(~is_zero_md(p.diff_scaleshift_md))

\* set_default_formats_common: an "any" diff_data_md takes data_md's layout.
set_default_formats_common(p) ==
  IF p.diff_data_md.fmt # "any" THEN p
  ELSE [p EXCEPT !.diff_data_md = [@ EXCEPT !.fmt = p.data_md.fmt]]

-----------------------------------------------------------------------------
VARIABLES
  fwd,   \* the forward descriptors created, in order
  bwd    \* the backward descriptors created, with their init status

vars == <<fwd, bwd>>

\* The md a slot of descriptor p denotes.
Deref(p, slot) == IF slot = "glob_zero" THEN glob_zero_md ELSE p[slot]

\* Fault model: a missing hint taken as agreement (!fwd_pd || ...).
compare_ws_no_hint_ok(b, h) ==
  \/ h = 0
  \/ /\ fwd_workspace_md(fwd[h], 0) # "null"
     /\ Deref(fwd[h], fwd_workspace_md(fwd[h], 0))
          = Deref(b, bwd_workspace_md(b, 0))

\* Fault model: the workspace pointers compared instead of the descriptors.
compare_ws_pointer_eq(b, h) ==
  /\ h # 0
  /\ <<"fwd", h, fwd_workspace_md(fwd[h], 0)>> = <<"bwd", 0, bwd_workspace_md(b, 0)>>

(***************************************************************************)
(* compare_ws(fwd_pd).  workspace_md() returns a pointer: "null", or the   *)
(* slot it points at; a bnorm pd returns &glob_zero_md, never null, when   *)
(* it has no workspace.                                                    *)
(***************************************************************************)
compare_ws(b, h) ==
  IF bwd_workspace_md(b, 0) = "null" THEN TRUE
  ELSE /\ h # 0
       /\ fwd_workspace_md(fwd[h], 0) # "null"
       /\ Deref(fwd[h], fwd_workspace_md(fwd[h], 0))
            = Deref(b, bwd_workspace_md(b, 0))

DataMDs == [fmt : DataFmts, dt : {"f32"}, dims : DimsSet]

\* A forward descriptor is created and its implementation initialised: a
\* training pass with fused ReLU sizes its workspace.
CreateFwd ==
  /\ Len(fwd) < MaxFwd
  /\ \E pk \in FwdPropKinds, fl \in SUBSET Flags, d \in DataMDs, bits \in Bits :
       LET p == NewPd(MakeDesc(pk, fl, d, d.fmt), 0) IN
       fwd' = Append(fwd, IF is_training(p) /\ fuse_norm_relu(p)
                          THEN init_default_ws(p, bits) ELSE p)
  /\ UNCHANGED bwd

\* A backward descriptor is created with a hint (0: none) and initialised:
\* default formats, then with fused ReLU its own workspace, which must
\* agree with the forward one or the implementation does not apply.
CreateBwd ==
  /\ Len(bwd) < MaxBwd
  /\ \E pk \in BwdPropKinds, fl \in SUBSET Flags, d \in DataMDs,
        df \in DataFmts \cup {"any"}, h \in 0..Len(fwd), bits \in Bits :
       LET p0 == set_default_formats_common(NewPd(MakeDesc(pk, fl, d, df), h))
           p  == IF fuse_norm_relu(p0) THEN init_default_ws(p0, bits) ELSE p0
           ok == ~fuse_norm_relu(p) \/ compare_ws(p, h)
       IN bwd' = Append(bwd, [p EXCEPT !.status = IF ok THEN "success"
                                                   ELSE "unimplemented"])
  /\ UNCHANGED fwd

\* The caller destroys the most recent backward descriptor.
DestroyBwd ==
  /\ bwd # << >>
  /\ bwd' = SubSeq(bwd, 1, Len(bwd) - 1)
  /\ UNCHANGED fwd

Init == fwd = << >> /\ bwd = << >>
Next == CreateFwd \/ CreateBwd \/ DestroyBwd
Spec == Init /\ [][Next]_vars
-----------------------------------------------------------------------------
(***************************************************************************)
(* Properties.                                                             *)
(***************************************************************************)
MdSet(F) == {glob_zero_md} \cup [fmt : F, dt : {"f32"}, dims : DimsSet]
WsMds == {glob_zero_md} \cup [fmt : {"x"}, dt : {"u8"}, dims : Seq(Nat)]
PdOK(p) ==
  /\ p.data_md \in MdSet(DataFmts)
  /\ p.diff_data_md \in MdSet(DataFmts \cup {"any"})
  /\ p.ws_md \in WsMds
  /\ p.status \in {"success", "unimplemented"}
  /\ p.hint \in 0..MaxFwd

\* Every descriptor holds well-formed memory descriptors and a status.
TypeOK ==
  /\ Len(fwd) <= MaxFwd /\ Len(bwd) <= MaxBwd
  /\ \A i \in DOMAIN fwd : PdOK(fwd[i])
  /\ \A i \in DOMAIN bwd : PdOK(bwd[i])

Accepted == {i \in DOMAIN bwd : bwd[i].status = "success"}
Used(usage(_, _), p, k) == Cardinality({a \in Args : usage(p, a) = k})

\* n_inputs()/n_outputs() of every descriptor equal the number of arguments
\* arg_usage() calls input/output: callers size argument arrays by the
\* counts and fill them by the usage.
BnormArgCounts ==
  /\ \A i \in DOMAIN fwd :
       /\ fwd_n_inputs(fwd[i]) = Used(fwd_arg_usage, fwd[i], "input")
       /\ fwd_n_outputs(fwd[i]) = Used(fwd_arg_usage, fwd[i], "output")
  /\ \A i \in Accepted :
       /\ bwd_n_inputs(bwd[i]) = Used(bwd_arg_usage, bwd[i], "input")
       /\ bwd_n_outputs(bwd[i]) = Used(bwd_arg_usage, bwd[i], "output")

\* The forward half of BnormArgCounts: the closed forms of n_inputs() and
\* n_outputs() (lines 244-249) count the arguments arg_usage() (183-200)
\* makes inputs and outputs, over every propagation kind and flag set.
BnormFwdArgCounts ==
  \A i \in DOMAIN fwd :
    /\ fwd_n_inputs(fwd[i]) = Used(fwd_arg_usage, fwd[i], "input")
    /\ fwd_n_outputs(fwd[i]) = Used(fwd_arg_usage, fwd[i], "output")

\* Every argument arg_usage() makes an input or an output has a non-zero
\* memory descriptor from arg_md(), for the descriptors of prop_kind
\* forward and backward: an execution can bind memory to it.
BnormUsedArgsHaveMd ==
  /\ \A i \in DOMAIN fwd, a \in Args :
       fwd_arg_usage(fwd[i], a) # "unused"
         => ~is_zero_md(Deref(fwd[i], fwd_arg_md(fwd[i], a)))
  /\ \A i \in Accepted, a \in Args :
       bwd_arg_usage(bwd[i], a) # "unused"
         => ~is_zero_md(Deref(bwd[i], bwd_arg_md(bwd[i], a)))

\* A backward descriptor that consumes a workspace is accepted only with a
\* hint whose forward pass produces one, structurally equal to its own
\* (compare_ws gating the implementation's init).
BnormWsAgreement ==
  \A i \in Accepted :
    bwd_arg_usage(bwd[i], "WORKSPACE") = "input" =>
      LET h == bwd[i].hint IN
      /\ h \in DOMAIN fwd
      /\ fwd_arg_usage(fwd[h], "WORKSPACE") = "output"
      /\ Deref(fwd[h], fwd_arg_md(fwd[h], "WORKSPACE")) = bwd[i].ws_md

\* A backward descriptor with fused ReLU over the same data descriptor as
\* its training forward hint, sizing its workspace with the same bits, is
\* accepted.
BnormWsCompatible ==
  \A i \in DOMAIN bwd :
    LET h == bwd[i].hint IN
    (/\ h \in DOMAIN fwd /\ is_training(fwd[h])
     /\ fuse_norm_relu(fwd[h]) /\ fuse_norm_relu(bwd[i])
     /\ fwd[h].data_md = bwd[i].data_md /\ fwd[h].bits = bwd[i].bits)
      => bwd[i].status = "success"

\* compare_ws answers true for a backward descriptor that has no workspace,
\* whatever the hint (the comment at compare_ws: "the impl lives fine w/o
\* workspace").
BnormCompareWsNoWorkspace ==
  \A i \in DOMAIN bwd, h \in 0..Len(fwd) :
    bwd_arg_usage(bwd[i], "WORKSPACE") = "unused" => compare_ws(bwd[i], h)

\* Forward and backward descriptors over the same logical dims, asking for
\* the same bits per element, compute structurally equal workspaces
\* whatever the layout of the data.
BnormWsFromSameDims ==
  \A i \in DOMAIN bwd :
    LET h == bwd[i].hint IN
    (/\ h \in DOMAIN fwd /\ is_training(fwd[h])
     /\ fuse_norm_relu(fwd[h]) /\ fuse_norm_relu(bwd[i])
     /\ fwd[h].data_md.dims = bwd[i].data_md.dims /\ fwd[h].bits = bwd[i].bits)
      => fwd[h].ws_md = bwd[i].ws_md
=============================================================================
