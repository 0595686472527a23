-------------------------- MODULE ReorderDispatch --------------------------
(***************************************************************************)
(* dnnl_reorder_primitive_desc_create (src/common/reorder.cpp): argument    *)
(* validation, choice of the executing engine (get_reorder_engine), the   *)
(* first-match walk over that engine's ordered candidate list, and the     *)
(* wrapping of the winning reorder_pd_t into a primitive_desc_iface_t.     *)
(*                                                                         *)
(* The candidate lists of the CPU engine are those of                      *)
(* src/cpu/ve/cpu_reorder_*.cpp (VE build: DNNL_X64_ONLY entries vanish).  *)
(* A memory descriptor is abstracted to its data type, its format tag and  *)
(* a shape identifier; a candidate factory is abstracted to whether it is  *)
(* applicable and, if it is, whether allocating its pd succeeds.           *)
(***************************************************************************)
EXTENDS Naturals, Sequences, FiniteSets

CONSTANTS
  Engines,      \* engine objects (model values)
  CpuEngines,   \* the engines of kind cpu; the others are of kind gpu
  Shapes,       \* logical shapes (dims) a descriptor may have, per rank
  PaddedShapes, \* the shapes whose channels a blocked layout pads
  DataTypes,    \* data types a descriptor may have
  Null,         \* a null pointer argument
  AllocCanFail  \* whether operator new / pd allocation may fail

ASSUME CpuEngines \subseteq Engines /\ Null \notin Engines
ASSUME PaddedShapes \subseteq Shapes
ASSUME AllocCanFail \in BOOLEAN

(***************************************************************************)
(* Memory descriptors.  Tags and their rank follow dnnl format tags; the   *)
(* plain tags are the unblocked layouts that "any" stands for in REG_SR.   *)
(***************************************************************************)
Rank == [nchw |-> 4, nChw16c |-> 4, oiw |-> 3, wio |-> 3, OIw4i16o4i |-> 3,
         OIw2i8o4i |-> 3, OIw4o4i |-> 3, goidhw |-> 6, dhwigo |-> 6,
         gOIdhw4i16o4i |-> 6, gOIdhw2i8o4i |-> 6, gOIdhw4o4i |-> 6]
Tags == DOMAIN Rank
PlainTags == {"nchw", "oiw", "wio", "goidhw"}

MDs == [dt : DataTypes, tag : Tags, shape : Shapes]

\* memory_desc_wrapper::consistent_with: same rank and same dims.
consistent_with(s, d) == Rank[s.tag] = Rank[d.tag] /\ s.shape = d.shape

\* memory_desc_wrapper::is_dense(): no padding; a plain layout never pads,
\* a blocked one pads a channel count that is not a multiple of its block.
is_dense(m) == m.tag \in PlainTags \/ m.shape \notin PaddedShapes

(***************************************************************************)
(* Engines.  cpu_engine_t is built with get_default_runtime(cpu), a native *)
(* runtime; gpu engines run on OpenCL, which is not native.                *)
(***************************************************************************)
kind(e) == IF e \in CpuEngines THEN "cpu" ELSE "gpu"
is_native_runtime(e) == e \in CpuEngines

\* Fault model: the source runtime tested first (lines 38 and 40 swapped).
get_reorder_engine_src_first(se, de) ==
  CASE is_native_runtime(se)  -> de
    [] is_native_runtime(de)  -> se
    [] kind(de) = "cpu"       -> se
    [] kind(se) = "cpu"       -> de
    [] OTHER                  -> se

get_reorder_engine(se, de) ==
  CASE is_native_runtime(de)  -> se
    [] is_native_runtime(se)  -> de
    [] kind(de) = "cpu"       -> se
    [] kind(se) = "cpu"       -> de
    [] OTHER                  -> se

(***************************************************************************)
(* Candidate lists.  A candidate is REG_SR(sdt, stag, ddt, dtag, order,    *)
(* spec); REG_FAST_DIRECT_COPY_COMMA contributes the direct_copy and the   *)
(* direct_copy_except_dim_0 candidates, REG_SR_BIDIR a keep and a reverse  *)
(* candidate.                                                              *)
(***************************************************************************)
SR(sdt, tag_i, ddt, tag_o, order, spec) ==
  [sdt |-> sdt, tag_i |-> tag_i, ddt |-> ddt, tag_o |-> tag_o,
   order |-> order, spec |-> spec]
FAST_DIRECT_COPY(sdt, ddt) ==
  << SR(sdt, "any", ddt, "any", "any", "direct_copy"),
     SR(sdt, "any", ddt, "any", "any", "direct_copy_except_dim_0") >>
SR_BIDIR(sdt, tag_i, ddt, tag_o) ==
  << SR(sdt, tag_i, ddt, tag_o, "keep", "reference"),
     SR(sdt, tag_i, ddt, tag_o, "reverse", "reference") >>
REF(sdt, ddt) == << SR(sdt, "any", ddt, "any", "any", "reference") >>

\* Fault model: the reference registered ahead of the fast copies.
f32_s32_0_ref_first ==
  REF("f32", "s32") \o FAST_DIRECT_COPY("f32", "s32")
    \o SR_BIDIR("f32", "any", "s32", "nChw16c")

f32_s32_0 ==
  FAST_DIRECT_COPY("f32", "s32") \o SR_BIDIR("f32", "any", "s32", "nChw16c")
    \o REF("f32", "s32")

f32_s8_3 ==
  << SR("f32", "any", "s8", "wio", "keep", "conv_s8s8"),
     SR("f32", "oiw", "s8", "OIw4i16o4i", "keep", "conv_s8s8"),
     SR("f32", "wio", "s8", "OIw4i16o4i", "keep", "conv_s8s8"),
     SR("f32", "oiw", "s8", "OIw2i8o4i", "keep", "conv_s8s8"),
     SR("f32", "wio", "s8", "OIw2i8o4i", "keep", "conv_s8s8"),
     SR("f32", "oiw", "s8", "OIw4o4i", "keep", "conv_s8s8"),
     SR("f32", "wio", "s8", "OIw4o4i", "keep", "conv_s8s8") >>

s32_undef_0 ==
  FAST_DIRECT_COPY("s32", "f32") \o FAST_DIRECT_COPY("s32", "s32")
    \o FAST_DIRECT_COPY("s32", "s8") \o FAST_DIRECT_COPY("s32", "u8")
    \o SR_BIDIR("s32", "any", "f32", "nChw16c")
    \o SR_BIDIR("s32", "any", "s32", "nChw16c")
    \o SR_BIDIR("s32", "any", "s8", "nChw16c")
    \o SR_BIDIR("s32", "any", "u8", "nChw16c")
    \o REF("s32", "f32") \o REF("s32", "s32") \o REF("s32", "s8")
    \o REF("s32", "u8")

s8_s8_6 ==
  << SR("s8", "any", "s8", "dhwigo", "keep", "conv_s8s8"),
     SR("s8", "goidhw", "s8", "gOIdhw4i16o4i", "keep", "conv_s8s8"),
     SR("s8", "goidhw", "s8", "gOIdhw2i8o4i", "keep", "conv_s8s8"),
     SR("s8", "goidhw", "s8", "gOIdhw4o4i", "keep", "conv_s8s8") >>

\* f32_s8_3 and s8_s8_6 are parts of lists split over several files
\* (cpu_reorder_split.hpp); only these parts are in this source, so the
\* lists hold only their entries.

\* A gpu engine's list: one generic OpenCL reorder.
GpuList == << SR("any", "any", "any", "any", "any", "ocl_generic") >>

\* The engine's registry, keyed by <<src dt, dst dt>>; s32 sources use the
\* list registered for an undefined destination type.
get_reorder_implementation_list(e, s, d) ==
  CASE kind(e) = "gpu"                   -> GpuList
    [] s.dt = "s32"                      -> s32_undef_0
    [] <<s.dt, d.dt>> = <<"f32", "s32">> -> f32_s32_0
    [] <<s.dt, d.dt>> = <<"f32", "s8">>  -> f32_s8_3
    [] <<s.dt, d.dt>> = <<"s8", "s8">>   -> s8_s8_6
    [] OTHER                             -> << >>

\* simple_reorder_t::pd_t::create succeeds on (s, d): the data types match
\* and the layouts are the ones the candidate is written for; the two
\* direct copies also need the same layout without padding on both sides
\* (similar_to and is_dense of their is_applicable).
TagMatches(ctag, mtag) == ctag = mtag \/ (ctag = "any" /\ mtag \in PlainTags)
Applicable(c, s, d) ==
  /\ c.sdt \in {s.dt, "any"} /\ c.ddt \in {d.dt, "any"}
  /\ CASE c.spec \in {"direct_copy", "direct_copy_except_dim_0"} ->
              s.tag = d.tag /\ is_dense(s) /\ is_dense(d)
       [] c.order = "any"  -> TRUE
       [] c.order = "keep" -> TagMatches(c.tag_i, s.tag) /\ TagMatches(c.tag_o, d.tag)
       [] OTHER            -> TagMatches(c.tag_o, s.tag) /\ TagMatches(c.tag_i, d.tag)

-----------------------------------------------------------------------------
VARIABLES
  pc,        \* "idle" | "validate" | "iterate" | "wrap" | "done"
  args,      \* the call's arguments: engines, descriptors, output pointer
  eng,       \* the executing engine e chosen by get_reorder_engine
  list,      \* the candidate list being walked
  idx,       \* position r of the walk (1-based)
  tried,     \* sequence of the statuses the candidates returned
  status,    \* the status the call returns
  handle,    \* *reorder_pd_iface as seen by the caller
  livePds    \* reorder_pd_t objects allocated and not deleted

vars == <<pc, args, eng, list, idx, tried, status, handle, livePds>>

Args == [se : Engines \cup {Null}, de : Engines \cup {Null},
         smd : MDs \cup {Null}, dmd : MDs \cup {Null}, out : BOOLEAN]
NoArgs == [se |-> Null, de |-> Null, smd |-> Null, dmd |-> Null, out |-> FALSE]
Status == {"success", "invalid_arguments", "unimplemented", "out_of_memory"}

Init ==
  /\ pc = "idle"
  /\ args = NoArgs
  /\ eng = Null
  /\ list = << >>
  /\ idx = 0
  /\ tried = << >>
  /\ status = "success"
  /\ handle = Null
  /\ livePds = 0

\* The caller calls dnnl_reorder_primitive_desc_create.
Call ==
  /\ pc = "idle"
  /\ pc' = "validate"
  /\ \E a \in Args : args' = a
  /\ UNCHANGED <<eng, list, idx, tried, status, handle, livePds>>

\* The caller is done with the result: dnnl_primitive_desc_destroy on the
\* returned handle deletes its reorder_pd_t.
Release ==
  /\ pc = "done"
  /\ livePds' = livePds - (IF handle = Null THEN 0 ELSE 1)
  /\ pc' = "idle" /\ handle' = Null
  /\ args' = NoArgs /\ eng' = Null /\ list' = << >> /\ idx' = 0
  /\ tried' = << >> /\ status' = "success"

\* Fault model: the disabled #else branch of lines 63-71, which rejects
\* every pair without a cpu engine.
Validate_no_cpu_engine ==
  /\ pc = "validate"
  /\ LET a == args IN
     IF \/ ~a.out \/ Null \in {a.se, a.de, a.smd, a.dmd}
        \/ "cpu" \notin {kind(a.se), kind(a.de)}
        \/ ~consistent_with(a.smd, a.dmd)
     THEN /\ pc' = "done" /\ status' = "invalid_arguments"
          /\ UNCHANGED <<eng, list, idx>>
     ELSE /\ pc' = "iterate"
          /\ eng' = get_reorder_engine(a.se, a.de)
          /\ list' = get_reorder_implementation_list(eng', a.smd, a.dmd)
          /\ idx' = 1
          /\ UNCHANGED status
  /\ UNCHANGED <<args, tried, handle, livePds>>

\* reorder.cpp:55-85: null arguments, engine-kind pairing, consistency;
\* then the executing engine and its list.
Validate ==
  /\ pc = "validate"
  /\ LET a == args IN
     IF \/ ~a.out \/ Null \in {a.se, a.de, a.smd, a.dmd}
        \/ kind(a.se) # kind(a.de) /\ "cpu" \notin {kind(a.se), kind(a.de)}
        \/ ~consistent_with(a.smd, a.dmd)
     THEN /\ pc' = "done" /\ status' = "invalid_arguments"
          /\ UNCHANGED <<eng, list, idx>>
     ELSE /\ pc' = "iterate"
          /\ eng' = get_reorder_engine(a.se, a.de)
          /\ list' = get_reorder_implementation_list(eng', a.smd, a.dmd)
          /\ idx' = 1
          /\ UNCHANGED status
  /\ UNCHANGED <<args, tried, handle, livePds>>

\* reorder.cpp:85-90: call the factory *r; an applicable candidate
\* allocates its pd, which may fail with out_of_memory.
CandidateResults(c) ==
  IF ~Applicable(c, args.smd, args.dmd) THEN {"unimplemented"}
  ELSE IF AllocCanFail THEN {"success", "out_of_memory"} ELSE {"success"}

\* Fault model: the iterator advanced twice past a refusing candidate.
TryCandidate_double_step ==
  /\ pc = "iterate"
  /\ idx <= Len(list)
  /\ \E r \in CandidateResults(list[idx]) :
       /\ tried' = Append(tried, r)
       /\ IF r = "success"
          THEN pc' = "wrap" /\ livePds' = livePds + 1 /\ UNCHANGED idx
          ELSE idx' = idx + 2 /\ UNCHANGED <<pc, livePds>>
  /\ UNCHANGED <<args, eng, list, status, handle>>

TryCandidate ==
  /\ pc = "iterate"
  /\ idx <= Len(list)
  /\ \E r \in CandidateResults(list[idx]) :
       /\ tried' = Append(tried, r)
       /\ IF r = "success"
          THEN pc' = "wrap" /\ livePds' = livePds + 1 /\ UNCHANGED idx
          ELSE idx' = idx + 1 /\ UNCHANGED <<pc, livePds>>
  /\ UNCHANGED <<args, eng, list, status, handle>>

\* Fault model: the loop stops one candidate early.
Exhausted_early ==
  /\ pc = "iterate"
  /\ idx >= Len(list)
  /\ pc' = "done" /\ status' = "unimplemented"
  /\ UNCHANGED <<args, eng, list, idx, tried, handle, livePds>>

\* reorder.cpp:104: the list ran out.
Exhausted ==
  /\ pc = "iterate"
  /\ idx > Len(list)
  /\ pc' = "done" /\ status' = "unimplemented"
  /\ UNCHANGED <<args, eng, list, idx, tried, handle, livePds>>

\* Fault model: the pd is not deleted when safe_ptr_assign fails.
Wrap_no_delete ==
  /\ pc = "wrap"
  /\ \E ok \in IF AllocCanFail THEN BOOLEAN ELSE {TRUE} :
       IF ok
       THEN /\ handle' = [impl |-> list[idx], eng |-> eng]
            /\ status' = "success" /\ UNCHANGED livePds
       ELSE /\ status' = "out_of_memory" /\ UNCHANGED <<handle, livePds>>
  /\ pc' = "done"
  /\ UNCHANGED <<args, eng, list, idx, tried>>

\* Fault model: the output written before the allocation is checked.
Wrap_assign_first ==
  /\ pc = "wrap"
  /\ handle' = [impl |-> list[idx], eng |-> eng]
  /\ \E ok \in IF AllocCanFail THEN BOOLEAN ELSE {TRUE} :
       IF ok THEN status' = "success" /\ UNCHANGED livePds
       ELSE status' = "out_of_memory" /\ livePds' = livePds - 1
  /\ pc' = "done"
  /\ UNCHANGED <<args, eng, list, idx, tried>>

\* reorder.cpp:93-101: new reorder_primitive_desc_iface_t, then
\* safe_ptr_assign, which fails with out_of_memory on a null pointer; on
\* failure the reorder_pd_t is deleted.
Wrap ==
  /\ pc = "wrap"
  /\ \E ok \in IF AllocCanFail THEN BOOLEAN ELSE {TRUE} :
       IF ok
       THEN /\ handle' = [impl |-> list[idx], eng |-> eng]
            /\ status' = "success" /\ UNCHANGED livePds
       ELSE /\ status' = "out_of_memory" /\ livePds' = livePds - 1
            /\ UNCHANGED handle
  /\ pc' = "done"
  /\ UNCHANGED <<args, eng, list, idx, tried>>

Next ==
  \/ Call
  \/ Release
  \/ Validate
  \/ TryCandidate
  \/ Exhausted
  \/ Wrap

Spec == Init /\ [][Next]_vars

-----------------------------------------------------------------------------
Candidates == [sdt : DataTypes \cup {"u8", "any"}, tag_i : Tags \cup {"any"},
               ddt : DataTypes \cup {"u8", "any"}, tag_o : Tags \cup {"any"},
               order : {"any", "keep", "reverse"},
               spec : {"direct_copy", "direct_copy_except_dim_0", "reference",
                       "conv_s8s8", "ocl_generic"}]

TypeOK ==
  /\ pc \in {"idle", "validate", "iterate", "wrap", "done"}
  /\ args \in Args
  /\ eng \in Engines \cup {Null}
  /\ list \in Seq(Candidates)
  /\ idx \in 0..Len(list) + 1
  /\ tried \in Seq(Status)
  /\ status \in Status
  /\ handle \in {Null} \cup [impl : Candidates, eng : Engines]
  /\ livePds \in 0..2

ValidArgs(a) ==
  /\ a.out /\ Null \notin {a.se, a.de, a.smd, a.dmd}
  /\ kind(a.se) # kind(a.de) => "cpu" \in {kind(a.se), kind(a.de)}
  /\ consistent_with(a.smd, a.dmd)
AllocFailed == \E i \in DOMAIN tried : tried[i] = "out_of_memory"
FirstOf(S) == CHOOSE j \in S : \A k \in S : j <= k
ApplicableIdx == {j \in 1..Len(list) : Applicable(list[j], args.smd, args.dmd)}

(***************************************************************************)
(* First match wins (spec 4.2 step 4-5): when no factory ran out of        *)
(* memory, a validated call returns the pd of the first candidate of the   *)
(* executing engine's list that accepts the descriptors, and returns       *)
(* unimplemented exactly when none of them does.                           *)
(***************************************************************************)
ReorderFirstMatch ==
  pc = "done" /\ ValidArgs(args) /\ ~AllocFailed /\ status # "out_of_memory" =>
    IF ApplicableIdx = {} THEN status = "unimplemented"
    ELSE status = "success" /\ handle.impl = list[FirstOf(ApplicableIdx)]

(***************************************************************************)
(* The generic reference reorder is the last resort (spec 4.2 step 4, 8.4):*)
(* when no factory ran out of memory, a call returns it only if no other   *)
(* candidate of the list accepts the descriptors; a reference entry        *)
(* registered ahead of a faster one would shadow it.                       *)
(***************************************************************************)
IsFallback(c) == c.spec = "reference" /\ c.order = "any"
ReorderReferenceIsLastResort ==
  pc = "done" /\ status = "success" /\ ~AllocFailed /\ IsFallback(handle.impl)
    => \A j \in ApplicableIdx : IsFallback(list[j])

(***************************************************************************)
ReorderEngineChoice ==
  eng # Null =>
    eng = IF is_native_runtime(args.se) /\ ~is_native_runtime(args.de)
          THEN args.de ELSE args.se

(***************************************************************************)
(* No reorder_pd_t leaks: one is alive exactly while it is owned by the    *)
(* handle returned to the caller or is being wrapped; a failed wrap        *)
(* deletes it (reorder.cpp:100).                                           *)
(***************************************************************************)
ReorderNoLeak ==
  livePds = (IF handle # Null THEN 1 ELSE 0) + (IF pc = "wrap" THEN 1 ELSE 0)

(***************************************************************************)
(* A call that fails writes no output handle, and a call rejected by the   *)
(* pipeline's own validation runs no candidate factory (spec 7).           *)
(***************************************************************************)
ReorderFailureIsClean ==
  pc = "done" /\ status # "success" =>
    /\ handle = Null
    /\ status = "invalid_arguments" => tried = << >>

(***************************************************************************)
(* Allocation failures are not swallowed (spec 7): if a factory reported   *)
(* out_of_memory, the call does not report unimplemented.                  *)
(***************************************************************************)
ReorderOomSurfaced ==
  pc = "done" /\ AllocFailed => status # "unimplemented"
=============================================================================
