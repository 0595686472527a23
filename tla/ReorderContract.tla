-------------------------- MODULE ReorderContract --------------------------
(***************************************************************************)
(* What dnnl_reorder_primitive_desc_create promises its caller, as one     *)
(* atomic step per call: the call returns a status and, on success, a      *)
(* handle owning one reorder_pd_t of the executing engine; the caller      *)
(* later destroys it.  Which pd it may return is the first-match rule of   *)
(* the executing engine's candidate list (spec 4.2), weakened where a      *)
(* factory or the wrap may run out of memory: then a later applicable     *)
(* candidate, unimplemented (the loop goes on past a failing factory) or   *)
(* out_of_memory (the wrap failed) may come back instead.                  *)
(***************************************************************************)
EXTENDS Naturals, Sequences

CONSTANTS Engines, CpuEngines, Shapes, PaddedShapes, DataTypes, Null,
          AllocCanFail

VARIABLES
  pc,      \* "idle" | "busy" | "done": before, inside and after the call
  args,    \* the call's arguments
  status,  \* the status returned
  handle,  \* *reorder_pd_iface as seen by the caller
  live     \* reorder_pd_t objects the caller owns

cvars == <<pc, args, status, handle, live>>

\* The descriptor, engine and list definitions of the detailed module.
LOCAL R == INSTANCE ReorderDispatch WITH eng <- Null, list <- << >>,
                                         idx <- 0, tried <- << >>,
                                         livePds <- live

\* The executing engine's candidate list, and the candidates that accept
\* the descriptors.
EngineList(a) ==
  R!get_reorder_implementation_list(R!get_reorder_engine(a.se, a.de),
                                    a.smd, a.dmd)
Fits(a) == {j \in 1..Len(EngineList(a)) :
              R!Applicable(EngineList(a)[j], a.smd, a.dmd)}

\* The <<status, handle>> pairs a call with arguments a may return.
Outcomes(a) ==
  LET Pd(j) == [impl |-> EngineList(a)[j],
                eng |-> R!get_reorder_engine(a.se, a.de)]
  IN  IF ~R!ValidArgs(a) THEN {<<"invalid_arguments", Null>>}
      ELSE IF Fits(a) = {} THEN {<<"unimplemented", Null>>}
      ELSE {<<"success", Pd(R!FirstOf(Fits(a)))>>}
           \cup IF AllocCanFail
                THEN {<<"success", Pd(j)>> : j \in Fits(a)}
                       \cup {<<"unimplemented", Null>>, <<"out_of_memory", Null>>}
                ELSE {}

Init ==
  /\ pc = "idle"
  /\ args = R!NoArgs
  /\ status = "success"
  /\ handle = Null
  /\ live = 0

Call ==
  /\ pc = "idle"
  /\ pc' = "busy"
  /\ args' \in R!Args
  /\ UNCHANGED <<status, handle, live>>

\* The call returns; a pd is owned by the caller exactly when a handle is.
Return ==
  /\ pc = "busy"
  /\ \E o \in Outcomes(args) :
       /\ status' = o[1]
       /\ handle' = o[2]
       /\ live' = live + (IF o[2] = Null THEN 0 ELSE 1)
  /\ pc' = "done"
  /\ UNCHANGED args

\* dnnl_primitive_desc_destroy on the handle; nothing stays alive.
Release ==
  /\ pc = "done"
  /\ pc' = "idle"
  /\ args' = R!NoArgs /\ status' = "success" /\ handle' = Null
  /\ live' = 0

Next == Call \/ Return \/ Release

Spec == Init /\ [][Next]_cvars
=============================================================================
