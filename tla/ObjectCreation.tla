---------------------------- MODULE ObjectCreation ----------------------------
(***************************************************************************)
(* The three creation paths that allocate an object, initialise it and    *)
(* hand it to the caller through an out-pointer:                          *)
(*   dnnl_primitive_desc::create_primitive_iface (primitive_desc.cpp)     *)
(*   cpu_engine_t::create_memory_storage and create_stream (cpu_engine.cpp)*)
(* and the accessor dnnl_primitive_desc_get_attr, which hands out an      *)
(* attribute pointer the same way.                                        *)
(* Each is one atomic action with every failure point chosen by \E: the   *)
(* allocation (new returning null, caught by safe_ptr_assign or the null  *)
(* test), create_primitive, and init.  The caller owns what it receives   *)
(* and later destroys it.                                                 *)
(***************************************************************************)
EXTENDS Naturals, FiniteSets

CONSTANT MaxObjects     \* the caller creates at most this many objects

Status == {"success", "out_of_memory", "runtime_error", "invalid_arguments"}

VARIABLES
  next,      \* the id the next allocation gets
  live,      \* the allocated objects, by id
  owned,     \* the objects the caller holds through an out-pointer
  last       \* <<kind, status, output written>> of the last call

vars == <<next, live, owned, last>>

Init == next = 1 /\ live = {} /\ owned = {} /\ last = <<"none", "none", FALSE>>

\* Fault model: p_iface not deleted when init fails.
create_primitive_iface_no_delete ==
  /\ next <= MaxObjects
  /\ \E cp \in Status, alloc \in BOOLEAN, init \in Status :
       IF cp # "success" THEN last' = <<"primitive_iface", cp, FALSE>>
                             /\ UNCHANGED <<next, live, owned>>
       ELSE IF ~alloc THEN last' = <<"primitive_iface", "out_of_memory", FALSE>>
                           /\ UNCHANGED <<next, live, owned>>
       ELSE /\ next' = next + 1
            /\ live' = live \cup {next}
            /\ IF init = "success"
               THEN owned' = owned \cup {next}
                    /\ last' = <<"primitive_iface", "success", TRUE>>
               ELSE owned' = owned /\ last' = <<"primitive_iface", init, FALSE>>

\* Fault model: *primitive_iface written before init, which then fails and
\* deletes p_iface.
create_primitive_iface_assign_first ==
  /\ next <= MaxObjects
  /\ \E cp \in Status, alloc \in BOOLEAN, init \in Status :
       IF cp # "success" THEN last' = <<"primitive_iface", cp, FALSE>>
                             /\ UNCHANGED <<next, live, owned>>
       ELSE IF ~alloc THEN last' = <<"primitive_iface", "out_of_memory", FALSE>>
                           /\ UNCHANGED <<next, live, owned>>
       ELSE /\ next' = next + 1
            /\ owned' = owned \cup {next}
            /\ IF init = "success"
               THEN /\ live' = live \cup {next}
                    /\ last' = <<"primitive_iface", "success", TRUE>>
               ELSE /\ UNCHANGED live
                    /\ last' = <<"primitive_iface", init, TRUE>>

\* primitive_desc.cpp:69-86: create_primitive (or a cache hit) may fail;
\* then new primitive_iface_t through safe_ptr_assign (CHECK returns
\* out_of_memory on null); then init, whose failure deletes p_iface; only
\* then is *primitive_iface written.
create_primitive_iface ==
  /\ next <= MaxObjects
  /\ \E cp \in Status, alloc \in BOOLEAN, init \in Status :
       IF cp # "success" THEN last' = <<"primitive_iface", cp, FALSE>>
                             /\ UNCHANGED <<next, live, owned>>
       ELSE IF ~alloc THEN last' = <<"primitive_iface", "out_of_memory", FALSE>>
                           /\ UNCHANGED <<next, live, owned>>
       ELSE /\ next' = next + 1
            /\ IF init = "success"
               THEN /\ live' = live \cup {next}
                    /\ owned' = owned \cup {next}
                    /\ last' = <<"primitive_iface", "success", TRUE>>
               ELSE /\ UNCHANGED <<live, owned>>
                    /\ last' = <<"primitive_iface", init, FALSE>>

\* Fault model: *storage written before init is checked.
create_memory_storage_assign_first ==
  /\ next <= MaxObjects
  /\ \E alloc \in BOOLEAN, init \in Status :
       IF ~alloc THEN last' = <<"memory_storage", "out_of_memory", FALSE>>
                      /\ UNCHANGED <<next, live, owned>>
       ELSE /\ next' = next + 1
            /\ IF init = "success"
               THEN /\ live' = live \cup {next}
                    /\ owned' = owned \cup {next}
                    /\ last' = <<"memory_storage", "success", TRUE>>
               ELSE /\ UNCHANGED <<live, owned>>
                    /\ last' = <<"memory_storage", init, TRUE>>

\* cpu_engine.cpp:53-64: new cpu_memory_storage_t, null gives
\* out_of_memory; init(flags, size, handle), whose failure deletes it and
\* returns its status; then *storage is written.
create_memory_storage ==
  /\ next <= MaxObjects
  /\ \E alloc \in BOOLEAN, init \in Status :
       IF ~alloc THEN last' = <<"memory_storage", "out_of_memory", FALSE>>
                      /\ UNCHANGED <<next, live, owned>>
       ELSE /\ next' = next + 1
            /\ IF init = "success"
               THEN /\ live' = live \cup {next}
                    /\ owned' = owned \cup {next}
                    /\ last' = <<"memory_storage", "success", TRUE>>
               ELSE /\ UNCHANGED <<live, owned>>
                    /\ last' = <<"memory_storage", init, FALSE>>

\* cpu_engine.cpp:66-70: safe_ptr_assign of new cpu_stream_t: null gives
\* out_of_memory, else *stream is written.
create_stream ==
  /\ next <= MaxObjects
  /\ \E alloc \in BOOLEAN :
       IF ~alloc THEN last' = <<"stream", "out_of_memory", FALSE>>
                      /\ UNCHANGED <<next, live, owned>>
       ELSE /\ next' = next + 1
            /\ live' = live \cup {next}
            /\ owned' = owned \cup {next}
            /\ last' = <<"stream", "success", TRUE>>

\* primitive_desc.cpp:124-131: dnnl_primitive_desc_get_attr returns
\* invalid_arguments when the iface or the out-pointer is null; else *attr
\* is written.  It allocates nothing.
dnnl_primitive_desc_get_attr ==
  /\ \E any_null \in BOOLEAN :
       last' = IF any_null THEN <<"attr", "invalid_arguments", FALSE>>
               ELSE <<"attr", "success", TRUE>>
  /\ UNCHANGED <<next, live, owned>>

\* The caller destroys an object it holds.
Destroy ==
  \E o \in owned : /\ live' = live \ {o}
                   /\ owned' = owned \ {o}
                   /\ UNCHANGED <<next, last>>

Next == \/ create_primitive_iface \/ create_memory_storage \/ create_stream
        \/ dnnl_primitive_desc_get_attr \/ Destroy

Spec == Init /\ [][Next]_vars
-----------------------------------------------------------------------------
\* No dangling handle: every object the caller holds through an
\* out-pointer is still allocated, whichever creation step failed.
CreationNoDangling == owned \subseteq live

\* Nothing leaks: after any sequence of creations, failed at any point,
\* and destructions, every object still allocated is held by the caller.
CreationNoLeak == live \subseteq owned

\* A creation writes the caller's out-pointer exactly when it returns
\* success: a failed init never hands out an object the code has deleted.
CreationOutputIffSuccess == last[3] <=> last[2] = "success"
=============================================================================
