------------------------ MODULE MC_ReorderDispatch ------------------------
(* Two cpu engines, two gpu engines, two shapes per rank (sB is one whose *)
(* channels blocked layouts pad), three data types; allocations may fail. *)
EXTENDS ReorderDispatch, TLC

CONSTANTS c1, c2, g1, g2, sA, sB

MC_Engines == {c1, c2, g1, g2}
MC_CpuEngines == {c1, c2}
MC_Shapes == {sA, sB}
MC_PaddedShapes == {sB}
MC_DataTypes == {"f32", "s32", "s8"}

\* sA and sB are not symmetric: only sB is padded by a blocked layout.
Symmetry == Permutations({c1, c2}) \cup Permutations({g1, g2})

\* The refinement mapping: the validate, iterate and wrap steps are inside
\* the call; a pd being wrapped is not yet the caller's.
CPhase == CASE pc = "idle" -> "idle" [] pc = "done" -> "done" [] OTHER -> "busy"
CLive == livePds - (IF pc = "wrap" THEN 1 ELSE 0)
Contract == INSTANCE ReorderContract WITH pc <- CPhase, live <- CLive

\* dnnl_reorder_primitive_desc_create implements ReorderContract: seen
\* from the caller, the whole validate / candidate walk / wrap sequence is
\* one step that returns a permitted status and handle, and writes the
\* handle and hands over a pd only at that step.
ReorderRefinesContract == Contract!Spec
===========================================================================
