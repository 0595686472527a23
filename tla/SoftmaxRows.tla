----------------------------- MODULE SoftmaxRows -----------------------------
(***************************************************************************)
(* What a softmax pass promises its caller: every (ou, in) row of its      *)
(* output (dst forward, diff_src backward) is computed once, all at once,  *)
(* from its own row's inputs, and in the end every row is.  The order of   *)
(* the rows is free.                                                       *)
(***************************************************************************)
CONSTANT Items          \* the rows: outer_size_ * inner_size_ of them

VARIABLE out            \* out[i]: "none" until row i is computed, then "correct"

Init == out = [i \in Items |-> "none"]

\* Row i computed.
Compute(i) ==
  /\ out[i] = "none"
  /\ out' = [out EXCEPT ![i] = "correct"]

Next == \E i \in Items : Compute(i)

Spec == Init /\ [][Next]_out /\ WF_out(Next)
=============================================================================
