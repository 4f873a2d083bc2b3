------------------------------ MODULE Outcomes ------------------------------
(***************************************************************************)
(* A Go function that changes a state and returns an error is an operator  *)
(* from the state before to the set of its possible outcomes: the state it *)
(* leaves and whether it returned nil.                                     *)
(***************************************************************************)

Done(s) == [to |-> s, ok |-> TRUE]
Failed(s) == [to |-> s, ok |-> FALSE]

\* "if err != nil { return err }" between a call and the next.
Then(outs, Next(_)) ==
  {o \in outs : ~o.ok} \cup UNION {Next(o.to) : o \in {p \in outs : p.ok}}

=============================================================================
