---------------------------- MODULE MCStateFile ----------------------------
(* An instance of StateFile: two values, so that a number cut short is a   *)
(* position of neither and a status cut short tells one from the other.    *)
EXTENDS StateFile

MCSaved == {[pos |-> 1, flag |-> "reset"], [pos |-> 2, flag |-> "good"]}
=============================================================================
