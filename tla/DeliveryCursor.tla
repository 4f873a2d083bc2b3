--------------------------- MODULE DeliveryCursor ---------------------------
(***************************************************************************)
(* What a reader of an event session promises, whatever polls, files and   *)
(* sinks it is made of: at-least-once delivery behind a cursor.  Events    *)
(* are given once and for all; the cursor advances over events that were   *)
(* all given; it goes back only in trouble (an error, a crash, a power     *)
(* failure), and then events are given again, never left out.              *)
(***************************************************************************)
EXTENDS Positions

CONSTANT Size    \* events per position

VARIABLES
  pos,        \* every event up to here was given
  given,      \* events no sink is owed any more
  trouble     \* faults so far

vars == <<pos, given, trouble>>

Before(p) == (1 .. p) \X (1 .. Size)

Init ==
  /\ pos = 0
  /\ given \subseteq (1 .. MaxPos) \X (1 .. Size)
  /\ trouble = 0

Give ==
  /\ given \subseteq given'
  /\ UNCHANGED pos
  /\ trouble' \in {trouble, trouble + 1}

Advance ==
  /\ pos' > pos
  /\ Before(pos') \subseteq given
  /\ UNCHANGED <<given, trouble>>

GoBack ==
  /\ pos' < pos
  /\ trouble' = trouble + 1
  /\ UNCHANGED given

Next == Give \/ Advance \/ GoBack

Spec == Init /\ [][Next]_vars
=============================================================================
