----------------------------- MODULE Positions -----------------------------
(***************************************************************************)
(* The values a state file holds (pkg/status/status.go).  The pair (file   *)
(* name, offset) of the source is abstracted to one number: the blocks of  *)
(* an event session, or the rows of the job history, are numbered in the   *)
(* order they are read, and position p says "everything up to p was done". *)
(* Position 0 is the pair ("", 0).                                         *)
(***************************************************************************)
EXTENDS Naturals

CONSTANT MaxPos     \* the largest position (a bound)

ASSUME MaxPosAssumption == MaxPos \in Nat

Position == 0 .. MaxPos

\* StateSuccess and StateReset
Flag == {"good", "reset"}

Value == [pos : Position, flag : Flag]

\* What GetOffset answers for a missing or an empty file.
Fresh == [pos |-> 0, flag |-> "good"]

\* A file GetOffset refuses: nulls, a torn line, lines of different widths.
Unreadable == [pos |-> 0, flag |-> "unreadable"]

(***************************************************************************)
(* What GetOffset may make of the line of v when the line was cut short    *)
(* and is the last of its file: cut inside the number, a line of two       *)
(* columns with a number that is too small (or, cut right behind it, the   *)
(* whole number) and no status, which counts as "good"; cut inside the     *)
(* status or behind it, the number and what is left of the status.  No     *)
(* caller tells "cut" from "good": they ask only for "reset".              *)
(***************************************************************************)
CutNumber(v) == {[pos |-> p, flag |-> "good"] : p \in 1 .. v.pos}
CutFlag(v) == {v, [v EXCEPT !.flag = "cut"]}
CutShort(v) == CutNumber(v) \cup CutFlag(v)

Seen == [pos : Position, flag : Flag \cup {"cut"}]

Reading == Seen \cup {Unreadable}
=============================================================================
