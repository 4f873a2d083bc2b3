-------------------------- MODULE PositionRegister --------------------------
(***************************************************************************)
(* What pkg/status promises its callers, whatever file operations it is    *)
(* made of: a register with a spare copy.  A call asks for one value; the  *)
(* register takes that value or keeps what it had; it may be set aside     *)
(* (Done renames it to .0) only when it holds the value asked for.  A      *)
(* write that fails may leave a part of the value, and what is written to  *)
(* such a register cannot be read.  A machine that loses power may fall    *)
(* back to the last acknowledged value, to one that was tried since, to    *)
(* the beginning when the spare copy holds the acknowledged value, or to a *)
(* file that only an operator can repair.                                  *)
(***************************************************************************)
EXTENDS Positions

VARIABLES
  reg,      \* what the next GetOffset would answer
  spare,    \* the same, of the .0 file
  cut,      \* whether a part of a value stands in the register
  asked,    \* the value of the call in progress, or NoCall
  acked,    \* the last value known to have reached the disk
  tried     \* the values whose writing was begun since

vars == <<reg, spare, cut, asked, acked, tried>>

NoCall == [pos |-> 0, flag |-> "none"]

Init ==
  /\ reg \in Value
  /\ spare \in {Fresh, reg}
  /\ cut = FALSE
  /\ asked = NoCall
  /\ acked = reg
  /\ tried = {}

\* The value is in the register, not yet known to survive a power failure.
Write(v) ==
  /\ asked = NoCall
  /\ reg # Unreadable \/ cut
  /\ asked' = v
  /\ reg' = IF cut THEN Unreadable ELSE v
  /\ tried' = tried \cup {v}
  /\ UNCHANGED <<spare, cut, acked>>

\* A part of it is; behind another part, it can at most spoil the flag.
WritePart(v) ==
  /\ asked \in {NoCall, v}
  /\ reg # Unreadable \/ cut
  /\ asked' = NoCall
  /\ reg' \in {Unreadable} \cup IF cut THEN {[reg EXCEPT !.flag = "cut"]} ELSE CutShort(v)
  /\ cut' \in {cut, TRUE}
  /\ reg' # Unreadable => cut'
  /\ tried' = tried \cup {v}
  /\ UNCHANGED <<spare, acked>>

\* Done writes it again to the register it has emptied.
WriteAgain ==
  /\ asked # NoCall
  /\ reg = Fresh
  /\ reg' = asked
  /\ UNCHANGED <<spare, cut, asked, acked, tried>>

\* A new version takes the register over and drops its spare copy; a machine
\* that loses power may have both back.
TakeOver ==
  /\ asked = NoCall
  /\ spare' = Fresh
  /\ UNCHANGED <<reg, cut, asked, acked, tried>>

\* It is durable, readable or not.
Acknowledge ==
  /\ asked # NoCall
  /\ reg = asked \/ cut
  /\ acked' = asked
  /\ asked' \in {asked, NoCall}
  /\ tried' = {}
  /\ UNCHANGED <<reg, spare, cut>>

SetAside ==
  /\ asked # NoCall
  /\ acked = asked
  /\ reg = asked \/ cut
  /\ spare' = reg
  /\ reg' = Fresh
  /\ cut' = FALSE
  /\ UNCHANGED <<asked, acked, tried>>

\* The call fails or the process dies: nothing else changes.
Abandon ==
  /\ asked' = NoCall
  /\ UNCHANGED <<reg, spare, cut, acked, tried>>

\* The spare copy holds acked, though it cannot always be read.
HasSpare == spare \in {acked, Unreadable}

Parts == UNION {CutShort(v) : v \in tried \cup {acked}}

PowerFailure ==
  /\ asked' = NoCall
  /\ cut' \in BOOLEAN
  /\ \/ /\ \/ reg' \in {reg, acked, Unreadable} \cup tried
           \/ cut' /\ reg' \in Parts
        /\ spare' = spare \/ (spare = Fresh /\ spare' \in Value)
     \/ reg' = Fresh /\ HasSpare /\ UNCHANGED spare
     \/ reg' = spare /\ HasSpare /\ spare' \in Reading       \* a rename undone
  /\ UNCHANGED <<acked, tried>>

\* An operator puts the spare copy back, or deletes the file.
Repair ==
  /\ reg = Unreadable
  /\ asked = NoCall
  /\ reg' \in {spare, Fresh} \ {Unreadable}
  /\ cut' = FALSE
  /\ acked' = reg'
  /\ tried' = {}
  /\ UNCHANGED <<spare, asked>>

Next ==
  \/ PowerFailure
  \/ Abandon
  \/ TakeOver
  \/ Acknowledge
  \/ SetAside
  \/ WriteAgain
  \/ Repair
  \/ \E v \in Value : Write(v) \/ WritePart(v)

Spec == Init /\ [][Next]_vars
=============================================================================
