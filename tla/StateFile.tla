------------------------------ MODULE StateFile ------------------------------
(***************************************************************************)
(* The state file of one session, pkg/status/status.go: SwitchV2,          *)
(* GetOffset, Save and Done as the file operations they are made of, with  *)
(* an error, a killed process or a power failure possible between any two  *)
(* of them.                                                                *)
(*                                                                         *)
(* SwitchV2 takes over the file of the old status directory, if any.       *)
(* Save appends a line and syncs.  Done saves, renames the file to .0 and  *)
(* writes the last line again to a new file.  GetOffset reads the main     *)
(* file only: the last line counts, every line must parse.                 *)
(***************************************************************************)
EXTENDS Positions, Sequences, SequencesExt

CONSTANTS
  Saved,      \* the values callers save: positions they have read
  MaxLines,   \* bound on the lines of a file
  Columns,    \* widths of the line a file starts with: {3}, or {2, 3} when
              \* a file of the two-column format may have been taken over
  NullLegacy  \* whether the old file may be all zeros, its .0 file whole

ASSUME LinesAssumption ==
  /\ MaxLines \in Nat \ {0} /\ Columns \subseteq {2, 3} /\ NullLegacy \in BOOLEAN
  /\ Saved \subseteq {v \in Value : v.pos > 0}

VARIABLES
  main,       \* the state file, or NoFile
  zero,       \* the .0 file, or NoFile
  before,     \* what .0 was before a rename that is not yet durable
  legacy,     \* the state file of the old directory, or NoFile
  legacyZero, \* its .0 file: what SwitchV2 removes
  moved,      \* whether the take-over is not yet durable
  pc,         \* where the session's File is
  op,         \* the call in progress: "save", "done" or "none"
  want,       \* the value it writes, or Fresh
  acked,      \* history: the last value known to have reached the disk
  tried       \* history: the values whose lines were begun since

old == <<legacy, legacyZero, moved>>
vars == <<main, zero, before, old, pc, op, want, acked, tried>>

\* "whole": as written; "cut": cut short inside the number or behind it;
\* "torn": cut short before it; "null": zeros where the line should be.
Line == [kind : {"whole", "cut", "torn", "null"}, val : Seen, cols : {2, 3}]

\* The first "synced" lines survive a power failure.
File == [lines : SeqOf(Line, MaxLines), synced : 0 .. MaxLines]

NoFile == [lines |-> <<>>, synced |-> 0, none |-> TRUE]
Empty  == [lines |-> <<>>, synced |-> 0]

WholeLine(v, c) == [kind |-> "whole", val |-> v, cols |-> c]
CutLine(v, c) == [kind |-> "cut", val |-> v, cols |-> c]
BadLine(k) == [kind |-> k, val |-> Fresh, cols |-> 2]

\* What a write of the line of v that fails half way may leave of it.
Cuts(v) == {CutLine(u, 2) : u \in CutNumber(v)}
           \cup {CutLine(u, 3) : u \in CutFlag(v)} \cup {BadLine("torn")}

AllNull(f) ==
  f.lines # <<>> /\ \A i \in DOMAIN f.lines : f.lines[i].kind = "null"

(***************************************************************************)
(* The csv reader takes the width of the first line for the width of all;  *)
(* a null or torn line is never as wide as a whole one or has no number.   *)
(* A line cut short can pass at the end of the file: one of three columns  *)
(* behind others of three, one of two when it stands alone.  What is       *)
(* written behind it is glued to it and makes more columns than three.     *)
(***************************************************************************)
Parses(f) ==
  /\ ~AllNull(f)                                        \* checkNullFile
  /\ \A i \in DOMAIN f.lines :
       /\ f.lines[i].kind = "whole" \/ (f.lines[i].kind = "cut" /\ i = Len(f.lines))
       /\ f.lines[i].cols = f.lines[1].cols

HasCut(f) == \E i \in DOMAIN f.lines : f.lines[i].kind = "cut"

Read(f) ==
  IF f.lines = <<>> THEN Fresh
  ELSE IF Parses(f) THEN Last(f.lines).val
  ELSE Unreadable

\* Until it has been taken over, the old file is the session's state file.
Current == IF legacy # NoFile THEN legacy ELSE main
Spare == IF legacy # NoFile THEN legacyZero ELSE zero

StartedFiles ==
  {[lines |-> <<WholeLine(v, c)>>, synced |-> 1] :
     v \in Saved, c \in Columns}

\* A session that is new, one of this version or one of the version before.
Init ==
  /\ \/ main = NoFile /\ legacy = NoFile /\ legacyZero = NoFile
     \/ main \in StartedFiles /\ legacy = NoFile /\ legacyZero = NoFile
     \/ /\ main = NoFile
        /\ legacyZero \in StartedFiles
        /\ \/ legacy = legacyZero
           \/ NullLegacy /\ legacy = [lines |-> <<BadLine("null")>>, synced |-> 1]
  /\ \A i \in DOMAIN Current.lines :
       Current.lines[i].cols = 2 => Current.lines[i].val.flag = "good"
  /\ zero = NoFile
  /\ before = NoFile
  /\ moved = FALSE
  /\ pc = "closed"
  /\ op = "none"
  /\ want = Fresh
  /\ acked = Read(IF legacy # NoFile THEN legacyZero ELSE main)
  /\ tried = {}

\* The call has returned.
CallEnds == op' = "none" /\ want' = Fresh

(***************************************************************************)
(* SwitchV2: the old file becomes the new one, its .0 file is removed.  It *)
(* is refused when the new file exists already, which ends the poll.       *)
(***************************************************************************)
SwitchV2 ==
  /\ pc = "closed"
  /\ legacy # NoFile
  /\ main = NoFile
  /\ main' = legacy
  /\ legacy' = NoFile
  /\ moved' = TRUE
  /\ UNCHANGED <<zero, before, legacyZero, pc, op, want, acked, tried>>

\* Every poll calls SwitchV2 first.
GetOffset ==
  /\ pc = "closed"
  /\ legacy = NoFile
  /\ Read(main) # Unreadable
  /\ main' = IF main = NoFile THEN Empty ELSE main
  /\ pc' = "open"
  /\ UNCHANGED <<zero, before, old, op, want, acked, tried>>

\* Faulty variant of BeginSave: the status column is left empty.
BeginSaveNoStatus(o, v) ==
  /\ pc = "open"
  /\ Len(main.lines) < MaxLines
  /\ op' = o
  /\ want' = [v EXCEPT !.flag = ""]
  /\ main' = [main EXCEPT !.lines = Append(@, WholeLine(v, 3))]
  /\ tried' = tried \cup {v}
  /\ pc' = "sync"
  /\ UNCHANGED <<zero, before, acked, old>>

\* writeState, first half: the line is in the file.  Done starts like Save.
BeginSave(o, v) ==
  /\ pc = "open"
  /\ Len(main.lines) < MaxLines
  /\ op' = o
  /\ want' = v
  /\ main' = [main EXCEPT !.lines = Append(@, WholeLine(v, 3))]
  /\ tried' = tried \cup {v}
  /\ pc' = "sync"
  /\ UNCHANGED <<zero, before, acked, old>>

\* writeState, second half; Save returns, Done goes on to close and rename.
Sync ==
  /\ pc = "sync"
  /\ main' = [main EXCEPT !.synced = Len(main.lines)]
  /\ acked' = want
  /\ tried' = {}
  /\ moved' = FALSE
  /\ \/ op = "save" /\ pc' = "open" /\ CallEnds
     \/ op = "done" /\ pc' = "rename" /\ UNCHANGED <<op, want>>
  /\ UNCHANGED <<zero, before, legacy, legacyZero>>

\* Faulty variant of Rename: the file is removed, .0 stays what it was.
RenameAway ==
  /\ pc = "rename"
  /\ before' = zero
  /\ main' = NoFile
  /\ pc' = "create"
  /\ UNCHANGED <<zero, op, want, acked, tried, old>>

\* Whatever .0 was is replaced: the code's own removal of it never runs.
Rename ==
  /\ pc = "rename"
  /\ before' = zero
  /\ zero' = main
  /\ main' = NoFile
  /\ pc' = "create"
  /\ UNCHANGED <<op, want, acked, tried, old>>

Create ==
  /\ pc = "create"
  /\ main' = Empty
  /\ pc' = "rewrite"
  /\ UNCHANGED <<zero, before, op, want, acked, tried, old>>

\* Faulty variant of Rewrite: the new file always says "good".
RewriteGood ==
  /\ pc = "rewrite"
  /\ main' = [main EXCEPT
              !.lines = Append(@, WholeLine([want EXCEPT !.flag = "good"], 3))]
  /\ pc' = "resync"
  /\ UNCHANGED <<zero, before, op, want, acked, tried, old>>

Rewrite ==
  /\ pc = "rewrite"
  /\ main' = [main EXCEPT !.lines = Append(@, WholeLine(want, 3))]
  /\ pc' = "resync"
  /\ UNCHANGED <<zero, before, op, want, acked, tried, old>>

Resync ==
  /\ pc = "resync"
  /\ main' = [main EXCEPT !.synced = Len(main.lines)]
  /\ before' = NoFile
  /\ acked' = want
  /\ tried' = {}
  /\ pc' = "closed"
  /\ CallEnds
  /\ UNCHANGED <<zero, old>>

\* A call fails and the session returns, the session returns without calling
\* Done, or the process is killed: the next GetOffset finds the file as it is.
Return ==
  /\ pc # "closed"
  /\ pc' = "closed"
  /\ before' = NoFile
  /\ CallEnds
  /\ UNCHANGED <<main, zero, acked, tried, old>>

(***************************************************************************)
(* A part of one of the lines ls behind the lines s.  Behind a line that   *)
(* was cut in its status column, a part of a name, or zeros, only makes    *)
(* that column longer.                                                     *)
(***************************************************************************)
EndsInStatus(s) == s # <<>> /\ Last(s).kind = "cut" /\ Last(s).cols = 3

Spoilt(s, ls) ==
  {Append(s, l) : l \in ls} \cup
  IF EndsInStatus(s) THEN {[s EXCEPT ![Len(s)].val.flag = "cut"]} ELSE {}

\* A write that fails half way (a full disk) leaves part of its line.
ShortWrite(v) ==
  /\ \/ pc = "open"
     \/ pc = "rewrite" /\ v = want
  /\ Len(main.lines) < MaxLines
  /\ \E s \in Spoilt(main.lines, Cuts(v)) : main' = [main EXCEPT !.lines = s]
  /\ tried' = tried \cup {v}
  /\ pc' = "closed"
  /\ before' = NoFile
  /\ CallEnds
  /\ UNCHANGED <<zero, acked, old>>

(***************************************************************************)
(* What a power failure leaves of a file: the synced lines and as many of  *)
(* the others as had reached the disk, perhaps with a part of the next, or *)
(* with zeros in its place (and behind it).                                *)
(***************************************************************************)

\* No part of a line has more columns than the line.
Pieces(l) ==
  {BadLine("torn"), BadLine("null")} \cup
  {c \in Cuts(l.val) : l.kind \in {"whole", "cut"} /\ c.cols <= l.cols}

Survivors(f) ==
  LET upTo(n) == SubSeq(f.lines, 1, n)
      left == {upTo(n) : n \in f.synced .. Len(f.lines)} \cup
              UNION {Spoilt(upTo(n), Pieces(f.lines[n + 1])) :
                       n \in f.synced .. Len(f.lines) - 1}
  IN  IF f.synced = Len(f.lines) THEN {f}
      ELSE {[lines |-> s, synced |-> Len(s)] : s \in left}

PowerFailure ==
  /\ \/ main' \in Survivors(main) /\ UNCHANGED <<zero, legacy>>
     \/ /\ pc \in {"create", "rewrite", "resync"}    \* the rename is undone
        /\ main' = zero
        /\ zero' = before
        /\ UNCHANGED legacy
     \/ /\ moved                                     \* the take-over is undone
        /\ legacy' \in Survivors(main)
        /\ main' = NoFile
        /\ UNCHANGED zero
  /\ before' = NoFile
  /\ moved' = FALSE
  /\ pc' = "closed"
  /\ CallEnds
  /\ UNCHANGED <<legacyZero, acked, tried>>

\* The message of checkNullFile asks for this; README.md also for deletion.
\* An operator who finds the .0 file unreadable too deletes the file.
Repair ==
  /\ pc = "closed"
  /\ legacy = NoFile
  /\ Read(main) = Unreadable
  /\ main' \in {f \in {zero, NoFile} : Read(f) # Unreadable}
  /\ acked' = Read(main')
  /\ tried' = {}
  /\ moved' = FALSE
  /\ UNCHANGED <<zero, before, legacy, legacyZero, pc, op, want>>

Next ==
  \/ SwitchV2
  \/ GetOffset
  \/ \E o \in {"save", "done"}, v \in Saved : BeginSave(o, v)
  \/ Sync
  \/ Rename
  \/ Create
  \/ Rewrite
  \/ Resync
  \/ Return
  \/ \E v \in Saved : ShortWrite(v)
  \/ PowerFailure
  \/ Repair

Spec == Init /\ [][Next]_vars

-----------------------------------------------------------------------------
(***************************************************************************)
(* Properties                                                              *)
(***************************************************************************)

TypeOK ==
  /\ main \in File \cup {NoFile}
  /\ zero \in File \cup {NoFile}
  /\ before \in File \cup {NoFile}
  /\ legacy \in File \cup {NoFile} /\ legacyZero \in File \cup {NoFile}
  /\ moved \in BOOLEAN
  /\ pc \in {"closed", "open", "sync", "rename", "create", "rewrite",
            "resync"}
  /\ op \in {"save", "done", "none"}
  /\ want \in Saved \cup {Fresh}
  /\ acked \in Saved \cup {Fresh}
  /\ tried \subseteq Saved

\* f ends in the whole line of v, and reads as v unless that line is glued to
\* one that was cut short.
Holds(f, v) ==
  /\ f.lines # <<>> /\ Last(f.lines) = WholeLine(v, 3)
  /\ Read(f) = v \/ HasCut(f)

(***************************************************************************)
(* Whatever fails and whenever, a readable state file holds the position a *)
(* sync acknowledged last or one whose line was begun since, also while it *)
(* is taken over from the old directory; or what is left of one of these,  *)
(* in a file that ends in a line cut short: a smaller position only when   *)
(* that is its only line.  A file that reads as new although a position    *)
(* was acknowledged has that position in its .0 file.  This is what Done's *)
(* order (save, rename, create, write) is for.                             *)
(***************************************************************************)
PositionKept ==
  LET r == Read(Current)
      written == tried \cup {acked}
  IN  \/ r \in written \cup {Unreadable}
      \/ /\ HasCut(Current)
         /\ \E v \in written : r \in CutShort(v) /\
                               (r.pos = v.pos \/ Len(Current.lines) = 1)
      \/ r = Fresh /\ Holds(Spare, acked)

(***************************************************************************)
(* The message of checkNullFile, "replace with .0 file", is good advice:   *)
(* when the state file is all zeros and a position was ever acknowledged,  *)
(* the .0 file ends in the last acknowledged position, and is readable     *)
(* unless it was written behind a line cut short.  It does not hold with   *)
(* NullLegacy: SwitchV2 takes the zeros over, and removes the .0 file      *)
(* before anybody has looked (status.go:432).                              *)
(***************************************************************************)
NullFileHasSpare ==
  AllNull(Current) /\ acked # Fresh => Holds(Spare, acked)

\* Lines that were written whole can be read back: GetOffset accepts lines of
\* two columns and of three (status.go, "Assume we are good").
WholeLinesReadable ==
  (\A i \in DOMAIN Current.lines : Current.lines[i].kind = "whole") =>
    Read(Current) # Unreadable

(***************************************************************************)
(* Why they hold, for files whose lines have three columns.  A line that   *)
(* is not synced is behind whole or cut ones only, and what is set aside   *)
(* is synced and ends in a whole line; the last synced line and all that   *)
(* follow are of acked or of what was tried since, and while nothing is    *)
(* synced the .0 file has acked.                                           *)
(***************************************************************************)
Written(l) == l.kind \in {"whole", "cut"}

Proper(l) ==
  Written(l) => l.val.pos > 0 /\ (l.kind = "whole" => l.cols = 3 /\ l.val \in Saved)

Sound(f) ==
  /\ f.synced <= Len(f.lines)
  /\ \A i \in DOMAIN f.lines : Proper(f.lines[i])
  /\ f.synced < Len(f.lines) => \A i \in 1 .. f.synced : Written(f.lines[i])

Settled(f) ==
  /\ Sound(f) /\ f.synced = Len(f.lines)
  /\ f.lines # <<>> => Last(f.lines).kind = "whole"

FilesInv ==
  /\ Sound(main) /\ Sound(legacy) /\ legacy.synced = Len(legacy.lines)
  /\ Settled(zero) /\ Settled(before)
  /\ Settled(legacyZero) /\ Read(legacyZero) # Unreadable

TakeOverInv ==
  /\ legacy # NoFile => pc = "closed" /\ main = NoFile /\ ~moved
  /\ moved => pc \in {"closed", "open", "sync"}
  /\ legacy # NoFile \/ moved =>
       /\ zero = NoFile /\ Current.synced > 0
       /\ ~NullLegacy => Current.lines[1].kind = "whole"

CallInv ==
  /\ pc # "closed" => \A i \in DOMAIN main.lines : Written(main.lines[i])
  /\ pc = "open" => main # NoFile
  /\ pc \in {"sync", "rename", "resync"} =>
       main # NoFile /\ main.lines # <<>> /\ Last(main.lines) = WholeLine(want, 3)
  /\ pc \notin {"closed", "open"} => want \in Saved /\ op # "none"
  /\ pc = "rename" => main.synced = Len(main.lines)
  /\ pc = "create" => main = NoFile
  /\ pc = "rewrite" => main = Empty
  /\ pc = "resync" => Len(main.lines) = 1
  /\ pc \in {"rename", "create", "rewrite", "resync"} => acked = want
  /\ pc \in {"create", "rewrite", "resync"} => Holds(zero, want)

\* l is the line of v, or what is left of it when it was cut short.
LineOf(l, v) ==
  /\ l.kind = "whole" => l.val = v
  /\ l.kind = "cut" => l.val \in CutShort(v) /\ (l.cols = 3 => l.val.pos = v.pos)

\* The last synced line of f and those behind it are lines of values of V.
Recent(f, V) ==
  \A i \in DOMAIN f.lines : i >= f.synced => \E v \in V : LineOf(f.lines[i], v)

AckedInv ==
  /\ Current.synced = 0 => acked = Fresh \/ Holds(Spare, acked)
  /\ Recent(Current, tried \cup {acked})

IInv ==
  /\ TypeOK
  /\ FilesInv
  /\ TakeOverInv
  /\ CallInv
  /\ AckedInv
  /\ ~NullLegacy => NullFileHasSpare

\* The file operations implement the register of PositionRegister.
Register == INSTANCE PositionRegister WITH
              reg <- Read(Current),
              spare <- Read(Spare),
              asked <- IF pc \in {"closed", "open"}
                         THEN [pos |-> 0, flag |-> "none"] ELSE want,
              acked <- acked,
              tried <- tried,
              cut <- HasCut(Current)

ImplementsRegister == Register!Spec

=============================================================================
