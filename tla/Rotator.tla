------------------------------ MODULE Rotator ------------------------------
(***************************************************************************)
(* The event files, pkg/sink/rotator.go under pkg/sink/sink_file_2.go: one *)
(* file per period (a day, or an hour), named by the period, removed when  *)
(* it is older than the retention.  Time is a count of ticks.              *)
(*                                                                         *)
(* The state is a record:                                                  *)
(*   ts    the period the Rotator believes it writes in, NoTs at first     *)
(*   file  its handle, or NoHandle.  A handle may be open or dead (Close   *)
(*         failed), and linked or not (its file was removed meanwhile)     *)
(*   dir   the files: for each period that has one, the events written to  *)
(*         it and those that a power failure leaves in it                  *)
(***************************************************************************)
EXTENDS Integers, Functions, Outcomes

CONSTANTS
  Period,      \* ticks in the period of a file
  Retention    \* ticks a file is kept

ASSUME RotatorAssumption == Period \in Nat \ {0} /\ Retention \in Nat

PeriodOf(t) == t \div Period

NoTs == -1
NoHandle == [hour |-> NoTs, open |-> FALSE, linked |-> FALSE]
EmptyFile == [has |-> {}, safe |-> {}]

NewRotator(dir) == [ts |-> NoTs, file |-> NoHandle, dir |-> dir]

\* The directory with the contents f in the file of period h.
With(dir, h, f) == [k \in DOMAIN dir \cup {h} |-> IF k = h THEN f ELSE dir[k]]

WithFile(r, h, f) == [r EXCEPT !.dir = With(@, h, f)]

(***************************************************************************)
(* fsync.  When it fails the kernel may have dropped what it could not     *)
(* write: a later call that succeeds says nothing of those events.         *)
(***************************************************************************)
Sync(r) ==
  LET h == r.file.hour IN
  IF r.file = NoHandle THEN {Done(r)}
  ELSE IF ~r.file.open THEN {Failed(r)}
  ELSE IF ~r.file.linked THEN {Done(r), Failed(r)}
  ELSE LET f == r.dir[h] IN
       { Done(WithFile(r, h, [f EXCEPT !.safe = f.has])),
         Failed(r),
         Failed(WithFile(r, h, [f EXCEPT !.has = f.safe])) }

\* A failed Close leaves r.file set: the handle is never replaced.
CloseHandle(r) ==
  IF r.file = NoHandle THEN {Done(r)}
  ELSE {Done([r EXCEPT !.file = NoHandle]), Failed([r EXCEPT !.file.open = FALSE])}

\* Faulty variant of CloseFile: the handle is closed without a sync.
CloseFileUnsynced(r) == CloseHandle(r)

CloseFile(r) == Then(Sync(r), CloseHandle)

\* An existing file is appended to, under the name r.ts gives it.
Open(r) ==
  { Done([r EXCEPT !.file = [hour |-> r.ts, open |-> TRUE, linked |-> TRUE],
                   !.dir = IF r.ts \in DOMAIN @ THEN @
                           ELSE With(@, r.ts, EmptyFile)]),
    Failed([r EXCEPT !.file = NoHandle]) }

\* A file is removed by its name, open or not.
Unlink(r, old) ==
  [r EXCEPT !.dir = Restrict(@, DOMAIN @ \ old),
            !.file = IF @ # NoHandle /\ @.hour \in old
                     THEN [@ EXCEPT !.linked = FALSE] ELSE @]

Expired(r, t) == {h \in DOMAIN r.dir : t - h * Period > Retention}

\* In the order of the names; the first file that cannot be removed ends it.
Clean(r, t) ==
  LET old == Expired(r, t) IN
  {Done(Unlink(r, old))}
    \cup {Failed(Unlink(r, {h \in old : h < k})) : k \in old}
    \cup {Failed(r)}                                   \* ReadDir

Rotate(r, t) ==
  Then(Then(CloseFile(r), Open), LAMBDA q : Clean(q, t))

\* To a dead handle nothing is written; to an unlinked file it is lost.
AppendEvent(r, e) ==
  LET h == r.file.hour IN
  {Failed(r)} \cup
  IF ~r.file.open THEN {}
  ELSE IF ~r.file.linked THEN {Done(r)}
  ELSE {Done(WithFile(r, h, [r.dir[h] EXCEPT !.has = @ \cup {e}]))}

(***************************************************************************)
(* Write.  After a failed rotation ts is already the new period: the next  *)
(* Write does not rotate and uses the file that is open.  A file that is   *)
(* not open is opened under the old ts first, and rotated at once.         *)
(***************************************************************************)
WriteEvent(r, e, t) ==
  LET now == PeriodOf(t)
      first == [r EXCEPT !.ts = IF @ = NoTs THEN now ELSE @]
      opened == IF r.file = NoHandle THEN Open(first) ELSE {Done(first)}
      Turn(q) == IF q.ts = now THEN {Done(q)}
                 ELSE Rotate([q EXCEPT !.ts = now], t)
  IN Then(Then(opened, Turn), LAMBDA q : AppendEvent(q, e))

\* What is left in the directory when the power fails.
SyncedOnly(dir) == [h \in DOMAIN dir |-> [dir[h] EXCEPT !.has = dir[h].safe]]

SafeIn(r) == UNION {r.dir[h].safe : h \in DOMAIN r.dir}

=============================================================================
