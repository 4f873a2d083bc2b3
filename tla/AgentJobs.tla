------------------------------ MODULE AgentJobs ------------------------------
(***************************************************************************)
(* Reading the job history of an instance, pkg/app/process_agent.go: every *)
(* poll asks for the rows of sysjobhistory whose instance_id is greater    *)
(* than the saved one, writes each wanted row to every sink and saves its  *)
(* instance_id, row by row; behind the loop the sinks are flushed and the  *)
(* state file is checkpointed with Done.                                   *)
(*                                                                         *)
(* The rows are numbered by instance_id; SQL Server adds rows and purges   *)
(* the oldest.  The state file is the register of PositionRegister, which  *)
(* StateFile implements; its status column is not looked at here.          *)
(***************************************************************************)
EXTENDS Positions, Sinks

CONSTANTS
  Rows,        \* source.Rows; 0 is no limit
  Early,       \* rows before source.StartAt
  Late,        \* rows after source.StopAt
  Filtered,    \* rows JobsFailed does not want
  MaxFaults    \* bound on errors and crashes

Row == 1 .. MaxPos

ASSUME JobsAssumption ==
  /\ Rows \in Nat
  /\ Early \subseteq Row /\ Late \subseteq Row /\ Filtered \subseteq Row
  /\ MaxFaults \in Nat

VARIABLES
  purged,      \* rows up to here are gone from the table
  newest,      \* last row of the table
  reg, spare,  \* the state file and its .0 file
  pc,
  cancelled,   \* ctx.Err() # nil
  at,          \* the row scanned last, at first lastInstanceID
  last,        \* instanceID: the row written last, 0 before the first
  gotRows,
  rows,        \* result.Rows
  snk,         \* index of the sink written next
  start,       \* history: the position the poll started from
  faults       \* history: errors and crashes so far

table == <<purged, newest>>
file  == <<reg, spare>>
poll  == <<at, last, gotRows, rows, snk, start>>
vars  == <<table, file, sinks, pc, cancelled, poll, faults>>

Wanted == Row \ (Early \cup Late \cup Filtered)

Good(p) == [pos |-> p, flag |-> "good"]

Fault == faults < MaxFaults /\ faults' = faults + 1

Init ==
  /\ purged = 0
  /\ newest = 0
  /\ reg = Fresh
  /\ spare = Fresh
  /\ SinksInit
  /\ pc = "idle"
  /\ cancelled = FALSE
  /\ at = 0
  /\ last = 0
  /\ gotRows = FALSE
  /\ rows = 0
  /\ snk = 1
  /\ start = 0
  /\ faults = 0

-----------------------------------------------------------------------------
(* The table *)

Produce ==
  /\ newest < MaxPos
  /\ newest' = newest + 1
  /\ UNCHANGED <<purged, file, sinks, pc, cancelled, poll, faults>>

Purge ==
  /\ purged < newest
  /\ purged' = purged + 1
  /\ UNCHANGED <<newest, file, sinks, pc, cancelled, poll, faults>>

-----------------------------------------------------------------------------
(* The poll *)

\* processAgentJobs returns: its variables are gone.
Return ==
  /\ pc' = "idle"
  /\ at' = 0
  /\ last' = 0
  /\ gotRows' = FALSE
  /\ rows' = 0
  /\ snk' = 1
  /\ start' = 0

\* GetOffset, then the query: its rows are read behind the saved instance_id.
\* An unreadable state file, or a query that fails, ends the poll before
\* anything has changed: no step.
Open ==
  /\ pc = "idle"
  /\ ~cancelled
  /\ reg # Unreadable
  /\ at' = reg.pos
  /\ start' = reg.pos
  /\ pc' = "next"
  /\ UNCHANGED <<table, file, sinks, cancelled, last, gotRows, rows, snk,
                 faults>>

\* ORDER BY instance_id, among the rows that are still there.
NextId == IF at >= purged THEN at + 1 ELSE purged + 1

HasRow == NextId <= newest

\* Faulty variant of LimitReached: one row too many.
LimitReachedLate == (Rows > 0 /\ rows > Rows) \/ cancelled

LimitReached == (Rows > 0 /\ rows >= Rows) \/ cancelled

\* The row limit and the context are looked at before every row.
StopBeforeRow ==
  /\ pc = "next"
  /\ HasRow
  /\ LimitReached
  /\ pc' = "end"
  /\ UNCHANGED <<table, file, sinks, cancelled, poll, faults>>

\* Before start_at: nothing is saved for this row.
SkipEarlyRow ==
  /\ pc = "next"
  /\ HasRow
  /\ ~LimitReached
  /\ NextId \in Early
  /\ at' = NextId
  /\ UNCHANGED <<table, file, sinks, pc, cancelled, last, gotRows, rows, snk,
                 start, faults>>

\* Behind stop_at the loop ends.
StopAtRow ==
  /\ pc = "next"
  /\ HasRow
  /\ ~LimitReached
  /\ NextId \in Late \ Early
  /\ pc' = "end"
  /\ at' = NextId
  /\ UNCHANGED <<table, file, sinks, cancelled, last, gotRows, rows, snk,
                 start, faults>>

\* A row the filter does not want is not written, but saved like the others.
TakeRow ==
  /\ pc = "next"
  /\ HasRow
  /\ ~LimitReached
  /\ NextId \notin Early \cup Late
  /\ at' = NextId
  /\ last' = NextId
  /\ pc' = IF NextId \in Filtered THEN "save" ELSE "write"
  /\ UNCHANGED <<table, file, sinks, cancelled, gotRows, rows, snk, start,
                 faults>>

WriteSink ==
  /\ pc = "write"
  /\ snk <= NumSinks
  /\ Put(snk, at)
  /\ snk' = snk + 1
  /\ UNCHANGED <<table, file, pc, cancelled, at, last, gotRows, rows, start,
                 faults>>

\* The row is counted, here only when there is a limit.
RowWritten ==
  /\ pc = "write"
  /\ snk > NumSinks
  /\ rows' = IF Rows > 0 THEN rows + 1 ELSE rows
  /\ snk' = 1
  /\ pc' = "save"
  /\ UNCHANGED <<table, file, sinks, cancelled, at, last, gotRows, start,
                 faults>>

\* A write fails, and may have reached the sink all the same.
WriteError ==
  /\ pc = "write"
  /\ snk <= NumSinks
  /\ Fault
  /\ Put(snk, at) \/ UNCHANGED sinks
  /\ Return
  /\ UNCHANGED <<table, file, cancelled>>

\* Faulty variant of SaveRow: the position runs one row ahead.
SaveRowAhead ==
  /\ pc = "save"
  /\ reg' = Good(at + 1)
  /\ gotRows' = TRUE
  /\ pc' = "next"
  /\ UNCHANGED <<table, spare, sinks, cancelled, at, last, rows, snk, start,
                 faults>>

\* sf.Save of the row, whatever the sinks have flushed.
SaveRow ==
  /\ pc = "save"
  /\ reg' = Good(at)
  /\ gotRows' = TRUE
  /\ pc' = "next"
  /\ UNCHANGED <<table, spare, sinks, cancelled, at, last, rows, snk, start,
                 faults>>

EndOfRows ==
  /\ pc = "next"
  /\ ~HasRow
  /\ pc' = "end"
  /\ UNCHANGED <<table, file, sinks, cancelled, poll, faults>>

\* rows.Err() is never looked at: a result set that breaks off looks like one
\* that has ended.
BrokenOff ==
  /\ pc = "next"
  /\ Fault
  /\ pc' = "end"
  /\ UNCHANGED <<table, file, sinks, cancelled, poll>>

\* The row cannot be scanned, or its time or its record not be converted.
RowError ==
  /\ pc \in {"next", "write"}
  /\ snk = 1
  /\ Fault
  /\ Return
  /\ UNCHANGED <<table, file, sinks, cancelled>>

NothingRead ==
  /\ pc = "end"
  /\ ~gotRows
  /\ Return
  /\ UNCHANGED <<table, file, sinks, cancelled, faults>>

\* Faulty variant of Finish: the sinks are not flushed.
FinishNoFlush ==
  /\ pc = "end"
  /\ gotRows
  /\ UNCHANGED sinks
  /\ pc' = "done"
  /\ UNCHANGED <<table, file, cancelled, poll, faults>>

\* Every sink is flushed and cleaned.
Finish ==
  /\ pc = "end"
  /\ gotRows
  /\ Flushed(Sink)
  /\ pc' = "done"
  /\ UNCHANGED <<table, file, cancelled, poll, faults>>

\* Every sink is tried; one that cannot be flushed or cleaned ends the poll.
FinishError ==
  /\ pc = "end"
  /\ gotRows
  /\ Fault
  /\ \E S \in SUBSET Sink : (Sink \ FileSinks) \subseteq S /\ Flushed(S)
  /\ Return
  /\ UNCHANGED <<table, file, cancelled>>

\* Done: save, set the file aside, write the new one.
DoneSave ==
  /\ pc = "done"
  /\ reg' = Good(last)
  /\ pc' = "rename"
  /\ UNCHANGED <<table, spare, sinks, cancelled, poll, faults>>

DoneRename ==
  /\ pc = "rename"
  /\ spare' = reg
  /\ reg' = Fresh
  /\ pc' = "rewrite"
  /\ UNCHANGED <<table, sinks, cancelled, poll, faults>>

\* Faulty variant of DoneRewrite: the position the poll started from.
DoneRewriteStart ==
  /\ pc = "rewrite"
  /\ reg' = Good(start)
  /\ Return
  /\ UNCHANGED <<table, spare, sinks, cancelled, faults>>

DoneRewrite ==
  /\ pc = "rewrite"
  /\ reg' = Good(last)
  /\ Return
  /\ UNCHANGED <<table, spare, sinks, cancelled, faults>>

\* A file operation fails; a line cut short makes the file unreadable.  (What
\* StateFile has besides is left out here: a cut line may pass for a smaller
\* position until the next save behind it; then rows are read again.)
FileError ==
  /\ pc \in {"save", "done", "rename", "rewrite"}
  /\ Fault
  /\ reg' \in IF pc = "rename" THEN {reg} ELSE {reg, Unreadable}
  /\ Return
  /\ UNCHANGED <<table, spare, sinks, cancelled>>

-----------------------------------------------------------------------------
(* The world around it *)

\* stopPolling cancels the context; the poll ends at the next row.
Cancel ==
  /\ ~cancelled
  /\ cancelled' = TRUE
  /\ UNCHANGED <<table, file, sinks, pc, poll, faults>>

Restart ==
  /\ cancelled
  /\ pc = "idle"
  /\ cancelled' = FALSE
  /\ UNCHANGED <<table, file, sinks, pc, poll, faults>>

\* The process dies: what it wrote to files survives.
Kill ==
  /\ pc # "idle"
  /\ Fault
  /\ Return
  /\ cancelled' = FALSE
  /\ UNCHANGED <<table, file, sinks>>

\* The machine dies: what was not flushed is lost, a line on its way to the
\* state file may be damaged.
PowerFailure ==
  /\ Fault
  /\ Unflushed
  /\ reg' \in IF pc \in {"save", "done", "rewrite"} THEN {reg, Unreadable}
              ELSE {reg}
  /\ Return
  /\ cancelled' = FALSE
  /\ UNCHANGED <<table, spare>>

WriteBack ==
  /\ WrittenBack
  /\ UNCHANGED <<table, file, pc, cancelled, poll, faults>>

\* The operator restores the .0 file or deletes the state file.
Repair ==
  /\ reg = Unreadable
  /\ pc = "idle"
  /\ reg' \in {spare, Fresh}
  /\ UNCHANGED <<table, spare, sinks, pc, cancelled, poll, faults>>

Poll ==
  \/ Open
  \/ StopBeforeRow
  \/ SkipEarlyRow
  \/ StopAtRow
  \/ TakeRow
  \/ WriteSink
  \/ RowWritten
  \/ WriteError
  \/ SaveRow
  \/ EndOfRows
  \/ BrokenOff
  \/ RowError
  \/ NothingRead
  \/ Finish
  \/ FinishError
  \/ DoneSave
  \/ DoneRename
  \/ DoneRewrite
  \/ FileError

Next ==
  \/ Poll
  \/ Produce
  \/ Purge
  \/ Cancel
  \/ Restart
  \/ Kill
  \/ PowerFailure
  \/ WriteBack
  \/ Repair

Spec == Init /\ [][Next]_vars

\* As for an event session: the poller runs, is restarted and polls at once;
\* the operator repairs a file the reader refuses.  The context is looked at
\* before every row here: reloads do not come, poll after poll, just between
\* the query and its first rows.
Fairness ==
  /\ WF_vars(Poll)
  /\ SF_vars(Open)
  /\ SF_vars(SkipEarlyRow)
  /\ SF_vars(TakeRow)
  /\ WF_vars(Restart)
  /\ WF_vars(Repair)

FairSpec == Spec /\ Fairness

-----------------------------------------------------------------------------
(* Properties *)

TableOK == newest \in Position /\ purged \in 0 .. newest

FileOK == reg \in Value \cup {Unreadable} /\ spare \in Value

SinksOK ==
  /\ kept \in [Sink -> SUBSET Row]
  /\ pend \in [Sink -> SUBSET Row]
  /\ handed \in [Sink -> SUBSET Row]
  /\ again \in BOOLEAN

PollOK ==
  /\ pc \in {"idle", "next", "write", "save", "end", "done", "rename",
             "rewrite"}
  /\ at \in Position /\ last \in Position /\ start \in Position
  /\ gotRows \in BOOLEAN
  /\ rows \in 0 .. Rows
  /\ snk \in 1 .. NumSinks + 1

TypeOK ==
  /\ TableOK
  /\ FileOK
  /\ SinksOK
  /\ PollOK
  /\ cancelled \in BOOLEAN
  /\ faults \in 0 .. MaxFaults

\* No sink is owed the row.  Other than an event session, nothing is given up:
\* a row is written, unwanted, or was purged before it could be read.
Accounted(r) ==
  \/ \A s \in Sink : r \in handed[s]
  \/ r \notin Wanted
  \/ r <= purged

\* The saved instance_id never runs ahead of the sinks, however a poll ends.
NoGap == \A r \in 1 .. reg.pos \cup 1 .. spare.pos : Accounted(r)

\* The strengthening that makes it inductive: between polls the variables are
\* as at first, rows up to the one in hand are accounted for, and what Done
\* writes is a row that was saved before.
LoopInv ==
  /\ pc = "idle" => at = 0 /\ last = 0 /\ ~gotRows
  /\ pc # "write" => snk = 1
  /\ pc = "write" /\ Rows > 0 => rows < Rows
  /\ pc = "next" => \A r \in 1 .. at : Accounted(r)
  /\ pc \in {"write", "save"} => \A r \in 1 .. at - 1 : Accounted(r)
  /\ pc = "write" => \A s \in 1 .. snk - 1 : at \in handed[s]
  /\ pc = "save" => Accounted(at)
  /\ pc \in {"write", "save"} => last = at /\ at \in Row
  /\ last <= at
  /\ \A r \in 1 .. last - 1 : Accounted(r)
  /\ pc \in {"next", "end", "done", "rename", "rewrite"} =>
       \A r \in 1 .. last : Accounted(r)
  /\ pc = "rename" => reg = Good(last)

\* Where the saved position is against the variables of the poll.
RegInv ==
  /\ pc \in {"next", "write", "save"} => reg.pos <= at
  /\ pc \in {"next", "end"} /\ gotRows => reg.pos = last
  /\ pc = "done" => reg.pos = last
  /\ pc = "rewrite" => reg = Fresh

IInv == TypeOK /\ LoopInv /\ RegInv /\ NoGap

\* The rows are saved one by one and flushed at the end: without faults, what
\* a power failure can take are rows this poll has written, none older.
OnePollAtRisk ==
  faults = 0 =>
    \A s \in Sink : \A r \in pend[s] : pc # "idle" /\ start < r /\ r <= last

\* What makes that inductive: rows in hand are new, and a poll that took none,
\* or has flushed, has nothing pending.
RiskInv ==
  faults = 0 =>
    /\ pc # "idle" => start <= at
    /\ pc \in {"write", "save"} => start < at
    /\ \/ pc \in {"done", "rename", "rewrite"}
       \/ pc \in {"next", "end"} /\ ~gotRows
       => \A s \in Sink : pend[s] = {}

\* The job reader drives the cursor of DeliveryCursor, one row a position.
Delivery == INSTANCE DeliveryCursor WITH
              Size <- 1,
              pos <- IF pc = "rewrite" THEN last ELSE reg.pos,
              given <- {r \in Row : Accounted(r)} \X {1},
              trouble <- faults

ImplementsDelivery == Delivery!Spec

\* Every wanted row reaches every sink unless the table loses it first: no
\* error, broken result set, limit or cancel stops the reader for good.
EventuallyDelivered ==
  \A r \in Wanted :
    r <= newest ~> (\A s \in Sink : r \in handed[s]) \/ r <= purged

\* Save "persists the last filename and offset that was successfully
\* completed": a row at or before the saved instance_id that was written to a
\* sink is still there.  It does not hold: the sinks are flushed after the save.
CompletedIsStored ==
  \A s \in Sink : \A r \in handed[s] :
    r <= reg.pos => r \in kept[s] \cup pend[s]
=============================================================================
