------------------------------ MODULE XeSession ------------------------------
(***************************************************************************)
(* Reading one extended event session, pkg/app/process_session.go: every   *)
(* poll opens the state file, queries the event file target from the saved *)
(* position, writes each event to every sink, saves the position when the  *)
(* file offset changes and flushes the sinks, and checkpoints with Done.   *)
(*                                                                         *)
(* The target is a sequence of blocks of Size events; all events of a      *)
(* block have its file and offset.  Blocks are numbered in file and offset *)
(* order, PerFile blocks to a file; SQL Server adds blocks and removes     *)
(* whole files at the other end.  The state file is the register of        *)
(* PositionRegister, which StateFile implements.                           *)
(***************************************************************************)
EXTENDS Positions, Sinks

CONSTANTS
  Size,        \* events per block
  PerFile,     \* blocks per file of the target
  Rows,        \* source.Rows; 0 is no limit
  Dropped,     \* events no sink wants: unparsable, excluded, filtered, early
  Late,        \* events after source.StopAt
  MaxFaults    \* bound on errors and crashes

Block == 1 .. MaxPos
Event == Block \X (1 .. Size)

ASSUME SessionAssumption ==
  /\ Size \in Nat \ {0}
  /\ PerFile \in Nat \ {0}
  /\ Rows \in Nat
  /\ Dropped \subseteq Event
  /\ Late \subseteq Event
  /\ MaxFaults \in Nat

VARIABLES
  \* the event file target
  oldest,      \* first block that still exists
  newest,      \* last block written
  \* the disk
  reg,         \* the state file
  spare,       \* its .0 file
  \* the poll
  pc,
  cancelled,   \* ctx.Err() # nil
  mode,        \* xestatus as GetOffset returned it
  last,        \* lastFileName, lastFileOffset
  at,          \* the row that was scanned last
  hi,          \* newest block when the query was sent
  gotRows,
  rows,        \* result.Rows
  snk,         \* index of the sink written next
  done,        \* the status Done is writing
  \* history
  start,       \* the position the poll started from
  passed,      \* events read past although a sink should have had them
  faults       \* errors and crashes so far

target  == <<oldest, newest>>
file    == <<reg, spare>>
cursor  == <<mode, last, at, hi, gotRows, rows>>
poll    == <<cursor, snk, done, start>>
vars    == <<target, file, sinks, pc, cancelled, poll, passed, faults>>

Wanted == Event \ (Dropped \cup Late)

Fault == faults < MaxFaults /\ faults' = faults + 1

\* Events that share the offset of row r and come after it.
RestOf(r) == {e \in Wanted : e[1] = r[1] /\ e[2] > r[2]}

Init ==
  /\ oldest = 1
  /\ newest = 0
  /\ reg = Fresh
  /\ spare = Fresh
  /\ SinksInit
  /\ pc = "idle"
  /\ cancelled = FALSE
  /\ mode = "good"
  /\ last = 0
  /\ at = <<0, Size>>
  /\ hi = 0
  /\ gotRows = FALSE
  /\ rows = 0
  /\ snk = 1
  /\ done = "good"
  /\ start = 0
  /\ passed = {}
  /\ faults = 0

-----------------------------------------------------------------------------
(* The event file target *)

\* SQL Server writes out a buffer: one more block.
Produce ==
  /\ newest < MaxPos
  /\ newest' = newest + 1
  /\ UNCHANGED <<oldest, file, sinks, pc, cancelled, poll, passed, faults>>

\* The target removes its oldest file.
Rollover ==
  /\ oldest + PerFile <= newest
  /\ oldest' = oldest + PerFile
  /\ UNCHANGED <<newest, file, sinks, pc, cancelled, poll, passed, faults>>

-----------------------------------------------------------------------------
(* The poll *)

\* processSession returns: its variables are gone.
Return ==
  /\ pc' = "idle"
  /\ mode' = "good"
  /\ last' = 0
  /\ at' = <<0, Size>>
  /\ hi' = 0
  /\ gotRows' = FALSE
  /\ rows' = 0
  /\ snk' = 1
  /\ done' = "good"
  /\ start' = 0

\* Faulty variant of Open: a file of nulls is not refused.
OpenUnchecked ==
  /\ pc = "idle"
  /\ ~cancelled
  /\ mode' = reg.flag
  /\ last' = reg.pos
  /\ start' = reg.pos
  /\ gotRows' = FALSE
  /\ rows' = 0
  /\ pc' = "query"
  /\ UNCHANGED <<target, file, sinks, cancelled, at, hi, snk, done, passed,
                 faults>>

\* GetOffset.  An unreadable state file ends the poll before it changed
\* anything: no step.
Open ==
  /\ pc = "idle"
  /\ ~cancelled
  /\ reg # Unreadable
  /\ mode' = reg.flag
  /\ last' = reg.pos
  /\ start' = reg.pos
  /\ gotRows' = FALSE
  /\ rows' = 0
  /\ pc' = "query"
  /\ UNCHANGED <<target, file, sinks, cancelled, at, hi, snk, done, passed,
                 faults>>

FromStart == last = 0 \/ mode = "reset"

\* Faulty variant of Query: the position itself is read again.
QueryInclusive ==
  /\ pc = "query"
  /\ FromStart \/ last >= oldest
  /\ at' = IF FromStart THEN <<oldest - 1, Size>> ELSE <<last - 1, Size>>
  /\ hi' = newest
  /\ pc' = "next"
  /\ UNCHANGED <<target, file, sinks, cancelled, mode, last, gotRows, rows,
                 snk, done, start, passed, faults>>

\* fn_xe_file_target_read_file, from the beginning or behind the position.
Query ==
  /\ pc = "query"
  /\ FromStart \/ last >= oldest
  /\ at' = IF FromStart THEN <<oldest - 1, Size>> ELSE <<last, Size>>
  /\ hi' = newest
  /\ pc' = "next"
  /\ UNCHANGED <<target, file, sinks, cancelled, mode, last, gotRows, rows,
                 snk, done, start, passed, faults>>

\* Faulty variant of ReadPast: the position is saved without the reset status.
ReadPastAsGood ==
  \/ last = 0 /\ Return
  \/ /\ last > 0
     /\ pc' = "done"
     /\ done' = "good"
     /\ UNCHANGED <<cursor, snk, start>>

\* When there is a position, Done records it with the reset status.
ReadPast ==
  \/ last = 0 /\ Return
  \/ /\ last > 0
     /\ pc' = "done"
     /\ done' = "reset"
     /\ UNCHANGED <<cursor, snk, start>>

\* The query fails: the file of the position is gone, or any other error.
\* Even a lost connection sets the reset status.
QueryError ==
  /\ pc = "query"
  /\ IF ~FromStart /\ last < oldest THEN UNCHANGED faults ELSE Fault
  /\ ReadPast
  /\ UNCHANGED <<target, file, sinks, cancelled, passed>>

\* The row behind r; blocks removed meanwhile are left out.
RowAfter(r) ==
  IF r[2] < Size THEN <<r[1], r[2] + 1>>
  ELSE IF r[1] + 1 >= oldest THEN <<r[1] + 1, 1>>
  ELSE <<oldest, 1>>

HasRow == RowAfter(at)[1] <= newest

(***************************************************************************)
(* In reset mode rows at or below the last position are skipped.  The code *)
(* compares with lastFileName and lastFileOffset, which it moves on with   *)
(* every row it accepts: a second row of the block it just accepted counts *)
(* as one it "already has".                                                *)
(***************************************************************************)
AlreadyHave(r) == mode = "reset" /\ r[1] <= last

SkipRow ==
  /\ pc = "next"
  /\ HasRow
  /\ AlreadyHave(RowAfter(at))
  /\ at' = RowAfter(at)
  /\ passed' = passed \cup ({RowAfter(at)} \cap {e \in Wanted : e[1] > start})
  /\ UNCHANGED <<target, file, sinks, pc, cancelled, mode, last, hi, gotRows,
                 rows, snk, done, start, faults>>

\* Faulty variant of NextRow: the position moves on before it is saved.
NextRowEarly ==
  /\ pc = "next"
  /\ HasRow
  /\ LET r == RowAfter(at)
     IN  /\ ~AlreadyHave(r)
         /\ at' = r
         /\ gotRows' = TRUE
         /\ last' = r[1]
         /\ pc' = IF gotRows /\ r[1] # last THEN "save" ELSE "event"
  /\ UNCHANGED <<target, file, sinks, cancelled, mode, hi, rows, snk, done,
                 start, passed, faults>>

\* The first row accepted sets the position; another offset than the one of
\* the row before means a block is finished.
NextRow ==
  /\ pc = "next"
  /\ HasRow
  /\ LET r == RowAfter(at)
     IN  /\ ~AlreadyHave(r)
         /\ at' = r
         /\ gotRows' = TRUE
         /\ last' = IF gotRows THEN last ELSE r[1]
         /\ pc' = IF gotRows /\ r[1] # last THEN "save" ELSE "event"
  /\ UNCHANGED <<target, file, sinks, cancelled, mode, hi, rows, snk, done,
                 start, passed, faults>>

\* sf.Save of the finished block, before its events are flushed.
SaveBlock ==
  /\ pc = "save"
  /\ reg' = [pos |-> last, flag |-> "good"]
  /\ pc' = "flush"
  /\ UNCHANGED <<target, spare, sinks, cancelled, poll, passed, faults>>

\* Faulty variant of FlushBlock: the sinks are flushed at the end only.
FlushBlockNot ==
  /\ pc = "flush"
  /\ UNCHANGED sinks
  /\ pc' = IF (Rows > 0 /\ rows >= Rows) \/ cancelled THEN "end" ELSE "event"
  /\ UNCHANGED <<target, file, cancelled, poll, passed, faults>>

\* The sinks are flushed; the row limit and the context are only looked at
\* here, between two offsets.
FlushBlock ==
  /\ pc = "flush"
  /\ Flushed(Sink)
  /\ pc' = IF (Rows > 0 /\ rows >= Rows) \/ cancelled THEN "end" ELSE "event"
  /\ UNCHANGED <<target, file, cancelled, poll, passed, faults>>

\* A sink that cannot be flushed ends the poll; those behind it wait.
FlushBlockError ==
  /\ pc = "flush"
  /\ Fault
  /\ \E s \in FileSinks : Flushed(1 .. s - 1)
  /\ Return
  /\ UNCHANGED <<target, file, cancelled, passed>>

Handling ==
  /\ pc = "event"
  /\ last' = at[1]
  /\ UNCHANGED <<target, file, sinks, cancelled, mode, at, hi, gotRows, done,
                 start, faults>>

\* Unparsable, excluded, before start_at, or filtered out.
DropRow ==
  /\ at \in Dropped
  /\ Handling
  /\ pc' = "next"
  /\ UNCHANGED <<snk, rows, passed>>

\* Behind stop_at: the loop ends, within a block as it may be.
StopAtRow ==
  /\ at \in Late \ Dropped
  /\ Handling
  /\ pc' = "end"
  /\ passed' = passed \cup RestOf(at)
  /\ UNCHANGED <<snk, rows>>

AcceptRow ==
  /\ at \in Wanted
  /\ Handling
  /\ snk' = 1
  /\ pc' = "write"
  /\ UNCHANGED <<rows, passed>>

\* The row goes to every sink in turn and is then counted, here up to the limit.
WriteSink ==
  /\ pc = "write"
  /\ snk <= NumSinks
  /\ Put(snk, at)
  /\ snk' = snk + 1
  /\ UNCHANGED <<target, file, pc, cancelled, cursor, done, start, passed,
                 faults>>

RowWritten ==
  /\ pc = "write"
  /\ snk > NumSinks
  /\ rows' = IF rows < Rows THEN rows + 1 ELSE rows
  /\ snk' = 1
  /\ pc' = "next"
  /\ UNCHANGED <<target, file, sinks, cancelled, mode, last, at, hi, gotRows,
                 done, start, passed, faults>>

\* A write fails, and may have reached the sink all the same.
WriteError ==
  /\ pc = "write"
  /\ snk <= NumSinks
  /\ Fault
  /\ Put(snk, at) \/ UNCHANGED sinks
  /\ Return
  /\ UNCHANGED <<target, file, cancelled, passed>>

\* rows.Next reports the end: between two blocks, and never before the blocks
\* that were there when the query was sent.
EndOfRows ==
  /\ pc = "next"
  /\ at[2] = Size
  /\ RowAfter(at)[1] > hi
  /\ pc' = "end"
  /\ UNCHANGED <<target, file, sinks, cancelled, poll, passed, faults>>

(***************************************************************************)
(* rows.Err() with Msg 25717 to 25723: the position reached is saved with  *)
(* the reset status.  When rows of its block were still to come they will  *)
(* not be read again.  Possible at any time, and for sure a way out when   *)
(* the next block was removed.                                             *)
(***************************************************************************)
InvalidOffset ==
  /\ pc = "next"
  /\ IF at[2] = Size /\ at[1] + 1 < oldest THEN UNCHANGED faults ELSE Fault
  /\ ReadPast
  /\ passed' = IF gotRows THEN passed \cup RestOf(at) ELSE passed
  /\ UNCHANGED <<target, file, sinks, cancelled>>

\* Any other error of the result set, a scan error, a filter without action.
RowsError ==
  /\ pc \in {"next", "event"}
  /\ Fault
  /\ Return
  /\ UNCHANGED <<target, file, sinks, cancelled, passed>>

\* Without rows there is nothing to save.
NothingRead ==
  /\ pc = "end"
  /\ ~gotRows
  /\ Return
  /\ UNCHANGED <<target, file, sinks, cancelled, passed, faults>>

\* Faulty variant of Finish: the position is saved without a flush.
FinishNoFlush ==
  /\ pc = "end"
  /\ gotRows
  /\ UNCHANGED sinks
  /\ done' = "good"
  /\ pc' = "done"
  /\ UNCHANGED <<target, file, cancelled, cursor, snk, start, passed, faults>>

\* Behind the loop every sink is flushed and cleaned, then the position saved.
Finish ==
  /\ pc = "end"
  /\ gotRows
  /\ Flushed(Sink)
  /\ done' = "good"
  /\ pc' = "done"
  /\ UNCHANGED <<target, file, cancelled, cursor, snk, start, passed, faults>>

\* Every sink is tried; one that cannot be flushed or cleaned ends the poll.
FinishError ==
  /\ pc = "end"
  /\ gotRows
  /\ Fault
  /\ \E S \in SUBSET Sink : (Sink \ FileSinks) \subseteq S /\ Flushed(S)
  /\ Return
  /\ UNCHANGED <<target, file, cancelled, passed>>

\* Faulty variant of DoneSave: the position the poll started from.
DoneSaveStart ==
  /\ pc = "done"
  /\ reg' = [pos |-> start, flag |-> done]
  /\ pc' = "rename"
  /\ UNCHANGED <<target, spare, sinks, cancelled, poll, passed, faults>>

\* Done: save, set the file aside, write the new one.  (In the good case the
\* code saves the same line twice.)
DoneSave ==
  /\ pc = "done"
  /\ reg' = [pos |-> last, flag |-> done]
  /\ pc' = "rename"
  /\ UNCHANGED <<target, spare, sinks, cancelled, poll, passed, faults>>

DoneRename ==
  /\ pc = "rename"
  /\ spare' = reg
  /\ reg' = Fresh
  /\ pc' = "rewrite"
  /\ UNCHANGED <<target, sinks, cancelled, poll, passed, faults>>

DoneRewrite ==
  /\ pc = "rewrite"
  /\ reg' = [pos |-> last, flag |-> done]
  /\ Return
  /\ UNCHANGED <<target, spare, sinks, cancelled, passed, faults>>

\* A file operation fails; a line cut short makes the file unreadable.  (What
\* StateFile has besides is left out here: a cut line may pass for a smaller
\* position until the next save behind it; then blocks are read again, or all.)
FileError ==
  /\ pc \in {"save", "done", "rename", "rewrite"}
  /\ Fault
  /\ reg' \in IF pc = "rename" THEN {reg} ELSE {reg, Unreadable}
  /\ Return
  /\ UNCHANGED <<target, spare, sinks, cancelled, passed>>

-----------------------------------------------------------------------------
(* The world around it *)

\* stopPolling cancels the context; the poll ends at the next offset.
Cancel ==
  /\ ~cancelled
  /\ cancelled' = TRUE
  /\ UNCHANGED <<target, file, sinks, pc, poll, passed, faults>>

\* The pollers have stopped and are started again.
Restart ==
  /\ cancelled
  /\ pc = "idle"
  /\ cancelled' = FALSE
  /\ UNCHANGED <<target, file, sinks, pc, poll, passed, faults>>

\* The process dies: what it wrote to files survives.
Kill ==
  /\ pc # "idle"
  /\ Fault
  /\ Return
  /\ cancelled' = FALSE
  /\ UNCHANGED <<target, file, sinks, passed>>

\* The machine dies: what was not flushed is lost, a line on its way to the
\* state file may be damaged.
PowerFailure ==
  /\ Fault
  /\ Unflushed
  /\ reg' \in IF pc \in {"save", "done", "rewrite"} THEN {reg, Unreadable}
              ELSE {reg}
  /\ Return
  /\ cancelled' = FALSE
  /\ UNCHANGED <<target, spare, passed>>

WriteBack ==
  /\ WrittenBack
  /\ UNCHANGED <<target, file, pc, cancelled, poll, passed, faults>>

\* The operator restores the .0 file or deletes the state file.
Repair ==
  /\ reg = Unreadable
  /\ pc = "idle"
  /\ reg' \in {spare, Fresh}
  /\ UNCHANGED <<target, spare, sinks, pc, cancelled, poll, passed, faults>>

Poll ==
  \/ Open
  \/ Query
  \/ QueryError
  \/ SkipRow
  \/ NextRow
  \/ SaveBlock
  \/ FlushBlock
  \/ FlushBlockError
  \/ DropRow
  \/ StopAtRow
  \/ AcceptRow
  \/ WriteSink
  \/ RowWritten
  \/ WriteError
  \/ EndOfRows
  \/ InvalidOffset
  \/ RowsError
  \/ NothingRead
  \/ Finish
  \/ FinishError
  \/ DoneSave
  \/ DoneRename
  \/ DoneRewrite
  \/ FileError

Next ==
  \/ Poll
  \/ Produce
  \/ Rollover
  \/ Cancel
  \/ Restart
  \/ Kill
  \/ PowerFailure
  \/ WriteBack
  \/ Repair

Spec == Init /\ [][Next]_vars

(***************************************************************************)
(* The poller runs, is restarted after a cancel and polls at once ("run at *)
(* time zero"), so that no sequence of reloads keeps it from ever polling; *)
(* the operator repairs a file the reader refuses.                         *)
(***************************************************************************)
Fairness ==
  /\ WF_vars(Poll)
  /\ SF_vars(Open)
  /\ WF_vars(Restart)
  /\ WF_vars(Repair)

FairSpec == Spec /\ Fairness

-----------------------------------------------------------------------------
(* Properties *)

PC == {"idle", "query", "next", "save", "flush", "event", "write", "end",
       "done", "rename", "rewrite"}

TargetOK == oldest \in 1 .. MaxPos + 1 /\ newest \in Position

FileOK == reg \in Value \cup {Unreadable} /\ spare \in Value

SinksOK ==
  /\ kept \in [Sink -> SUBSET Event]
  /\ pend \in [Sink -> SUBSET Event]
  /\ handed \in [Sink -> SUBSET Event]
  /\ again \in BOOLEAN

PollOK ==
  /\ pc \in PC
  /\ mode \in Flag
  /\ last \in Position
  /\ at \in Position \X (1 .. Size)
  /\ hi \in Position
  /\ gotRows \in BOOLEAN
  /\ rows \in 0 .. Rows
  /\ snk \in 1 .. NumSinks + 1
  /\ done \in Flag
  /\ start \in Position

HistoryOK ==
  /\ cancelled \in BOOLEAN
  /\ passed \in SUBSET Event
  /\ faults \in 0 .. MaxFaults

TypeOK == TargetOK /\ FileOK /\ SinksOK /\ PollOK /\ HistoryOK

\* No sink is owed the event: all had it, or no sink wants it, or the target
\* has removed it, or the reader gave it up at stop_at, at an invalid offset
\* or in reset mode.
Accounted(e) ==
  \/ \A s \in Sink : e \in handed[s]
  \/ e \notin Wanted
  \/ e[1] < oldest
  \/ e \in passed

UpTo(p) == {e \in Event : e[1] <= p}

\* The position never runs ahead of the sinks: whatever fails, is cancelled,
\* limited or restored, no event at or before the position of the state file
\* or of its .0 file is still owed to a sink.  All events of a block have one
\* offset, so a position inside a block would break this.
NoGap == \A e \in UpTo(reg.pos) \cup UpTo(spare.pos) : Accounted(e)

(***************************************************************************)
(* Why NoGap holds: the inductive invariant.  Everything before the row in *)
(* hand is accounted for; the variable last, which is what gets saved,     *)
(* stays behind the row in hand until its block is finished.               *)
(***************************************************************************)
InLoop == pc \in {"next", "save", "flush", "event", "write", "end"}

RowsBefore(r) == {e \in Event : e[1] < r[1] \/ (e[1] = r[1] /\ e[2] < r[2])}

DoneThrough(p) == \A e \in UpTo(p) : Accounted(e)

CursorInv ==
  /\ pc = "query" => last = start /\ ~gotRows
  /\ InLoop => IF gotRows THEN last <= at[1] ELSE last = start
  /\ pc = "next" => at \in Event \/ at[2] = Size
  /\ pc \in {"save", "flush"} => gotRows /\ last < at[1] /\ at \in Event
  /\ pc \in {"event", "write"} => gotRows /\ at \in Event
  /\ pc = "write" => last = at[1]
  /\ pc = "rename" => reg = [pos |-> last, flag |-> done]

ReadInv ==
  /\ DoneThrough(start)
  /\ InLoop => \A e \in RowsBefore(at) : Accounted(e)
  /\ pc = "next" /\ at \in Event => Accounted(at)
  /\ pc = "write" => \A s \in 1 .. snk - 1 : at \in handed[s]
  /\ pc = "end" /\ gotRows => DoneThrough(last)
  /\ pc \in {"done", "rename", "rewrite"} => DoneThrough(last)

\* The saved position against the variables of the poll: nothing is saved
\* before the first row, what is saved later is not behind it, and the first
\* row of a poll lies behind the position it started from.
RegInv ==
  /\ pc = "query" => reg = [pos |-> last, flag |-> mode]
  /\ InLoop => IF gotRows THEN last > 0 /\ reg.pos <= last
               ELSE reg = [pos |-> last, flag |-> mode]
  /\ pc = "next" /\ ~gotRows /\ mode = "good" => at[2] = Size /\ last <= at[1]
  /\ pc = "done" => reg.pos <= last
  /\ pc = "rewrite" => reg = Fresh
  /\ faults = 0 => reg # Unreadable

IInv == TypeOK /\ CursorInv /\ ReadInv /\ RegInv /\ NoGap

\* A checkpoint (Done with status good) is made of flushed sinks: nothing
\* written so far can be lost when it starts.
CheckpointFlushed ==
  pc \in {"done", "rename", "rewrite"} /\ done = "good" =>
    \A s \in Sink : pend[s] = {}

\* The window of the save that comes before the flush: in a history without
\* faults, unless the reader is getting past an invalid offset (which saves
\* without any flush), only the block the position names can be unflushed, so
\* a power failure costs at most that block.
OneBlockAtRisk ==
  faults = 0 /\ mode = "good" /\ reg.flag = "good" =>
    \A s \in Sink : \A e \in pend[s] : e[1] >= reg.pos

\* Why it holds: between polls, and until a poll has a row, something is
\* pending only after a reset; from then on what is pending is of the block
\* that gets saved next.
RiskInv ==
  faults = 0 =>
    /\ \/ pc = "idle" /\ reg.flag = "good"
       \/ pc # "idle" /\ mode = "good" /\ ~gotRows
       => \A s \in Sink : pend[s] = {}
    /\ pc # "idle" /\ mode = "good" =>
         \A s \in Sink : \A e \in pend[s] :
           /\ e[1] >= last
           /\ pc \in {"event", "write"} => e[1] >= at[1]

\* Without an error, crash or power failure no event is written twice: not by
\* a cancel, a row limit, a query from the start, nor by reset mode, which
\* reads everything again.
OnceWithoutFaults == faults = 0 => ~again

\* Why it holds: what was written lies behind the row in hand and not behind
\* the position that is or gets saved.
OnceInv ==
  faults = 0 =>
    \A s \in Sink : \A e \in handed[s] :
      /\ e[1] <= IF pc = "idle" THEN reg.pos ELSE last
      /\ pc \in {"save", "flush", "event"} => e \in RowsBefore(at)
      /\ pc = "next" /\ gotRows => e \in RowsBefore(at) \cup {at}
      /\ pc = "write" => e \in RowsBefore(at) \/ (e = at /\ s < snk)

\* The session drives the cursor of DeliveryCursor: between the rename and
\* the new file the position is the one Done is writing.
Delivery == INSTANCE DeliveryCursor WITH
              pos <- IF pc = "rewrite" THEN last ELSE reg.pos,
              given <- {e \in Event : Accounted(e)},
              trouble <- faults

ImplementsDelivery == Delivery!Spec

\* Every event the target writes is at some time accounted for: polls resume
\* behind the position, and no error, reset, limit or cancel stops them for
\* good.
EventuallyAccounted ==
  \A e \in Event : e[1] <= newest ~> Accounted(e)

\* README.md:542: reset mode reads "until it gets to an event after the last
\* one it saw": it skips no row behind the position the poll started from.
ResetSkipsOnlyOld == [][SkipRow => RowAfter(at)[1] <= start]_vars

\* Save "persists the last filename and offset that was successfully
\* completed": an event at or before the saved position that was written to a
\* sink is still there.  It does not hold: the sinks are flushed after the save.
CompletedIsStored ==
  \A s \in Sink : \A e \in handed[s] :
    e[1] <= reg.pos => e \in kept[s] \cup pend[s]
=============================================================================
