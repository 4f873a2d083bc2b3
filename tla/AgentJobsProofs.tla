-------------------------- MODULE AgentJobsProofs --------------------------
EXTENDS AgentJobs, Integers, TLAPS

USE MaxPosAssumption, SinksAssumption, JobsAssumption
    DEF MaxPosAssumption, SinksAssumption, JobsAssumption

(***************************************************************************)
(* Which actions touch what.                                               *)
(***************************************************************************)
LEMMA TableFrame ==
  ASSUME [Next]_vars
  PROVE  UNCHANGED table \/ Produce \/ Purge
BY DEF Next, Poll, vars, table, Open, StopBeforeRow, SkipEarlyRow, StopAtRow,
   TakeRow, WriteSink, RowWritten, WriteError, SaveRow, EndOfRows, BrokenOff,
   RowError, NothingRead, Finish, FinishError, DoneSave, DoneRename,
   DoneRewrite, FileError, Cancel, Restart, Kill, PowerFailure, WriteBack,
   Repair

LEMMA FileFrame ==
  ASSUME [Next]_vars
  PROVE  \/ UNCHANGED file
         \/ SaveRow \/ DoneSave \/ DoneRename \/ DoneRewrite
         \/ FileError \/ PowerFailure \/ Repair
BY DEF Next, Poll, vars, file, Open, StopBeforeRow, SkipEarlyRow, StopAtRow,
   TakeRow, WriteSink, RowWritten, WriteError, EndOfRows, BrokenOff, RowError,
   NothingRead, Finish, FinishError, Produce, Purge, Cancel, Restart, Kill,
   WriteBack

LEMMA SinksFrame ==
  ASSUME [Next]_vars
  PROVE  \/ UNCHANGED sinks
         \/ WriteSink \/ WriteError \/ PowerFailure
         \/ \E S \in SUBSET Sink : Flushed(S)
<1>1. WriteBack => \E S \in SUBSET Sink : Flushed(S)
  BY DEF WriteBack, WrittenBack
<1>2. Finish => \E S \in SUBSET Sink : Flushed(S)
  BY DEF Finish
<1>3. FinishError => \E S \in SUBSET Sink : Flushed(S)
  BY DEF FinishError
<1> QED
  BY <1>1, <1>2, <1>3 DEF Next, Poll, vars, Open, StopBeforeRow, SkipEarlyRow,
     StopAtRow, TakeRow, RowWritten, SaveRow, EndOfRows, BrokenOff, RowError,
     NothingRead, DoneSave, DoneRename, DoneRewrite, FileError, Produce, Purge,
     Cancel, Restart, Kill, Repair

LEMMA PollFrame ==
  ASSUME [Next]_vars
  PROVE  UNCHANGED <<pc, poll>> \/ Poll \/ Kill \/ PowerFailure
BY DEF Next, vars, poll, Produce, Purge, Cancel, Restart, WriteBack, Repair

\* Every step that ends a poll early counts as a fault, but for the two ends
\* a poll has.
LEMMA ReturnFrame ==
  ASSUME [Next]_vars
  PROVE  \/ UNCHANGED faults
         \/ /\ Fault
            /\ Return \/ BrokenOff
BY DEF Next, Poll, vars, Open, StopBeforeRow, SkipEarlyRow, StopAtRow, TakeRow,
   WriteSink, RowWritten, WriteError, SaveRow, EndOfRows, RowError,
   NothingRead, Finish, FinishError, DoneSave, DoneRename, DoneRewrite,
   FileError, Produce, Purge, Cancel, Restart, Kill, PowerFailure, WriteBack,
   Repair, BrokenOff

(***************************************************************************)
(* Type correctness, part by part.                                         *)
(***************************************************************************)
LEMMA TableStep ==
  ASSUME TableOK, [Next]_vars
  PROVE  TableOK' /\ purged' >= purged
<1>1. CASE UNCHANGED table
  BY <1>1 DEF TableOK, table, Position
<1>2. CASE Produce
  BY <1>2 DEF Produce, TableOK, Position
<1>3. CASE Purge
  BY <1>3 DEF Purge, TableOK, Position
<1> QED
  BY <1>1, <1>2, <1>3, TableFrame

LEMMA ValueOf ==
  /\ Fresh \in Value
  /\ \A p \in Position : Good(p) \in Value
  /\ \A v \in Value \cup {Unreadable} : v.pos \in Position
BY DEF Fresh, Value, Good, Position, Flag, Unreadable

\* The row read next is a row of the table behind the one in hand.
LEMMA NextIdIsRow ==
  ASSUME TableOK, PollOK, HasRow
  PROVE  NextId \in Row /\ NextId \in Position /\ NextId > at
BY DEF TableOK, PollOK, HasRow, NextId, Row, Position

LEMMA FileStep ==
  ASSUME FileOK, PollOK, LoopInv, [Next]_vars
  PROVE  FileOK'
<1>1. CASE UNCHANGED file
  BY <1>1 DEF FileOK, file
<1>2. CASE SaveRow
  BY <1>2, ValueOf DEF SaveRow, FileOK, PollOK
<1>3. CASE DoneSave
  BY <1>3, ValueOf DEF DoneSave, FileOK, PollOK
<1>4. CASE DoneRename
  BY <1>4, ValueOf DEF DoneRename, FileOK, PollOK, LoopInv
<1>5. CASE DoneRewrite
  BY <1>5, ValueOf DEF DoneRewrite, FileOK, PollOK
<1>6. CASE FileError
  BY <1>6 DEF FileError, FileOK
<1>7. CASE PowerFailure
  BY <1>7 DEF PowerFailure, FileOK
<1>8. CASE Repair
  BY <1>8, ValueOf DEF Repair, FileOK
<1> QED
  BY <1>1, <1>2, <1>3, <1>4, <1>5, <1>6, <1>7, <1>8, FileFrame

LEMMA FlushedType ==
  ASSUME NEW S, SinksOK, Flushed(S)
  PROVE  SinksOK'
BY DEF Flushed, SinksOK

LEMMA PutType ==
  ASSUME NEW s \in Sink, NEW r \in Row, SinksOK, Put(s, r)
  PROVE  SinksOK'
BY DEF Put, SinksOK

\* What is written is a row, to a sink.
LEMMA WrittenRow ==
  ASSUME PollOK, LoopInv
  PROVE  /\ WriteSink => snk \in Sink /\ at \in Row
         /\ WriteError => snk \in Sink /\ at \in Row
BY DEF WriteSink, WriteError, PollOK, LoopInv, Sink

LEMMA SinksStep ==
  ASSUME SinksOK, PollOK, LoopInv, [Next]_vars
  PROVE  SinksOK'
<1>1. CASE UNCHANGED sinks
  BY <1>1 DEF SinksOK, sinks
<1>2. CASE \E S \in SUBSET Sink : Flushed(S)
  BY <1>2, FlushedType
<1>3. CASE WriteSink
  BY <1>3, PutType, WrittenRow DEF WriteSink
<1>4. CASE WriteError
  BY <1>1, <1>4, PutType, WrittenRow DEF WriteError
<1>5. CASE PowerFailure
  BY <1>5 DEF PowerFailure, Unflushed, SinksOK
<1> QED
  BY <1>1, <1>2, <1>3, <1>4, <1>5, SinksFrame

LEMMA ReturnType ==
  ASSUME Return
  PROVE  PollOK'
<1>1. 1 \in 1 .. NumSinks + 1 /\ 0 \in 0 .. Rows /\ 0 \in Position
  BY DEF Position
<1> QED
  BY <1>1 DEF Return, PollOK

LEMMA PollStep ==
  ASSUME TableOK, FileOK, PollOK, LoopInv, [Next]_vars
  PROVE  PollOK'
<1>1. CASE UNCHANGED <<pc, poll>>
  BY <1>1 DEF PollOK, poll
<1>2. CASE Return
  BY <1>2, ReturnType
<1>3. CASE Open
  <2>1. reg.pos \in Position
    BY ValueOf DEF FileOK
  <2> QED
    BY <1>3, <2>1 DEF Open, PollOK
<1>4. CASE SkipEarlyRow \/ StopAtRow \/ TakeRow
  BY <1>4, NextIdIsRow DEF SkipEarlyRow, StopAtRow, TakeRow, PollOK
<1>5. CASE WriteSink
  BY <1>5 DEF WriteSink, PollOK
<1>6. CASE RowWritten
  <2>1. rows' \in 0 .. Rows
    BY <1>6 DEF RowWritten, PollOK, LoopInv
  <2> QED
    BY <1>6, <2>1 DEF RowWritten, PollOK
<1>7. CASE StopBeforeRow \/ EndOfRows \/ BrokenOff \/ Finish \/ DoneSave
           \/ DoneRename \/ SaveRow
  BY <1>7 DEF StopBeforeRow, EndOfRows, BrokenOff, Finish, DoneSave,
     DoneRename, SaveRow, PollOK, poll
<1> QED
  BY <1>1, <1>2, <1>3, <1>4, <1>5, <1>6, <1>7, PollFrame DEF Poll, WriteError,
     RowError, NothingRead, FinishError, DoneRewrite, FileError, Kill,
     PowerFailure

LEMMA FaultsStep ==
  ASSUME faults \in 0 .. MaxFaults, [Next]_vars
  PROVE  faults' \in 0 .. MaxFaults
BY ReturnFrame DEF Fault

LEMMA CancelledStep ==
  ASSUME cancelled \in BOOLEAN, [Next]_vars
  PROVE  cancelled' \in BOOLEAN
BY DEF Next, Poll, vars, Open, StopBeforeRow, SkipEarlyRow, StopAtRow, TakeRow,
   WriteSink, RowWritten, WriteError, SaveRow, EndOfRows, BrokenOff, RowError,
   NothingRead, Finish, FinishError, DoneSave, DoneRename, DoneRewrite,
   FileError, Produce, Purge, Cancel, Restart, Kill, PowerFailure, WriteBack,
   Repair

LEMMA TypeStep ==
  ASSUME TypeOK, LoopInv, [Next]_vars
  PROVE  TypeOK'
BY TableStep, FileStep, SinksStep, PollStep, FaultsStep, CancelledStep
   DEF TypeOK

(***************************************************************************)
(* What is accounted for stays accounted for.                              *)
(***************************************************************************)
LEMMA HandedGrows ==
  ASSUME SinksOK, PollOK, LoopInv, [Next]_vars
  PROVE  \A s \in Sink : handed[s] \subseteq handed'[s]
<1>1. CASE UNCHANGED handed
  BY <1>1
<1>2. CASE \E s \in Sink, r \in Row : Put(s, r)
  BY <1>2 DEF Put, SinksOK
<1>3. WriteSink => Put(snk, at)
  BY DEF WriteSink
<1>4. WriteError => Put(snk, at) \/ UNCHANGED handed
  BY DEF WriteError, sinks
<1>5. UNCHANGED handed \/ WriteSink \/ WriteError
  BY SinksFrame DEF sinks, Flushed, PowerFailure, Unflushed
<1> QED
  BY <1>1, <1>2, <1>3, <1>4, <1>5, WrittenRow

LEMMA AccountedStable ==
  ASSUME TypeOK, LoopInv, [Next]_vars
  PROVE  \A r \in Row : Accounted(r) => Accounted(r)'
<1>1. purged \in Nat /\ purged' \in Nat /\ purged' >= purged
  BY TableStep DEF TypeOK, TableOK, Position
<1>2. \A s \in Sink : handed[s] \subseteq handed'[s]
  BY HandedGrows DEF TypeOK
<1> QED
  BY <1>1, <1>2 DEF Accounted, Row

\* A prefix of the rows that is accounted for stays so.
LEMMA PrefixStable ==
  ASSUME TypeOK, LoopInv, [Next]_vars, NEW p \in Int, p <= MaxPos,
         \A r \in 1 .. p : Accounted(r)
  PROVE  \A r \in 1 .. p : Accounted(r)'
<1>1. \A r \in 1 .. p : r \in Row
  BY DEF Row
<1> QED
  BY <1>1, AccountedStable

(***************************************************************************)
(* The rows read so far.                                                   *)
(***************************************************************************)

\* Rows that are jumped over are no longer in the table.
LEMMA BeforeNextRow ==
  ASSUME TypeOK, LoopInv, pc = "next"
  PROVE  \A r \in 1 .. NextId - 1 : Accounted(r)
<1>1. at \in Nat /\ purged \in Nat
  BY DEF TypeOK, TableOK, PollOK, Position
<1>2. \A r \in 1 .. at : Accounted(r)
  BY DEF LoopInv
<1>3. \A r \in 1 .. NextId - 1 : r \in 1 .. at \/ r <= purged
  BY <1>1 DEF NextId
<1> QED
  BY <1>2, <1>3 DEF Accounted

\* The parts of LoopInv that speak of the variables of the poll alone.
LEMMA LoopVariables ==
  ASSUME TypeOK, LoopInv, [Next]_vars
  PROVE  /\ (pc = "idle" => at = 0 /\ last = 0 /\ ~gotRows)'
         /\ (pc # "write" => snk = 1)'
         /\ (pc = "write" /\ Rows > 0 => rows < Rows)'
         /\ (pc \in {"write", "save"} => last = at /\ at \in Row)'
         /\ (last <= at)'
         /\ (pc = "rename" => reg = Good(last))'
<1>1. CASE UNCHANGED <<pc, poll>>
  <2>1. UNCHANGED reg \/ pc # "rename"
    BY <1>1, FileFrame DEF file, SaveRow, DoneSave, DoneRename, DoneRewrite,
       FileError, PowerFailure, Repair, Return
  <2> QED
    BY <1>1, <2>1 DEF LoopInv, poll
<1>2. CASE Return
  BY <1>2 DEF Return
<1>3. CASE Open
  <2>1. reg.pos \in Nat
    BY ValueOf DEF TypeOK, FileOK, Position
  <2> QED
    BY <1>3, <2>1 DEF Open, LoopInv
<1>4. CASE SkipEarlyRow \/ StopAtRow
  <2>1. NextId \in Nat /\ NextId > at /\ at \in Nat /\ last \in Nat
    BY <1>4, NextIdIsRow DEF SkipEarlyRow, StopAtRow, TypeOK, PollOK, Position
  <2> QED
    BY <1>4, <2>1 DEF SkipEarlyRow, StopAtRow, LoopInv
<1>5. CASE TakeRow
  <2>1. NextId \in Row
    BY <1>5, NextIdIsRow DEF TakeRow, TypeOK
  <2>2. Rows > 0 => rows < Rows
    BY <1>5 DEF TakeRow, LimitReached, TypeOK, PollOK
  <2> QED
    BY <1>5, <2>1, <2>2 DEF TakeRow, LoopInv, Row
<1>6. CASE WriteSink \/ RowWritten \/ SaveRow
  BY <1>6 DEF WriteSink, RowWritten, SaveRow, LoopInv
<1>7. CASE StopBeforeRow \/ EndOfRows \/ BrokenOff \/ Finish \/ DoneSave
           \/ DoneRename
  BY <1>7 DEF StopBeforeRow, EndOfRows, BrokenOff, Finish, DoneSave,
     DoneRename, LoopInv, poll
<1> QED
  BY <1>1, <1>2, <1>3, <1>4, <1>5, <1>6, <1>7, PollFrame DEF Poll, WriteError,
     RowError, NothingRead, FinishError, DoneRewrite, FileError, Kill,
     PowerFailure

\* Rows are left behind only when no sink is owed them.
LEMMA RowsStep ==
  ASSUME TypeOK, LoopInv, NoGap, [Next]_vars
  PROVE  /\ (pc = "next" => \A r \in 1 .. at : Accounted(r))'
         /\ (pc \in {"write", "save"} => \A r \in 1 .. at - 1 : Accounted(r))'
         /\ (pc = "write" => \A s \in 1 .. snk - 1 : at \in handed[s])'
         /\ (pc = "save" => Accounted(at))'
<1>0. at \in Nat /\ at <= MaxPos /\ at \in Int /\ at - 1 \in Int
  BY DEF TypeOK, PollOK, Position
<1>1. CASE UNCHANGED <<pc, at, snk>>
  <2>1. \A s \in 1 .. snk - 1 : s \in Sink
    BY DEF TypeOK, PollOK, Sink
  <2>2. pc = "write" => \A s \in 1 .. snk - 1 : at \in handed'[s]
    BY <2>1, HandedGrows DEF LoopInv, TypeOK
  <2>3. pc = "save" => Accounted(at)'
    BY <1>1, AccountedStable DEF LoopInv
  <2> QED
    BY <1>0, <1>1, <2>2, <2>3, PrefixStable DEF LoopInv
<1>2. CASE pc' \notin {"next", "write", "save"}
  BY <1>2
<1>3. CASE Open
  <2>1. reg.pos \in Nat /\ reg.pos <= MaxPos
    BY ValueOf DEF TypeOK, FileOK, Position
  <2>2. \A r \in 1 .. reg.pos : Accounted(r)
    BY DEF NoGap
  <2> QED
    BY <1>3, <2>1, <2>2, PrefixStable DEF Open
<1>4. CASE SkipEarlyRow \/ TakeRow
  <2>1. NextId \in Row /\ NextId \in Nat /\ NextId - 1 <= MaxPos
    BY <1>4, NextIdIsRow DEF SkipEarlyRow, TakeRow, TypeOK, Row
  <2>2. \A r \in 1 .. NextId - 1 : Accounted(r)'
    BY <1>4, <2>1, BeforeNextRow, PrefixStable DEF SkipEarlyRow, TakeRow
  <2>3. at' = NextId /\ (at' \notin Wanted => Accounted(at)')
    BY <1>4 DEF Accounted, SkipEarlyRow, TakeRow
  <2>4. NextId \in Early \cup Filtered => Accounted(at)'
    BY <2>3 DEF Wanted
  <2>5. \A r \in 1 .. NextId : r \in 1 .. NextId - 1 \/ r = NextId
    BY <2>1
  <2>6. TakeRow => snk' = 1
    BY DEF TakeRow, LoopInv
  <2>7. CASE SkipEarlyRow
    <3>1. \A r \in 1 .. NextId : Accounted(r)'
      BY <2>2, <2>3, <2>4, <2>5, <2>7 DEF SkipEarlyRow
    <3> QED
      BY <2>3, <2>7, <3>1 DEF SkipEarlyRow
  <2>8. CASE TakeRow
    BY <2>1, <2>2, <2>3, <2>4, <2>6, <2>8 DEF TakeRow
  <2> QED
    BY <1>4, <2>7, <2>8
<1>5. CASE WriteSink
  <2>1. snk \in Sink /\ snk' = snk + 1 /\ UNCHANGED at /\ pc = "write" /\ pc' = "write"
    BY <1>5, WrittenRow DEF WriteSink, TypeOK
  <2>2. handed' = [handed EXCEPT ![snk] = @ \cup {at}]
    BY <1>5 DEF WriteSink, Put
  <2>3. \A s \in 1 .. snk : s \in Sink /\ (s = snk \/ s \in 1 .. snk - 1)
    BY <2>1 DEF Sink
  <2>4. \A s \in 1 .. snk : at \in handed'[s]
    BY <2>1, <2>2, <2>3 DEF TypeOK, SinksOK, LoopInv
  <2>5. snk' - 1 = snk
    BY <2>1 DEF Sink
  <2>6. \A r \in 1 .. at - 1 : Accounted(r)'
    BY <1>0, <2>1, PrefixStable DEF LoopInv
  <2> QED
    BY <2>1, <2>4, <2>5, <2>6
<1>6. CASE RowWritten
  <2>1. \A s \in Sink : at \in handed[s]
    BY <1>6 DEF RowWritten, LoopInv, TypeOK, PollOK, Sink
  <2>2. at \in Row /\ Accounted(at)
    BY <1>6, <2>1 DEF RowWritten, LoopInv, Accounted
  <2>3. \A r \in 1 .. at - 1 : Accounted(r)'
    BY <1>0, <1>6, PrefixStable DEF LoopInv, RowWritten
  <2> QED
    BY <1>6, <2>2, <2>3, AccountedStable DEF RowWritten
<1>7. CASE SaveRow
  <2>1. \A r \in 1 .. at : r \in 1 .. at - 1 \/ r = at
    BY <1>0
  <2>2. \A r \in 1 .. at : Accounted(r)
    BY <1>7, <2>1 DEF SaveRow, LoopInv
  <2> QED
    BY <1>0, <1>7, <2>2, PrefixStable DEF SaveRow
<1> QED
  BY <1>1, <1>2, <1>3, <1>4, <1>5, <1>6, <1>7, PollFrame DEF Poll, Return,
     poll, StopBeforeRow, StopAtRow, EndOfRows, BrokenOff, Finish, DoneSave,
     DoneRename, WriteError, RowError, NothingRead, FinishError, DoneRewrite,
     FileError, Kill, PowerFailure

\* What Done will write is behind rows that are accounted for.
LEMMA LastStep ==
  ASSUME TypeOK, LoopInv, NoGap, [Next]_vars
  PROVE  /\ (\A r \in 1 .. last - 1 : Accounted(r))'
         /\ (pc \in {"next", "end", "done", "rename", "rewrite"} =>
               \A r \in 1 .. last : Accounted(r))'
<1>0. /\ last \in Nat /\ last <= MaxPos /\ last \in Int /\ last - 1 \in Int
      /\ last - 1 <= MaxPos
  BY DEF TypeOK, PollOK, Position
<1>1. \A r \in 1 .. last - 1 : Accounted(r)'
  BY <1>0, PrefixStable DEF LoopInv
<1>2. pc \in {"next", "end", "done", "rename", "rewrite"} =>
        \A r \in 1 .. last : Accounted(r)'
  BY <1>0, PrefixStable DEF LoopInv
<1>3. CASE /\ last' = last
           /\ \/ pc \in {"next", "end", "done", "rename", "rewrite"}
              \/ pc' \notin {"next", "end", "done", "rename", "rewrite"}
  BY <1>1, <1>2, <1>3
<1>4. CASE last' = 0
  BY <1>4
<1>5. CASE TakeRow
  <2>1. NextId \in Nat /\ NextId - 1 <= MaxPos
    BY <1>5, NextIdIsRow DEF TakeRow, TypeOK, Row
  <2>2. \A r \in 1 .. NextId - 1 : Accounted(r)'
    BY <1>5, <2>1, BeforeNextRow, PrefixStable DEF TakeRow
  <2> QED
    BY <1>5, <2>2 DEF TakeRow
<1>6. CASE SaveRow
  <2>1. (\A r \in 1 .. at : Accounted(r))'
    BY <1>6, RowsStep DEF SaveRow
  <2>2. last' = at'
    BY <1>6 DEF SaveRow, LoopInv
  <2> QED
    BY <1>1, <1>6, <2>1, <2>2 DEF SaveRow
<1>7. CASE Open
  BY <1>4, <1>7 DEF Open, LoopInv
<1>8. \/ /\ last' = last
         /\ \/ pc \in {"next", "end", "done", "rename", "rewrite"}
            \/ pc' \notin {"next", "end", "done", "rename", "rewrite"}
      \/ last' = 0 \/ TakeRow \/ SaveRow \/ Open
  BY PollFrame DEF Poll, Return, poll,
     StopBeforeRow, SkipEarlyRow, StopAtRow, WriteSink, RowWritten, EndOfRows,
     BrokenOff, Finish, DoneSave, DoneRename, WriteError, RowError,
     NothingRead, FinishError, DoneRewrite, FileError, Kill, PowerFailure
<1> QED
  BY <1>3, <1>4, <1>5, <1>6, <1>7, <1>8

LEMMA LoopStep ==
  ASSUME TypeOK, LoopInv, NoGap, [Next]_vars
  PROVE  LoopInv'
BY LoopVariables, RowsStep, LastStep DEF LoopInv

(***************************************************************************)
(* The files never hold a position with a row before it that is owed.      *)
(***************************************************************************)
LEMMA GapStep ==
  ASSUME TypeOK, LoopInv, NoGap, [Next]_vars
  PROVE  NoGap'
<1> DEFINE Clear(p) == \A r \in 1 .. p : Accounted(r)'
<1>1. Clear(reg.pos) /\ Clear(spare.pos) /\ Clear(0)
  <2>1. /\ reg.pos \in Int /\ reg.pos <= MaxPos
        /\ spare.pos \in Int /\ spare.pos <= MaxPos
    BY ValueOf DEF TypeOK, FileOK, Position
  <2>2. /\ \A r \in 1 .. reg.pos : Accounted(r)
        /\ \A r \in 1 .. spare.pos : Accounted(r)
    BY DEF NoGap
  <2> QED
    BY <2>1, <2>2, PrefixStable
<1>2. pc \in {"done", "rewrite"} => Clear(last)
  BY PrefixStable DEF LoopInv, TypeOK, PollOK, Position
<1>3. SaveRow => Clear(at)
  BY RowsStep DEF SaveRow
<1>4. /\ \/ reg'.pos \in {0, reg.pos, spare.pos}
         \/ reg'.pos = last /\ pc \in {"done", "rewrite"}
         \/ reg'.pos = at /\ SaveRow
      /\ spare'.pos \in {reg.pos, spare.pos}
  <2>1. CASE SaveRow \/ DoneSave \/ DoneRewrite
    BY <2>1 DEF SaveRow, DoneSave, DoneRewrite, Good
  <2>2. CASE DoneRename
    BY <2>2 DEF DoneRename, Fresh
  <2>3. CASE FileError \/ PowerFailure
    <3>1. reg' \in {reg, Unreadable} /\ UNCHANGED spare
      BY <2>3 DEF FileError, PowerFailure
    <3> QED
      BY <3>1 DEF Unreadable
  <2>4. CASE Repair
    <3>1. reg' \in {spare, Fresh} /\ UNCHANGED spare
      BY <2>4 DEF Repair
    <3> QED
      BY <3>1 DEF Fresh
  <2>5. CASE UNCHANGED file
    BY <2>5 DEF file
  <2> QED
    BY <2>1, <2>2, <2>3, <2>4, <2>5, FileFrame
<1>5. Clear(reg'.pos) /\ Clear(spare'.pos)
  BY <1>1, <1>2, <1>3, <1>4
<1> QED
  BY <1>5 DEF NoGap

(***************************************************************************)
(* The saved position against the variables of the poll.                   *)
(***************************************************************************)
LEMMA RegStep ==
  ASSUME TypeOK, LoopInv, RegInv, [Next]_vars
  PROVE  RegInv'
<1>0. /\ at \in Nat /\ reg.pos \in Nat
  BY ValueOf DEF TypeOK, FileOK, PollOK, Position
<1>1. CASE pc' = "idle"
  BY <1>1 DEF RegInv
<1>2. CASE UNCHANGED <<pc, poll, reg>>
  BY <1>2 DEF RegInv, poll
<1>3. CASE Open
  BY <1>0, <1>3 DEF Open, RegInv, LoopInv, file
<1>4. CASE SkipEarlyRow \/ StopAtRow \/ TakeRow
  <2>1. NextId \in Nat /\ NextId > at
    BY <1>4, NextIdIsRow DEF SkipEarlyRow, StopAtRow, TakeRow, TypeOK, Position
  <2>2. UNCHANGED reg
    BY <1>4 DEF SkipEarlyRow, StopAtRow, TakeRow, file
  <2> QED
    BY <1>0, <1>4, <2>1, <2>2 DEF SkipEarlyRow, StopAtRow, TakeRow, RegInv
<1>5. CASE WriteSink \/ RowWritten
  BY <1>5 DEF WriteSink, RowWritten, RegInv, file
<1>6. CASE SaveRow
  BY <1>0, <1>6 DEF SaveRow, RegInv, LoopInv, Good
<1>7. CASE StopBeforeRow \/ EndOfRows \/ BrokenOff \/ Finish
  BY <1>7 DEF StopBeforeRow, EndOfRows, BrokenOff, Finish, RegInv, poll, file
<1>8. CASE DoneSave \/ DoneRename
  BY <1>8 DEF DoneSave, DoneRename, RegInv
<1>9. \/ pc' = "idle" \/ UNCHANGED <<pc, poll, reg>> \/ Open
      \/ SkipEarlyRow \/ StopAtRow \/ TakeRow \/ WriteSink \/ RowWritten
      \/ SaveRow \/ StopBeforeRow \/ EndOfRows \/ BrokenOff \/ Finish
      \/ DoneSave \/ DoneRename
  BY DEF Next, Poll, vars, file, poll, Return, WriteError, RowError,
     NothingRead, FinishError, DoneRewrite, FileError, Produce, Purge, Cancel,
     Restart, Kill, PowerFailure, WriteBack, Repair
<1> QED
  BY <1>1, <1>2, <1>3, <1>4, <1>5, <1>6, <1>7, <1>8, <1>9

(***************************************************************************)
(* What a power failure can take.                                          *)
(***************************************************************************)
LEMMA NoFaultBefore ==
  ASSUME faults \in 0 .. MaxFaults, [Next]_vars, faults' = 0
  PROVE  faults = 0 /\ ~Fault
BY ReturnFrame DEF Fault

\* Nothing becomes pending but the row in hand.
LEMMA PendingStep ==
  ASSUME TypeOK, LoopInv, [Next]_vars, NEW s \in Sink
  PROVE  \/ pend'[s] \subseteq pend[s]
         \/ WriteSink /\ pend'[s] \subseteq pend[s] \cup {at}
         \/ Fault
<1>1. CASE UNCHANGED sinks
  BY <1>1 DEF sinks
<1>2. CASE \E S \in SUBSET Sink : Flushed(S)
  BY <1>2 DEF Flushed
<1>3. CASE WriteSink
  BY <1>3 DEF WriteSink, Put, TypeOK, SinksOK
<1> QED
  BY <1>1, <1>2, <1>3, SinksFrame DEF WriteError, PowerFailure

LEMMA RiskStep ==
  ASSUME TypeOK, LoopInv, RiskInv, OnePollAtRisk, [Next]_vars
  PROVE  RiskInv' /\ OnePollAtRisk'
<1> SUFFICES ASSUME faults' = 0
             PROVE  RiskInv' /\ OnePollAtRisk'
  BY DEF RiskInv, OnePollAtRisk
<1>0. faults = 0 /\ ~Fault
  BY NoFaultBefore DEF TypeOK
<1>1. /\ at \in Nat /\ last \in Nat /\ start \in Nat /\ reg.pos \in Nat
  BY ValueOf DEF TypeOK, FileOK, PollOK, Position
<1>2. \A s \in Sink : \A r \in pend[s] :
        /\ pc \notin {"idle", "done", "rename", "rewrite"}
        /\ pc \in {"next", "end"} => gotRows
        /\ start < r /\ r <= last /\ r \in Nat
  BY <1>0 DEF RiskInv, OnePollAtRisk, TypeOK, SinksOK, Row
<1>3. CASE WriteSink
  <2>1. UNCHANGED <<pc, start, last, at>> /\ pc = "write" /\ start < at /\ at = last
    BY <1>0, <1>3 DEF WriteSink, RiskInv, LoopInv
  <2>2. \A s \in Sink : \A r \in pend'[s] : r \in pend[s] \/ r = at
    BY <1>0, PendingStep
  <2> QED
    BY <1>1, <1>2, <2>1, <2>2 DEF RiskInv, OnePollAtRisk
<1>4. \A s \in Sink : ~WriteSink => pend'[s] \subseteq pend[s]
  BY <1>0, PendingStep
<1>5. CASE UNCHANGED <<pc, poll>> /\ ~WriteSink
  BY <1>0, <1>2, <1>4, <1>5 DEF RiskInv, OnePollAtRisk, poll
<1>6. CASE Open
  BY <1>1, <1>2, <1>4, <1>6 DEF Open, RiskInv, OnePollAtRisk, WriteSink
<1>7. CASE SkipEarlyRow \/ StopAtRow \/ TakeRow
  <2>1. NextId \in Nat /\ NextId > at
    BY <1>7, NextIdIsRow DEF SkipEarlyRow, StopAtRow, TakeRow, TypeOK, Position
  <2>2. start <= at /\ last <= at /\ ~WriteSink /\ pc = "next"
    BY <1>0, <1>7 DEF RiskInv, LoopInv, SkipEarlyRow, StopAtRow, TakeRow, WriteSink
  <2>3. /\ UNCHANGED <<start, gotRows>> /\ at' = NextId
        /\ \/ last' = last /\ pc' \in {"next", "end"}
           \/ last' = NextId /\ pc' \in {"write", "save"}
    BY <1>7, <2>2 DEF SkipEarlyRow, StopAtRow, TakeRow
  <2> QED
    BY <1>1, <1>2, <1>4, <2>1, <2>2, <2>3 DEF RiskInv, OnePollAtRisk
<1>8. CASE RowWritten \/ SaveRow
  <2>1. /\ UNCHANGED <<start, last, at>> /\ start < at /\ ~WriteSink
        /\ pc' = "save" \/ (pc' = "next" /\ gotRows')
    BY <1>0, <1>8 DEF RiskInv, RowWritten, SaveRow, WriteSink, TypeOK, PollOK
  <2> QED
    BY <1>1, <1>2, <1>4, <2>1 DEF RiskInv, OnePollAtRisk
<1>9. CASE StopBeforeRow \/ EndOfRows
  BY <1>0, <1>2, <1>4, <1>9 DEF StopBeforeRow, EndOfRows, RiskInv,
     OnePollAtRisk, poll, WriteSink
<1>10. CASE Finish
  <2>1. \A s \in Sink : pend'[s] = {}
    BY <1>10 DEF Finish, Flushed
  <2> QED
    BY <1>0, <1>10, <2>1 DEF Finish, RiskInv, OnePollAtRisk, poll
<1>11. CASE DoneSave \/ DoneRename
  BY <1>0, <1>2, <1>4, <1>11 DEF DoneSave, DoneRename, RiskInv,
     OnePollAtRisk, poll, WriteSink
<1>12. CASE NothingRead \/ DoneRewrite
  <2>1. /\ pc' = "idle" /\ ~WriteSink
        /\ (pc = "end" /\ ~gotRows) \/ pc = "rewrite"
    BY <1>12 DEF NothingRead, DoneRewrite, Return, WriteSink
  <2> QED
    BY <1>2, <1>4, <2>1 DEF RiskInv, OnePollAtRisk
<1> QED
  BY <1>0, <1>3, <1>5, <1>6, <1>7, <1>8, <1>9, <1>10, <1>11, <1>12, PollFrame
     DEF Poll, WriteError, BrokenOff, RowError, FinishError, FileError, Kill,
         PowerFailure

(***************************************************************************)
(* The theorems.                                                           *)
(***************************************************************************)
LEMMA InitInv == Init => IInv /\ RiskInv /\ OnePollAtRisk
<1> SUFFICES ASSUME Init PROVE IInv /\ RiskInv /\ OnePollAtRisk
  OBVIOUS
<1>1. 1 \in 1 .. NumSinks + 1 /\ 0 \in Position /\ 0 \in 0 .. Rows /\ 0 \in 0 .. MaxFaults
  BY DEF Position
<1>2. TableOK /\ FileOK
  BY <1>1, ValueOf DEF Init, TableOK, FileOK
<1>3. SinksOK
  BY DEF Init, SinksInit, SinksOK
<1>4. PollOK
  BY <1>1 DEF Init, PollOK
<1>5. TypeOK
  BY <1>1, <1>2, <1>3, <1>4 DEF Init, TypeOK
<1>6. LoopInv /\ RegInv /\ NoGap
  BY DEF Init, LoopInv, RegInv, NoGap, Fresh
<1>7. RiskInv /\ OnePollAtRisk
  BY DEF Init, SinksInit, RiskInv, OnePollAtRisk
<1> QED
  BY <1>5, <1>6, <1>7 DEF IInv

LEMMA StepInv == IInv /\ [Next]_vars => IInv'
BY TypeStep, LoopStep, RegStep, GapStep DEF IInv

\* The inductive invariant holds for any number of rows, sinks and faults, any
\* limit and any choice of unwanted rows.
THEOREM InvariantHolds == Spec => []IInv
<1>1. Init => IInv
  BY InitInv
<1> QED
  BY <1>1, StepInv, PTL DEF Spec

\* Every variable of the job reader keeps its type.
THEOREM TypeCorrect == Spec => []TypeOK
<1>1. IInv => TypeOK
  BY DEF IInv
<1> QED
  BY <1>1, InvariantHolds, PTL

\* No row at or before the saved instance_id, nor the one of the .0 file, is
\* still owed to a sink.
THEOREM NoGapHolds == Spec => []NoGap
<1>1. IInv => NoGap
  BY DEF IInv
<1> QED
  BY <1>1, InvariantHolds, PTL

\* As long as nothing fails, what is not flushed was written by this poll.
THEOREM OnePollAtRiskHolds == Spec => []OnePollAtRisk
<1>1. Init => RiskInv /\ OnePollAtRisk
  BY InitInv
<1>2. IInv /\ RiskInv /\ OnePollAtRisk /\ [Next]_vars => RiskInv' /\ OnePollAtRisk'
  BY RiskStep DEF IInv
<1> QED
  BY <1>1, <1>2, InvariantHolds, PTL DEF Spec

(***************************************************************************)
(* The job reader implements the cursor of DeliveryCursor.                 *)
(***************************************************************************)
Cursor == IF pc = "rewrite" THEN last ELSE reg.pos
Given == {r \in Row : Accounted(r)} \X {1}

\* Rows are given for good.
LEMMA GivenGrows ==
  ASSUME TypeOK, LoopInv, [Next]_vars
  PROVE  Given \subseteq Given'
BY AccountedStable DEF Given

\* A step that leaves the table and the history of the sinks alone.
LEMMA GivenSame ==
  ASSUME UNCHANGED <<purged, handed>>
  PROVE  Given' = Given
BY DEF Given, Accounted

\* The cursor moves forward without a fault or back with one; then no row is
\* given in the same step.
LEMMA CursorStep ==
  ASSUME IInv, [Next]_vars
  PROVE  \/ Cursor' = Cursor
         \/ Cursor' > Cursor /\ UNCHANGED <<purged, handed, faults>>
         \/ Cursor' < Cursor /\ UNCHANGED <<purged, handed>> /\ faults' = faults + 1
<1>0. reg.pos \in Nat /\ spare.pos \in Nat /\ last \in Nat /\ at \in Nat
  BY ValueOf DEF IInv, TypeOK, FileOK, PollOK, Position
<1>1. CASE UNCHANGED file /\ pc # "rewrite" /\ pc' # "rewrite"
  BY <1>1 DEF Cursor, file
<1>2. CASE UNCHANGED <<file, pc, last>>
  BY <1>2 DEF Cursor, file
<1>3. CASE SaveRow
  BY <1>0, <1>3 DEF SaveRow, Cursor, Good, IInv, RegInv, LoopInv, table, sinks
<1>4. CASE DoneSave \/ DoneRewrite
  BY <1>4 DEF DoneSave, DoneRewrite, Return, Cursor, Good, IInv, RegInv
<1>5. CASE DoneRename
  BY <1>5 DEF DoneRename, Cursor, Good, IInv, LoopInv, poll
<1>6. CASE FileError \/ PowerFailure \/ Kill
  <2>1. /\ UNCHANGED <<purged, handed>> /\ faults' = faults + 1
        /\ pc' = "idle" /\ reg' \in {reg, Unreadable}
    BY <1>6 DEF FileError, PowerFailure, Kill, Return, Fault, Unflushed,
       table, file, sinks
  <2>2. reg'.pos <= reg.pos /\ Cursor' = reg'.pos
    BY <1>0, <2>1 DEF Unreadable, Cursor
  <2>3. pc = "rewrite" => reg.pos <= last
    BY <1>0 DEF IInv, RegInv, Fresh
  <2>4. Cursor' <= Cursor
    BY <1>0, <2>1, <2>2, <2>3 DEF Cursor, Unreadable
  <2> QED
    BY <1>0, <2>1, <2>2, <2>4 DEF Cursor, Unreadable
<1>7. CASE Repair
  <2>1. Cursor = 0 /\ Cursor' \in Nat
    BY <1>0, <1>7 DEF Repair, Cursor, Unreadable, Fresh
  <2>2. UNCHANGED <<purged, handed, faults>>
    BY <1>7 DEF Repair, table, sinks
  <2> QED
    BY <2>1, <2>2
<1>8. \/ UNCHANGED file /\ pc # "rewrite" /\ pc' # "rewrite"
      \/ UNCHANGED <<file, pc, last>>
      \/ SaveRow \/ DoneSave \/ DoneRewrite \/ DoneRename
      \/ FileError \/ PowerFailure \/ Kill \/ Repair
  BY DEF Next, Poll, vars, poll, Return, Open, StopBeforeRow, SkipEarlyRow,
     StopAtRow, TakeRow, WriteSink, RowWritten, WriteError, EndOfRows,
     BrokenOff, RowError, NothingRead, Finish, FinishError, Produce, Purge,
     Cancel, Restart, WriteBack
<1> QED
  BY <1>1, <1>2, <1>3, <1>4, <1>5, <1>6, <1>7, <1>8

\* The cursor stands behind rows that are given.
LEMMA CursorCovered ==
  IInv => (1 .. Cursor) \X (1 .. 1) \subseteq Given
<1> SUFFICES ASSUME IInv PROVE (1 .. Cursor) \X (1 .. 1) \subseteq Given
  OBVIOUS
<1>1. \A r \in 1 .. Cursor : Accounted(r)
  BY DEF Cursor, IInv, NoGap, LoopInv
<1>2. \A r \in 1 .. Cursor : r \in Row
  BY ValueOf DEF Cursor, IInv, TypeOK, FileOK, PollOK, Position, Row
<1> QED
  BY <1>1, <1>2 DEF Given

\* The detailed reader implements the cursor: at least once, and back only in
\* trouble.
THEOREM DeliveryHolds == Spec => ImplementsDelivery
<1>1. Init => Delivery!Init
  <2> SUFFICES ASSUME Init PROVE Delivery!Init
    OBVIOUS
  <2>1. {r \in Row : Accounted(r)} \X {1} \subseteq (1 .. MaxPos) \X (1 .. 1)
    BY DEF Row
  <2> QED
    BY <2>1 DEF Init, Delivery!Init, Fresh
<1>a. (IInv => (1 .. Cursor) \X (1 .. 1) \subseteq Given)'
  BY CursorCovered, PTL
<1>2. IInv /\ IInv' /\ [Next]_vars => [Delivery!Next]_(Delivery!vars)
  <2> SUFFICES ASSUME IInv, IInv', [Next]_vars
               PROVE  [Delivery!Next]_(Delivery!vars)
    OBVIOUS
  <2>1. Given \subseteq Given' /\ faults' \in {faults, faults + 1}
    BY GivenGrows, ReturnFrame DEF IInv, Fault
  <2>2. CASE Cursor' = Cursor
    BY <2>1, <2>2 DEF Delivery!Next, Delivery!Give, Cursor, Given
  <2>3. CASE Cursor' > Cursor /\ UNCHANGED <<purged, handed, faults>>
    <3>1. Given' = Given
      BY <2>3, GivenSame
    <3>2. ((1 .. Cursor) \X (1 .. 1))' \subseteq Given'
      BY <1>a
    <3> QED
      BY <2>3, <3>1, <3>2 DEF Delivery!Next, Delivery!Advance, Delivery!Before,
         Cursor, Given
  <2>4. CASE Cursor' < Cursor /\ UNCHANGED <<purged, handed>> /\ faults' = faults + 1
    <3>1. Given' = Given
      BY <2>4, GivenSame
    <3> QED
      BY <2>4, <3>1 DEF Delivery!Next, Delivery!GoBack, Cursor, Given
  <2> QED
    BY <2>2, <2>3, <2>4, CursorStep
<1> QED
  BY <1>1, <1>2, InvariantHolds, PTL DEF Spec, ImplementsDelivery, Delivery!Spec

=============================================================================
