-------------------------- MODULE XeSessionProofs --------------------------
EXTENDS XeSession, TLAPS

USE MaxPosAssumption, SinksAssumption, SessionAssumption
    DEF MaxPosAssumption, SinksAssumption, SessionAssumption

(***************************************************************************)
(* Which actions touch what.                                               *)
(***************************************************************************)
LEMMA TargetFrame ==
  ASSUME [Next]_vars
  PROVE  UNCHANGED target \/ Produce \/ Rollover
BY DEF Next, Poll, vars, Handling, Open, Query, QueryError, SkipRow, NextRow,
   SaveBlock, FlushBlock,
         FlushBlockError, DropRow, StopAtRow, AcceptRow,
         WriteSink, RowWritten, WriteError, EndOfRows,
         InvalidOffset, RowsError, NothingRead, Finish,
         FinishError, DoneSave, DoneRename, DoneRewrite,
         FileError, Produce, Rollover, Cancel, Restart, Kill,
         PowerFailure, WriteBack, Repair

LEMMA FileFrame ==
  ASSUME [Next]_vars
  PROVE  \/ UNCHANGED file
         \/ SaveBlock \/ DoneSave \/ DoneRename \/ DoneRewrite
         \/ FileError \/ PowerFailure \/ Repair
BY DEF Next, Poll, vars, Handling, Open, Query, QueryError, SkipRow, NextRow,
   SaveBlock, FlushBlock,
         FlushBlockError, DropRow, StopAtRow, AcceptRow,
         WriteSink, RowWritten, WriteError, EndOfRows,
         InvalidOffset, RowsError, NothingRead, Finish,
         FinishError, DoneSave, DoneRename, DoneRewrite,
         FileError, Produce, Rollover, Cancel, Restart, Kill,
         PowerFailure, WriteBack, Repair

LEMMA SinksFrame ==
  ASSUME [Next]_vars
  PROVE  \/ UNCHANGED sinks
         \/ FlushBlock \/ FlushBlockError \/ Finish \/ FinishError \/ WriteBack
         \/ WriteSink \/ WriteError \/ PowerFailure
BY DEF Next, Poll, vars, Handling, Open, Query, QueryError, SkipRow, NextRow,
   SaveBlock, FlushBlock,
         FlushBlockError, DropRow, StopAtRow, AcceptRow,
         WriteSink, RowWritten, WriteError, EndOfRows,
         InvalidOffset, RowsError, NothingRead, Finish,
         FinishError, DoneSave, DoneRename, DoneRewrite,
         FileError, Produce, Rollover, Cancel, Restart, Kill,
         PowerFailure, WriteBack, Repair

(***************************************************************************)
(* Type correctness, part by part.                                         *)
(***************************************************************************)
LEMMA TargetStep ==
  ASSUME TargetOK, [Next]_vars
  PROVE  TargetOK' /\ oldest' >= oldest
<1>1. CASE UNCHANGED target
  BY <1>1 DEF TargetOK, target, Position
<1>2. CASE Produce
  BY <1>2 DEF Produce, TargetOK, Position
<1>3. CASE Rollover
  BY <1>3 DEF Rollover, TargetOK, Position
<1> QED
  BY <1>1, <1>2, <1>3, TargetFrame

LEMMA ValueOf ==
  /\ Fresh \in Value
  /\ \A p \in Position, f \in Flag : [pos |-> p, flag |-> f] \in Value
  /\ \A v \in Value \cup {Unreadable} : v # Unreadable => v.pos \in Position /\ v.flag \in Flag
  /\ \A v \in Value \cup {Unreadable} : v.pos \in Position
BY DEF Fresh, Value, Position, Flag, Unreadable

LEMMA FileStep ==
  ASSUME FileOK, PollOK, CursorInv, [Next]_vars
  PROVE  FileOK'
<1>1. CASE UNCHANGED file
  BY <1>1 DEF FileOK, file
<1>2. CASE SaveBlock
  BY <1>2, ValueOf DEF SaveBlock, FileOK, PollOK, Flag
<1>3. CASE DoneSave
  BY <1>3, ValueOf DEF DoneSave, FileOK, PollOK
<1>4. CASE DoneRename
  BY <1>4, ValueOf DEF DoneRename, FileOK, PollOK, CursorInv
<1>5. CASE DoneRewrite
  BY <1>5, ValueOf DEF DoneRewrite, FileOK, PollOK
<1>6. CASE FileError
  BY <1>6, ValueOf DEF FileError, FileOK
<1>7. CASE PowerFailure
  BY <1>7, ValueOf DEF PowerFailure, FileOK
<1>8. CASE Repair
  BY <1>8, ValueOf DEF Repair, FileOK
<1> QED
  BY <1>1, <1>2, <1>3, <1>4, <1>5, <1>6, <1>7, <1>8, FileFrame

LEMMA FlushedType ==
  ASSUME NEW S, SinksOK, Flushed(S)
  PROVE  SinksOK'
BY DEF Flushed, SinksOK

LEMMA PutType ==
  ASSUME NEW s \in Sink, NEW e \in Event, SinksOK, Put(s, e)
  PROVE  SinksOK'
BY DEF Put, SinksOK

LEMMA SinksStep ==
  ASSUME SinksOK, PollOK, CursorInv, [Next]_vars
  PROVE  SinksOK'
<1>1. CASE UNCHANGED sinks
  BY <1>1 DEF SinksOK, sinks
<1>2. CASE FlushBlock
  BY <1>2, FlushedType DEF FlushBlock
<1>3. CASE FlushBlockError
  BY <1>3, FlushedType DEF FlushBlockError
<1>4. CASE Finish
  BY <1>4, FlushedType DEF Finish
<1>5. CASE FinishError
  BY <1>5, FlushedType DEF FinishError
<1>6. CASE WriteBack
  BY <1>6, FlushedType DEF WriteBack, WrittenBack
<1>7. CASE WriteSink
  BY <1>7, PutType DEF WriteSink, CursorInv, PollOK, Sink
<1>8. CASE WriteError
  <2>1. snk \in Sink /\ at \in Event
    BY <1>8 DEF WriteError, CursorInv, PollOK, Sink
  <2> QED
    BY <1>1, <1>8, <2>1, PutType DEF WriteError
<1>9. CASE PowerFailure
  BY <1>9 DEF PowerFailure, Unflushed, SinksOK
<1> QED
  BY <1>1, <1>2, <1>3, <1>4, <1>5, <1>6, <1>7, <1>8, <1>9, SinksFrame

LEMMA ReturnType ==
  ASSUME Return
  PROVE  PollOK'
<1>1. 1 \in 1 .. NumSinks + 1 /\ 0 \in 0 .. Rows /\ 0 \in Position
  BY DEF Position
<1>2. <<0, Size>> \in Position \X (1 .. Size)
  BY DEF Position
<1> QED
  BY <1>1, <1>2 DEF Return, PollOK, PC, Flag

LEMMA ReadPastType ==
  ASSUME PollOK, ReadPast
  PROVE  PollOK'
<1>1. CASE Return
  BY <1>1, ReturnType
<1>2. CASE ~Return
  BY <1>2 DEF ReadPast, PollOK, PC, Flag, cursor
<1> QED
  BY <1>1, <1>2

LEMMA PollFrame ==
  ASSUME [Next]_vars
  PROVE  UNCHANGED <<pc, poll>> \/ Poll \/ Kill \/ PowerFailure
BY DEF Next, vars, poll, Produce, Rollover, Cancel, Restart, WriteBack, Repair

\* The row read next is a row of the target.
LEMMA RowAfterIsRow ==
  ASSUME TargetOK, PollOK, CursorInv, pc = "next", HasRow
  PROVE  /\ RowAfter(at) \in Event
         /\ RowAfter(at)[1] >= at[1]
BY DEF TargetOK, PollOK, CursorInv, HasRow, RowAfter, Event, Block, Position

LEMMA PollStep ==
  ASSUME TargetOK, FileOK, PollOK, CursorInv, [Next]_vars
  PROVE  PollOK'
<1>1. CASE UNCHANGED <<pc, poll>>
  BY <1>1 DEF PollOK, poll, cursor
<1>2. CASE Open
  <2>1. reg.pos \in Position /\ reg.flag \in Flag
    BY <1>2, ValueOf DEF Open, FileOK
  <2>2. 0 \in 0 .. Rows
    OBVIOUS
  <2>3. UNCHANGED <<at, hi, snk, done>>
    BY <1>2 DEF Open
  <2>4. pc' = "query" /\ mode' = reg.flag /\ last' = reg.pos /\ start' = reg.pos
    BY <1>2 DEF Open
  <2>5. gotRows' = FALSE /\ rows' = 0
    BY <1>2 DEF Open
  <2> QED
    BY <2>1, <2>2, <2>3, <2>4, <2>5 DEF PollOK, PC
<1>3. CASE Query
  <2>1. <<oldest - 1, Size>> \in Position \X (1 .. Size)
    BY DEF TargetOK, Position
  <2>2. <<last, Size>> \in Position \X (1 .. Size)
    BY DEF PollOK
  <2> QED
    BY <1>3, <2>1, <2>2 DEF Query, TargetOK, PollOK, PC
<1>4. CASE QueryError
  BY <1>4, ReadPastType DEF QueryError
<1>5. CASE InvalidOffset
  BY <1>5, ReadPastType DEF InvalidOffset
<1>6. CASE SkipRow
  BY <1>6, RowAfterIsRow DEF SkipRow, PollOK, Event, Block, Position
<1>7. CASE NextRow
  BY <1>7, RowAfterIsRow DEF NextRow, PollOK, PC, Event, Block, Position
<1>8. CASE SaveBlock
  BY <1>8 DEF SaveBlock, PollOK, PC, Flag, poll, cursor
<1>9. CASE FlushBlock
  BY <1>9 DEF FlushBlock, PollOK, PC, Flag, poll, cursor
<1>10. CASE DropRow
  BY <1>10 DEF DropRow, Handling, PollOK, PC, Flag, poll, cursor
<1>11. CASE StopAtRow
  BY <1>11 DEF StopAtRow, Handling, PollOK, PC, Flag, poll, cursor
<1>12. CASE AcceptRow
  BY <1>12 DEF AcceptRow, Handling, PollOK, PC, Flag, poll, cursor
<1>13. CASE WriteSink
  BY <1>13 DEF WriteSink, PollOK, PC, Flag, poll, cursor
<1>14. CASE RowWritten
  BY <1>14 DEF RowWritten, PollOK, PC, Flag, poll, cursor
<1>15. CASE EndOfRows
  BY <1>15 DEF EndOfRows, PollOK, PC, Flag, poll, cursor
<1>16. CASE Finish
  BY <1>16 DEF Finish, PollOK, PC, Flag, poll, cursor
<1>17. CASE DoneSave
  BY <1>17 DEF DoneSave, PollOK, PC, Flag, poll, cursor
<1>18. CASE DoneRename
  BY <1>18 DEF DoneRename, PollOK, PC, Flag, poll, cursor
<1>19. CASE FlushBlockError
  BY <1>19, ReturnType DEF FlushBlockError
<1>20. CASE WriteError
  BY <1>20, ReturnType DEF WriteError
<1>21. CASE RowsError
  BY <1>21, ReturnType DEF RowsError
<1>22. CASE NothingRead
  BY <1>22, ReturnType DEF NothingRead
<1>23. CASE FinishError
  BY <1>23, ReturnType DEF FinishError
<1>24. CASE DoneRewrite
  BY <1>24, ReturnType DEF DoneRewrite
<1>25. CASE FileError
  BY <1>25, ReturnType DEF FileError
<1>26. CASE Kill
  BY <1>26, ReturnType DEF Kill
<1>27. CASE PowerFailure
  BY <1>27, ReturnType DEF PowerFailure
<1> QED
  BY <1>1, <1>2, <1>3, <1>4, <1>5, <1>6, <1>7, <1>8, <1>9, <1>10, <1>11, <1>12,
     <1>13, <1>14, <1>15, <1>16, <1>17, <1>18, <1>19, <1>20, <1>21, <1>22,
     <1>23, <1>24, <1>25, <1>26, <1>27,
     PollFrame DEF Poll


LEMMA HistoryStep ==
  ASSUME HistoryOK, PollOK, TargetOK, CursorInv, [Next]_vars
  PROVE  HistoryOK' /\ passed \subseteq passed'
<1>1. cancelled' \in BOOLEAN
  BY DEF HistoryOK, Next, Poll, vars, Handling, Open, Query, QueryError,
     SkipRow, NextRow, SaveBlock, FlushBlock,
         FlushBlockError, DropRow, StopAtRow, AcceptRow,
         WriteSink, RowWritten, WriteError, EndOfRows,
         InvalidOffset, RowsError, NothingRead, Finish,
         FinishError, DoneSave, DoneRename, DoneRewrite,
         FileError, Produce, Rollover, Cancel, Restart, Kill,
         PowerFailure, WriteBack, Repair
<1>2. faults' \in 0 .. MaxFaults
  BY DEF HistoryOK, Fault, Next, Poll, vars, Handling, Open, Query, QueryError,
     SkipRow, NextRow, SaveBlock, FlushBlock,
         FlushBlockError, DropRow, StopAtRow, AcceptRow,
         WriteSink, RowWritten, WriteError, EndOfRows,
         InvalidOffset, RowsError, NothingRead, Finish,
         FinishError, DoneSave, DoneRename, DoneRewrite,
         FileError, Produce, Rollover, Cancel, Restart, Kill,
         PowerFailure, WriteBack, Repair
<1>3. passed' \in SUBSET Event /\ passed \subseteq passed'
  <2>1. CASE SkipRow
    BY <2>1, RowAfterIsRow DEF SkipRow, HistoryOK
  <2>2. CASE StopAtRow
    BY <2>2 DEF StopAtRow, HistoryOK, RestOf, Wanted
  <2>3. CASE InvalidOffset
    BY <2>3 DEF InvalidOffset, HistoryOK, RestOf, Wanted
  <2>4. UNCHANGED passed \/ SkipRow \/ StopAtRow \/ InvalidOffset
    BY DEF Next, Poll, vars, Handling, Open, Query, QueryError, SkipRow,
       NextRow, SaveBlock, FlushBlock,
         FlushBlockError, DropRow, StopAtRow, AcceptRow,
         WriteSink, RowWritten, WriteError, EndOfRows,
         InvalidOffset, RowsError, NothingRead, Finish,
         FinishError, DoneSave, DoneRename, DoneRewrite,
         FileError, Produce, Rollover, Cancel, Restart, Kill,
         PowerFailure, WriteBack, Repair
  <2> QED
    BY <2>1, <2>2, <2>3, <2>4 DEF HistoryOK
<1> QED
  BY <1>1, <1>2, <1>3 DEF HistoryOK

LEMMA TypeStep ==
  ASSUME TypeOK, CursorInv, [Next]_vars
  PROVE  TypeOK'
BY TargetStep, FileStep, SinksStep, PollStep, HistoryStep DEF TypeOK

(***************************************************************************)
(* What is accounted for stays accounted for.                              *)
(***************************************************************************)
LEMMA HandedGrows ==
  ASSUME SinksOK, PollOK, CursorInv, [Next]_vars
  PROVE  \A s \in Sink : handed[s] \subseteq handed'[s]
<1>1. CASE UNCHANGED handed
  BY <1>1
<1>2. CASE \E s \in Sink, e \in Event : Put(s, e)
  BY <1>2 DEF Put, SinksOK
<1>3. UNCHANGED handed \/ WriteSink \/ WriteError
  BY SinksFrame DEF sinks, FlushBlock, FlushBlockError, Finish, FinishError,
                    WriteBack, WrittenBack, PowerFailure, Unflushed, Flushed
<1>4. WriteSink => Put(snk, at) /\ snk \in Sink /\ at \in Event
  BY DEF WriteSink, CursorInv, PollOK, Sink
<1>5. WriteError => (Put(snk, at) \/ UNCHANGED handed) /\ snk \in Sink /\ at \in Event
  BY DEF WriteError, CursorInv, PollOK, Sink, sinks
<1> QED
  BY <1>1, <1>2, <1>3, <1>4, <1>5

LEMMA AccountedStable ==
  ASSUME TypeOK, CursorInv, [Next]_vars
  PROVE  \A e \in Event : Accounted(e) => Accounted(e)'
<1>1. oldest \in Nat /\ oldest' \in Nat /\ oldest' >= oldest
  BY TargetStep DEF TypeOK, TargetOK
<1>2. passed \subseteq passed'
  BY HistoryStep DEF TypeOK
<1>3. \A s \in Sink : handed[s] \subseteq handed'[s]
  BY HandedGrows DEF TypeOK
<1>4. \A e \in Event : e[1] \in Nat
  BY DEF Event, Block
<1> QED
  BY <1>1, <1>2, <1>3, <1>4 DEF Accounted

(***************************************************************************)
(* The position in hand.                                                   *)
(***************************************************************************)
LEMMA CursorStep ==
  ASSUME TypeOK, CursorInv, [Next]_vars
  PROVE  CursorInv'
<1> USE DEF InLoop
<1>a. oldest \in Nat /\ last \in Nat /\ at[1] \in Nat /\ at[2] \in Nat
  BY DEF TypeOK, TargetOK, PollOK, Position
<1>0. CASE UNCHANGED <<pc, poll>>
  <2>1. UNCHANGED reg \/ pc # "rename"
    BY <1>0, FileFrame DEF file, SaveBlock, DoneSave, DoneRename, DoneRewrite,
       FileError, PowerFailure, Repair, Return
  <2> QED
    BY <1>0, <2>1 DEF CursorInv, poll, cursor
<1>1. CASE pc' = "idle"
  BY <1>1 DEF CursorInv
<1>2. CASE pc' = "done"
  BY <1>2 DEF CursorInv
<1>3. CASE Open
  BY <1>3 DEF Open, CursorInv
<1>4. CASE Query
  BY <1>4, <1>a DEF Query, CursorInv
<1>5. CASE SkipRow
  BY <1>5, <1>a, RowAfterIsRow DEF SkipRow, CursorInv, TypeOK, Event, Block
<1>6. CASE NextRow
  BY <1>6, <1>a, RowAfterIsRow DEF NextRow, CursorInv, TypeOK, Event, Block
<1>7. CASE SaveBlock
  BY <1>7 DEF SaveBlock, CursorInv, poll, cursor
<1>8. CASE FlushBlock
  BY <1>8, <1>a DEF FlushBlock, CursorInv, poll, cursor
<1>9. CASE DropRow
  BY <1>9, <1>a DEF DropRow, Handling, CursorInv
<1>10. CASE StopAtRow
  BY <1>10, <1>a DEF StopAtRow, Handling, CursorInv
<1>11. CASE AcceptRow
  BY <1>11, <1>a DEF AcceptRow, Handling, CursorInv
<1>12. CASE WriteSink
  BY <1>12 DEF WriteSink, CursorInv, cursor
<1>13. CASE RowWritten
  BY <1>13 DEF RowWritten, CursorInv
<1>14. CASE EndOfRows
  BY <1>14 DEF EndOfRows, CursorInv, poll, cursor
<1>15. CASE DoneSave
  BY <1>15 DEF DoneSave, CursorInv, poll, cursor
<1>16. CASE DoneRename
  BY <1>16 DEF DoneRename, CursorInv
<1> QED
  BY <1>0, <1>1, <1>2, <1>3, <1>4, <1>5, <1>6, <1>7, <1>8, <1>9, <1>10, <1>11,
     <1>12, <1>13, <1>14, <1>15, <1>16, PollFrame
     DEF Poll, QueryError, InvalidOffset, ReadPast, Return, FlushBlockError,
         WriteError, RowsError, NothingRead, Finish, FinishError, DoneRewrite,
         FileError, Kill, PowerFailure

(***************************************************************************)
(* What has been read is accounted for.                                    *)
(***************************************************************************)
LEMMA EventNumbers ==
  \A e \in Event : /\ e[1] \in Nat /\ e[2] \in Nat
                   /\ 1 <= e[1] /\ 1 <= e[2] /\ e[2] <= Size
                   /\ e = <<e[1], e[2]>>
BY DEF Event, Block

\* Everything before the row after the one in hand is accounted for: the row
\* in hand was, and blocks that are jumped over no longer exist.
LEMMA BeforeNextRow ==
  ASSUME TypeOK, CursorInv, ReadInv, pc = "next"
  PROVE  \A e \in RowsBefore(RowAfter(at)) : Accounted(e)
<1> SUFFICES ASSUME NEW e \in Event, e \in RowsBefore(RowAfter(at))
             PROVE  Accounted(e)
  BY DEF RowsBefore
<1>1. /\ oldest \in Nat /\ at[1] \in Nat /\ at[2] \in Nat /\ at[2] <= Size
      /\ at = <<at[1], at[2]>>
  BY DEF TypeOK, TargetOK, PollOK, Position
<1>2. CASE e \in RowsBefore(at)
  BY <1>2 DEF ReadInv, InLoop
<1>3. CASE e = at
  BY <1>3 DEF ReadInv
<1>4. CASE e[1] < oldest
  BY <1>4 DEF Accounted
<1>5. e \in RowsBefore(at) \/ e = at \/ e[1] < oldest
  BY <1>1, EventNumbers DEF RowsBefore, RowAfter
<1> QED
  BY <1>2, <1>3, <1>4, <1>5

\* A position before the row in hand is done.
LEMMA BehindRow ==
  ASSUME TypeOK, ReadInv, InLoop, NEW p \in Nat, p < at[1]
  PROVE  DoneThrough(p)
<1>1. at[1] \in Nat
  BY DEF TypeOK, PollOK, Position
<1>2. \A e \in UpTo(p) : e \in RowsBefore(at)
  BY <1>1, EventNumbers DEF UpTo, RowsBefore
<1> QED
  BY <1>2 DEF ReadInv, DoneThrough

\* So is the position of the row in hand, but for the rest of its block.
LEMMA AtRow ==
  ASSUME TypeOK, ReadInv, InLoop, NEW p \in Nat, p <= at[1],
         at \in Event => Accounted(at)
  PROVE  \A e \in UpTo(p) : Accounted(e) \/ e \in RestOf(at)
<1> SUFFICES ASSUME NEW e \in UpTo(p) PROVE Accounted(e) \/ e \in RestOf(at)
  OBVIOUS
<1>0. /\ at[1] \in Nat /\ at[2] \in Nat
      /\ at = <<at[1], at[2]>>
  BY DEF TypeOK, PollOK, Position
<1>1. e \in Event
  BY DEF UpTo
<1>2. CASE e \in RowsBefore(at)
  BY <1>2 DEF ReadInv
<1>3. CASE e = at
  BY <1>1, <1>3
<1>4. CASE e[1] = at[1] /\ e[2] > at[2]
  BY <1>1, <1>4 DEF RestOf, Accounted
<1>5. e \in RowsBefore(at) \/ e = at \/ (e[1] = at[1] /\ e[2] > at[2])
  BY <1>0, <1>1, EventNumbers DEF UpTo, RowsBefore
<1> QED
  BY <1>2, <1>3, <1>4, <1>5

LEMMA DoneStable ==
  ASSUME TypeOK, CursorInv, [Next]_vars
  PROVE  /\ DoneThrough(last) /\ UNCHANGED last => DoneThrough(last)'
         /\ DoneThrough(start) /\ UNCHANGED start => DoneThrough(start)'
BY AccountedStable DEF DoneThrough, UpTo

\* The rows of the target are read in order, and each is written, dropped,
\* or given up, before the next.
LEMMA RowsStep ==
  ASSUME TypeOK, CursorInv, ReadInv, [Next]_vars
  PROVE  InLoop' => (\A e \in RowsBefore(at) : Accounted(e))'
<1>1. CASE UNCHANGED at /\ InLoop
  BY <1>1, AccountedStable DEF ReadInv, RowsBefore
<1>2. CASE at' = RowAfter(at) /\ pc = "next"
  <2>1. \A e \in RowsBefore(RowAfter(at)) : Accounted(e)
    BY <1>2, BeforeNextRow
  <2> QED
    BY <1>2, <2>1, AccountedStable DEF RowsBefore
<1>3. CASE Query
  <2>0. oldest \in Nat /\ last \in Nat /\ last = start /\ UNCHANGED oldest
    BY <1>3 DEF Query, TypeOK, TargetOK, PollOK, Position, CursorInv, target
  <2>1. CASE at' = <<oldest - 1, Size>>
    <3>1. \A e \in RowsBefore(at)' : e[1] < oldest
      BY <2>0, <2>1, EventNumbers DEF RowsBefore
    <3>2. \A e \in RowsBefore(at)' : Accounted(e)
      BY <3>1 DEF Accounted
    <3> QED
      BY <3>2, AccountedStable DEF RowsBefore
  <2>2. CASE at' = <<last, Size>>
    <3>1. \A e \in RowsBefore(at)' : e \in UpTo(start)
      BY <2>0, <2>2, EventNumbers DEF RowsBefore, UpTo
    <3>2. \A e \in RowsBefore(at)' : Accounted(e)
      BY <3>1 DEF ReadInv, DoneThrough
    <3> QED
      BY <3>2, AccountedStable DEF RowsBefore
  <2> QED
    BY <1>3, <2>1, <2>2 DEF Query
<1>4. InLoop' => \/ UNCHANGED at /\ InLoop
                 \/ at' = RowAfter(at) /\ pc = "next"
                 \/ Query
  BY DEF InLoop, Next, Poll, vars, Handling, ReadPast, Return, poll, cursor,
         Open, QueryError, SkipRow, NextRow, SaveBlock, FlushBlock,
         FlushBlockError, DropRow, StopAtRow, AcceptRow,
         WriteSink, RowWritten, WriteError, EndOfRows,
         InvalidOffset, RowsError, NothingRead, Finish,
         FinishError, DoneSave, DoneRename, DoneRewrite,
         FileError, Produce, Rollover, Cancel, Restart, Kill,
         PowerFailure, WriteBack, Repair
<1> QED
  BY <1>1, <1>2, <1>3, <1>4

\* A poll starts from a position that is done.
LEMMA StartStep ==
  ASSUME TypeOK, CursorInv, ReadInv, NoGap, [Next]_vars
  PROVE  DoneThrough(start)'
<1>1. CASE UNCHANGED start
  BY <1>1, DoneStable DEF ReadInv
<1>2. CASE Open
  <2>1. start' = reg.pos
    BY <1>2 DEF Open
  <2>2. \A e \in UpTo(reg.pos) : Accounted(e)
    BY DEF NoGap
  <2> QED
    BY <2>1, <2>2, AccountedStable DEF DoneThrough, UpTo
<1>3. CASE start' = 0
  BY <1>3, EventNumbers DEF DoneThrough, UpTo
<1>4. UNCHANGED start \/ Open \/ start' = 0
  BY PollFrame DEF Poll, Return, poll, cursor, Handling, ReadPast, Query,
     QueryError, SkipRow, NextRow, SaveBlock, FlushBlock, FlushBlockError,
     DropRow, StopAtRow, AcceptRow, WriteSink, RowWritten, WriteError,
     EndOfRows, InvalidOffset, RowsError, NothingRead, Finish, FinishError,
     DoneSave, DoneRename, DoneRewrite, FileError, Kill, PowerFailure
<1> QED
  BY <1>1, <1>2, <1>3, <1>4

\* A row is left behind only when no sink is owed it.
LEMMA RowStep ==
  ASSUME TypeOK, CursorInv, ReadInv, [Next]_vars, pc' = "next", at' \in Event
  PROVE  Accounted(at)'
<1>1. CASE pc = "next" /\ UNCHANGED at
  BY <1>1, AccountedStable DEF ReadInv
<1>2. CASE Query
  <2>1. at'[1] < oldest \/ at'[1] <= start
    BY <1>2 DEF Query, TypeOK, TargetOK, PollOK, Position, CursorInv
  <2>2. Accounted(at')
    BY <2>1 DEF Accounted, ReadInv, DoneThrough, UpTo
  <2> QED
    BY <2>2, AccountedStable
<1>3. CASE SkipRow
  <2>1. at' = RowAfter(at)
    BY <1>3 DEF SkipRow
  <2>2. at'[1] \in Nat /\ start \in Nat
    BY EventNumbers DEF TypeOK, PollOK, Position
  <2>3. CASE at'[1] <= start
    <3>1. Accounted(at')
      BY <2>3 DEF ReadInv, DoneThrough, UpTo
    <3> QED
      BY <3>1, AccountedStable
  <2>4. CASE at'[1] > start
    <3>1. at' \notin Wanted \/ at' \in passed'
      BY <1>3, <2>1, <2>4 DEF SkipRow
    <3> QED
      BY <3>1 DEF Accounted
  <2> QED
    BY <2>2, <2>3, <2>4
<1>4. CASE DropRow
  BY <1>4 DEF DropRow, Handling, Accounted, Wanted
<1>5. CASE RowWritten
  <2>1. \A s \in Sink : at \in handed[s]
    BY <1>5 DEF RowWritten, ReadInv, TypeOK, PollOK, Sink
  <2>2. Accounted(at) /\ UNCHANGED at
    BY <1>5, <2>1 DEF Accounted, RowWritten
  <2> QED
    BY <2>2, AccountedStable
<1>6. \/ pc = "next" /\ UNCHANGED at
      \/ Query \/ SkipRow \/ DropRow \/ RowWritten
  BY PollFrame DEF Poll, Return, poll, cursor, Handling, ReadPast, Open,
     QueryError, NextRow, SaveBlock, FlushBlock, FlushBlockError,
     StopAtRow, AcceptRow, WriteSink, WriteError,
     EndOfRows, InvalidOffset, RowsError, NothingRead, Finish, FinishError,
     DoneSave, DoneRename, DoneRewrite, FileError, Kill, PowerFailure
<1> QED
  BY <1>1, <1>2, <1>3, <1>4, <1>5, <1>6

\* The sinks are served in order.
LEMMA WriteStep ==
  ASSUME TypeOK, CursorInv, ReadInv, [Next]_vars, pc' = "write"
  PROVE  (\A s \in 1 .. snk - 1 : at \in handed[s])'
<1>1. CASE UNCHANGED <<pc, snk, at>>
  <2>1. \A s \in 1 .. snk - 1 : s \in Sink
    BY DEF TypeOK, PollOK, Sink
  <2> QED
    BY <1>1, <2>1, HandedGrows DEF ReadInv, TypeOK
<1>2. CASE AcceptRow
  BY <1>2 DEF AcceptRow
<1>3. CASE WriteSink
  <2>1. snk \in Sink /\ UNCHANGED at /\ snk' = snk + 1
    BY <1>3 DEF WriteSink, TypeOK, PollOK, Sink, cursor
  <2>2. handed' = [handed EXCEPT ![snk] = @ \cup {at}]
    BY <1>3 DEF WriteSink, Put
  <2>3. \A s \in 1 .. snk : s \in Sink
    BY <2>1 DEF Sink
  <2>4. \A s \in 1 .. snk - 1 : at \in handed[s]
    BY <1>3 DEF WriteSink, ReadInv
  <2>5. \A s \in 1 .. snk : at \in handed'[s]
    BY <2>1, <2>2, <2>3, <2>4 DEF TypeOK, SinksOK, Sink
  <2> QED
    BY <2>1, <2>5 DEF Sink
<1>4. UNCHANGED <<pc, snk, at>> \/ AcceptRow \/ WriteSink
  BY PollFrame DEF Poll, Return, poll, cursor, Handling, ReadPast, Open,
     Query, SkipRow, DropRow, RowWritten,
     QueryError, NextRow, SaveBlock, FlushBlock, FlushBlockError,
     StopAtRow, WriteError,
     EndOfRows, InvalidOffset, RowsError, NothingRead, Finish, FinishError,
     DoneSave, DoneRename, DoneRewrite, FileError, Kill, PowerFailure
<1> QED
  BY <1>1, <1>2, <1>3, <1>4

\* What the sinks had at the end of the loop, or when the position is given
\* up, covers the position about to be saved.
LEMMA EndStep ==
  ASSUME TypeOK, CursorInv, ReadInv, [Next]_vars,
         \/ pc' = "end" /\ gotRows'
         \/ pc' \in {"done", "rename", "rewrite"}
  PROVE  DoneThrough(last)'
<1>0. last \in Nat /\ at[1] \in Nat /\ at[2] \in Nat
  BY DEF TypeOK, PollOK, Position
<1>1. CASE DoneThrough(last) /\ UNCHANGED last
  BY <1>1, DoneStable
<1>2. CASE FlushBlock
  <2>1. UNCHANGED last /\ last < at[1] /\ InLoop
    BY <1>2 DEF FlushBlock, CursorInv, poll, cursor, InLoop
  <2> QED
    BY <2>1, <1>0, <1>1, BehindRow
<1>3. CASE StopAtRow
  <2>1. last' = at[1] /\ InLoop /\ Accounted(at)
    BY <1>3 DEF StopAtRow, Handling, InLoop, Accounted, Wanted
  <2>2. \A e \in RestOf(at) : Accounted(e)'
    BY <1>3 DEF StopAtRow, Accounted
  <2>3. \A e \in UpTo(at[1]) : Accounted(e) \/ e \in RestOf(at)
    BY <1>0, <2>1, AtRow
  <2>4. \A e \in UpTo(at[1]) : Accounted(e)'
    BY <2>2, <2>3, AccountedStable DEF UpTo
  <2> QED
    BY <2>1, <2>4 DEF DoneThrough, UpTo
<1>4. CASE EndOfRows
  <2>1. UNCHANGED <<last, gotRows>> /\ InLoop /\ pc = "next" /\ at[2] = Size /\ pc' = "end"
    BY <1>4 DEF EndOfRows, poll, cursor, InLoop
  <2>2. last <= at[1]
    BY <2>1 DEF CursorInv
  <2>3. RestOf(at) = {}
    BY <2>1, EventNumbers DEF RestOf, Wanted
  <2>4. DoneThrough(last)
    BY <1>0, <2>1, <2>2, <2>3, AtRow DEF ReadInv, DoneThrough
  <2> QED
    BY <2>1, <2>4, <1>1
<1>5. CASE QueryError
  <2>1. UNCHANGED last /\ last = start
    BY <1>5 DEF QueryError, ReadPast, Return, cursor, CursorInv
  <2> QED
    BY <2>1, <1>1 DEF ReadInv
<1>6. CASE InvalidOffset
  <2>1. UNCHANGED last /\ InLoop /\ pc = "next"
    BY <1>6 DEF InvalidOffset, ReadPast, Return, cursor, InLoop
  <2>2. CASE ~gotRows
    BY <2>1, <2>2, <1>1 DEF ReadInv, CursorInv
  <2>3. CASE gotRows
    <3>1. last <= at[1]
      BY <2>1, <2>3 DEF CursorInv
    <3>2. \A e \in RestOf(at) : Accounted(e)'
      BY <1>6, <2>3 DEF InvalidOffset, Accounted
    <3>3. \A e \in UpTo(last) : Accounted(e) \/ e \in RestOf(at)
      BY <1>0, <2>1, <3>1, AtRow DEF ReadInv
    <3>4. \A e \in UpTo(last) : Accounted(e)'
      BY <3>2, <3>3, AccountedStable DEF UpTo
    <3> QED
      BY <2>1, <3>4 DEF DoneThrough, UpTo
  <2> QED
    BY <2>2, <2>3
<1>7. \/ DoneThrough(last) /\ UNCHANGED last
      \/ FlushBlock \/ StopAtRow \/ EndOfRows \/ QueryError \/ InvalidOffset
  BY PollFrame DEF Poll, Return, poll, cursor, Handling, ReadInv, Open,
     Query, SkipRow, NextRow, SaveBlock, FlushBlockError, DropRow, AcceptRow,
     WriteSink, RowWritten, WriteError, RowsError, NothingRead, Finish,
     FinishError, DoneSave, DoneRename, DoneRewrite, FileError, Kill,
     PowerFailure
<1> QED
  BY <1>1, <1>2, <1>3, <1>4, <1>5, <1>6, <1>7

LEMMA ReadStep ==
  ASSUME TypeOK, CursorInv, ReadInv, NoGap, [Next]_vars
  PROVE  ReadInv'
BY StartStep, RowsStep, RowStep, WriteStep, EndStep DEF ReadInv

(***************************************************************************)
(* The files never hold a position that is not done.                       *)
(***************************************************************************)
LEMMA GapStep ==
  ASSUME TypeOK, CursorInv, ReadInv, NoGap, [Next]_vars
  PROVE  NoGap'
<1> DEFINE Done(p) == \A e \in UpTo(p) : Accounted(e)'
<1>1. Done(reg.pos) /\ Done(spare.pos) /\ Done(0)
  BY AccountedStable, EventNumbers DEF NoGap, UpTo
<1>2. pc \in {"save", "done", "rewrite"} => Done(last)
  <2>1. CASE pc = "save"
    <3>1. last \in Nat /\ last < at[1] /\ InLoop
      BY <2>1 DEF CursorInv, InLoop, TypeOK, PollOK, Position
    <3> QED
      BY <3>1, BehindRow, AccountedStable DEF DoneThrough, UpTo
  <2>2. CASE pc \in {"done", "rewrite"}
    BY <2>2, AccountedStable DEF ReadInv, DoneThrough, UpTo
  <2> QED
    BY <2>1, <2>2
<1>3. /\ \/ reg'.pos \in {0, reg.pos, spare.pos}
         \/ reg'.pos = last /\ pc \in {"save", "done", "rewrite"}
      /\ spare'.pos \in {reg.pos, spare.pos}
  <2>1. CASE SaveBlock \/ DoneSave \/ DoneRewrite
    BY <2>1 DEF SaveBlock, DoneSave, DoneRewrite
  <2>2. CASE DoneRename
    BY <2>2 DEF DoneRename, Fresh
  <2>3. CASE FileError \/ PowerFailure
    <3>1. reg' \in {reg, Unreadable} /\ UNCHANGED spare
      BY <2>3 DEF FileError, PowerFailure
    <3> QED
      BY <3>1 DEF Unreadable
  <2>4. CASE Repair
    <3>1. reg' \in {spare, Fresh} /\ UNCHANGED spare
      BY <2>4 DEF Repair
    <3> QED
      BY <3>1 DEF Fresh
  <2>5. CASE UNCHANGED file
    BY <2>5 DEF file
  <2> QED
    BY <2>1, <2>2, <2>3, <2>4, <2>5, FileFrame
<1>4. Done(reg'.pos) /\ Done(spare'.pos)
  BY <1>1, <1>2, <1>3
<1> QED
  BY <1>4 DEF NoGap, UpTo

(***************************************************************************)
(* The saved position against the variables of the poll.                   *)
(***************************************************************************)
LEMMA FaultsFrame ==
  ASSUME [Next]_vars
  PROVE  UNCHANGED faults \/ Fault
BY DEF Next, Poll, vars, Handling, Open, Query, QueryError, SkipRow, NextRow,
   SaveBlock, FlushBlock, FlushBlockError, DropRow, StopAtRow, AcceptRow,
   WriteSink, RowWritten, WriteError, EndOfRows, InvalidOffset, RowsError,
   NothingRead, Finish, FinishError, DoneSave, DoneRename, DoneRewrite,
   FileError, Produce, Rollover, Cancel, Restart, Kill, PowerFailure,
   WriteBack, Repair

\* A history without faults had none before its last step.
LEMMA NoFaultBefore ==
  ASSUME HistoryOK, [Next]_vars, faults' = 0
  PROVE  faults = 0 /\ ~Fault
BY FaultsFrame DEF HistoryOK, Fault

\* The steps a poll takes without ending.
LEMMA PollSteps ==
  ASSUME [Next]_vars
  PROVE  \/ UNCHANGED <<pc, poll>>
         \/ Open \/ Query \/ SkipRow \/ NextRow \/ SaveBlock \/ FlushBlock
         \/ DropRow \/ StopAtRow \/ AcceptRow \/ WriteSink \/ RowWritten
         \/ EndOfRows \/ Finish \/ DoneSave \/ DoneRename
         \/ Return
         \/ QueryError /\ ~Return
         \/ InvalidOffset /\ ~Return
BY PollFrame DEF Poll, FlushBlockError, WriteError, RowsError, NothingRead,
   FinishError, DoneRewrite, FileError, Kill, PowerFailure

LEMMA UnreadableOnlyByFault ==
  ASSUME TypeOK, RegInv, [Next]_vars, faults' = 0
  PROVE  reg' # Unreadable
<1>0. faults = 0 /\ ~Fault /\ reg # Unreadable
  BY NoFaultBefore DEF TypeOK, RegInv
<1>1. \A v \in Value : v # Unreadable
  BY DEF Value, Unreadable, Flag
<1>2. reg' \in Value \/ UNCHANGED reg
  BY <1>0, FileFrame, ValueOf DEF file, SaveBlock, DoneSave, DoneRename,
     DoneRewrite, FileError, PowerFailure, Repair, TypeOK, FileOK, PollOK, Flag
<1> QED
  BY <1>0, <1>1, <1>2

LEMMA RegStep ==
  ASSUME TypeOK, CursorInv, RegInv, [Next]_vars
  PROVE  RegInv'
<1> USE DEF InLoop
<1>0. /\ last \in Nat /\ at[1] \in Nat /\ at[2] \in Nat /\ oldest \in Nat
      /\ reg.pos \in Nat
  BY ValueOf DEF TypeOK, TargetOK, FileOK, PollOK, Position
<1>a. (faults = 0 => reg # Unreadable)'
  BY UnreadableOnlyByFault
<1>1. CASE UNCHANGED <<pc, poll>>
  <2>1. UNCHANGED reg \/ pc \in {"idle", "save", "done", "rename", "rewrite"}
    BY <1>1, FileFrame DEF file, SaveBlock, DoneSave, DoneRename, DoneRewrite,
       FileError, PowerFailure, Repair, Return
  <2>2. UNCHANGED reg \/ pc = "idle"
    BY <1>1, FileFrame DEF file, SaveBlock, DoneSave, DoneRename, DoneRewrite,
       FileError, PowerFailure, Repair, Return
  <2> QED
    BY <1>a, <1>1, <2>2 DEF RegInv, poll, cursor
<1>2. CASE Return
  BY <1>a, <1>2 DEF Return, RegInv
<1>3. CASE Open
  <2>1. reg = [pos |-> reg.pos, flag |-> reg.flag]
    BY <1>3 DEF Open, TypeOK, FileOK, Value
  <2> QED
    BY <1>a, <1>3, <2>1 DEF Open, RegInv, file
<1>4. CASE Query
  <2>1. UNCHANGED <<reg, last, mode, gotRows>> /\ pc = "query" /\ pc' = "next"
    BY <1>4 DEF Query, file
  <2>2. at' = <<last, Size>> \/ (at' = <<oldest - 1, Size>> /\ (last = 0 \/ mode = "reset"))
    BY <1>4 DEF Query, FromStart
  <2>3. at'[2] = Size /\ (at'[1] = last \/ last = 0 \/ mode = "reset")
    BY <2>2
  <2>4. oldest >= 1 /\ at'[1] \in Nat
    BY <1>0, <2>2 DEF TypeOK, TargetOK
  <2>5. mode = "good" => last <= at'[1]
    BY <1>0, <2>3, <2>4
  <2> QED
    BY <1>a, <1>0, <2>1, <2>3, <2>5 DEF RegInv, CursorInv
<1>5. CASE SkipRow
  BY <1>a, <1>5 DEF SkipRow, AlreadyHave, RegInv, file
<1>6. CASE NextRow
  <2>1. /\ RowAfter(at) \in Event /\ RowAfter(at)[1] \in Nat /\ RowAfter(at)[1] >= 1
        /\ RowAfter(at)[1] >= at[1]
    BY <1>6, RowAfterIsRow, EventNumbers DEF NextRow, TypeOK
  <2>2. CASE gotRows
    <3>1. UNCHANGED <<reg, last>> /\ gotRows' /\ pc' \in {"save", "event"} /\ pc = "next"
      BY <1>6, <2>2 DEF NextRow, file
    <3> QED
      BY <1>a, <2>2, <3>1 DEF RegInv
  <2>3. CASE ~gotRows
    <3>1. /\ UNCHANGED reg /\ last' = RowAfter(at)[1] /\ gotRows' /\ pc = "next"
          /\ pc' = "event" /\ ~AlreadyHave(RowAfter(at))
      BY <1>6, <2>3 DEF NextRow, file
    <3>2. mode = "good" => last <= RowAfter(at)[1]
      BY <1>0, <2>1, <2>3, <3>1 DEF RegInv
    <3>3. mode = "reset" => last <= RowAfter(at)[1]
      BY <1>0, <2>1, <3>1 DEF AlreadyHave
    <3>4. reg.pos = last /\ mode \in {"good", "reset"}
      BY <2>3, <3>1 DEF RegInv, TypeOK, PollOK, Flag
    <3> QED
      BY <1>a, <2>1, <3>1, <3>2, <3>3, <3>4 DEF RegInv
  <2> QED
    BY <2>2, <2>3 DEF TypeOK, PollOK
<1>7. CASE SaveBlock
  <2>1. reg'.pos = last /\ UNCHANGED <<last, gotRows>> /\ pc' = "flush" /\ pc = "save"
    BY <1>7 DEF SaveBlock, poll, cursor
  <2> QED
    BY <1>a, <1>0, <2>1 DEF RegInv, CursorInv
<1>8. CASE FlushBlock
  BY <1>a, <1>8 DEF FlushBlock, RegInv, CursorInv, file, poll, cursor
<1>9. CASE DropRow \/ StopAtRow \/ AcceptRow
  <2>1. /\ UNCHANGED <<reg, gotRows>> /\ last' = at[1] /\ pc = "event"
        /\ pc' \in {"next", "end", "write"}
    BY <1>9 DEF DropRow, StopAtRow, AcceptRow, Handling, file
  <2>2. gotRows /\ last > 0 /\ last <= at[1] /\ reg.pos <= last
    BY <2>1 DEF CursorInv, RegInv
  <2> QED
    BY <1>a, <1>0, <2>1, <2>2 DEF RegInv
<1>10. CASE WriteSink \/ RowWritten
  <2>1. /\ UNCHANGED <<reg, gotRows, last>> /\ pc = "write" /\ gotRows
        /\ pc' \in {"next", "write"}
    BY <1>10 DEF WriteSink, RowWritten, file, cursor, CursorInv
  <2> QED
    BY <1>a, <2>1 DEF RegInv
<1>11. CASE EndOfRows
  BY <1>a, <1>11 DEF EndOfRows, RegInv, file, poll, cursor
<1>12. CASE Finish
  BY <1>a, <1>12 DEF Finish, RegInv, file, cursor
<1>13. CASE DoneSave
  BY <1>a, <1>13 DEF DoneSave, RegInv, poll, cursor
<1>14. CASE DoneRename
  BY <1>a, <1>14 DEF DoneRename, RegInv, poll, cursor
<1>15. CASE (QueryError \/ InvalidOffset) /\ ~Return
  <2>1. UNCHANGED <<reg, last, gotRows, mode>> /\ pc' = "done" /\ pc \in {"query", "next"}
    BY <1>15 DEF QueryError, InvalidOffset, ReadPast, file, cursor
  <2> QED
    BY <1>0, <1>a, <2>1 DEF RegInv
<1> QED
  BY <1>1, <1>2, <1>3, <1>4, <1>5, <1>6, <1>7, <1>8, <1>9, <1>10, <1>11, <1>12,
     <1>13, <1>14, <1>15, PollSteps

(***************************************************************************)
(* What a power failure can take.                                          *)
(***************************************************************************)

\* Nothing becomes pending but the row in hand; a flush leaves nothing.
LEMMA PendingStep ==
  ASSUME TypeOK, [Next]_vars, NEW s \in Sink
  PROVE  /\ \/ pend'[s] \subseteq pend[s]
            \/ WriteSink /\ pend'[s] \subseteq pend[s] \cup {at}
            \/ WriteError
         /\ FlushBlock \/ Finish => pend'[s] = {}
<1>1. CASE UNCHANGED sinks
  BY <1>1 DEF sinks, FlushBlock, Finish, Flushed
<1>2. CASE \E S \in SUBSET Sink : Flushed(S)
  BY <1>2 DEF Flushed, FlushBlock, Finish
<1>3. CASE WriteSink
  <2>1. snk \in Sink /\ ~FlushBlock /\ ~Finish
    BY <1>3 DEF WriteSink, FlushBlock, Finish, TypeOK, PollOK, Sink
  <2> QED
    BY <1>3, <2>1 DEF WriteSink, Put, TypeOK, SinksOK
<1>4. CASE WriteError
  BY <1>4 DEF WriteError, FlushBlock, Finish
<1>5. CASE PowerFailure
  BY <1>5 DEF PowerFailure, Unflushed, FlushBlock, Finish, Flushed
<1>6. CASE FlushBlock \/ FlushBlockError \/ Finish \/ FinishError \/ WriteBack
  <2>1. \E S \in SUBSET Sink : Flushed(S)
    <3>1. FlushBlock \/ Finish => Flushed(Sink)
      BY DEF FlushBlock, Finish
    <3>2. FlushBlockError => \E s1 \in FileSinks : Flushed(1 .. s1 - 1) /\ 1 .. s1 - 1 \subseteq Sink
      BY DEF FlushBlockError, Sink
    <3>3. FinishError => \E S \in SUBSET Sink : Flushed(S)
      BY DEF FinishError
    <3>4. WriteBack => \E s1 \in FileSinks : Flushed({s1}) /\ {s1} \subseteq Sink
      BY DEF WriteBack, WrittenBack
    <3> QED
      BY <1>6, <3>1, <3>2, <3>3, <3>4
  <2> QED
    BY <1>2, <2>1
<1> QED
  BY <1>1, <1>3, <1>4, <1>5, <1>6, SinksFrame

\* A checkpoint begins with a flush, and nothing is written before it ends.
LEMMA CheckpointStep ==
  ASSUME TypeOK, CheckpointFlushed, [Next]_vars
  PROVE  CheckpointFlushed'
<1> SUFFICES ASSUME pc' \in {"done", "rename", "rewrite"}, done' = "good",
                    NEW s \in Sink
             PROVE  pend'[s] = {}
  BY DEF CheckpointFlushed
<1>1. CASE Finish
  BY <1>1, PendingStep
<1>2. CASE UNCHANGED <<pc, poll>> \/ DoneSave \/ DoneRename
  <2>1. pend[s] = {}
    BY <1>2 DEF CheckpointFlushed, DoneSave, DoneRename, poll
  <2>2. ~WriteSink /\ ~WriteError
    BY <1>2 DEF WriteSink, WriteError, Return, DoneSave, DoneRename, poll
  <2> QED
    BY <2>1, <2>2, PendingStep
<1>3. Finish \/ UNCHANGED <<pc, poll>> \/ DoneSave \/ DoneRename
  BY PollSteps DEF Open, Query, SkipRow, NextRow, SaveBlock, FlushBlock,
     DropRow, StopAtRow, AcceptRow, WriteSink, RowWritten, EndOfRows, Return,
     QueryError, InvalidOffset, ReadPast
<1> QED
  BY <1>1, <1>2, <1>3

\* Without a fault a poll ends in the good case, or before it took a row.
LEMMA QuietEnds ==
  ASSUME CursorInv, RegInv, [Next]_vars, Return, ~Fault
  PROVE  \/ UNCHANGED <<pc, poll>> /\ ~WriteSink
         \/ DoneRewrite
         \/ /\ UNCHANGED <<file, sinks, faults>> /\ ~WriteSink /\ ~gotRows
            /\ pc \in {"query", "next", "end"}
<1> USE DEF Return
<1>1. pc # "idle" => QueryError \/ InvalidOffset \/ NothingRead \/ DoneRewrite
  BY DEF Next, Poll, vars, Handling, poll, Open, Query, SkipRow, NextRow,
     SaveBlock, FlushBlock, FlushBlockError, DropRow, StopAtRow, AcceptRow,
     WriteSink, RowWritten, WriteError, EndOfRows, RowsError, Finish,
     FinishError, DoneSave, DoneRename, FileError, Produce, Rollover, Cancel,
     Restart, Kill, PowerFailure, WriteBack, Repair
<1>2. CASE QueryError \/ InvalidOffset
  <2>1. last = 0 /\ UNCHANGED <<file, sinks, faults>> /\ pc \in {"query", "next"}
    BY <1>2 DEF QueryError, InvalidOffset, ReadPast
  <2>2. pc = "query" => ~gotRows
    BY <2>1 DEF CursorInv
  <2> QED
    BY <2>1, <2>2 DEF RegInv, InLoop, WriteSink
<1>3. CASE NothingRead
  BY <1>3 DEF NothingRead, WriteSink
<1>4. CASE pc = "idle"
  <2>1. UNCHANGED <<pc, poll>>
    BY <1>4, PollFrame DEF Poll, Handling, Open, Query, QueryError, SkipRow,
       NextRow, SaveBlock, FlushBlock, FlushBlockError, DropRow, StopAtRow,
       AcceptRow, WriteSink, RowWritten, WriteError, EndOfRows, InvalidOffset,
       RowsError, NothingRead, Finish, FinishError, DoneSave, DoneRename,
       DoneRewrite, FileError, Kill, PowerFailure
  <2> QED
    BY <1>4, <2>1 DEF WriteSink
<1> QED
  BY <1>1, <1>2, <1>3, <1>4

LEMMA RiskStep ==
  ASSUME TypeOK, CursorInv, RegInv, CheckpointFlushed, RiskInv, [Next]_vars
  PROVE  RiskInv'
<1> SUFFICES ASSUME faults' = 0 PROVE RiskInv'
  BY DEF RiskInv
<1> USE DEF InLoop
<1>0. faults = 0 /\ ~Fault
  BY NoFaultBefore DEF TypeOK
<1>a. /\ last \in Nat /\ at[1] \in Nat /\ last' \in Nat /\ at'[1] \in Nat
      /\ \A s \in Sink : \A e \in pend[s] : e[1] \in Nat
  BY TypeStep, EventNumbers DEF TypeOK, PollOK, SinksOK, Position
<1>b. ~WriteError
  BY <1>0 DEF WriteError
<1>c. \A s \in Sink : WriteSink \/ pend'[s] \subseteq pend[s]
  BY <1>b, PendingStep
<1>d. \A s \in Sink : pend'[s] \subseteq pend[s] \cup {at}
  BY <1>b, PendingStep
<1>1. CASE WriteSink
  <2>1. /\ UNCHANGED <<last, at, mode, gotRows, pc>> /\ pc = "write"
        /\ last = at[1] /\ gotRows
    BY <1>1 DEF WriteSink, CursorInv, cursor
  <2>2. mode = "good" => \A s \in Sink : \A e \in pend[s] : e[1] >= at[1]
    BY <1>0, <2>1 DEF RiskInv
  <2>3. mode = "good" => \A s \in Sink : \A e \in pend'[s] : e[1] >= at[1]
    BY <1>a, <1>d, <2>2
  <2> QED
    BY <2>1, <2>3 DEF RiskInv
<1>2. CASE UNCHANGED <<pc, poll>> /\ ~WriteSink
  <2>1. UNCHANGED reg \/ pc # "idle"
    BY <1>0, <1>2, FileFrame DEF file, SaveBlock, DoneSave, DoneRename,
       DoneRewrite, FileError, PowerFailure, Repair, Return, RegInv
  <2> QED
    BY <1>0, <1>2, <1>c, <2>1 DEF RiskInv, poll, cursor
<1>3. CASE Return /\ UNCHANGED file /\ ~WriteSink /\ ~gotRows
           /\ pc \in {"query", "next", "end"}
  <2>1. reg.flag = mode /\ pc' = "idle" /\ UNCHANGED reg
    BY <1>3 DEF Return, RegInv, file
  <2>2. reg.flag = "good" => \A s \in Sink : pend[s] = {}
    BY <1>0, <1>3, <2>1 DEF RiskInv
  <2> QED
    BY <1>c, <1>3, <2>1, <2>2 DEF RiskInv
<1>4. CASE DoneRewrite
  <2>1. pc = "rewrite" /\ pc' = "idle" /\ reg'.flag = done /\ ~WriteSink
    BY <1>4 DEF DoneRewrite, Return, WriteSink
  <2> QED
    BY <1>c, <2>1 DEF RiskInv, CheckpointFlushed
<1>5. CASE Open
  <2>1. /\ pc = "idle" /\ pc' = "query" /\ mode' = reg.flag /\ gotRows' = FALSE
        /\ ~WriteSink
    BY <1>5 DEF Open, WriteSink
  <2>2. mode' = "good" => \A s \in Sink : pend'[s] = {}
    BY <1>0, <1>c, <2>1 DEF RiskInv
  <2> QED
    BY <2>1, <2>2 DEF RiskInv
<1>6. CASE Query \/ SkipRow \/ EndOfRows \/ SaveBlock
  <2>1. /\ UNCHANGED <<mode, last, gotRows>> /\ pc # "idle" /\ ~WriteSink
        /\ pc' \in {"next", "end", "flush"}
    BY <1>6 DEF Query, SkipRow, EndOfRows, SaveBlock, WriteSink, poll, cursor
  <2> QED
    BY <1>0, <1>c, <2>1 DEF RiskInv
<1>7. CASE NextRow
  <2>1. /\ UNCHANGED mode /\ pc = "next" /\ gotRows' /\ ~WriteSink
        /\ at' = RowAfter(at)
        /\ \/ ~gotRows
           \/ gotRows /\ pc' = "save" /\ UNCHANGED last
           \/ gotRows /\ pc' = "event" /\ UNCHANGED last /\ at'[1] = last
    BY <1>7 DEF NextRow, WriteSink, TypeOK, PollOK
  <2>2. CASE ~gotRows
    <3>1. mode = "good" => \A s \in Sink : pend'[s] = {}
      BY <1>0, <1>c, <2>1, <2>2 DEF RiskInv
    <3> QED
      BY <1>7, <2>1, <3>1 DEF RiskInv, NextRow
  <2>3. CASE gotRows
    <3>1. mode = "good" => \A s \in Sink : \A e \in pend'[s] : e[1] >= last
      BY <1>0, <1>c, <2>1 DEF RiskInv
    <3> QED
      BY <2>1, <2>3, <3>1 DEF RiskInv
  <2> QED
    BY <2>2, <2>3 DEF TypeOK, PollOK
<1>8. CASE FlushBlock \/ Finish
  <2>1. \A s \in Sink : pend'[s] = {}
    BY <1>8, PendingStep
  <2> QED
    BY <2>1 DEF RiskInv
<1>9. CASE DropRow \/ StopAtRow \/ AcceptRow
  <2>1. /\ UNCHANGED <<mode, at, gotRows>> /\ pc = "event" /\ last' = at[1]
        /\ ~WriteSink /\ gotRows /\ pc' # "idle"
    BY <1>9 DEF DropRow, StopAtRow, AcceptRow, Handling, WriteSink, CursorInv
  <2>2. mode = "good" => \A s \in Sink : \A e \in pend'[s] : e[1] >= at[1]
    BY <1>0, <1>c, <2>1 DEF RiskInv
  <2> QED
    BY <2>1, <2>2 DEF RiskInv
<1>10. CASE RowWritten
  <2>1. /\ UNCHANGED <<mode, last, at, gotRows>> /\ pc = "write"
        /\ pc' = "next" /\ ~WriteSink /\ gotRows
    BY <1>10 DEF RowWritten, WriteSink, TypeOK, PollOK, CursorInv
  <2> QED
    BY <1>0, <1>c, <2>1 DEF RiskInv
<1>11. CASE DoneSave \/ DoneRename \/ ((QueryError \/ InvalidOffset) /\ ~Return)
  <2>1. /\ UNCHANGED <<mode, last, gotRows>> /\ pc # "idle" /\ ~WriteSink
        /\ pc' \in {"done", "rename", "rewrite"}
    BY <1>11 DEF DoneSave, DoneRename, QueryError, InvalidOffset, ReadPast,
       WriteSink, poll, cursor
  <2> QED
    BY <1>0, <1>c, <2>1 DEF RiskInv
<1> QED
  BY <1>0, <1>1, <1>2, <1>3, <1>4, <1>5, <1>6, <1>7, <1>8, <1>9, <1>10, <1>11,
     PollSteps, QuietEnds

\* Only the block that gets saved next can be lost.
LEMMA RiskMeaning ==
  ASSUME TypeOK, CursorInv, RegInv, CheckpointFlushed, RiskInv
  PROVE  OneBlockAtRisk
<1> SUFFICES ASSUME faults = 0, mode = "good", reg.flag = "good",
                    NEW s \in Sink, NEW e \in pend[s]
             PROVE  e[1] >= reg.pos
  BY DEF OneBlockAtRisk
<1>1. /\ last \in Nat /\ reg.pos \in Nat /\ e[1] \in Nat /\ e[1] >= 1
  BY EventNumbers, ValueOf DEF TypeOK, FileOK, PollOK, SinksOK, Position
<1>2. pc # "idle" /\ e[1] >= last /\ gotRows
  BY DEF RiskInv
<1>3. pc \in {"done"} \cup {"next", "save", "flush", "event", "write", "end"}
      => reg.pos <= last
  BY <1>2 DEF RegInv, InLoop
<1>4. pc = "rename" => reg.pos = last
  BY DEF CursorInv
<1>5. pc = "rewrite" => reg.pos = 0
  BY DEF RegInv, Fresh
<1>6. pc # "query"
  BY <1>2 DEF CursorInv
<1> QED
  BY <1>1, <1>2, <1>3, <1>4, <1>5, <1>6 DEF TypeOK, PollOK, PC

(***************************************************************************)
(* Without a fault no event is written twice.                              *)
(***************************************************************************)
LEMMA HandedStep ==
  ASSUME TypeOK, CursorInv, [Next]_vars
  PROVE  \/ UNCHANGED <<handed, again>> /\ ~WriteSink
         \/ /\ WriteSink
            /\ \A s \in Sink : \A e \in handed'[s] :
                 e \in handed[s] \/ (e = at /\ s = snk)
            /\ again' = (again \/ at \in handed[snk])
         \/ WriteError
<1>1. CASE UNCHANGED sinks /\ ~WriteSink
  BY <1>1 DEF sinks
<1>2. CASE WriteSink
  BY <1>2 DEF WriteSink, Put, TypeOK, SinksOK, CursorInv, PollOK, Sink
<1>3. CASE PowerFailure \/ FlushBlock \/ FlushBlockError \/ Finish
           \/ FinishError \/ WriteBack
  <2>1. UNCHANGED <<handed, again>>
    BY <1>3 DEF PowerFailure, Unflushed, FlushBlock, FlushBlockError, Finish,
       FinishError, WriteBack, WrittenBack, Flushed
  <2> QED
    BY <1>2, <2>1
<1> QED
  BY <1>1, <1>2, <1>3, SinksFrame

\* The rows come in order.
LEMMA RowsInOrder ==
  ASSUME TypeOK, CursorInv, pc = "next", HasRow
  PROVE  RowsBefore(at) \cup ({at} \cap Event) \subseteq RowsBefore(RowAfter(at))
<1>1. /\ oldest \in Nat /\ at[1] \in Nat /\ at[2] \in Nat /\ at[2] <= Size
      /\ RowAfter(at) \in Event
  BY RowAfterIsRow DEF TypeOK, TargetOK, PollOK, Position
<1>2. \/ RowAfter(at)[1] > at[1]
      \/ RowAfter(at)[1] = at[1] /\ RowAfter(at)[2] > at[2]
  BY <1>1 DEF RowAfter
<1>3. RowAfter(at)[1] \in Nat /\ RowAfter(at)[2] \in Nat
  BY <1>1, EventNumbers
<1> QED
  BY <1>1, <1>2, <1>3, EventNumbers DEF RowsBefore

\* The first row of a poll lies behind the position.
LEMMA FirstRowIsNew ==
  ASSUME TypeOK, CursorInv, RegInv, NextRow, ~gotRows
  PROVE  RowAfter(at)[1] > last
<1>1. /\ oldest \in Nat /\ last \in Nat /\ at[1] \in Nat /\ at[2] \in Nat
      /\ mode \in {"good", "reset"} /\ pc = "next" /\ HasRow
      /\ ~AlreadyHave(RowAfter(at))
  BY DEF NextRow, TypeOK, TargetOK, PollOK, Position, Flag
<1>2. RowAfter(at)[1] \in Nat
  BY <1>1, RowAfterIsRow, EventNumbers DEF TypeOK
<1>3. CASE mode = "reset"
  BY <1>1, <1>2, <1>3 DEF AlreadyHave
<1>4. CASE mode = "good"
  BY <1>1, <1>4 DEF RegInv, RowAfter
<1> QED
  BY <1>1, <1>3, <1>4

LEMMA OnceStep ==
  ASSUME TypeOK, CursorInv, RegInv, OnceInv, OnceWithoutFaults, [Next]_vars
  PROVE  OnceInv' /\ OnceWithoutFaults'
<1> SUFFICES ASSUME faults' = 0 PROVE OnceInv' /\ OnceWithoutFaults'
  BY DEF OnceInv, OnceWithoutFaults
<1> USE DEF InLoop
<1>0. faults = 0 /\ ~Fault /\ ~again /\ ~WriteError
  BY NoFaultBefore DEF TypeOK, OnceWithoutFaults, WriteError
<1>a. /\ last \in Nat /\ at[1] \in Nat /\ at[2] \in Nat /\ snk \in Nat
      /\ reg.pos \in Nat
      /\ \A s \in Sink : \A e \in handed[s] : e \in Event
  BY ValueOf DEF TypeOK, FileOK, PollOK, SinksOK, Position
<1>1. CASE WriteSink
  <2>1. /\ pc = "write" /\ pc' = "write" /\ snk' = snk + 1
        /\ UNCHANGED <<at, last>> /\ last = at[1] /\ snk \in Sink
    BY <1>1 DEF WriteSink, CursorInv, cursor, TypeOK, PollOK, Sink
  <2>2. /\ \A s \in Sink : \A e \in handed'[s] :
             e \in handed[s] \/ (e = at /\ s = snk)
        /\ again' = (again \/ at \in handed[snk])
    BY <1>0, <1>1, HandedStep
  <2>3. at \notin handed[snk]
    BY <1>0, <1>a, <2>1 DEF OnceInv, RowsBefore
  <2>4. ~again'
    BY <1>0, <2>2, <2>3
  <2>5. \A s \in Sink : \A e \in handed[s] :
          e[1] <= last /\ (e \in RowsBefore(at) \/ (e = at /\ s < snk))
    BY <1>0, <2>1 DEF OnceInv
  <2>6. \A s \in Sink : \A e \in handed'[s] :
          e[1] <= last /\ (e \in RowsBefore(at) \/ (e = at /\ s < snk + 1))
    <3> SUFFICES ASSUME NEW s \in Sink, NEW e \in handed'[s]
                 PROVE  e[1] <= last /\ (e \in RowsBefore(at) \/ (e = at /\ s < snk + 1))
      OBVIOUS
    <3>1. s \in Nat
      BY DEF Sink
    <3>2. CASE e \in handed[s]
      BY <1>a, <2>5, <3>1, <3>2
    <3>3. CASE e = at /\ s = snk
      BY <1>a, <2>1, <3>3
    <3> QED
      BY <2>2, <3>2, <3>3
  <2>7. UNCHANGED RowsBefore(at)
    BY <2>1 DEF RowsBefore
  <2> QED
    BY <2>1, <2>4, <2>6, <2>7 DEF OnceInv, OnceWithoutFaults
<1>b. CASE ~WriteSink
  <2>0. UNCHANGED <<handed, again>>
    BY <1>0, <1>b, HandedStep
  <2>a. OnceWithoutFaults'
    BY <1>0, <2>0 DEF OnceWithoutFaults
  <2>b. UNCHANGED at => UNCHANGED RowsBefore(at)
    BY DEF RowsBefore
  <2>c. \A s \in Sink : \A e \in handed[s] : e[1] \in Nat
    BY <1>a, EventNumbers
  <2>1. CASE UNCHANGED <<pc, poll>>
    <3>1. UNCHANGED reg \/ pc # "idle"
      BY <1>0, <2>1, FileFrame DEF file, SaveBlock, DoneSave, DoneRename,
         DoneRewrite, FileError, PowerFailure, Repair, Return, RegInv
    <3>2. UNCHANGED <<pc, at, last, snk, gotRows>>
      BY <2>1 DEF poll, cursor
    <3> QED
      BY <1>0, <2>0, <2>a, <2>b, <3>1, <3>2 DEF OnceInv
  <2>2. CASE Return /\ UNCHANGED file /\ ~gotRows /\ pc \in {"query", "next", "end"}
    <3>1. pc' = "idle" /\ reg'.pos = last /\ pc # "idle"
      BY <2>2 DEF Return, RegInv, file
    <3> QED
      BY <1>0, <2>0, <2>a, <3>1 DEF OnceInv
  <2>3. CASE DoneRewrite
    <3>1. pc' = "idle" /\ reg'.pos = last /\ pc # "idle"
      BY <2>3 DEF DoneRewrite, Return
    <3> QED
      BY <1>0, <2>0, <2>a, <3>1 DEF OnceInv
  <2>4. CASE Open
    <3>1. pc = "idle" /\ pc' = "query" /\ last' = reg.pos
      BY <2>4 DEF Open
    <3> QED
      BY <1>0, <2>0, <2>a, <3>1 DEF OnceInv
  <2>5. CASE Query
    <3>1. pc = "query" /\ pc' = "next" /\ UNCHANGED <<last, gotRows>> /\ ~gotRows
      BY <2>5 DEF Query, CursorInv
    <3> QED
      BY <1>0, <2>0, <2>a, <3>1 DEF OnceInv
  <2>6. CASE SkipRow
    <3>1. /\ pc = "next" /\ pc' = "next" /\ UNCHANGED <<last, gotRows>>
          /\ at' = RowAfter(at) /\ HasRow
      BY <2>6 DEF SkipRow
    <3>2. RowsBefore(at) \cup ({at} \cap Event) \subseteq RowsBefore(RowAfter(at))
      BY <3>1, RowsInOrder
    <3>3. RowsBefore(at)' = RowsBefore(RowAfter(at))
      BY <3>1 DEF RowsBefore
    <3> QED
      BY <1>0, <1>a, <2>0, <2>a, <3>1, <3>2, <3>3 DEF OnceInv
  <2>7. CASE NextRow
    <3>1. /\ pc = "next" /\ pc' \in {"save", "event"} /\ at' = RowAfter(at)
          /\ HasRow /\ gotRows' /\ last' = IF gotRows THEN last ELSE RowAfter(at)[1]
      BY <2>7 DEF NextRow
    <3>2. RowsBefore(at) \cup ({at} \cap Event) \subseteq RowsBefore(RowAfter(at))
      BY <3>1, RowsInOrder
    <3>3. RowsBefore(at)' = RowsBefore(RowAfter(at))
      BY <3>1 DEF RowsBefore
    <3>4. \A s \in Sink : \A e \in handed[s] : e[1] <= last
      BY <1>0, <3>1 DEF OnceInv
    <3>5. CASE gotRows
      BY <1>0, <1>a, <2>0, <2>a, <3>1, <3>2, <3>3, <3>4, <3>5 DEF OnceInv
    <3>6. CASE ~gotRows
      <4>1. RowAfter(at)[1] > last /\ RowAfter(at)[1] \in Nat
        BY <2>7, <3>1, <3>6, FirstRowIsNew, RowAfterIsRow, EventNumbers DEF TypeOK
      <4>2. \A s \in Sink : \A e \in handed[s] :
              e[1] <= RowAfter(at)[1] /\ e \in RowsBefore(RowAfter(at))
        BY <1>a, <2>c, <3>4, <4>1 DEF RowsBefore
      <4> QED
        BY <2>0, <2>a, <3>1, <3>3, <3>6, <4>2 DEF OnceInv
    <3> QED
      BY <3>5, <3>6 DEF TypeOK, PollOK
  <2>8. CASE SaveBlock \/ FlushBlock
    <3>1. /\ pc \in {"save", "flush"} /\ pc' \in {"flush", "event", "end"}
          /\ UNCHANGED <<last, at>>
      BY <2>8 DEF SaveBlock, FlushBlock, poll, cursor
    <3> QED
      BY <1>0, <2>0, <2>a, <2>b, <3>1 DEF OnceInv
  <2>9. CASE DropRow \/ StopAtRow \/ AcceptRow
    <3>1. /\ pc = "event" /\ pc' \in {"next", "end", "write"}
          /\ UNCHANGED at /\ last' = at[1]
      BY <2>9 DEF DropRow, StopAtRow, AcceptRow, Handling
    <3>2. \A s \in Sink : \A e \in handed[s] : e \in RowsBefore(at)
      BY <1>0, <3>1 DEF OnceInv
    <3>3. \A s \in Sink : \A e \in handed[s] : e[1] <= at[1]
      BY <1>a, <2>c, <3>2 DEF RowsBefore
    <3> QED
      BY <2>0, <2>a, <2>b, <3>1, <3>2, <3>3 DEF OnceInv
  <2>10. CASE RowWritten
    <3>1. pc = "write" /\ pc' = "next" /\ UNCHANGED <<at, last>>
      BY <2>10 DEF RowWritten
    <3> QED
      BY <1>0, <2>0, <2>a, <2>b, <3>1 DEF OnceInv
  <2>11. CASE EndOfRows \/ Finish \/ DoneSave \/ DoneRename
              \/ ((QueryError \/ InvalidOffset) /\ ~Return)
    <3>1. /\ pc # "idle" /\ pc' \in {"end", "done", "rename", "rewrite"}
          /\ UNCHANGED last
      BY <2>11 DEF EndOfRows, Finish, DoneSave, DoneRename, QueryError,
         InvalidOffset, ReadPast, poll, cursor
    <3> QED
      BY <1>0, <2>0, <2>a, <3>1 DEF OnceInv
  <2> QED
    BY <1>0, <1>b, <2>1, <2>2, <2>3, <2>4, <2>5, <2>6, <2>7, <2>8, <2>9, <2>10,
       <2>11, PollSteps, QuietEnds
<1> QED
  BY <1>1, <1>b

(***************************************************************************)
(* The theorems.                                                           *)
(***************************************************************************)
LEMMA InitInv == Init => IInv
<1> SUFFICES ASSUME Init PROVE IInv
  OBVIOUS
<1>1. <<0, Size>> \in Position \X (1 .. Size) /\ 1 \in 1 .. NumSinks + 1
  BY DEF Position
<1>2. TypeOK
  <2>1. TargetOK /\ FileOK
    BY ValueOf DEF Init, TargetOK, FileOK, Position
  <2>2. SinksOK
    BY DEF Init, SinksInit, SinksOK
  <2>3. PollOK
    <3>1. 0 \in 0 .. Rows /\ 0 \in Position
      BY DEF Position
    <3>2. last \in Position /\ hi \in Position /\ start \in Position
      BY <3>1 DEF Init
    <3>3. at \in Position \X (1 .. Size) /\ snk \in 1 .. NumSinks + 1
      BY <1>1 DEF Init
    <3>4. rows \in 0 .. Rows /\ gotRows \in BOOLEAN
      BY <3>1 DEF Init
    <3>5. pc \in PC /\ mode \in Flag /\ done \in Flag
      BY DEF Init, PC, Flag
    <3> QED
      BY <3>2, <3>3, <3>4, <3>5 DEF PollOK
  <2>4. HistoryOK
    <3>1. 0 \in 0 .. MaxFaults
      OBVIOUS
    <3> QED
      BY <3>1 DEF Init, HistoryOK
  <2> QED
    BY <2>1, <2>2, <2>3, <2>4 DEF TypeOK
<1>3. CursorInv
  BY DEF Init, CursorInv, InLoop
<1>4. ReadInv /\ RegInv /\ NoGap
  BY EventNumbers DEF Init, SinksInit, ReadInv, RegInv, NoGap, DoneThrough,
     UpTo, InLoop, Fresh, Unreadable
<1> QED
  BY <1>2, <1>3, <1>4 DEF IInv

LEMMA StepInv == IInv /\ [Next]_vars => IInv'
BY TypeStep, CursorStep, ReadStep, RegStep, GapStep DEF IInv

\* The inductive invariant holds for any number of blocks, events, sinks and
\* faults, any row limit and any choice of unwanted events.
THEOREM InvariantHolds == Spec => []IInv
BY InitInv, StepInv, PTL DEF Spec

\* Every variable of the session reader keeps its type.
THEOREM TypeCorrect == Spec => []TypeOK
<1>1. IInv => TypeOK
  BY DEF IInv
<1> QED
  BY <1>1, InvariantHolds, PTL

\* No event at or before the saved position, nor the one of the .0 file, is
\* still owed to a sink.
THEOREM NoGapHolds == Spec => []NoGap
<1>1. IInv => NoGap
  BY DEF IInv
<1> QED
  BY <1>1, InvariantHolds, PTL

LEMMA InitRisk ==
  Init => CheckpointFlushed /\ RiskInv /\ OnceInv /\ OnceWithoutFaults
BY DEF Init, SinksInit, CheckpointFlushed, RiskInv, OnceInv, OnceWithoutFaults

\* When Done writes a checkpoint, no sink holds anything that is not flushed.
THEOREM CheckpointFlushedHolds == Spec => []CheckpointFlushed
<1>1. Init => CheckpointFlushed
  BY InitRisk
<1>2. IInv /\ CheckpointFlushed /\ [Next]_vars => CheckpointFlushed'
  BY CheckpointStep DEF IInv
<1> QED
  BY <1>1, <1>2, InvariantHolds, PTL DEF Spec

\* As long as nothing fails and no reset is going on, what is not flushed is
\* of the block the saved position names, or newer.
THEOREM OneBlockAtRiskHolds == Spec => []OneBlockAtRisk
<1>1. Init => RiskInv
  BY InitRisk
<1>2. IInv /\ CheckpointFlushed /\ RiskInv /\ [Next]_vars => RiskInv'
  BY RiskStep DEF IInv
<1>3. IInv /\ CheckpointFlushed /\ RiskInv => OneBlockAtRisk
  BY RiskMeaning DEF IInv
<1> QED
  BY <1>1, <1>2, <1>3, InvariantHolds, CheckpointFlushedHolds, PTL DEF Spec

\* Without an error, crash or power failure no event is written twice to a
\* sink.
THEOREM OnceHolds == Spec => []OnceWithoutFaults
<1>1. Init => OnceInv /\ OnceWithoutFaults
  BY InitRisk
<1>2. IInv /\ OnceInv /\ OnceWithoutFaults /\ [Next]_vars
        => OnceInv' /\ OnceWithoutFaults'
  BY OnceStep DEF IInv
<1> QED
  BY <1>1, <1>2, InvariantHolds, PTL DEF Spec

(***************************************************************************)
(* The session reader implements the cursor of DeliveryCursor.             *)
(***************************************************************************)
Cursor == IF pc = "rewrite" THEN last ELSE reg.pos
Given == {e \in Event : Accounted(e)}

\* Events are given for good.
LEMMA GivenGrows ==
  ASSUME TypeOK, CursorInv, [Next]_vars
  PROVE  Given \subseteq Given'
BY AccountedStable DEF Given

\* A step that leaves the target and the history alone.
LEMMA GivenSame ==
  ASSUME UNCHANGED <<oldest, handed, passed>>
  PROVE  Given' = Given
BY DEF Given, Accounted

\* The cursor moves forward without a fault or back with one; then no event
\* is given in the same step.
LEMMA CursorMoves ==
  ASSUME IInv, [Next]_vars
  PROVE  \/ Cursor' = Cursor
         \/ /\ Cursor' > Cursor
            /\ UNCHANGED <<oldest, handed, passed, faults>>
         \/ /\ Cursor' < Cursor
            /\ UNCHANGED <<oldest, handed, passed>>
            /\ faults' = faults + 1
<1>0. reg.pos \in Nat /\ spare.pos \in Nat /\ last \in Nat
  BY ValueOf DEF IInv, TypeOK, FileOK, PollOK, Position
<1>1. CASE UNCHANGED file /\ pc # "rewrite" /\ pc' # "rewrite"
  BY <1>1 DEF Cursor, file
<1>2. CASE UNCHANGED <<file, pc, last>>
  BY <1>2 DEF Cursor, file
<1>3. CASE SaveBlock \/ DoneSave
  <2>1. /\ reg'.pos = last /\ pc' # "rewrite" /\ pc \in {"save", "done"}
        /\ UNCHANGED <<oldest, handed, passed, faults>>
    BY <1>3 DEF SaveBlock, DoneSave, target, sinks
  <2>2. reg.pos <= last
    BY <2>1 DEF IInv, RegInv, CursorInv, InLoop
  <2> QED
    BY <1>0, <2>1, <2>2 DEF Cursor
<1>4. CASE DoneRewrite
  BY <1>4 DEF DoneRewrite, Return, Cursor
<1>5. CASE DoneRename
  BY <1>5 DEF DoneRename, Cursor, IInv, CursorInv, poll, cursor
<1>6. CASE FileError \/ PowerFailure \/ Kill
  <2>1. /\ UNCHANGED <<oldest, handed, passed>> /\ faults' = faults + 1
        /\ pc' = "idle" /\ reg' \in {reg, Unreadable}
    BY <1>6 DEF FileError, PowerFailure, Kill, Return, Fault, Unflushed,
       target, file, sinks
  <2>2. reg'.pos <= reg.pos /\ Cursor' = reg'.pos
    BY <1>0, <2>1 DEF Unreadable, Cursor
  <2>3. pc = "rewrite" => reg.pos <= last
    BY <1>0 DEF IInv, RegInv, Fresh
  <2>4. Cursor' <= Cursor
    BY <1>0, <2>1, <2>2, <2>3 DEF Cursor, Unreadable
  <2> QED
    BY <1>0, <2>1, <2>2, <2>4 DEF Cursor, Unreadable
<1>7. CASE Repair
  <2>1. Cursor = 0 /\ Cursor' \in Nat
    BY <1>0, <1>7 DEF Repair, Cursor, Unreadable, Fresh
  <2>2. UNCHANGED <<oldest, handed, passed, faults>>
    BY <1>7 DEF Repair, target, sinks
  <2> QED
    BY <2>1, <2>2
<1>8. \/ UNCHANGED file /\ pc # "rewrite" /\ pc' # "rewrite"
      \/ UNCHANGED <<file, pc, last>>
      \/ SaveBlock \/ DoneSave \/ DoneRewrite \/ DoneRename
      \/ FileError \/ PowerFailure \/ Kill \/ Repair
  BY DEF Next, Poll, vars, poll, cursor, Return, ReadPast, Handling, Open,
     Query, QueryError, SkipRow, NextRow, FlushBlock, FlushBlockError, DropRow,
     StopAtRow, AcceptRow, WriteSink, RowWritten, WriteError, EndOfRows,
     InvalidOffset, RowsError, NothingRead, Finish, FinishError, Produce,
     Rollover, Cancel, Restart, WriteBack
<1> QED
  BY <1>1, <1>2, <1>3, <1>4, <1>5, <1>6, <1>7, <1>8

\* The cursor stands behind events that are given.
LEMMA CursorCovered ==
  IInv => Delivery!Before(Cursor) \subseteq Given
<1> SUFFICES ASSUME IInv, NEW e \in Delivery!Before(Cursor)
             PROVE  e \in Given
  OBVIOUS
<1>1. Cursor \in Position
  BY ValueOf DEF Cursor, IInv, TypeOK, FileOK, PollOK
<1>2. e \in UpTo(Cursor)
  BY <1>1 DEF Delivery!Before, UpTo, Event, Block, Position
<1>3. \A d \in UpTo(Cursor) : Accounted(d)
  BY DEF Cursor, IInv, NoGap, ReadInv, DoneThrough
<1> QED
  BY <1>2, <1>3 DEF Given, UpTo

\* The session reader implements the cursor: at least once, and back only in
\* trouble.
THEOREM DeliveryHolds == Spec => ImplementsDelivery
<1>1. Init => Delivery!Init
  <2> SUFFICES ASSUME Init PROVE Delivery!Init
    OBVIOUS
  <2>1. {e \in Event : Accounted(e)} \subseteq (1 .. MaxPos) \X (1 .. Size)
    BY DEF Event, Block
  <2> QED
    BY <2>1 DEF Init, Delivery!Init, Fresh
<1>a. (IInv => Delivery!Before(Cursor) \subseteq Given)'
  BY CursorCovered, PTL
<1>2. IInv /\ IInv' /\ [Next]_vars => [Delivery!Next]_(Delivery!vars)
  <2> SUFFICES ASSUME IInv, IInv', [Next]_vars
               PROVE  [Delivery!Next]_(Delivery!vars)
    OBVIOUS
  <2>1. Given \subseteq Given' /\ faults' \in {faults, faults + 1}
    BY GivenGrows, FaultsFrame DEF IInv, Fault
  <2>2. CASE Cursor' = Cursor
    BY <2>1, <2>2 DEF Delivery!Next, Delivery!Give, Cursor, Given
  <2>3. CASE Cursor' > Cursor /\ UNCHANGED <<oldest, handed, passed, faults>>
    <3>1. Given' = Given
      BY <2>3, GivenSame
    <3>2. Delivery!Before(Cursor)' \subseteq Given'
      BY <1>a
    <3> QED
      BY <2>3, <3>1, <3>2 DEF Delivery!Next, Delivery!Advance, Delivery!Before,
         Cursor, Given
  <2>4. CASE Cursor' < Cursor /\ UNCHANGED <<oldest, handed, passed>> /\ faults' = faults + 1
    <3>1. Given' = Given
      BY <2>4, GivenSame
    <3> QED
      BY <2>4, <3>1 DEF Delivery!Next, Delivery!GoBack, Cursor, Given
  <2> QED
    BY <2>2, <2>3, <2>4, CursorMoves
<1> QED
  BY <1>1, <1>2, InvariantHolds, PTL DEF Spec, ImplementsDelivery, Delivery!Spec

=============================================================================
