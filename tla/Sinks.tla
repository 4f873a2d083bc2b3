------------------------------- MODULE Sinks -------------------------------
(***************************************************************************)
(* The sinks of the program, p.Sinks, as the readers see them (the         *)
(* interface of pkg/sink/sink.go): Write hands an event over, Flush makes  *)
(* what was written durable.  Logstash and Elastic take every event at     *)
(* once and their Flush does nothing; a file sink hands its events to the  *)
(* operating system and its Flush is an fsync.                             *)
(***************************************************************************)
EXTENDS Naturals

CONSTANTS
  NumSinks,    \* p.Sinks, in order
  FileSinks    \* those whose writes reach the disk only at Flush

Sink == 1 .. NumSinks

ASSUME SinksAssumption == NumSinks \in Nat /\ FileSinks \subseteq Sink

VARIABLES
  kept,        \* per sink, the events it holds for good
  pend,        \* per sink, the events written and not yet flushed
  handed,      \* history: per sink, every event ever written to it
  again        \* history: some event was written twice to one sink

sinks == <<kept, pend, handed, again>>

SinksInit ==
  /\ kept = [s \in Sink |-> {}]
  /\ pend = [s \in Sink |-> {}]
  /\ handed = [s \in Sink |-> {}]
  /\ again = FALSE

\* Write of event e to sink s.
Put(s, e) ==
  /\ IF s \in FileSinks
       THEN pend' = [pend EXCEPT ![s] = @ \cup {e}] /\ UNCHANGED kept
       ELSE kept' = [kept EXCEPT ![s] = @ \cup {e}] /\ UNCHANGED pend
  /\ handed' = [handed EXCEPT ![s] = @ \cup {e}]
  /\ again' = (again \/ e \in handed[s])

\* Flush of the sinks of S.
Flushed(S) ==
  /\ kept' = [s \in Sink |-> IF s \in S THEN kept[s] \cup pend[s] ELSE kept[s]]
  /\ pend' = [s \in Sink |-> IF s \in S THEN {} ELSE pend[s]]
  /\ UNCHANGED <<handed, again>>

\* The operating system writes a file out by itself.
WrittenBack == \E s \in FileSinks : pend[s] # {} /\ Flushed({s})

\* The machine loses power: what was not flushed is gone.
Unflushed ==
  /\ pend' = [s \in Sink |-> {}]
  /\ UNCHANGED <<kept, handed, again>>
=============================================================================
