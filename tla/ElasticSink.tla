----------------------------- MODULE ElasticSink -----------------------------
(***************************************************************************)
(* The Elastic sink, pkg/sink/sink_elastic.go with pkg/eshelper: Open asks *)
(* for each index it needs whether it exists and creates it when not;      *)
(* Write sends one event as a bulk request of its own and reads of the     *)
(* answer only whether the request as a whole was refused.                 *)
(*                                                                         *)
(* An error of Write ends the poll of its reader, and the next poll reads  *)
(* again from the position that was saved (process_session.go).            *)
(*                                                                         *)
(* Several programs, one to a server, share one Elastic with one           *)
(* configuration.  The pollers of a program share the client and nothing   *)
(* else: a program has one here.                                           *)
(***************************************************************************)
EXTENDS Naturals, Sequences, SequencesExt

CONSTANTS
  Programs,
  NoIndex,            \* an empty default_index
  DefaultIndex,       \* default_index
  EventIndexMap,      \* event_index_map, from names of events to indexes
  AutoCreateIndexes,  \* auto_create_indexes
  ClusterCreates,     \* Elastic creates an index on the first write to it
  Kinds,              \* the names of a program's events, in order
  MaxFaults           \* bound on failures, refusals, kills and deletions

ASSUME ElasticAssumption ==
  /\ AutoCreateIndexes \in BOOLEAN /\ ClusterCreates \in BOOLEAN
  /\ Kinds \in Seq(STRING)
  /\ IsFiniteSet(DOMAIN EventIndexMap)
  /\ MaxFaults \in Nat

Index == {DefaultIndex} \cup Range(EventIndexMap)
Number == 1 .. Len(Kinds)
Event == Programs \X Number

VARIABLES
  indexes,   \* the indexes Elastic has
  docs,      \* per event, how many documents of it Elastic holds
  pc,        \* per program: "closed", in Open "info", "exists", "create", or "open"
  todo,      \* per program: what CreateIndexes has still to look at
  at,        \* per program: the event it writes next
  saved,     \* per program: the last event before the saved position
  refused,   \* history: events Elastic refused for a reason of its own
  repeats,   \* history: per event, the faults after which it is written again
             \* although it may have been stored
  deleted,   \* history: indexes somebody deleted
  faults

cluster == <<indexes, docs, deleted>>
program == <<pc, todo, at, saved>>
vars == <<cluster, program, refused, repeats, faults>>

Fault == faults < MaxFaults /\ faults' = faults + 1

Init ==
  /\ indexes = {}
  /\ docs = [e \in Event |-> 0]
  /\ pc = [p \in Programs |-> "closed"]
  /\ todo = [p \in Programs |-> <<>>]
  /\ at = [p \in Programs |-> 1]
  /\ saved = [p \in Programs |-> 0]
  /\ refused = {}
  /\ repeats = [e \in Event |-> 0]
  /\ deleted = {}
  /\ faults = 0

-----------------------------------------------------------------------------
(* Open *)

Goto(p, place) == pc' = [pc EXCEPT ![p] = place]

\* Faulty variant of Lists: the indexes of the map are forgotten.
ListsDefault == IF AutoCreateIndexes THEN {<<DefaultIndex>>} ELSE {<<>>}

\* esIndexes: the default, if there is one, then the map in any order.  Two
\* names may be mapped to one index.
Lists ==
  IF ~AutoCreateIndexes THEN {<<>>}
  ELSE {(IF DefaultIndex = NoIndex THEN <<>> ELSE <<DefaultIndex>>)
          \o [n \in DOMAIN names |-> EventIndexMap[names[n]]] :
          names \in SetToSeqs(DOMAIN EventIndexMap)}

\* startPolling opens the sinks.
Open(p) ==
  /\ pc[p] = "closed"
  /\ Goto(p, "info")
  /\ UNCHANGED <<cluster, todo, at, saved, refused, repeats, faults>>

\* client.Info, and the list for CreateIndexes.
Info(p) ==
  /\ pc[p] = "info"
  /\ \E list \in Lists :
       /\ todo' = [todo EXCEPT ![p] = list]
       /\ Goto(p, IF list = <<>> THEN "open" ELSE "exists")
  /\ UNCHANGED <<cluster, at, saved, refused, repeats, faults>>

\* Faulty variant of Proceed: the last index is not looked at.
ProceedShort(p) ==
  /\ todo' = [todo EXCEPT ![p] = Tail(@)]
  /\ Goto(p, IF Len(todo[p]) <= 2 THEN "open" ELSE "exists")

\* An index is done with: the next one, or Open returns nil.
Proceed(p) ==
  /\ todo' = [todo EXCEPT ![p] = Tail(@)]
  /\ Goto(p, IF Len(todo[p]) = 1 THEN "open" ELSE "exists")

\* Faulty variant of Exists: the answer to Indices.Exists is not used.
ExistsIgnored(p) ==
  /\ pc[p] = "exists"
  /\ Head(todo[p]) \in indexes
  /\ Goto(p, "create")
  /\ UNCHANGED <<cluster, todo, at, saved, refused, repeats, faults>>

\* Indices.Exists answers 200: continue.
Exists(p) ==
  /\ pc[p] = "exists"
  /\ Head(todo[p]) \in indexes
  /\ Proceed(p)
  /\ UNCHANGED <<cluster, at, saved, refused, repeats, faults>>

\* It answers with any other status: not there, or not able to say.
NotThere(p) ==
  /\ pc[p] = "exists"
  /\ \/ Head(todo[p]) \notin indexes /\ UNCHANGED faults
     \/ Head(todo[p]) \in indexes /\ Fault
  /\ Goto(p, "create")
  /\ UNCHANGED <<cluster, todo, at, saved, refused, repeats>>

Create(p) ==
  /\ pc[p] = "create"
  /\ Head(todo[p]) \notin indexes
  /\ indexes' = indexes \cup {Head(todo[p])}
  /\ Proceed(p)
  /\ UNCHANGED <<docs, deleted, at, saved, refused, repeats, faults>>

\* Open returns an error, and with it startPolling.
OpenFails(p) ==
  /\ Goto(p, "closed")
  /\ todo' = [todo EXCEPT ![p] = <<>>]
  /\ UNCHANGED <<docs, deleted, at, saved, refused, repeats>>

\* The index is there by now: Elastic refuses to create it (res.IsError).
AlreadyExists(p) ==
  /\ pc[p] = "create"
  /\ Head(todo[p]) \in indexes
  /\ OpenFails(p)
  /\ UNCHANGED <<indexes, faults>>

\* A request of Open fails; one to create an index may have been carried out.
OpenError(p) ==
  /\ pc[p] \in {"info", "exists", "create"}
  /\ Fault
  /\ OpenFails(p)
  /\ indexes' \in {indexes} \cup
       {indexes \cup {Head(todo[p])} : place \in {"create"} \cap {pc[p]}}

-----------------------------------------------------------------------------
(* Write *)

IndexOf(n) ==
  IF Kinds[n] \in DOMAIN EventIndexMap THEN EventIndexMap[Kinds[n]] ELSE DefaultIndex

Accepts(i) == i # NoIndex /\ (i \in indexes \/ ClusterCreates)

\* Faulty variant of Payload: one buffer for all calls, not reset.
PayloadKept(p) == {<<p, n>> : n \in 1 .. at[p]}

\* The buffer of a Write: the event it was called with.
Payload(p) == {<<p, at[p]>>}

Store(p) ==
  /\ docs' = [e \in Event |-> docs[e] + IF e \in Payload(p) THEN 1 ELSE 0]
  /\ indexes' = indexes \cup {IndexOf(at[p])}
  /\ UNCHANGED deleted

Writing(p) == pc[p] = "open" /\ at[p] \in Number

\* Write returns nil: the poller goes on to the next event.
Returns(p) ==
  /\ at' = [at EXCEPT ![p] = @ + 1]
  /\ UNCHANGED <<pc, todo, saved>>

\* Elastic stores the event.
Write(p) ==
  /\ Writing(p)
  /\ Accepts(IndexOf(at[p]))
  /\ Store(p)
  /\ Returns(p)
  /\ UNCHANGED <<refused, repeats, faults>>

\* The request is answered with 200, and the event in it is refused: there is
\* no such index, or for a reason of Elastic (a field of another type, a queue
\* that is full).  The body of the answer is thrown away.
WriteRefused(p) ==
  /\ Writing(p)
  /\ \/ ~Accepts(IndexOf(at[p])) /\ UNCHANGED <<refused, faults>>
     \/ /\ Accepts(IndexOf(at[p]))
        /\ Fault
        /\ refused' = refused \cup {<<p, at[p]>>}
  /\ Returns(p)
  /\ UNCHANGED <<cluster, repeats>>

\* What the poll of p has written behind the saved position.
Unsaved(p) == {<<p, n>> : n \in saved[p] + 1 .. at[p] - 1}

Repeat(events) ==
  repeats' = [e \in Event |-> repeats[e] + IF e \in events THEN 1 ELSE 0]

\* processSession returns an error, or the program is gone: a later poll starts
\* from the saved position.
EndPoll(p) ==
  /\ at' = [at EXCEPT ![p] = saved[p] + 1]
  /\ UNCHANGED <<todo, saved>>

\* No answer in time, or an answer that is an error: the event may have been
\* stored.  The client sends the request again by itself, or Write returns the
\* error and the poll ends, or the program was killed before the answer.
WriteError(p) ==
  /\ Writing(p)
  /\ Fault
  /\ UNCHANGED refused
  /\ \E stored \in SUBSET {<<p, at[p]>>} :
       /\ \/ stored = {} /\ UNCHANGED cluster
          \/ stored # {} /\ Accepts(IndexOf(at[p])) /\ Store(p)
       /\ \/ UNCHANGED program /\ Repeat(stored)
          \/ /\ EndPoll(p)
             /\ pc' \in {pc, [pc EXCEPT ![p] = "closed"]}
             /\ Repeat(stored \cup Unsaved(p))

-----------------------------------------------------------------------------
(* The programs and Elastic *)

\* A block ends, anywhere, or the poll: the position of what has been written
\* is saved.
Save(p) ==
  /\ pc[p] = "open"
  /\ saved[p] < at[p] - 1
  /\ saved' = [saved EXCEPT ![p] = at[p] - 1]
  /\ UNCHANGED <<cluster, pc, todo, at, refused, repeats, faults>>

\* The poll ends for another reason: another sink, the rows, the state file.
BreakOff(p) ==
  /\ pc[p] = "open"
  /\ Unsaved(p) # {}
  /\ Fault
  /\ EndPoll(p)
  /\ Repeat(Unsaved(p))
  /\ UNCHANGED <<cluster, pc, refused>>

\* stopPolling, when the pollers have returned: Close of the sink does nothing.
\* The program reloads, or ends.
Close(p) ==
  /\ pc[p] = "open"
  /\ at[p] = saved[p] + 1
  /\ Goto(p, "closed")
  /\ UNCHANGED <<cluster, todo, at, saved, refused, repeats, faults>>

Kill(p) ==
  /\ pc[p] # "closed"
  /\ Fault
  /\ Goto(p, "closed")
  /\ todo' = [todo EXCEPT ![p] = <<>>]
  /\ at' = [at EXCEPT ![p] = saved[p] + 1]
  /\ Repeat(Unsaved(p))
  /\ UNCHANGED <<cluster, saved, refused>>

\* Somebody deletes an index with what it holds.
Delete(i) ==
  /\ i \in indexes
  /\ Fault
  /\ indexes' = indexes \ {i}
  /\ docs' = [e \in Event |-> IF IndexOf(e[2]) = i THEN 0 ELSE docs[e]]
  /\ deleted' = deleted \cup {i}
  /\ UNCHANGED <<program, refused, repeats>>

Opening(p) ==
  \/ Open(p) \/ Info(p) \/ Exists(p) \/ NotThere(p) \/ Create(p)
  \/ AlreadyExists(p) \/ OpenError(p)

Next ==
  \/ \E p \in Programs :
       \/ Opening(p) \/ Write(p) \/ WriteRefused(p) \/ WriteError(p)
       \/ Save(p) \/ BreakOff(p) \/ Close(p) \/ Kill(p)
  \/ \E i \in Index : Delete(i)

Spec == Init /\ [][Next]_vars

\* A program that did not start is started again, and runs.
FairSpec == Spec /\ \A p \in Programs : WF_vars(Opening(p))

-----------------------------------------------------------------------------
(* Properties *)

TypeOK ==
  /\ indexes \subseteq Index /\ deleted \subseteq Index
  /\ docs \in [Event -> 0 .. MaxFaults + 1]
  /\ pc \in [Programs -> {"closed", "info", "exists", "create", "open"}]
  /\ todo \in [Programs -> Seq(Index)]
  /\ \A p \in Programs : todo[p] # <<>> <=> pc[p] \in {"exists", "create"}
  /\ at \in [Programs -> 1 .. Len(Kinds) + 1]
  /\ saved \in [Programs -> 0 .. Len(Kinds)]
  /\ refused \subseteq Event
  /\ repeats \in [Event -> 0 .. MaxFaults]
  /\ faults \in 0 .. MaxFaults

\* Nobody reads the answer for a single event, yet an event whose Write has
\* returned nil, in this poll or before the saved position, is in Elastic,
\* unless Elastic refused it for a reason of its own or its index was deleted:
\* that Open has returned means that the index of every event is there, whoever
\* created it, and whichever attempts failed.
ReturnedIsStored ==
  \A p \in Programs : \A n \in 1 .. at[p] - 1 :
    docs[<<p, n>>] > 0 \/ <<p, n>> \in refused \/ IndexOf(n) \in deleted

\* Every copy of an event beyond the first has a fault of its own behind it: the
\* answer to a request that stored it was lost, or the poll that had written it
\* broke off before its position was saved.  Requests of others, retries of
\* other events and whatever happens behind a saved position do not repeat it.
CopiesHaveCause ==
  \A e \in Event : docs[e] <= 1 + repeats[e]

\* Why they hold.  A program that is at the list of indexes, or through with
\* it, finds every index it needs there, unless it was deleted, or it is still
\* on the list; an event is stored once when its Write returns, and once more
\* for every fault that makes the program write it again.
Needed == ({DefaultIndex} \ {NoIndex}) \cup Range(EventIndexMap)

IndexInv ==
  AutoCreateIndexes =>
    \A p \in Programs : pc[p] \in {"exists", "create", "open"} =>
      Needed \subseteq indexes \cup deleted \cup Range(todo[p])

Returned(e) == e[2] < at[e[1]]

DocsInv ==
  /\ \A p \in Programs : saved[p] < at[p]
  /\ \A e \in Event :
       /\ repeats[e] <= faults
       /\ docs[e] <= repeats[e] + IF Returned(e) THEN 1 ELSE 0

\* A configuration in which every event has an index: a default_index, or a
\* mapping for every name, and somebody who creates it.
EveryEventHasIndex ==
  /\ AutoCreateIndexes \/ ClusterCreates
  /\ \A n \in Number : IndexOf(n) # NoIndex

IInv ==
  /\ TypeOK
  /\ IndexInv
  /\ DocsInv
  /\ EveryEventHasIndex => ReturnedIsStored

\* Two programs that create the same indexes make each other fail, and still
\* every program gets its sink open: who lost the race finds the index there.
EventuallyOpen == \A p \in Programs : pc[p] = "closed" ~> pc[p] = "open"
=============================================================================
