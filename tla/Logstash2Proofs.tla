-------------------------- MODULE Logstash2Proofs --------------------------
(***************************************************************************)
(* Proofs about Logstash2, for any number of pollers, of events and of     *)
(* faults: a Write returns only for a line that went whole into a          *)
(* connection, and no line is sent twice by the retries.                   *)
(***************************************************************************)
EXTENDS Logstash2, TLAPS

USE LogstashAssumption DEF LogstashAssumption

(***************************************************************************)
(* The steps of a Write: it begins, its line is sent, it fails, or it goes *)
(* on to the next place of the retry loop without sending.                 *)
(***************************************************************************)
Place == {"idle", "write", "lock", "loop", "close", "open", "again"}

Moves(w) == \E to \in Place \ {"idle"} : pc[w] # "idle" /\ pc' = [pc EXCEPT ![w] = to]

Ends(w) == pc[w] # "idle" /\ pc' = [pc EXCEPT ![w] = "idle"]

LEMMA StepKinds ==
  ASSUME [Next]_vars
  PROVE  \/ UNCHANGED <<link, reader, poll, sent>>
         \/ Receive
         \/ ServerStops
         \/ Dial /\ UNCHANGED <<poll, sent>>
         \/ Disconnect /\ UNCHANGED <<poll, sent>>
         \/ \E w \in Writers :
              \/ Write(w)
              \/ Send(Current(w)) /\ Ends(w) /\ UNCHANGED <<reader, event>>
              \/ SendFails(Current(w)) /\ Moves(w) /\ UNCHANGED <<reader, event>>
              \/ Moves(w) /\ UNCHANGED <<link, reader, event, sent>>
              \/ Disconnect /\ Moves(w) /\ UNCHANGED <<event, sent>>
              \/ Dial /\ Moves(w) /\ UNCHANGED <<event, sent>>
<1>1. CASE UNCHANGED vars
  BY <1>1 DEF vars
<1>2. CASE Receive \/ ServerStops
  BY <1>2
<1>3. CASE ServerStarts \/ Cancel
  BY <1>3 DEF ServerStarts, Cancel
<1>4. CASE Connect
  BY <1>4 DEF Connect
<1>5. CASE CloseSink
  BY <1>5 DEF CloseSink
<1>6. ASSUME NEW w \in Writers, Write(w) \/ Step(w)
      PROVE  \/ Write(w)
             \/ Send(Current(w)) /\ Ends(w) /\ UNCHANGED <<reader, event>>
             \/ SendFails(Current(w)) /\ Moves(w) /\ UNCHANGED <<reader, event>>
             \/ Moves(w) /\ UNCHANGED <<link, reader, event, sent>>
             \/ Disconnect /\ Moves(w) /\ UNCHANGED <<event, sent>>
             \/ Dial /\ Moves(w) /\ UNCHANGED <<event, sent>>
  <2>1. CASE WriteSent(w) \/ LoopSent(w) \/ AgainSent(w)
    BY <2>1 DEF WriteSent, LoopSent, AgainSent, At, Ends
  <2>2. CASE WriteFailed(w) \/ LoopFailed(w) \/ AgainFailed(w)
    BY <2>2 DEF WriteFailed, LoopFailed, AgainFailed, At, Moves, Place
  <2>3. CASE Lock(w)
    BY <2>3 DEF Lock, At, Moves, Place
  <2>4. CASE LoopClose(w)
    BY <2>4 DEF LoopClose, At, Moves, Place
  <2>5. CASE LoopOpen(w)
    BY <2>5 DEF LoopOpen, At, Moves, Place
  <2> QED
    BY <1>6, <2>1, <2>2, <2>3, <2>4, <2>5 DEF Step
<1> QED
  BY <1>1, <1>2, <1>3, <1>4, <1>5, <1>6 DEF Next

\* The event in hand is one of the poller's events.
LEMMA CurrentIsEvent ==
  ASSUME TypeOK, LineInv, NEW w \in Writers, pc[w] # "idle"
  PROVE  Current(w) \in Event
BY DEF TypeOK, LineInv, Current, Event

\* What arrives when a connection is closed was on the wire.
LEMMA DisconnectArrives ==
  ASSUME wire \in Seq(Line), Disconnect
  PROVE  /\ wire' = <<>>
         /\ \A e \in received' \cup glued' :
              \/ e \in received \cup glued
              \/ \E i \in DOMAIN wire : wire[i].whole /\ e = wire[i].of
BY DEF Disconnect

LEMMA LineOf ==
  /\ \A e \in Event : \A b \in BOOLEAN : [of |-> e, whole |-> b] \in Line
  /\ \A l \in Line : l.of \in Event /\ l.whole \in BOOLEAN
BY DEF Line

\* A connection begins with nothing on it.
LEMMA EmptyWire == <<>> \in Seq(Line)
OBVIOUS

(***************************************************************************)
(* Type correctness.                                                       *)
(***************************************************************************)
LEMMA PollStep ==
  ASSUME TypeOK, [Next]_vars
  PROVE  /\ pc' \in [Writers -> Place]
         /\ event' \in [Writers -> 0 .. MaxEvents]
<1> USE DEF TypeOK
<1>1. CASE UNCHANGED poll
  BY <1>1 DEF poll, Place
<1>2. ASSUME NEW w \in Writers, Write(w)
      PROVE  /\ pc' \in [Writers -> Place]
             /\ event' \in [Writers -> 0 .. MaxEvents]
  BY <1>2 DEF Write, At, Place
<1>3. ASSUME NEW w \in Writers, (Ends(w) \/ Moves(w)) /\ UNCHANGED event
      PROVE  /\ pc' \in [Writers -> Place]
             /\ event' \in [Writers -> 0 .. MaxEvents]
  BY <1>3 DEF Ends, Moves, Place
<1> QED
  BY <1>1, <1>2, <1>3, StepKinds DEF Receive, ServerStops

LEMMA LinkStep ==
  ASSUME TypeOK, LineInv, [Next]_vars
  PROVE  /\ wire' \in Seq(Line)
         /\ conn' \in {"nil", "open", "reset"}
         /\ torn' \in BOOLEAN
         /\ received' \subseteq Event
         /\ glued' \subseteq Event
         /\ sent' \subseteq Event
<1> USE DEF TypeOK
<1>1. CASE UNCHANGED <<link, reader, sent>>
  BY <1>1 DEF link, reader
<1>2. CASE Receive
  <2>1. Head(wire) \in Line /\ Tail(wire) \in Seq(Line)
    BY <1>2 DEF Receive
  <2> QED
    BY <1>2, <2>1, LineOf DEF Receive
<1>3. CASE ServerStops
  BY <1>3, EmptyWire DEF ServerStops
<1>4. CASE Dial /\ UNCHANGED sent
  BY <1>4 DEF Dial
<1>5. CASE Disconnect /\ UNCHANGED sent
  <2>1. received' \subseteq Event /\ glued' \subseteq Event
    BY <1>5, DisconnectArrives, LineOf
  <2> QED
    BY <1>5, <2>1, EmptyWire DEF Disconnect
<1>6. ASSUME NEW w \in Writers, Ends(w) \/ Moves(w),
             Send(Current(w)) \/ SendFails(Current(w)), UNCHANGED reader
      PROVE  /\ wire' \in Seq(Line)
             /\ conn' \in {"nil", "open", "reset"}
             /\ torn' \in BOOLEAN
             /\ received' \subseteq Event
             /\ glued' \subseteq Event
             /\ sent' \subseteq Event
  <2>1. Current(w) \in Event
    BY <1>6, CurrentIsEvent DEF Ends, Moves
  <2>2. \A b \in BOOLEAN : Append(wire, [of |-> Current(w), whole |-> b]) \in Seq(Line)
    BY <2>1, LineOf
  <2> QED
    BY <1>6, <2>1, <2>2 DEF Send, SendFails, link, reader
<1> QED
  BY <1>1, <1>2, <1>3, <1>4, <1>5, <1>6, StepKinds DEF Write

LEMMA RestStep ==
  ASSUME TypeOK, [Next]_vars
  PROVE  /\ server' \in {"up", "down"}
         /\ cancelled' \in BOOLEAN
         /\ life' \in {"connect", "run"}
         /\ faults' \in 0 .. MaxFaults
<1> USE DEF TypeOK
<1>1. CASE UNCHANGED vars
  BY <1>1 DEF vars
<1>2. CASE Receive
  BY <1>2 DEF Receive
<1>4. CASE ServerStops
  BY <1>4 DEF ServerStops, Fault
<1>5. CASE ServerStarts \/ Connect \/ Cancel \/ CloseSink
  BY <1>5 DEF ServerStarts, Connect, Cancel, CloseSink
<1>3. ASSUME NEW w \in Writers, Write(w) \/ Step(w)
      PROVE  UNCHANGED <<server, cancelled, life>> /\ faults' \in 0 .. MaxFaults
  <2>1. UNCHANGED <<server, cancelled, life>>
    BY <1>3 DEF Write, Step, WriteSent, WriteFailed, Lock, LoopSent,
       LoopFailed, LoopClose, LoopOpen, AgainSent, AgainFailed
  <2>2. UNCHANGED faults \/ Send(Current(w)) \/ SendFails(Current(w))
    BY <1>3 DEF Write, Step, WriteSent, WriteFailed, Lock, LoopSent,
       LoopFailed, LoopClose, LoopOpen, AgainSent, AgainFailed
  <2> QED
    BY <2>1, <2>2 DEF Send, SendFails, Fault
<1> QED
  BY <1>1, <1>2, <1>3, <1>4, <1>5 DEF Next

LEMMA TypeStep ==
  ASSUME TypeOK, LineInv, [Next]_vars
  PROVE  TypeOK'
BY PollStep, LinkStep, RestStep DEF TypeOK, Place

(***************************************************************************)
(* The events of a poller that were returned.                              *)
(***************************************************************************)
LEMMA ReturnedStep ==
  ASSUME TypeOK, LineInv, NEW w \in Writers
  PROVE  /\ Write(w) => \A v \in Writers : Returned(v)' = Returned(v)
         /\ Moves(w) /\ UNCHANGED event =>
              \A v \in Writers : Returned(v)' = Returned(v)
         /\ Ends(w) /\ UNCHANGED event =>
              \A v \in Writers :
                Returned(v)' = Returned(v) \cup (IF v = w THEN {Current(w)} ELSE {})
         /\ pc[w] # "idle" => Current(w) \notin Returned(w)
<1> USE DEF TypeOK
<1>1. event[w] \in Nat /\ (pc[w] # "idle" => event[w] > 0)
  BY DEF LineInv
<1>2. ASSUME Write(w), NEW v \in Writers PROVE Returned(v)' = Returned(v)
  BY <1>1, <1>2 DEF Write, At, Returned
<1>3. ASSUME Moves(w), UNCHANGED event, NEW v \in Writers
      PROVE  Returned(v)' = Returned(v)
  BY <1>3 DEF Moves, Returned
<1>4. ASSUME Ends(w), UNCHANGED event, NEW v \in Writers
      PROVE  Returned(v)' = Returned(v) \cup (IF v = w THEN {Current(w)} ELSE {})
  <2>1. CASE v # w
    BY <1>4, <2>1 DEF Ends, Returned
  <2>2. CASE v = w
    <3>1. Returned(w)' = {<<w, i>> : i \in 1 .. event[w]}
      BY <1>4 DEF Ends, Returned
    <3>2. Returned(w) = {<<w, i>> : i \in 1 .. event[w] - 1}
      BY <1>4 DEF Ends, Returned
    <3>3. 1 .. event[w] = (1 .. event[w] - 1) \cup {event[w]}
      BY <1>1, <1>4 DEF Ends
    <3> QED
      BY <2>2, <3>1, <3>2, <3>3 DEF Current
  <2> QED
    BY <2>1, <2>2
<1>5. pc[w] # "idle" => Current(w) \notin Returned(w)
  BY <1>1 DEF Current, Returned
<1> QED
  BY <1>2, <1>3, <1>4, <1>5

\* The event in hand has gone whole into no connection.
LEMMA InHandIsNew ==
  ASSUME TypeOK, LineInv, NEW w \in Writers, pc[w] # "idle"
  PROVE  Current(w) \notin sent
<1>1. Current(w)[1] = w
  BY DEF Current
<1> QED
  BY <1>1, ReturnedStep DEF LineInv

(***************************************************************************)
(* Sent is what was returned.                                              *)
(***************************************************************************)
LEMMA SentStep ==
  ASSUME TypeOK, LineInv, ReturnedWasSent, [Next]_vars
  PROVE  /\ ReturnedWasSent'
         /\ (\A w \in Writers : pc[w] # "idle" => event[w] > 0)'
         /\ (\A e \in sent : e \in Returned(e[1]))'
<1> USE DEF TypeOK
<1>0. \A e \in sent : e[1] \in Writers
  BY DEF Event
<1>1. CASE UNCHANGED <<poll, sent>>
  BY <1>1 DEF ReturnedWasSent, LineInv, Returned, poll
<1>2. ASSUME NEW w \in Writers, Write(w)
      PROVE  /\ ReturnedWasSent'
             /\ (\A v \in Writers : pc[v] # "idle" => event[v] > 0)'
             /\ (\A e \in sent : e \in Returned(e[1]))'
  <2>1. \A v \in Writers : Returned(v)' = Returned(v)
    BY <1>2, ReturnedStep
  <2>2. UNCHANGED sent
    BY <1>2 DEF Write
  <2>3. \A v \in Writers : pc'[v] # "idle" => event'[v] > 0
    BY <1>2 DEF Write, At, LineInv
  <2> QED
    BY <1>0, <2>1, <2>2, <2>3 DEF ReturnedWasSent, LineInv
<1>3. ASSUME NEW w \in Writers, Moves(w), UNCHANGED <<event, sent>>
      PROVE  /\ ReturnedWasSent'
             /\ (\A v \in Writers : pc[v] # "idle" => event[v] > 0)'
             /\ (\A e \in sent : e \in Returned(e[1]))'
  <2>1. \A v \in Writers : Returned(v)' = Returned(v)
    BY <1>3, ReturnedStep
  <2>2. \A v \in Writers : pc'[v] # "idle" => event'[v] > 0
    BY <1>3 DEF Moves, LineInv
  <2> QED
    BY <1>0, <1>3, <2>1, <2>2 DEF ReturnedWasSent, LineInv
<1>4. ASSUME NEW w \in Writers, Ends(w), Send(Current(w)), UNCHANGED event
      PROVE  /\ ReturnedWasSent'
             /\ (\A v \in Writers : pc[v] # "idle" => event[v] > 0)'
             /\ (\A e \in sent : e \in Returned(e[1]))'
  <2>1. \A v \in Writers :
          Returned(v)' = Returned(v) \cup (IF v = w THEN {Current(w)} ELSE {})
    BY <1>4, ReturnedStep
  <2>2. sent' = sent \cup {Current(w)} /\ Current(w)[1] = w
    BY <1>4 DEF Send, Current
  <2>3. \A v \in Writers : pc'[v] # "idle" => event'[v] > 0
    BY <1>4 DEF Ends, LineInv
  <2>4. \A e \in sent' : e \in Returned(e[1])'
    BY <1>0, <2>1, <2>2 DEF LineInv
  <2> QED
    BY <2>1, <2>2, <2>3, <2>4 DEF ReturnedWasSent
<1>5. \A w \in Writers : SendFails(Current(w)) => UNCHANGED sent
  BY DEF SendFails
<1> QED
  BY <1>1, <1>2, <1>3, <1>4, <1>5, StepKinds DEF Receive, ServerStops

(***************************************************************************)
(* A line is on the wire once.                                             *)
(***************************************************************************)
LEMMA WireStep ==
  ASSUME TypeOK, LineInv, OnceOnTheWire, [Next]_vars
  PROVE  /\ OnceOnTheWire'
         /\ (received \cup glued \subseteq sent)'
         /\ (\A i \in DOMAIN wire : wire[i].whole => wire[i].of \in sent)'
<1> USE DEF TypeOK
<1>1. CASE UNCHANGED <<link, reader, sent>>
  BY <1>1 DEF OnceOnTheWire, LineInv, link, reader
<1>2. CASE Receive
  <2>1. /\ wire # <<>> /\ wire' = Tail(wire) /\ Len(wire) \in Nat /\ Len(wire) > 0
        /\ Head(wire) = wire[1] /\ 1 \in DOMAIN wire /\ UNCHANGED sent
    BY <1>2 DEF Receive
  <2>2. /\ DOMAIN wire' = 1 .. Len(wire) - 1
        /\ \A i \in DOMAIN wire' : wire'[i] = wire[i + 1] /\ i + 1 \in DOMAIN wire
    BY <2>1
  <2>3. received' \cup glued' \subseteq
          received \cup glued \cup {l \in {wire[1].of} : wire[1].whole}
    BY <1>2, <2>1 DEF Receive
  <2>4. \A i \in DOMAIN wire' : wire'[i].whole =>
          /\ wire'[i].of \notin received \cup glued
          /\ wire[1].of = wire'[i].of => ~wire[1].whole
    BY <2>1, <2>2 DEF OnceOnTheWire
  <2>5. ASSUME NEW i \in DOMAIN wire', wire'[i].whole, NEW k \in 1 .. i - 1,
               wire'[k].of = wire'[i].of
        PROVE  ~wire'[k].whole
    <3>1. i + 1 \in DOMAIN wire /\ k + 1 \in 1 .. (i + 1) - 1 /\ k \in DOMAIN wire'
      BY <2>1, <2>2, <2>5
    <3> QED
      BY <2>2, <2>5, <3>1 DEF OnceOnTheWire
  <2>6. OnceOnTheWire'
    BY <2>3, <2>4, <2>5 DEF OnceOnTheWire
  <2>7. received' \cup glued' \subseteq sent'
    BY <2>1, <2>3 DEF LineInv
  <2> QED
    BY <2>1, <2>2, <2>6, <2>7 DEF LineInv
<1>3. CASE ServerStops
  BY <1>3 DEF ServerStops, OnceOnTheWire, LineInv
<1>4. CASE Dial /\ UNCHANGED sent
  BY <1>4 DEF Dial, OnceOnTheWire, LineInv
<1>5. CASE Disconnect /\ UNCHANGED sent
  <2>1. received' \cup glued' \subseteq sent'
    BY <1>5, DisconnectArrives DEF LineInv
  <2> QED
    BY <1>5, <2>1, DisconnectArrives DEF OnceOnTheWire
<1>6. ASSUME NEW w \in Writers, Send(Current(w)), Ends(w), UNCHANGED reader
      PROVE  /\ OnceOnTheWire'
             /\ (received \cup glued \subseteq sent)'
             /\ (\A i \in DOMAIN wire : wire[i].whole => wire[i].of \in sent)'
  <2>0. Current(w) \notin sent /\ sent' = sent \cup {Current(w)} /\ UNCHANGED <<received, glued>>
    BY <1>6, InHandIsNew DEF Ends, Send, reader
  <2>1. CASE UNCHANGED wire
    BY <2>0, <2>1 DEF OnceOnTheWire, LineInv
  <2>2. CASE wire' = Append(wire, [of |-> Current(w), whole |-> TRUE])
    <3>1. /\ Len(wire) \in Nat /\ DOMAIN wire' = 1 .. Len(wire) + 1
          /\ \A i \in DOMAIN wire : wire'[i] = wire[i]
          /\ wire'[Len(wire) + 1] = [of |-> Current(w), whole |-> TRUE]
          /\ DOMAIN wire = 1 .. Len(wire)
      BY <2>2
    <3>2. \A i \in DOMAIN wire : wire'[i].whole => wire'[i].of \in sent
      BY <3>1 DEF LineInv
    <3>3. \A i \in DOMAIN wire' : i \in DOMAIN wire \/ i = Len(wire) + 1
      BY <3>1
    <3>4. ASSUME NEW i \in DOMAIN wire, wire'[i].whole
          PROVE  /\ wire'[i].of \notin received' \cup glued'
                 /\ \A k \in 1 .. i - 1 : wire'[k].of = wire'[i].of => ~wire'[k].whole
      <4>1. wire'[i] = wire[i] /\ wire[i].whole /\ 1 .. i - 1 \subseteq DOMAIN wire
        BY <3>1, <3>4
      <4>2. /\ wire[i].of \notin received \cup glued
            /\ \A k \in 1 .. i - 1 : wire[k].of = wire[i].of => ~wire[k].whole
        BY <4>1 DEF OnceOnTheWire
      <4> QED
        BY <2>0, <3>1, <4>1, <4>2
    <3>5. /\ Current(w) \notin received' \cup glued'
          /\ \A k \in 1 .. Len(wire) : wire'[k].of = Current(w) => ~wire'[k].whole
      BY <2>0, <3>1, <3>2 DEF LineInv
    <3>6. OnceOnTheWire'
      BY <3>1, <3>3, <3>4, <3>5 DEF OnceOnTheWire
    <3> QED
      BY <2>0, <3>1, <3>2, <3>3, <3>6 DEF LineInv
  <2> QED
    BY <1>6, <2>1, <2>2 DEF Send
<1>7. ASSUME NEW w \in Writers, SendFails(Current(w)), UNCHANGED reader
      PROVE  /\ OnceOnTheWire'
             /\ (received \cup glued \subseteq sent)'
             /\ (\A i \in DOMAIN wire : wire[i].whole => wire[i].of \in sent)'
  <2>0. UNCHANGED <<sent, received, glued>>
    BY <1>7 DEF SendFails, reader
  <2>1. CASE UNCHANGED wire
    BY <2>0, <2>1 DEF OnceOnTheWire, LineInv
  <2>2. CASE wire' = Append(wire, [of |-> Current(w), whole |-> FALSE])
    <3>1. /\ Len(wire) \in Nat /\ DOMAIN wire' = 1 .. Len(wire) + 1
          /\ \A i \in DOMAIN wire : wire'[i] = wire[i]
          /\ wire'[Len(wire) + 1] = [of |-> Current(w), whole |-> FALSE]
          /\ DOMAIN wire = 1 .. Len(wire)
      BY <2>2
    <3>2. \A i \in DOMAIN wire' : wire'[i].whole => i \in DOMAIN wire
      BY <3>1
    <3>3. ASSUME NEW i \in DOMAIN wire', wire'[i].whole
          PROVE  /\ wire'[i].of \notin received' \cup glued'
                 /\ \A k \in 1 .. i - 1 : wire'[k].of = wire'[i].of => ~wire'[k].whole
      <4>1. i \in DOMAIN wire /\ wire'[i] = wire[i] /\ 1 .. i - 1 \subseteq DOMAIN wire
        BY <3>1, <3>2, <3>3
      <4>2. /\ wire[i].of \notin received \cup glued
            /\ \A k \in 1 .. i - 1 : wire[k].of = wire[i].of => ~wire[k].whole
        BY <3>3, <4>1 DEF OnceOnTheWire
      <4> QED
        BY <2>0, <3>1, <4>1, <4>2
    <3>4. OnceOnTheWire'
      BY <3>3 DEF OnceOnTheWire
    <3> QED
      BY <2>0, <3>1, <3>2, <3>4 DEF LineInv
  <2> QED
    BY <1>7, <2>1, <2>2 DEF SendFails, link
<1> QED
  BY <1>1, <1>2, <1>3, <1>4, <1>5, <1>6, <1>7, StepKinds DEF Write

(***************************************************************************)
(* The theorems.                                                           *)
(***************************************************************************)
LEMMA InitInv == Init => IInv
<1> SUFFICES ASSUME Init PROVE IInv
  OBVIOUS
<1>1. TypeOK
  <2>1. /\ 0 \in 0 .. MaxFaults
        /\ event \in [Writers -> 0 .. MaxEvents]
        /\ pc \in [Writers -> Place]
    BY DEF Init, Place
  <2> QED
    BY <2>1, EmptyWire DEF Init, TypeOK, Place
<1>2. LineInv /\ OnceOnTheWire
  BY DEF Init, LineInv, OnceOnTheWire
<1>3. ReturnedWasSent
  BY DEF Init, ReturnedWasSent, Returned
<1> QED
  BY <1>1, <1>2, <1>3 DEF IInv

LEMMA StepInv == IInv /\ [Next]_vars => IInv'
BY TypeStep, SentStep, WireStep DEF IInv, LineInv

\* The inductive invariant holds for any pollers, events and faults.
THEOREM InvariantHolds == Spec => []IInv
BY InitInv, StepInv, PTL DEF Spec

\* Every variable of the sink keeps its type.
THEOREM TypeCorrect == Spec => []TypeOK
<1>1. IInv => TypeOK
  BY DEF IInv
<1> QED
  BY <1>1, InvariantHolds, PTL

\* Write returns only for an event that went whole into a connection.
THEOREM ReturnedWasSentHolds == Spec => []ReturnedWasSent
<1>1. IInv => ReturnedWasSent
  BY DEF IInv
<1> QED
  BY <1>1, InvariantHolds, PTL

\* The retries send no event twice.
THEOREM OnceOnTheWireHolds == Spec => []OnceOnTheWire
<1>1. IInv => OnceOnTheWire
  BY DEF IInv
<1> QED
  BY <1>1, InvariantHolds, PTL

=============================================================================
