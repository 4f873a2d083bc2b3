----------------------------- MODULE Logstash2 -----------------------------
(***************************************************************************)
(* The logstash sink, pkg/ls2: one TCP connection, shared by the pollers.  *)
(* Write sends a line under the read lock; when that fails it takes the    *)
(* lock and goes on, in writeloop, until the line is sent: once more on    *)
(* the connection as it is, then closing and opening it again, for ever.   *)
(*                                                                         *)
(* A line is in the connection as a whole or in part: a deadline can cut   *)
(* it short.  What the server has not read when the connection ends may be *)
(* lost.                                                                   *)
(***************************************************************************)
EXTENDS Naturals, Sequences, FiniteSets

CONSTANTS
  Writers,     \* the pollers
  MaxEvents,   \* bound on the events of a poller
  MaxFaults    \* bound on deadlines, failed writes and stops of the server

ASSUME LogstashAssumption == MaxEvents \in Nat /\ MaxFaults \in Nat

Event == Writers \X (1 .. MaxEvents)

VARIABLES
  server,      \* "up", or "down": nobody accepts connections
  conn,        \* ls.Connection: "nil", "open", or "reset" by the peer
  wire,        \* lines sent on it and not yet read: [of, whole]
  torn,        \* the server has read a part of a line and waits for the rest
  received,    \* events the server has read as lines of their own
  glued,       \* events that came behind a torn line, in one line with it
  life,        \* the sink: "connect" (Open), or "run"
  cancelled,   \* the context of the pollers
  pc, event,   \* per poller: where its Write is, and of which event
  sent,        \* history: events that went whole into a connection
  faults

link    == <<conn, wire>>
reader  == <<torn, received, glued>>
poll    == <<pc, event>>
vars    == <<server, link, reader, life, cancelled, poll, sent, faults>>

Fault == faults < MaxFaults /\ faults' = faults + 1

Looping == {w \in Writers : pc[w] \in {"loop", "close", "open", "again"}}
Writing == {w \in Writers : pc[w] = "write"}

Init ==
  /\ server = "up"
  /\ conn = "nil"
  /\ wire = <<>>
  /\ torn = FALSE
  /\ received = {}
  /\ glued = {}
  /\ life = "connect"
  /\ cancelled = FALSE
  /\ pc = [w \in Writers |-> "idle"]
  /\ event = [w \in Writers |-> 0]
  /\ sent = {}
  /\ faults = 0

-----------------------------------------------------------------------------
(* The server and the network *)

\* A torn line ends with its connection.
Receive ==
  /\ wire # <<>>
  /\ wire' = Tail(wire)
  /\ LET l == Head(wire)
     IN  /\ torn' = ~l.whole
         /\ received' = IF l.whole /\ ~torn THEN received \cup {l.of} ELSE received
         /\ glued' = IF l.whole /\ torn THEN glued \cup {l.of} ELSE glued
  /\ UNCHANGED <<server, conn, life, cancelled, poll, sent, faults>>

ServerStops ==
  /\ server = "up"
  /\ Fault
  /\ server' = "down"
  /\ conn' = IF conn = "open" THEN "reset" ELSE conn
  /\ wire' = <<>>
  /\ torn' = FALSE
  /\ UNCHANGED <<received, glued, life, cancelled, poll, sent>>

ServerStarts ==
  /\ server = "down"
  /\ server' = "up"
  /\ UNCHANGED <<link, reader, life, cancelled, poll, sent, faults>>

-----------------------------------------------------------------------------
(* The connection *)

\* Connection.Close: what is on its way may arrive or not.
Disconnect ==
  /\ conn' = "nil"
  /\ wire' = <<>>
  /\ torn' = FALSE
  /\ \/ UNCHANGED <<received, glued>>
     \/ LET whole == {i \in DOMAIN wire : wire[i].whole}
            behind(i) == IF i = 1 THEN torn ELSE ~wire[i - 1].whole
        IN  /\ received' = received \cup {wire[i].of : i \in {j \in whole : ~behind(j)}}
            /\ glued' = glued \cup {wire[i].of : i \in {j \in whole : behind(j)}}

\* open: DialTCP.  While the server is down it fails and is tried again.
Dial ==
  /\ server = "up"
  /\ conn' = "open"
  /\ UNCHANGED <<wire, torn, received, glued>>

\* ls.write succeeds: the line is with the kernel.  A peer that has gone may
\* not have been noticed.
Send(e) ==
  /\ conn # "nil"
  /\ wire' = IF conn = "open" THEN Append(wire, [of |-> e, whole |-> TRUE]) ELSE wire
  /\ sent' = sent \cup {e}
  /\ UNCHANGED <<conn, faults>>

\* Faulty variant of SendFails: a line that was sent is reported as cut short.
SendFailsWhole(e) ==
  \/ conn # "open" /\ UNCHANGED <<link, sent, faults>>
  \/ /\ conn = "open"
     /\ Fault
     /\ wire' = Append(wire, [of |-> e, whole |-> TRUE])
     /\ UNCHANGED <<conn, sent>>

\* It fails: no connection, a peer that has gone, or the deadline, by which a
\* part of the line may have been sent.
SendFails(e) ==
  \/ conn # "open" /\ UNCHANGED <<link, sent, faults>>
  \/ /\ conn = "open"
     /\ Fault
     /\ wire' \in {wire, Append(wire, [of |-> e, whole |-> FALSE])}
     /\ UNCHANGED <<conn, sent>>

-----------------------------------------------------------------------------
(* Open and Close of the sink *)

\* Connect, before any poller is launched.
Connect ==
  /\ life = "connect"
  /\ Dial
  /\ life' = "run"
  /\ UNCHANGED <<server, cancelled, poll, sent, faults>>

Cancel ==
  /\ life = "run"
  /\ ~cancelled
  /\ cancelled' = TRUE
  /\ UNCHANGED <<server, link, reader, life, poll, sent, faults>>

\* stopPolling has waited for the pollers and closes the sink; the next
\* configuration opens a new one.
CloseSink ==
  /\ cancelled
  /\ \A w \in Writers : pc[w] = "idle"
  /\ Disconnect
  /\ life' = "connect"
  /\ cancelled' = FALSE
  /\ UNCHANGED <<server, poll, sent, faults>>

-----------------------------------------------------------------------------
(* Write *)

At(w, from, to) == pc[w] = from /\ pc' = [pc EXCEPT ![w] = to]

Current(w) == <<w, event[w]>>

\* Faulty variant of Write: a poller goes on behind its last event.
WriteOneMore(w) ==
  /\ life = "run"
  /\ event[w] <= MaxEvents
  /\ Looping = {}
  /\ At(w, "idle", "write")
  /\ event' = [event EXCEPT ![w] = @ + 1]
  /\ UNCHANGED <<server, link, reader, life, cancelled, sent, faults>>

\* RLock.  A session that is cancelled may still write the rest of a block.
Write(w) ==
  /\ life = "run"
  /\ event[w] < MaxEvents
  /\ Looping = {}
  /\ At(w, "idle", "write")
  /\ event' = [event EXCEPT ![w] = @ + 1]
  /\ UNCHANGED <<server, link, reader, life, cancelled, sent, faults>>

WriteSent(w) ==
  /\ At(w, "write", "idle")
  /\ Send(Current(w))
  /\ UNCHANGED <<server, reader, life, cancelled, event>>

WriteFailed(w) ==
  /\ At(w, "write", "lock")
  /\ SendFails(Current(w))
  /\ UNCHANGED <<server, reader, life, cancelled, event>>

Lock(w) ==
  /\ Looping = {} /\ Writing = {}
  /\ At(w, "lock", "loop")
  /\ UNCHANGED <<server, link, reader, life, cancelled, event, sent, faults>>

\* "first, try the write again in case someone else fixed it"
LoopSent(w) ==
  /\ At(w, "loop", "idle")
  /\ Send(Current(w))
  /\ UNCHANGED <<server, reader, life, cancelled, event>>

LoopFailed(w) ==
  /\ At(w, "loop", "close")
  /\ SendFails(Current(w))
  /\ UNCHANGED <<server, reader, life, cancelled, event>>

\* Faulty variant of LoopClose: no connection is opened behind it.
LoopCloseOnly(w) ==
  /\ At(w, "close", "again")
  /\ Disconnect
  /\ UNCHANGED <<server, life, cancelled, event, sent, faults>>

\* ls.close; an error of it leaves the connection nil all the same.
LoopClose(w) ==
  /\ At(w, "close", "open")
  /\ Disconnect
  /\ UNCHANGED <<server, life, cancelled, event, sent, faults>>

\* Faulty variant of LoopOpen: it gives up when the server does not answer.
LoopOpenOnce(w) ==
  /\ IF server = "up" THEN At(w, "open", "again") /\ Dial
     ELSE At(w, "open", "idle") /\ UNCHANGED <<link, reader>>
  /\ UNCHANGED <<server, life, cancelled, event, sent, faults>>

\* Tried until the server answers: the policy has no limit, and the context
\* it looks at is never done.
LoopOpen(w) ==
  /\ At(w, "open", "again")
  /\ Dial
  /\ UNCHANGED <<server, life, cancelled, event, sent, faults>>

AgainSent(w) ==
  /\ At(w, "again", "idle")
  /\ Send(Current(w))
  /\ UNCHANGED <<server, reader, life, cancelled, event>>

AgainFailed(w) ==
  /\ At(w, "again", "close")
  /\ SendFails(Current(w))
  /\ UNCHANGED <<server, reader, life, cancelled, event>>

Step(w) ==
  \/ WriteSent(w)
  \/ WriteFailed(w)
  \/ Lock(w)
  \/ LoopSent(w)
  \/ LoopFailed(w)
  \/ LoopClose(w)
  \/ LoopOpen(w)
  \/ AgainSent(w)
  \/ AgainFailed(w)

Next ==
  \/ Receive
  \/ ServerStops
  \/ ServerStarts
  \/ Connect
  \/ Cancel
  \/ CloseSink
  \/ \E w \in Writers : Write(w) \/ Step(w)

Spec == Init /\ [][Next]_vars

\* Pollers run; a mutex is not withheld from one of them for ever; a server
\* that accepts connections for good is reached in the end.  Nothing makes
\* the server start.
Fairness ==
  /\ WF_vars(Connect)
  /\ \A w \in Writers :
       WF_vars(Step(w)) /\ SF_vars(Lock(w)) /\ SF_vars(LoopOpen(w))

FairSpec == Spec /\ Fairness

-----------------------------------------------------------------------------
(* Properties *)

Line == [of : Event, whole : BOOLEAN]

TypeOK ==
  /\ server \in {"up", "down"}
  /\ conn \in {"nil", "open", "reset"}
  /\ wire \in Seq(Line)
  /\ torn \in BOOLEAN /\ cancelled \in BOOLEAN
  /\ received \subseteq Event /\ glued \subseteq Event /\ sent \subseteq Event
  /\ life \in {"connect", "run"}
  /\ pc \in [Writers -> {"idle", "write", "lock", "loop", "close", "open", "again"}]
  /\ event \in [Writers -> 0 .. MaxEvents]
  /\ faults \in 0 .. MaxFaults

Returned(w) == {<<w, i>> : i \in 1 .. IF pc[w] = "idle" THEN event[w] ELSE event[w] - 1}

\* Write always returns nil: it returns only for an event that went whole into
\* a connection, whoever repaired it, however often it broke, and whether or
\* not the pollers were cancelled meanwhile.
ReturnedWasSent == \A w \in Writers : Returned(w) \subseteq sent

\* Retrying sends no event twice, on one connection or on two: a write that
\* failed has not sent its whole line, whoever wrote behind it.
OnceOnTheWire ==
  \A i \in {k \in DOMAIN wire : wire[k].whole} :
    /\ wire[i].of \notin received \cup glued
    /\ \A k \in 1 .. i - 1 : wire[k].of = wire[i].of => ~wire[k].whole

\* Why the two hold: the event of a Write that has not returned is new, it has
\* gone whole into no connection; and nothing is on the wire or with the
\* server that has not gone into one.
LineInv ==
  /\ \A w \in Writers : pc[w] # "idle" => event[w] > 0
  /\ \A e \in sent : e \in Returned(e[1])
  /\ received \cup glued \subseteq sent
  /\ \A i \in DOMAIN wire : wire[i].whole => wire[i].of \in sent

IInv == TypeOK /\ LineInv /\ ReturnedWasSent /\ OnceOnTheWire

\* When the server stays up, every Write returns, and no poller keeps the
\* others from it.
WritesReturn ==
  <>[](server = "up") => \A w \in Writers : pc[w] # "idle" ~> pc[w] = "idle"

\* logstash_v2.md: "On error: close the connection, nil the connection, try
\* again": what follows a line cut short is not sent behind it, and a whole
\* line arrives as a line of its own.
NothingBehindTornLine == glued = {}

\* logstash_v2.md: "The retry uses a SELECT with Cancel and timer/ticker to
\* handle context cancel": once the pollers are cancelled, every Write ends.
CancelEndsWrite ==
  \A w \in Writers : cancelled ~> pc[w] = "idle" \/ ~cancelled
=============================================================================
