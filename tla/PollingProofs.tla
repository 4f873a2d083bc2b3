--------------------------- MODULE PollingProofs ---------------------------
(***************************************************************************)
(* Proofs about Polling, for any versions of the configuration file, any   *)
(* number of sources and of calls of startPolling: one reader for an       *)
(* instance, its sinks open, and a single run that leaves no source out.   *)
(***************************************************************************)
EXTENDS Polling, TLAPS

USE PollingAssumption DEF PollingAssumption

Caller == {"main", "watcher"}
Stage == {"none", "launched", "delay", "check", "source", "session", "tick", "gone"}

(***************************************************************************)
(* The versions of the file.                                               *)
(***************************************************************************)
LEMMA SourcesOf ==
  ASSUME NEW v \in Version
  PROVE  /\ Len(Sources[v]) \in Nat
         /\ DOMAIN Sources[v] = 1 .. Len(Sources[v])
         /\ DOMAIN Sources[v] \subseteq Slot
         /\ \A i \in DOMAIN Sources[v] : Sources[v][i] \in ToSet(Sources[v])
         /\ ToSet(Sources[v]) \subseteq Instance
<1>1. Sources[v] \in Seq(ToSet(Sources[v]))
  OBVIOUS
<1>2. Len(Sources[v]) \in Nat /\ DOMAIN Sources[v] = 1 .. Len(Sources[v])
  BY <1>1
<1>3. DOMAIN Sources[v] \subseteq Slot
  BY DEF Slot
<1>4. ToSet(Sources[v]) \subseteq Instance
  BY DEF Instance
<1>5. \A i \in DOMAIN Sources[v] : Sources[v][i] \in ToSet(Sources[v])
  BY DEF ToSet
<1> QED
  BY <1>2, <1>3, <1>4, <1>5

LEMMA SlotsAreNumbers == Slot \subseteq Nat \ {0}
<1> SUFFICES ASSUME NEW v \in Version, NEW i \in DOMAIN Sources[v]
             PROVE  i \in Nat \ {0}
  BY DEF Slot
<1> QED
  BY SourcesOf

LEMMA PollerParts ==
  ASSUME NEW p \in Poller
  PROVE  /\ p[1] \in Gen /\ p[1] \in Nat /\ p[2] \in Slot /\ p = <<p[1], p[2]>>
BY DEF Poller, Gen

(***************************************************************************)
(* The steps, by who takes them.                                           *)
(***************************************************************************)

\* A step of main, of the watcher or of somebody who edits the file.
Outside == StartWatching \/ StopRequest \/ Exit \/ Notice \/ Edit

LEMMA StepKinds ==
  ASSUME [Next]_vars
  PROVE  \/ UNCHANGED vars
         \/ Outside
         \/ \E c \in Caller : Step(c)
         \/ \E p \in Poller : Run(p)
BY DEF Next, Outside, Caller

LEMMA OutsideStep ==
  ASSUME Outside
  PROVE  UNCHANGED <<call, instances, poller>>
BY DEF Outside, StartWatching, StopRequest, Exit, Notice, Edit, callers

\* Where a poller can go from where it is.
LEMMA RunStep ==
  ASSUME NEW p \in Poller, Run(p)
  PROVE  /\ UNCHANGED <<disk, callers, call>>
         /\ \E to \in Stage \ {"none", "launched"} :
              /\ poller' = [poller EXCEPT ![p] = to]
              /\ poller[p] \notin {"none", "gone"}
              /\ to = "session" => poller[p] = "source" /\ ~Done(p)
              /\ to = "source" => \/ poller[p] = "tick"
                                  \/ poller[p] = "check" /\ InstanceOf(p) \notin instances
              /\ to = "tick" => poller[p] \in {"source", "session"}
              /\ IF poller[p] = "check" /\ to = "source"
                   THEN instances' = instances \cup {InstanceOf(p)}
                   ELSE UNCHANGED instances
              /\ to = "delay" => loop
              /\ poller[p] = "launched" => to = IF loop THEN "delay" ELSE "check"
              /\ poller[p] = "check" => \/ to = "source"
                                        \/ InstanceOf(p) \in instances \/ Done(p)
<1>1. CASE Count(p) \/ DelayOver(p) \/ DelayCancelled(p)
  BY <1>1 DEF Count, DelayOver, DelayCancelled, Moves, Stage
<1>2. CASE Register(p) \/ SkipDuplicate(p) \/ CheckCancelled(p)
  BY <1>2 DEF Register, SkipDuplicate, CheckCancelled, Moves, Stage
<1>3. CASE EnterSession(p) \/ SkipSessions(p) \/ LeaveSession(p)
  BY <1>3 DEF EnterSession, SkipSessions, LeaveSession, Moves, Stage
<1>4. CASE Panic(p) \/ Tick(p) \/ Leave(p)
  BY <1>4 DEF Panic, Tick, Leave, Moves, Stage
<1> QED
  BY <1>1, <1>2, <1>3, <1>4 DEF Run

\* Of the calls, only Launch touches the pollers, and only CloseSinks the
\* instances.
LEMMA CallStep ==
  ASSUME NEW c \in Caller, Step(c)
  PROVE  /\ UNCHANGED <<disk, loop>>
         /\ ~Launch(c) => UNCHANGED poller
         /\ ~CloseSinks(c) => UNCHANGED instances
         /\ ~LoadConfig(c) => UNCHANGED loaded
         /\ ~BeginStop(c) => UNCHANGED cancelled
         /\ ~BeginStart(c) => UNCHANGED gen
         /\ ~(OpenSinks(c) \/ CloseSinks(c) \/ CloseSinksError(c)) => UNCHANGED sinksOpen
         /\ ~(OpenSinks(c) \/ Launch(c)) => UNCHANGED next
BY DEF Step, BeginStart, LoadConfig, LoadConfigError, OpenSinks, OpenSinksError,
   Launch, EndStart, BeginStop, WaitGroup, CloseSinks, CloseSinksError

(***************************************************************************)
(* Types.                                                                  *)
(***************************************************************************)
LEMMA TypeStep ==
  ASSUME TypeOK, CallInv, LaunchInv, [Next]_vars
  PROVE  TypeOK'
<1> USE DEF TypeOK
<1>1. CASE UNCHANGED vars
  BY <1>1 DEF vars, disk, callers, call
<1>2. CASE Outside
  <2>1. UNCHANGED <<call, instances, poller>>
    BY <1>2, OutsideStep
  <2>2. CASE Edit
    BY <2>1, <2>2 DEF Edit, callers, call
  <2>3. CASE Notice
    BY <2>1, <2>3 DEF Notice, call
  <2>4. CASE StartWatching \/ StopRequest \/ Exit
    <3>1. /\ UNCHANGED disk /\ main' \in {"run", "stop", "exited"}
          /\ watcher' \in {watcher, "wait", "off"}
      BY <2>4 DEF StartWatching, StopRequest, Exit
    <3> QED
      BY <2>1, <3>1 DEF call, disk
  <2> QED
    BY <1>2, <2>2, <2>3, <2>4 DEF Outside
<1>3. ASSUME NEW c \in Caller, Step(c)
      PROVE  TypeOK'
  <2>0. gen \in Nat /\ MaxGen \in Nat
    OBVIOUS
  <2>1. CASE BeginStart(c)
    BY <2>0, <1>3, <2>1 DEF BeginStart, disk, callers, Caller
  <2>2. CASE LoadConfig(c)
    BY <1>3, <2>2 DEF LoadConfig, disk, callers
  <2>3. CASE LoadConfigError(c)
    BY <1>3, <2>3 DEF LoadConfigError, Returns, disk
  <2>4. CASE OpenSinks(c)
    BY <1>3, <2>4 DEF OpenSinks, disk, callers
  <2>5. CASE OpenSinksError(c)
    BY <1>3, <2>5 DEF OpenSinksError, Returns, disk
  <2>6. CASE Launch(c)
    <3>1. loaded[gen] \in Version /\ gen \in Gen
      BY <2>6 DEF Launch, LaunchInv, CallInv
    <3>2. next \in Slot
      BY <2>6, <3>1, SourcesOf, SlotsAreNumbers DEF Launch
    <3>3. <<gen, next>> \in Poller
      BY <3>1, <3>2 DEF Poller
    <3> QED
      BY <2>6, <3>2, <3>3 DEF Launch, disk, callers
  <2>7. CASE EndStart(c)
    BY <1>3, <2>7 DEF EndStart, Returns, disk
  <2>8. CASE BeginStop(c)
    <3>1. gen \in Gen
      BY <2>8 DEF BeginStop, CallInv, Calls, Caller
    <3> QED
      BY <1>3, <2>8, <3>1 DEF BeginStop, disk, callers, Caller
  <2>9. CASE WaitGroup(c)
    BY <1>3, <2>9 DEF WaitGroup, disk, callers
  <2>10. CASE CloseSinks(c) \/ CloseSinksError(c)
    BY <1>3, <2>10 DEF CloseSinks, CloseSinksError, Returns, disk
  <2> QED
    BY <1>3, <2>1, <2>2, <2>3, <2>4, <2>5, <2>6, <2>7, <2>8, <2>9, <2>10 DEF Step
<1>4. ASSUME NEW p \in Poller, Run(p)
      PROVE  TypeOK'
  <2>1. InstanceOf(p) \in Instance \/ poller[p] = "none"
    BY SourcesOf DEF InstanceOf, LaunchInv, Started
  <2>2. PICK to \in Stage : /\ poller' = [poller EXCEPT ![p] = to]
                            /\ poller[p] # "none"
                            /\ instances' \subseteq instances \cup {InstanceOf(p)}
    BY <1>4, RunStep
  <2> QED
    BY <1>4, <2>1, <2>2, RunStep DEF disk, callers, call, Stage
<1> QED
  BY <1>1, <1>2, <1>3, <1>4, StepKinds

(***************************************************************************)
(* The calls and the contexts.                                             *)
(***************************************************************************)
LEMMA CallInvStep ==
  ASSUME TypeOK, CallInv, ContextInv, [Next]_vars
  PROVE  CallInv'
<1> USE DEF TypeOK, CallInv, Calls, Gen
<1>1. CASE UNCHANGED vars
  BY <1>1 DEF vars, callers, call
<1>2. CASE Outside
  BY <1>2 DEF Outside, StartWatching, StopRequest, Exit, Notice, Edit, callers, call
<1>3. ASSUME NEW c \in Caller, Step(c)
      PROVE  CallInv'
  <2>1. CASE BeginStart(c)
    BY <1>3, <2>1 DEF BeginStart, callers, Caller, ContextInv
  <2>2. CASE LoadConfig(c) \/ OpenSinks(c) \/ Launch(c) \/ WaitGroup(c)
    BY <1>3, <2>2 DEF LoadConfig, OpenSinks, Launch, WaitGroup, callers, Caller
  <2>3. CASE LoadConfigError(c) \/ OpenSinksError(c) \/ EndStart(c)
    BY <1>3, <2>3 DEF LoadConfigError, OpenSinksError, EndStart, Returns, Caller
  <2>4. CASE BeginStop(c)
    BY <1>3, <2>4 DEF BeginStop, callers, Caller
  <2>5. CASE CloseSinks(c) \/ CloseSinksError(c)
    BY <1>3, <2>5 DEF CloseSinks, CloseSinksError, Returns, Caller
  <2> QED
    BY <1>3, <2>1, <2>2, <2>3, <2>4, <2>5 DEF Step
<1>4. ASSUME NEW p \in Poller, Run(p)
      PROVE  CallInv'
  BY <1>4, RunStep DEF callers, call
<1> QED
  BY <1>1, <1>2, <1>3, <1>4, StepKinds

LEMMA ContextStep ==
  ASSUME TypeOK, CallInv, ContextInv, [Next]_vars
  PROVE  ContextInv'
<1> USE DEF TypeOK, ContextInv, Gen
<1>1. CASE UNCHANGED vars
  BY <1>1 DEF vars, callers, call
<1>2. CASE Outside
  BY <1>2 DEF Outside, StartWatching, StopRequest, Exit, Notice, Edit, callers, call
<1>3. ASSUME NEW c \in Caller, Step(c)
      PROVE  ContextInv'
  <2>1. CASE BeginStart(c)
    <3>1. /\ gen' = gen + 1 /\ UNCHANGED <<cancelled, watcher, main>> /\ holder' = c
          /\ phase' = "load" /\ holder = "none"
      BY <1>3, <2>1 DEF BeginStart, callers
    <3>2. gen = 0 \/ gen \in cancelled
      BY <1>3, <2>1 DEF BeginStart, Calls, CallInv, Caller
    <3>3. watcher = "start" => c = "watcher"
      BY <1>3, <2>1 DEF BeginStart, Calls, CallInv, Caller
    <3>4. 1 .. gen' - 1 \subseteq cancelled
      BY <3>1, <3>2
    <3> QED
      BY <3>1, <3>3, <3>4
  <2>2. CASE LoadConfig(c) \/ OpenSinks(c) \/ Launch(c) \/ WaitGroup(c)
    BY <1>3, <2>2 DEF LoadConfig, OpenSinks, Launch, WaitGroup, callers
  <2>3. CASE LoadConfigError(c) \/ OpenSinksError(c) \/ EndStart(c)
    BY <1>3, <2>3 DEF LoadConfigError, OpenSinksError, EndStart, Returns, Caller,
       CallInv, Calls
  <2>4. CASE BeginStop(c)
    <3>1. gen \in Gen
      BY <1>3, <2>4 DEF BeginStop, Calls, Caller, CallInv
    <3> QED
      BY <1>3, <2>4, <3>1 DEF BeginStop, callers
  <2>5. CASE CloseSinks(c) \/ CloseSinksError(c)
    BY <1>3, <2>5 DEF CloseSinks, CloseSinksError, Returns
  <2> QED
    BY <1>3, <2>1, <2>2, <2>3, <2>4, <2>5 DEF Step
<1>4. ASSUME NEW p \in Poller, Run(p)
      PROVE  ContextInv'
  <2>1. UNCHANGED <<gen, cancelled, phase, watcher, holder>>
    BY <1>4, RunStep DEF callers, call
  <2> QED
    BY <2>1
<1> QED
  BY <1>1, <1>2, <1>3, <1>4, StepKinds

(***************************************************************************)
(* The pollers of each context.                                            *)
(***************************************************************************)
LEMMA LaunchStep ==
  ASSUME TypeOK, CallInv, ContextInv, LaunchInv, [Next]_vars
  PROVE  LaunchInv'
<1> USE DEF TypeOK, LaunchInv, Started, Gen
<1>0. \A p \in Poller : p[1] \in Gen
  BY PollerParts
<1>1. CASE UNCHANGED vars
  BY <1>1 DEF vars, call
<1>2. CASE Outside
  BY <1>2, OutsideStep DEF call
<1>3. ASSUME NEW c \in Caller, Step(c)
      PROVE  LaunchInv'
  <2>1. CASE BeginStart(c)
    <3>1. gen' = gen + 1 /\ UNCHANGED <<poller, loaded>> /\ phase' = "load"
      BY <1>3, <2>1 DEF BeginStart
    <3> QED
      BY <1>0, <3>1
  <2>2. CASE LoadConfig(c)
    <3>1. /\ loaded' = [loaded EXCEPT ![gen] = config] /\ phase = "load"
          /\ UNCHANGED <<gen, poller>> /\ phase' = "open"
      BY <2>2 DEF LoadConfig
    <3>2. gen \in Gen
      BY <3>1 DEF CallInv
    <3> QED
      BY <1>0, <3>1, <3>2
  <2>3. CASE OpenSinks(c)
    <3>1. UNCHANGED <<loaded, gen, poller>> /\ phase = "open" /\ phase' = "launch"
      BY <2>3 DEF OpenSinks
    <3> QED
      BY <3>1
  <2>4. CASE Launch(c)
    <3>1. /\ poller' = [poller EXCEPT ![<<gen, next>>] = "launched"]
          /\ UNCHANGED <<loaded, gen, phase>> /\ phase = "launch"
          /\ next <= Len(Sources[loaded[gen]])
      BY <2>4 DEF Launch
    <3>2. loaded[gen] \in Version /\ next \in Nat \ {0}
      BY <3>1, SlotsAreNumbers
    <3>3. next \in DOMAIN Sources[loaded[gen]]
      BY <3>1, <3>2, SourcesOf
    <3>4. \A p \in Poller : poller'[p] # poller[p] => p = <<gen, next>>
      BY <3>1
    <3> QED
      BY <3>1, <3>2, <3>3, <3>4
  <2>5. CASE LoadConfigError(c) \/ OpenSinksError(c) \/ EndStart(c)
    BY <1>3, <2>5, CallStep DEF LoadConfigError, OpenSinksError, EndStart, Returns
  <2>6. CASE BeginStop(c) \/ WaitGroup(c)
    BY <2>6 DEF BeginStop, WaitGroup
  <2>7. CASE CloseSinks(c) \/ CloseSinksError(c)
    BY <2>7 DEF CloseSinks, CloseSinksError, Returns
  <2> QED
    BY <1>3, <2>1, <2>2, <2>3, <2>4, <2>5, <2>6, <2>7 DEF Step
<1>4. ASSUME NEW p \in Poller, Run(p)
      PROVE  LaunchInv'
  <2>1. /\ UNCHANGED <<gen, loaded, phase>>
        /\ \A q \in Poller : poller'[q] # poller[q] => poller[q] # "none"
    BY <1>4, RunStep DEF call
  <2> QED
    BY <2>1
<1> QED
  BY <1>1, <1>2, <1>3, <1>4, StepKinds

(***************************************************************************)
(* The sinks of whoever reads.                                             *)
(***************************************************************************)

\* Whose context is not done is of the last startPolling.
LEMMA LastContext ==
  ASSUME TypeOK, ContextInv, LaunchInv, NEW p \in Poller, Started(p), ~Done(p)
  PROVE  p[1] = gen /\ gen \notin cancelled
<1>1. p[1] \in Nat /\ p[1] >= 1 /\ p[1] <= gen /\ gen \in Nat
  BY PollerParts DEF LaunchInv, TypeOK, Gen
<1>2. p[1] \notin 1 .. gen - 1
  BY DEF Done, ContextInv
<1> QED
  BY <1>1, <1>2 DEF Done

\* What a step must not do to the readers: SinksInv and ReadersHaveSinks.
LEMMA SinksStep ==
  ASSUME TypeOK, CallInv, ContextInv, LaunchInv, SinksInv, ReadersHaveSinks, [Next]_vars
  PROVE  SinksInv' /\ ReadersHaveSinks'
<1> USE DEF SinksInv, ReadersHaveSinks, Reads, Done, Started
<1>0. \A p \in Poller : p[1] \in Gen
  BY PollerParts
<1>1. CASE UNCHANGED vars
  BY <1>1 DEF vars, call
<1>2. CASE Outside
  BY <1>2, OutsideStep DEF call
<1>3. ASSUME NEW c \in Caller, Step(c)
      PROVE  SinksInv' /\ ReadersHaveSinks'
  <2>1. CASE BeginStart(c)
    <3>1. /\ gen' = gen + 1 /\ UNCHANGED <<cancelled, poller, sinksOpen>>
          /\ phase' = "load" /\ holder = "none"
      BY <2>1 DEF BeginStart
    <3>2. phase = "none" /\ (gen = 0 \/ gen \in cancelled)
      BY <1>3, <2>1, <3>1 DEF BeginStart, CallInv, ContextInv, Calls, Caller
    <3>3. \A p \in Poller : ~Reads(p)
      BY <1>0, <3>1, <3>2 DEF Gen
    <3> QED
      BY <3>1, <3>3
  <2>2. CASE LoadConfig(c)
    <3>1. /\ UNCHANGED <<cancelled, poller, sinksOpen, gen>>
          /\ phase = "load" /\ phase' = "open"
      BY <2>2 DEF LoadConfig
    <3> QED
      BY <3>1
  <2>3. CASE OpenSinks(c)
    <3>1. UNCHANGED <<cancelled, poller, gen>> /\ sinksOpen' /\ phase = "open"
      BY <2>3 DEF OpenSinks
    <3> QED
      BY <3>1
  <2>4. CASE Launch(c)
    <3>1. /\ poller' = [poller EXCEPT ![<<gen, next>>] = "launched"]
          /\ UNCHANGED <<cancelled, gen, phase, sinksOpen>> /\ phase = "launch"
      BY <2>4 DEF Launch
    <3>2. \A p \in Poller : poller'[p] \in {poller[p], "launched"}
      BY <3>1 DEF TypeOK
    <3> QED
      BY <3>1, <3>2
  <2>5. CASE LoadConfigError(c) \/ OpenSinksError(c) \/ EndStart(c)
    <3>1. /\ UNCHANGED <<cancelled, poller, gen, sinksOpen>> /\ phase' = "none"
          /\ phase \in {"load", "open", "launch"}
      BY <2>5 DEF LoadConfigError, OpenSinksError, EndStart, Returns
    <3> QED
      BY <3>1
  <2>6. CASE BeginStop(c)
    <3>1. /\ UNCHANGED <<poller, gen, sinksOpen>> /\ phase' = "wait"
          /\ cancelled' = cancelled \cup {gen}
      BY <2>6 DEF BeginStop
    <3> QED
      BY <3>1
  <2>7. CASE WaitGroup(c)
    <3>1. /\ UNCHANGED <<poller, gen, sinksOpen, cancelled>> /\ phase' = "close"
          /\ Counted = {}
      BY <2>7 DEF WaitGroup
    <3>2. \A p \in Poller : ~Reads(p)
      BY <3>1 DEF Counted
    <3> QED
      BY <3>1, <3>2
  <2>8. CASE CloseSinks(c) \/ CloseSinksError(c)
    <3>1. /\ UNCHANGED <<poller, gen, cancelled>> /\ phase = "close" /\ phase' = "none"
      BY <2>8 DEF CloseSinks, CloseSinksError, Returns
    <3>2. gen \in cancelled
      BY <3>1 DEF ContextInv
    <3>3. \A p \in Poller : Started(p) => Done(p)
      BY <3>2, LastContext
    <3>4. \A p \in Poller : ~Reads(p)
      BY <3>1, <3>3
    <3> QED
      BY <3>1, <3>3, <3>4
  <2> QED
    BY <1>3, <2>1, <2>2, <2>3, <2>4, <2>5, <2>6, <2>7, <2>8 DEF Step
<1>4. ASSUME NEW p \in Poller, Run(p)
      PROVE  SinksInv' /\ ReadersHaveSinks'
  <2>1. /\ UNCHANGED <<gen, cancelled, phase, sinksOpen>>
        /\ \A q \in Poller : poller'[q] # poller[q] =>
             Started(q) /\ (poller'[q] = "session" => ~Done(q))
    BY <1>4, RunStep DEF call, TypeOK
  <2>2. \A q \in Poller : Started(q) /\ ~Done(q) => q[1] = gen
    BY LastContext
  <2> QED
    BY <2>1, <2>2
<1> QED
  BY <1>1, <1>2, <1>3, <1>4, StepKinds

(***************************************************************************)
(* One reader for an instance.                                             *)
(***************************************************************************)
LEMMA RegisterStep ==
  ASSUME TypeOK, CallInv, ContextInv, LaunchInv, SinksInv, RegisterInv, [Next]_vars
  PROVE  RegisterInv'
<1> USE DEF Holds, Reads, Done
<1>0. RegisterInv' \/ ~( /\ \A p \in Poller : Holds(p)' => Holds(p) /\ InstanceOf(p)' = InstanceOf(p)
                       /\ instances \subseteq instances')
  BY DEF RegisterInv
<1>s. \A p \in Poller : Holds(p) => Started(p) /\ p[1] \in Gen
  BY PollerParts DEF Started
<1>1. CASE UNCHANGED <<call, instances, poller>>
  BY <1>0, <1>1 DEF call, InstanceOf
<1>2. ASSUME NEW c \in Caller, Step(c)
      PROVE  RegisterInv'
  <2>1. CASE LoadConfig(c)
    <3>1. /\ loaded' = [loaded EXCEPT ![gen] = config] /\ phase = "load"
          /\ UNCHANGED <<cancelled, poller, instances>>
      BY <2>1 DEF LoadConfig
    <3>2. \A p \in Poller : Holds(p) => p[1] # gen
      BY <1>s, <3>1 DEF LaunchInv
    <3>3. \A p \in Poller : Holds(p) => InstanceOf(p)' = InstanceOf(p)
      BY <1>s, <3>1, <3>2 DEF InstanceOf, TypeOK
    <3> QED
      BY <1>0, <3>1, <3>3
  <2>2. CASE Launch(c)
    <3>1. /\ poller' = [poller EXCEPT ![<<gen, next>>] = "launched"]
          /\ UNCHANGED <<cancelled, loaded, instances>>
      BY <2>2 DEF Launch
    <3>2. \A p \in Poller : poller'[p] \in {poller[p], "launched"}
      BY <3>1 DEF TypeOK
    <3> QED
      BY <1>0, <3>1, <3>2 DEF InstanceOf
  <2>3. CASE BeginStop(c)
    <3>1. cancelled \subseteq cancelled' /\ UNCHANGED <<poller, loaded, instances>>
      BY <2>3 DEF BeginStop
    <3> QED
      BY <1>0, <3>1 DEF InstanceOf
  <2>4. CASE CloseSinks(c)
    <3>1. UNCHANGED <<poller, cancelled>> /\ phase = "close"
      BY <2>4 DEF CloseSinks
    <3>2. gen \in cancelled
      BY <3>1 DEF ContextInv
    <3>3. \A p \in Poller : ~Holds(p)
      BY <1>s, <3>1, <3>2, LastContext DEF SinksInv
    <3> QED
      BY <3>1, <3>3 DEF RegisterInv
  <2>5. CASE ~(LoadConfig(c) \/ Launch(c) \/ BeginStop(c) \/ CloseSinks(c))
    <3>1. UNCHANGED <<poller, cancelled, loaded, instances>>
      BY <1>2, <2>5, CallStep
    <3> QED
      BY <1>0, <3>1 DEF InstanceOf
  <2> QED
    BY <2>1, <2>2, <2>3, <2>4, <2>5
<1>3. ASSUME NEW p \in Poller, Run(p)
      PROVE  RegisterInv'
  <2>1. PICK to \in Stage : /\ poller' = [poller EXCEPT ![p] = to]
                            /\ to = "session" => poller[p] = "source" /\ ~Done(p)
                            /\ to = "source" => poller[p] \in {"tick", "check"}
                            /\ to = "tick" => poller[p] \in {"source", "session"}
    BY <1>3, RunStep
  <2>2. UNCHANGED <<cancelled, loaded>> /\ \A q \in Poller : InstanceOf(q)' = InstanceOf(q)
    BY <1>3, RunStep DEF call, InstanceOf
  <2>3. \A q \in Poller : q # p => (Holds(q)' <=> Holds(q))
    BY <2>1, <2>2 DEF TypeOK
  <2>4. poller'[p] = to
    BY <2>1 DEF TypeOK
  <2>5. CASE poller[p] = "check" /\ to = "source"
    <3>1. instances' = instances \cup {InstanceOf(p)} /\ InstanceOf(p) \notin instances
      BY <1>3, <2>4, <2>5, RunStep DEF TypeOK
    <3>2. \A q \in Poller : Holds(q) => InstanceOf(q) # InstanceOf(p)
      BY <3>1 DEF RegisterInv
    <3> QED
      BY <2>2, <2>3, <3>1, <3>2 DEF RegisterInv
  <2>6. CASE ~(poller[p] = "check" /\ to = "source")
    <3>1. UNCHANGED instances
      BY <1>3, <2>4, <2>6, RunStep DEF TypeOK
    <3>2. Holds(p)' => Holds(p)
      BY <2>1, <2>2, <2>4, <2>6
    <3> QED
      BY <1>0, <2>2, <2>3, <3>1, <3>2
  <2> QED
    BY <2>5, <2>6
<1> QED
  BY <1>1, <1>2, <1>3, StepKinds, OutsideStep DEF vars

(***************************************************************************)
(* A single run.                                                           *)
(***************************************************************************)

\* Before the first source is launched nothing runs.
LEMMA NothingRuns ==
  ASSUME TypeOK, CallInv, LaunchInv, SingleRunInv, main = "start", phase # "launch"
  PROVE  \A p \in Poller : ~Started(p)
<1>1. gen = 0 \/ phase \in {"load", "open"}
  BY DEF TypeOK, CallInv, Calls
<1>2. gen <= 1 /\ gen \in Nat
  BY DEF TypeOK, SingleRunInv
<1>3. \A p \in Poller : p[1] \in Nat /\ p[1] >= 1
  BY PollerParts DEF Gen
<1> QED
  BY <1>1, <1>2, <1>3 DEF LaunchInv

\* In the first call of startPolling: what has been launched is seen to.
StartedInv ==
  /\ main = "start" => cancelled = {} /\ gen <= 1
  /\ main = "start" /\ phase # "launch" => instances = {}
  /\ ~loop /\ main = "start" /\ phase = "launch" =>
       /\ instances \subseteq ToSet(Sources[loaded[1]])
       /\ \A i \in 1 .. next - 1 : \/ poller[<<1, i>>] \in {"launched", "check"}
                                   \/ Sources[loaded[1]][i] \in instances

\* After it.
CompleteInv ==
  ~loop /\ gen = 1 /\ main \in {"watch", "run", "stop"} /\ watcher # "start" =>
     /\ instances = ToSet(Sources[loaded[1]])
     /\ \A p \in Poller : poller[p] \in {"none", "gone"}

LEMMA StartedStep ==
  ASSUME TypeOK, CallInv, LaunchInv, SingleRunInv, [Next]_vars
  PROVE  StartedInv'
<1> USE DEF TypeOK
<1>0. StartedInv
  BY DEF SingleRunInv, StartedInv
<1>1. CASE UNCHANGED <<main, call, instances, poller>>
  BY <1>0, <1>1 DEF StartedInv, call
<1>2. CASE Outside
  <2>1. main' = main \/ main' # "start"
    BY <1>2 DEF Outside, StartWatching, StopRequest, Exit, Notice, Edit, callers
  <2> QED
    BY <1>0, <1>2, <2>1, OutsideStep DEF StartedInv, call
<1>3. ASSUME NEW c \in Caller, Step(c), main' = "start"
      PROVE  StartedInv'
  <2>0. main = "start" /\ watcher = "off" /\ (holder = "none" => gen = 0)
    <3>1. main = "start"
      BY <1>3 DEF Step, BeginStart, LoadConfig, LoadConfigError, OpenSinks, OpenSinksError,
         Launch, EndStart, BeginStop, WaitGroup, CloseSinks, CloseSinksError, Returns,
         callers
    <3> QED
      BY <3>1 DEF CallInv
  <2>1. CASE BeginStart(c)
    <3>1. /\ gen' = gen + 1 /\ phase' = "load" /\ holder = "none"
          /\ UNCHANGED <<cancelled, instances>>
      BY <2>1 DEF BeginStart
    <3>2. phase = "none"
      BY <3>1 DEF CallInv
    <3> QED
      BY <1>0, <2>0, <3>1, <3>2 DEF StartedInv
  <2>2. CASE LoadConfig(c)
    BY <1>0, <2>0, <2>2 DEF LoadConfig, StartedInv
  <2>3. CASE OpenSinks(c)
    <3>1. /\ phase = "open" /\ next' = 1 /\ UNCHANGED <<loaded, instances, cancelled, gen>>
      BY <2>3 DEF OpenSinks
    <3> QED
      BY <1>0, <2>0, <3>1 DEF StartedInv
  <2>4. CASE Launch(c)
    <3>1. /\ poller' = [poller EXCEPT ![<<gen, next>>] = "launched"]
          /\ UNCHANGED <<loaded, gen, phase, instances, cancelled, loop>>
          /\ phase = "launch" /\ next' = next + 1
          /\ next <= Len(Sources[loaded[gen]])
      BY <1>3, <2>4, CallStep DEF Launch
    <3>g. gen = 1
      BY <1>0, <2>0, <3>1 DEF StartedInv, CallInv, Gen
    <3>2. gen = 1 /\ loaded[1] \in Version /\ next \in Nat \ {0}
      BY <3>1, <3>g, SlotsAreNumbers DEF LaunchInv
    <3>3. next \in Slot
      BY <3>1, <3>2, SourcesOf
    <3>4. \A i \in 1 .. next - 1 : poller'[<<1, i>>] = poller[<<1, i>>]
      BY <3>1, <3>2
    <3>5. poller'[<<1, next>>] = "launched"
      BY <3>1, <3>2, <3>3 DEF Poller, Gen
    <3>6. ASSUME ~loop, NEW i \in 1 .. next' - 1
          PROVE  \/ poller'[<<1, i>>] \in {"launched", "check"}
                 \/ Sources[loaded'[1]][i] \in instances'
      <4>1. i = next \/ i \in 1 .. next - 1
        BY <3>1, <3>2, <3>6
      <4>2. i \in 1 .. next - 1 => \/ poller[<<1, i>>] \in {"launched", "check"}
                                   \/ Sources[loaded[1]][i] \in instances
        BY <1>0, <2>0, <3>1, <3>6 DEF StartedInv
      <4> QED
        BY <3>1, <3>4, <3>5, <4>1, <4>2
    <3> QED
      BY <1>0, <2>0, <3>1, <3>2, <3>6 DEF StartedInv
  <2>5. CASE LoadConfigError(c) \/ OpenSinksError(c) \/ EndStart(c)
    BY <1>3, <2>0, <2>5 DEF LoadConfigError, OpenSinksError, EndStart, Returns, CallInv,
       Calls, Caller
  <2>6. CASE BeginStop(c) \/ WaitGroup(c) \/ CloseSinks(c) \/ CloseSinksError(c)
    BY <2>0, <2>6, <1>3 DEF BeginStop, WaitGroup, CloseSinks, CloseSinksError, CallInv,
       Calls, Caller
  <2> QED
    BY <1>3, <2>1, <2>2, <2>3, <2>4, <2>5, <2>6 DEF Step
<1>4. ASSUME NEW p \in Poller, Run(p)
      PROVE  StartedInv'
  <2>1. UNCHANGED <<main, phase, loop, cancelled, gen, loaded, next>>
    BY <1>4, RunStep DEF callers, call
  <2>2. PICK to \in Stage :
          /\ poller' = [poller EXCEPT ![p] = to] /\ poller[p] # "none"
          /\ to = "source" \/ UNCHANGED instances
          /\ instances' = instances \/ instances' = instances \cup {InstanceOf(p)}
          /\ poller[p] = "launched" => to = IF loop THEN "delay" ELSE "check"
          /\ poller[p] = "check" => \/ InstanceOf(p) \in instances'
                                    \/ Done(p)
    BY <1>4, RunStep
  <2> SUFFICES ASSUME main = "start" PROVE StartedInv'
    BY <2>1 DEF StartedInv
  <2>3. phase = "launch"
    BY <2>2, NothingRuns DEF Started
  <2>4. gen = 1 /\ cancelled = {}
    BY <1>0, <2>3 DEF CallInv, StartedInv, Gen
  <2>5. /\ p[1] = 1 /\ loaded[1] \in Version /\ p[2] \in DOMAIN Sources[loaded[1]]
    BY <2>2, <2>4, PollerParts DEF LaunchInv, Started, Gen
  <2>6. /\ InstanceOf(p) = Sources[loaded[1]][p[2]]
        /\ InstanceOf(p) \in ToSet(Sources[loaded[1]])
    BY <2>5, SourcesOf DEF InstanceOf
  <2>7. ASSUME ~loop, NEW i \in 1 .. next - 1
        PROVE  \/ poller'[<<1, i>>] \in {"launched", "check"}
               \/ Sources[loaded[1]][i] \in instances'
    <3>1. \/ poller[<<1, i>>] \in {"launched", "check"}
          \/ Sources[loaded[1]][i] \in instances
      BY <1>0, <2>3, <2>7 DEF StartedInv
    <3>2. CASE p # <<1, i>>
      BY <2>2, <3>1, <3>2
    <3>3. CASE p = <<1, i>>
      <4>1. poller'[p] = to
        BY <2>2
      <4> QED
        BY <2>2, <2>4, <2>6, <2>7, <3>1, <3>3, <4>1 DEF Done
    <3> QED
      BY <3>2, <3>3
  <2>8. ~loop => instances' \subseteq ToSet(Sources[loaded[1]])
    BY <1>0, <2>2, <2>3, <2>6 DEF StartedInv
  <2> QED
    BY <2>1, <2>3, <2>4, <2>7, <2>8 DEF StartedInv
<1> QED
  BY <1>1, <1>2, <1>3, <1>4, StepKinds DEF vars, callers, StartedInv

LEMMA CompleteStep ==
  ASSUME TypeOK, CallInv, LaunchInv, SingleRunInv, [Next]_vars
  PROVE  CompleteInv'
<1> USE DEF TypeOK
<1>0. CompleteInv
  BY DEF SingleRunInv, CompleteInv
<1>1. CASE UNCHANGED <<main, watcher, call, instances, poller>>
  BY <1>0, <1>1 DEF CompleteInv, call
<1>2. CASE Outside
  <2>1. /\ main' \in {"watch", "run", "stop"} => main \in {"watch", "run", "stop"}
        /\ watcher = "start" /\ main \in {"watch", "run", "stop"} => watcher' = "start"
    BY <1>2 DEF Outside, StartWatching, StopRequest, Exit, Notice, Edit, callers, CallInv
  <2> QED
    BY <1>0, <1>2, <2>1, OutsideStep DEF CompleteInv, call
<1>3. ASSUME NEW c \in Caller, Step(c), ~loop', gen' = 1,
             main' \in {"watch", "run", "stop"}, watcher' # "start"
      PROVE  /\ instances' = ToSet(Sources[loaded'[1]])
             /\ \A p \in Poller : poller'[p] \in {"none", "gone"}
  <2>0. ~loop
    BY <1>3, CallStep
  <2>1. CASE BeginStart(c)
    <3>1. gen' = gen + 1 /\ UNCHANGED <<main, watcher>> /\ Calls(c, "start")
      BY <2>1 DEF BeginStart, callers
    <3>2. gen = 0
      BY <1>3, <3>1
    <3>3. FALSE
      BY <1>3, <3>1, <3>2 DEF Calls, CallInv, Gen, Caller
    <3> QED
      BY <3>3
  <2>2. CASE LoadConfig(c) \/ OpenSinks(c) \/ Launch(c)
    <3>1. /\ UNCHANGED <<main, watcher>> /\ holder = c
          /\ phase \in {"load", "open", "launch"}
      BY <2>2 DEF LoadConfig, OpenSinks, Launch, callers
    <3>2. FALSE
      BY <1>3, <3>1 DEF Calls, CallInv, Caller
    <3> QED
      BY <3>2
  <2>3. CASE LoadConfigError(c) \/ OpenSinksError(c)
    <3>1. /\ holder = c /\ phase \in {"load", "open"} /\ UNCHANGED gen /\ Returns(c, FALSE)
      BY <2>3 DEF LoadConfigError, OpenSinksError
    <3>2. FALSE
      BY <1>3, <3>1 DEF Calls, CallInv, Returns, Caller
    <3> QED
      BY <3>2
  <2>4. CASE EndStart(c)
    <3>1. /\ holder = c /\ phase = "launch" /\ UNCHANGED <<gen, loaded, poller, instances>>
          /\ Returns(c, TRUE) /\ \A p \in Poller : poller[p] \in {"none", "gone"}
          /\ next > Len(Sources[loaded[gen]])
      BY <2>0, <2>4 DEF EndStart
    <3>2. main = "start"
      BY <1>3, <3>1 DEF Calls, CallInv, Returns, Caller
    <3>3. loaded[1] \in Version /\ next \in Nat \ {0}
      BY <1>3, <3>1, SlotsAreNumbers DEF LaunchInv
    <3>4. ASSUME NEW i \in DOMAIN Sources[loaded[1]]
          PROVE  Sources[loaded[1]][i] \in instances
      <4>1. i \in 1 .. next - 1 /\ i \in Slot
        BY <1>3, <3>1, <3>3, SourcesOf
      <4>2. <<1, i>> \in Poller
        BY <4>1 DEF Poller, Gen
      <4>3. \/ poller[<<1, i>>] \in {"launched", "check"}
            \/ Sources[loaded[1]][i] \in instances
        BY <2>0, <3>1, <3>2, <4>1 DEF SingleRunInv
      <4> QED
        BY <3>1, <4>2, <4>3
    <3>5. instances \subseteq ToSet(Sources[loaded[1]])
      BY <2>0, <3>1, <3>2 DEF SingleRunInv
    <3> QED
      BY <3>1, <3>4, <3>5 DEF ToSet
  <2>5. CASE BeginStop(c) \/ WaitGroup(c)
    <3>1. UNCHANGED <<main, watcher, gen, instances, poller, loaded>>
      BY <2>5 DEF BeginStop, WaitGroup, callers
    <3> QED
      BY <1>0, <1>3, <2>0, <3>1 DEF CompleteInv
  <2>6. CASE CloseSinks(c) \/ CloseSinksError(c)
    <3>1. holder = c /\ phase = "close" /\ (Returns(c, TRUE) \/ Returns(c, FALSE))
      BY <2>6 DEF CloseSinks, CloseSinksError
    <3>2. FALSE
      BY <1>3, <3>1 DEF Calls, CallInv, Returns, Caller
    <3> QED
      BY <3>2
  <2> QED
    BY <1>3, <2>1, <2>2, <2>3, <2>4, <2>5, <2>6 DEF Step
<1>4. ASSUME NEW p \in Poller, Run(p)
      PROVE  CompleteInv'
  <2>1. /\ UNCHANGED <<main, watcher, loop, gen>> /\ poller[p] \notin {"none", "gone"}
    BY <1>4, RunStep DEF callers, call
  <2> QED
    BY <1>0, <2>1 DEF CompleteInv
<1> QED
  BY <1>1, <1>2, <1>3, <1>4, StepKinds DEF vars, callers, CompleteInv

(***************************************************************************)
(* The invariant.                                                          *)
(***************************************************************************)
LEMMA InitInv == Init => IInv
<1> SUFFICES ASSUME Init PROVE IInv
  OBVIOUS
<1>1. TypeOK
  <2>1. gen \in 0 .. MaxGen /\ edits \in 0 .. MaxEdits /\ next \in {1} \cup {i + 1 : i \in Slot}
    BY DEF Init
  <2>2. /\ loaded \in [Gen -> Version \cup {0}]
        /\ poller \in [Poller -> {"none", "launched", "delay", "check", "source",
                                  "session", "tick", "gone"}]
    BY DEF Init
  <2>3. signal \in BOOLEAN /\ sinksOpen \in BOOLEAN
    BY DEF Init
  <2> QED
    BY <2>1, <2>2, <2>3 DEF Init, TypeOK
<1>2. CallInv /\ ContextInv
  BY DEF Init, CallInv, ContextInv, Calls
<1>3. \A p \in Poller : poller[p] = "none"
  BY DEF Init
<1>4. LaunchInv /\ SinksInv /\ ReadersHaveSinks /\ RegisterInv
  BY <1>3 DEF Init, LaunchInv, SinksInv, ReadersHaveSinks, RegisterInv, Started, Reads, Holds
<1>5. SingleRunInv
  BY DEF Init, SingleRunInv
<1> QED
  BY <1>1, <1>2, <1>4, <1>5 DEF IInv

THEOREM InvariantHolds == Spec => []IInv
<1>1. IInv /\ [Next]_vars => IInv'
  <2> SUFFICES ASSUME IInv, [Next]_vars PROVE IInv'
    OBVIOUS
  <2>1. StartedInv' /\ CompleteInv'
    BY StartedStep, CompleteStep DEF IInv
  <2>2. SingleRunInv'
    BY <2>1 DEF SingleRunInv, StartedInv, CompleteInv
  <2> QED
    BY <2>2, TypeStep, CallInvStep, ContextStep, LaunchStep, SinksStep, RegisterStep
       DEF IInv
<1> QED
  BY InitInv, <1>1, PTL DEF Spec

\* No state of the program is outside the types (TypeOK).
THEOREM TypeCorrect == Spec => []TypeOK
<1>1. IInv => TypeOK
  BY DEF IInv
<1> QED
  BY InvariantHolds, <1>1, PTL

\* Whatever is reloaded, stopped and started late, and however often the same
\* instance is configured, no two pollers read it at the same time.
THEOREM OneReaderPerInstanceHolds == Spec => []OneReaderPerInstance
<1>1. IInv => OneReaderPerInstance
  BY DEF IInv, RegisterInv, Holds, Reads, OneReaderPerInstance
<1> QED
  BY InvariantHolds, <1>1, PTL

\* No poller reads for a context that stopPolling has waited for, and the sinks
\* of whoever reads are open.
THEOREM ReadersHaveSinksHolds == Spec => []ReadersHaveSinks
<1>1. IInv => ReadersHaveSinks
  BY DEF IInv
<1> QED
  BY InvariantHolds, <1>1, PTL

\* A single run has looked at every instance of the file when it goes on.
THEOREM SingleRunCompleteHolds == Spec => []SingleRunComplete
<1>1. IInv => SingleRunComplete
  BY DEF IInv, SingleRunInv, SingleRunComplete, Counted
<1> QED
  BY InvariantHolds, <1>1, PTL
=============================================================================
