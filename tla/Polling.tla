------------------------------- MODULE Polling -------------------------------
(***************************************************************************)
(* The life of the pollers, pkg/app/program.go and fsnotify.go: startPolling *)
(* reads the configuration, opens the sinks and launches one goroutine per *)
(* source; stopPolling cancels their context, waits for them, closes the   *)
(* sinks and forgets the instances seen.  The service calls them from      *)
(* Start and Stop, the watcher of the configuration file calls both again  *)
(* after every change.                                                     *)
(*                                                                         *)
(* What a poller does inside a session is the subject of XeSession and     *)
(* AgentJobs; here it is one stay in "session".                            *)
(***************************************************************************)
EXTENDS Naturals, Sequences, SequencesExt

CONSTANTS
  Sources,      \* per version of the configuration file, the instance behind
                \* each of its sources
  Invalid,      \* versions getConfig refuses
  Modes,        \* the values of p.loop: TRUE for a service, FALSE to poll once
  WatchConfig,  \* watch_config
  EarlyEdits,   \* the file may change before the watch is set
  PromptLaunch, \* a launched goroutine runs before the next stopPolling
  Errors,       \* subset of {"open", "close", "panic"}: what may fail
  MaxGen,       \* bound on the calls of startPolling
  MaxEdits      \* bound on the changes of the file

Version == DOMAIN Sources
Instance == UNION {ToSet(Sources[v]) : v \in Version}
Gen == 1 .. MaxGen
Slot == UNION {DOMAIN Sources[v] : v \in Version}
Poller == Gen \X Slot

ASSUME PollingAssumption ==
  /\ Version # {} /\ Invalid \subseteq Version
  /\ \A v \in Version : Sources[v] \in Seq(ToSet(Sources[v]))
  /\ Modes \subseteq BOOLEAN /\ WatchConfig \in BOOLEAN
  /\ EarlyEdits \in BOOLEAN /\ PromptLaunch \in BOOLEAN
  /\ Errors \subseteq {"open", "close", "panic"}
  /\ MaxGen \in Nat \ {0} /\ MaxEdits \in Nat

VARIABLES
  loop,        \* p.loop, set by the command line
  config,      \* version of the configuration file on disk
  edits,       \* changes so far
  signal,      \* a change the watcher has not taken up yet
  main,        \* the goroutine of Start and Stop
  watcher,     \* the goroutine of startWatching
  holder,      \* who has p.Mutex
  phase,       \* how far the call under the mutex is
  gen,         \* contexts made so far; p.Cancel cancels the last
  cancelled,   \* contexts that are done
  loaded,      \* per context, the version it was started from; 0: none
  next,        \* next source to launch
  sinksOpen,   \* p.Sinks are open
  instances,   \* the instances map of pkg/status
  poller       \* per context and source, where its goroutine is

disk    == <<config, edits, signal>>
callers == <<main, watcher>>
call    == <<loop, holder, phase, gen, cancelled, loaded, next, sinksOpen>>
vars    == <<disk, callers, call, instances, poller>>

Alive == main # "exited"

\* Goroutines counted by p.wg.
Counted == {p \in Poller : poller[p] \in {"delay", "check", "source", "session",
                                          "tick"}}

Init ==
  /\ loop \in Modes
  /\ config \in Version
  /\ edits = 0
  /\ signal = FALSE
  /\ main = "start"
  /\ watcher = "off"
  /\ holder = "none"
  /\ phase = "none"
  /\ gen = 0
  /\ cancelled = {}
  /\ loaded = [g \in Gen |-> 0]
  /\ next = 1
  /\ sinksOpen = FALSE
  /\ instances = {}
  /\ poller = [p \in Poller |-> "none"]

-----------------------------------------------------------------------------
(* The callers *)

Calls(c, state) == IF c = "main" THEN main = state ELSE watcher = state

\* The call of c returns: main goes on to watch, to exit when its start
\* failed, or it is stopped; the watcher starts again what it has stopped,
\* whatever stopPolling or startPolling returned.
Returns(c, ok) ==
  /\ holder' = "none"
  /\ phase' = "none"
  /\ IF c = "main"
       THEN /\ main' = IF main = "stop" THEN "stopped"
                       ELSE IF ok THEN "watch" ELSE "exited"
            /\ UNCHANGED watcher
       ELSE /\ watcher' = IF watcher = "stop" THEN "start" ELSE "wait"
            /\ UNCHANGED main

\* startWatching; without watch_config it returns at once.
StartWatching ==
  /\ main = "watch"
  /\ main' = "run"
  /\ watcher' = IF WatchConfig THEN "wait" ELSE "off"
  /\ UNCHANGED <<disk, call, instances, poller>>

\* The service manager asks to stop; a single run stops by itself.
StopRequest ==
  /\ main = "run"
  /\ main' = "stop"
  /\ UNCHANGED <<disk, watcher, call, instances, poller>>

\* Stop has returned: the process ends, and with it every goroutine.
Exit ==
  /\ main = "stopped"
  /\ main' = "exited"
  /\ UNCHANGED <<disk, watcher, call, instances, poller>>

\* coalesce hands over the changes it has collected.
Notice ==
  /\ Alive
  /\ watcher = "wait"
  /\ signal
  /\ signal' = FALSE
  /\ watcher' = "stop"
  /\ UNCHANGED <<config, edits, main, call, instances, poller>>

Edit ==
  /\ Alive
  /\ edits < MaxEdits
  /\ EarlyEdits \/ watcher # "off"
  /\ config' \in Version \ {config}
  /\ edits' = edits + 1
  /\ signal' = (signal \/ watcher # "off")
  /\ UNCHANGED <<callers, call, instances, poller>>

-----------------------------------------------------------------------------
(* startPolling *)

BeginStart(c) ==
  /\ Alive
  /\ Calls(c, "start")
  /\ holder = "none"
  /\ gen < MaxGen
  /\ holder' = c
  /\ phase' = "load"
  /\ gen' = gen + 1
  /\ UNCHANGED <<loop, disk, callers, cancelled, loaded, next, sinksOpen,
                 instances, poller>>

\* Faulty variant of LoadConfig: the configuration is read once.
LoadConfigOnce(c) ==
  /\ Alive
  /\ holder = c
  /\ phase = "load"
  /\ config \notin Invalid
  /\ loaded' = [loaded EXCEPT ![gen] = IF gen = 1 THEN config ELSE loaded[1]]
  /\ phase' = "open"
  /\ UNCHANGED <<loop, disk, callers, holder, gen, cancelled, next, sinksOpen,
                 instances, poller>>

LoadConfig(c) ==
  /\ Alive
  /\ holder = c
  /\ phase = "load"
  /\ config \notin Invalid
  /\ loaded' = [loaded EXCEPT ![gen] = config]
  /\ phase' = "open"
  /\ UNCHANGED <<loop, disk, callers, holder, gen, cancelled, next, sinksOpen,
                 instances, poller>>

\* A file that cannot be read or is refused: nothing is launched.
LoadConfigError(c) ==
  /\ Alive
  /\ holder = c
  /\ phase = "load"
  /\ config \in Invalid
  /\ Returns(c, FALSE)
  /\ UNCHANGED <<loop, disk, gen, cancelled, loaded, next, sinksOpen,
                 instances, poller>>

OpenSinks(c) ==
  /\ Alive
  /\ holder = c
  /\ phase = "open"
  /\ sinksOpen' = TRUE
  /\ next' = 1
  /\ phase' = "launch"
  /\ UNCHANGED <<loop, disk, callers, holder, gen, cancelled, loaded,
                 instances, poller>>

\* A sink that cannot be opened: nothing is launched.
OpenSinksError(c) ==
  /\ Alive
  /\ "open" \in Errors
  /\ holder = c
  /\ phase = "open"
  /\ Returns(c, FALSE)
  /\ UNCHANGED <<loop, disk, gen, cancelled, loaded, next, sinksOpen,
                 instances, poller>>

\* Faulty variant of Launch: one goroutine too many.
LaunchOneMore(c) ==
  /\ Alive
  /\ holder = c
  /\ phase = "launch"
  /\ next <= Len(Sources[loaded[gen]]) + 1
  /\ poller' = [poller EXCEPT ![<<gen, next>>] = "launched"]
  /\ next' = next + 1
  /\ UNCHANGED <<loop, disk, callers, holder, phase, gen, cancelled, loaded,
                 sinksOpen, instances>>

\* One goroutine per source; without the loop each is run to its end.
Launch(c) ==
  /\ Alive
  /\ holder = c
  /\ phase = "launch"
  /\ next <= Len(Sources[loaded[gen]])
  /\ loop \/ \A p \in Poller : poller[p] \in {"none", "gone"}
  /\ poller' = [poller EXCEPT ![<<gen, next>>] = "launched"]
  /\ next' = next + 1
  /\ UNCHANGED <<loop, disk, callers, holder, phase, gen, cancelled, loaded,
                 sinksOpen, instances>>

\* Faulty variant of EndStart: the last source is forgotten.
EndStartEarly(c) ==
  /\ Alive
  /\ holder = c
  /\ phase = "launch"
  /\ next >= Len(Sources[loaded[gen]])
  /\ loop \/ \A p \in Poller : poller[p] \in {"none", "gone"}
  /\ Returns(c, TRUE)
  /\ UNCHANGED <<loop, disk, gen, cancelled, loaded, next, sinksOpen,
                 instances, poller>>

EndStart(c) ==
  /\ Alive
  /\ holder = c
  /\ phase = "launch"
  /\ next > Len(Sources[loaded[gen]])
  /\ loop \/ \A p \in Poller : poller[p] \in {"none", "gone"}
  /\ Returns(c, TRUE)
  /\ UNCHANGED <<loop, disk, gen, cancelled, loaded, next, sinksOpen,
                 instances, poller>>

-----------------------------------------------------------------------------
(* stopPolling *)

\* Faulty variant of BeginStop: the context is not cancelled.
BeginStopNoCancel(c) ==
  /\ Alive
  /\ Calls(c, "stop")
  /\ holder = "none"
  /\ PromptLaunch => \A p \in Poller : poller[p] # "launched"
  /\ holder' = c
  /\ phase' = "wait"
  /\ UNCHANGED <<loop, disk, callers, gen, cancelled, loaded, next, sinksOpen,
                 instances, poller>>

BeginStop(c) ==
  /\ Alive
  /\ Calls(c, "stop")
  /\ holder = "none"
  /\ PromptLaunch => \A p \in Poller : poller[p] # "launched"
  /\ holder' = c
  /\ cancelled' = cancelled \cup {gen}
  /\ phase' = "wait"
  /\ UNCHANGED <<loop, disk, callers, gen, loaded, next, sinksOpen, instances,
                 poller>>

\* Faulty variant of WaitGroup: it does not wait.
WaitGroupNot(c) ==
  /\ Alive
  /\ holder = c
  /\ phase = "wait"
  /\ phase' = "close"
  /\ UNCHANGED <<loop, disk, callers, holder, gen, cancelled, loaded, next,
                 sinksOpen, instances, poller>>

\* p.wg.Wait.  A goroutine counts itself when it starts to run: one that was
\* launched and has not run yet is not waited for.
WaitGroup(c) ==
  /\ Alive
  /\ holder = c
  /\ phase = "wait"
  /\ Counted = {}
  /\ phase' = "close"
  /\ UNCHANGED <<loop, disk, callers, holder, gen, cancelled, loaded, next,
                 sinksOpen, instances, poller>>

\* The sinks are closed and status.Reset forgets the instances.
CloseSinks(c) ==
  /\ Alive
  /\ holder = c
  /\ phase = "close"
  /\ sinksOpen' = FALSE
  /\ instances' = {}
  /\ Returns(c, TRUE)
  /\ UNCHANGED <<loop, disk, gen, cancelled, loaded, next, poller>>

\* A sink reports an error: the others are closed, but stopPolling returns
\* before status.Reset.
CloseSinksError(c) ==
  /\ Alive
  /\ "close" \in Errors
  /\ holder = c
  /\ phase = "close"
  /\ sinksOpen' = FALSE
  /\ Returns(c, FALSE)
  /\ UNCHANGED <<loop, disk, gen, cancelled, loaded, next, instances, poller>>

-----------------------------------------------------------------------------
(* A poller, func run; p = <<context, source>> *)

Done(p) == p[1] \in cancelled

InstanceOf(p) == Sources[loaded[p[1]]][p[2]]

Moves(p, from, to) ==
  /\ Alive
  /\ poller[p] = from
  /\ poller' = [poller EXCEPT ![p] = to]
  /\ UNCHANGED <<disk, callers, call>>

\* p.wg.Add(1), in the goroutine itself.
Count(p) ==
  /\ Moves(p, "launched", IF loop THEN "delay" ELSE "check")
  /\ UNCHANGED instances

\* The launch is spread out.  The first source has no delay, so that select
\* may find both its timer and a context that is done.
DelayOver(p) ==
  /\ ~Done(p) \/ p[2] = 1
  /\ Moves(p, "delay", "check")
  /\ UNCHANGED instances

DelayCancelled(p) ==
  /\ Done(p)
  /\ Moves(p, "delay", "gone")
  /\ UNCHANGED instances

\* Faulty variant of Register: the instance is not looked up.
RegisterUnchecked(p) ==
  /\ poller[p] = "check"
  /\ instances' = instances \cup {InstanceOf(p)}
  /\ Moves(p, "check", "source")

\* checkdupes has reached the server: CheckDupeInstance, by the name the
\* server reports.  While the server is down it is tried again: no step.
Register(p) ==
  /\ poller[p] = "check"
  /\ InstanceOf(p) \notin instances
  /\ instances' = instances \cup {InstanceOf(p)}
  /\ Moves(p, "check", "source")

SkipDuplicate(p) ==
  /\ poller[p] = "check"
  /\ InstanceOf(p) \in instances
  /\ Moves(p, "check", "gone")
  /\ UNCHANGED instances

\* The server is down and the context done.
CheckCancelled(p) ==
  /\ Done(p)
  /\ Moves(p, "check", "gone")
  /\ UNCHANGED instances

\* ProcessSource looks at the context before every session.
EnterSession(p) ==
  /\ ~Done(p)
  /\ Moves(p, "source", "session")
  /\ UNCHANGED instances

SkipSessions(p) ==
  /\ Done(p)
  /\ Moves(p, "source", "tick")
  /\ UNCHANGED instances

LeaveSession(p) ==
  /\ Moves(p, "session", "tick")
  /\ UNCHANGED instances

\* A panic is recovered by run: this source is not polled any more.
Panic(p) ==
  /\ "panic" \in Errors
  /\ Moves(p, "session", "gone")
  /\ UNCHANGED instances

\* The ticker; select may prefer it to a context that is done.
Tick(p) ==
  /\ loop
  /\ Moves(p, "tick", "source")
  /\ UNCHANGED instances

Leave(p) ==
  /\ Done(p) \/ ~loop
  /\ Moves(p, "tick", "gone")
  /\ UNCHANGED instances

Step(c) ==
  \/ BeginStart(c)
  \/ LoadConfig(c)
  \/ LoadConfigError(c)
  \/ OpenSinks(c)
  \/ OpenSinksError(c)
  \/ Launch(c)
  \/ EndStart(c)
  \/ BeginStop(c)
  \/ WaitGroup(c)
  \/ CloseSinks(c)
  \/ CloseSinksError(c)

Run(p) ==
  \/ Count(p)
  \/ DelayOver(p)
  \/ DelayCancelled(p)
  \/ Register(p)
  \/ SkipDuplicate(p)
  \/ CheckCancelled(p)
  \/ EnterSession(p)
  \/ SkipSessions(p)
  \/ LeaveSession(p)
  \/ Panic(p)
  \/ Tick(p)
  \/ Leave(p)

Next ==
  \/ StartWatching
  \/ StopRequest
  \/ Exit
  \/ Notice
  \/ Edit
  \/ \E c \in {"main", "watcher"} : Step(c)
  \/ \E p \in Poller : Run(p)

Spec == Init /\ [][Next]_vars

(***************************************************************************)
(* Goroutines run, sessions end, and select does not prefer the ticker for *)
(* ever; p.Mutex is handed on in order.  Nobody has to ask the service to  *)
(* stop, nor to edit the file.                                             *)
(***************************************************************************)
Fairness ==
  /\ WF_vars(StartWatching)
  /\ WF_vars(Exit)
  /\ WF_vars(Notice)
  /\ \A c \in {"main", "watcher"} : WF_vars(Step(c)) /\ SF_vars(BeginStop(c))
  /\ \A p \in Poller : WF_vars(Run(p)) /\ SF_vars(Leave(p))

FairSpec == Spec /\ Fairness

-----------------------------------------------------------------------------
(* Properties *)

TypeOK ==
  /\ loop \in Modes
  /\ config \in Version /\ edits \in 0 .. MaxEdits /\ signal \in BOOLEAN
  /\ main \in {"start", "watch", "run", "stop", "stopped", "exited"}
  /\ watcher \in {"off", "wait", "stop", "start"}
  /\ holder \in {"none", "main", "watcher"}
  /\ phase \in {"none", "load", "open", "launch", "wait", "close"}
  /\ gen \in 0 .. MaxGen /\ cancelled \subseteq Gen
  /\ loaded \in [Gen -> Version \cup {0}]
  /\ next \in {1} \cup {i + 1 : i \in Slot}
  /\ sinksOpen \in BOOLEAN
  /\ instances \subseteq Instance
  /\ poller \in [Poller -> {"none", "launched", "delay", "check", "source",
                            "session", "tick", "gone"}]

Reads(p) == poller[p] = "session"

\* Two sources that turn out to be one instance, or the pollers of before and
\* after a reload, never read it at the same time: they share its state files.
OneReaderPerInstance ==
  \A p, q \in Poller :
    Reads(p) /\ Reads(q) /\ InstanceOf(p) = InstanceOf(q) => p = q

\* Whoever reads was started by the last startPolling, and the sinks it writes
\* to are open: no poller outlives stopPolling, not even one whose goroutine
\* started too late to be waited for.
ReadersHaveSinks ==
  \A p \in Poller : Reads(p) => p[1] = gen /\ sinksOpen

Polled(v, a) ==
  \E p \in Poller : Reads(p) /\ loaded[p[1]] = v /\ InstanceOf(p) = a

\* watch_config: "it will try to reload the configuration in the event of a
\* file change" (README.md).  A version of the file that stays is, in the end,
\* the one every instance in it is polled by, unless the service is stopped.
EditTakesEffect ==
  \A v \in Version \ Invalid :
    \A a \in ToSet(Sources[v]) :
      config = v ~> Polled(v, a) \/ config # v \/ main \notin {"start", "watch", "run"}

\* A single run looks at every instance of the file, one source after the
\* other, before it goes on to stop: a duplicate, a panic, a slow server or a
\* delay of the launch leave none out.
SingleRunComplete ==
  ~loop /\ gen = 1 /\ main \in {"watch", "run", "stop"} /\ watcher # "start" =>
    /\ instances = ToSet(Sources[loaded[gen]])
    /\ Counted = {}

\* A request to stop is answered, also in the middle of a reload.
StopCompletes == main = "stop" ~> main = "stopped"

\* Why they hold.  The call that has the mutex is the one its caller is in, and
\* nobody starts polling twice without stopping it in between.
CallInv ==
  /\ holder = "none" <=> phase = "none"
  /\ phase \in {"load", "open", "launch"} => Calls(holder, "start")
  /\ phase \in {"wait", "close"} => Calls(holder, "stop")
  /\ main = "start" => watcher = "off" /\ (holder = "none" => gen = 0)
  /\ main = "watch" => watcher = "off"
  /\ main # "start" \/ holder # "none" => gen \in Gen
  /\ watcher = "start" /\ holder = "watcher" => gen > 1

\* At most the last context is not done, and a context is done before the next
\* is made.
ContextInv ==
  /\ cancelled \subseteq 1 .. gen
  /\ 1 .. gen - 1 \subseteq cancelled
  /\ phase \in {"wait", "close"} \/ (watcher = "start" /\ holder # "watcher") =>
       gen \in cancelled

Started(p) == poller[p] # "none"

LaunchInv ==
  /\ \A p \in Poller : Started(p) =>
       p[1] <= gen /\ loaded[p[1]] \in Version /\ p[2] \in DOMAIN Sources[loaded[p[1]]]
  /\ phase \in {"load", "open"} => \A p \in Poller : p[1] = gen => ~Started(p)
  /\ phase \in {"open", "launch"} => loaded[gen] \in Version

\* Whoever may still enter a session has its sinks open, and who is in one when
\* its context is done is waited for.
SinksInv ==
  /\ phase = "launch" => sinksOpen
  /\ \A p \in Poller : Started(p) /\ ~Done(p) => sinksOpen
  /\ \A p \in Poller : Reads(p) /\ Done(p) => phase = "wait"

\* Past the check for duplicates and not left behind by stopPolling.
Holds(p) == poller[p] \in {"source", "session", "tick"} /\ (~Done(p) \/ Reads(p))

RegisterInv ==
  \A p \in Poller : Holds(p) =>
    /\ InstanceOf(p) \in instances
    /\ \A q \in Poller : Holds(q) /\ InstanceOf(q) = InstanceOf(p) => q = p

\* A single run: the sources before the next one are seen to, or about to be.
SingleRunInv ==
  /\ main = "start" => cancelled = {} /\ gen <= 1
  /\ main = "start" /\ phase # "launch" => instances = {}
  /\ ~loop /\ main = "start" /\ phase = "launch" =>
       /\ instances \subseteq ToSet(Sources[loaded[1]])
       /\ \A i \in 1 .. next - 1 : \/ poller[<<1, i>>] \in {"launched", "check"}
                                   \/ Sources[loaded[1]][i] \in instances
  /\ ~loop /\ gen = 1 /\ main \in {"watch", "run", "stop"} /\ watcher # "start" =>
       /\ instances = ToSet(Sources[loaded[1]])
       /\ \A p \in Poller : poller[p] \in {"none", "gone"}

IInv ==
  /\ TypeOK
  /\ CallInv
  /\ ContextInv
  /\ LaunchInv
  /\ SinksInv
  /\ ReadersHaveSinks
  /\ RegisterInv
  /\ SingleRunInv
=============================================================================
