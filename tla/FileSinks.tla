----------------------------- MODULE FileSinks -----------------------------
(***************************************************************************)
(* Readers that poll sessions and write their events to one file sink and  *)
(* one sampler (pkg/app/process_session.go, the loop over p.Sinks, the     *)
(* Save and Flush between two blocks of events, and the Flush and Clean of *)
(* a poll's end), with the files themselves, the clock they go by and the  *)
(* counter of events written (expvar.go), with sink calls that fail,       *)
(* reloads, kills and power failures.  Each call of a sink is one step:    *)
(* its mutex keeps the readers apart.                                      *)
(*                                                                         *)
(* The position of a reader is the number of its last saved event.         *)
(***************************************************************************)
EXTENDS Rotator, Sampler, Timeseries, FiniteSets

CONSTANTS
  Readers,
  NameOf,      \* reader -> names of its session's events, in the order of the file
  Ends,        \* reader -> events that are the last of their block (file offset)
  MaxTick,     \* bound on the clock
  MaxFaults    \* bound on failed sink calls, reloads, kills and power failures

ASSUME NameOfAssumption == NameOf \in [Readers -> Seq(Names)]
ASSUME EndsAssumption == Ends \in [Readers -> SUBSET Nat]
ASSUME BoundsAssumption == MaxTick \in Nat /\ MaxFaults \in Nat

VARIABLES
  clock,
  rot,         \* the Rotator and its directory
  smp,         \* the Sampler and its files
  saved,       \* the positions in the state files
  next,        \* the event a reader writes next
  pc,
  faults,
  eventsWritten, \* the counter
  flushed,     \* history: the last event of a reader that a Flush was for
  lapsed,      \* history: events that a failed sync dropped, or whose position
               \*   was saved and whose Flush failed or never came
  wrote,       \* history: when an event was last written, and whether the
               \*   Rotator had failed in the same period before
  fell,        \* history: the period the Rotator failed in last
  seen,        \* history: when an event of a name was last accepted
  missed,      \* history: when a sample of a name last failed
  counted      \* history: when an event was counted, oldest first

reading == <<saved, next, pc, flushed>>
metrics == <<eventsWritten, counted>>
written == <<wrote, fell>>
sampled == <<smp, seen, missed>>
vars == <<clock, rot, reading, lapsed, faults, metrics, written, sampled>>

Events == UNION {{r} \X DOMAIN NameOf[r] : r \in Readers}
Places == {"row", "flush", "block", "sample", "clean", "unflushed"}
Unwritten == [at |-> Never, clear |-> TRUE]

Init ==
  /\ clock = 0
  /\ rot = NewRotator(<<>>)
  /\ smp = NewSampler([n \in Names |-> Never])
  /\ saved = [r \in Readers |-> 0]
  /\ next = [r \in Readers |-> 1]
  /\ pc = [r \in Readers |-> "row"]
  /\ faults = 0
  /\ flushed = [r \in Readers |-> 0]
  /\ lapsed = {}
  /\ wrote = [e \in Events |-> Unwritten]
  /\ fell = NoTs
  /\ seen = [n \in Names |-> Never]
  /\ missed = [n \in Names |-> Never]
  /\ eventsWritten = NewCounter
  /\ counted = <<>>

Elapse ==
  /\ clock < MaxTick
  /\ clock' = clock + 1
  /\ UNCHANGED <<rot, reading, lapsed, faults, metrics, written, sampled>>

\* Events of r whose positions are saved and whose Flush has not come.
Unflushed(r) == {r} \X (flushed[r] + 1 .. saved[r])

\* What a sync that failed has taken away.
Dropped(from, to) ==
  UNION {from.dir[h].has \ to.dir[h].has : h \in DOMAIN from.dir \cap DOMAIN to.dir}

GoTo(r, at) == pc' = [pc EXCEPT ![r] = at]
GoOn(r, at) == GoTo(r, at) /\ UNCHANGED <<saved, next, flushed, faults>>

\* Faulty variant of Fail: the last saved event is read again.
FailOneBack(r) ==
  /\ faults < MaxFaults
  /\ faults' = faults + 1
  /\ next' = [next EXCEPT ![r] = saved[r]]
  /\ flushed' = [flushed EXCEPT ![r] = saved[r]]
  /\ GoTo(r, "row")
  /\ UNCHANGED saved

\* A failed call ends the poll: the next one reads from the saved position.
Fail(r) ==
  /\ faults < MaxFaults
  /\ faults' = faults + 1
  /\ next' = [next EXCEPT ![r] = saved[r] + 1]
  /\ flushed' = [flushed EXCEPT ![r] = saved[r]]
  /\ GoTo(r, "row")
  /\ UNCHANGED saved

-----------------------------------------------------------------------------
(* A poll *)

AtBlockEnd(r) == next[r] > saved[r] + 1 /\ next[r] - 1 \in Ends[r]

\* The first row of a block: the position of the block before is saved, and
\* only then are the sinks flushed.
SaveBlock(r) ==
  /\ pc[r] = "row" /\ AtBlockEnd(r) /\ <<r, next[r]>> \in Events
  /\ saved' = [saved EXCEPT ![r] = next[r] - 1]
  /\ GoTo(r, "flush")
  /\ UNCHANGED <<clock, rot, next, flushed, lapsed, faults, metrics, written, sampled>>

FlushBlock(r) ==
  /\ pc[r] = "flush"
  /\ \E f \in Sync(rot) :
       /\ rot' = f.to
       /\ lapsed' = lapsed \cup Dropped(rot, f.to) \cup IF f.ok THEN {} ELSE Unflushed(r)
       /\ IF f.ok
          THEN /\ flushed' = [flushed EXCEPT ![r] = saved[r]]
               /\ GoTo(r, "block")
               /\ UNCHANGED <<saved, next, faults>>
          ELSE Fail(r)
  /\ UNCHANGED <<clock, metrics, written, sampled>>

\* The event is written to the file,
WriteFile(r) ==
  /\ pc[r] = "block" \/ (pc[r] = "row" /\ ~AtBlockEnd(r))
  /\ <<r, next[r]>> \in Events
  /\ LET e == <<r, next[r]>> IN
     \E f \in WriteEvent(rot, e, clock) :
       /\ rot' = f.to
       /\ IF f.ok
          THEN /\ wrote' = [wrote EXCEPT ![e] =
                              [at |-> clock, clear |-> fell # PeriodOf(clock)]]
               /\ lapsed' = (lapsed \ {e}) \cup Dropped(rot, f.to)
               /\ GoOn(r, "sample")
               /\ UNCHANGED fell
          ELSE /\ fell' = PeriodOf(clock)
               /\ lapsed' = lapsed \cup Dropped(rot, f.to)
               /\ Fail(r)
               /\ UNCHANGED wrote
  /\ UNCHANGED <<clock, metrics, sampled>>

\* then offered to the sampler; it counts as written when both have taken it.
WriteSampler(r) ==
  /\ pc[r] = "sample"
  /\ LET name == NameOf[r][next[r]] IN
     \E s \in WriteSample(smp, name, clock) :
       /\ smp' = s.to
       /\ IF s.ok
          THEN /\ seen' = [seen EXCEPT ![name] = clock]
               /\ next' = [next EXCEPT ![r] = @ + 1]
               /\ eventsWritten' = AddAt(eventsWritten, 1, clock)
               /\ counted' = Append(counted, clock)
               /\ GoTo(r, "row")
               /\ UNCHANGED <<saved, flushed, faults, missed>>
          ELSE /\ missed' = [missed EXCEPT ![name] = clock]
               /\ Fail(r)
               /\ UNCHANGED <<seen, metrics>>
  /\ UNCHANGED <<clock, rot, lapsed, written>>

\* There are no more rows, or the poll stops behind a block: Flush,
EndFlush(r) ==
  /\ pc[r] = "block" \/ (pc[r] = "row" /\ next[r] > saved[r] + 1)
  /\ \E f \in Sync(rot) :
       /\ rot' = f.to
       /\ lapsed' = lapsed \cup Dropped(rot, f.to)
       /\ flushed' = IF f.ok THEN [flushed EXCEPT ![r] = next[r] - 1] ELSE flushed
       /\ GoTo(r, IF f.ok THEN "clean" ELSE "unflushed")
  /\ UNCHANGED <<clock, saved, next, faults, metrics, written, sampled>>

\* then Clean whatever Flush returned; both must be nil for the Save, which
\* may fail too.
EndClean(r) ==
  /\ pc[r] \in {"clean", "unflushed"}
  /\ \E c \in Clean(rot, clock) :
       /\ rot' = c.to
       /\ \/ /\ c.ok /\ pc[r] = "clean"
             /\ saved' = [saved EXCEPT ![r] = next[r] - 1]
             /\ GoTo(r, "row")
             /\ UNCHANGED <<next, flushed, faults>>
          \/ Fail(r)
  /\ UNCHANGED <<clock, lapsed, metrics, written, sampled>>

\* An error of the rows, of an event or of the Save between two blocks.
BreakOff(r) ==
  /\ pc[r] \in {"row", "block"} /\ Fail(r)
  /\ UNCHANGED <<clock, rot, lapsed, metrics, written, sampled>>

-----------------------------------------------------------------------------
(* The program *)

BetweenPolls(r) == pc[r] = "row" /\ next[r] = saved[r] + 1

\* The readers have ended their polls.  Close of the old sinks syncs the file,
\* whatever comes of it; the new ones open nothing before they are written to.
Reload ==
  /\ faults < MaxFaults /\ faults' = faults + 1
  /\ \A r \in Readers : BetweenPolls(r)
  /\ \E f \in Sync(rot) :
       /\ rot' = NewRotator(f.to.dir)
       /\ lapsed' = lapsed \cup Dropped(rot, f.to)
  /\ smp' = NewSampler(smp.sample)
  /\ UNCHANGED <<clock, reading, metrics, written, seen, missed>>

\* The program starts again, wherever the readers were.
Restart ==
  /\ faults < MaxFaults /\ faults' = faults + 1
  /\ next' = [r \in Readers |-> saved[r] + 1]
  /\ pc' = [r \in Readers |-> "row"]
  /\ flushed' = saved
  /\ lapsed' = lapsed \cup UNION {Unflushed(r) : r \in Readers}
  /\ eventsWritten' = NewCounter
  /\ counted' = <<>>
  /\ UNCHANGED <<clock, saved, written, missed>>

\* The files stay as they are; nobody syncs them.
Kill ==
  /\ Restart
  /\ rot' = NewRotator(rot.dir)
  /\ smp' = NewSampler(smp.sample)
  /\ UNCHANGED seen

\* Samples are never synced: any of them may be lost.
PowerFailure ==
  /\ Restart
  /\ rot' = NewRotator(SyncedOnly(rot.dir))
  /\ smp' = NewSampler([n \in Names |-> Never])
  /\ seen' = [n \in Names |-> Never]

Next ==
  \/ Elapse \/ Reload \/ Kill \/ PowerFailure
  \/ \E r \in Readers : \/ SaveBlock(r) \/ FlushBlock(r) \/ WriteFile(r) \/ WriteSampler(r)
                        \/ EndFlush(r) \/ EndClean(r) \/ BreakOff(r)

Spec == Init /\ [][Next]_vars

-----------------------------------------------------------------------------
TypeOK ==
  /\ clock \in 0 .. MaxTick
  /\ \A r \in Readers :
       /\ saved[r] \in 0 .. Len(NameOf[r]) /\ next[r] \in saved[r] + 1 .. Len(NameOf[r]) + 1
       /\ pc[r] \in Places
  /\ \A h \in DOMAIN rot.dir :
       rot.dir[h].safe \subseteq rot.dir[h].has /\ rot.dir[h].has \subseteq Events
  /\ rot.file.open /\ rot.file.linked => rot.file.hour \in DOMAIN rot.dir
  /\ faults \in 0 .. MaxFaults

(***************************************************************************)
(* An event whose position is saved is in a file that survives a power     *)
(* failure, whichever reader rotated or flushed between its Write and its  *)
(* own Flush, until it is one period short of the retention: a file counts *)
(* from its start, so its last event goes a period early (rotator.go       *)
(* clean).  Between two blocks the Flush comes only after the Save         *)
(* (process_session.go:145): until then the event may be lost, and for     *)
(* good when the Flush fails or never comes, or when the failed sync of    *)
(* any reader has dropped it.  An event written after the Rotator failed   *)
(* in the same period may go earlier: it is in an older file               *)
(* (rotator.go:88).                                                        *)
(***************************************************************************)
SavedKept ==
  \A r \in Readers : \A n \in 1 .. saved[r] :
    LET e == <<r, n>> IN
    \/ e \in SafeIn(rot)
    \/ n > flushed[r] \/ e \in lapsed
    \/ ~wrote[e].clear
    \/ clock + Period > wrote[e].at + Retention

(***************************************************************************)
(* A name that keeps coming keeps its sample: when an event was accepted,  *)
(* the sample was younger than Duration or has been written since, or      *)
(* writing it had failed less than Duration before or has failed since     *)
(* (sampler.go:62: the time is noted first).                               *)
(***************************************************************************)
Covers(t, e) == t # Never /\ (e <= t \/ e < t + Duration)

SampleFollows ==
  \A n \in Names : seen[n] # Never =>
    Covers(smp.sample[n], seen[n]) \/ Covers(missed[n], seen[n])

(***************************************************************************)
(* Every frame of the counter shows the events written during its last     *)
(* intervals and nothing older (metric.go roll, Aggregate), however long   *)
(* it was idle: the sum of the ring is never out of step with its shifts.  *)
(***************************************************************************)
Age(f, now, t) == Rounded(now, f.interval) - Rounded(t, f.interval)

CountedAt(f, now, c, age) == Cardinality({k \in DOMAIN c : Age(f, now, c[k]) = age})
CountedWithin(f, now, c) == Cardinality({k \in DOMAIN c : Age(f, now, c[k]) < f.len})

WindowShown ==
  \A i \in DOMAIN Frames :
    Shown(eventsWritten, i, clock) = CountedWithin(Frames[i], clock, counted)

(***************************************************************************)
(* Why the properties hold.  The handle is the file of the period the      *)
(* Rotator believes in, unless it failed in that period; it is linked      *)
(* unless its file is old.  An event that was written is in the file of    *)
(* its period, synced or, until its Flush, in the handle.  The sampler     *)
(* notes the time of a sample, or of a failure.  A ring has in each sample *)
(* the events of one interval, counted back from its own time.             *)
(***************************************************************************)
Periods == {PeriodOf(t) : t \in 0 .. MaxTick}
Instants == {Never} \cup 0 .. MaxTick

Contents == [has : SUBSET Events, safe : SUBSET Events]
Handles == [hour : Periods \cup {NoTs}, open : BOOLEAN, linked : BOOLEAN]

IsDirectory(d) == DOMAIN d \subseteq Periods /\ d \in [DOMAIN d -> Contents]
IsRotator(r) ==
  r \in [ts : Periods \cup {NoTs}, file : Handles, dir : {r.dir}] /\ IsDirectory(r.dir)

Old(h, t) == t - h * Period > Retention

\* The handle and the directory of r at time t.
Fit(r, t) ==
  /\ IsRotator(r)
  /\ \A h \in DOMAIN r.dir : r.dir[h].safe \subseteq r.dir[h].has
  /\ r.file.open => r.file # NoHandle /\ r.ts # NoTs
  /\ r.file.open /\ r.file.linked => r.file.hour \in DOMAIN r.dir
  /\ r.file # NoHandle =>
       r.ts # NoTs /\ r.file.hour # NoTs /\ (r.file.linked \/ Old(r.file.hour, t))

\* Event e is in the file of period h: for good, or in the handle.
Safe(r, e, h) == h \in DOMAIN r.dir /\ e \in r.dir[h].safe

Held(r, e, h) ==
  /\ h \in DOMAIN r.dir /\ e \in r.dir[h].has
  /\ r.file = [hour |-> h, open |-> TRUE, linked |-> TRUE]

\* The last event of r that is written, and may have to be read again.
LastWritten(r) == IF pc[r] = "sample" THEN next[r] ELSE next[r] - 1

ReaderInv(r) ==
  /\ saved[r] < next[r] /\ LastWritten(r) <= Len(NameOf[r])
  /\ pc[r] = "flush" => flushed[r] <= saved[r]
  /\ pc[r] = "clean" => flushed[r] = next[r] - 1
  /\ pc[r] \notin {"flush", "clean"} => flushed[r] = saved[r]

ReadersInv ==
  /\ saved \in [Readers -> Nat] /\ next \in [Readers -> Nat] /\ flushed \in [Readers -> Nat]
  /\ pc \in [Readers -> Places]
  /\ \A r \in Readers : ReaderInv(r)

TimesInv ==
  /\ clock \in 0 .. MaxTick /\ faults \in 0 .. MaxFaults
  /\ wrote \in [Events -> [at : Instants, clear : BOOLEAN]]
  /\ \A r \in Readers : \A n \in 1 .. LastWritten(r) : wrote[<<r, n>>].at \in 0 .. clock

Follows(r, p) ==
  r.ts = p \/ r.file = NoHandle \/ (r.file.open /\ r.file.hour = r.ts)

RotatorInv == Fit(rot, clock) /\ Follows(rot, fell)

Kept(r, n) ==
  LET e == <<r, n>>
      p == PeriodOf(wrote[e].at)
  IN wrote[e].clear /\ e \notin lapsed /\ clock + Period <= wrote[e].at + Retention =>
       Safe(rot, e, p) \/ (n > flushed[r] /\ Held(rot, e, p))

KeptInv == \A r \in Readers : \A n \in 1 .. LastWritten(r) : Kept(r, n)

SamplerInv ==
  /\ smp \in [noted : [Names -> Instants], sample : [Names -> Instants]]
  /\ seen \in [Names -> Instants] /\ missed \in [Names -> Instants]
  /\ \A n \in Names :
       /\ seen[n] <= clock
       /\ smp.noted[n] \in {Never, smp.sample[n], missed[n]}

\* The ring ts of frame f shows the times c, at its own time.
Shows(ts, f, c) ==
  /\ ts \in [interval : {f.interval}, now : Nat, total : Nat, samples : Seq(Nat)]
  /\ Len(ts.samples) = f.len
  /\ \A k \in DOMAIN c : c[k] <= ts.now
  /\ \A j \in 1 .. f.len : ts.samples[j] = CountedAt(f, ts.now, c, j - 1)
  /\ ts.total = CountedWithin(f, ts.now, c)

CounterInv ==
  /\ counted \in Seq(Nat)
  /\ DOMAIN eventsWritten = DOMAIN Frames
  /\ \A i \in DOMAIN Frames :
       Shows(eventsWritten[i], Frames[i], counted) /\ eventsWritten[i].now <= clock

IInv ==
  ReadersInv /\ TimesInv /\ RotatorInv /\ KeptInv /\ SamplerInv /\ SampleFollows /\ CounterInv

=============================================================================
