----------------------------- MODULE Timeseries -----------------------------
(***************************************************************************)
(* The counters of pkg/metric/metric.go: for each frame a ring of samples  *)
(* of one interval each, newest first, and their total.  A sample, which   *)
(* the code adds to without a lock of its own, is a number here.           *)
(***************************************************************************)
EXTENDS Integers, Sequences, SequencesExt

CONSTANT Frames   \* the frames of the metric, [interval, len], shortest first

ASSUME FramesAssumption ==
  \A f \in ToSet(Frames) : f.interval \in Nat \ {0} /\ f.len \in Nat \ {0}

\* The sums of the first samples, one by one as Aggregate adds them up: a
\* function rather than a fold, so that the sums can be proved about.
Sums(samples) ==
  LET sum[i \in 0 .. Len(samples)] == IF i = 0 THEN 0 ELSE sum[i - 1] + samples[i]
  IN sum

Aggregate(samples) == Sums(samples)[Len(samples)]

NewTimeseries(f) ==
  [ interval |-> f.interval,
    now      |-> 0,          \* the zero time: long before the first call
    total    |-> 0,
    samples  |-> [i \in 1 .. f.len |-> 0] ]

NewCounter == [i \in DOMAIN Frames |-> NewTimeseries(Frames[i])]

\* time.Round: to the nearest multiple, halfway up.
Rounded(t, interval) == (t + interval \div 2) \div interval

Shifted(samples, roll) ==
  [i \in DOMAIN samples |-> IF i <= roll THEN 0 ELSE samples[i - roll]]

\* Faulty variant of Roll: a series idle for its whole frame is not reset.
RollIdle(ts, t) ==
  LET roll == Rounded(t, ts.interval) - Rounded(ts.now, ts.interval)
      next == Shifted(ts.samples, roll)
  IN IF roll <= 0 \/ roll >= Len(ts.samples) THEN [ts EXCEPT !.now = t]
     ELSE [ts EXCEPT !.now = t, !.samples = next, !.total = Aggregate(next)]

\* A roll of the whole ring or more is a Reset, which Shifted comes to.
Roll(ts, t) ==
  LET roll == Rounded(t, ts.interval) - Rounded(ts.now, ts.interval)
      next == Shifted(ts.samples, roll)
  IN IF roll <= 0 THEN [ts EXCEPT !.now = t]
     ELSE [ts EXCEPT !.now = t, !.samples = next, !.total = Aggregate(next)]

AddAt(m, n, t) ==
  [i \in DOMAIN m |->
     LET ts == Roll(m[i], t)
     IN [ts EXCEPT !.total = @ + n, !.samples[1] = @ + n]]

\* What frame i shows at time t.
Shown(m, i, t) == Roll(m[i], t).total

=============================================================================
