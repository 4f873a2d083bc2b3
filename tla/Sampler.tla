------------------------------ MODULE Sampler ------------------------------
(***************************************************************************)
(* The sampler sink, pkg/sink/sampler/sampler.go: for each event name a    *)
(* file with one event, written anew when the last sample is Duration old. *)
(* The state is a record: "noted", the map of the Sampler, in memory, and  *)
(* "sample", the time of the sample in each file.                          *)
(***************************************************************************)
EXTENDS Integers, Outcomes

CONSTANTS
  Names,      \* event names
  Duration    \* ticks between two samples of a name

ASSUME SamplerAssumption == Duration \in Nat

Never == -1    \* no entry in the map, no usable sample in the file

NewSampler(sample) == [noted |-> [n \in Names |-> Never], sample |-> sample]

\* Faulty variant of WriteSample: a suppressed event restarts the wait.
WriteSampleSliding(s, n, t) ==
  LET marked == [s EXCEPT !.noted[n] = t]
  IN IF s.noted[n] # Never /\ t < s.noted[n] + Duration THEN {Done(marked)}
     ELSE { Done([marked EXCEPT !.sample[n] = t]),
            Failed(marked),
            Failed([marked EXCEPT !.sample[n] = Never]) }

\* The name is noted before the file is written; WriteFile truncates first.
WriteSample(s, n, t) ==
  LET marked == [s EXCEPT !.noted[n] = t]
  IN IF s.noted[n] # Never /\ t < s.noted[n] + Duration THEN {Done(s)}
     ELSE { Done([marked EXCEPT !.sample[n] = t]),
            Failed(marked),
            Failed([marked EXCEPT !.sample[n] = Never]) }

=============================================================================
