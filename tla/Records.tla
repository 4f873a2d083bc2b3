------------------------------ MODULE Records ------------------------------
(***************************************************************************)
(* The JSON record of an event and its modification,                       *)
(* pkg/logstash/logstash_record.go.  A record maps the paths of its leaves *)
(* to values; a path that leads to an object is a proper prefix of others. *)
(* A value is [v, t, case, conv]: what it is, its type, its letter case,   *)
(* and how often a conversion has changed it.                              *)
(***************************************************************************)
EXTENDS Naturals, Sequences, SequencesExt

CONSTANTS
  Inexact,       \* numbers with more digits than a float64 holds
  Backslashed,   \* texts with a backslash
  Literals       \* texts of adds that are something else than they look like:
                 \* booleans, numbers, quoted texts, $(NOW) -> value

Value(v, t) == [v |-> v, t |-> t, case |-> "asis", conv |-> 0]

ASSUME LiteralAssumption ==
  \A s \in DOMAIN Literals : Literals[s] = Value(Literals[s].v, Literals[s].t)

Numeric == { "int8", "int16", "int32", "int64", "uint8", "uint16", "uint32", "uint64",
             "float32", "float64" }

(***************************************************************************)
(* doubleSlashes(r.Value()): gjson makes a float64 of every number, inside *)
(* of an object too, once and for all; a text that is the whole value gets *)
(* each backslash doubled, every time.                                     *)
(***************************************************************************)
Converted(x, whole) ==
  IF x.t \in Numeric /\ x.v \in Inexact THEN [x EXCEPT !.conv = 1]
  ELSE IF whole /\ x.t = "string" /\ x.v \in Backslashed THEN [x EXCEPT !.conv = @ + 1]
  ELSE x

\* getValue of a text among the adds.
AddedValue(s) ==
  IF s \in DOMAIN Literals THEN Literals[s] ELSE Converted(Value(s, "string"), TRUE)

\* r with v at k, and r with all that s has; what was there is replaced.
Put(r, k, v) == [x \in DOMAIN r \cup {k} |-> IF x = k THEN v ELSE r[x]]
PutAll(r, s) == [x \in DOMAIN r \cup DOMAIN s |-> IF x \in DOMAIN s THEN s[x] ELSE r[x]]

\* What lies at and below a path.
Leaves(r, p) == {q \in DOMAIN r : IsPrefix(p, q)}
Exists(r, p) == Leaves(r, p) # {}
Delete(r, p) == Restrict(r, DOMAIN r \ Leaves(r, p))

\* What sjson.Set leaves when it makes an object of a scalar above the path.
Opened(r, p) == Restrict(r, {q \in DOMAIN r : ~IsStrictPrefix(q, p)})

\* r with what is at "from", converted, also at "to".
Grafted(r, from, to) ==
  LET Rebased(q) == to \o SubSeq(q, Len(from) + 1, Len(q))
      new == {Rebased(q) : q \in Leaves(r, from)}
  IN [p \in DOMAIN Opened(r, to) \cup new |->
        IF p \in new
        THEN LET q == CHOOSE q \in Leaves(r, from) : Rebased(q) = p
             IN Converted(r[q], q = from)
        ELSE r[p]]

(***************************************************************************)
(* One entry of a map of ProcessMods.  A key that exists ends ProcessMods  *)
(* with errors.Wrapf(nil), which is nil: what is left is not done.         *)
(***************************************************************************)
Stopped(r) == [rec |-> r, stop |-> TRUE]
GoneOn(r)  == [rec |-> r, stop |-> FALSE]

AddEntry(r, key, value) ==
  IF Exists(r, key) THEN Stopped(r)
  ELSE GoneOn(Put(Opened(r, key), key, AddedValue(value)))

CopyEntry(r, src, dst) ==
  IF Exists(r, dst) THEN Stopped(r)
  ELSE GoneOn(IF Exists(r, src) THEN Grafted(r, src, dst) ELSE r)

\* Faulty variant of MoveEntry: an existing key is overwritten.
MoveEntryOver(r, src, dst) ==
  GoneOn(IF Exists(r, src) THEN Delete(Grafted(Delete(r, dst), src, dst), src) ELSE r)

MoveEntry(r, src, dst) ==
  IF Exists(r, dst) THEN Stopped(r)
  ELSE GoneOn(IF Exists(r, src) THEN Delete(Grafted(r, src, dst), src) ELSE r)

\* processCase for every path of both lists: what is a text in JSON, and arrays
\* of texts; objects and others stay.  The second list wins.
ProcessUpperLower(r, upper, lower) ==
  LET InCase(p) == IF p \in ToSet(lower) THEN "lower"
                   ELSE IF p \in ToSet(upper) THEN "upper" ELSE r[p].case
  IN [p \in DOMAIN r |->
        IF r[p].t \notin Numeric \cup {"boolean"} THEN [r[p] EXCEPT !.case = InCase(p)] ELSE r[p]]

=============================================================================
