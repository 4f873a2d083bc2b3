------------------------------ MODULE Settings ------------------------------
(***************************************************************************)
(* How the configuration files become the settings of each source,         *)
(* pkg/config/config.go and vars.go.  A source, and [defaults], is         *)
(*   text      the fields with one value, "" where it is not set           *)
(*   flags     the boolean fields that are true                            *)
(*   sessions, excludedEvents           sets, {} where not set             *)
(*   startAt, stopAt                    times, NoTime where not set        *)
(*   lookBack                           a duration, or NoLookBack          *)
(*   adds, copies, moves                the lines, split at each ":"       *)
(*   uppercase, lowercase               sequences of paths                 *)
(***************************************************************************)
EXTENDS Integers, Sequences, SequencesExt, FiniteSetsExt

CONSTANTS
  Texts,    \* the fields of text
  Env       \* environment variables: "$(env:VAR)" -> value, "" if not set

NoTime == 0
Forever == 1000000       \* DefaultStopAt
NoLookBack == -Forever   \* not a duration: look_back is blank
NotSet == ""

\* A source or [defaults] as toml decodes it; a duration may be negative.
SourceFields ==
  [ text : [Texts -> STRING], flags : SUBSET STRING, sessions : SUBSET STRING,
    excludedEvents : SUBSET STRING, startAt : Nat, stopAt : Nat, lookBack : Int,
    adds : Seq(Seq(STRING)), copies : Seq(Seq(STRING)), moves : Seq(Seq(STRING)),
    uppercase : Seq(STRING), lowercase : Seq(STRING) ]

\* The fields setSourceDefaults takes from the source ...
Overridden ==
  { "fqdn", "user", "password", "server_name_override", "domain_name_override",
    "prefix", "agentjobs", "payload_field_name", "timestamp_field_name",
    "rows", "poll_seconds" }
OverriddenFlags == {"exclude_17830"}
\* ... the others, which it leaves as the defaults have them, are driver,
\* odbc_driver, strip_crlf, log_bad_xml and include_dbghelpdll_msg.

\* processEnvVariables, on user and password.
FromEnv(s) == IF s \in DOMAIN Env THEN Env[s] ELSE s
EnvKnown(s) ==
  \A x \in {"user", "password"} \cap Texts :
    s.text[x] \in DOMAIN Env => Env[s.text[x]] # ""
WithEnv(s) ==
  [s EXCEPT !.text = [x \in Texts |->
     IF x \in {"user", "password"} THEN FromEnv(@[x]) ELSE @[x]]]

\* buildmap: a line is key:value and no more; a later line wins.
WellFormed(lines) == \A l \in ToSet(lines) : Len(l) = 2
BuildMap(lines) == FoldLeft(LAMBDA m, l : (l[1] :> l[2]) @@ m, <<>>, lines)
MapsWellFormed(s) ==
  WellFormed(s.adds) /\ WellFormed(s.copies) /\ WellFormed(s.moves)
DecodeKV(s) ==
  [s EXCEPT !.adds = BuildMap(@), !.copies = BuildMap(@), !.moves = BuildMap(@)]

\* merge: the source wins key by key, a blank value removes the key.
MergeMaps(base, over) ==
  LET all == over @@ base
  IN Restrict(all, {k \in DOMAIN all : k \in DOMAIN over => over[k] # NotSet})

\* Faulty variant of ProcessLookback: look_back replaces start_at.
ProcessLookbackOnly(s, now) ==
  IF s.lookBack = NoLookBack THEN s ELSE [s EXCEPT !.startAt = now - s.lookBack]

ProcessLookback(s, now) ==
  IF s.lookBack = NoLookBack THEN s
  ELSE [s EXCEPT !.startAt = Max({@, now - s.lookBack})]

Valid(s) ==
  /\ s.text["timestamp_field_name"] # NotSet
  /\ s.text["agentjobs"] \in {"all", "failed", "none", NotSet}

(***************************************************************************)
(* setSourceDefaults.  The start_at a source inherits is already pushed    *)
(* forward by the look_back of the defaults; ignore_sessions of the        *)
(* defaults is inherited and has no effect.                                *)
(***************************************************************************)
SourceSettings(d, v, now) ==
  LET Own(mine, unset, default) == IF mine # unset THEN mine ELSE default IN
  ProcessLookback(
    [ text      |-> [x \in Texts |-> IF x \in Overridden
                       THEN Own(v.text[x], NotSet, d.text[x]) ELSE d.text[x]],
      flags     |-> d.flags \cup (v.flags \cap OverriddenFlags),
      sessions  |-> IF "ignore_sessions" \in v.flags THEN {}
                    ELSE Own(v.sessions, {}, d.sessions),
      excludedEvents |-> Own(v.excludedEvents, {}, d.excludedEvents),
      startAt   |-> Own(v.startAt, NoTime, d.startAt),
      stopAt    |-> Own(v.stopAt, NoTime, d.stopAt),
      lookBack  |-> Own(v.lookBack, NoLookBack, d.lookBack),
      adds      |-> MergeMaps(d.adds, v.adds),
      copies    |-> MergeMaps(d.copies, v.copies),
      moves     |-> MergeMaps(d.moves, v.moves),
      uppercase |-> v.uppercase \o d.uppercase,
      lowercase |-> v.lowercase \o d.lowercase ],
    now)

(***************************************************************************)
(* Get.  A configuration c has defaults, sources, the sources of the       *)
(* second file (moreSources) and filters; the result is the settings of    *)
(* every source, or Refused.                                               *)
(***************************************************************************)
AllSources(c) == c.sources \o c.moreSources

DefaultSettings(c, now) ==
  LET d == DecodeKV(WithEnv(c.defaults))
  IN ProcessLookback([d EXCEPT !.stopAt = IF @ = NoTime THEN Forever ELSE @], now)

Effective(c, now) ==
  [i \in DOMAIN AllSources(c) |->
     SourceSettings(DefaultSettings(c, now),
                    DecodeKV(WithEnv(AllSources(c)[i])), now)]

Refused == <<>>

GetConfig(c, now) ==
  LET sources == ToSet(AllSources(c)) \cup {c.defaults} IN
  IF /\ \A s \in sources : EnvKnown(s) /\ MapsWellFormed(s)
     /\ \A f \in ToSet(c.filters) : "filter_action" \in DOMAIN f
     /\ Valid(DefaultSettings(c, now))
     /\ \A s \in ToSet(Effective(c, now)) : s.text["fqdn"] # NotSet /\ Valid(s)
  THEN Effective(c, now) ELSE Refused

=============================================================================
