--------------------------- MODULE EventPipeline ---------------------------
(***************************************************************************)
(* What becomes of one event between the server and the sinks: the         *)
(* configuration is read (Settings), a poll reads the server's metadata    *)
(* and parses the event (Events), processSession decides whether it is     *)
(* wanted, makes the record and modifies it (Records).  Meanwhile the      *)
(* databases of the server come, go and are renamed.                       *)
(*                                                                         *)
(* The maps of adds, copies and moves are gone through one entry at a      *)
(* time, in any order: Go's range over a map has none.                     *)
(***************************************************************************)
EXTENDS Settings, Events

CONSTANTS
  Configs,      \* configurations; the first source is the event's
  Kinds,        \* XML events, without their time
  Server,       \* the rest of the metadata: fields, actions, loginErrors, ...
  DbNames,      \* names of databases; all have the id DbId in turn
  DbId,
  Path,         \* dotted name of a field -> path
  Zones,        \* time zones of the server: its clock less UTC, in ticks
  MaxTick       \* bound on the clock

\* Every name in the settings of a source is the name of a path of its own, and
\* no field of an event gets the name database_name but one that has it.
NamesIn(s) == DOMAIN s.adds \cup DOMAIN s.copies \cup Range(s.copies)
                \cup DOMAIN s.moves \cup Range(s.moves)

ASSUME PathAssumption ==
  /\ \A k \in DOMAIN Path : Path[k] \in Seq(STRING)
  /\ \A j, k \in DOMAIN Path : Path[j] = Path[k] => j = k
  /\ \A c \in Configs, t \in 1 .. MaxTick : GetConfig(c, t) # Refused =>
       NamesIn(GetConfig(c, t)[1]) \subseteq DOMAIN Path
ASSUME TickAssumption == MaxTick \in Nat \ {0} /\ Zones \subseteq Int
ASSUME DatabaseNameAssumption ==
  /\ \A k \in Kinds : /\ k.name \o "_timestamp" # "database_name"
                      /\ \A a \in DOMAIN k.actions : a \o "_action" # "database_name"
  /\ \A m \in DOMAIN MessageErrors : "database_name" \notin DOMAIN MessageErrors[m]

ASSUME ConfigAssumption ==
  \A c \in Configs : /\ c.defaults \in SourceFields
                     /\ c.sources \in Seq(SourceFields)
                     /\ c.moreSources \in Seq(SourceFields)

(***************************************************************************)
(* What the server calls its fields and actions.  None has a name that     *)
(* Parse gives (parseErrorLogMessage may set any field of MessageErrors),  *)
(* or one that it makes out of another; the number of an error is in       *)
(* error_number or, in the 2008 version, in error (xe.go:198).             *)
(***************************************************************************)
SetByParse ==
  { "name", "timestamp", "errorlog_raw", "errorlog_process", "errorlog_message",
    "xe_severity_value", "xe_severity_keyword", "xe_is_event_logged",
    "mssql_domain", "mssql_computer", "mssql_server_name", "mssql_version",
    "mssql_product_version", "xe_acct_app", "xe_acct_app_client",
    "xe_description", "xe_category", "login_failed" }

NamesApart(x) ==
  LET given == (DOMAIN x.data \ {"timestamp"}) \cup DOMAIN x.actions
      formed == {x.name \o "_timestamp"} \cup {a \o "_action" : a \in DOMAIN x.actions}
  IN /\ given \cap (formed \cup SetByParse) = {}
     /\ formed \cap (SetByParse \cup {"error", "error_number"}) = {}
     /\ \A a, b \in DOMAIN x.actions : /\ a \o "_action" # x.name \o "_timestamp"
                                       /\ a \o "_action" = b \o "_action" => a = b
     /\ "error" \in DOMAIN x.data => "error_number" \notin given
     /\ "error" \in DOMAIN x.actions => "error" \in DOMAIN x.data
     /\ x.name = "errorlog_written" =>
          \A m \in DOMAIN MessageErrors :
            DOMAIN MessageErrors[m] \cap (given \cup formed \cup {"error"}) = {}

ASSUME FieldNamesAssumption == \A k \in Kinds : NamesApart(k)

\* The number of an error_reported is an int64 to the server, without a text.
ASSUME ErrorNumberAssumption ==
  \A k \in {x \in Kinds : x.name = "error_reported"} :
    \A f \in DOMAIN k.data \cap {"error", "error_number"} :
      /\ k.data[f].text = ""
      /\ <<k.name, f>> \in DOMAIN Server.fields
      /\ Server.fields[<<k.name, f>>] = "int64"

VARIABLES
  clock,        \* UTC
  zone,         \* the time zone of the server
  db,           \* the database that has the id, or NoDb
  idents,       \* databases made so far
  conf,         \* the configuration files
  settings,     \* of the source, or Refused
  loadedAt,     \* history: when the configuration was read
  info,         \* the metadata of the poll
  xml,          \* the event in the target, or NoXml
  pc,
  event,        \* as parsed
  made,         \* the record as built
  rec,          \* the record in work
  todo          \* entries of the map in hand that are not done yet

world == <<clock, zone, db, idents>>
work == <<event, made, rec, todo>>
files == <<conf, settings, loadedAt>>
vars == <<world, files, info, xml, pc, work>>

NoDb == [name |-> "", created |-> 0, ident |-> 0]
NoXml == [kind |-> "none"]
NoInfo == [readAt |-> -1]
Nothing == <<>>

Init ==
  /\ clock = 1
  /\ zone \in Zones
  /\ \E n \in DbNames : db = [name |-> n, created |-> 0, ident |-> 1]
  /\ idents = 1
  /\ conf \in Configs
  /\ settings = Refused
  /\ loadedAt = NoTime
  /\ info = NoInfo
  /\ xml = NoXml
  /\ pc = "boot"
  /\ event = Nothing /\ made = Nothing /\ rec = Nothing
  /\ todo = {}

-----------------------------------------------------------------------------
(* The server *)

Waiting == pc \in {"boot", "idle", "poll"}

\* Making a database takes a tick: nothing else happens in it.
CreateDatabase ==
  /\ Waiting /\ db = NoDb /\ clock < MaxTick
  /\ clock' = clock + 1
  /\ idents' = idents + 1
  /\ \E n \in DbNames : db' = [name |-> n, created |-> clock', ident |-> idents']
  /\ UNCHANGED <<zone, files, info, xml, pc, work>>

DropDatabase ==
  /\ Waiting /\ db # NoDb
  /\ db' = NoDb
  /\ UNCHANGED <<clock, zone, idents, files, info, xml, pc, work>>

RenameDatabase ==
  /\ Waiting /\ db # NoDb
  /\ \E n \in DbNames : db' = [db EXCEPT !.name = n]
  /\ UNCHANGED <<clock, zone, idents, files, info, xml, pc, work>>

Elapse ==
  /\ Waiting /\ clock < MaxTick
  /\ clock' = clock + 1
  /\ UNCHANGED <<zone, db, idents, files, info, xml, pc, work>>

\* The session writes the event to its target.
Record ==
  /\ Waiting /\ db # NoDb /\ xml = NoXml
  /\ \E k \in Kinds :
       xml' = [kind |-> "event", name |-> k.name, data |-> k.data,
               actions |-> k.actions, time |-> clock, from |-> db.ident]
  /\ UNCHANGED <<world, files, info, pc, work>>

-----------------------------------------------------------------------------
(* The program *)

LoadConfig ==
  /\ pc = "boot"
  /\ LET c == GetConfig(conf, clock) IN
       IF c = Refused THEN pc' = "refused" /\ UNCHANGED settings
       ELSE pc' = "idle" /\ settings' = c[1]
  /\ loadedAt' = clock
  /\ UNCHANGED <<world, conf, info, xml, work>>

\* getDatabases: the list at this moment.  create_date is in the time of the
\* server, and taken for UTC.
DatabasesNow ==
  [x \in IF db = NoDb THEN {} ELSE {DbId} |-> [db EXCEPT !.created = @ + zone]]

(***************************************************************************)
(* NewSQLInfo.  The name of the settings wins over the server's.  The      *)
(* loops never ask rows.Err: a result that breaks off looks complete.      *)
(***************************************************************************)
ReadInfo ==
  /\ pc = "idle"
  /\ LET own == settings.text["server_name_override"]
         all == PutAll([Server EXCEPT !.server = IF own = NotSet THEN @ ELSE own],
                       [databases |-> DatabasesNow, readAt |-> clock])
     IN info' \in {all} \cup {[all EXCEPT ![x] = <<>>] : x \in {"fields", "actions", "databases"}}
                       \cup {[all EXCEPT ![x] = {}] : x \in {"loginErrors", "loggedErrors"}}
  /\ pc' = "poll"
  /\ UNCHANGED <<world, files, xml, work>>

\* There was nothing to read.
EndPoll ==
  /\ pc = "poll"
  /\ pc' = "idle"
  /\ info' = NoInfo
  /\ UNCHANGED <<world, files, xml, work>>

ParseRow ==
  /\ pc = "poll" /\ xml # NoXml
  /\ event' = Parse(info, xml)
  /\ pc' = "filter"
  /\ UNCHANGED <<world, files, info, xml, made, rec, todo>>

\* A filter matches when every field it names has the value and type it has.
Matches(f, e) ==
  \A k \in DOMAIN f \ {"filter_action"} : k \in DOMAIN e /\ e[k] = f[k]

\* The last filter that matches sets the action.
Action(e) ==
  FoldLeft(LAMBDA a, f : IF Matches(f, e) THEN f["filter_action"].v ELSE a,
           "include", conf.filters)

Excluded(e) ==
  \/ xml.name \in settings.excludedEvents
  \/ xml.time < settings.startAt \/ xml.time > settings.stopAt
  \/ "exclude_17830" \in settings.flags /\ xml.name = "error_reported"
       /\ IsNumber(e, "error_number", "17830")
  \/ xml.name = "errorlog_written" /\ "include_dbghelpdll_msg" \notin settings.flags
       /\ "message" \in DOMAIN e /\ e["message"].v = "using 'dbghelp.dll'"
  \/ Action(e) = "exclude"

\* payload_field_name and timestamp_field_name place the event in the record.
Build(e) ==
  LET payload == settings.text["payload_field_name"]
      stamp == settings.text["timestamp_field_name"]
      Under(k) == IF payload = NotSet THEN <<k>> ELSE <<payload, k>>
      placed == [p \in {Under(k) : k \in DOMAIN e} |-> e[p[Len(p)]]]
      stamped == Put(placed, <<stamp>>, e["timestamp"])
  IN IF payload = NotSet /\ stamp # "timestamp"
     THEN Delete(stamped, <<"timestamp">>) ELSE stamped

\* Where the event was read, which processSession puts into it.
ReadFrom == {"xe_session_name", "xe_file_name", "xe_file_offset"}

Filter ==
  /\ pc = "filter"
  /\ LET e == WithDerived(event, ReadFrom) IN
     IF Excluded(e) THEN pc' = "dropped" /\ UNCHANGED <<made, rec, todo>>
     ELSE /\ made' = Build(e)
          /\ rec' = made'
          /\ todo' = DOMAIN settings.adds
          /\ pc' = "adds"
  /\ UNCHANGED <<world, files, info, xml, event>>

Entry(k) ==
  CASE pc = "adds"   -> AddEntry(rec, Path[k], settings.adds[k])
    [] pc = "copies" -> CopyEntry(rec, Path[k], Path[settings.copies[k]])
    [] pc = "moves"  -> MoveEntry(rec, Path[k], Path[settings.moves[k]])

\* Faulty variant of DoEntry: a stop leaves the other entries in hand.
DoEntryLeft ==
  /\ pc \in {"adds", "copies", "moves"}
  /\ \E k \in todo :
       LET o == Entry(k) IN
       /\ rec' = o.rec
       /\ todo' = todo \ {k}
       /\ pc' = IF o.stop THEN "case" ELSE pc
  /\ UNCHANGED <<world, files, info, xml, event, made>>

\* One entry of the map in hand, whichever comes next.
DoEntry ==
  /\ pc \in {"adds", "copies", "moves"}
  /\ \E k \in todo :
       LET o == Entry(k) IN
       /\ rec' = o.rec
       /\ todo' = IF o.stop THEN {} ELSE todo \ {k}
       /\ pc' = IF o.stop THEN "case" ELSE pc
  /\ UNCHANGED <<world, files, info, xml, event, made>>

\* Faulty variant of NextMap: the moves come before the copies.
NextMapSwapped ==
  /\ pc \in {"adds", "copies", "moves"} /\ todo = {}
  /\ CASE pc = "adds"   -> pc' = "moves"  /\ todo' = DOMAIN settings.moves
       [] pc = "moves"  -> pc' = "copies" /\ todo' = DOMAIN settings.copies
       [] pc = "copies" -> pc' = "case"   /\ todo' = {}
  /\ UNCHANGED <<world, files, info, xml, event, made, rec>>

NextMap ==
  /\ pc \in {"adds", "copies", "moves"} /\ todo = {}
  /\ CASE pc = "adds"   -> pc' = "copies" /\ todo' = DOMAIN settings.copies
       [] pc = "copies" -> pc' = "moves"  /\ todo' = DOMAIN settings.moves
       [] pc = "moves"  -> pc' = "case"   /\ todo' = {}
  /\ UNCHANGED <<world, files, info, xml, event, made, rec>>

Send ==
  /\ pc = "case"
  /\ rec' = ProcessUpperLower(rec, [i \in DOMAIN settings.uppercase |-> Path[settings.uppercase[i]]],
                                   [i \in DOMAIN settings.lowercase |-> Path[settings.lowercase[i]]])
  /\ pc' = "sent"
  /\ UNCHANGED <<world, files, info, xml, event, made, todo>>

Next ==
  \/ CreateDatabase \/ DropDatabase \/ RenameDatabase \/ Elapse \/ Record
  \/ LoadConfig \/ ReadInfo \/ EndPoll \/ ParseRow
  \/ Filter \/ DoEntry \/ NextMap \/ Send

Spec == Init /\ [][Next]_vars

-----------------------------------------------------------------------------
(* Properties *)

Parsed == event # Nothing
Source == AllSources(conf)[1]

TypeOK ==
  /\ clock \in 1 .. MaxTick
  /\ pc \in {"boot", "refused", "idle", "poll", "filter", "dropped",
             "adds", "copies", "moves", "case", "sent"}
  /\ todo \subseteq CASE pc = "adds"   -> DOMAIN settings.adds
                      [] pc = "copies" -> DOMAIN settings.copies
                      [] pc = "moves"  -> DOMAIN settings.moves
                      [] OTHER         -> {}
  /\ \A p \in DOMAIN rec : DOMAIN rec[p] = {"v", "t", "case", "conv"}

(***************************************************************************)
(* Whatever Parse renames, derives and looks up, every value the server    *)
(* recorded is still in the event, also when a data field and an action    *)
(* have one name (the comment at xe.go:148), a field is called timestamp   *)
(* or error, or the error log repeats it.  Handles that are zeros or       *)
(* nothing are left out.                                                   *)
(***************************************************************************)
BothValuesKept ==
  Parsed =>
    LET At(k, x) == k \in DOMAIN event
                      /\ event[k].v = IF x.text # "" THEN x.text ELSE x.value
    IN /\ \A f \in DOMAIN xml.data :
            At(IF f = "error" THEN "error_number" ELSE DataKey(xml, f), xml.data[f])
       /\ \A a \in ActionsKept(xml) :
            At(a, xml.actions[a]) \/ At(a \o "_action", xml.actions[a])

(***************************************************************************)
(* A database name that was looked up is a name of the database the event  *)
(* came from, though the id may belong to another one by the time the poll *)
(* reads the list (xe.go:426).  An event recorded after that is outside,   *)
(* and so is, when the clock of the server is behind UTC, one of the last  *)
(* hours before the database was made: its create_date is read that much   *)
(* too early.                                                              *)
(***************************************************************************)
NamedAsItWas ==
  Parsed =>
    \/ "database_name" \notin DOMAIN event
    \/ "database_name" \in DOMAIN xml.data \cup DOMAIN xml.actions
    \/ xml.time > info.readAt
    \/ info.databases[DbId].ident = xml.from
    \/ LET read == info.databases[DbId].created IN
       zone < 0 /\ xml.time \in read .. read - zone - 1

(***************************************************************************)
(* What reaches the sinks was asked for, by the files as they were written *)
(* and not as they were merged: not before start_at nor before look_back,  *)
(* of the source or else of the defaults (README, "it will use the most    *)
(* recent"), not an excluded event, and not an error_reported of number    *)
(* 17830 under whichever name the server version gives the number, if the  *)
(* field types were all read (process_session.go:220).                     *)
(***************************************************************************)
OnlyWantedSent ==
  pc = "sent" =>
    LET d == conf.defaults
        Asked(mine, unset, default) == IF mine # unset THEN mine ELSE default
        back == Asked(Source.lookBack, NoLookBack, d.lookBack)
        numbers == {xml.data[f].value : f \in DOMAIN xml.data \cap {"error", "error_number"}}
    IN /\ xml.time >= Asked(Source.startAt, NoTime, d.startAt)
       /\ back # NoLookBack => xml.time >= loadedAt - back
       /\ xml.name \notin Asked(Source.excludedEvents, {}, d.excludedEvents)
       /\ \/ "exclude_17830" \notin Source.flags \cup d.flags
          \/ xml.name # "error_reported"
          \/ info.fields # Server.fields
          \/ "17830" \notin numbers

\* No destination lies below a scalar, which sjson.Set makes an object, and no
\* object is moved into itself, where sjson.Delete takes it away.
Destinations ==
  {Path[k] : k \in DOMAIN settings.adds \cup Range(settings.copies) \cup Range(settings.moves)}
Harmless ==
  /\ \A d \in Destinations, p \in DOMAIN made \cup Destinations : ~IsStrictPrefix(p, d)
  /\ \A k \in DOMAIN settings.moves : ~IsStrictPrefix(Path[k], Path[settings.moves[k]])

\* What no conversion changes, and x but for its conversions.
Robust(x) == Converted(x, TRUE) = x
Remnant(x, y) == y.v = x.v /\ y.t = x.t /\ y.case = x.case

(***************************************************************************)
(* Adds, copies and moves that are harmless lose no value of the event, in *)
(* whatever order the maps are gone through and wherever they stop at a    *)
(* key that exists (logstash_record.go:124).  What no move takes stays as  *)
(* and where it is.  What a move takes is somewhere in the record, and all *)
(* that may have changed of it is a number with more digits than a float64 *)
(* holds, and the backslashes of a text (logstash_record.go:167).          *)
(***************************************************************************)
NothingLost ==
  pc \in {"adds", "copies", "moves", "case"} /\ Harmless =>
    \A p \in DOMAIN made :
      /\ \/ p \in DOMAIN rec /\ rec[p] = made[p]
         \/ \E k \in DOMAIN settings.moves : IsPrefix(Path[k], p)
      /\ \E q \in DOMAIN rec :
           Remnant(made[p], rec[q]) /\ (Robust(made[p]) => rec[q] = made[p])

(***************************************************************************)
(* Why the properties hold.  The id belongs to one database from the tick  *)
(* after it was made on: an event that is not older than it is from it,    *)
(* and so it is for the list the poll has read.  The event in hand is what *)
(* Parse makes of the XML in hand, and past the filter it is wanted, by    *)
(* settings made of the files.  The record has its values at paths, none   *)
(* of them above a destination, the entries in hand are of the map that is *)
(* gone through, and what is done of them shows as if done at once.        *)
(***************************************************************************)
TimesInv ==
  /\ clock \in 1 .. MaxTick /\ zone \in Int
  /\ db = NoDb \/ db \in [name : DbNames, created : 0 .. clock, ident : Nat \ {0}]
  /\ idents \in Nat
  /\ xml # NoXml => xml.time \in 1 .. clock
  /\ pc \in {"boot", "refused", "idle", "poll", "filter", "dropped",
             "adds", "copies", "moves", "case", "sent"}

SourceInv ==
  /\ xml # NoXml => \E k \in Kinds :
       xml.name = k.name /\ xml.data = k.data /\ xml.actions = k.actions
  /\ xml # NoXml /\ db # NoDb /\ xml.time >= db.created => xml.from = db.ident
  /\ pc \in {"boot", "refused", "idle", "poll"} => event = Nothing

ParsedInv ==
  /\ pc \notin {"boot", "refused", "idle", "poll"} =>
       xml # NoXml /\ event = Parse(info, xml)
  /\ pc \in {"adds", "copies", "moves", "case", "sent"} =>
       /\ xml.name \notin settings.excludedEvents
       /\ ~(xml.time < settings.startAt)
       /\ "exclude_17830" \in settings.flags /\ xml.name = "error_reported" =>
            ~IsNumber(WithDerived(event, ReadFrom), "error_number", "17830")

InfoInv ==
  pc \notin {"boot", "refused", "idle"} =>
    /\ info.readAt \in 1 .. clock
    /\ DOMAIN info.databases \subseteq {DbId}
    /\ \A i \in DOMAIN info.databases :
         /\ info.databases[i].created \in Int
         /\ info.readAt = clock /\ db # NoDb => info.databases[i].ident = db.ident
         /\ xml # NoXml /\ xml.time <= info.readAt
              /\ xml.time >= info.databases[i].created - zone
            => info.databases[i].ident = xml.from

SettingsInv ==
  /\ conf \in Configs
  /\ pc \notin {"boot", "refused"} =>
       /\ loadedAt \in 1 .. MaxTick
       /\ GetConfig(conf, loadedAt) # Refused /\ settings = GetConfig(conf, loadedAt)[1]

FieldNames == STRING \cup DOMAIN event \cup ReadFrom
  \cup {settings.text["payload_field_name"], settings.text["timestamp_field_name"]}

RecordInv ==
  /\ pc \in {"adds", "copies", "moves", "case"} => DOMAIN made \subseteq Seq(FieldNames)
  /\ pc \in {"adds", "copies", "moves", "case"} /\ Harmless =>
       /\ DOMAIN rec \subseteq Seq(FieldNames)
       /\ \A q \in DOMAIN rec, d \in Destinations : ~IsStrictPrefix(q, d)
  /\ pc = "adds" => todo \subseteq DOMAIN settings.adds
  /\ pc = "copies" => todo \subseteq DOMAIN settings.copies
  /\ pc = "moves" => todo \subseteq DOMAIN settings.moves

(***************************************************************************)
(* The order of the maps does not show when no entry can meet another: no  *)
(* destination exists, lies inside another or is a source, and nothing is  *)
(* both copied and moved to one place.  Then the record is the one that    *)
(* all entries make at once.                                               *)
(***************************************************************************)
Apart(p, q) == ~IsPrefix(p, q) /\ ~IsPrefix(q, p)

PairsOf(m, keys) == {<<Path[k], Path[m[k]]>> : k \in keys}
Copied == PairsOf(settings.copies, DOMAIN settings.copies)
Moved == PairsOf(settings.moves, DOMAIN settings.moves)
Carried == Copied \cup Moved
Added == {Path[k] : k \in DOMAIN settings.adds}

Independent ==
  LET dsts == [x \in ({"add"} \X Added) \cup ({"carry"} \X Carried) |->
                 IF x[1] = "add" THEN x[2] ELSE x[2][2]]
  IN /\ \A x, y \in DOMAIN dsts : x # y => Apart(dsts[x], dsts[y])
     /\ \A x \in DOMAIN dsts, p \in DOMAIN made : Apart(dsts[x], p)
     /\ \A c \in Carried, e \in Carried : Apart(c[1], e[2])
     /\ \A c, e \in Moved : c # e => Apart(c[1], e[1])
     /\ Copied \cap Moved = {}

\* What the adds of "as", the copies of "cs" and the moves of "ms" make of the
\* record, as pairs of a path and its value.
Content(r) == {<<p, r[p]>> : p \in DOMAIN r}

AtOnce(as, cs, ms) ==
  LET base == Content(made) \cup {<<Path[k], AddedValue(settings.adds[k])>> : k \in as}
      moved == PairsOf(settings.moves, ms)
      To(c) == {<<c[2] \o SubSeq(x[1], Len(c[1]) + 1, Len(x[1])),
                  Converted(x[2], x[1] = c[1])>> :
                  x \in {y \in base : IsPrefix(c[1], y[1])}}
  IN {x \in base : \A c \in moved : ~IsPrefix(c[1], x[1])}
       \cup UNION {To(c) : c \in PairsOf(settings.copies, cs) \cup moved}

ModsCommute ==
  pc = "case" /\ Independent =>
    Content(rec) = AtOnce(DOMAIN settings.adds, DOMAIN settings.copies, DOMAIN settings.moves)

(***************************************************************************)
(* Why ModsCommute holds: at any time the record is what the entries that  *)
(* are done make at once.                                                  *)
(***************************************************************************)
DoneAdds == IF pc = "adds" THEN DOMAIN settings.adds \ todo ELSE DOMAIN settings.adds
DoneCopies ==
  CASE pc = "adds"   -> {}
    [] pc = "copies" -> DOMAIN settings.copies \ todo
    [] OTHER         -> DOMAIN settings.copies
DoneMoves ==
  CASE pc = "moves" -> DOMAIN settings.moves \ todo
    [] pc = "case"  -> DOMAIN settings.moves
    [] OTHER        -> {}

CommuteInv ==
  pc \in {"adds", "copies", "moves", "case"} /\ Independent =>
    Content(rec) = AtOnce(DoneAdds, DoneCopies, DoneMoves)

IInv ==
  /\ TypeOK
  /\ TimesInv
  /\ SourceInv
  /\ ParsedInv
  /\ InfoInv
  /\ NamedAsItWas
  /\ SettingsInv
  /\ RecordInv
  /\ NothingLost
  /\ CommuteInv

(***************************************************************************)
(* "The source values override the default values" (README, Sources and    *)
(* Defaults): what a source sets is what it gets.  It does not hold: some  *)
(* fields are never taken from the source, and a look_back longer than     *)
(* that of the defaults has no effect.                                     *)
(***************************************************************************)
SourceValueWins ==
  pc = "idle" =>
    /\ \A x \in Texts : Source.text[x] \notin {NotSet} \cup DOMAIN Env =>
                          settings.text[x] = Source.text[x]
    /\ Source.flags \ {"ignore_sessions"} \subseteq settings.flags
    /\ Source.lookBack # NoLookBack /\ Source.startAt = NoTime
         /\ conf.defaults.startAt = NoTime
       => settings.startAt = loadedAt - Source.lookBack

=============================================================================
