-------------------------- MODULE MCEventPipeline --------------------------
(***************************************************************************)
(* Instances of EventPipeline for TLC: the metadata of a server, kinds of  *)
(* events and configurations that make the cases of the properties happen. *)
(***************************************************************************)
EXTENDS EventPipeline

MCTexts == {"fqdn", "user", "driver", "agentjobs", "server_name_override",
            "payload_field_name", "timestamp_field_name"}
MCEnv == [x \in {"$(env:LOGIN)", "$(env:GONE)"} |->
            IF x = "$(env:LOGIN)" THEN "login" ELSE ""]

MCServer ==
  [ server  |-> "SQL1\\A",
    fields  |-> [x \in {<<"error_reported", "error">>, <<"error_reported", "error_number">>,
                        <<"agStateChange", "database_id">>} |-> "int64"],
    actions |-> ("database_id" :> "uint64") @@ ("query_hash" :> "uint64"),
    loginErrors |-> {"18456"}, loggedErrors |-> {"17830", "18456"} ]

MCMessages ==
  [m \in {"using 'dbghelp.dll'", "Error: 18456"} |->
     IF m = "Error: 18456" THEN ("error_number" :> "18456") @@ ("severity" :> "14")
     ELSE <<>>]

\* 2^53 + 1, a name with a backslash, and an add that is a number.
Digits == "9007199254740993"
MCInexact == {Digits}
MCBackslashed == {"SQL1\\A"}
MCLiterals == ("7" :> Value("7", "int64"))
MCZones == {-1, 1}

X(v) == [value |-> v, text |-> ""]

MCKinds ==
  { [name |-> "error_reported", data |-> ("error" :> X("17830")), actions |-> ("plan_handle" :> X("0"))],
    [name |-> "error_reported", data |-> ("error_number" :> X("18456")), actions |-> <<>>],
    [name |-> "fileGrowth", data |-> ("database_name" :> X("tempdb")) @@ ("timestamp" :> X("then")),
                            actions |-> ("database_name" :> X("user db")) @@ ("plan_handle" :> X("7f"))],
    [name |-> "agStateChange", data |-> ("database_id" :> X("5")) @@ ("state" :> [value |-> "2", text |-> "ONLINE"]), actions |-> <<>>],
    [name |-> "errorlog_written", data |-> ("message" :> X("using 'dbghelp.dll'")), actions |-> <<>>],
    [name |-> "errorlog_written", data |-> ("message" :> X("Error: 18456")), actions |-> ("database_id" :> X("5"))
                            @@ ("query_hash" :> X(Digits)) ] }

Nobody ==
  [ text |-> [x \in MCTexts |-> NotSet], flags |-> {}, sessions |-> {}, excludedEvents |-> {},
    startAt |-> NoTime, stopAt |-> NoTime, lookBack |-> NoLookBack,
    adds |-> <<>>, copies |-> <<>>, moves |-> <<>>, uppercase |-> <<>>, lowercase |-> <<>> ]

Defaults == [Nobody EXCEPT !.text["timestamp_field_name"] = "@timestamp"]
Host == [Nobody EXCEPT !.text["fqdn"] = "host"]
Files(d, s) == [defaults |-> d, sources |-> <<s>>, moreSources |-> <<>>, filters |-> <<>>]

\* Dates and errors, at the root of the record; entries that stand apart.
Dated == Files(
  [Defaults EXCEPT !.lookBack = 1, !.stopAt = 2, !.excludedEvents = {"agStateChange"},
                   !.adds = <<<<"env", "test">>, <<"team", "dba">>>>,
                   !.copies = <<<<"mssql_computer", "host.name">>>>],
  [Host EXCEPT !.startAt = 1, !.flags = {"exclude_17830", "include_dbghelpdll_msg"},
               !.text["user"] = "$(env:LOGIN)", !.text["server_name_override"] = "SQL2",
               !.adds = <<<<"env", "prod">>, <<"team", "">>>>, !.sessions = {"s"}])

\* The event in a field, which is moved as a whole after a copy out of it.
Nested == Files(
  [Defaults EXCEPT !.text["payload_field_name"] = "mssql", !.startAt = 2,
                   !.copies = <<<<"mssql.name", "kind">>>>, !.moves = <<<<"mssql", "event">>>>],
  [Host EXCEPT !.lookBack = 2, !.uppercase = <<"kind">>])

\* Moves that meet: an existing key, and a chain; conversions on the way.
Meeting == Files(
  [Defaults EXCEPT !.adds = <<<<"env", "7">>, <<"zone", "eu">>>>,
                   !.copies = <<<<"query_hash", "hash">>>>],
  [Host EXCEPT !.moves = <<<<"name", "mssql_computer">>, <<"mssql_server_name", "domain">>, <<"domain", "area">>>>])

\* An existing key among the adds; filters of which the last match counts.
Filtered ==
  [Files([Defaults EXCEPT !.adds = <<<<"name", "other">>, <<"env", "prod">>>>],
         [Host EXCEPT !.moves = <<<<"name", "kind">>>>, !.lowercase = <<"kind">>])
   EXCEPT !.filters =
     << ("filter_action" :> Value("exclude", "string")) @@ ("name" :> Value("error_reported", "string")),
        ("filter_action" :> Value("include", "string")) @@ ("error_number" :> Value("18456", "int64")) >>]

\* Two copies to one destination.
Twice == Files([Defaults EXCEPT !.copies = <<<<"name", "kind">>, <<"xe_category", "kind">>>>],
               [Host EXCEPT !.moves = <<<<"mssql_domain", "domain">>>>])

\* A copy that makes an object of a value of the event: not Harmless.
BelowScalar == Files([Defaults EXCEPT !.copies = <<<<"xe_category", "name.category">>>>], Host)

\* Refused: a value with a colon, a variable that is not set.
Colon == Files([Defaults EXCEPT !.adds = <<<<"url", "http", "//x">>>>], Host)
NoVariable == Files(Defaults, [Host EXCEPT !.text["user"] = "$(env:GONE)"])

MCConfigs == {Dated, Nested, Meeting, Filtered, Twice, BelowScalar, Colon, NoVariable}

\* A source that looks back further than the defaults, with a driver of its own.
FurtherBack == Files([Defaults EXCEPT !.lookBack = 1], [Host EXCEPT !.lookBack = 2])
OwnDriver == Files(Defaults, [Host EXCEPT !.text["driver"] = "odbc"])
OverridingConfigs == MCConfigs \cup {FurtherBack, OwnDriver}

Names == {"env", "team", "zone", "kind", "name", "host.name", "mssql_computer",
          "mssql_domain", "mssql_server_name", "query_hash", "hash", "domain", "area", "xe_category", "mssql", "mssql.name", "event", "name.category"}
MCPath == [x \in Names |->
  CASE x = "host.name"     -> <<"host", "name">>
    [] x = "mssql.name"    -> <<"mssql", "name">>
    [] x = "name.category" -> <<"name", "category">>
    [] OTHER               -> <<x>>]

=============================================================================
