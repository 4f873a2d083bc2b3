------------------------------- MODULE Events -------------------------------
(***************************************************************************)
(* From the XML of an event to its fields, Parse of pkg/xe/xe.go, with     *)
(* what NewSQLInfo (pkg/xe/sqlinfo.go) read of the server at the start of  *)
(* the poll.  An XML event is                                              *)
(*   name, time, and data and actions: field -> [value, text]              *)
(* and "info" is what was read:                                            *)
(*   fields, actions   the types of data fields and actions                *)
(*   databases         id -> [name, created, ident]; the code has no       *)
(*                     ident, and created is what it takes create_date for *)
(*   loginErrors, loggedErrors, server                                     *)
(***************************************************************************)
EXTENDS Integers, Records

CONSTANT MessageErrors   \* message of the error log -> the numbers it names

\* Comparable handles and hashes that are all zeros, or nothing, are skipped.
ZeroSkipped ==
  { "plan_handle", "query_hash", "query_hash_signed", "query_plan_hash",
    "query_plan_hash_signed" }
Zeros == {"0", ""}

\* getDataValue, getActionValue: the text if there is one, else by its type;
\* types that are neither numbers nor boolean are texts.
Typed(x, types, key) ==
  IF x.text = "" /\ key \in DOMAIN types /\ types[key] \in Numeric \cup {"boolean"}
  THEN Value(x.value, types[key])
  ELSE Value(IF x.text # "" THEN x.text ELSE x.value, "string")

\* An event's own field "timestamp" is named after the event.
DataKey(x, f) == IF f = "timestamp" THEN x.name \o "_timestamp" ELSE f

FromData(i, x) ==
  [k \in {DataKey(x, f) : f \in DOMAIN x.data} |->
     LET f == CHOOSE f \in DOMAIN x.data : DataKey(x, f) = k
     IN Typed(x.data[f], i.fields, <<x.name, f>>)]

ActionsKept(x) ==
  {a \in DOMAIN x.actions : ~(a \in ZeroSkipped /\ x.actions[a].value \in Zeros)}

\* Faulty variant of WithActions: the action takes the key of the data field.
WithActionsOver(i, x, e) ==
  [k \in DOMAIN e \cup ActionsKept(x) |->
     IF k \in ActionsKept(x) THEN Typed(x.actions[k], i.actions, k) ELSE e[k]]

\* An action named as a data field gets a key of its own.
WithActions(i, x, e) ==
  LET KeyOf(a) == IF a \in DOMAIN e THEN a \o "_action" ELSE a
      keys == {KeyOf(a) : a \in ActionsKept(x)}
  IN [k \in DOMAIN e \cup keys |->
        IF k \in keys
        THEN LET a == CHOOSE a \in ActionsKept(x) : KeyOf(a) = k
             IN Typed(x.actions[a], i.actions, a)
        ELSE e[k]]

\* The time of the event, as a value: there is one event at a time.
EventTime == Value("time of the event", "time")

SetIfEmpty(e, k, v) == IF k \in DOMAIN e THEN e ELSE Put(e, k, v)

\* Rename keeps what is at the old key, not what was at the new one.
Rename(e, old, new) ==
  IF old \notin DOMAIN e THEN e
  ELSE [k \in (DOMAIN e \ {old}) \cup {new} |-> IF k = new THEN e[old] ELSE e[k]]

Derived(k) == Value(k, "string")
WithDerived(e, keys) == PutAll(e, [k \in keys |-> Derived(k)])

\* parseErrorLogMessage: the numbers in the text, and the parts of the text.
ErrorLog(x, e) ==
  IF x.name # "errorlog_written" \/ "message" \notin DOMAIN e THEN e
  ELSE LET said == e["message"].v
           found == IF said \in DOMAIN MessageErrors THEN MessageErrors[said] ELSE <<>>
       IN PutAll(WithDerived(e, {"errorlog_raw", "errorlog_process", "errorlog_message"}),
                 [k \in DOMAIN found |-> Value(found[k], "int64")])

\* GetInt64: only a value that was converted to int64 is a number.
IsNumber(e, k, n) == k \in DOMAIN e /\ e[k].t = "int64" /\ e[k].v = n
NumberIn(e, k, set) == \E n \in set : IsNumber(e, k, n)

\* Faulty variant of SetDatabaseName: the time of the event is not compared.
SetDatabaseNameAlways(i, x, e) ==
  IF "database_name" \in DOMAIN e \/ "database_id" \notin DOMAIN e
     \/ e["database_id"].v \notin DOMAIN i.databases
  THEN e
  ELSE Put(e, "database_name", Value(i.databases[e["database_id"].v].name, "string"))

\* setDatabaseName: by the id, unless the database is younger than the event.
SetDatabaseName(i, x, e) ==
  IF "database_name" \in DOMAIN e \/ "database_id" \notin DOMAIN e
     \/ e["database_id"].v \notin DOMAIN i.databases
     \/ x.time < i.databases[e["database_id"].v].created
  THEN e
  ELSE Put(e, "database_name", Value(i.databases[e["database_id"].v].name, "string"))

Enriched(i, x, e) ==
  LET server == Value(i.server, "string")
      logged == IF NumberIn(e, "error_number", i.loggedErrors)
                THEN WithDerived(e, {"xe_is_event_logged"}) ELSE e
      base == SetIfEmpty(Put(logged, "mssql_server_name", server),
                         "server_instance_name", server)
  IN SetDatabaseName(i, x, WithDerived(base,
       {"xe_severity_value", "xe_severity_keyword", "mssql_domain",
        "mssql_computer", "mssql_version", "mssql_product_version"}))

\* SetAppSource: who and what, and both with the host.
AppSource(e) ==
  LET app == DOMAIN e \cap {"server_principal_name", "client_app_name"}
  IN (IF app # {} THEN {"xe_acct_app"} ELSE {})
       \cup (IF app # {} \/ "client_hostname" \in DOMAIN e
             THEN {"xe_acct_app_client"} ELSE {})

\* SetAppSource, getDescription and getCategory, then parseErrorReported.
Described(i, x, e) ==
  LET login == x.name = "error_reported"
                 /\ NumberIn(e, "error_number", i.loginErrors)
  IN WithDerived(e, {"xe_description", "xe_category"}
       \cup AppSource(e)
       \cup (IF login THEN {"login_failed"} ELSE {}))

Parse(i, x) ==
  LET fields == WithActions(i, x, FromData(i, x))
      named == Put(Put(fields, "timestamp", EventTime),
                   "name", Value(x.name, "string"))
      numbered == Rename(ErrorLog(x, named), "error", "error_number")
  IN Described(i, x, Enriched(i, x, numbered))

=============================================================================
