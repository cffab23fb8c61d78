----------------------------- MODULE OpsCommands -----------------------------
(***************************************************************************)
(* What the bot does with an interaction before anything is done: which    *)
(* requests ServeHTTP lets through (internal/discord/interactions.go,      *)
(* signature.go), and which work a command means (opsCommand and the       *)
(* interactions_*.go files, components.go, with the choices of             *)
(* internal/security/validate.go).  An absent option is "".  The texts are *)
(* not modelled: a refusal, a hint and a help text are all "reply".  How   *)
(* long queries take is not modelled either: the deadline of a request may *)
(* pass at any moment of its work.                                         *)
(***************************************************************************)
EXTENDS Integers

CONSTANT MaxCourses    \* bound: courses that are listed

ASSUME CoursesAssumption == MaxCourses \in Nat

serviceOrder == {"gateway", "auth", "report", "post", "online-judge"}
V2Services == serviceOrder \ {"online-judge"}

\* security.NormalizeService; "" is no service.
NormalizeService(name) ==
    CASE name = "judge" -> "online-judge"
      [] name = "blog" -> "post"
      [] name \in serviceOrder -> name
      [] OTHER -> ""

\* security.ParseSince in minutes; 0 is not allowed.
ParseSince(since) ==
    CASE since = "5m" -> 5 [] since = "15m" -> 15 [] since = "30m" -> 30
      [] since = "1h" -> 60 [] since = "3h" -> 180 [] since = "24h" -> 1440
      [] OTHER -> 0

ParseOpsInterval(interval) ==
    CASE interval = "" -> 5 [] interval = "1m" -> 1 [] interval = "3m" -> 3
      [] interval = "5m" -> 5 [] interval = "10m" -> 10 [] interval = "15m" -> 15
      [] OTHER -> 0

Default(value, default) == IF value = "" THEN default ELSE value

\* The options of a command; `trace` says that the query looks like a trace id,
\* `course` and `id` are "", "ok" or "bad" (not well formed).
NoOptions ==
    [name |-> "", action |-> "", service |-> "", mode |-> "", since |-> "",
     interval |-> "", query |-> FALSE, trace |-> FALSE, scope |-> "", view |-> "",
     window |-> "", course |-> "", id |-> "", event |-> "", reason |-> FALSE]

(* The work of a command: `op` is the method of the controller that it       *)
(* calls, or "reply", "query" (log queries, health checks and the names of   *)
(* the alarms, in any number), "lookup" (of a trace) or "report", with       *)
(* `calls` calls of the report service; `notice` - the first of the calls is *)
(* only for a remark; `fallback` - a query replaces a failing call.          *)
Reply == [op |-> "reply", calls |-> 0, notice |-> FALSE, fallback |-> FALSE]
Do(op) == [Reply EXCEPT !.op = op]

Query(since) == IF ParseSince(since) = 0 THEN Reply ELSE Do("query")

Report(calls, notice, fallback) ==
    [Reply EXCEPT !.op = "report", !.calls = calls, !.notice = notice, !.fallback = fallback]

------------------------------------------------------------------------------
(* /ops dashboard.                                                         *)

\* Three queries, the health and the alarms of the service.
serviceCommand(since) == Query(since)

opsServiceCommand(o, since) ==
    LET service == NormalizeService(o.service) IN
    CASE service \notin V2Services -> Reply
      [] service \in V2Services /\ Default(o.view, "summary") = "summary" ->
             serviceCommand(since)
      [] service \in V2Services /\ o.view = "health" -> Do("query")
      [] OTHER -> Reply

\* The alarms, and for each service that writes V2 logs its health and a query.
dashboardCommand(since) == Query(since)

opsDashboardCommand(o) ==
    LET since == Default(o.since, "30m") IN
    CASE Default(o.action, "view") = "view" ->
             IF o.service # "" THEN opsServiceCommand(o, since) ELSE dashboardCommand(since)
      [] o.action = "watch" ->
             IF ParseOpsInterval(o.interval) = 0 THEN Reply ELSE Do("WatchDashboardScope")
      [] o.action = "unwatch" -> Do("UnwatchDashboardScope")
      [] o.action = "status" -> Do("ListDashboardWatches")
      [] OTHER -> Reply

------------------------------------------------------------------------------
(* /ops logs.                                                              *)

sinceAllowsAllQuery(since) == since \in {"5m", "15m", "30m"}

errorsCommand(service, since) ==
    IF service = "all" /\ ~sinceAllowsAllQuery(since) THEN Reply
    ELSE Query(since)

opsLogsMode(o, mode, service, since) ==
    CASE mode \in {"errors", "critical"} -> errorsCommand(service, since)
      [] mode \in {"recent", "top", "slow", "security"} ->
             IF service = "all" THEN Reply ELSE Query(since)
      [] mode = "events" ->
             IF service \in {"all", "report"} THEN Query(since) ELSE Reply
      [] mode = "trace" -> IF o.query THEN Do("lookup") ELSE Reply
      [] OTHER -> Reply

\* opsLogsCommand with action view.
opsLogsView(o) ==
    LET service == IF o.service \in {"", "all"} THEN "all" ELSE NormalizeService(o.service)
        mode == IF o.mode = "" /\ o.trace THEN "trace" ELSE Default(o.mode, "errors")
    IN  IF service \notin V2Services \union {"all"} THEN Reply
        ELSE opsLogsMode(o, mode, service, Default(o.since, "30m"))

opsLogsCommand(o) ==
    CASE Default(o.action, "view") = "view" -> opsLogsView(o)
      [] o.action = "watch" ->
             IF ParseOpsInterval(o.interval) = 0 THEN Reply ELSE Do("WatchLogFeed")
      [] o.action = "unwatch" -> Do("UnwatchLogFeed")
      [] o.action = "watches" -> Do("ListLogFeeds")
      [] OTHER -> Reply

------------------------------------------------------------------------------
(* /ops assignment.                                                        *)

assignmentsAllCommand(o) ==
    IF Default(o.window, "today") \in {"today", "this-week"}
    THEN Report(1 + (IF MaxCourses > 8 THEN 8 ELSE MaxCourses), FALSE, FALSE)
    ELSE Reply

assignmentAckAction(o) == IF o.reason THEN Do("AcknowledgeAssignmentIssue") ELSE Reply

assignmentCommand(o) ==
    LET action == IF o.action = "" /\ o.id = "" THEN "list" ELSE o.action IN
    CASE action = "list" \/ o.scope = "all" ->
             IF o.scope = "all" \/ o.course = "" THEN assignmentsAllCommand(o)
             ELSE IF o.course = "bad" THEN Reply ELSE Report(2, TRUE, FALSE)
      [] action # "list" /\ o.scope # "all" /\ {o.course, o.id} # {"ok"} -> Reply
      [] OTHER ->
             CASE action \in {"check", "submissions"} -> Report(2, TRUE, TRUE)
               [] action = "ack" -> assignmentAckAction(o)
               [] action = "unack" -> Do("UnacknowledgeAssignmentIssue")
               [] action = "" ->
                      IF o.view = "events" THEN Do("AssignmentIssueHistory") ELSE Report(2, TRUE, TRUE)
               [] OTHER -> Reply

opsCommand(o) ==
    CASE o.name = "dashboard" -> opsDashboardCommand(o)
      [] o.name = "logs" -> opsLogsCommand(o)
      [] o.name = "alert" -> Do("ConfigureAlert")
      [] o.name = "assignment" -> assignmentCommand(o)
      [] OTHER -> Reply

------------------------------------------------------------------------------
(* The buttons under an alert.                                             *)

TraceButton == [NoOptions EXCEPT !.name = "trace", !.query = TRUE]
ServiceErrorsButton(service) ==
    [NoOptions EXCEPT !.name = "logs", !.service = service, !.mode = "errors", !.since = "30m"]

executeButtonAction(o) ==
    CASE o.name = "trace" -> opsLogsCommand([o EXCEPT !.mode = "trace"])
      [] o.name = "logs" -> opsLogsCommand(o)
      [] OTHER -> Reply

------------------------------------------------------------------------------
(* ServeHTTP.                                                              *)

ReplayWindow == 300

\* A genuine request is signed by Discord; age is that of its timestamp.
VerifySignature(r, keyValid) ==
    /\ keyValid
    /\ r.age <= ReplayWindow /\ -r.age <= ReplayWindow
    /\ r.genuine

ServeHTTP(r, keyValid) ==
    CASE ~r.post -> "405"
      [] r.post /\ ~r.small -> "413"
      [] r.post /\ r.small /\ ~VerifySignature(r, keyValid) -> "401"
      [] OTHER ->
          CASE ~r.json -> "400"
            [] r.json /\ r.type = "ping" -> "pong"
            [] r.json /\ r.type = "other" -> "message"
            [] OTHER -> IF r.guild /\ r.role /\ (r.type = "component" => r.button)
                        THEN "deferred" ELSE "message"

\* The work of an accepted request.
Execute(r) ==
    IF r.type = "component" THEN executeButtonAction(r.command) ELSE opsCommand(r.command)
==============================================================================
