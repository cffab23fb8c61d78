------------------------------ MODULE MonitorBot ------------------------------
(***************************************************************************)
(* The process of the monitor bot: its start (cmd/monitor-bot/main.go),    *)
(* what /healthz and /interactions answer meanwhile, the goroutine that    *)
(* carries out an accepted interaction and answers it with a follow-up     *)
(* (internal/discord/interactions.go), and the assignment poll as the      *)
(* other user of the report service.  The calls of that service are those  *)
(* of ReportAdminClient; what a command means is in OpsCommands.           *)
(***************************************************************************)
EXTENDS ReportAdminClient, OpsCommands

CONSTANTS
    Interactions,      \* bound: the requests that Discord sends
    Poll,              \* the caller that is the assignment poll
    Requests,          \* Requests[i]: what interaction i may be
    Configs            \* [keyValid, appId, strict, register]: configurations

ASSUME BotAssumption ==
    /\ Callers = Interactions \union {Poll} /\ Poll \notin Interactions
    /\ Limited = Interactions

VARIABLES
    conf,          \* the configuration
    main,          \* where main is
    status,        \* what /healthz reports
    handler, ops,  \* whether /interactions has its handler, and that its controller
    polling,       \* whether the loops run
    work           \* each interaction: [pc, plan, left]

process == <<main, status, handler, ops, polling>>
vars == <<clientVars, conf, process, work>>

NoWork == [pc |-> "none", plan |-> Reply, left |-> 0]
NewStatus == [ok |-> FALSE, http |-> FALSE, aws |-> FALSE, ready |-> FALSE]

Init ==
    /\ ClientInit
    /\ conf \in Configs
    /\ main = "listen" /\ status = NewStatus
    /\ handler = FALSE /\ ops = FALSE /\ polling = FALSE
    /\ work = [i \in Interactions |-> NoWork]

------------------------------------------------------------------------------
(* main.                                                                   *)

\* Mutant: whether the handler is there does not count.
ReadyWithoutHandler(s) == s.http /\ s.aws /\ conf.appId /\ conf.keyValid

Ready(s) == s.http /\ s.aws /\ s.ready /\ conf.appId /\ conf.keyValid

SetStatus(s) == status' = [s EXCEPT !.ok = Ready(s)]

clientIdle == <<config, tokens, call, expired, service, history>>

Listen ==
    /\ main = "listen"
    /\ \/ main' = "aws" /\ SetStatus([status EXCEPT !.http = TRUE]) /\ UNCHANGED faults
       \/ main' = "dead" /\ UNCHANGED status /\ Fault
    /\ UNCHANGED <<clientIdle, conf, handler, ops, polling, work>>

LoadDefaultConfig ==
    /\ main = "aws"
    /\ main' = "register" /\ SetStatus([status EXCEPT !.aws = TRUE])
    /\ UNCHANGED <<clientVars, conf, handler, ops, polling, work>>

LoadDefaultConfigFails ==
    /\ main = "aws" /\ Fault
    /\ main' = IF conf.strict THEN "dead" ELSE "register"
    /\ SetStatus([status EXCEPT !.aws = FALSE])
    /\ UNCHANGED <<clientIdle, conf, handler, ops, polling, work>>

\* Without AWS main waits for the server to fail, and /interactions stays closed.
registerCommandsIfEnabled ==
    /\ main = "register"
    /\ \/ main' = (IF status.aws THEN "controller" ELSE "closed") /\ UNCHANGED faults
       \/ conf.register /\ Fault
              /\ main' = IF conf.strict THEN "dead"
                         ELSE IF status.aws THEN "controller" ELSE "closed"
    /\ UNCHANGED <<clientIdle, conf, status, handler, ops, polling, work>>

SetOpsController ==
    /\ main = "controller" /\ main' = "publish"
    /\ ops' = TRUE
    /\ UNCHANGED <<clientVars, conf, status, handler, polling, work>>

SetHandler ==
    /\ main = "publish" /\ main' = "ready"
    /\ handler' = TRUE
    /\ UNCHANGED <<clientVars, conf, status, ops, polling, work>>

SetInteractionReady ==
    /\ main = "ready" /\ main' = "start"
    /\ SetStatus([status EXCEPT !.ready = TRUE])
    /\ UNCHANGED <<clientVars, conf, handler, ops, polling, work>>

StartLoops ==
    /\ main = "start" /\ main' = "serving"
    /\ polling' = TRUE
    /\ UNCHANGED <<clientVars, conf, status, handler, ops, work>>

MainStep ==
    \/ Listen \/ LoadDefaultConfig \/ LoadDefaultConfigFails \/ registerCommandsIfEnabled
    \/ SetOpsController \/ SetHandler \/ SetInteractionReady \/ StartLoops

------------------------------------------------------------------------------
(* Interactions.                                                           *)

Working(i) == work[i].pc \in {"start", "calls", "queries", "followup"}
Turn(i, pc) ==
    work' = [work EXCEPT ![i].pc = pc,
                         ![i].plan = IF pc = "followup" THEN Reply ELSE @,
                         ![i].left = IF pc = "calls" THEN @ ELSE 0]
End(i, pc) == work' = [work EXCEPT ![i] = [NoWork EXCEPT !.pc = pc]]

\* The handler is missing (503) or the answer is immediate, or the work goes on after it.
Deliver(i, r) ==
    /\ work[i].pc = "none" /\ status.http /\ main # "dead"
    /\ IF handler /\ ServeHTTP(r, conf.keyValid) = "deferred"
       THEN work' = [work EXCEPT ![i] =
                [pc |-> "start", plan |-> Execute(r), left |-> Execute(r).calls]]
       ELSE End(i, "refused")
    /\ UNCHANGED <<clientVars, conf, process>>

\* The methods of the controller are the commands of the other modules; a watch
\* queries, too, and on the context of the interaction.
executeInteraction(i) ==
    /\ work[i].pc = "start"
    /\ CASE work[i].plan.op = "report" -> Turn(i, "calls")
         [] work[i].plan.op \in {"query", "lookup"} -> Turn(i, "queries")
         [] work[i].plan.op = "reply" -> Turn(i, "followup")
         [] OTHER -> Turn(i, IF ops THEN "queries" ELSE "unready")
    /\ UNCHANGED <<clientVars, conf, process>>

StartCall(i) ==
    /\ work[i].pc = "calls" /\ Call(i)
    /\ UNCHANGED <<conf, process, work>>

shouldUseCloudWatchFallback(st) == st \in {"UPSTREAM_ERROR", "TIMEOUT", "INVALID_RESPONSE"}

\* Mutant: one call too many.
EndCallOnce(i) ==
    /\ work[i].pc = "calls" /\ Done(i)
    /\ work' = [work EXCEPT ![i].left = @ - 1]
    /\ UNCHANGED <<conf, process>>

\* Without the courses there is nothing to list; a course that fails to list is
\* left out, and there may be fewer of them.
EndCall(i) ==
    /\ work[i].pc = "calls" /\ Done(i)
    /\ LET plan == work[i].plan IN
       CASE work[i].left > 1 ->
               \/ /\ plan.notice \/ call[i].status = "OK" \/ work[i].left < plan.calls
                  /\ work' = [work EXCEPT ![i].left = @ - 1]
               \/ ~plan.notice /\ Turn(i, "followup")
         [] OTHER ->
               Turn(i, IF plan.fallback /\ shouldUseCloudWatchFallback(call[i].status)
                       THEN "queries" ELSE "followup")
    /\ UNCHANGED <<conf, process>>

\* Whatever the queries, health checks and alarms or a method of the controller
\* bring, or fail to, is a text.
RunQueries(i) ==
    /\ work[i].pc = "queries" /\ Turn(i, "followup")
    /\ UNCHANGED <<clientVars, conf, process>>

\* The context of the work is also that of the follow-up.
SendFollowUp(i) ==
    /\ work[i].pc = "followup"
    /\ \/ i \notin expired /\ conf.appId /\ End(i, "answered") /\ UNCHANGED faults
       \/ (i \in expired \/ ~conf.appId) /\ End(i, "silent") /\ UNCHANGED faults
       \/ Fault /\ End(i, "silent")
    /\ ContextEnds(i)
    /\ UNCHANGED <<conf, process>>

CommandStep(i) ==
    \/ executeInteraction(i) \/ StartCall(i) \/ EndCall(i) \/ RunQueries(i) \/ SendFollowUp(i)
    \/ CallStep(i) /\ UNCHANGED <<conf, process, work>>

\* Mutant: a call whose time is over is left, whatever it holds.
DeadlineAbandons(i) ==
    /\ Working(i) /\ work[i].pc = "calls"
    /\ expired' = expired \union {i}
    /\ call' = [call EXCEPT ![i] = NoCall]
    /\ UNCHANGED <<config, tokens, service, history, faults, conf, process, work>>

Deadline(i) ==
    /\ Working(i) /\ DeadlinePasses(i)
    /\ UNCHANGED <<conf, process, work>>

PollStep ==
    /\ polling
    /\ Call(Poll) \/ CallStep(Poll) \/ Done(Poll)
    /\ UNCHANGED <<conf, process, work>>

------------------------------------------------------------------------------
(* Failures.                                                               *)

\* The process ends, by itself or not, and its container is started again.
Restart ==
    /\ IF main = "dead" THEN UNCHANGED faults ELSE Fault
    /\ Forget
    /\ main' = "listen" /\ status' = NewStatus
    /\ handler' = FALSE /\ ops' = FALSE /\ polling' = FALSE
    /\ work' = [i \in Interactions |->
                   IF Working(i) THEN [NoWork EXCEPT !.pc = "silent"] ELSE work[i]]
    /\ UNCHANGED conf

TokenExpires ==
    /\ \E t \in valid : AccessTokenExpires(t)
    /\ UNCHANGED <<conf, process, work>>

Next ==
    \/ MainStep
    \/ \E i \in Interactions :
           (\E r \in Requests[i] : Deliver(i, r)) \/ CommandStep(i) \/ Deadline(i)
    \/ PollStep \/ Restart \/ TokenExpires

Spec == Init /\ [][Next]_vars

------------------------------------------------------------------------------
(* Properties.                                                             *)

Ends == {"answered", "silent"}

TypeOK ==
    /\ ClientTypeOK
    /\ main \in {"listen", "aws", "register", "controller", "publish", "ready", "start",
                 "serving", "closed", "dead"}
    /\ status \in [DOMAIN NewStatus -> BOOLEAN]
    /\ {handler, ops, polling} \subseteq BOOLEAN
    /\ \A i \in Interactions :
           /\ work[i].pc \in {"none", "refused", "start", "calls", "queries", "followup"}
                             \union Ends
           /\ work[i].left \in 0..9
           /\ work[i].pc = "calls" => work[i].left > 0

\* While /healthz says that the bot is ready, a genuine and fresh interaction is
\* accepted, carried out with a controller, and may be answered.
HealthyMeansUsable ==
    status.ok => handler /\ ops /\ conf.keyValid /\ conf.appId

\* A command of the controller always finds it.
ControllerIsThere ==
    \A i \in Interactions : Working(i) => handler /\ ops

\* The bot uses the client as it is meant to be used: a call is left only when
\* it has returned, and its context dropped only when no call uses it.
UsesClient == ClientSpec
==============================================================================
