--------------------------- MODULE MonitorBot_proofs ---------------------------
(***************************************************************************)
(* The bot for every number of interactions, every request and every       *)
(* configuration: it uses the client of the report service as that client  *)
(* is specified, so what is proved of the client holds of the bot; what    *)
(* /healthz promises follows from the order in which main publishes the    *)
(* controller, the handler and the readiness flag; and the types follow    *)
(* from what the work of a request can be (Plans).                         *)
(***************************************************************************)
EXTENDS MonitorBot, ReportAdminClient_proofs

\* What main has published so far.  The handler follows the controller and the
\* readiness flag follows the handler.
Published ==
    /\ main = "publish" => ops
    /\ main = "ready" => handler
    /\ handler => ops
    /\ status.ready => handler

Healthy ==
    /\ status \in [ok : BOOLEAN, http : BOOLEAN, aws : BOOLEAN, ready : BOOLEAN]
    /\ status.ok => Ready(status)

BotInv ==
    /\ handler \in BOOLEAN /\ ops \in BOOLEAN
    /\ work = [i \in Interactions |-> work[i]]
    /\ Published /\ Healthy /\ ControllerIsThere

------------------------------------------------------------------------------
(* The bot implements the specification of the client.                     *)

LEMMA InteractionsCall == \A i \in Interactions : i \in Callers
BY BotAssumption

LEMMA MainUsesClient ==
    ASSUME MainStep
    PROVE  UNCHANGED clientVars \/ (Fault /\ UNCHANGED clientIdle)
BY DEF MainStep, Listen, LoadDefaultConfig, LoadDefaultConfigFails, registerCommandsIfEnabled,
       SetOpsController, SetHandler, SetInteractionReady, StartLoops, clientVars, clientIdle,
       config, tokens, service, history

LEMMA IdleIsClientStep == Fault /\ UNCHANGED clientIdle => ClientNext
BY DEF clientIdle, ClientNext

LEMMA CallerIsClientStep ==
    ASSUME NEW p \in Callers,
           \/ Call(p) \/ CallStep(p) \/ Done(p) \/ DeadlinePasses(p)
    PROVE  ClientNext
BY DEF ClientNext

LEMMA FollowUpUsesClient ==
    ASSUME NEW i \in Interactions, SendFollowUp(i)
    PROVE  ClientNext
<1>1. Fault \/ UNCHANGED faults
  BY DEF SendFollowUp
<1>2. ContextEnds(i) /\ i \in Callers
  BY InteractionsCall DEF SendFollowUp
<1> QED BY <1>1, <1>2 DEF ClientNext

LEMMA CommandUsesClient ==
    ASSUME NEW i \in Interactions, CommandStep(i)
    PROVE  ClientNext \/ UNCHANGED clientVars
<1>1. i \in Callers
  BY InteractionsCall
<1>2. CASE executeInteraction(i)
  BY <1>2 DEF executeInteraction
<1>3. CASE StartCall(i)
  BY <1>3, <1>1, CallerIsClientStep DEF StartCall
<1>4. CASE EndCall(i)
  <2>1. Done(i)
    BY <1>4 DEF EndCall
  <2> QED BY <2>1, <1>1, CallerIsClientStep
<1>5. CASE RunQueries(i)
  BY <1>5 DEF RunQueries
<1>6. CASE SendFollowUp(i)
  BY <1>6, FollowUpUsesClient
<1>7. CASE CallStep(i)
  BY <1>7, <1>1, CallerIsClientStep
<1> QED BY <1>2, <1>3, <1>4, <1>5, <1>6, <1>7 DEF CommandStep

LEMMA BotUsesClient == [Next]_vars => [ClientNext]_clientVars
<1> SUFFICES ASSUME [Next]_vars PROVE ClientNext \/ UNCHANGED clientVars
  OBVIOUS
<1>1. CASE MainStep
  BY <1>1, MainUsesClient, IdleIsClientStep
<1>2. CASE \E i \in Interactions : \E r \in Requests[i] : Deliver(i, r)
  <2>1. UNCHANGED clientVars
    BY <1>2 DEF Deliver
  <2> QED BY <2>1
<1>3. CASE \E i \in Interactions : CommandStep(i)
  BY <1>3, CommandUsesClient
<1>4. CASE \E i \in Interactions : Deadline(i)
  <2>1. PICK i \in Interactions : DeadlinePasses(i)
    BY <1>4 DEF Deadline
  <2> QED BY <2>1, InteractionsCall, CallerIsClientStep
<1>5. CASE PollStep
  <2>1. Call(Poll) \/ CallStep(Poll) \/ Done(Poll)
    BY <1>5 DEF PollStep
  <2>2. Poll \in Callers
    BY BotAssumption
  <2> QED BY <2>1, <2>2, CallerIsClientStep
<1>6. CASE Restart
  <2>1. (Fault \/ UNCHANGED faults) /\ Forget
    BY <1>6 DEF Restart
  <2> QED BY <2>1 DEF ClientNext
<1>7. CASE TokenExpires
  <2>1. \E t \in valid : AccessTokenExpires(t)
    BY <1>7 DEF TokenExpires
  <2> QED BY <2>1 DEF ClientNext
<1>8. CASE UNCHANGED vars
  BY <1>8 DEF vars
<1> QED BY <1>1, <1>2, <1>3, <1>4, <1>5, <1>6, <1>7, <1>8 DEF Next

\* The bot (the interaction handler, the assignment poll, its deadlines and its
\* restarts) is a refinement of the client with arbitrary callers.
THEOREM BotRefinesClient == Spec => UsesClient
<1>1. Init => ClientInit
  BY DEF Init
<1> QED BY <1>1, BotUsesClient, PTL DEF Spec, UsesClient, ClientSpec

\* The bot inherits what is proved of the client: the mutex comes back,
\* refreshes take turns, the session is kept, expiry is hidden.
THEOREM BotKeepsClientPromises ==
    Spec => [](MutexHeldByRefresh /\ PresentsNewest /\ HoldsLiveToken /\ ExpiryIsHidden)
<1> QED BY BotRefinesClient, MutexIsReturned, RefreshesInTurn, SessionIsKept, ExpiryStaysHidden,
           PTL DEF UsesClient

------------------------------------------------------------------------------
(* What /healthz promises.                                                 *)

LEMMA BotInitInv == Init => BotInv
<1> SUFFICES ASSUME Init PROVE BotInv
  OBVIOUS
<1>1. work = [i \in Interactions |-> NoWork]
  BY DEF Init
<1>2. work = [i \in Interactions |-> work[i]]
  BY <1>1
<1>3. ControllerIsThere
  BY <1>1 DEF ControllerIsThere, Working, NoWork
<1> QED BY <1>2, <1>3 DEF Init, BotInv, Published, Healthy, NewStatus

\* A status that was set says ok only if the bot is ready.
LEMMA StatusIsTrue ==
    ASSUME NEW s \in [ok : BOOLEAN, http : BOOLEAN, aws : BOOLEAN, ready : BOOLEAN],
           SetStatus(s), conf' = conf
    PROVE  Healthy' /\ status'.ready = s.ready
<1>1. Ready(s) \in BOOLEAN
  BY DEF Ready
<1>2. /\ status' \in [ok : BOOLEAN, http : BOOLEAN, aws : BOOLEAN, ready : BOOLEAN]
      /\ status'.ok = Ready(s) /\ status'.http = s.http /\ status'.aws = s.aws
      /\ status'.ready = s.ready
  BY <1>1 DEF SetStatus
<1>3. status'.ok => Ready(status)'
  BY <1>2 DEF Ready
<1> QED BY <1>2, <1>3 DEF Healthy

\* Setting one flag of the status keeps its type.
LEMMA WithType ==
    ASSUME BotInv, NEW b \in BOOLEAN
    PROVE  LET S == [ok : BOOLEAN, http : BOOLEAN, aws : BOOLEAN, ready : BOOLEAN] IN
           /\ [status EXCEPT !.http = b] \in S /\ [status EXCEPT !.http = b].ready = status.ready
           /\ [status EXCEPT !.aws = b] \in S /\ [status EXCEPT !.aws = b].ready = status.ready
           /\ [status EXCEPT !.ready = b] \in S
BY DEF BotInv, Healthy

\* main publishes the controller, the handler and the flag in this order.
LEMMA MainKeeps ==
    ASSUME BotInv, MainStep
    PROVE  BotInv'
<1> USE DEF BotInv
<1>1. /\ handler => handler' /\ ops' /\ ops
      /\ UNCHANGED <<conf, work>>
  BY DEF MainStep, Listen, LoadDefaultConfig, LoadDefaultConfigFails, registerCommandsIfEnabled,
         SetOpsController, SetHandler, SetInteractionReady, StartLoops, Published
<1>2. ControllerIsThere'
  BY <1>1 DEF ControllerIsThere, Working
<1>3. CASE UNCHANGED status /\ (Listen \/ registerCommandsIfEnabled)
  <2>1. Healthy'
    BY <1>3, <1>1 DEF Healthy, Ready
  <2>2. Published'
    BY <1>3 DEF Published, Listen, registerCommandsIfEnabled
  <2>3. UNCHANGED <<handler, ops>>
    BY <1>3 DEF Listen, registerCommandsIfEnabled
  <2> QED BY <2>1, <2>2, <2>3, <1>1, <1>2
<1>4. CASE SetStatus([status EXCEPT !.http = TRUE]) /\ Listen
  <2>1. Healthy' /\ status'.ready = status.ready
    BY <1>4, <1>1, WithType, StatusIsTrue
  <2>2. main' \in {"aws", "dead"} /\ UNCHANGED <<handler, ops>>
    BY <1>4 DEF Listen
  <2> QED BY <2>1, <2>2, <1>1, <1>2 DEF Published
<1>5. CASE LoadDefaultConfig
  <2>1. Healthy' /\ status'.ready = status.ready
    BY <1>5, <1>1, WithType, StatusIsTrue DEF LoadDefaultConfig
  <2>2. main' = "register" /\ UNCHANGED <<handler, ops>>
    BY <1>5 DEF LoadDefaultConfig
  <2> QED BY <2>1, <2>2, <1>1, <1>2 DEF Published
<1>6. CASE LoadDefaultConfigFails
  <2>1. Healthy' /\ status'.ready = status.ready
    BY <1>6, <1>1, WithType, StatusIsTrue DEF LoadDefaultConfigFails
  <2>2. main' \in {"dead", "register"} /\ UNCHANGED <<handler, ops>>
    BY <1>6 DEF LoadDefaultConfigFails
  <2> QED BY <2>1, <2>2, <1>1, <1>2 DEF Published
<1>7. CASE SetOpsController \/ SetHandler \/ StartLoops
  <2>1. UNCHANGED <<status, conf>>
    BY <1>7 DEF SetOpsController, SetHandler, StartLoops
  <2>2. Healthy'
    BY <2>1 DEF Healthy, Ready
  <2>3. Published' /\ handler' \in BOOLEAN /\ ops' \in BOOLEAN
    <3>1. CASE SetOpsController
      BY <3>1 DEF SetOpsController, Published
    <3>2. CASE SetHandler
      BY <3>2 DEF SetHandler, Published
    <3>3. CASE StartLoops
      BY <3>3 DEF StartLoops, Published
    <3> QED BY <1>7, <3>1, <3>2, <3>3
  <2> QED BY <2>2, <2>3, <1>1, <1>2
<1>8. CASE SetInteractionReady
  <2> DEFINE s == [status EXCEPT !.ready = TRUE]
  <2>1. s \in [ok : BOOLEAN, http : BOOLEAN, aws : BOOLEAN, ready : BOOLEAN]
    BY WithType
  <2>2. SetStatus(s) /\ conf' = conf
    BY <1>8, <1>1 DEF SetInteractionReady
  <2> HIDE DEF s
  <2>3. Healthy'
    BY <2>1, <2>2, StatusIsTrue
  <2>4. main' = "start" /\ handler /\ UNCHANGED <<handler, ops>>
    BY <1>8 DEF SetInteractionReady, Published
  <2> QED BY <2>3, <2>4, <1>1, <1>2 DEF Published
<1> QED BY <1>3, <1>4, <1>5, <1>6, <1>7, <1>8
        DEF MainStep, Listen, registerCommandsIfEnabled

\* A step that leaves the published state alone keeps what is said of it.
LEMMA ProcessUnchanged ==
    ASSUME BotInv, UNCHANGED <<conf, process>>
    PROVE  Published' /\ Healthy' /\ handler' \in BOOLEAN /\ ops' \in BOOLEAN
BY DEF BotInv, process, Published, Healthy, Ready

\* An interaction is carried out only once there is a handler, and so a controller.
LEMMA DeliverKeeps ==
    ASSUME BotInv, NEW i \in Interactions, NEW r, Deliver(i, r)
    PROVE  BotInv'
<1> USE DEF BotInv
<1>1. UNCHANGED <<conf, process>>
  BY DEF Deliver
<1>2. UNCHANGED <<handler, ops>>
  BY <1>1 DEF process
<1>3. work' = [j \in Interactions |-> work[j]]'
  BY DEF Deliver, End
<1>4. ControllerIsThere'
  <2>1. CASE handler
    BY <2>1, <1>2 DEF Published, ControllerIsThere
  <2>2. CASE ~handler
    <3>1. work' = [work EXCEPT ![i] = [NoWork EXCEPT !.pc = "refused"]]
      BY <2>2 DEF Deliver, End
    <3>2. work'[i].pc = "refused" /\ \A j \in Interactions : j # i => work'[j] = work[j]
      BY <3>1 DEF NoWork
    <3> QED BY <3>2, <1>2 DEF ControllerIsThere, Working
  <2> QED BY <2>1, <2>2
<1> QED BY <1>1, <1>3, <1>4, ProcessUnchanged

\* Work that goes on has had its controller from the start.
LEMMA CommandKeeps ==
    ASSUME BotInv, NEW i \in Interactions, CommandStep(i) \/ Deadline(i)
    PROVE  BotInv'
<1> USE DEF BotInv
<1>1. UNCHANGED <<conf, process>>
  BY DEF CommandStep, executeInteraction, StartCall, EndCall, RunQueries, SendFollowUp, Deadline
<1>2. UNCHANGED <<handler, ops>>
  BY <1>1 DEF process
<1>3. CASE UNCHANGED work
  <2>1. ControllerIsThere'
    BY <1>3, <1>2 DEF ControllerIsThere, Working
  <2> QED BY <2>1, <1>3, <1>1, ProcessUnchanged
<1>4. CASE executeInteraction(i) \/ EndCall(i) \/ RunQueries(i) \/ SendFollowUp(i)
  <2>1. Working(i)
    BY <1>4 DEF executeInteraction, EndCall, RunQueries, SendFollowUp, Working
  <2>2. handler /\ ops
    BY <2>1 DEF ControllerIsThere
  <2>3. ControllerIsThere'
    BY <2>2, <1>2 DEF ControllerIsThere
  <2>4. work' = [j \in Interactions |-> work[j]]'
    BY <1>4 DEF executeInteraction, EndCall, RunQueries, SendFollowUp, Turn, End
  <2> QED BY <2>3, <2>4, <1>1, ProcessUnchanged
<1> QED BY <1>3, <1>4 DEF CommandStep, StartCall, Deadline

LEMMA BotStep == BotInv /\ [Next]_vars => BotInv'
<1> SUFFICES ASSUME BotInv, [Next]_vars PROVE BotInv'
  OBVIOUS
<1>1. CASE MainStep
  BY <1>1, MainKeeps
<1>2. CASE \E i \in Interactions : \E r \in Requests[i] : Deliver(i, r)
  BY <1>2, DeliverKeeps
<1>3. CASE \E i \in Interactions : CommandStep(i) \/ Deadline(i)
  BY <1>3, CommandKeeps
<1>4. CASE UNCHANGED <<conf, process, work>>
  <2>1. ControllerIsThere'
    BY <1>4 DEF BotInv, ControllerIsThere, Working, process
  <2> QED BY <2>1, <1>4, ProcessUnchanged DEF BotInv
<1>5. CASE Restart
  <2>1. work' = [i \in Interactions |-> work[i]]'
    BY <1>5 DEF Restart
  <2>2. \A i \in Interactions : ~Working(i)'
    BY <1>5 DEF Restart, Working, NoWork
  <2>3. handler' = FALSE /\ ops' = FALSE /\ main' = "listen" /\ status' = NewStatus
    BY <1>5 DEF Restart
  <2> QED BY <2>1, <2>2, <2>3 DEF BotInv, Published, Healthy, ControllerIsThere, NewStatus
<1> QED BY <1>1, <1>2, <1>3, <1>4, <1>5 DEF Next, PollStep, TokenExpires, vars

LEMMA BotInvariant == Spec => []BotInv
BY BotInitInv, BotStep, PTL DEF Spec

\* While /healthz answers that the bot is ready, interactions are accepted and
\* have their controller, whatever failed on the way there.
THEOREM HealthIsTrue == Spec => []HealthyMeansUsable
<1>1. BotInv => HealthyMeansUsable
  BY DEF BotInv, Published, Healthy, Ready, HealthyMeansUsable
<1> QED BY <1>1, BotInvariant, PTL

\* No command of the controller finds it missing.
THEOREM ControllerFirst == Spec => []ControllerIsThere
<1>1. BotInv => ControllerIsThere
  BY DEF BotInv
<1> QED BY <1>1, BotInvariant, PTL

------------------------------------------------------------------------------
(* The work that a command means.                                          *)

\* The methods of the controller, and the work that is none of theirs.
Ops == {"reply", "query", "lookup", "report", "WatchDashboardScope", "UnwatchDashboardScope",
        "ListDashboardWatches", "WatchLogFeed", "UnwatchLogFeed", "ListLogFeeds",
        "ConfigureAlert", "AcknowledgeAssignmentIssue", "UnacknowledgeAssignmentIssue",
        "AssignmentIssueHistory"}

PlanSet == [op : Ops, calls : Nat, notice : BOOLEAN, fallback : BOOLEAN]

\* At most nine calls of the report service, eight courses and their list, and at
\* least one for work that consists of them.
Plans == {plan \in PlanSet : plan.calls <= 9 /\ (plan.op = "report" => plan.calls > 0)}

LEMMA ReplyIsPlan == Reply \in Plans /\ Reply \in PlanSet /\ Reply.calls = 0
<1>1. Reply \in PlanSet /\ Reply.op = "reply" /\ Reply.calls = 0
  BY DEF Reply, PlanSet, Ops
<1> QED BY <1>1 DEF Plans

LEMMA DoIsPlan ==
    ASSUME NEW op \in Ops, op # "report"
    PROVE  Do(op) \in Plans
<1>1. Do(op) \in PlanSet /\ Do(op).op = op /\ Do(op).calls = 0
  BY ReplyIsPlan DEF Do, PlanSet
<1> QED BY <1>1 DEF Plans

LEMMA QueryIsPlan == /\ Do("query") \in Plans /\ Do("lookup") \in Plans
                     /\ \A since : Query(since) \in Plans
<1>1. Do("query") \in Plans /\ Do("lookup") \in Plans
  BY DoIsPlan DEF Ops
<1> QED BY <1>1, ReplyIsPlan DEF Query

\* Calls of the report service.
LEMMA ReportIsPlan ==
    ASSUME NEW n \in 1..9
    PROVE  /\ Report(n, FALSE, FALSE) \in Plans
           /\ Report(2, TRUE, FALSE) \in Plans
           /\ Report(2, TRUE, TRUE) \in Plans
<1> DEFINE all == Report(n, FALSE, FALSE)
           list == Report(2, TRUE, FALSE)
           check == Report(2, TRUE, TRUE)
<1>1. all \in PlanSet /\ all.op = "report" /\ all.calls = n
  <2>1. n \in Nat
    OBVIOUS
  <2>2. all \in PlanSet
    BY <2>1 DEF Report, Reply, PlanSet, Ops
  <2> QED BY <2>2 DEF Report, Reply
<1>2. list \in PlanSet /\ list.op = "report" /\ list.calls = 2
  BY DEF Report, Reply, PlanSet, Ops
<1>3. check \in PlanSet /\ check.op = "report" /\ check.calls = 2
  BY DEF Report, Reply, PlanSet, Ops
<1> HIDE DEF all, list, check
<1>4. all \in Plans /\ list \in Plans /\ check \in Plans
  BY <1>1, <1>2, <1>3 DEF Plans
<1> QED BY <1>4 DEF all, list, check

LEMMA DashboardIsPlan ==
    ASSUME NEW o
    PROVE  opsDashboardCommand(o) \in Plans
<1>1. \A since : serviceCommand(since) \in Plans /\ dashboardCommand(since) \in Plans
  BY QueryIsPlan DEF serviceCommand, dashboardCommand
<1>2. \A since : opsServiceCommand(o, since) \in Plans
  BY <1>1, QueryIsPlan, ReplyIsPlan DEF opsServiceCommand
<1>3. /\ Do("WatchDashboardScope") \in Plans /\ Do("UnwatchDashboardScope") \in Plans
      /\ Do("ListDashboardWatches") \in Plans
  BY DoIsPlan DEF Ops
<1> QED BY <1>1, <1>2, <1>3, ReplyIsPlan DEF opsDashboardCommand

LEMMA LogsIsPlan ==
    ASSUME NEW o
    PROVE  opsLogsCommand(o) \in Plans
<1>1. \A svc, since : errorsCommand(svc, since) \in Plans
  BY ReplyIsPlan, QueryIsPlan DEF errorsCommand
<1>2. \A mode, svc, since : opsLogsMode(o, mode, svc, since) \in Plans
  BY <1>1, ReplyIsPlan, QueryIsPlan DEF opsLogsMode
<1>3. opsLogsView(o) \in Plans
  BY <1>2, ReplyIsPlan DEF opsLogsView
<1>4. /\ Do("WatchLogFeed") \in Plans /\ Do("UnwatchLogFeed") \in Plans
      /\ Do("ListLogFeeds") \in Plans
  BY DoIsPlan DEF Ops
<1> QED BY <1>3, <1>4, ReplyIsPlan DEF opsLogsCommand

LEMMA AssignmentIsPlan ==
    ASSUME NEW o
    PROVE  assignmentCommand(o) \in Plans
<1>1. assignmentsAllCommand(o) \in Plans
  <2> DEFINE courses == IF MaxCourses > 8 THEN 8 ELSE MaxCourses
  <2>1. 1 + courses \in 1..9
    BY CoursesAssumption
  <2> QED BY <2>1, ReportIsPlan, ReplyIsPlan DEF assignmentsAllCommand
<1>2. /\ Do("AcknowledgeAssignmentIssue") \in Plans /\ Do("UnacknowledgeAssignmentIssue") \in Plans
      /\ Do("AssignmentIssueHistory") \in Plans
  BY DoIsPlan DEF Ops
<1>3. Report(2, TRUE, FALSE) \in Plans /\ Report(2, TRUE, TRUE) \in Plans
  <2>1. 1 \in 1..9
    OBVIOUS
  <2> QED BY <2>1, ReportIsPlan
<1>4. assignmentAckAction(o) \in Plans
  BY <1>2, ReplyIsPlan DEF assignmentAckAction
<1> QED BY <1>1, <1>2, <1>3, <1>4, ReplyIsPlan DEF assignmentCommand

\* Whatever is asked for, its work is one of the plans.
LEMMA ExecuteIsPlan ==
    ASSUME NEW r
    PROVE  Execute(r) \in Plans
<1>1. \A o : opsCommand(o) \in Plans
  <2>1. Do("ConfigureAlert") \in Plans
    BY DoIsPlan DEF Ops
  <2> QED BY <2>1, DashboardIsPlan, LogsIsPlan, AssignmentIsPlan, ReplyIsPlan DEF opsCommand
<1>2. \A o : executeButtonAction(o) \in Plans
  BY LogsIsPlan, ReplyIsPlan DEF executeButtonAction
<1> QED BY <1>1, <1>2 DEF Execute

------------------------------------------------------------------------------
(* Types.                                                                  *)

WorkPcs == {"none", "refused", "start", "calls", "queries", "followup"} \union Ends

\* Work that starts has all its calls before it, work that calls has some left.
GoodWork(w) ==
    /\ w \in [pc : WorkPcs, plan : Plans, left : 0..9]
    /\ w.pc = "start" => w.left = w.plan.calls
    /\ w.pc = "calls" => w.left > 0

MainTypes ==
    /\ main \in {"listen", "aws", "register", "controller", "publish", "ready", "start",
                 "serving", "closed", "dead"}
    /\ polling \in BOOLEAN

BotTypes == MainTypes /\ \A i \in Interactions : GoodWork(work[i])

LEMMA NoWorkIsGood ==
    ASSUME NEW pc \in WorkPcs, pc # "calls"
    PROVE  GoodWork([NoWork EXCEPT !.pc = pc])
<1>1. NoWork \in [pc : WorkPcs, plan : Plans, left : 0..9] /\ NoWork.left = 0 /\ NoWork.plan = Reply
  BY ReplyIsPlan DEF NoWork, WorkPcs
<1> DEFINE w == [NoWork EXCEPT !.pc = pc]
<1>2. /\ w \in [pc : WorkPcs, plan : Plans, left : 0..9]
      /\ w.pc = pc /\ w.left = 0 /\ w.plan = Reply
  BY <1>1
<1> HIDE DEF w
<1>3. GoodWork(w)
  BY <1>2, ReplyIsPlan DEF GoodWork
<1> QED BY <1>3 DEF w

\* A step of one interaction leaves the others alone.
LEMMA OneWorks ==
    ASSUME BotTypes, NEW i \in Interactions, GoodWork(work'[i]),
           \A j \in Interactions \ {i} : work'[j] = work[j], UNCHANGED process
    PROVE  BotTypes'
BY DEF BotTypes, MainTypes, process

LEMMA EndTypes ==
    ASSUME BotInv, BotTypes, NEW i \in Interactions, NEW pc \in WorkPcs, pc # "calls",
           End(i, pc), UNCHANGED process
    PROVE  BotTypes'
<1>1. /\ work'[i] = [NoWork EXCEPT !.pc = pc]
      /\ \A j \in Interactions \ {i} : work'[j] = work[j]
  BY DEF End, BotInv
<1>2. GoodWork(work'[i])
  BY <1>1, NoWorkIsGood
<1> QED BY <1>1, <1>2, OneWorks

\* Going on with the work.
LEMMA TurnTypes ==
    ASSUME BotInv, BotTypes, NEW i \in Interactions, NEW pc \in WorkPcs \ {"start"},
           pc = "calls" => work[i].left > 0, Turn(i, pc), UNCHANGED process
    PROVE  BotTypes'
<1> DEFINE W == [pc : WorkPcs, plan : Plans, left : 0..9]
           plan == IF pc = "followup" THEN Reply ELSE work[i].plan
           left == IF pc = "calls" THEN work[i].left ELSE 0
<1>1. work[i] \in W
  BY DEF BotTypes, GoodWork
<1>2. /\ work'[i] = [work[i] EXCEPT !.pc = pc, !.plan = plan, !.left = left]
      /\ \A j \in Interactions \ {i} : work'[j] = work[j]
  BY DEF Turn, BotInv
<1>3. plan \in Plans /\ left \in 0..9
  BY <1>1, ReplyIsPlan
<1>4. pc = "calls" => left > 0
  OBVIOUS
<1> HIDE DEF plan, left
<1>5. work'[i] \in W /\ work'[i].pc = pc /\ work'[i].left = left
  BY <1>1, <1>2, <1>3
<1>6. GoodWork(work'[i])
  BY <1>4, <1>5 DEF GoodWork
<1> QED BY <1>2, <1>6, OneWorks

\* The number of calls that are left goes down to the last one.
LEMMA CallLeftTypes ==
    ASSUME BotInv, BotTypes, NEW i \in Interactions, work[i].pc = "calls", work[i].left > 1,
           work' = [work EXCEPT ![i].left = @ - 1], UNCHANGED process
    PROVE  BotTypes'
<1>1. work[i] \in [pc : WorkPcs, plan : Plans, left : 0..9]
  BY DEF BotTypes, GoodWork
<1>2. /\ work'[i] = [work[i] EXCEPT !.left = @ - 1]
      /\ \A j \in Interactions \ {i} : work'[j] = work[j]
  BY DEF BotInv
<1>3. /\ work'[i] \in [pc : WorkPcs, plan : Plans, left : 0..9]
      /\ work'[i].pc = "calls" /\ work'[i].left > 0
  BY <1>1, <1>2
<1>4. GoodWork(work'[i])
  BY <1>3 DEF GoodWork
<1> QED BY <1>2, <1>4, OneWorks

LEMMA CommandTypes ==
    ASSUME BotInv, BotTypes, NEW i \in Interactions, CommandStep(i)
    PROVE  BotTypes'
<1>1. UNCHANGED process
  BY DEF CommandStep, executeInteraction, StartCall, EndCall, RunQueries, SendFollowUp
<1>2. CASE UNCHANGED work
  BY <1>1, <1>2 DEF BotTypes, MainTypes, process
<1>3. CASE executeInteraction(i)
  <2>1. work[i].pc = "start" /\ ops
    BY <1>3 DEF executeInteraction, BotInv, ControllerIsThere, Working
  <2>2. GoodWork(work[i])
    BY DEF BotTypes
  <2>3. \/ work[i].plan.op = "report" /\ Turn(i, "calls")
        \/ Turn(i, "queries") \/ Turn(i, "followup")
    BY <1>3, <2>1 DEF executeInteraction
  <2>4. work[i].plan.op = "report" => work[i].left > 0
    BY <2>1, <2>2 DEF GoodWork, Plans, PlanSet
  <2> QED BY <1>1, <2>3, <2>4, TurnTypes DEF WorkPcs
<1>4. CASE EndCall(i)
  <2>1. work[i].pc = "calls" /\ work[i].left \in 0..9
    BY <1>4 DEF EndCall, BotTypes, GoodWork
  <2>2. \/ work[i].left > 1 /\ work' = [work EXCEPT ![i].left = @ - 1]
        \/ Turn(i, "queries") \/ Turn(i, "followup")
    BY <1>4, <2>1 DEF EndCall
  <2>3. CASE work[i].left > 1 /\ work' = [work EXCEPT ![i].left = @ - 1]
    BY <1>1, <2>1, <2>3, CallLeftTypes
  <2> QED BY <1>1, <2>2, <2>3, TurnTypes DEF WorkPcs
<1>5. CASE RunQueries(i)
  BY <1>1, <1>5, TurnTypes DEF RunQueries, WorkPcs
<1>6. CASE SendFollowUp(i)
  <2>1. End(i, "answered") \/ End(i, "silent")
    BY <1>6 DEF SendFollowUp
  <2> QED BY <1>1, <2>1, EndTypes DEF WorkPcs, Ends
<1> QED BY <1>2, <1>3, <1>4, <1>5, <1>6 DEF CommandStep, StartCall

LEMMA DeliverTypes ==
    ASSUME BotInv, BotTypes, NEW i \in Interactions, NEW r, Deliver(i, r)
    PROVE  BotTypes'
<1>1. UNCHANGED process
  BY DEF Deliver
<1>2. CASE work' = [work EXCEPT ![i] =
               [pc |-> "start", plan |-> Execute(r), left |-> Execute(r).calls]]
  <2> DEFINE w == [pc |-> "start", plan |-> Execute(r), left |-> Execute(r).calls]
  <2>1. Execute(r) \in Plans
    BY ExecuteIsPlan
  <2>2. Execute(r).calls \in 0..9
    BY <2>1 DEF Plans, PlanSet
  <2>3. GoodWork(w)
    BY <2>1, <2>2 DEF GoodWork, WorkPcs
  <2>4. work'[i] = w /\ \A j \in Interactions \ {i} : work'[j] = work[j]
    BY <1>2 DEF BotInv
  <2> HIDE DEF w
  <2>5. GoodWork(work'[i])
    BY <2>3, <2>4
  <2> QED BY <1>1, <2>4, <2>5, OneWorks
<1>3. CASE End(i, "refused")
  BY <1>1, <1>3, EndTypes DEF WorkPcs
<1> QED BY <1>2, <1>3 DEF Deliver

LEMMA BotTypesStep == BotInv /\ BotTypes /\ [Next]_vars => BotTypes'
<1> SUFFICES ASSUME BotInv, BotTypes, [Next]_vars PROVE BotTypes'
  OBVIOUS
<1>1. CASE MainStep
  <2>1. UNCHANGED work
    BY <1>1, MainKeeps DEF MainStep, Listen, LoadDefaultConfig, LoadDefaultConfigFails,
       registerCommandsIfEnabled, SetOpsController, SetHandler, SetInteractionReady, StartLoops
  <2>2. MainTypes'
    BY <1>1 DEF BotTypes, MainTypes, MainStep, Listen, LoadDefaultConfig, LoadDefaultConfigFails,
       registerCommandsIfEnabled, SetOpsController, SetHandler, SetInteractionReady, StartLoops
  <2> QED BY <2>1, <2>2 DEF BotTypes
<1>2. CASE \E i \in Interactions : \E r \in Requests[i] : Deliver(i, r)
  BY <1>2, DeliverTypes
<1>3. CASE \E i \in Interactions : CommandStep(i)
  BY <1>3, CommandTypes
<1>4. CASE UNCHANGED <<process, work>>
  BY <1>4 DEF BotTypes, MainTypes, process
<1>5. CASE Restart
  <2>1. main' = "listen" /\ polling' = FALSE
    BY <1>5 DEF Restart
  <2>2. \A i \in Interactions : work'[i] \in {work[i], [NoWork EXCEPT !.pc = "silent"]}
    BY <1>5 DEF Restart
  <2>3. GoodWork([NoWork EXCEPT !.pc = "silent"])
    BY NoWorkIsGood DEF WorkPcs, Ends
  <2> QED BY <2>1, <2>2, <2>3 DEF BotTypes, MainTypes
<1> QED BY <1>1, <1>2, <1>3, <1>4, <1>5 DEF Next, Deadline, PollStep, TokenExpires, vars

LEMMA BotTypesInvariant == Spec => []BotTypes
<1>1. Init => BotTypes
  <2> SUFFICES ASSUME Init PROVE BotTypes
    OBVIOUS
  <2>1. \A i \in Interactions : work[i] = [NoWork EXCEPT !.pc = "none"]
    BY DEF Init, NoWork
  <2>2. GoodWork([NoWork EXCEPT !.pc = "none"])
    BY NoWorkIsGood DEF WorkPcs
  <2> QED BY <2>1, <2>2 DEF Init, BotTypes, MainTypes
<1> QED BY <1>1, BotInvariant, BotTypesStep, PTL DEF Spec

\* The variables of the bot have their types: work that is past its last call has no
\* calls left, and no work ends up without a controller.
THEOREM BotTypeCorrect == Spec => []TypeOK
<1>1. BotInv /\ BotTypes /\ ClientTypeOK => TypeOK
  <2> SUFFICES ASSUME BotInv, BotTypes, ClientTypeOK PROVE TypeOK
    OBVIOUS
  <2>1. status \in [DOMAIN NewStatus -> BOOLEAN]
    BY DEF BotInv, Healthy, NewStatus
  <2>2. \A i \in Interactions :
           /\ work[i].pc \in WorkPcs /\ work[i].left \in 0..9
           /\ work[i].pc = "calls" => work[i].left > 0
    BY DEF BotTypes, GoodWork
  <2> QED BY <2>1, <2>2 DEF TypeOK, BotInv, BotTypes, MainTypes, WorkPcs
<1> QED BY <1>1, BotInvariant, BotTypesInvariant, BotRefinesClient, ClientTypeCorrect,
           PTL DEF UsesClient

==============================================================================
