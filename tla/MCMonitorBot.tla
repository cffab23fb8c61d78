----------------------------- MODULE MCMonitorBot -----------------------------
(* The bot with two interactions, the assignment poll, and its two clients.  *)
EXTENDS MonitorBot

CONSTANTS i1, i2, poll, handlerClient, monitorClient

MCInteractions == {i1, i2}
MCCallers == {i1, i2, poll}
MCClients == {handlerClient, monitorClient}
MCClientOf == [p \in MCCallers |-> IF p = poll THEN monitorClient ELSE handlerClient]

MCBoth == {TRUE, FALSE}
MCCodes == {200, 500}

MCConfigs ==
    {[keyValid |-> TRUE, appId |-> TRUE, strict |-> FALSE, register |-> TRUE],
     [keyValid |-> FALSE, appId |-> TRUE, strict |-> TRUE, register |-> FALSE]}

Genuine(type, command) ==
    [post |-> TRUE, small |-> TRUE, age |-> 300, genuine |-> TRUE, json |-> TRUE,
     type |-> type, guild |-> TRUE, role |-> TRUE, button |-> TRUE, command |-> command]

Check == [NoOptions EXCEPT !.name = "assignment", !.action = "check", !.course = "ok", !.id = "ok"]
Overview == [NoOptions EXCEPT !.name = "assignment", !.scope = "all"]
Acknowledge == [Check EXCEPT !.action = "ack", !.reason = TRUE]
Errors(since) == [NoOptions EXCEPT !.name = "logs", !.service = "all", !.since = since]
Dashboard == [NoOptions EXCEPT !.name = "dashboard"]

\* Both interactions use the client, with and without a fallback.
MCRequests ==
    [i \in MCInteractions |->
        IF i = i2 THEN {Genuine("command", Check)}
        ELSE {Genuine("command", Overview), Genuine("command", Acknowledge),
              Genuine("command", Errors("1h")),
              Genuine("component", TraceButton),
              [Genuine("command", Dashboard) EXCEPT !.age = 301],
              [Genuine("command", Dashboard) EXCEPT !.role = FALSE]}]
===============================================================================
