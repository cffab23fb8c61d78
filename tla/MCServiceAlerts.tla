--------------------------- MODULE MCServiceAlerts ---------------------------
(* Instances of ServiceAlerts for TLC, with incidents as OpsLog judges them.  *)
EXTENDS ServiceAlerts, OpsLog

CONSTANTS gw, au, old

\* gw is a CRITICAL row of the gateway, au a HIGH one of the auth service whose
\* domain the log leaves out, old of a key of an old version.
Log(i) ==
    [critical |-> FALSE,
     logType |-> "API_ERROR",
     domain |-> IF i = au THEN "" ELSE "gateway",
     domainCode |-> 0,
     name |-> IF i = au THEN "auth-service" ELSE "gateway",
     code |-> CASE i = gw -> 18801 [] i = au -> 21701 [] i = old -> 17001,
     status |-> IF i = old THEN 503 ELSE 409]

MCSource == [i \in Incidents |-> IF i = au THEN "auth" ELSE "gateway"]

\* The constants of the loop are what the classification makes of the rows.
ASSUME RowsAssumption ==
    \A i \in Incidents :
        LET decision == DecideV2Alert(Log(i)) IN
        /\ decision.alert
        /\ i \in Critical <=> decision.mention
        /\ serviceDomainFilter(Source[i], Log(i))
        /\ Domain[i] = NormalizeService(decision.domain)
==============================================================================
