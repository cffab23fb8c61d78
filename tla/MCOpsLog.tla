------------------------------- MODULE MCOpsLog -------------------------------
(* The rows of a log group, one after another, for TLC. *)
EXTENDS OpsLog

VARIABLE log

\* Every service and category, with details on both sides of the known codes.
Logs ==
    [critical : {FALSE}, logType : {"API", "API_ERROR", "EVENT_ERROR", "SECURITY"},
     domain : {"auth"}, domainCode : {0}, name : {"auth-service"},
     code : {0} \union errorCodeOverrides \union
            {10000 * s + 1000 * c + d : s \in 0..9, c \in 0..9, d \in {1, 101, 701, 801, 899}},
     status : {400, 500}]

Init == log \in Logs
Next == log' \in Logs
Spec == Init /\ [][Next]_log

\* Every row that would be alerted is one that the alert query returns.  (The
\* test of the decisions expects API_ERROR rows with the code 64801 and the
\* status 400 to be alerted.)
AlertsAreQueried == DecideV2Alert(log).alert => BuildAlertQuery(log)
==============================================================================
