-------------------------------- MODULE OpsLog --------------------------------
(***************************************************************************)
(* How the bot judges one row of an operations log: internal/opslog/v2.go, *)
(* and the part of internal/cloudwatch/queries.go that decides which rows  *)
(* it gets to see.  A log is a record of the fields that matter:           *)
(*   critical - level CRITICAL;  logType;  domain, domainCode, name - the  *)
(*   service;  code - of the response's error, 0 if there is none;         *)
(*   status - of the response.                                             *)
(* An empty field is "" or 0.                                              *)
(***************************************************************************)
EXTENDS Integers

serviceCodeNames ==
    <<"gateway", "auth", "user", "report", "judge", "blog", "", "", "common">>
Categories == 0..8
External == 7

errorCodeOverrides == {60701, 90701, 90801}

explicitCriticalCodes ==
    {18801, 21801, 28101, 38101, 38801, 48801, 54801, 68801, 90801, 98801}

knownHighCodes ==
    {21701, 60701, 90701} \union {34801, 34802} \union {44701} \union 44801..44807
        \union 54701..54703 \union 54802..54805 \union 64801..64805

\* An error code is sccdd or sccdd's older form of the auth service, 21cdd.
Digit(code, unit) == (code \div unit) % 10
Invalid == [valid |-> FALSE, service |-> "", category |-> -1]

serviceName(n) == IF n \in DOMAIN serviceCodeNames THEN serviceCodeNames[n] ELSE ""

CategoryCode(code) ==
    IF code \in errorCodeOverrides THEN Digit(code, 100)
    ELSE IF code \div 1000 = 21 /\ Digit(code, 100) \in 1..8 THEN Digit(code, 100)
    ELSE Digit(code, 1000)

ParseErrorCode(code) ==
    IF /\ code \in 10000..99999
       /\ serviceName(code \div 10000) # ""
       /\ CategoryCode(code) \in Categories
    THEN [valid |-> TRUE, service |-> serviceName(code \div 10000),
          category |-> CategoryCode(code)]
    ELSE Invalid

normalizeServiceName(name) ==
    CASE name \in {"auth", "auth-service"} -> "auth"
      [] name \in {"web-service", "report-service"} -> "report"
      [] name \in {"online-judge", "online-judge-service", "judge-service"} -> "judge"
      [] name \in {"post", "post-service", "blog-service"} -> "blog"
      [] OTHER -> name

ResolveServiceDomain(log) ==
    CASE log.domain # "" -> log.domain
      [] log.domain = "" /\ serviceName(log.domainCode) # "" -> serviceName(log.domainCode)
      [] OTHER -> IF log.name = "" THEN "unknown" ELSE normalizeServiceName(log.name)

ServerError(log) == log.logType = "API_ERROR" /\ log.status >= 500

ResolveV2Severity(log, info) ==
    IF log.critical \/ log.code \in explicitCriticalCodes THEN "CRITICAL"
    ELSE IF \/ info.category = External \/ log.code \in knownHighCodes
            \/ log.logType = "EVENT_ERROR" \/ ServerError(log)
         THEN "HIGH"
    ELSE IF log.logType \in {"API_SLOW", "SECURITY"} THEN "MEDIUM"
    ELSE IF info.category \in 1..6 THEN "LOW"
    ELSE "UNKNOWN"

DecideV2Alert(log) ==
    LET info == ParseErrorCode(log.code)
        severity == ResolveV2Severity(log, info)
        alert == \/ severity = "CRITICAL"
                 \/ log.logType = "EVENT_ERROR" \/ ServerError(log)
                 \/ info.category = External \/ log.code \in knownHighCodes
    IN  [alert |-> alert,
         mention |-> alert /\ severity = "CRITICAL",
         severity |-> severity,
         domain |-> ResolveServiceDomain(log)]

------------------------------------------------------------------------------
(* Names of services, and the queries.                                     *)

\* security.NormalizeService; "" is an unknown name.
NormalizeService(name) ==
    CASE name = "judge" -> "online-judge"
      [] name = "blog" -> "post"
      [] name \in {"gateway", "auth", "report", "online-judge", "post"} -> name
      [] OTHER -> ""

serviceDomainFilter(service, log) ==
    CASE service = "gateway" ->
             log.domain = "gateway" \/ log.domainCode = 1 \/ log.name = "gateway"
      [] service = "auth" ->
             log.domain = "auth" \/ log.domainCode = 2 \/ log.name = "auth-service"
      [] service = "report" ->
             log.domain = "report" \/ log.domainCode = 4
                 \/ log.name \in {"web-service", "report-service"}
      [] service = "online-judge" ->
             log.domain = "judge" \/ log.domainCode = 5
                 \/ log.name \in {"online-judge-service", "judge-service"}
      [] service = "post" ->
             log.domain = "blog" \/ log.domainCode = 6
                 \/ log.name \in {"post-service", "blog-service"}

\* The rows that the query of the alert loop returns, whatever the service.
BuildAlertQuery(log) ==
    \/ log.logType = "EVENT_ERROR" \/ ServerError(log)
    \/ log.code \in 10000..99999 /\ Digit(log.code, 1000) \in {7, 8}
    \/ log.code \div 1000 = 21 /\ Digit(log.code, 100) \in {7, 8}
    \/ log.code \in errorCodeOverrides

==============================================================================
