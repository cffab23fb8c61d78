-------------------------- MODULE ReportAdminClient --------------------------
(***************************************************************************)
(* The client of the report service's admin API:                           *)
(* internal/reportadmin/client.go.  A call of the API may need an access   *)
(* token first, and is repeated once with a new one when the service       *)
(* answers 401.  The callers of one client share its tokens; the mutex of  *)
(* the client is held while a refresh is under way.  Two clients start     *)
(* from the same configured refresh token, and a refresh may replace the   *)
(* refresh token.  Tokens are numbered in the order of their issue.        *)
(***************************************************************************)
EXTENDS Integers

CONSTANTS
    Clients, Callers,
    ClientOf,          \* ClientOf[p]: the client that caller p uses
    Limited,           \* the callers whose context has a deadline
    Nobody,            \* not a caller
    Codes,             \* how the service may answer a valid access token
    BaseURLs, AuthURLs, \* whether the two addresses may be configured
    MaxIssued,         \* bound: refreshes that the auth service grants
    MaxFaults          \* bound: failed requests and saves, crashes

ASSUME ClientAssumption ==
    /\ ClientOf \in [Callers -> Clients]
    /\ Limited \subseteq Callers
    /\ Nobody \notin Callers
    /\ Codes \subseteq Nat \ {401}
    /\ BaseURLs \subseteq BOOLEAN /\ AuthURLs \subseteq BOOLEAN
    /\ MaxIssued \in Nat /\ MaxFaults \in Nat

VARIABLES
    baseURL,           \* whether the refresh token and the base URL are given
    authURL,           \* whether the address of the auth service is
    token,             \* the access token of each client, 0 if it has none
    refresh,           \* its refresh token; 0 is the configured one
    holder,            \* who holds its mutex across a request
    call,              \* the call of each caller
    expired,           \* the callers whose context is over
    valid, live,       \* the auth service: access and refresh tokens it accepts
    issued,            \* the auth service: how many tokens it issued
    stranded,          \* history: clients that cannot know a live refresh token
    unlucky,           \* history: callers whose new access token expired at once
    faults

config == <<baseURL, authURL>>
tokens == <<token, refresh, holder>>
service == <<valid, live, issued>>
history == <<stranded, unlucky>>
clientVars == <<config, tokens, call, expired, service, history, faults>>

Tokens == 0..MaxIssued
Fault == faults < MaxFaults /\ faults' = faults + 1

\* retried: the service answered 401 once.  presented: the token of the request
\* that is under way.
NoCall == [pc |-> "idle", retried |-> FALSE, presented |-> 0, status |-> "OK"]

\* The status that doGet makes of the answer to a request.
StatusOf(code) ==
    CASE code = 401 -> "AUTH_ERROR"
      [] code = 403 -> "FORBIDDEN"
      [] code = 404 -> "NO_DATA"
      [] code \in 200..299 -> "OK"
      [] OTHER -> "UPSTREAM_ERROR"

ClientInit ==
    /\ baseURL \in BaseURLs /\ authURL \in AuthURLs
    /\ token = [c \in Clients |-> 0]
    /\ refresh = [c \in Clients |-> 0]
    /\ holder = [c \in Clients |-> Nobody]
    /\ call = [p \in Callers |-> NoCall]
    /\ expired = {}
    /\ valid = {} /\ live = {0} /\ issued = 0
    /\ stranded = {} /\ unlucky = {}
    /\ faults = 0

Own(p) == ClientOf[p]
At(p, pc) == call[p].pc = pc
Free(p) == holder[Own(p)] = Nobody
Go(p, pc) == call' = [call EXCEPT ![p].pc = pc, ![p].presented = 0]
Present(p, pc, t) == call' = [call EXCEPT ![p].pc = pc, ![p].presented = t]
Return(p, status) == call' = [call EXCEPT ![p] = [NoCall EXCEPT !.pc = "done", !.status = status]]

\* How a request that is cut off, or cannot be sent, ends.
Broken == {"TIMEOUT", "UPSTREAM_ERROR", "INVALID_RESPONSE"}
CutOff(p, status) ==
    \/ (p \in expired \/ issued = MaxIssued) /\ status = "TIMEOUT" /\ UNCHANGED faults
    \/ p \notin expired /\ Fault

------------------------------------------------------------------------------
(* get.                                                                    *)

\* Every read of a token waits for the mutex, and so for a refresh that another
\* caller has under way; the caller's deadline does not end that wait.
Call(p) ==
    /\ At(p, "idle") /\ Free(p)
    /\ IF ~baseURL THEN Return(p, "CONFIG_ERROR")
       ELSE Go(p, IF token[Own(p)] = 0 THEN "lock" ELSE "read")
    /\ UNCHANGED <<config, tokens, expired, service, history, faults>>

\* The caller takes the status and lets go of its context if it wants.
Done(p) ==
    /\ At(p, "done")
    /\ call' = [call EXCEPT ![p] = NoCall]
    /\ unlucky' = unlucky \ {p}
    /\ UNCHANGED <<config, tokens, expired, service, stranded, faults>>

refreshAccessToken(p) ==
    /\ At(p, "lock") /\ Free(p)
    /\ IF ~authURL
       THEN Return(p, "CONFIG_ERROR") /\ UNCHANGED holder
       ELSE /\ holder' = [holder EXCEPT ![Own(p)] = p]
            /\ Present(p, "refresh", refresh[Own(p)])
    /\ UNCHANGED <<config, token, refresh, expired, service, history, faults>>

Unlock(p) == holder' = [holder EXCEPT ![Own(p)] = Nobody]

\* The auth service grants the refresh and may replace the refresh token, which
\* is then spent.
Grant(p, rotates) ==
    /\ call[p].presented \in live /\ issued < MaxIssued
    /\ issued' = issued + 1
    /\ valid' = valid \union {issued + 1}
    /\ live' = IF rotates THEN (live \ {call[p].presented}) \union {issued + 1} ELSE live

Sharing(p) == {c \in Clients : refresh[c] = call[p].presented}

\* Mutant: a new refresh token is not kept.
KeepOld(p, rotates) == UNCHANGED refresh

Keep(p, rotates) ==
    refresh' = IF rotates THEN [refresh EXCEPT ![Own(p)] = issued + 1] ELSE refresh

RefreshGranted(p) ==
    /\ At(p, "refresh")
    /\ \E rotates \in BOOLEAN :
        /\ Grant(p, rotates)
        /\ token' = [token EXCEPT ![Own(p)] = issued + 1]
        /\ Keep(p, rotates)
        /\ stranded' = IF rotates THEN stranded \union (Sharing(p) \ {Own(p)}) ELSE stranded
    /\ Go(p, "read") /\ Unlock(p)
    /\ UNCHANGED <<config, expired, unlucky, faults>>

\* Mutant: the mutex is kept on this return.
RefreshDeniedKeepsLock(p) ==
    /\ At(p, "refresh") /\ call[p].presented \notin live
    /\ Return(p, "AUTH_ERROR")
    /\ UNCHANGED <<config, tokens, expired, service, history, faults>>

RefreshDenied(p) ==
    /\ At(p, "refresh") /\ call[p].presented \notin live
    /\ Return(p, "AUTH_ERROR") /\ Unlock(p)
    /\ UNCHANGED <<config, token, refresh, expired, service, history, faults>>

\* The request or its answer is lost, or the answer is no use.
RefreshBroken(p) ==
    /\ At(p, "refresh")
    /\ \E status \in Broken : Return(p, status) /\ CutOff(p, status)
    /\ \/ UNCHANGED <<service, stranded>>
       \/ \E rotates \in BOOLEAN :
           /\ Grant(p, rotates)
           /\ stranded' = IF rotates THEN stranded \union Sharing(p) ELSE stranded
    /\ Unlock(p)
    /\ UNCHANGED <<config, token, refresh, expired, unlucky>>

\* applyV2Headers.
Send(p) ==
    /\ At(p, "read") /\ Free(p)
    /\ Present(p, "get", token[Own(p)])
    /\ UNCHANGED <<config, tokens, expired, service, history, faults>>

Answered(p) ==
    /\ At(p, "get") /\ call[p].presented \in valid
    /\ \E code \in Codes : Return(p, StatusOf(code))
    /\ UNCHANGED <<config, tokens, expired, service, history, faults>>

\* Mutant: a 401 is not followed by a new token.
UnauthorizedReturns(p) ==
    /\ At(p, "get") /\ call[p].presented \notin valid
    /\ Return(p, StatusOf(401))
    /\ UNCHANGED <<config, tokens, expired, service, history, faults>>

Unauthorized(p) ==
    /\ At(p, "get") /\ call[p].presented \notin valid
    /\ IF call[p].retried THEN Return(p, StatusOf(401))
       ELSE call' = [call EXCEPT ![p] = [NoCall EXCEPT !.pc = "lock", !.retried = TRUE]]
    /\ UNCHANGED <<config, tokens, expired, service, history, faults>>

GetBroken(p) ==
    /\ At(p, "get")
    /\ \E status \in Broken : Return(p, status) /\ CutOff(p, status)
    /\ UNCHANGED <<config, tokens, expired, service, history>>

CallStep(p) ==
    \/ refreshAccessToken(p) \/ RefreshGranted(p) \/ RefreshDenied(p) \/ RefreshBroken(p)
    \/ Send(p) \/ Answered(p) \/ Unauthorized(p) \/ GetBroken(p)

------------------------------------------------------------------------------
(* The world.                                                              *)

DeadlinePasses(p) ==
    /\ p \in Limited
    /\ expired' = expired \union {p}
    /\ UNCHANGED <<config, tokens, call, service, history, faults>>

AccessTokenExpires(t) ==
    /\ t \in valid
    /\ valid' = valid \ {t}
    /\ unlucky' = unlucky \union
           {p \in Callers : call[p].retried /\ call[p].pc \in {"read", "get"}}
    /\ UNCHANGED <<config, tokens, call, expired, live, issued, stranded, faults>>

\* A context is dropped when the work that it was for is done.
ContextEnds(p) ==
    /\ call[p] = NoCall
    /\ expired' = expired \ {p}
    /\ UNCHANGED <<config, tokens, call, service, history>>

\* The tokens live in memory: a new process starts from the configured one.
Forget ==
    /\ token' = [c \in Clients |-> 0]
    /\ refresh' = [c \in Clients |-> 0]
    /\ holder' = [c \in Clients |-> Nobody]
    /\ call' = [p \in Callers |-> NoCall]
    /\ expired' = {}
    /\ stranded' = IF 0 \in live THEN {} ELSE Clients
    /\ unlucky' = {}
    /\ UNCHANGED <<config, service>>

\* What the rest of the bot, and faults of its own, do to the client.
ClientNext ==
    \/ \E p \in Callers :
           Call(p) \/ CallStep(p) \/ Done(p) \/ DeadlinePasses(p)
    \/ \E t \in valid : AccessTokenExpires(t)
    \/ (Fault \/ UNCHANGED faults) /\ (Forget \/ \E p \in Callers : ContextEnds(p))
    \/ Fault /\ UNCHANGED <<config, tokens, call, expired, service, history>>

ClientSpec == ClientInit /\ [][ClientNext]_clientVars

------------------------------------------------------------------------------
(* Properties.                                                             *)

Pcs == {"idle", "lock", "refresh", "read", "get", "done"}
Statuses == {"OK", "CONFIG_ERROR", "AUTH_ERROR", "FORBIDDEN", "NO_DATA"} \union Broken

ClientTypeOK ==
    /\ baseURL \in BOOLEAN /\ authURL \in BOOLEAN
    /\ token \in [Clients -> Tokens] /\ refresh \in [Clients -> Tokens]
    /\ holder \in [Clients -> Callers \union {Nobody}]
    /\ call \in [Callers -> [pc : Pcs, retried : BOOLEAN, presented : Tokens,
                             status : Statuses]]
    /\ expired \subseteq Limited
    /\ valid \subseteq Tokens /\ live \subseteq Tokens /\ issued \in Tokens
    /\ stranded \subseteq Clients /\ unlucky \subseteq Callers
    /\ faults \in 0..MaxFaults

\* The mutex of a client is held only by a caller of that client whose refresh
\* is under way, so that no way out of the refresh leaves the others waiting.
MutexHeldByRefresh ==
    \A c \in Clients :
        holder[c] # Nobody => Own(holder[c]) = c /\ At(holder[c], "refresh")

\* A caller presents the refresh token that its client holds, never one that
\* another caller of the same client has meanwhile exchanged.
PresentsNewest ==
    \A p \in Callers : At(p, "refresh") => call[p].presented = refresh[Own(p)]

\* A client holds a refresh token that the auth service accepts, unless somebody
\* else exchanged it (the other client, or this bot before a restart) or the
\* answer that brought the new one was lost.
HoldsLiveToken ==
    \A c \in Clients : refresh[c] \in live \/ c \in stranded

\* A call fails as unauthorized only if its client has no live refresh token, or
\* the new access token expired before it was used: an expired access token by
\* itself is never noticed by a caller.
ExpiryIsHidden ==
    \A p \in Callers :
        At(p, "done") /\ call[p].status = "AUTH_ERROR" =>
            Own(p) \in stranded \/ p \in unlucky
==============================================================================
