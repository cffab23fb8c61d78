-------------------------------- MODULE Gateway --------------------------------
(***************************************************************************)
(* A request on its way through the filters of the gateway that keep       *)
(* state: the availability toggles (availability/), the rate limit and the *)
(* body check of the authentication endpoints (security/), and the token   *)
(* context cache (cache/).  Toggles and cache live in Redis, where each    *)
(* command is atomic and may fail, with or without effect; in between, the *)
(* auth service invalidates the cache of a subject and an administrator    *)
(* changes the toggles.                                                    *)
(***************************************************************************)
EXTENDS FixedWindowRateLimiter

CONSTANTS
    Requests, Webhooks,  \* slots for requests and for calls of the webhook
    Infos,             \* what a request may be: [service, kind, key, body, token]
    Services, Tokens, Subjects,
    SubjectOf,         \* SubjectOf[token]
    Nothing,           \* no service, no kind and key, no token
    Ttl,               \* app.token-cache.ttl
    MaxTime,           \* bound: the last moment of Redis' clock
    MaxArrivals,       \* bound: requests
    MaxFaults          \* bound: failed commands, restarts, clocks set back

ASSUME GatewayAssumption ==
    /\ \A info \in Infos :
           /\ info.service \in Services \union {Nothing}
           /\ info.kind \in Kinds \union {Nothing}
           /\ info.kind \in Kinds => info.key \in Keys
           /\ info.token \in Tokens \union {Nothing}
    /\ Nothing \notin Services \union Kinds \union Tokens /\ Nothing \notin Infos
    /\ SubjectOf \in [Tokens -> Subjects]
    /\ Ttl \in Nat \ {0} /\ MaxTime \in Nat /\ MaxArrivals \in Nat /\ MaxFaults \in Nat

VARIABLES
    now,               \* Redis: its clock
    toggles,           \* Redis: gateway:service-availability; without a field: on
    entries,           \* Redis: when the entry of a token expires, 0 if it has none
    index,             \* Redis: the tokens indexed for a subject, and when that expires
    req,               \* the requests: [pc, info, barred]
    webhook,           \* the calls of the webhook: [subject, members]
    loose,             \* history: entries that may not be in the index
    arrivals, faults

cache == <<entries, index, loose>>
gatewayVars == <<limiterVars, now, toggles, cache, req, webhook, arrivals, faults>>

Forever == MaxTime + Ttl + 1
NoIndex == [members |-> {}, expires |-> Forever]
NoWebhook == [subject |-> Nothing, members |-> {}]

Fault == faults < MaxFaults /\ faults' = faults + 1

Ends == {"refused", "limited", "routed"}
Slot(pc, info, barred) == [pc |-> pc, info |-> IF pc \in Ends THEN Nothing ELSE info,
                           barred |-> barred]
Idle == Slot("routed", Nothing, FALSE)
Go(r, pc) == req' = [req EXCEPT ![r] = Slot(pc, @.info, @.barred)]

Init ==
    /\ LimiterInit
    /\ now = 0
    /\ toggles = [s \in Services |-> "on"]
    /\ entries = [t \in Tokens |-> 0]
    /\ index = [s \in Subjects |-> NoIndex]
    /\ req = [r \in Requests |-> Idle]
    /\ webhook = [w \in Webhooks |-> NoWebhook]
    /\ loose = {}
    /\ arrivals = 0 /\ faults = 0

\* The filters in their order.
AfterLimit(info) == IF info.token # Nothing THEN "get" ELSE "routed"
AfterAvailability(info) == IF info.kind # Nothing THEN "limit" ELSE AfterLimit(info)

Arrive(r, info) ==
    /\ req[r].pc \in Ends
    /\ arrivals < MaxArrivals /\ arrivals' = arrivals + 1
    /\ req' = [req EXCEPT ![r] =
           Slot(IF info.service # Nothing THEN "availability" ELSE AfterAvailability(info),
                info, info.service # Nothing /\ toggles[info.service] = "off")]
    /\ UNCHANGED <<limiterVars, now, toggles, cache, webhook, faults>>

------------------------------------------------------------------------------
(* BackendServiceAvailabilityFilter.                                       *)

\* Mutant: what is stored is not understood, and counts as enabled.
isEnabledAlways(s) == toggles[s] \in {"on", "off"}

isEnabled(s) == toggles[s] # "off"

CheckAvailability(r) ==
    /\ req[r].pc = "availability"
    /\ Go(r, IF isEnabled(req[r].info.service) THEN AfterAvailability(req[r].info)
             ELSE "refused")
    /\ UNCHANGED <<limiterVars, now, toggles, cache, webhook, arrivals, faults>>

\* Without Redis every service counts as enabled.
CheckAvailabilityFails(r) ==
    /\ req[r].pc = "availability" /\ Fault
    /\ req' = [req EXCEPT ![r] = Slot(AfterAvailability(@.info), @.info, FALSE)]
    /\ UNCHANGED <<limiterVars, now, toggles, cache, webhook, arrivals>>

\* Enabling a service lets in those that were barred and have not been refused.
setEnabled(s, value) ==
    /\ toggles' = [toggles EXCEPT ![s] = value]
    /\ req' = [r \in Requests |->
           IF value = "on" /\ req[r].info # Nothing /\ req[r].info.service = s
           THEN [req[r] EXCEPT !.barred = FALSE] ELSE req[r]]
    /\ UNCHANGED <<limiterVars, now, cache, webhook, arrivals, faults>>

------------------------------------------------------------------------------
(* AuthRateLimitFilter and AuthRequestValidationFilter.                    *)

TooLarge(info) == info.body = "too large"
validates(info) == info.body = "valid"

\* A body that is too large is not counted, one that is not valid is.
Limit(r) ==
    /\ req[r].pc = "limit"
    /\ LET info == req[r].info IN
       \/ /\ TooLarge(info)
          /\ Go(r, "refused") /\ UNCHANGED limiterVars
       \/ /\ ~TooLarge(info)
          /\ \E allowed \in BOOLEAN :
              /\ allow(info.kind, info.key, allowed)
              /\ Go(r, IF ~allowed THEN "limited"
                       ELSE IF validates(info) THEN AfterLimit(info) ELSE "refused")
    /\ UNCHANGED <<now, toggles, cache, webhook, arrivals, faults>>

------------------------------------------------------------------------------
(* TokenContextHeaderFilter: every way out of it leads on.                 *)

Token(r) == req[r].info.token
Subject(r) == SubjectOf[Token(r)]
Indexed(t) == t \in index[SubjectOf[t]].members /\ index[SubjectOf[t]].expires >= entries[t]

Get(r) ==
    /\ req[r].pc = "get"
    /\ Go(r, IF entries[Token(r)] # 0 THEN "routed" ELSE "put")
    /\ UNCHANGED <<limiterVars, now, toggles, cache, webhook, arrivals, faults>>

Put(r) ==
    /\ req[r].pc = "put"
    /\ Go(r, "add")
    /\ entries' = [entries EXCEPT ![Token(r)] = now + Ttl]
    /\ loose' = loose \union {Token(r)}
    /\ UNCHANGED <<limiterVars, now, toggles, index, webhook, arrivals, faults>>

Add(r) ==
    /\ req[r].pc = "add"
    /\ Go(r, "expire")
    /\ index' = [index EXCEPT ![Subject(r)].members = @ \union {Token(r)}]
    /\ UNCHANGED <<limiterVars, now, toggles, entries, loose, webhook, arrivals, faults>>

\* Mutant: the index lives as long as its first entry.
ExpireOnce(r) ==
    /\ req[r].pc = "expire"
    /\ Go(r, "routed")
    /\ index' = [index EXCEPT ![Subject(r)].expires = IF @ = Forever THEN now + Ttl ELSE @]
    /\ loose' = IF Token(r) \in index[Subject(r)].members THEN loose \ {Token(r)} ELSE loose
    /\ UNCHANGED <<limiterVars, now, toggles, entries, webhook, arrivals, faults>>

\* The index may be gone by now; then there is nothing to expire.
Expire(r) ==
    /\ req[r].pc = "expire"
    /\ Go(r, "routed")
    /\ index' = [index EXCEPT ![Subject(r)].expires = IF index[Subject(r)].members = {} THEN @
                                                      ELSE now + Ttl]
    /\ loose' = IF Token(r) \in index[Subject(r)].members THEN loose \ {Token(r)} ELSE loose
    /\ UNCHANGED <<limiterVars, now, toggles, entries, webhook, arrivals, faults>>

\* A command that fails has had its effect or not; the request goes on without
\* the commands that would have followed.
ContextFails(r) ==
    /\ req[r].pc \in {"get", "put", "add", "expire"} /\ Fault
    /\ Go(r, "routed")
    /\ \/ UNCHANGED cache
       \/ /\ req[r].pc = "put"
          /\ entries' = [entries EXCEPT ![Token(r)] = now + Ttl]
          /\ loose' = loose \union {Token(r)}
          /\ UNCHANGED index
       \/ /\ req[r].pc = "add"
          /\ index' = [index EXCEPT ![Subject(r)].members = @ \union {Token(r)}]
          /\ UNCHANGED <<entries, loose>>
    /\ UNCHANGED <<limiterVars, now, toggles, webhook, arrivals>>

------------------------------------------------------------------------------
(* TokenContextInvalidationService.                                        *)

ReadMembers(w, s) ==
    /\ webhook[w] = NoWebhook
    /\ webhook' = [webhook EXCEPT ![w] = [subject |-> s, members |-> index[s].members]]
    /\ UNCHANGED <<limiterVars, now, toggles, cache, req, arrivals, faults>>

\* Entries indexed after the members were read stay, and their index goes.
DeleteMembers(w) ==
    /\ webhook[w] # NoWebhook
    /\ LET s == webhook[w].subject
           spared == {t \in Tokens \ webhook[w].members : SubjectOf[t] = s /\ entries[t] # 0}
       IN  /\ entries' = [t \in Tokens |-> IF t \in webhook[w].members THEN 0 ELSE entries[t]]
           /\ index' = [index EXCEPT ![s] = NoIndex]
           /\ loose' = (loose \ webhook[w].members) \union spared
    /\ webhook' = [webhook EXCEPT ![w] = NoWebhook]
    /\ UNCHANGED <<limiterVars, now, toggles, req, arrivals, faults>>

\* The answer is the same: accepted, no keys.
InvalidationFails(w) ==
    /\ webhook[w] # NoWebhook /\ Fault
    /\ webhook' = [webhook EXCEPT ![w] = NoWebhook]
    /\ UNCHANGED <<limiterVars, now, toggles, cache, req, arrivals>>

------------------------------------------------------------------------------
(* The world.                                                              *)

\* Redis drops what has expired.
Tick ==
    /\ now < MaxTime
    /\ now' = now + 1
    /\ entries' = [t \in Tokens |-> IF entries[t] <= now' THEN 0 ELSE entries[t]]
    /\ index' = [s \in Subjects |-> IF index[s].expires <= now' THEN NoIndex ELSE index[s]]
    /\ loose' = {t \in loose : entries'[t] # 0}
    /\ UNCHANGED <<limiterVars, toggles, req, webhook, arrivals, faults>>

MinutePasses ==
    /\ minute < MaxMinute
    /\ SetClock(minute + 1)
    /\ UNCHANGED <<now, toggles, cache, req, webhook, arrivals, faults>>

ClockSetBack ==
    /\ Fault
    /\ \E m \in Minutes : m < minute /\ SetClock(m)
    /\ UNCHANGED <<now, toggles, cache, req, webhook, arrivals>>

Restart ==
    /\ Fault /\ NewLimiter
    /\ req' = [r \in Requests |-> Idle]
    /\ webhook' = [w \in Webhooks |-> NoWebhook]
    /\ UNCHANGED <<now, toggles, cache, arrivals>>

RequestStep(r) ==
    \/ CheckAvailability(r) \/ CheckAvailabilityFails(r) \/ Limit(r)
    \/ Get(r) \/ Put(r) \/ Add(r) \/ Expire(r) \/ ContextFails(r)

WebhookStep(w) ==
    (\E s \in Subjects : ReadMembers(w, s)) \/ DeleteMembers(w) \/ InvalidationFails(w)

Next ==
    \/ \E r \in Requests : RequestStep(r) \/ \E info \in Infos : Arrive(r, info)
    \/ \E s \in Services, value \in {"on", "off"} : setEnabled(s, value)
    \/ \E w \in Webhooks : WebhookStep(w)
    \/ Tick \/ MinutePasses \/ ClockSetBack \/ Restart

Spec == Init /\ [][Next]_gatewayVars

------------------------------------------------------------------------------
(* Properties.                                                             *)

TypeOK ==
    /\ LimiterTypeOK
    /\ now \in 0..MaxTime
    /\ toggles \in [Services -> {"on", "off"}]
    /\ entries \in [Tokens -> 0..(MaxTime + Ttl)]
    /\ index \in [Subjects -> [members : SUBSET Tokens, expires : 0..Forever]]
    /\ \A r \in Requests :
           /\ req[r].pc \in {"availability", "limit", "get", "put", "add", "expire"} \union Ends
           /\ req[r].barred \in BOOLEAN
    /\ loose \subseteq Tokens
    /\ arrivals \in 0..MaxArrivals /\ faults \in 0..MaxFaults

\* A call is refused for its limit only in a minute that had more calls than
\* that, whatever other keys share its counters.
RefusedOnlyIfBusy ==
    [][\A r \in Requests :
           req[r].pc = "limit" /\ req'[r].pc = "limited"
               /\ limitOf[req[r].info.kind] > 0
           => total' > limitOf[req[r].info.kind]]_gatewayVars

\* A request that arrives when its service is switched off, and stays so, gets
\* no further, unless Redis could not be asked.
DisabledIsRefused ==
    \A r \in Requests : req[r].barred => req[r].pc \in {"availability", "refused"}

\* An invalidation of its subject would find every entry of the cache, until the
\* entry expires, unless the fill of the entry is unfinished or failed, or an
\* invalidation that began before the entry was indexed took its index away.
EntriesAreFound == \A t \in Tokens : entries[t] # 0 => t \in loose \/ Indexed(t)
==============================================================================
