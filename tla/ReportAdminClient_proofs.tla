----------------------- MODULE ReportAdminClient_proofs -----------------------
(***************************************************************************)
(* The client of the report service for every number of callers, clients,  *)
(* refreshes and faults.  Locked says who holds a mutex and what a caller  *)
(* under way presents; with it a denied refresh means that the refresh     *)
(* token of the client itself is no longer accepted (HoldsLiveToken), and  *)
(* Fresh says that a repeated request has a token that was just issued.    *)
(***************************************************************************)
EXTENDS ReportAdminClient, TLAPS

CallRecord == [pc : Pcs, retried : BOOLEAN, presented : Tokens, status : Statuses]

\* The mutex is held exactly by a caller that refreshes, and what that caller
\* presents is the refresh token of its client.
Locked ==
    /\ MutexHeldByRefresh
    /\ \A p \in Callers : At(p, "refresh") => holder[Own(p)] = p
    /\ PresentsNewest

\* A request that is repeated has a token that the service still accepts, unless
\* it expired just now; a call that has not begun or has returned is not repeated.
Fresh ==
    \A p \in Callers :
        call[p].retried =>
            /\ ~At(p, "idle")
            /\ At(p, "read") => token[Own(p)] \in valid \/ p \in unlucky
            /\ At(p, "get") => call[p].presented \in valid \/ p \in unlucky

ClientInv == ClientTypeOK /\ Locked /\ HoldsLiveToken /\ Fresh /\ ExpiryIsHidden

------------------------------------------------------------------------------
(* How the call of one caller changes.                                     *)

LEMMA TokenNumbers == 0 \in Tokens /\ (issued \in Tokens /\ issued < MaxIssued => issued + 1 \in Tokens)
BY ClientAssumption DEF Tokens

LEMMA NoCallType == NoCall \in CallRecord
BY ClientAssumption DEF NoCall, CallRecord, Pcs, Statuses, Broken, Tokens

LEMMA StatusType == \A code \in Codes : StatusOf(code) \in Statuses /\ StatusOf(code) # "AUTH_ERROR"
BY ClientAssumption DEF StatusOf, Statuses, Broken

\* A new value for one caller leaves the calls of the others alone.
LEMMA SetCall ==
    ASSUME call \in [Callers -> CallRecord], NEW p \in Callers, NEW r \in CallRecord,
           call' = [call EXCEPT ![p] = r]
    PROVE  /\ call' \in [Callers -> CallRecord]
           /\ call'[p] = r
           /\ \A q \in Callers : q # p => call'[q] = call[q]
OBVIOUS

LEMMA GoSets ==
    ASSUME call \in [Callers -> CallRecord], NEW p \in Callers, NEW pc \in Pcs, Go(p, pc)
    PROVE  /\ call' \in [Callers -> CallRecord]
           /\ call'[p].pc = pc /\ call'[p].retried = call[p].retried
           /\ call'[p].presented = 0 /\ call'[p].status = call[p].status
           /\ \A q \in Callers : q # p => call'[q] = call[q]
<1> DEFINE r == [call[p] EXCEPT !.pc = pc, !.presented = 0]
<1>1. call[p] \in CallRecord
  OBVIOUS
<1>2. r \in CallRecord
  BY <1>1, TokenNumbers DEF CallRecord
<1>3. call' = [call EXCEPT ![p] = r]
  BY DEF Go
<1>4. r.pc = pc /\ r.retried = call[p].retried /\ r.presented = 0 /\ r.status = call[p].status
  BY <1>1 DEF CallRecord
<1> HIDE DEF r
<1> QED
  BY <1>2, <1>3, <1>4, SetCall

LEMMA PresentSets ==
    ASSUME call \in [Callers -> CallRecord], NEW p \in Callers, NEW pc \in Pcs,
           NEW t \in Tokens, Present(p, pc, t)
    PROVE  /\ call' \in [Callers -> CallRecord]
           /\ call'[p].pc = pc /\ call'[p].retried = call[p].retried
           /\ call'[p].presented = t /\ call'[p].status = call[p].status
           /\ \A q \in Callers : q # p => call'[q] = call[q]
<1> DEFINE r == [call[p] EXCEPT !.pc = pc, !.presented = t]
<1>1. call[p] \in CallRecord
  OBVIOUS
<1>2. r \in CallRecord
  BY <1>1 DEF CallRecord
<1>3. call' = [call EXCEPT ![p] = r]
  BY DEF Present
<1>4. r.pc = pc /\ r.retried = call[p].retried /\ r.presented = t /\ r.status = call[p].status
  BY <1>1 DEF CallRecord
<1> HIDE DEF r
<1> QED
  BY <1>2, <1>3, <1>4, SetCall

LEMMA ReturnSets ==
    ASSUME call \in [Callers -> CallRecord], NEW p \in Callers, NEW status \in Statuses,
           Return(p, status)
    PROVE  /\ call' \in [Callers -> CallRecord]
           /\ call'[p].pc = "done" /\ call'[p].retried = FALSE
           /\ call'[p].presented = 0 /\ call'[p].status = status
           /\ \A q \in Callers : q # p => call'[q] = call[q]
<1> DEFINE r == [NoCall EXCEPT !.pc = "done", !.status = status]
<1>1. r \in CallRecord
  BY NoCallType DEF CallRecord, Pcs
<1>2. call' = [call EXCEPT ![p] = r]
  BY DEF Return
<1>3. r.pc = "done" /\ r.retried = FALSE /\ r.presented = 0 /\ r.status = status
  BY DEF NoCall
<1> HIDE DEF r
<1> QED
  BY <1>1, <1>2, <1>3, SetCall

LEMMA RetrySets ==
    ASSUME call \in [Callers -> CallRecord], NEW p \in Callers,
           call' = [call EXCEPT ![p] = [NoCall EXCEPT !.pc = "lock", !.retried = TRUE]]
    PROVE  /\ call' \in [Callers -> CallRecord]
           /\ call'[p].pc = "lock" /\ call'[p].retried = TRUE /\ call'[p].presented = 0
           /\ \A q \in Callers : q # p => call'[q] = call[q]
<1> DEFINE r == [NoCall EXCEPT !.pc = "lock", !.retried = TRUE]
<1>1. r \in CallRecord
  BY NoCallType DEF CallRecord, Pcs
<1>3. r.pc = "lock" /\ r.retried = TRUE /\ r.presented = 0
  BY DEF NoCall
<1>2. call' = [call EXCEPT ![p] = r]
  OBVIOUS
<1> HIDE DEF r
<1> QED
  BY <1>1, <1>2, <1>3, SetCall

------------------------------------------------------------------------------
(* The steps.                                                              *)

\* A step of a caller that does not refresh, before or after, leaves the mutexes alone.
LEMMA LockedElsewhere ==
    ASSUME ClientInv, NEW p \in Callers, UNCHANGED <<holder, refresh>>,
           ~At(p, "refresh"), call'[p].pc # "refresh",
           \A q \in Callers : q # p => call'[q] = call[q]
    PROVE  Locked'
<1>1. \A c \in Clients : holder[c] # Nobody => holder[c] \in Callers /\ holder[c] # p
  BY DEF ClientInv, ClientTypeOK, Locked, MutexHeldByRefresh
<1>2. MutexHeldByRefresh'
  BY <1>1 DEF ClientInv, Locked, MutexHeldByRefresh, At, Own
<1> QED
  BY <1>2 DEF ClientInv, Locked, PresentsNewest, At, Own

\* A call starts without the mutex, and not as a repetition.
LEMMA CallKeeps ==
    ASSUME ClientInv, NEW p \in Callers, Call(p)
    PROVE  ClientInv'
<1> USE DEF ClientInv
<1>a. call \in [Callers -> CallRecord]
  BY DEF ClientTypeOK, CallRecord
<1>u. /\ At(p, "idle")
      /\ UNCHANGED <<baseURL, authURL, token, refresh, holder, expired,
                  valid, live, issued, stranded, unlucky, faults>>
  BY DEF config, tokens, service, history, Call
<1>c. /\ call' \in [Callers -> CallRecord]
      /\ \A q \in Callers : q # p => call'[q] = call[q]
      /\ call'[p].pc \in {"done", "lock", "read"}
      /\ call'[p].pc = "done" => call'[p].status = "CONFIG_ERROR"
      /\ ~call'[p].retried
  BY <1>a, <1>u, GoSets, ReturnSets DEF Call, Pcs, Statuses, Fresh
<1>t. ClientTypeOK'
  BY <1>a, <1>u, <1>c, TokenNumbers DEF ClientTypeOK, CallRecord
<1>l. Locked'
  BY <1>u, <1>c, LockedElsewhere DEF At
<1>h. HoldsLiveToken'
  BY <1>u DEF HoldsLiveToken
<1>f. Fresh'
  BY <1>a, <1>u, <1>c DEF Fresh, At, Own, CallRecord
<1>e. ExpiryIsHidden'
  BY <1>a, <1>u, <1>c DEF ExpiryIsHidden, At, Own, CallRecord
<1> QED
  BY <1>t, <1>l, <1>h, <1>f, <1>e

\* The caller takes the status.
LEMMA DoneKeeps ==
    ASSUME ClientInv, NEW p \in Callers, Done(p)
    PROVE  ClientInv'
<1> USE DEF ClientInv
<1>a. call \in [Callers -> CallRecord]
  BY DEF ClientTypeOK, CallRecord
<1>u. /\ At(p, "done") /\ unlucky' = unlucky \ {p}
      /\ UNCHANGED <<baseURL, authURL, token, refresh, holder, expired,
                  valid, live, issued, stranded, faults>>
  BY DEF config, tokens, service, history, Done
<1>c. /\ call' \in [Callers -> CallRecord]
      /\ \A q \in Callers : q # p => call'[q] = call[q]
      /\ call'[p] = NoCall
  BY <1>a, NoCallType, SetCall DEF Done
<1>n. NoCall.pc = "idle" /\ NoCall.retried = FALSE
  BY DEF NoCall
<1>t. ClientTypeOK'
  BY <1>a, <1>u, <1>c, TokenNumbers DEF ClientTypeOK, CallRecord
<1>l. Locked'
  BY <1>u, <1>c, <1>n, LockedElsewhere DEF At
<1>h. HoldsLiveToken'
  BY <1>u DEF HoldsLiveToken
<1>f. Fresh'
  BY <1>a, <1>u, <1>c, <1>n DEF Fresh, At, Own, CallRecord
<1>e. ExpiryIsHidden'
  BY <1>a, <1>u, <1>c, <1>n DEF ExpiryIsHidden, At, Own, CallRecord
<1> QED
  BY <1>t, <1>l, <1>h, <1>f, <1>e

\* A caller takes a mutex that nobody holds, and presents the refresh token.
LEMMA RefreshStartKeeps ==
    ASSUME ClientInv, NEW p \in Callers, refreshAccessToken(p)
    PROVE  ClientInv'
<1> USE DEF ClientInv
<1>a. call \in [Callers -> CallRecord]
  BY DEF ClientTypeOK, CallRecord
<1>u. /\ At(p, "lock") /\ Free(p)
      /\ UNCHANGED <<baseURL, authURL, token, refresh, expired, valid,
                  live, issued, stranded, unlucky, faults>>
  BY DEF config, tokens, service, history, refreshAccessToken
<1>o. Own(p) \in Clients /\ refresh[Own(p)] \in Tokens
  BY ClientAssumption DEF Own, ClientTypeOK
<1>c. /\ call' \in [Callers -> CallRecord]
      /\ \A q \in Callers : q # p => call'[q] = call[q]
      /\ \/ /\ call'[p].pc = "done" /\ call'[p].status = "CONFIG_ERROR"
            /\ ~call'[p].retried /\ holder' = holder
         \/ /\ call'[p].pc = "refresh" /\ call'[p].presented = refresh[Own(p)]
            /\ holder' = [holder EXCEPT ![Own(p)] = p]
  BY <1>a, <1>o, PresentSets, ReturnSets DEF refreshAccessToken, Pcs, Statuses
<1>t. ClientTypeOK'
  BY <1>a, <1>u, <1>c, TokenNumbers DEF ClientTypeOK, CallRecord
<1>l. Locked'
  <2>1. Nobody \notin Callers /\ \A q \in Callers : Own(q) \in Clients
    BY ClientAssumption DEF Own
  <2>2. holder[Own(p)] = Nobody
    BY <1>u DEF Free
  <2> QED
    BY <1>a, <1>u, <1>c, <1>o, <2>1, <2>2 DEF ClientTypeOK, Locked, MutexHeldByRefresh, PresentsNewest, At, CallRecord
<1>h. HoldsLiveToken'
  BY <1>u DEF HoldsLiveToken
<1>f. Fresh'
  BY <1>a, <1>u, <1>c DEF Fresh, At, Own, CallRecord
<1>e. ExpiryIsHidden'
  BY <1>a, <1>u, <1>c DEF ExpiryIsHidden, At, Own, CallRecord
<1> QED
  BY <1>t, <1>l, <1>h, <1>f, <1>e

\* A refresh is denied only if the client holds no live refresh token.
LEMMA RefreshDeniedKeeps ==
    ASSUME ClientInv, NEW p \in Callers, RefreshDenied(p)
    PROVE  ClientInv'
<1> USE DEF ClientInv
<1>a. call \in [Callers -> CallRecord]
  BY DEF ClientTypeOK, CallRecord
<1>u. /\ At(p, "refresh") /\ call[p].presented \notin live
      /\ holder' = [holder EXCEPT ![Own(p)] = Nobody]
      /\ UNCHANGED <<baseURL, authURL, token, refresh, expired, valid,
                  live, issued, stranded, unlucky, faults>>
  BY DEF config, tokens, service, history, RefreshDenied, Unlock
<1>o. Own(p) \in Clients /\ Nobody \notin Callers
  BY ClientAssumption DEF Own
<1>c. /\ call' \in [Callers -> CallRecord]
      /\ \A q \in Callers : q # p => call'[q] = call[q]
      /\ call'[p].pc = "done" /\ ~call'[p].retried
  BY <1>a, ReturnSets DEF RefreshDenied, Statuses
<1>s. Own(p) \in stranded
  BY <1>u, <1>o DEF Locked, PresentsNewest, HoldsLiveToken
<1>t. ClientTypeOK'
  BY <1>a, <1>u, <1>c, TokenNumbers DEF ClientTypeOK, CallRecord
<1>l. Locked'
  <2>1. \A q \in Callers : Own(q) \in Clients
    BY ClientAssumption DEF Own
  <2>2. holder[Own(p)] = p
    BY <1>u DEF Locked
  <2> QED
    BY <1>a, <1>u, <1>c, <1>o, <2>1, <2>2 DEF ClientTypeOK, Locked, MutexHeldByRefresh, PresentsNewest, At, CallRecord
<1>h. HoldsLiveToken'
  BY <1>u DEF HoldsLiveToken
<1>f. Fresh'
  BY <1>a, <1>u, <1>c DEF Fresh, At, Own, CallRecord
<1>e. ExpiryIsHidden'
  BY <1>a, <1>u, <1>c, <1>s DEF ExpiryIsHidden, At, CallRecord
<1> QED
  BY <1>t, <1>l, <1>h, <1>f, <1>e

\* The request carries the access token that the client has now.
LEMMA SendKeeps ==
    ASSUME ClientInv, NEW p \in Callers, Send(p)
    PROVE  ClientInv'
<1> USE DEF ClientInv
<1>a. call \in [Callers -> CallRecord]
  BY DEF ClientTypeOK, CallRecord
<1>u. /\ At(p, "read")
      /\ UNCHANGED <<baseURL, authURL, token, refresh, holder, expired,
                  valid, live, issued, stranded, unlucky, faults>>
  BY DEF config, tokens, service, history, Send
<1>o. token[Own(p)] \in Tokens
  BY ClientAssumption DEF Own, ClientTypeOK
<1>c. /\ call' \in [Callers -> CallRecord]
      /\ \A q \in Callers : q # p => call'[q] = call[q]
      /\ call'[p].pc = "get" /\ call'[p].presented = token[Own(p)]
      /\ call'[p].retried = call[p].retried
  BY <1>a, <1>o, PresentSets DEF Send, Pcs
<1>t. ClientTypeOK'
  BY <1>a, <1>u, <1>c, TokenNumbers DEF ClientTypeOK, CallRecord
<1>l. Locked'
  BY <1>u, <1>c, LockedElsewhere DEF At
<1>h. HoldsLiveToken'
  BY <1>u DEF HoldsLiveToken
<1>f. Fresh'
  BY <1>a, <1>u, <1>c DEF Fresh, At, Own, CallRecord
<1>e. ExpiryIsHidden'
  BY <1>a, <1>u, <1>c DEF ExpiryIsHidden, At, Own, CallRecord
<1> QED
  BY <1>t, <1>l, <1>h, <1>f, <1>e

\* An accepted request never ends as unauthorized.
LEMMA AnsweredKeeps ==
    ASSUME ClientInv, NEW p \in Callers, Answered(p)
    PROVE  ClientInv'
<1> USE DEF ClientInv
<1>a. call \in [Callers -> CallRecord]
  BY DEF ClientTypeOK, CallRecord
<1>u. /\ At(p, "get")
      /\ UNCHANGED <<baseURL, authURL, token, refresh, holder, expired,
                  valid, live, issued, stranded, unlucky, faults>>
  BY DEF config, tokens, service, history, Answered
<1>c. /\ call' \in [Callers -> CallRecord]
      /\ \A q \in Callers : q # p => call'[q] = call[q]
      /\ call'[p].pc = "done" /\ call'[p].status # "AUTH_ERROR" /\ ~call'[p].retried
  BY <1>a, ReturnSets, StatusType DEF Answered
<1>t. ClientTypeOK'
  BY <1>a, <1>u, <1>c, TokenNumbers DEF ClientTypeOK, CallRecord
<1>l. Locked'
  BY <1>u, <1>c, LockedElsewhere DEF At
<1>h. HoldsLiveToken'
  BY <1>u DEF HoldsLiveToken
<1>f. Fresh'
  BY <1>a, <1>u, <1>c DEF Fresh, At, Own, CallRecord
<1>e. ExpiryIsHidden'
  BY <1>a, <1>u, <1>c DEF ExpiryIsHidden, At, Own, CallRecord
<1> QED
  BY <1>t, <1>l, <1>h, <1>f, <1>e

\* A second 401 means that the new token expired at once.
LEMMA UnauthorizedKeeps ==
    ASSUME ClientInv, NEW p \in Callers, Unauthorized(p)
    PROVE  ClientInv'
<1> USE DEF ClientInv
<1>a. call \in [Callers -> CallRecord]
  BY DEF ClientTypeOK, CallRecord
<1>u. /\ At(p, "get") /\ call[p].presented \notin valid
      /\ UNCHANGED <<baseURL, authURL, token, refresh, holder, expired,
                  valid, live, issued, stranded, unlucky, faults>>
  BY DEF config, tokens, service, history, Unauthorized
<1>o. StatusOf(401) \in Statuses
  BY DEF StatusOf, Statuses
<1>c. /\ call' \in [Callers -> CallRecord]
      /\ \A q \in Callers : q # p => call'[q] = call[q]
      /\ \/ call'[p].pc = "done" /\ ~call'[p].retried /\ call[p].retried
         \/ call'[p].pc = "lock"
  <2>1. CASE call[p].retried
    <3>1. Return(p, StatusOf(401))
      BY <2>1 DEF Unauthorized
    <3> HIDE DEF ClientInv
    <3> QED
      BY <1>a, <1>o, <2>1, <3>1, ReturnSets
  <2>2. CASE ~call[p].retried
    <3>1. call' = [call EXCEPT ![p] = [NoCall EXCEPT !.pc = "lock", !.retried = TRUE]]
      BY <2>2 DEF Unauthorized
    <3> HIDE DEF ClientInv
    <3> QED
      BY <1>a, <3>1, RetrySets
  <2> QED
    BY <2>1, <2>2
<1>s. call[p].retried => p \in unlucky
  BY <1>u DEF Fresh
<1>t. ClientTypeOK'
  BY <1>a, <1>u, <1>c, TokenNumbers DEF ClientTypeOK, CallRecord
<1>l. Locked'
  BY <1>u, <1>c, LockedElsewhere DEF At
<1>h. HoldsLiveToken'
  BY <1>u DEF HoldsLiveToken
<1>f. Fresh'
  BY <1>a, <1>u, <1>c DEF Fresh, At, Own, CallRecord
<1>e. ExpiryIsHidden'
  BY <1>a, <1>u, <1>c, <1>s DEF ExpiryIsHidden, At, Own, CallRecord
<1> QED
  BY <1>t, <1>l, <1>h, <1>f, <1>e

\* A request that is lost.
LEMMA GetBrokenKeeps ==
    ASSUME ClientInv, NEW p \in Callers, GetBroken(p)
    PROVE  ClientInv'
<1> USE DEF ClientInv
<1>a. call \in [Callers -> CallRecord]
  BY DEF ClientTypeOK, CallRecord
<1>u. /\ At(p, "get")
      /\ UNCHANGED <<baseURL, authURL, token, refresh, holder, expired,
                  valid, live, issued, stranded, unlucky>>
  BY DEF config, tokens, service, history, GetBroken
<1>o. faults' \in 0..MaxFaults
  BY ClientAssumption DEF GetBroken, CutOff, Fault, ClientTypeOK
<1>c. /\ call' \in [Callers -> CallRecord]
      /\ \A q \in Callers : q # p => call'[q] = call[q]
      /\ call'[p].pc = "done" /\ call'[p].status # "AUTH_ERROR" /\ ~call'[p].retried
  BY <1>a, ReturnSets DEF GetBroken, Broken, Statuses
<1>t. ClientTypeOK'
  BY <1>a, <1>u, <1>c, <1>o DEF ClientTypeOK, CallRecord
<1>l. Locked'
  BY <1>u, <1>c, LockedElsewhere DEF At
<1>h. HoldsLiveToken'
  BY <1>u DEF HoldsLiveToken
<1>f. Fresh'
  BY <1>a, <1>u, <1>c DEF Fresh, At, Own, CallRecord
<1>e. ExpiryIsHidden'
  BY <1>a, <1>u, <1>c DEF ExpiryIsHidden, At, Own, CallRecord
<1> QED
  BY <1>t, <1>l, <1>h, <1>f, <1>e

\* A granted refresh: whoever shared a spent refresh token is stranded.
LEMMA RefreshGrantedKeeps ==
    ASSUME ClientInv, NEW p \in Callers, RefreshGranted(p)
    PROVE  ClientInv'
<1> USE DEF ClientInv
<1>a. call \in [Callers -> CallRecord]
  BY DEF ClientTypeOK, CallRecord
<1>r. PICK rotates \in BOOLEAN :
        /\ Grant(p, rotates)
        /\ token' = [token EXCEPT ![Own(p)] = issued + 1]
        /\ Keep(p, rotates)
        /\ stranded' = IF rotates THEN stranded \union (Sharing(p) \ {Own(p)}) ELSE stranded
  BY DEF RefreshGranted
<1>u. /\ At(p, "refresh")
      /\ holder' = [holder EXCEPT ![Own(p)] = Nobody]
      /\ UNCHANGED <<baseURL, authURL, expired, unlucky, faults>>
  BY DEF config, RefreshGranted, Unlock
<1>o. Own(p) \in Clients /\ Nobody \notin Callers
  BY ClientAssumption DEF Own
<1>c. /\ call' \in [Callers -> CallRecord]
      /\ \A q \in Callers : q # p => call'[q] = call[q]
      /\ call'[p].pc = "read" /\ call'[p].retried = call[p].retried
  BY <1>a, GoSets DEF RefreshGranted, Pcs
<1>i. /\ issued' = issued + 1 /\ issued + 1 \in Tokens
      /\ valid' = valid \union {issued + 1}
      /\ live' = IF rotates THEN (live \ {call[p].presented}) \union {issued + 1} ELSE live
  BY <1>r, TokenNumbers DEF Grant, ClientTypeOK
<1>k. refresh' = IF rotates THEN [refresh EXCEPT ![Own(p)] = issued + 1] ELSE refresh
  BY <1>r DEF Keep
<1>t. ClientTypeOK'
  <2>1. stranded' \subseteq Clients
    BY <1>r DEF ClientTypeOK, Sharing
  <2> QED
    BY <1>a, <1>u, <1>c, <1>r, <1>i, <1>k, <2>1 DEF ClientTypeOK, CallRecord
<1>l. Locked'
  <2>1. \A q \in Callers : Own(q) \in Clients
    BY ClientAssumption DEF Own
  <2>2. holder[Own(p)] = p
    BY <1>u DEF Locked
  <2>3. \A c \in Clients : c # Own(p) => refresh'[c] = refresh[c] /\ holder'[c] = holder[c]
    BY <1>u, <1>k DEF ClientTypeOK
  <2>4. holder'[Own(p)] = Nobody
    BY <1>u, <1>o DEF ClientTypeOK
  <2>5. \A q \in Callers : q # p /\ At(q, "refresh") => Own(q) # Own(p)
    BY <2>2 DEF Locked
  <2>6. \A q \in Callers : (call'[q].pc = "refresh") => q # p /\ At(q, "refresh") /\ call'[q] = call[q]
    BY <1>c DEF At
  <2> QED
    BY <1>c, <2>1, <2>2, <2>3, <2>4, <2>5, <2>6 DEF Locked, MutexHeldByRefresh, PresentsNewest, At, Own, ClientTypeOK
<1>h. HoldsLiveToken'
  <2> SUFFICES ASSUME NEW c \in Clients PROVE refresh'[c] \in live' \/ c \in stranded'
    BY DEF HoldsLiveToken
  <2>1. CASE ~rotates
    BY <1>r, <1>i, <1>k, <2>1 DEF HoldsLiveToken
  <2>2. CASE rotates /\ c = Own(p)
    BY <1>i, <1>k, <1>o, <2>2 DEF ClientTypeOK
  <2>3. CASE rotates /\ c # Own(p)
    <3>1. refresh'[c] = refresh[c]
      BY <1>k, <2>3 DEF ClientTypeOK
    <3>2. refresh[c] = call[p].presented => c \in stranded'
      BY <1>r, <2>3 DEF Sharing
    <3> QED
      BY <1>r, <1>i, <2>3, <3>1, <3>2 DEF HoldsLiveToken
  <2> QED
    BY <2>1, <2>2, <2>3
<1>f. Fresh'
  <2>1. \A c \in Clients : token'[c] = token[c] \/ token'[c] \in valid'
    BY <1>r, <1>i, <1>o DEF ClientTypeOK
  <2>2. token'[Own(p)] \in valid' /\ valid \subseteq valid'
    BY <1>r, <1>i, <1>o DEF ClientTypeOK
  <2>3. \A q \in Callers : Own(q) \in Clients
    BY ClientAssumption DEF Own
  <2> QED
    BY <1>u, <1>c, <2>1, <2>2, <2>3 DEF Fresh, At, Own
<1>e. ExpiryIsHidden'
  BY <1>a, <1>u, <1>c, <1>r DEF ExpiryIsHidden, At, Own
<1> QED
  BY <1>t, <1>l, <1>h, <1>f, <1>e

\* A refresh whose answer is lost may have spent the refresh token.
LEMMA RefreshBrokenKeeps ==
    ASSUME ClientInv, NEW p \in Callers, RefreshBroken(p)
    PROVE  ClientInv'
<1> USE DEF ClientInv
<1>a. call \in [Callers -> CallRecord]
  BY DEF ClientTypeOK, CallRecord
<1>u. /\ At(p, "refresh")
      /\ holder' = [holder EXCEPT ![Own(p)] = Nobody]
      /\ UNCHANGED <<baseURL, authURL, token, refresh, expired, unlucky>>
  BY DEF config, RefreshBroken, Unlock
<1>g. faults' \in 0..MaxFaults
  BY ClientAssumption DEF RefreshBroken, CutOff, Fault, ClientTypeOK
<1>o. Own(p) \in Clients /\ Nobody \notin Callers
  BY ClientAssumption DEF Own
<1>c. /\ call' \in [Callers -> CallRecord]
      /\ \A q \in Callers : q # p => call'[q] = call[q]
      /\ call'[p].pc = "done" /\ call'[p].status # "AUTH_ERROR" /\ ~call'[p].retried
  BY <1>a, ReturnSets DEF RefreshBroken, Broken, Statuses
<1>r. \/ UNCHANGED <<valid, live, issued, stranded>>
      \/ \E rotates \in BOOLEAN :
           /\ Grant(p, rotates)
           /\ stranded' = IF rotates THEN stranded \union Sharing(p) ELSE stranded
  BY DEF RefreshBroken, service
<1>i. /\ issued' \in Tokens /\ valid' \subseteq Tokens /\ live' \subseteq Tokens
      /\ stranded' \subseteq Clients /\ valid \subseteq valid' /\ stranded \subseteq stranded'
  BY <1>r, TokenNumbers DEF Grant, Sharing, ClientTypeOK
<1>t. ClientTypeOK'
  BY <1>a, <1>u, <1>c, <1>g, <1>i DEF ClientTypeOK, CallRecord
<1>l. Locked'
  <2>1. \A q \in Callers : Own(q) \in Clients
    BY ClientAssumption DEF Own
  <2>2. holder[Own(p)] = p
    BY <1>u DEF Locked
  <2> QED
    BY <1>a, <1>u, <1>c, <1>o, <2>1, <2>2 DEF ClientTypeOK, Locked, MutexHeldByRefresh, PresentsNewest, At, CallRecord
<1>h. HoldsLiveToken'
  BY <1>u, <1>r DEF HoldsLiveToken, Grant, Sharing
<1>f. Fresh'
  BY <1>a, <1>u, <1>c, <1>i DEF Fresh, At, Own, CallRecord
<1>e. ExpiryIsHidden'
  BY <1>a, <1>u, <1>c, <1>i DEF ExpiryIsHidden, At, Own, CallRecord
<1> QED
  BY <1>t, <1>l, <1>h, <1>f, <1>e

\* Time only adds to the excuses.
LEMMA DeadlineKeeps ==
    ASSUME ClientInv, NEW p \in Callers, DeadlinePasses(p)
    PROVE  ClientInv'
BY DEF ClientInv, DeadlinePasses, ClientTypeOK, Locked, MutexHeldByRefresh, PresentsNewest,
       HoldsLiveToken, Fresh, ExpiryIsHidden, At, Own, config, tokens, service, history

LEMMA AccessTokenExpiresKeeps ==
    ASSUME ClientInv, NEW t \in valid, AccessTokenExpires(t)
    PROVE  ClientInv'
BY DEF ClientInv, AccessTokenExpires, ClientTypeOK, Locked, MutexHeldByRefresh, PresentsNewest,
       HoldsLiveToken, Fresh, ExpiryIsHidden, At, Own, config, tokens, service, history

LEMMA FaultsType == ClientInv /\ (Fault \/ UNCHANGED faults) => faults' \in 0..MaxFaults
BY ClientAssumption DEF ClientInv, ClientTypeOK, Fault

LEMMA ContextEndsKeeps ==
    ASSUME ClientInv, NEW p \in Callers, ContextEnds(p), Fault \/ UNCHANGED faults
    PROVE  ClientInv'
BY FaultsType
   DEF ClientInv, ContextEnds, ClientTypeOK, Locked, MutexHeldByRefresh, PresentsNewest,
       HoldsLiveToken, Fresh, ExpiryIsHidden, At, Own, config, tokens, service, history

LEMMA OtherFaultKeeps ==
    ASSUME ClientInv, Fault, UNCHANGED <<config, tokens, call, expired, service, history>>
    PROVE  ClientInv'
BY FaultsType
   DEF ClientInv, ClientTypeOK, Locked, MutexHeldByRefresh, PresentsNewest,
       HoldsLiveToken, Fresh, ExpiryIsHidden, At, Own, config, tokens, service, history

\* A restart goes back to the configured refresh token, which may be spent.
LEMMA ForgetKeeps ==
    ASSUME ClientInv, Forget, Fault \/ UNCHANGED faults
    PROVE  ClientInv'
<1>1. NoCall \in CallRecord /\ NoCall.pc = "idle" /\ NoCall.retried = FALSE
  BY NoCallType DEF NoCall
<1>2. ClientTypeOK'
  BY <1>1, FaultsType, TokenNumbers
     DEF ClientInv, ClientTypeOK, Forget, CallRecord, config, service
<1>3. \A p \in Callers : call'[p].pc = "idle" /\ call'[p].retried = FALSE
  BY <1>1 DEF Forget
<1>4. Locked'
  BY <1>3 DEF Forget, Locked, MutexHeldByRefresh, PresentsNewest, At
<1>5. HoldsLiveToken'
  BY DEF Forget, HoldsLiveToken, service
<1> QED
  BY <1>2, <1>3, <1>4, <1>5 DEF ClientInv, Fresh, ExpiryIsHidden, At

------------------------------------------------------------------------------
(* The theorems.                                                           *)

LEMMA ClientInitInv == ClientInit => ClientInv
<1> SUFFICES ASSUME ClientInit PROVE ClientInv
  OBVIOUS
<1>1. NoCall \in CallRecord /\ NoCall.pc = "idle" /\ NoCall.retried = FALSE
  BY NoCallType DEF NoCall
<1>2. ClientTypeOK
  BY <1>1, ClientAssumption, TokenNumbers
     DEF ClientInit, ClientTypeOK, CallRecord, Tokens
<1>3. \A p \in Callers : call[p].pc = "idle" /\ call[p].retried = FALSE
  BY <1>1 DEF ClientInit
<1> QED
  BY <1>2, <1>3
     DEF ClientInit, ClientInv, Locked, MutexHeldByRefresh, PresentsNewest,
         HoldsLiveToken, Fresh, ExpiryIsHidden, At

LEMMA ClientStep == ClientInv /\ [ClientNext]_clientVars => ClientInv'
<1> SUFFICES ASSUME ClientInv, [ClientNext]_clientVars PROVE ClientInv'
  OBVIOUS
<1>1. CASE UNCHANGED clientVars
  BY <1>1 DEF clientVars, config, tokens, service, history, ClientInv, ClientTypeOK, Locked,
       MutexHeldByRefresh, PresentsNewest, HoldsLiveToken, Fresh, ExpiryIsHidden, At, Own
<1>2. ASSUME NEW p \in Callers, Call(p) \/ CallStep(p) \/ Done(p) \/ DeadlinePasses(p)
      PROVE  ClientInv'
  BY <1>2, CallKeeps, DoneKeeps, RefreshStartKeeps, RefreshGrantedKeeps, RefreshDeniedKeeps,
     RefreshBrokenKeeps, SendKeeps, AnsweredKeeps, UnauthorizedKeeps, GetBrokenKeeps,
     DeadlineKeeps DEF CallStep
<1>3. CASE \E t \in valid : AccessTokenExpires(t)
  BY <1>3, AccessTokenExpiresKeeps
<1>4. CASE (Fault \/ UNCHANGED faults) /\ (Forget \/ \E p \in Callers : ContextEnds(p))
  BY <1>4, ForgetKeeps, ContextEndsKeeps
<1>5. CASE Fault /\ UNCHANGED <<config, tokens, call, expired, service, history>>
  BY <1>5, OtherFaultKeeps
<1> QED
  BY <1>1, <1>2, <1>3, <1>4, <1>5 DEF ClientNext

LEMMA ClientInvariant == ClientSpec => []ClientInv
BY ClientInitInv, ClientStep, PTL DEF ClientSpec

\* The variables of the client keep their types, however it is used.
THEOREM ClientTypeCorrect == ClientSpec => []ClientTypeOK
BY ClientInvariant, PTL DEF ClientInv

\* No way out of a refresh leaves the mutex of the client held (the deferred Unlock
\* of refreshAccessToken): the other callers are never left waiting.
THEOREM MutexIsReturned == ClientSpec => []MutexHeldByRefresh
<1>1. ClientInv => MutexHeldByRefresh
  BY DEF ClientInv, Locked
<1> QED
  BY <1>1, ClientInvariant, PTL

\* Callers that find an expired token at the same time refresh one after the other,
\* each with the refresh token that the one before it received.
THEOREM RefreshesInTurn == ClientSpec => []PresentsNewest
<1>1. ClientInv => PresentsNewest
  BY DEF ClientInv, Locked
<1> QED
  BY <1>1, ClientInvariant, PTL

\* A client loses its session only through somebody else: another client or an
\* earlier process with the same configured token, or a lost answer.
THEOREM SessionIsKept == ClientSpec => []HoldsLiveToken
BY ClientInvariant, PTL DEF ClientInv

\* An access token that expires is replaced without the caller noticing.
THEOREM ExpiryStaysHidden == ClientSpec => []ExpiryIsHidden
BY ClientInvariant, PTL DEF ClientInv
===============================================================================
