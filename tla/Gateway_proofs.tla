---------------------------- MODULE Gateway_proofs ----------------------------
(***************************************************************************)
(* The gateway for every number of requests, keys, tokens, rows and slots. *)
(* The limit rests on NeverBelow (no counter of a key is below its calls), *)
(* the cache on EntriesAreFound together with the bound on how long an     *)
(* entry may live, the toggles on Barred.                                  *)
(***************************************************************************)
EXTENDS Gateway, TLAPS

------------------------------------------------------------------------------
(* The rate limiter.                                                       *)

\* No counter of a key is below the calls of the key in this window.
NeverBelow ==
    \A k \in Keys, row \in Rows :
        LET n == counters[row][bucketIndexes[k][row]] IN calls[k] <= n \/ n = IntMax

\* What passed in the minute of this window was counted in it.
Counted ==
    window \in Minutes \ reopened =>
        \A kind \in Kinds, k \in Keys : passed[window][<<kind, k>>] <= calls[k]

LimiterInv ==
    LimiterTypeOK /\ NeverBelow /\ NeverAboveTotal /\ Counted /\ AllowedWithinLimit

\* The history as a call in this minute finds it.
CallsNow == IF window = minute THEN calls ELSE NoCalls
TotalNow == IF window = minute THEN total ELSE 0

LEMMA LimiterInitInv == LimiterInit => LimiterInv
BY LimiterAssumption
   DEF LimiterInit, LimiterInv, LimiterTypeOK, NeverBelow, NeverAboveTotal, Counted,
       AllowedWithinLimit, Zero, NoCalls, Minutes, NoWindow

\* A call finds counters that agree with the calls of its minute.
LEMMA CurrentAgrees ==
    ASSUME LimiterInv
    PROVE  /\ Current \in [Rows -> [Slots -> 0..IntMax]]
           /\ CallsNow \in [Keys -> Nat] /\ TotalNow \in Nat
           /\ \A k \in Keys, row \in Rows :
                  \/ CallsNow[k] <= Current[row][bucketIndexes[k][row]]
                  \/ Current[row][bucketIndexes[k][row]] = IntMax
           /\ \A row \in Rows, slot \in Slots : Current[row][slot] <= TotalNow
<1>1. CASE window = minute
  BY <1>1 DEF LimiterInv, LimiterTypeOK, NeverBelow, NeverAboveTotal, Current, CallsNow, TotalNow
<1>2. CASE window # minute
  BY <1>2, LimiterAssumption DEF Current, CallsNow, TotalNow, Zero, NoCalls
<1> QED BY <1>1, <1>2

\* What a call of k raises its counters to, if the least of them is in this row.
Estimate(k, row) == Next1(Current[row][bucketIndexes[k][row]])

\* The counters after a call.
LEMMA RaiseBounds ==
    ASSUME LimiterInv, NEW k \in Keys, NEW least \in Rows,
           counters' = Raise(k, least, Estimate(k, least))
    PROVE  LET next == Estimate(k, least) IN
           /\ next \in 0..IntMax
           /\ counters' \in [Rows -> [Slots -> 0..IntMax]]
           /\ \A row \in Rows, slot \in Slots :
                  Current[row][slot] <= counters'[row][slot]
                      /\ (counters'[row][slot] <= Current[row][slot]
                              \/ counters'[row][slot] = next)
           /\ \A row \in Rows : next <= counters'[row][bucketIndexes[k][row]]
           /\ next <= TotalNow + 1
           /\ next = IntMax \/ CallsNow[k] + 1 <= next
<1> DEFINE n == Current[least][bucketIndexes[k][least]]
           next == Estimate(k, least)
<1>1. /\ n \in 0..IntMax /\ n <= TotalNow /\ TotalNow \in Nat /\ IntMax \in Nat
      /\ CallsNow[k] \in Nat /\ (CallsNow[k] <= n \/ n = IntMax)
  BY CurrentAgrees, LimiterAssumption
<1>2. next \in 0..IntMax /\ n <= next /\ next <= TotalNow + 1 /\ (next = IntMax \/ next = n + 1)
      /\ (next # IntMax => next = n + 1 /\ n # IntMax)
  BY <1>1 DEF Next1, Estimate
<1> HIDE DEF next
<1>3. Current \in [Rows -> [Slots -> 0..IntMax]]
  BY CurrentAgrees
<1>4. counters' = [other \in Rows |-> [slot \in Slots |->
          IF slot = bucketIndexes[k][other] /\ Current[other][slot] < next
          THEN next ELSE Current[other][slot]]]
  BY DEF Raise, next
<1>5. \A row \in Rows, slot \in Slots :
          /\ counters'[row][slot] = IF slot = bucketIndexes[k][row] /\ Current[row][slot] < next
                                    THEN next ELSE Current[row][slot]
          /\ Current[row][slot] \in 0..IntMax
  BY <1>3, <1>4
<1>6. counters' \in [Rows -> [Slots -> 0..IntMax]]
  BY <1>4, <1>3, <1>2
<1>7. \A row \in Rows : bucketIndexes[k][row] \in Slots
  BY LimiterAssumption
<1>8. \A row \in Rows, slot \in Slots :
          Current[row][slot] <= counters'[row][slot]
              /\ (counters'[row][slot] <= Current[row][slot] \/ counters'[row][slot] = next)
  BY <1>5, <1>2, <1>1
<1>9. \A row \in Rows : next <= counters'[row][bucketIndexes[k][row]]
  BY <1>5, <1>7, <1>2, <1>1
<1>10. next = IntMax \/ CallsNow[k] + 1 <= next
  BY <1>1, <1>2
<1> QED BY <1>2, <1>6, <1>8, <1>9, <1>10 DEF next

LEMMA AllowKeeps ==
    ASSUME LimiterInv, NEW kind \in Kinds, NEW k \in Keys, NEW allowed \in BOOLEAN,
           allow(kind, k, allowed)
    PROVE  /\ LimiterInv'
           /\ ~allowed /\ limitOf[kind] > 0 => total' > limitOf[kind]
<1>1. CASE limitOf[kind] <= 0 /\ UNCHANGED limiterVars
  <2>1. LimiterInv'
    BY <1>1 DEF limiterVars, LimiterInv, LimiterTypeOK, NeverBelow, NeverAboveTotal, Counted,
                AllowedWithinLimit
  <2>2. limitOf[kind] \in Int
    BY LimiterAssumption
  <2> QED BY <1>1, <2>1, <2>2
<1>2. CASE ~(limitOf[kind] <= 0 /\ UNCHANGED limiterVars)
  <2>1. PICK least \in Rows :
            /\ counters' = Raise(k, least, Estimate(k, least))
            /\ allowed = (Estimate(k, least) <= limitOf[kind])
    BY <1>2 DEF allow, Estimate
  <2> DEFINE next == Estimate(k, least)
             c == <<kind, k>>
  <2> HIDE DEF next
  <2>2. /\ window' = minute /\ minute' = minute
        /\ calls' = [CallsNow EXCEPT ![k] = @ + 1]
        /\ total' = TotalNow + 1
        /\ reopened' = IF window # minute /\ \E d \in Kinds \X Keys : passed[minute][d] > 0
                       THEN reopened \union {minute} ELSE reopened
        /\ passed' = IF allowed THEN [passed EXCEPT ![minute][c] = @ + 1] ELSE passed
    <3>1. calls' = [CallsNow EXCEPT ![k] = @ + 1]
      <4>1. NoCalls[k] = 0 /\ NoCalls \in [Keys -> Nat]
        BY DEF NoCalls
      <4>2. CASE window = minute
        BY <1>2, <4>2 DEF allow, CallsNow
      <4>3. CASE window # minute
        <5>1. calls' = [NoCalls EXCEPT ![k] = 1]
          BY <1>2, <4>3 DEF allow
        <5>2. CallsNow = NoCalls
          BY <4>3 DEF CallsNow
        <5>3. [NoCalls EXCEPT ![k] = 1] = [NoCalls EXCEPT ![k] = NoCalls[k] + 1]
          BY <4>1
        <5> QED BY <5>1, <5>2, <5>3
      <4> QED BY <4>2, <4>3
    <3>2. total' = TotalNow + 1
      BY <1>2, CurrentAgrees DEF allow, TotalNow
    <3> QED BY <1>2, <3>1, <3>2 DEF allow
  <2>3. /\ counters' \in [Rows -> [Slots -> 0..IntMax]]
        /\ \A row \in Rows, slot \in Slots :
               Current[row][slot] <= counters'[row][slot]
                   /\ (counters'[row][slot] <= Current[row][slot] \/ counters'[row][slot] = next)
        /\ \A row \in Rows : next <= counters'[row][bucketIndexes[k][row]]
        /\ next <= TotalNow + 1 /\ next \in 0..IntMax
        /\ next = IntMax \/ CallsNow[k] + 1 <= next
    BY <2>1, RaiseBounds DEF next
  <2>4. (allowed /\ next <= limitOf[kind]) \/ (~allowed /\ ~(next <= limitOf[kind]))
    BY <2>1 DEF next
  <2>5. limitOf[kind] \in Int /\ limitOf[kind] < IntMax /\ IntMax \in Nat
    BY LimiterAssumption
  <2>6. /\ CallsNow \in [Keys -> Nat] /\ TotalNow \in Nat
        /\ Current \in [Rows -> [Slots -> 0..IntMax]]
        /\ \A j \in Keys, row \in Rows :
               \/ CallsNow[j] <= Current[row][bucketIndexes[j][row]]
               \/ Current[row][bucketIndexes[j][row]] = IntMax
        /\ \A row \in Rows, slot \in Slots : Current[row][slot] <= TotalNow
    BY CurrentAgrees
  <2>7. /\ minute \in Minutes /\ reopened \subseteq Minutes /\ c \in Kinds \X Keys
        /\ passed \in [Minutes -> [Kinds \X Keys -> Nat]]
    BY DEF LimiterInv, LimiterTypeOK
  <2>8. /\ calls' \in [Keys -> Nat] /\ calls'[k] = CallsNow[k] + 1
        /\ \A j \in Keys : j # k => calls'[j] = CallsNow[j]
    BY <2>2, <2>6
  <2>9. /\ passed' \in [Minutes -> [Kinds \X Keys -> Nat]]
        /\ \A m \in Minutes, d \in Kinds \X Keys :
               \/ passed'[m][d] = passed[m][d]
               \/ /\ m = minute /\ d = c /\ next <= limitOf[kind]
                  /\ passed'[m][d] = passed[m][d] + 1
    <3>1. CASE allowed
      <4> DEFINE new == [passed[minute] EXCEPT ![c] = @ + 1]
      <4>1. passed' = [passed EXCEPT ![minute] = new]
        BY <2>2, <3>1
      <4>2. passed[minute] \in [Kinds \X Keys -> Nat]
        BY <2>7
      <4> HIDE DEF c
      <4>3. /\ new \in [Kinds \X Keys -> Nat]
            /\ \A d \in Kinds \X Keys :
                   new[d] = passed[minute][d] \/ (d = c /\ new[d] = passed[minute][d] + 1)
        BY <4>2, <2>7
      <4> HIDE DEF new
      <4>4. /\ passed' \in [Minutes -> [Kinds \X Keys -> Nat]]
            /\ passed'[minute] = new
            /\ \A m \in Minutes : m # minute => passed'[m] = passed[m]
        BY <4>1, <4>3, <2>7
      <4>5. next <= limitOf[kind]
        BY <2>4, <3>1
      <4> QED BY <4>3, <4>4, <4>5
    <3>2. CASE ~allowed
      <4>1. passed' = passed
        BY <2>2, <3>2
      <4> QED BY <4>1, <2>7
    <3> QED BY <3>1, <3>2
  <2>10. LimiterTypeOK'
    <3>1. minute' \in Minutes /\ window' \in Minutes \union {NoWindow}
      BY <2>2, <2>7
    <3>2. reopened' \subseteq Minutes
      BY <2>2, <2>7
    <3>3. total' \in Nat
      BY <2>2, <2>6
    <3> QED BY <3>1, <3>2, <3>3, <2>3, <2>8, <2>9 DEF LimiterTypeOK
  <2>11. NeverBelow'
    <3> SUFFICES ASSUME NEW j \in Keys, NEW row \in Rows
                 PROVE  \/ calls'[j] <= counters'[row][bucketIndexes[j][row]]
                        \/ counters'[row][bucketIndexes[j][row]] = IntMax
      BY DEF NeverBelow
    <3>1. bucketIndexes[j][row] \in Slots
      BY LimiterAssumption
    <3>2. /\ Current[row][bucketIndexes[j][row]] \in 0..IntMax
          /\ counters'[row][bucketIndexes[j][row]] \in 0..IntMax
          /\ Current[row][bucketIndexes[j][row]] <= counters'[row][bucketIndexes[j][row]]
          /\ CallsNow[j] \in Nat
      BY <3>1, <2>3, <2>6
    <3> DEFINE old == Current[row][bucketIndexes[j][row]]
               new == counters'[row][bucketIndexes[j][row]]
    <3>5. CallsNow[j] <= old \/ old = IntMax
      BY <2>6
    <3>6. j = k => next <= new
      BY <2>3
    <3>7. old \in 0..IntMax /\ new \in 0..IntMax /\ old <= new /\ CallsNow[j] \in Nat
      BY <3>2
    <3> HIDE DEF old, new
    <3>8. CASE j # k
      <4>1. calls'[j] = CallsNow[j]
        BY <3>8, <2>8
      <4>2. calls'[j] <= new \/ new = IntMax
        BY <4>1, <3>5, <3>7, <2>5
      <4> QED BY <4>2 DEF new
    <3>9. CASE j = k
      <4>1. calls'[j] = CallsNow[j] + 1
        BY <3>9, <2>8
      <4>2. (next = IntMax \/ CallsNow[j] + 1 <= next) /\ next <= new /\ next \in 0..IntMax
        BY <3>9, <3>6, <2>3
      <4>3. calls'[j] <= new \/ new = IntMax
        BY <4>1, <4>2, <3>7, <2>5
      <4> QED BY <4>3 DEF new
    <3> QED BY <3>8, <3>9
  <2>12. NeverAboveTotal'
    <3> SUFFICES ASSUME NEW row \in Rows, NEW slot \in Slots
                 PROVE  counters'[row][slot] <= total'
      BY DEF NeverAboveTotal
    <3>1. /\ counters'[row][slot] \in 0..IntMax /\ Current[row][slot] \in 0..IntMax
          /\ Current[row][slot] <= TotalNow
          /\ counters'[row][slot] <= Current[row][slot] \/ counters'[row][slot] = next
      BY <2>3, <2>6
    <3> QED BY <3>1, <2>2, <2>3, <2>6
  <2>13. ASSUME minute \notin reopened'
         PROVE  \A d \in Kinds, j \in Keys :
                    passed[minute][<<d, j>>] \in Nat /\ passed[minute][<<d, j>>] <= CallsNow[j]
    <3> TAKE d \in Kinds, j \in Keys
    <3>1. passed[minute][<<d, j>>] \in Nat /\ CallsNow[j] \in Nat /\ <<d, j>> \in Kinds \X Keys
      BY <2>6, <2>7
    <3>2. CASE window = minute
      <4>1. reopened' = reopened
        BY <3>2, <2>2
      <4>2. window \in Minutes \ reopened
        BY <4>1, <3>2, <2>7, <2>13
      <4>3. passed[window][<<d, j>>] <= calls[j]
        BY <4>2 DEF LimiterInv, Counted
      <4> QED BY <3>1, <3>2, <4>3 DEF CallsNow
    <3>3. CASE window # minute
      <4>1. ~(passed[minute][<<d, j>>] > 0)
        BY <3>1, <3>3, <2>2, <2>13
      <4> QED BY <3>1, <4>1
    <3> QED BY <3>2, <3>3
  <2>14. Counted'
    <3> SUFFICES ASSUME minute \notin reopened', NEW d \in Kinds, NEW j \in Keys
                 PROVE  passed'[minute][<<d, j>>] <= calls'[j]
      BY <2>2 DEF Counted
    <3>1. /\ passed[minute][<<d, j>>] \in Nat /\ passed[minute][<<d, j>>] <= CallsNow[j]
          /\ CallsNow[j] \in Nat
      BY <2>13, <2>6
    <3>2. \/ passed'[minute][<<d, j>>] = passed[minute][<<d, j>>]
          \/ /\ <<d, j>> = c
             /\ passed'[minute][<<d, j>>] = passed[minute][<<d, j>>] + 1
      BY <2>9, <2>7
    <3>3. <<d, j>> = c => j = k
      OBVIOUS
    <3>4. calls'[j] = CallsNow[j] \/ (j = k /\ calls'[j] = CallsNow[j] + 1)
      BY <2>8
    <3>5. j = k => calls'[j] = CallsNow[j] + 1
      BY <2>8
    <3> HIDE DEF c
    <3> QED BY <3>1, <3>2, <3>3, <3>4, <3>5
  <2>15. AllowedWithinLimit'
    <3> SUFFICES ASSUME NEW m \in Minutes \ reopened', NEW d \in Kinds, NEW j \in Keys,
                        passed'[m][<<d, j>>] > 0
                 PROVE  passed'[m][<<d, j>>] <= limitOf[d]
      BY DEF AllowedWithinLimit
    <3>1. m \in Minutes \ reopened
      BY <2>2
    <3>2. <<d, j>> \in Kinds \X Keys /\ passed[m][<<d, j>>] \in Nat /\ limitOf[d] \in Int
      BY <2>7, LimiterAssumption
    <3>3. CASE passed'[m][<<d, j>>] = passed[m][<<d, j>>]
      BY <3>3, <3>1 DEF LimiterInv, AllowedWithinLimit
    <3>4. CASE /\ m = minute /\ <<d, j>> = c /\ next <= limitOf[kind]
               /\ passed'[m][<<d, j>>] = passed[m][<<d, j>>] + 1
      <4>1. passed[minute][<<kind, k>>] \in Nat /\ passed[minute][<<kind, k>>] <= CallsNow[k]
        BY <3>4, <2>13
      <4>2. d = kind /\ passed'[m][<<d, j>>] = passed[minute][<<kind, k>>] + 1
        BY <3>4
      <4>3. CallsNow[k] + 1 <= next /\ CallsNow[k] \in Nat /\ next \in Nat
        BY <3>4, <2>3, <2>5, <2>6
      <4> QED BY <4>1, <4>2, <4>3, <3>4, <2>5
    <3> QED BY <3>3, <3>4, <2>9, <3>2
  <2>16. ~allowed /\ limitOf[kind] > 0 => total' > limitOf[kind]
    BY <2>2, <2>3, <2>4, <2>5, <2>6
  <2> QED BY <2>10, <2>11, <2>12, <2>14, <2>15, <2>16 DEF LimiterInv
<1> QED BY <1>1, <1>2

LEMMA SetClockKeeps == ASSUME LimiterInv, NEW m \in Minutes, SetClock(m) PROVE LimiterInv'
BY DEF SetClock, LimiterInv, LimiterTypeOK, NeverBelow, NeverAboveTotal, Counted,
       AllowedWithinLimit

LEMMA NewLimiterKeeps == LimiterInv /\ NewLimiter => LimiterInv'
<1> SUFFICES ASSUME LimiterInv, NewLimiter PROVE LimiterInv'
  OBVIOUS
<1>1. NoWindow \notin Minutes
  BY LimiterAssumption DEF NoWindow, Minutes
<1>2. /\ Zero \in [Rows -> [Slots -> 0..IntMax]] /\ NoCalls \in [Keys -> Nat]
      /\ \A row \in Rows, slot \in Slots : Zero[row][slot] = 0
      /\ \A k \in Keys : NoCalls[k] = 0
  BY LimiterAssumption DEF Zero, NoCalls
<1>3. /\ counters' = Zero /\ window' = NoWindow /\ calls' = NoCalls /\ total' = 0
      /\ minute' = minute /\ passed' = passed /\ reopened' = reopened
  BY DEF NewLimiter
<1>4. LimiterTypeOK'
  BY <1>2, <1>3 DEF LimiterInv, LimiterTypeOK
<1>5. NeverBelow'
  BY <1>2, <1>3, LimiterAssumption DEF NeverBelow
<1>6. NeverAboveTotal'
  BY <1>2, <1>3 DEF NeverAboveTotal
<1>7. Counted'
  <2>1. window' \notin Minutes'
    BY <1>1, <1>3 DEF Minutes
  <2> QED BY <2>1 DEF Counted
<1>8. AllowedWithinLimit'
  BY <1>3 DEF LimiterInv, AllowedWithinLimit, Minutes
<1> QED BY <1>4, <1>5, <1>6, <1>7, <1>8 DEF LimiterInv

LEMMA LimiterUnchanged == LimiterInv /\ UNCHANGED limiterVars => LimiterInv'
BY DEF limiterVars, LimiterInv, LimiterTypeOK, NeverBelow, NeverAboveTotal, Counted,
       AllowedWithinLimit

------------------------------------------------------------------------------
(* Requests, toggles and the cache.                                        *)

Pcs == {"availability", "limit", "get", "put", "add", "expire"} \union Ends
Request == [pc : Pcs, info : Infos \union {Nothing}, barred : BOOLEAN]

\* What the filter that a request is at may rely on.
Sound(q) ==
    /\ q.pc \notin Ends => q.info \in Infos
    /\ q.pc = "availability" => q.info.service \in Services
    /\ q.pc = "limit" => q.info.kind \in Kinds
    /\ q.pc \in {"get", "put", "add", "expire"} => q.info.token \in Tokens

\* A barred request has been refused, or is about to read that its service is off.
Barred(q) ==
    q.barred => \/ q.pc = "refused"
                \/ q.pc = "availability" /\ toggles[q.info.service] = "off"

RequestInv ==
    /\ req \in [Requests -> Request]
    /\ toggles \in [Services -> {"on", "off"}]
    /\ \A r \in Requests : Sound(req[r]) /\ Barred(req[r])

\* No entry lives longer than one that is put now.
CacheInv ==
    /\ now \in 0..MaxTime
    /\ entries \in [Tokens -> 0..(MaxTime + Ttl)]
    /\ \A t \in Tokens : entries[t] <= now + Ttl
    /\ index \in [Subjects -> [members : SUBSET Tokens, expires : 0..Forever]]
    /\ \A w \in Webhooks : webhook[w] # NoWebhook => webhook[w].subject \in Subjects
    /\ webhook = [w \in Webhooks |-> webhook[w]]
    /\ loose \subseteq Tokens
    /\ EntriesAreFound

BoundsInv == arrivals \in 0..MaxArrivals /\ faults \in 0..MaxFaults

GatewayInv == LimiterInv /\ RequestInv /\ CacheInv /\ BoundsInv

\* The request of one slot changes.
LEMMA Moves ==
    ASSUME RequestInv, NEW r \in Requests, NEW q \in Request, Sound(q), Barred(q),
           req' = [req EXCEPT ![r] = q], toggles' = toggles
    PROVE  RequestInv'
<1>1. req' \in [Requests -> Request]
  BY DEF RequestInv
<1>2. \A o \in Requests : req'[o] = q \/ req'[o] = req[o]
  BY DEF RequestInv
<1>3. ASSUME NEW o \in Requests PROVE Sound(req'[o]) /\ Barred(req[o])'
  <2>1. Sound(req'[o])
    BY <1>2 DEF RequestInv
  <2>2. Barred(req[o])'
    BY <1>2 DEF RequestInv, Barred
  <2> QED BY <2>1, <2>2
<1> QED BY <1>1, <1>3 DEF RequestInv, Sound

\* Where a request goes after a filter that lets it pass.
LEMMA Afterwards ==
    ASSUME NEW info \in Infos
    PROVE  /\ AfterLimit(info) \in {"get", "routed"}
           /\ AfterLimit(info) = "get" => info.token \in Tokens
           /\ AfterAvailability(info) \in {"limit", "get", "routed"}
           /\ AfterAvailability(info) = "get" => info.token \in Tokens
           /\ AfterAvailability(info) = "limit" => info.kind \in Kinds
BY GatewayAssumption DEF AfterLimit, AfterAvailability

LEMMA SlotSound ==
    ASSUME NEW info \in Infos, NEW pc \in Pcs, NEW barred \in BOOLEAN,
           pc = "availability" => info.service \in Services,
           pc = "limit" => info.kind \in Kinds,
           pc \in {"get", "put", "add", "expire"} => info.token \in Tokens
    PROVE  /\ Slot(pc, info, barred) \in Request /\ Sound(Slot(pc, info, barred))
           /\ Slot(pc, info, barred).pc = pc
           /\ Slot(pc, info, barred).barred = barred
           /\ pc = "availability" => Slot(pc, info, barred).info = info
BY DEF Slot, Request, Sound, Ends

LEMMA GoKeeps ==
    ASSUME RequestInv, NEW r \in Requests, req[r].pc \notin Ends, NEW pc \in Pcs,
           pc # "availability",
           pc = "limit" => req[r].info.kind \in Kinds,
           pc \in {"get", "put", "add", "expire"} => req[r].info.token \in Tokens,
           req[r].barred => pc = "refused",
           Go(r, pc), toggles' = toggles
    PROVE  RequestInv'
<1> DEFINE q == Slot(pc, req[r].info, req[r].barred)
<1>1. req[r].info \in Infos /\ req[r].barred \in BOOLEAN
  BY DEF RequestInv, Sound, Request
<1>2. q \in Request /\ Sound(q) /\ q.pc = pc /\ q.barred = req[r].barred
  BY <1>1, SlotSound
<1>3. req' = [req EXCEPT ![r] = q]
  BY DEF Go
<1> HIDE DEF q
<1>4. Barred(q)
  BY <1>2 DEF Barred
<1> QED BY <1>2, <1>3, <1>4, Moves

\* Only at the first filter, or refused, is a request barred.
LEMMA NotBarred ==
    ASSUME RequestInv, NEW r \in Requests, req[r].pc \notin Ends, req[r].pc # "availability"
    PROVE  ~req[r].barred
BY DEF RequestInv, Barred, Ends

LEMMA RequestsKeepSound ==
    ASSUME RequestInv, NEW r \in Requests, RequestStep(r)
    PROVE  RequestInv'
<1>1. req[r] \in Request /\ Sound(req[r]) /\ Barred(req[r])
  BY DEF RequestInv
<1>2. CASE CheckAvailability(r)
  <2> DEFINE pc == IF isEnabled(req[r].info.service) THEN AfterAvailability(req[r].info)
                   ELSE "refused"
  <2>1. req[r].pc = "availability" /\ Go(r, pc) /\ toggles' = toggles
    BY <1>2 DEF CheckAvailability
  <2>2. req[r].info \in Infos
    BY <1>1, <2>1 DEF Sound, Ends
  <2>3. /\ pc \in Pcs /\ pc # "availability"
        /\ pc = "limit" => req[r].info.kind \in Kinds
        /\ pc \in {"get", "put", "add", "expire"} => req[r].info.token \in Tokens
    BY <2>2, Afterwards DEF Pcs, Ends
  <2>4. req[r].barred => pc = "refused"
    BY <1>1, <2>1 DEF Barred, isEnabled
  <2>5. req[r].pc \notin Ends
    BY <2>1 DEF Ends
  <2> HIDE DEF pc
  <2> QED BY <2>1, <2>3, <2>4, <2>5, GoKeeps
<1>3. CASE CheckAvailabilityFails(r)
  <2> DEFINE pc == AfterAvailability(req[r].info)
             q == Slot(pc, req[r].info, FALSE)
  <2>1. req[r].pc = "availability" /\ toggles' = toggles /\ req' = [req EXCEPT ![r] = q]
    BY <1>3 DEF CheckAvailabilityFails
  <2>2. req[r].info \in Infos
    BY <1>1, <2>1 DEF Sound, Ends
  <2>3. /\ pc \in Pcs /\ pc # "availability"
        /\ pc = "limit" => req[r].info.kind \in Kinds
        /\ pc \in {"get", "put", "add", "expire"} => req[r].info.token \in Tokens
    BY <2>2, Afterwards DEF Pcs, Ends
  <2> HIDE DEF pc
  <2>4. q \in Request /\ Sound(q) /\ q.barred = FALSE
    BY <2>2, <2>3, SlotSound
  <2> HIDE DEF q
  <2>5. Barred(q)
    BY <2>4 DEF Barred
  <2> QED BY <2>1, <2>4, <2>5, Moves
<1>4. CASE Limit(r)
  <2>1. req[r].pc = "limit" /\ toggles' = toggles
    BY <1>4 DEF Limit
  <2>2. req[r].info \in Infos /\ req[r].pc \notin Ends /\ ~req[r].barred
    BY <1>1, <2>1, NotBarred DEF Sound, Ends
  <2>3. PICK pc \in {"refused", "limited", AfterLimit(req[r].info)} : Go(r, pc)
    BY <1>4 DEF Limit
  <2>4. /\ pc \in Pcs /\ pc \notin {"availability", "limit", "put", "add", "expire"}
        /\ pc = "get" => req[r].info.token \in Tokens
    BY <2>2, <2>3, Afterwards DEF Pcs, Ends
  <2> QED BY <2>1, <2>2, <2>3, <2>4, GoKeeps
<1>5. CASE Get(r) \/ Put(r) \/ Add(r) \/ Expire(r) \/ ContextFails(r)
  <2>1. req[r].pc \in {"get", "put", "add", "expire"} /\ toggles' = toggles
    BY <1>5 DEF Get, Put, Add, Expire, ContextFails
  <2>2. PICK pc \in {"put", "add", "expire", "routed"} : Go(r, pc)
    BY <1>5 DEF Get, Put, Add, Expire, ContextFails
  <2>3. req[r].info.token \in Tokens /\ req[r].pc \notin Ends /\ ~req[r].barred
    BY <1>1, <2>1, NotBarred DEF Sound, Ends
  <2>4. pc \in Pcs /\ pc # "availability" /\ pc # "limit"
    BY DEF Pcs, Ends
  <2> QED BY <2>1, <2>2, <2>3, <2>4, GoKeeps
<1> QED BY <1>2, <1>3, <1>4, <1>5 DEF RequestStep

LEMMA ArriveKeepsSound ==
    ASSUME RequestInv, NEW r \in Requests, NEW info \in Infos, Arrive(r, info)
    PROVE  RequestInv'
<1> DEFINE pc == IF info.service # Nothing THEN "availability" ELSE AfterAvailability(info)
           barred == info.service # Nothing /\ toggles[info.service] = "off"
           q == Slot(pc, info, barred)
<1>1. req' = [req EXCEPT ![r] = q] /\ toggles' = toggles
  BY DEF Arrive
<1>2. /\ pc \in Pcs
      /\ pc = "availability" => info.service \in Services
      /\ pc = "limit" => info.kind \in Kinds
      /\ pc \in {"get", "put", "add", "expire"} => info.token \in Tokens
  BY Afterwards, GatewayAssumption DEF Pcs, Ends
<1>3. barred \in BOOLEAN /\ (barred => pc = "availability" /\ toggles[info.service] = "off")
  OBVIOUS
<1> HIDE DEF pc, barred
<1>4. /\ q \in Request /\ Sound(q) /\ q.pc = pc /\ q.barred = barred
      /\ pc = "availability" => q.info = info
  BY <1>2, <1>3, SlotSound
<1> HIDE DEF q
<1>5. Barred(q)
  BY <1>3, <1>4 DEF Barred
<1> QED BY <1>1, <1>4, <1>5, Moves

LEMMA SetEnabledKeepsSound ==
    ASSUME RequestInv, NEW s \in Services, NEW value \in {"on", "off"}, setEnabled(s, value)
    PROVE  RequestInv'
<1>1. /\ toggles' = [toggles EXCEPT ![s] = value]
      /\ toggles' \in [Services -> {"on", "off"}]
      /\ req' = [r \in Requests |->
             IF value = "on" /\ req[r].info # Nothing /\ req[r].info.service = s
             THEN [req[r] EXCEPT !.barred = FALSE] ELSE req[r]]
  BY DEF setEnabled, RequestInv
<1>2. ASSUME NEW r \in Requests
      PROVE  req'[r] \in Request /\ Sound(req'[r]) /\ Barred(req[r])'
  <2>1. req[r] \in Request /\ Sound(req[r]) /\ Barred(req[r])
    BY DEF RequestInv
  <2>2. CASE value = "on" /\ req[r].info # Nothing /\ req[r].info.service = s
    <3>1. req'[r] = [req[r] EXCEPT !.barred = FALSE]
      BY <1>1, <2>2
    <3>2. /\ req'[r] \in Request /\ req'[r].pc = req[r].pc /\ req'[r].info = req[r].info
          /\ req'[r].barred = FALSE
      BY <3>1, <2>1 DEF Request
    <3> QED BY <3>2, <2>1 DEF Sound, Barred
  <2>3. CASE ~(value = "on" /\ req[r].info # Nothing /\ req[r].info.service = s)
    <3>1. req'[r] = req[r]
      BY <1>1, <2>3
    <3>2. CASE req[r].pc = "availability"
      <4>1. req[r].info \in Infos /\ req[r].info.service \in Services
        BY <2>1, <3>2 DEF Sound, Ends
      <4>2. req[r].info # Nothing
        BY <4>1, GatewayAssumption
      <4>3. toggles[req[r].info.service] = "off" => toggles'[req[r].info.service] = "off"
        BY <4>1, <4>2, <2>3, <1>1 DEF RequestInv
      <4> QED BY <3>1, <4>3, <2>1 DEF Barred
    <3>3. CASE req[r].pc # "availability"
      BY <3>1, <3>3, <2>1 DEF Barred
    <3> QED BY <3>2, <3>3
  <2> QED BY <2>2, <2>3
<1>3. req' \in [Requests -> Request]
  BY <1>1, <1>2
<1> QED BY <1>1, <1>2, <1>3 DEF RequestInv, Sound

LEMMA TokenType ==
    ASSUME RequestInv, NEW r \in Requests, req[r].pc \in {"get", "put", "add", "expire"}
    PROVE  Token(r) \in Tokens /\ Subject(r) \in Subjects
BY GatewayAssumption DEF RequestInv, Sound, Token, Subject

LEMMA CacheUnchanged ==
    ASSUME CacheInv, UNCHANGED cache, now' = now, UNCHANGED webhook PROVE CacheInv'
BY DEF CacheInv, cache, EntriesAreFound, Indexed

\* A new entry lives as long as any, and may not be in the index yet.
LEMMA PutKeeps ==
    ASSUME CacheInv, NEW t \in Tokens,
           entries' = [entries EXCEPT ![t] = now + Ttl], loose' = loose \union {t},
           UNCHANGED <<now, index, webhook>>
    PROVE  CacheInv'
<1>1. now \in 0..MaxTime /\ now + Ttl \in 0..(MaxTime + Ttl)
  BY GatewayAssumption DEF CacheInv
<1>2. /\ entries' \in [Tokens -> 0..(MaxTime + Ttl)]
      /\ entries'[t] = now + Ttl /\ \A o \in Tokens : o # t => entries'[o] = entries[o]
  BY <1>1 DEF CacheInv
<1>3. \A o \in Tokens : entries'[o] <= now + Ttl
  BY <1>1, <1>2 DEF CacheInv
<1>4. EntriesAreFound'
  BY <1>2 DEF CacheInv, EntriesAreFound, Indexed
<1> QED BY <1>2, <1>3, <1>4 DEF CacheInv

LEMMA AddKeeps ==
    ASSUME CacheInv, NEW t \in Tokens,
           index' = [index EXCEPT ![SubjectOf[t]].members = @ \union {t}],
           UNCHANGED <<now, entries, loose, webhook>>
    PROVE  CacheInv'
<1>1. SubjectOf[t] \in Subjects /\ \A o \in Tokens : SubjectOf[o] \in Subjects
  BY GatewayAssumption
<1>2. /\ index' \in [Subjects -> [members : SUBSET Tokens, expires : 0..Forever]]
      /\ \A s \in Subjects : index[s].members \subseteq index'[s].members
                              /\ index'[s].expires = index[s].expires
  BY <1>1 DEF CacheInv
<1>3. EntriesAreFound'
  BY <1>1, <1>2 DEF CacheInv, EntriesAreFound, Indexed
<1> QED BY <1>2, <1>3 DEF CacheInv

\* The index lives as long as an entry that is put now, so longer than all.
LEMMA ExpireKeeps ==
    ASSUME CacheInv, RequestInv, NEW r \in Requests, Expire(r)
    PROVE  CacheInv'
<1> DEFINE s == Subject(r)
           t == Token(r)
<1>1. t \in Tokens /\ s \in Subjects /\ s = SubjectOf[t]
  BY TokenType DEF Expire, Subject
<1>2. /\ index' = [index EXCEPT ![s].expires = IF index[s].members = {} THEN @ ELSE now + Ttl]
      /\ loose' = IF t \in index[s].members THEN loose \ {t} ELSE loose
      /\ now' = now /\ entries' = entries /\ webhook' = webhook
  BY DEF Expire
<1> HIDE DEF s, t
<1>3. now + Ttl \in 0..Forever
  BY GatewayAssumption DEF CacheInv, Forever
<1>4. /\ index' \in [Subjects -> [members : SUBSET Tokens, expires : 0..Forever]]
      /\ \A o \in Subjects : index'[o].members = index[o].members
                              /\ (index[o].members = {} \/ o # s => index'[o].expires = index[o].expires)
      /\ index[s].members # {} => index'[s].expires = now + Ttl
  BY <1>1, <1>2, <1>3 DEF CacheInv
<1>5. EntriesAreFound'
  <2> SUFFICES ASSUME NEW o \in Tokens, entries'[o] # 0 PROVE o \in loose' \/ Indexed(o)'
    BY DEF EntriesAreFound
  <2>1. o \in loose \/ Indexed(o)
    BY <1>2 DEF CacheInv, EntriesAreFound
  <2>2. SubjectOf[o] \in Subjects /\ entries[o] <= now + Ttl /\ entries'[o] = entries[o]
    BY <1>2, GatewayAssumption DEF CacheInv
  <2>3. CASE o \in index[SubjectOf[o]].members /\ SubjectOf[o] = s
    BY <2>2, <2>3, <1>4 DEF Indexed
  <2>4. CASE o \in index[SubjectOf[o]].members /\ SubjectOf[o] # s
    <3>1. Indexed(o) => Indexed(o)'
      BY <2>2, <2>4, <1>4 DEF Indexed
    <3>2. o # t
      BY <2>4, <1>1
    <3> QED BY <3>1, <3>2, <2>1, <1>2
  <2>5. CASE o \notin index[SubjectOf[o]].members
    <3>1. o \in loose
      BY <2>1, <2>5 DEF Indexed
    <3>2. o # t \/ t \notin index[s].members
      BY <2>5, <1>1
    <3> QED BY <3>1, <3>2, <1>2
  <2> QED BY <2>3, <2>4, <2>5
<1>6. loose' \subseteq Tokens
  BY <1>2 DEF CacheInv
<1> QED BY <1>2, <1>4, <1>5, <1>6 DEF CacheInv

LEMMA RequestsKeepCache ==
    ASSUME CacheInv, RequestInv, NEW r \in Requests, RequestStep(r)
    PROVE  CacheInv'
<1>1. CASE CheckAvailability(r) \/ CheckAvailabilityFails(r) \/ Limit(r) \/ Get(r)
  <2>1. UNCHANGED cache /\ now' = now /\ UNCHANGED webhook
    BY <1>1 DEF CheckAvailability, CheckAvailabilityFails, Limit, Get
  <2> QED BY <2>1, CacheUnchanged
<1>2. CASE Put(r)
  <2>1. Token(r) \in Tokens
    BY <1>2, TokenType DEF Put
  <2> QED BY <1>2, <2>1, PutKeeps DEF Put
<1>3. CASE Add(r)
  <2>1. Token(r) \in Tokens
    BY <1>3, TokenType DEF Add
  <2> QED BY <1>3, <2>1, AddKeeps DEF Add, Subject
<1>4. CASE Expire(r)
  BY <1>4, ExpireKeeps
<1>5. CASE ContextFails(r)
  <2>1. Token(r) \in Tokens
    BY <1>5, TokenType DEF ContextFails
  <2>2. now' = now /\ UNCHANGED webhook
    BY <1>5 DEF ContextFails
  <2>3. CASE UNCHANGED cache
    BY <2>2, <2>3, CacheUnchanged
  <2>4. CASE entries' = [entries EXCEPT ![Token(r)] = now + Ttl]
             /\ loose' = loose \union {Token(r)} /\ UNCHANGED index
    BY <2>1, <2>2, <2>4, PutKeeps
  <2>5. CASE index' = [index EXCEPT ![Subject(r)].members = @ \union {Token(r)}]
             /\ UNCHANGED <<entries, loose>>
    BY <2>1, <2>2, <2>5, AddKeeps DEF Subject
  <2> QED BY <1>5, <2>3, <2>4, <2>5 DEF ContextFails
<1> QED BY <1>1, <1>2, <1>3, <1>4, <1>5 DEF RequestStep

\* What an invalidation spares is loose from then on.
LEMMA WebhooksKeepCache ==
    ASSUME CacheInv, NEW w \in Webhooks, WebhookStep(w)
    PROVE  CacheInv'
<1> USE DEF CacheInv
<1>1. CASE \E s \in Subjects : ReadMembers(w, s)
  <2>1. PICK s \in Subjects : ReadMembers(w, s)
    BY <1>1
  <2>2. webhook' = [webhook EXCEPT ![w] = [subject |-> s, members |-> index[s].members]]
        /\ UNCHANGED cache /\ now' = now
    BY <2>1 DEF ReadMembers
  <2>3. webhook' = [o \in Webhooks |-> webhook'[o]]
    BY <2>2
  <2>4. \A o \in Webhooks : webhook'[o] # NoWebhook => webhook'[o].subject \in Subjects
    BY <2>2
  <2> QED BY <2>2, <2>3, <2>4 DEF cache, EntriesAreFound, Indexed
<1>2. CASE DeleteMembers(w)
  <2> DEFINE s == webhook[w].subject
             gone == webhook[w].members
  <2>1. /\ webhook[w] # NoWebhook /\ now' = now
        /\ entries' = [t \in Tokens |-> IF t \in gone THEN 0 ELSE entries[t]]
        /\ index' = [index EXCEPT ![s] = NoIndex]
        /\ loose' = (loose \ gone) \union
               {t \in Tokens \ gone : SubjectOf[t] = s /\ entries[t] # 0}
        /\ webhook' = [webhook EXCEPT ![w] = NoWebhook]
    BY <1>2 DEF DeleteMembers
  <2>2. s \in Subjects
    BY <2>1
  <2> HIDE DEF s, gone
  <2>3. /\ entries' \in [Tokens -> 0..(MaxTime + Ttl)]
        /\ \A t \in Tokens : entries'[t] <= now + Ttl
    BY <2>1, GatewayAssumption
  <2>4. NoIndex \in [members : SUBSET Tokens, expires : 0..Forever]
    BY GatewayAssumption DEF NoIndex, Forever
  <2>5. /\ index' \in [Subjects -> [members : SUBSET Tokens, expires : 0..Forever]]
        /\ \A o \in Subjects : o # s => index'[o] = index[o]
    BY <2>1, <2>2, <2>4
  <2>6. /\ webhook' = [o \in Webhooks |-> webhook'[o]]
        /\ \A o \in Webhooks : webhook'[o] # NoWebhook => webhook'[o].subject \in Subjects
    BY <2>1
  <2>7. EntriesAreFound'
    <3> SUFFICES ASSUME NEW t \in Tokens, entries'[t] # 0 PROVE t \in loose' \/ Indexed(t)'
      BY DEF EntriesAreFound
    <3>1. t \notin gone /\ entries'[t] = entries[t] /\ (t \in loose \/ Indexed(t))
      BY <2>1 DEF EntriesAreFound
    <3>2. CASE SubjectOf[t] = s
      BY <2>1, <3>1, <3>2
    <3>3. CASE SubjectOf[t] # s
      <4>1. index'[SubjectOf[t]] = index[SubjectOf[t]]
        BY <2>5, <3>3, GatewayAssumption
      <4> QED BY <4>1, <3>1, <2>1 DEF Indexed
    <3> QED BY <3>2, <3>3
  <2> QED BY <2>1, <2>3, <2>5, <2>6, <2>7
<1>3. CASE InvalidationFails(w)
  <2>1. webhook' = [webhook EXCEPT ![w] = NoWebhook] /\ UNCHANGED cache /\ now' = now
    BY <1>3 DEF InvalidationFails
  <2>2. /\ webhook' = [o \in Webhooks |-> webhook'[o]]
        /\ \A o \in Webhooks : webhook'[o] # NoWebhook => webhook'[o].subject \in Subjects
    BY <2>1
  <2> QED BY <2>1, <2>2 DEF cache, EntriesAreFound, Indexed
<1> QED BY <1>1, <1>2, <1>3 DEF WebhookStep

\* The index of an entry does not expire before the entry.
LEMMA TickKeepsCache == ASSUME CacheInv, Tick PROVE CacheInv'
<1> USE DEF CacheInv
<1>1. now' = now + 1 /\ now' \in 0..MaxTime /\ now \in Nat /\ webhook' = webhook
  BY GatewayAssumption DEF Tick
<1>2. \A t \in Tokens : entries'[t] = IF entries[t] <= now' THEN 0 ELSE entries[t]
  BY DEF Tick
<1>3. /\ entries' \in [Tokens -> 0..(MaxTime + Ttl)]
      /\ \A t \in Tokens : entries'[t] <= now' + Ttl
  <2>1. entries' = [t \in Tokens |-> IF entries[t] <= now' THEN 0 ELSE entries[t]]
    BY DEF Tick
  <2> QED BY <2>1, <1>1, GatewayAssumption
<1>4. NoIndex \in [members : SUBSET Tokens, expires : 0..Forever]
  BY GatewayAssumption DEF NoIndex, Forever
<1>5. /\ index' \in [Subjects -> [members : SUBSET Tokens, expires : 0..Forever]]
      /\ \A s \in Subjects : index[s].expires > now' => index'[s] = index[s]
  <2>1. index' = [s \in Subjects |-> IF index[s].expires <= now' THEN NoIndex ELSE index[s]]
    BY DEF Tick
  <2>2. \A s \in Subjects : index[s].expires \in Nat
    BY GatewayAssumption DEF Forever
  <2> QED BY <2>1, <2>2, <1>1, <1>4
<1>6. loose' = {t \in loose : entries'[t] # 0}
  BY DEF Tick
<1>7. EntriesAreFound'
  <2> SUFFICES ASSUME NEW t \in Tokens, entries'[t] # 0 PROVE t \in loose' \/ Indexed(t)'
    BY DEF EntriesAreFound
  <2>1. entries'[t] = entries[t] /\ entries[t] > now' /\ entries[t] \in Nat
    BY <1>1, <1>2, GatewayAssumption
  <2>2. t \in loose \/ Indexed(t)
    BY <2>1, <1>1 DEF EntriesAreFound
  <2>3. CASE t \in loose
    BY <2>3, <1>6
  <2>4. CASE Indexed(t)
    <3>1. SubjectOf[t] \in Subjects /\ index[SubjectOf[t]].expires \in Nat
      BY GatewayAssumption DEF Forever
    <3>2. index[SubjectOf[t]].expires > now'
      BY <2>1, <2>4, <3>1, <1>1 DEF Indexed
    <3> QED BY <3>1, <3>2, <2>1, <2>4, <1>5 DEF Indexed
  <2> QED BY <2>2, <2>3, <2>4
<1> QED BY <1>1, <1>3, <1>5, <1>6, <1>7

------------------------------------------------------------------------------
(* The steps of the gateway.                                               *)

LEMMA IdleSound == Idle \in Request /\ Sound(Idle) /\ ~Idle.barred /\ Idle.pc = "routed"
BY DEF Idle, Slot, Request, Pcs, Ends, Sound

LEMMA GatewayInitInv == Init => GatewayInv
<1> SUFFICES ASSUME Init PROVE GatewayInv
  OBVIOUS
<1>1. LimiterInv
  BY LimiterInitInv DEF Init
<1>2. RequestInv
  <2>1. req = [r \in Requests |-> Idle] /\ toggles = [s \in Services |-> "on"]
    BY DEF Init
  <2> QED BY <2>1, IdleSound DEF RequestInv, Barred
<1>3. CacheInv
  <2>1. NoIndex \in [members : SUBSET Tokens, expires : 0..Forever]
    BY GatewayAssumption DEF NoIndex, Forever
  <2> QED BY <2>1, GatewayAssumption DEF Init, CacheInv, EntriesAreFound
<1>4. BoundsInv
  BY GatewayAssumption DEF Init, BoundsInv
<1> QED BY <1>1, <1>2, <1>3, <1>4 DEF GatewayInv

\* What the rate limit decides about a request.
LEMMA LimitDecides ==
    ASSUME GatewayInv, NEW r \in Requests, Limit(r)
    PROVE  /\ LimiterInv'
           /\ req'[r].pc = "limited" /\ limitOf[req[r].info.kind] > 0
                  => total' > limitOf[req[r].info.kind]
<1> DEFINE info == req[r].info
<1>1. req[r].pc = "limit" /\ info \in Infos /\ info.kind \in Kinds
  BY DEF Limit, GatewayInv, RequestInv, Sound, Ends
<1>2. info.key \in Keys
  BY <1>1, GatewayAssumption
<1>3. \A pc : Go(r, pc) => req'[r].pc = pc
  BY DEF Go, Slot, GatewayInv, RequestInv
<1>4. CASE Go(r, "refused") /\ UNCHANGED limiterVars
  BY <1>3, <1>4, LimiterUnchanged DEF GatewayInv
<1>5. CASE \E allowed \in BOOLEAN :
               /\ allow(info.kind, info.key, allowed)
               /\ Go(r, IF ~allowed THEN "limited"
                        ELSE IF validates(info) THEN AfterLimit(info) ELSE "refused")
  <2>1. PICK allowed \in BOOLEAN :
               /\ allow(info.kind, info.key, allowed)
               /\ Go(r, IF ~allowed THEN "limited"
                        ELSE IF validates(info) THEN AfterLimit(info) ELSE "refused")
    BY <1>5
  <2>2. /\ LimiterInv'
        /\ ~allowed /\ limitOf[info.kind] > 0 => total' > limitOf[info.kind]
    BY <1>1, <1>2, <2>1, AllowKeeps DEF GatewayInv
  <2>3. CASE allowed
    <3>1. PICK pc \in {"get", "routed", "refused"} : Go(r, pc)
      BY <2>1, <2>3 DEF AfterLimit
    <3>2. req'[r].pc # "limited"
      BY <3>1, <1>3
    <3> QED BY <3>2, <2>2
  <2>4. CASE ~allowed
    BY <2>2, <2>4
  <2> QED BY <2>3, <2>4
<1> QED BY <1>4, <1>5 DEF Limit

LEMMA StepKeepsLimiter ==
    ASSUME GatewayInv, [Next]_gatewayVars PROVE LimiterInv'
<1>1. ASSUME NEW r \in Requests, RequestStep(r) PROVE LimiterInv'
  <2>1. CASE Limit(r)
    BY <2>1, LimitDecides
  <2>2. CASE UNCHANGED limiterVars
    BY <2>2, LimiterUnchanged DEF GatewayInv
  <2> QED BY <1>1, <2>1, <2>2 DEF RequestStep, CheckAvailability, CheckAvailabilityFails,
                                  Get, Put, Add, Expire, ContextFails
<1>2. CASE UNCHANGED limiterVars
  BY <1>2, LimiterUnchanged DEF GatewayInv
<1>3. CASE MinutePasses
  <2>1. minute + 1 \in Minutes
    BY <1>3, LimiterAssumption DEF GatewayInv, LimiterInv, LimiterTypeOK, MinutePasses, Minutes
  <2> QED BY <1>3, <2>1, SetClockKeeps DEF MinutePasses, GatewayInv
<1>4. CASE ClockSetBack
  <2>1. PICK m \in Minutes : SetClock(m)
    BY <1>4 DEF ClockSetBack
  <2> QED BY <2>1, SetClockKeeps DEF GatewayInv
<1>5. CASE Restart
  BY <1>5, NewLimiterKeeps DEF Restart, GatewayInv
<1>6. ASSUME NEW r \in Requests, NEW info \in Infos, Arrive(r, info) PROVE UNCHANGED limiterVars
  BY <1>6 DEF Arrive
<1>7. ASSUME NEW s \in Services, NEW value \in {"on", "off"}, setEnabled(s, value)
      PROVE  UNCHANGED limiterVars
  BY <1>7 DEF setEnabled
<1>8. ASSUME NEW w \in Webhooks, WebhookStep(w) PROVE UNCHANGED limiterVars
  BY <1>8 DEF WebhookStep, ReadMembers, DeleteMembers, InvalidationFails
<1>9. Tick => UNCHANGED limiterVars
  BY DEF Tick
<1>10. UNCHANGED gatewayVars => UNCHANGED limiterVars
  BY DEF gatewayVars
<1> QED BY <1>1, <1>2, <1>3, <1>4, <1>5, <1>6, <1>7, <1>8, <1>9, <1>10 DEF Next

LEMMA StepKeepsRequests ==
    ASSUME GatewayInv, [Next]_gatewayVars PROVE RequestInv'
<1> USE DEF GatewayInv
<1>1. ASSUME NEW r \in Requests, RequestStep(r) PROVE RequestInv'
  BY <1>1, RequestsKeepSound
<1>2. ASSUME NEW r \in Requests, NEW info \in Infos, Arrive(r, info) PROVE RequestInv'
  BY <1>2, ArriveKeepsSound
<1>3. ASSUME NEW s \in Services, NEW value \in {"on", "off"}, setEnabled(s, value)
      PROVE  RequestInv'
  BY <1>3, SetEnabledKeepsSound
<1>4. CASE UNCHANGED <<req, toggles>>
  BY <1>4 DEF RequestInv, Barred, Sound
<1>5. CASE Restart
  <2>1. req' = [r \in Requests |-> Idle] /\ toggles' = toggles
    BY <1>5 DEF Restart
  <2> QED BY <2>1, IdleSound DEF RequestInv, Barred, Sound
<1>6. ASSUME NEW w \in Webhooks, WebhookStep(w) PROVE UNCHANGED <<req, toggles>>
  BY <1>6 DEF WebhookStep, ReadMembers, DeleteMembers, InvalidationFails
<1>7. Tick \/ MinutePasses \/ ClockSetBack \/ UNCHANGED gatewayVars => UNCHANGED <<req, toggles>>
  BY DEF Tick, MinutePasses, ClockSetBack, gatewayVars
<1> QED BY <1>1, <1>2, <1>3, <1>4, <1>5, <1>6, <1>7 DEF Next

LEMMA StepKeepsCache ==
    ASSUME GatewayInv, [Next]_gatewayVars PROVE CacheInv'
<1> USE DEF GatewayInv
<1>1. ASSUME NEW r \in Requests, RequestStep(r) PROVE CacheInv'
  BY <1>1, RequestsKeepCache
<1>2. ASSUME NEW w \in Webhooks, WebhookStep(w) PROVE CacheInv'
  BY <1>2, WebhooksKeepCache
<1>3. CASE Tick
  BY <1>3, TickKeepsCache
<1>4. CASE Restart
  <2>1. /\ UNCHANGED cache /\ now' = now
        /\ webhook' = [w \in Webhooks |-> NoWebhook]
    BY <1>4 DEF Restart
  <2> QED BY <2>1 DEF CacheInv, cache, EntriesAreFound, Indexed
<1>5. CASE UNCHANGED cache /\ now' = now /\ UNCHANGED webhook
  BY <1>5, CacheUnchanged
<1>6. ASSUME NEW r \in Requests, NEW info \in Infos, Arrive(r, info)
      PROVE  UNCHANGED cache /\ now' = now /\ UNCHANGED webhook
  BY <1>6 DEF Arrive
<1>7. ASSUME NEW s \in Services, NEW value \in {"on", "off"}, setEnabled(s, value)
      PROVE  UNCHANGED cache /\ now' = now /\ UNCHANGED webhook
  BY <1>7 DEF setEnabled
<1>8. MinutePasses \/ ClockSetBack \/ UNCHANGED gatewayVars
          => UNCHANGED cache /\ now' = now /\ UNCHANGED webhook
  BY DEF MinutePasses, ClockSetBack, gatewayVars
<1> QED BY <1>1, <1>2, <1>3, <1>4, <1>5, <1>6, <1>7, <1>8 DEF Next

LEMMA StepKeepsBounds ==
    ASSUME GatewayInv, [Next]_gatewayVars PROVE BoundsInv'
<1> USE DEF GatewayInv, BoundsInv
<1>1. MaxArrivals \in Nat /\ MaxFaults \in Nat
  BY GatewayAssumption
<1>2. CASE UNCHANGED <<arrivals, faults>>
  BY <1>2
<1>3. CASE Fault /\ arrivals' = arrivals
  BY <1>1, <1>3 DEF Fault
<1>4. ASSUME NEW r \in Requests, NEW info \in Infos, Arrive(r, info) PROVE BoundsInv'
  BY <1>1, <1>4 DEF Arrive
<1>5. ASSUME NEW r \in Requests, RequestStep(r)
      PROVE  UNCHANGED <<arrivals, faults>> \/ (Fault /\ arrivals' = arrivals)
  BY <1>5 DEF RequestStep, CheckAvailability, CheckAvailabilityFails, Limit,
              Get, Put, Add, Expire, ContextFails
<1>6. ASSUME NEW w \in Webhooks, WebhookStep(w)
      PROVE  UNCHANGED <<arrivals, faults>> \/ (Fault /\ arrivals' = arrivals)
  BY <1>6 DEF WebhookStep, ReadMembers, DeleteMembers, InvalidationFails
<1>7. ASSUME NEW s \in Services, NEW value \in {"on", "off"}, setEnabled(s, value)
      PROVE  UNCHANGED <<arrivals, faults>>
  BY <1>7 DEF setEnabled
<1>8. Tick \/ MinutePasses \/ UNCHANGED gatewayVars => UNCHANGED <<arrivals, faults>>
  BY DEF Tick, MinutePasses, gatewayVars
<1>9. ClockSetBack \/ Restart => Fault /\ arrivals' = arrivals
  BY DEF ClockSetBack, Restart
<1> QED BY <1>2, <1>3, <1>4, <1>5, <1>6, <1>7, <1>8, <1>9 DEF Next

------------------------------------------------------------------------------
(* Theorems.                                                               *)

\* Whatever the requests, keys, tokens and faults, the counters agree with the
\* calls, the requests with the toggles, and the cache with its index.
THEOREM GatewayInvariant == Spec => []GatewayInv
<1>1. GatewayInv /\ [Next]_gatewayVars => GatewayInv'
  BY StepKeepsLimiter, StepKeepsRequests, StepKeepsCache, StepKeepsBounds DEF GatewayInv
<1> QED BY <1>1, GatewayInitInv, PTL DEF Spec

\* Every variable of the gateway keeps its type: no counter passes Int.MAX_VALUE.
THEOREM TypeCorrect == Spec => []TypeOK
<1>1. GatewayInv => TypeOK
  <2> SUFFICES ASSUME GatewayInv PROVE TypeOK
    OBVIOUS
  <2>1. \A r \in Requests : req[r].pc \in Pcs /\ req[r].barred \in BOOLEAN
    BY DEF GatewayInv, RequestInv, Request
  <2> QED BY <2>1 DEF GatewayInv, LimiterInv, RequestInv, CacheInv, BoundsInv, TypeOK, Pcs
<1> QED BY <1>1, GatewayInvariant, PTL

\* Whatever keys share the counters of FixedWindowRateLimiter, no minute lets
\* more calls of a kind and key pass than the limit of the kind.
THEOREM LimitHolds == Spec => []AllowedWithinLimit
<1>1. GatewayInv => AllowedWithinLimit
  BY DEF GatewayInv, LimiterInv
<1> QED BY <1>1, GatewayInvariant, PTL

\* The other side: a call that the limiter refuses comes in a minute with more
\* calls than its limit.
THEOREM RefusalsAreBusy == Spec => RefusedOnlyIfBusy
<1> DEFINE Busy == \A r \in Requests :
               req[r].pc = "limit" /\ req'[r].pc = "limited" /\ limitOf[req[r].info.kind] > 0
                   => total' > limitOf[req[r].info.kind]
<1>1. GatewayInv /\ [Next]_gatewayVars => [Busy]_gatewayVars
  <2> SUFFICES ASSUME GatewayInv, Next, NEW r \in Requests,
                      req[r].pc = "limit", req'[r].pc = "limited",
                      limitOf[req[r].info.kind] > 0
               PROVE  total' > limitOf[req[r].info.kind]
    OBVIOUS
  <2>1. req \in [Requests -> Request] /\ req'[r] # req[r]
    BY DEF GatewayInv, RequestInv
  <2>2. ASSUME NEW o \in Requests, RequestStep(o) PROVE Limit(r)
    <3>1. o = r
      BY <2>1, <2>2 DEF RequestStep, CheckAvailability, CheckAvailabilityFails, Limit,
                        Get, Put, Add, Expire, ContextFails, Go
    <3> QED BY <2>2, <3>1 DEF RequestStep, CheckAvailability, CheckAvailabilityFails,
                              Get, Put, Add, Expire, ContextFails
  <2>3. ASSUME NEW o \in Requests, NEW info \in Infos, Arrive(o, info) PROVE FALSE
    BY <2>1, <2>3 DEF Arrive, Ends
  <2>4. ASSUME NEW s \in Services, NEW value \in {"on", "off"}, setEnabled(s, value) PROVE FALSE
    <3>1. \/ req'[r] = req[r]
          \/ req'[r] = [req[r] EXCEPT !.barred = FALSE]
      BY <2>4 DEF setEnabled
    <3>2. req[r] \in Request
      BY <2>1
    <3> QED BY <3>1, <3>2, <2>1 DEF Request
  <2>5. ASSUME NEW w \in Webhooks, WebhookStep(w) PROVE FALSE
    BY <2>1, <2>5 DEF WebhookStep, ReadMembers, DeleteMembers, InvalidationFails
  <2>6. ~(Tick \/ MinutePasses \/ ClockSetBack)
    BY <2>1 DEF Tick, MinutePasses, ClockSetBack
  <2>7. ~Restart
    BY IdleSound DEF Restart
  <2>8. Limit(r)
    BY <2>2, <2>3, <2>4, <2>5, <2>6, <2>7 DEF Next
  <2> QED BY <2>8, LimitDecides
<1> QED BY <1>1, GatewayInvariant, PTL DEF Spec, RefusedOnlyIfBusy

\* BackendServiceAvailabilityFilter refuses what arrives for a service that is
\* switched off and stays so, as long as Redis answers.
THEOREM DisabledStaysOut == Spec => []DisabledIsRefused
<1>1. GatewayInv => DisabledIsRefused
  BY DEF GatewayInv, RequestInv, Barred, DisabledIsRefused
<1> QED BY <1>1, GatewayInvariant, PTL

\* TokenContextCacheService: the index of a subject outlives the entries in it,
\* so that an invalidation finds them all but those the property excepts.
THEOREM InvalidationFindsEntries == Spec => []EntriesAreFound
<1>1. GatewayInv => EntriesAreFound
  BY DEF GatewayInv, CacheInv
<1> QED BY <1>1, GatewayInvariant, PTL
==============================================================================
