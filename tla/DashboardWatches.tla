--------------------------- MODULE DashboardWatches ---------------------------
(***************************************************************************)
(* The dashboard watches of the monitor bot (internal/monitor/dashboard.go *)
(* over internal/state/store.go).  A watch is a dashboard message that the *)
(* bot keeps up to date in a Discord channel.  The dashboard loop and      *)
(* every /ops command run in goroutines of their own.  A refresh takes a   *)
(* snapshot of the store, renders and sends for seconds without a lock,    *)
(* and then writes its result into whatever the store holds by then.       *)
(*                                                                         *)
(* Time is represented by `due': the watch was never updated, or its       *)
(* interval has passed since it was.                                       *)
(***************************************************************************)
EXTENDS Naturals, FiniteSets

CONSTANTS
    All,           \* the key "all": the dashboard of all services
    ServiceKeys,   \* the keys "service:<name>"
    Channels,      \* Discord channels
    NoChannel,     \* the empty channel id
    NoWatch,       \* no entry in ServiceDashboards
    Loop,          \* the goroutine of dashboardLoop
    Commands,      \* goroutines of /ops commands
    EnvEnabled,    \* cfg.Dashboard.Enabled
    EnvChannel,    \* cfg.Dashboard.ChannelID
    MaxMessages,   \* bound: messages ever posted
    MaxCommands,   \* bound: watch and unwatch commands
    MaxFaults      \* bound: failed calls, failed saves, deletions, crashes

Keys == {All} \union ServiceKeys
Workers == {Loop} \union Commands
NoMessage == 0
Messages == 1..MaxMessages
MessageIds == 0..MaxMessages

ASSUME NamesAssumption ==
    /\ All \notin ServiceKeys
    /\ Loop \notin Commands
    /\ NoChannel \notin Channels
    /\ EnvChannel \in Channels \union {NoChannel}
    /\ EnvEnabled \in BOOLEAN
ASSUME BoundsAssumption ==
    /\ MaxMessages \in Nat \ {0}
    /\ MaxCommands \in Nat
    /\ MaxFaults \in Nat

Watch == [channel : Channels, message : MessageIds, due : BOOLEAN]

ASSUME NoWatchAssumption == NoWatch \notin Watch

VARIABLES
    mem,       \* Store.data: watches, and the dashboard fields of version 1
    disk,      \* the state file
    pc,        \* where each worker is in RefreshDashboardWatch
    job,       \* each worker's key, channel and message
    todo,      \* keys that the loop found due and has not refreshed yet
    discord,   \* the channel each message is in, NoChannel if it is nowhere
    sent,      \* number of messages posted so far; the next id is sent + 1
    asked,     \* history: channel of the last watch command, if still watched
    raced,     \* history: keys whose last command raced or was not saved
    commands,  \* commands so far
    faults     \* faults so far

vars == <<mem, disk, pc, job, todo, discord, sent, asked, raced, commands, faults>>
orders == <<asked, raced, commands>>

StoreData == [watches : [Keys -> Watch \union {NoWatch}],
              legacyChannel : Channels \union {NoChannel},
              legacyMessage : MessageIds]

Job == [key : Keys, channel : Channels \union {NoChannel}, message : MessageIds]

PCs == {"idle", "snapshot", "edit", "send", "recordEdit", "recordSend"}

TypeOK ==
    /\ mem \in StoreData
    /\ disk \in StoreData
    /\ pc \in [Workers -> PCs]
    /\ job \in [Workers -> Job]
    /\ todo \subseteq Keys
    /\ discord \in [Messages -> Channels \union {NoChannel}]
    /\ sent \in MessageIds
    /\ asked \in [Keys -> Channels \union {NoChannel}]
    /\ raced \subseteq Keys
    /\ commands \in 0..MaxCommands
    /\ faults \in 0..MaxFaults

------------------------------------------------------------------------------
(* The store.                                                              *)

Fault ==
    /\ faults < MaxFaults
    /\ faults' = faults + 1

\* Update changes memory and then writes the file; if that fails, the error is
\* returned and memory stays changed.
Saved(data) ==
    /\ mem' = data
    /\ disk' = data
    /\ UNCHANGED faults

SaveFailed(data) ==
    /\ mem' = data
    /\ UNCHANGED disk
    /\ Fault

Update(data) == Saved(data) \/ SaveFailed(data)

SetWatch(k, watch) ==
    [watches |-> [mem.watches EXCEPT ![k] = watch],
     legacyChannel |-> mem.legacyChannel,
     legacyMessage |-> mem.legacyMessage]

\* Load and normalize: an empty map is not in the file, and a file without the
\* map gets the watch "all" from the fields of version 1 if they are set.
Loaded(data, isDue) ==
    IF /\ \A k \in Keys : data.watches[k] = NoWatch
       /\ data.legacyChannel # NoChannel \/ data.legacyMessage # NoMessage
      THEN [data EXCEPT !.watches[All] =
                [channel |-> data.legacyChannel,
                 message |-> data.legacyMessage,
                 due |-> isDue]]
      ELSE data

------------------------------------------------------------------------------
(* Start: a fresh install, or a file of version 1 with a posted dashboard, *)
(* which stays as it is until the first save.                              *)

NoJob == [key |-> All, channel |-> NoChannel, message |-> NoMessage]

Empty == [watches |-> [k \in Keys |-> NoWatch],
          legacyChannel |-> NoChannel,
          legacyMessage |-> NoMessage]

Version1(c) == [Empty EXCEPT !.legacyChannel = c, !.legacyMessage = 1]

Init ==
    /\ \/ /\ disk = Empty
          /\ mem = Empty
          /\ sent = 0
          /\ discord = [m \in Messages |-> NoChannel]
          /\ asked = [k \in Keys |-> NoChannel]
       \/ \E c \in Channels, isDue \in BOOLEAN :
          /\ disk = Version1(c)
          /\ mem = Loaded(disk, isDue)
          /\ sent = 1
          /\ discord = [m \in Messages |-> IF m = 1 THEN c ELSE NoChannel]
          /\ asked = [k \in Keys |-> IF k = All THEN c ELSE NoChannel]
    /\ pc = [w \in Workers |-> "idle"]
    /\ job = [w \in Workers |-> NoJob]
    /\ todo = {}
    /\ raced = {}
    /\ commands = 0
    /\ faults = 0

------------------------------------------------------------------------------
(* RefreshDashboardWatch, run by any worker.                               *)

\* What the snapshot tells worker w to do for key k: nothing if there is no
\* watch, except that "all" falls back on the version 1 and environment fields.
fallbackChannel ==
    IF mem.legacyChannel # NoChannel THEN mem.legacyChannel ELSE EnvChannel

\* Mutant: every key falls back.
HasFallbackAnyKey(k) ==
    /\ fallbackChannel # NoChannel
    /\ EnvEnabled \/ mem.legacyChannel # NoChannel

HasFallback(k) ==
    /\ k = All
    /\ fallbackChannel # NoChannel
    /\ EnvEnabled \/ mem.legacyChannel # NoChannel

\* The snapshot of a refresh of k and what it decides.  The worker goes on to
\* edit or to send, or returns at once if there is nothing to refresh.
Snapshot(w, k) ==
    LET watch == mem.watches[k]
        target(channel, message) ==
            /\ job' = [job EXCEPT ![w] = [key |-> k, channel |-> channel,
                                          message |-> message]]
            /\ pc' = [pc EXCEPT ![w] =
                          IF message # NoMessage THEN "edit" ELSE "send"]
    IN  \/ watch # NoWatch /\ target(watch.channel, watch.message)
        \/ watch = NoWatch /\ HasFallback(k)
             /\ target(fallbackChannel, mem.legacyMessage)
        \/ watch = NoWatch /\ ~HasFallback(k)
             /\ pc' = [pc EXCEPT ![w] = "idle"]
             /\ job' = [job EXCEPT ![w] = NoJob]

AtStep(w, step) == pc[w] = step

Goto(w, step) == pc' = [pc EXCEPT ![w] = step]

Finish(w) ==
    /\ pc' = [pc EXCEPT ![w] = "idle"]
    /\ job' = [job EXCEPT ![w] = NoJob]

EditChannelMessage(w) ==
    /\ AtStep(w, "edit")
    /\ discord[job[w].message] = job[w].channel
    /\ Goto(w, "recordEdit")
    /\ UNCHANGED <<mem, disk, job, todo, discord, sent, orders, faults>>

\* Mutant: an edit that fails is an error, as a send that fails is.
EditFailsGivesUp(w) ==
    /\ AtStep(w, "edit")
    /\ IF discord[job[w].message] = job[w].channel THEN Fault ELSE UNCHANGED faults
    /\ Finish(w)
    /\ UNCHANGED <<mem, disk, todo, discord, sent, orders>>

\* The message is not in that channel, or the call fails: a new message is sent.
EditFails(w) ==
    /\ AtStep(w, "edit")
    /\ IF discord[job[w].message] = job[w].channel THEN Fault ELSE UNCHANGED faults
    /\ Goto(w, "send")
    /\ UNCHANGED <<mem, disk, job, todo, discord, sent, orders>>

Post(channel) ==
    /\ sent < MaxMessages
    /\ sent' = sent + 1
    /\ discord' = [discord EXCEPT ![sent + 1] = channel]

SendChannelMessage(w) ==
    /\ AtStep(w, "send")
    /\ Post(job[w].channel)
    /\ job' = [job EXCEPT ![w].message = sent + 1]
    /\ Goto(w, "recordSend")
    /\ UNCHANGED <<mem, disk, todo, orders, faults>>

\* The call fails before or after Discord posted the message.
SendFails(w) ==
    /\ AtStep(w, "send")
    /\ Fault
    /\ Post(job[w].channel) \/ UNCHANGED <<sent, discord>>
    /\ Finish(w)
    /\ UNCHANGED <<mem, disk, todo, orders>>

\* Mutant: the entry keeps the channel it has, and may have none.
EditResultOwnChannel(k, channel) ==
    LET watch == mem.watches[k]
        own == IF watch = NoWatch THEN NoChannel ELSE watch.channel
        message == IF watch = NoWatch THEN NoMessage ELSE watch.message
        data == SetWatch(k, [channel |-> own, message |-> message,
                             due |-> FALSE])
    IN  IF k = All THEN [data EXCEPT !.legacyChannel = own] ELSE data

\* The Update after an edit.  The entry may be gone by now: Go's map then gives
\* a zero entry, which gets the channel and is stored.
EditResult(k, channel) ==
    LET watch == mem.watches[k]
        message == IF watch = NoWatch THEN NoMessage ELSE watch.message
        data == SetWatch(k, [channel |-> channel, message |-> message,
                             due |-> FALSE])
    IN  IF k = All THEN [data EXCEPT !.legacyChannel = channel] ELSE data

RecordEdit(w) ==
    /\ AtStep(w, "recordEdit")
    /\ Update(EditResult(job[w].key, job[w].channel))
    /\ Finish(w)
    /\ UNCHANGED <<todo, discord, sent, orders>>

SendResult(k, channel, message) ==
    LET data == SetWatch(k, [channel |-> channel, message |-> message,
                             due |-> FALSE])
    IN  IF k = All
          THEN [data EXCEPT !.legacyChannel = channel, !.legacyMessage = message]
          ELSE data

RecordSend(w) ==
    /\ AtStep(w, "recordSend")
    /\ Update(SendResult(job[w].key, job[w].channel, job[w].message))
    /\ Finish(w)
    /\ UNCHANGED <<todo, discord, sent, orders>>

------------------------------------------------------------------------------
(* dashboardLoop.                                                          *)

Due(k) == mem.watches[k] # NoWatch /\ mem.watches[k].due

\* refreshDueDashboards: the keys due in one snapshot, or the default "all".
refreshDueDashboards ==
    /\ AtStep(Loop, "idle")
    /\ todo = {}
    /\ todo' = IF /\ \A k \in Keys : mem.watches[k] = NoWatch
                  /\ EnvEnabled /\ EnvChannel # NoChannel
                 THEN {All}
                 ELSE {k \in Keys : Due(k)}
    /\ todo' # {}
    /\ UNCHANGED <<mem, disk, pc, job, discord, sent, orders, faults>>

refreshNext(k) ==
    /\ AtStep(Loop, "idle")
    /\ k \in todo
    /\ todo' = todo \ {k}
    /\ Snapshot(Loop, k)
    /\ UNCHANGED <<mem, disk, discord, sent, orders, faults>>

IntervalElapsed(data, k) ==
    IF data.watches[k] = NoWatch
      THEN data
      ELSE [data EXCEPT !.watches[k].due = TRUE]

IntervalElapses(k) ==
    /\ mem' = IntervalElapsed(mem, k)
    /\ disk' = IntervalElapsed(disk, k)
    /\ UNCHANGED <<pc, job, todo, discord, sent, orders, faults>>

------------------------------------------------------------------------------
(* The commands.                                                           *)

InFlight(k) == \E w \in Workers : pc[w] # "idle" /\ job[w].key = k

\* A command about k races if a refresh of k is between its snapshot and its
\* result; so does one whose result is not saved.
Ordered(k, channel) ==
    /\ commands < MaxCommands
    /\ commands' = commands + 1
    /\ asked' = [asked EXCEPT ![k] = channel]
    /\ raced' = IF InFlight(k) \/ disk' # mem'
                  THEN raced \union {k} ELSE raced \ {k}

\* Mutant: a watch that exists stays in its channel.
WatchResultKeepsChannel(k, channel) ==
    LET target == IF mem.watches[k] = NoWatch THEN channel
                                               ELSE mem.watches[k].channel
        data == SetWatch(k, [channel |-> target, message |-> NoMessage,
                             due |-> TRUE])
    IN  IF k = All THEN [data EXCEPT !.legacyChannel = target] ELSE data

WatchResult(k, channel) ==
    LET data == SetWatch(k, [channel |-> channel, message |-> NoMessage,
                             due |-> TRUE])
    IN  IF k = All THEN [data EXCEPT !.legacyChannel = channel] ELSE data

\* The command stores the watch and goes on to refresh it, unless the save
\* failed.
WatchDashboardScope(w, k, channel) ==
    /\ AtStep(w, "idle")
    /\ LET data == WatchResult(k, channel) IN
       \/ /\ Saved(data)
          /\ Goto(w, "snapshot")
          /\ job' = [job EXCEPT ![w] = [NoJob EXCEPT !.key = k]]
       \/ /\ SaveFailed(data)
          /\ UNCHANGED <<pc, job>>
    /\ Ordered(k, channel)
    /\ UNCHANGED <<todo, discord, sent>>

RefreshWatched(w) ==
    /\ AtStep(w, "snapshot")
    /\ Snapshot(w, job[w].key)
    /\ UNCHANGED <<mem, disk, todo, discord, sent, orders, faults>>

\* Mutant: the fields of version 1 stay.
UnwatchResultKeepsLegacy(k) == SetWatch(k, NoWatch)

UnwatchResult(k) ==
    LET data == SetWatch(k, NoWatch)
    IN  IF k = All
          THEN [data EXCEPT !.legacyChannel = NoChannel,
                            !.legacyMessage = NoMessage]
          ELSE data

UnwatchDashboardScope(k) ==
    /\ Update(UnwatchResult(k))
    /\ Ordered(k, NoChannel)
    /\ UNCHANGED <<pc, job, todo, discord, sent>>

------------------------------------------------------------------------------
(* Discord and crashes.                                                    *)

DeleteMessage(m) ==
    /\ discord[m] # NoChannel
    /\ Fault
    /\ discord' = [discord EXCEPT ![m] = NoChannel]
    /\ UNCHANGED <<mem, disk, pc, job, todo, sent, orders>>

Restart ==
    /\ Fault
    /\ \E isDue \in BOOLEAN : mem' = Loaded(disk, isDue)
    /\ pc' = [w \in Workers |-> "idle"]
    /\ job' = [w \in Workers |-> NoJob]
    /\ todo' = {}
    /\ raced' = raced \union
                {k \in Keys : mem'.watches[k] # mem.watches[k]}
    /\ UNCHANGED <<disk, discord, sent, asked, commands>>

------------------------------------------------------------------------------
RefreshStep(w) ==
    \/ EditChannelMessage(w)
    \/ EditFails(w)
    \/ SendChannelMessage(w)
    \/ SendFails(w)
    \/ RecordEdit(w)
    \/ RecordSend(w)
    \/ RefreshWatched(w)

LoopStep == refreshDueDashboards \/ \E k \in Keys : refreshNext(k)

CommandStep ==
    \E k \in Keys :
        \/ \E w \in Commands, c \in Channels : WatchDashboardScope(w, k, c)
        \/ UnwatchDashboardScope(k)

Next ==
    \/ \E w \in Workers : RefreshStep(w)
    \/ LoopStep
    \/ CommandStep
    \/ \E k \in Keys : IntervalElapses(k)
    \/ \E m \in Messages : DeleteMessage(m)
    \/ Restart

\* Every call of a refresh has a timeout, the loop's ticker keeps ticking, and
\* intervals pass.  Nobody has to give a command and nothing has to fail.
Fairness ==
    /\ \A w \in Workers : WF_vars(RefreshStep(w))
    /\ WF_vars(LoopStep)
    /\ \A k \in Keys : WF_vars(IntervalElapses(k))

Spec == Init /\ [][Next]_vars

FairSpec == Spec /\ Fairness

------------------------------------------------------------------------------
(* Properties.                                                             *)

\* The version 1 fields agree with the watch "all".
Mirrors(data) ==
    LET watch == data.watches[All] IN
    /\ watch = NoWatch => /\ data.legacyChannel = NoChannel
                          /\ data.legacyMessage = NoMessage
    /\ watch # NoWatch => /\ data.legacyChannel = watch.channel
                          /\ watch.message # NoMessage
                             => data.legacyMessage = watch.message

\* The version 1 fields mirror the watch "all": this is what makes Loaded's
\* migration and the fallback of a refresh harmless after an unwatch.
LegacyMirrorsAll == Mirrors(mem)

\* Commands that do not race with a refresh of the same dashboard are obeyed
\* for good: what is unwatched stays unwatched, what is watched stays in the
\* channel of the last watch command, whatever edits fail, messages disappear
\* or loops run in between (WatchDashboardScope, UnwatchDashboardScope).
UnracedOrdersObeyed ==
    \A k \in Keys \ raced :
        (k = All => ~EnvEnabled) =>
            /\ asked[k] = NoChannel <=> mem.watches[k] = NoWatch
            /\ mem.watches[k] # NoWatch => mem.watches[k].channel = asked[k]

\* What the reply of unwatch says: automatic refreshing has stopped.
UnwatchedStays ==
    \A k \in ServiceKeys :
        asked[k] = NoChannel => mem.watches[k] = NoWatch

\* A dashboard of which no goroutine, no memory and no file knows comes back
\* only through a command (early returns of RefreshDashboardWatch, Load).
Forgotten(k) ==
    /\ mem.watches[k] = NoWatch
    /\ Loaded(disk, TRUE).watches[k] = NoWatch
    /\ ~InFlight(k)

ForgottenStaysForgotten ==
    [][\A k \in Keys :
          Forgotten(k) /\ commands' = commands /\ (k = All => ~EnvEnabled)
          => Forgotten(k)']_vars

\* Once commands and faults stop, every watch ends with a message that exists
\* in the channel the watch names, whatever races left behind before
\* (RefreshDashboardWatch's fall back from edit to send).
WatchesConverge ==
    <>[](\A k \in Keys :
            mem.watches[k] # NoWatch =>
                /\ mem.watches[k].message # NoMessage
                /\ discord[mem.watches[k].message] = mem.watches[k].channel)
==============================================================================
