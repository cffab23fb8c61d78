------------------------------ MODULE LogFeeds ------------------------------
(***************************************************************************)
(* The log feeds of the monitor bot (internal/monitor/log_feeds.go).  A    *)
(* feed posts the rows that a log query finds and that it does not know    *)
(* yet.  The loop takes one snapshot of all feeds and then refreshes those *)
(* that are due, one after the other: query, post, record.  Watch and      *)
(* unwatch commands run in goroutines of their own; a watch first queries  *)
(* its baseline, the rows it will never post, and then replaces the entry. *)
(*                                                                         *)
(* Rows are numbered in the order in which they are logged.  A row leaves  *)
(* the window of the query before its fingerprint is pruned, so known rows *)
(* need not be pruned here.                                                *)
(***************************************************************************)
EXTENDS Naturals, FiniteSets

CONSTANTS
    Feeds,          \* keys of the feeds: a service and a mode each
    ByLatency,      \* feeds of mode "slow": the query sorts by latency
    Latency,        \* the latency of each row
    OwnLimit,       \* feeds of mode "errors": the query text has a limit of 50
    Channels,       \* Discord channels
    NoChannel,      \* the empty channel id
    NoFeed,         \* no entry in LogFeeds
    Limits,         \* the limits that a watch may ask for
    DefaultLimit,   \* the limit that normalize gives to an entry without one
    Shown,          \* how many rows a message shows at most (10)
    Fits,           \* how many of them its text may hold before it is cut off
    Budget,         \* how many queries a tick may make
    Commands,       \* goroutines of /ops logs
    NoCommand,      \* a goroutine that runs no watch command
    NoJob,          \* the loop is between two refreshes
    MaxRows,        \* bound: rows ever logged
    MaxCommands,    \* bound: watch and unwatch commands
    MaxFaults       \* bound: failed calls, failed saves, lost replies, crashes

Rows == 1..MaxRows

ASSUME NamesAssumption ==
    /\ ByLatency \subseteq Feeds
    /\ OwnLimit \subseteq Feeds
    /\ NoChannel \notin Channels
ASSUME LatencyAssumption == Latency \in [Rows -> Nat]
ASSUME NumbersAssumption ==
    /\ Limits \subseteq Nat \ {0}
    /\ DefaultLimit \in Limits
    /\ Shown \in Nat \ {0}
    /\ Fits \subseteq Nat /\ Fits # {}
    /\ Budget \in Nat \ {0}
    /\ MaxRows \in Nat
    /\ MaxCommands \in Nat
    /\ MaxFaults \in Nat

\* An entry; one without a channel also has no service and is never refreshed.
Feed == [channel : Channels \union {NoChannel}, limit : Limits,
         known : SUBSET Rows, due : BOOLEAN]

Live(feed) == feed # NoFeed /\ feed.channel # NoChannel

LiveFeed == {feed \in Feed : Live(feed)}

\* What a watch command found and is about to store.
Baseline == [feed : Feeds, channel : Channels, limit : Limits,
             rows : SUBSET Rows, upto : 0..MaxRows]

\* A refresh that has queried, and what it is about to post and to store.
Job == [feed : Feeds, channel : Channels, known : SUBSET Rows, fresh : SUBSET Rows]

ASSUME SentinelsAssumption ==
    /\ NoFeed \notin Feed
    /\ NoCommand \notin Baseline
    /\ NoJob \notin Job

VARIABLES
    mem,        \* Store.data.LogFeeds
    disk,       \* the state file
    oldest,     \* the oldest row in the window of the feed's query
    newest,     \* the newest row of the feed's log
    pc,         \* where the loop is in refreshLogFeed
    todo,       \* the loop's snapshot: due feeds that are not refreshed yet
    job,        \* the refresh in progress: feed, channel, known and fresh rows
    command,    \* what each watch command is about to store
    told,       \* history: rows shown for the current watch of a feed
    accounted,  \* history: rows ever shown, or part of a stored baseline
    cut,        \* history: rows of a message that it did not show
    since,      \* history: newest row when the current watch took its baseline
    asked,      \* history: channel of the last watch command, if still watched
    lost,       \* history: rows whose record may be behind Discord
    raced,      \* history: feeds whose last command met a refresh in flight
    unsaved,    \* history: feeds whose last command was not saved
    commands,   \* commands so far
    faults      \* faults so far

window == <<oldest, newest>>
loop == <<pc, todo, job>>
readers == <<told, accounted, cut, lost>>
orders == <<since, asked, raced, unsaved>>
vars == <<mem, disk, window, loop, command, readers, orders, commands, faults>>

TypeOK ==
    /\ mem \in [Feeds -> Feed \union {NoFeed}]
    /\ disk \in [Feeds -> Feed \union {NoFeed}]
    /\ oldest \in [Feeds -> 1..MaxRows + 1]
    /\ newest \in [Feeds -> 0..MaxRows]
    /\ pc \in {"idle", "send", "record"}
    /\ todo \in UNION {[S -> LiveFeed] : S \in SUBSET Feeds}
    /\ job \in Job \union {NoJob}
    /\ pc = "idle" <=> job = NoJob
    /\ command \in [Commands -> Baseline \union {NoCommand}]
    /\ told \in [Feeds -> SUBSET Rows]
    /\ accounted \in [Feeds -> SUBSET Rows]
    /\ cut \in [Feeds -> SUBSET Rows]
    /\ since \in [Feeds -> 0..MaxRows]
    /\ asked \in [Feeds -> Channels \union {NoChannel}]
    /\ lost \in [Feeds -> SUBSET Rows]
    /\ raced \subseteq Feeds
    /\ unsaved \subseteq Feeds
    /\ commands \in 0..MaxCommands
    /\ faults \in 0..MaxFaults

------------------------------------------------------------------------------
(* The store and the log.                                                  *)

Fault ==
    /\ faults < MaxFaults
    /\ faults' = faults + 1

\* Memory changes first; the file follows unless the write fails.
Update(feeds) ==
    /\ mem' = feeds
    /\ \/ disk' = feeds /\ UNCHANGED faults
       \/ UNCHANGED disk /\ Fault

Window(f) == oldest[f]..newest[f]

\* Whether f's query may return row r before row s: newest or slowest first.
Before(f, r, s) == IF f \in ByLatency THEN Latency[r] >= Latency[s] ELSE r > s

\* The sets that the first n rows of S can be in the order of f's query.
FirstOf(f, n, S) ==
    {T \in SUBSET S :
        /\ Cardinality(T) = IF Cardinality(S) < n THEN Cardinality(S) ELSE n
        /\ \A r \in T, s \in S \ T : Before(f, r, s)}

\* What a query of feed f with this limit can return.
queryLogFeedRows(f, limit) ==
    IF f \in OwnLimit THEN {Window(f)} ELSE FirstOf(f, limit, Window(f))

Init ==
    /\ mem = [f \in Feeds |-> NoFeed]
    /\ disk = mem
    /\ oldest = [f \in Feeds |-> 1]
    /\ newest \in [Feeds -> 0..MaxRows]
    /\ pc = "idle" /\ job = NoJob
    /\ todo = [f \in {} |-> NoFeed]
    /\ command = [w \in Commands |-> NoCommand]
    /\ told = [f \in Feeds |-> {}]
    /\ accounted = told /\ cut = told /\ lost = told
    /\ since = [f \in Feeds |-> 0]
    /\ asked = [f \in Feeds |-> NoChannel]
    /\ raced = {} /\ unsaved = {}
    /\ commands = 0
    /\ faults = 0

RowLogged(f) ==
    /\ newest[f] < MaxRows
    /\ newest' = [newest EXCEPT ![f] = @ + 1]
    /\ UNCHANGED <<mem, disk, oldest, loop, command, readers, orders, commands,
                   faults>>

RowLeavesWindow(f) ==
    /\ oldest[f] <= newest[f]
    /\ oldest' = [oldest EXCEPT ![f] = @ + 1]
    /\ UNCHANGED <<mem, disk, newest, loop, command, readers, orders, commands,
                   faults>>

------------------------------------------------------------------------------
(* The loop.                                                               *)

Due(f) == Live(mem[f]) /\ mem[f].due

\* One snapshot; as many of the due feeds as the query budget allows, in the
\* order in which Go happens to iterate the map.
refreshDueLogFeeds ==
    /\ pc = "idle"
    /\ DOMAIN todo = {}
    /\ \E chosen \in SUBSET {f \in Feeds : Due(f)} :
        /\ chosen # {}
        /\ \/ chosen = {f \in Feeds : Due(f)} /\ Cardinality(chosen) <= Budget
           \/ Cardinality(chosen) = Budget
        /\ todo' = [f \in chosen |-> mem[f]]
    /\ UNCHANGED <<mem, disk, window, pc, job, command, readers, orders,
                   commands, faults>>

Others(f) == [g \in DOMAIN todo \ {f} |-> todo[g]]

\* Mutant: normalize does not give an entry its default limit.
EntryWithoutLimit(f) ==
    IF mem[f] = NoFeed
      THEN [channel |-> NoChannel, limit |-> 0, known |-> {}, due |-> FALSE]
      ELSE mem[f]

\* An Update of an entry that is gone by now stores one without a channel; an
\* entry without a limit gets the default one.
Entry(f) ==
    IF mem[f] = NoFeed
      THEN [channel |-> NoChannel, limit |-> DefaultLimit, known |-> {},
            due |-> FALSE]
      ELSE mem[f]

\* The query fails: the status is stored, if the file can be written.
QueryFails(f) ==
    /\ pc = "idle"
    /\ f \in DOMAIN todo
    /\ Fault
    /\ mem' = [mem EXCEPT ![f] = [Entry(f) EXCEPT !.due = FALSE]]
    /\ disk' \in {disk, mem'}
    /\ todo' = Others(f)
    /\ UNCHANGED <<window, pc, job, command, readers, orders, commands>>

\* Mutant: every row that is found counts as known.
QuerySucceedsMarksAll(f) ==
    /\ pc = "idle"
    /\ f \in DOMAIN todo
    /\ \E rows \in queryLogFeedRows(f, todo[f].limit) :
       \E fresh \in FirstOf(f, todo[f].limit, rows \ todo[f].known) :
         /\ job' = [feed |-> f, channel |-> todo[f].channel,
                    known |-> todo[f].known \union rows, fresh |-> fresh]
         /\ pc' = IF fresh = {} THEN "record" ELSE "send"
    /\ todo' = Others(f)
    /\ UNCHANGED <<mem, disk, window, command, readers, orders, commands, faults>>

\* Mutant: the limit cuts off what is found before the known rows are skipped.
QuerySucceedsCutsFirst(f) ==
    /\ pc = "idle"
    /\ f \in DOMAIN todo
    /\ \E rows \in queryLogFeedRows(f, todo[f].limit) :
       \E first \in FirstOf(f, todo[f].limit, rows) :
         LET fresh == first \ todo[f].known IN
         /\ job' = [feed |-> f, channel |-> todo[f].channel,
                    known |-> todo[f].known \union fresh, fresh |-> fresh]
         /\ pc' = IF fresh = {} THEN "record" ELSE "send"
    /\ todo' = Others(f)
    /\ UNCHANGED <<mem, disk, window, command, readers, orders, commands, faults>>

\* What is found and not known, up to the limit, is fresh.
QuerySucceeds(f) ==
    /\ pc = "idle"
    /\ f \in DOMAIN todo
    /\ \E rows \in queryLogFeedRows(f, todo[f].limit) :
       \E fresh \in FirstOf(f, todo[f].limit, rows \ todo[f].known) :
         /\ job' = [feed |-> f, channel |-> todo[f].channel,
                    known |-> todo[f].known \union fresh, fresh |-> fresh]
         /\ pc' = IF fresh = {} THEN "record" ELSE "send"
    /\ todo' = Others(f)
    /\ UNCHANGED <<mem, disk, window, command, readers, orders, commands, faults>>

\* What a message may show of the fresh rows: the first ones, and of these the
\* ones that are whole in its text, which TruncateDiscordMessage cuts off.
formatLogFeedMessage(f, fresh) ==
    UNION {FirstOf(f, IF n < Shown THEN n ELSE Shown, fresh) : n \in Fits}

\* The readers of the channel see the rows that the message shows.
Show(f, rows) ==
    /\ told' = [told EXCEPT ![f] = @ \union rows]
    /\ accounted' = [accounted EXCEPT ![f] = @ \union rows]
    /\ cut' = [cut EXCEPT ![f] = @ \union (job.fresh \ rows)]

SendChannelMessage ==
    /\ pc = "send"
    /\ \E rows \in formatLogFeedMessage(job.feed, job.fresh) : Show(job.feed, rows)
    /\ pc' = "record"
    /\ UNCHANGED <<mem, disk, window, todo, job, command, lost, orders, commands,
                   faults>>

Finish == pc' = "idle" /\ job' = NoJob

\* The call fails before or after Discord posted: nothing is recorded, and the
\* feed stays due.
SendFails ==
    /\ pc = "send"
    /\ Fault
    /\ \/ UNCHANGED readers
       \/ \E rows \in formatLogFeedMessage(job.feed, job.fresh) :
            /\ Show(job.feed, rows)
            /\ lost' = [lost EXCEPT ![job.feed] = @ \union rows]
    /\ Finish
    /\ UNCHANGED <<mem, disk, window, todo, command, orders, commands>>

\* Mutant: the fingerprints of the fresh rows are not stored.
RecordForgetsFresh ==
    /\ pc = "record"
    /\ Update([mem EXCEPT ![job.feed] =
                 [Entry(job.feed) EXCEPT !.known = job.known \ job.fresh,
                                         !.due = FALSE]])
    /\ Finish
    /\ UNCHANGED <<window, todo, command, readers, orders, commands>>

\* Mutant: the whole entry of the snapshot is stored.
RecordWholeEntry ==
    /\ pc = "record"
    /\ Update([mem EXCEPT ![job.feed] =
                 [Entry(job.feed) EXCEPT !.channel = job.channel,
                                         !.known = job.known, !.due = FALSE]])
    /\ Finish
    /\ UNCHANGED <<window, todo, command, readers, orders, commands>>

Record ==
    /\ pc = "record"
    /\ Update([mem EXCEPT ![job.feed] =
                 [Entry(job.feed) EXCEPT !.known = job.known, !.due = FALSE]])
    /\ Finish
    /\ UNCHANGED <<window, todo, command, readers, orders, commands>>

IntervalElapsed(feeds, f) ==
    IF Live(feeds[f]) THEN [feeds EXCEPT ![f].due = TRUE] ELSE feeds

IntervalElapses(f) ==
    /\ mem' = IntervalElapsed(mem, f)
    /\ disk' = IntervalElapsed(disk, f)
    /\ UNCHANGED <<window, loop, command, readers, orders, commands, faults>>

------------------------------------------------------------------------------
(* The commands.                                                           *)

InFlight(f) == f \in DOMAIN todo \/ (pc # "idle" /\ job.feed = f)

\* A command replaces the entry and begins a new history of the feed.
Ordered(f, channel, upto) ==
    /\ asked' = [asked EXCEPT ![f] = channel]
    /\ since' = [since EXCEPT ![f] = upto]
    /\ told' = [told EXCEPT ![f] = {}]
    /\ lost' = [lost EXCEPT ![f] = {}]
    /\ raced' = IF InFlight(f) THEN raced \union {f} ELSE raced \ {f}
    /\ unsaved' = IF disk' # mem' THEN unsaved \union {f} ELSE unsaved \ {f}

\* WatchLogFeed up to its query.  If that fails, nothing happens.
WatchQueries(w, f, channel, limit) ==
    /\ command[w] = NoCommand
    /\ commands < MaxCommands
    /\ commands' = commands + 1
    /\ \E rows \in queryLogFeedRows(f, limit) :
         command' = [command EXCEPT ![w] =
             [feed |-> f, channel |-> channel, limit |-> limit, rows |-> rows,
              upto |-> newest[f]]]
    /\ UNCHANGED <<mem, disk, window, loop, readers, orders, faults>>

\* Mutant: the baseline is not stored.
WatchStoresEmpty(w) ==
    /\ command[w] # NoCommand
    /\ LET b == command[w] IN
       /\ Update([mem EXCEPT ![b.feed] =
                    [channel |-> b.channel, limit |-> b.limit, known |-> {},
                     due |-> FALSE]])
       /\ Ordered(b.feed, b.channel, b.upto)
       /\ accounted' = [accounted EXCEPT ![b.feed] = @ \union b.rows]
    /\ command' = [command EXCEPT ![w] = NoCommand]
    /\ UNCHANGED <<window, loop, cut, commands>>

\* WatchLogFeed from its Update on.
WatchStores(w) ==
    /\ command[w] # NoCommand
    /\ LET b == command[w] IN
       /\ Update([mem EXCEPT ![b.feed] =
                    [channel |-> b.channel, limit |-> b.limit, known |-> b.rows,
                     due |-> FALSE]])
       /\ Ordered(b.feed, b.channel, b.upto)
       /\ accounted' = [accounted EXCEPT ![b.feed] = @ \union b.rows]
    /\ command' = [command EXCEPT ![w] = NoCommand]
    /\ UNCHANGED <<window, loop, cut, commands>>

UnwatchLogFeed(f) ==
    /\ commands < MaxCommands
    /\ commands' = commands + 1
    /\ Update([mem EXCEPT ![f] = NoFeed])
    /\ Ordered(f, NoChannel, newest[f])
    /\ UNCHANGED <<window, loop, command, accounted, cut>>

------------------------------------------------------------------------------
(* Crashes.                                                                *)

Known(feed) == IF feed = NoFeed THEN {} ELSE feed.known

\* Rows that were shown and that the file does not know may be shown again.
Restart ==
    /\ Fault
    /\ mem' = disk
    /\ lost' = [f \in Feeds |-> lost[f] \union (told[f] \ Known(disk[f]))]
    /\ pc' = "idle" /\ job' = NoJob
    /\ todo' = [f \in {} |-> NoFeed]
    /\ command' = [w \in Commands |-> NoCommand]
    /\ UNCHANGED <<disk, window, told, accounted, cut, orders, commands>>

------------------------------------------------------------------------------
LoopStep ==
    \/ refreshDueLogFeeds
    \/ \E f \in Feeds : QueryFails(f) \/ QuerySucceeds(f)
    \/ SendChannelMessage
    \/ SendFails
    \/ Record

CommandStep ==
    \/ \E w \in Commands :
        \/ \E f \in Feeds, c \in Channels, n \in Limits : WatchQueries(w, f, c, n)
        \/ WatchStores(w)
    \/ \E f \in Feeds : UnwatchLogFeed(f)

Next ==
    \/ LoopStep
    \/ CommandStep
    \/ \E f \in Feeds : RowLogged(f) \/ RowLeavesWindow(f) \/ IntervalElapses(f)
    \/ Restart

\* The loop's ticker keeps ticking, its calls have timeouts, intervals pass.
\* Nobody has to give a command, no row has to be logged, nothing has to fail.
Fairness == WF_vars(LoopStep) /\ \A f \in Feeds : WF_vars(IntervalElapses(f))

Spec == Init /\ [][Next]_vars

FairSpec == Spec /\ Fairness

------------------------------------------------------------------------------
(* Properties.                                                             *)

\* Rows count as known only because they were there when a watch was registered,
\* or because a message with them was posted: no failed query, send or save, no
\* race and no restart swallows a row.  What a posted message did not show, because
\* it holds fewer rows than the limit or its text was too long, is known like the
\* rows that it showed (refreshLogFeed's `known').
NothingSwallowed ==
    \A f \in Feeds : Known(mem[f]) \subseteq accounted[f] \union cut[f]

\* What the reply to a watch says: the rows that were there are the baseline, and
\* every later one is sent to the channel.  So a row is known only because it was
\* shown or belongs to a baseline.  This is not so: see the README.
NewRowsShown ==
    \A f \in Feeds : Known(mem[f]) \subseteq accounted[f]

\* The feeds that the loop serves are those asked for, in the channel asked
\* for, whatever refreshes a command raced with (UnwatchLogFeed, the entry
\* without service that refreshLogFeed may leave behind).
ServedAsAsked ==
    \A f \in Feeds \ unsaved :
        /\ Live(mem[f]) <=> asked[f] # NoChannel
        /\ Live(mem[f]) => mem[f].channel = asked[f]

\* The rows of the refresh in progress are posted, whether or not the bot
\* learns of it.
Posts == pc = "send" /\ (pc' = "record" \/ readers' # readers)

\* A watch shows a row once, unless the bot lost track of it or the watch was
\* registered while a refresh of the same feed was in flight (send, then
\* record).
NoRowTwice ==
    [][Posts => \/ job.feed \in raced
                \/ \A row \in job.fresh \intersect told[job.feed] :
                     row \in lost[job.feed]]_vars

\* What the reply to a watch promises: rows logged before it are not posted.  Older
\* rows may move up among the slowest, so this is not so for a feed of mode "slow".
OnlyNewRows ==
    [][Posts => \/ job.feed \in ByLatency \union raced \union unsaved
                \/ \A row \in job.fresh : row > since[job.feed]]_vars

\* A row that the query of a live feed keeps finding becomes known in the end,
\* however the queries, posts, saves and restarts failed before: what a limit
\* cuts off is posted by a later refresh.
FoundRowsDelivered ==
    \A f \in Feeds, row \in Rows :
        <>[](Live(mem[f]) /\ \A found \in queryLogFeedRows(f, mem[f].limit) :
                                 row \in found)
        => <>[](row \in Known(mem[f]))
==============================================================================
