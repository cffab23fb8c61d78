-------------------------- MODULE LogFeeds_proofs --------------------------
(***************************************************************************)
(* The log feeds for every number of feeds, rows, commands and faults.     *)
(* Five invariants: the types; Served, which says of the file what         *)
(* ServedAsAsked says of memory; Accounted, which follows the known rows   *)
(* through the snapshot of the loop, the refresh in progress, the memory   *)
(* and the file; Remembered, which follows the shown rows the same way;    *)
(* and BaselineKept: what a query can still find of the rows before a      *)
(* watch is known, or crowded out by newer rows that are.                  *)
(***************************************************************************)
EXTENDS LogFeeds, FiniteSetTheorems, TLAPS

------------------------------------------------------------------------------
(* Lemmas about rows and entries.                                          *)

\* Every set of rows is finite.
LEMMA RowSets ==
    ASSUME NEW S \in SUBSET Rows
    PROVE  IsFiniteSet(S) /\ Cardinality(S) \in Nat
<1>1. IsFiniteSet(Rows)
  BY NumbersAssumption, FS_Interval DEF Rows
<1>2. IsFiniteSet(S)
  BY <1>1, FS_Subset
<1> QED
  BY <1>2, FS_CardinalityType

\* What is cut off a set by a limit is a part of the set, and not larger than
\* the limit.
LEMMA FirstAreFew ==
    ASSUME NEW f, NEW n \in Nat, NEW S \in SUBSET Rows, NEW T \in FirstOf(f, n, S)
    PROVE  T \subseteq S /\ Cardinality(T) <= n
<1>1. T \subseteq S /\ Cardinality(T) = IF Cardinality(S) < n THEN Cardinality(S) ELSE n
  BY DEF FirstOf
<1>2. Cardinality(S) \in Nat
  BY RowSets
<1> QED
  BY <1>1, <1>2

\* A query returns rows.
LEMMA QueryReturnsRows ==
    ASSUME TypeOK, NEW f \in Feeds, NEW n, NEW rows \in queryLogFeedRows(f, n)
    PROVE  rows \subseteq Rows
<1>1. oldest[f] \in 1..MaxRows + 1 /\ newest[f] \in 0..MaxRows
  BY DEF TypeOK
<1>2. Window(f) \subseteq Rows
  BY <1>1, NumbersAssumption DEF Window, Rows
<1>3. rows \subseteq Window(f)
  BY DEF queryLogFeedRows, FirstOf
<1> QED
  BY <1>2, <1>3

\* An entry that an Update works on is an entry, and serves exactly if the
\* stored one does.
LEMMA EntryIsFeed ==
    ASSUME TypeOK, NEW f \in Feeds
    PROVE  /\ Entry(f) \in Feed
           /\ Live(Entry(f)) <=> Live(mem[f])
           /\ Live(mem[f]) => Entry(f).channel = mem[f].channel
           /\ Known(Entry(f)) = Known(mem[f])
<1>1. CASE mem[f] = NoFeed
  <2> DEFINE E == [channel |-> NoChannel, limit |-> DefaultLimit, known |-> {},
                   due |-> FALSE]
  <2>1. Entry(f) = E
    BY <1>1 DEF Entry
  <2>2. E \in Feed
    BY NumbersAssumption DEF Feed
  <2>3. E # NoFeed /\ E.channel = NoChannel /\ E.known = {}
    BY <2>2, SentinelsAssumption
  <2> QED
    BY <1>1, <2>1, <2>2, <2>3 DEF Live, Known
<1>2. CASE mem[f] # NoFeed
  BY <1>2 DEF Entry, TypeOK
<1> QED
  BY <1>1, <1>2

\* An entry whose refresh ended is an entry, serves exactly if the stored one
\* does, and knows what the refresh knew.
LEMMA CheckedEntryIsFeed ==
    ASSUME TypeOK, NEW f \in Feeds, NEW rows \in SUBSET Rows
    PROVE  /\ [Entry(f) EXCEPT !.due = FALSE] \in Feed
           /\ [Entry(f) EXCEPT !.known = rows, !.due = FALSE] \in Feed
           /\ [Entry(f) EXCEPT !.due = FALSE].channel = Entry(f).channel
           /\ [Entry(f) EXCEPT !.due = FALSE].known = Entry(f).known
           /\ [Entry(f) EXCEPT !.known = rows, !.due = FALSE].channel = Entry(f).channel
           /\ [Entry(f) EXCEPT !.known = rows, !.due = FALSE].known = rows
<1>1. Entry(f) \in Feed
  BY EntryIsFeed
<1> QED
  BY <1>1 DEF Feed

\* A fault is counted within its bound.
LEMMA FaultTypes ==
    ASSUME TypeOK, Fault
    PROVE  faults' \in 0..MaxFaults
BY NumbersAssumption DEF Fault, TypeOK

\* Update writes memory, and the file either follows or stays as it was.
LEMMA UpdateTypes ==
    ASSUME TypeOK, NEW feeds \in [Feeds -> Feed \union {NoFeed}], Update(feeds)
    PROVE  /\ mem' \in [Feeds -> Feed \union {NoFeed}]
           /\ disk' \in [Feeds -> Feed \union {NoFeed}]
           /\ faults' \in 0..MaxFaults
BY FaultTypes DEF Update, TypeOK

------------------------------------------------------------------------------
(* Types.                                                                  *)

Snapshots == UNION {[S -> LiveFeed] : S \in SUBSET Feeds}

\* The snapshot maps some of the feeds to their entries.
LEMMA SnapshotEntries ==
    ASSUME todo \in Snapshots
    PROVE  /\ DOMAIN todo \subseteq Feeds
           /\ \A f \in DOMAIN todo : todo[f] \in LiveFeed
           /\ \A f : Others(f) \in Snapshots
<1>1. PICK S \in SUBSET Feeds : todo \in [S -> LiveFeed]
  BY DEF Snapshots
<1>2. ASSUME NEW f
      PROVE  Others(f) \in Snapshots
  <2>1. Others(f) \in [S \ {f} -> LiveFeed]
    BY <1>1 DEF Others
  <2> QED
    BY <2>1 DEF Snapshots
<1> QED
  BY <1>1, <1>2

\* An empty snapshot.
LEMMA EmptySnapshot == [f \in {} |-> NoFeed] \in Snapshots
<1>1. [f \in {} |-> NoFeed] \in [{} -> LiveFeed]
  OBVIOUS
<1> QED
  BY <1>1 DEF Snapshots

LEMMA InitTypes == Init => TypeOK
<1> SUFFICES ASSUME Init PROVE TypeOK
  OBVIOUS
<1>1. mem \in [Feeds -> Feed \union {NoFeed}] /\ disk = mem
  BY DEF Init
<1>2. todo \in UNION {[S -> LiveFeed] : S \in SUBSET Feeds}
  BY EmptySnapshot DEF Init, Snapshots
<1>3. oldest \in [Feeds -> 1..MaxRows + 1] /\ newest \in [Feeds -> 0..MaxRows]
  BY NumbersAssumption DEF Init
<1>4. /\ told \in [Feeds -> SUBSET Rows]
      /\ accounted \in [Feeds -> SUBSET Rows]
      /\ cut \in [Feeds -> SUBSET Rows]
      /\ lost \in [Feeds -> SUBSET Rows]
  <2>1. told = [f \in Feeds |-> {}] /\ accounted = told /\ cut = told /\ lost = told
    BY DEF Init
  <2> QED
    BY <2>1
<1>5. /\ since \in [Feeds -> 0..MaxRows]
      /\ asked \in [Feeds -> Channels \union {NoChannel}]
      /\ command \in [Commands -> Baseline \union {NoCommand}]
  BY NumbersAssumption DEF Init
<1>6. commands \in 0..MaxCommands /\ faults \in 0..MaxFaults
  BY NumbersAssumption DEF Init
<1>7. pc = "idle" /\ job = NoJob /\ raced = {} /\ unsaved = {}
  BY DEF Init
<1> QED
  BY <1>1, <1>2, <1>3, <1>4, <1>5, <1>6, <1>7 DEF TypeOK

LEMMA LogTypes ==
    ASSUME TypeOK, NEW f \in Feeds, RowLogged(f) \/ RowLeavesWindow(f)
    PROVE  TypeOK'
<1>1. oldest' \in [Feeds -> 1..MaxRows + 1] /\ newest' \in [Feeds -> 0..MaxRows]
  BY NumbersAssumption DEF TypeOK, RowLogged, RowLeavesWindow
<1> QED
  BY <1>1 DEF TypeOK, RowLogged, RowLeavesWindow, loop, readers, orders

LEMMA SnapshotTypes ==
    ASSUME TypeOK, refreshDueLogFeeds
    PROVE  TypeOK'
<1>1. PICK chosen \in SUBSET {f \in Feeds : Due(f)} :
         todo' = [f \in chosen |-> mem[f]]
  BY DEF refreshDueLogFeeds
<1>2. \A f \in chosen : mem[f] \in LiveFeed
  BY <1>1 DEF Due, Live, LiveFeed, TypeOK
<1>3. todo' \in [chosen -> LiveFeed] /\ chosen \subseteq Feeds
  BY <1>1, <1>2
<1>4. todo' \in UNION {[S -> LiveFeed] : S \in SUBSET Feeds}
  BY <1>3
<1> QED
  BY <1>4 DEF TypeOK, refreshDueLogFeeds, window, readers, orders

LEMMA QueryFailsTypes ==
    ASSUME TypeOK, NEW f \in Feeds, QueryFails(f)
    PROVE  TypeOK'
<1>1. mem' \in [Feeds -> Feed \union {NoFeed}]
  BY CheckedEntryIsFeed DEF QueryFails, TypeOK
<1>2. disk' \in [Feeds -> Feed \union {NoFeed}] /\ faults' \in 0..MaxFaults
  BY <1>1, FaultTypes DEF QueryFails, TypeOK
<1>3. todo' \in UNION {[S -> LiveFeed] : S \in SUBSET Feeds}
  BY SnapshotEntries DEF QueryFails, TypeOK, Snapshots
<1> QED
  BY <1>1, <1>2, <1>3 DEF TypeOK, QueryFails, window, readers, orders

LEMMA QuerySucceedsTypes ==
    ASSUME TypeOK, NEW f \in Feeds, QuerySucceeds(f)
    PROVE  TypeOK'
<1>1. /\ f \in DOMAIN todo => todo[f] \in LiveFeed
      /\ todo' \in UNION {[S -> LiveFeed] : S \in SUBSET Feeds}
  BY SnapshotEntries DEF QuerySucceeds, TypeOK, Snapshots
<1>2. PICK rows \in queryLogFeedRows(f, todo[f].limit) :
         \E fresh \in FirstOf(f, todo[f].limit, rows \ todo[f].known) :
            /\ job' = [feed |-> f, channel |-> todo[f].channel,
                       known |-> todo[f].known \union fresh, fresh |-> fresh]
            /\ pc' = IF fresh = {} THEN "record" ELSE "send"
  BY DEF QuerySucceeds
<1>3. PICK fresh \in FirstOf(f, todo[f].limit, rows \ todo[f].known) :
         /\ job' = [feed |-> f, channel |-> todo[f].channel,
                    known |-> todo[f].known \union fresh, fresh |-> fresh]
         /\ pc' = IF fresh = {} THEN "record" ELSE "send"
  BY <1>2
<1>4. rows \subseteq Rows /\ fresh \subseteq Rows
  BY QueryReturnsRows DEF FirstOf
<1>5. f \in DOMAIN todo /\ todo[f].channel \in Channels /\ todo[f].known \subseteq Rows
  <2>1. f \in DOMAIN todo
    BY DEF QuerySucceeds
  <2> QED
    BY <2>1, <1>1 DEF LiveFeed, Live, Feed
<1>6. job' \in Job
  BY <1>3, <1>4, <1>5 DEF Job
<1>7. job' # NoJob /\ pc' \in {"send", "record"}
  BY <1>3, <1>6, SentinelsAssumption
<1> QED
  BY <1>1, <1>6, <1>7 DEF TypeOK, QuerySucceeds, window, readers, orders

\* What the readers see are rows.
LEMMA ShowTypes ==
    ASSUME TypeOK, NEW f \in Feeds, NEW rows \in SUBSET Rows, Show(f, rows),
           job.fresh \subseteq Rows
    PROVE  /\ told' \in [Feeds -> SUBSET Rows]
           /\ accounted' \in [Feeds -> SUBSET Rows]
           /\ cut' \in [Feeds -> SUBSET Rows]
BY DEF Show, TypeOK

LEMMA SendTypes ==
    ASSUME TypeOK, SendChannelMessage \/ SendFails
    PROVE  TypeOK'
<1>1. job \in Job /\ job # NoJob
  BY DEF SendChannelMessage, SendFails, TypeOK
<1>2. job.feed \in Feeds /\ job.fresh \subseteq Rows
  BY <1>1 DEF Job
<1>3. \A rows \in formatLogFeedMessage(job.feed, job.fresh) : rows \in SUBSET Rows
  BY <1>2 DEF FirstOf, formatLogFeedMessage
<1>4. CASE SendChannelMessage
  <2>1. /\ told' \in [Feeds -> SUBSET Rows]
        /\ accounted' \in [Feeds -> SUBSET Rows]
        /\ cut' \in [Feeds -> SUBSET Rows]
    BY <1>2, <1>3, <1>4, ShowTypes DEF SendChannelMessage
  <2> QED
    BY <1>1, <1>4, <2>1 DEF TypeOK, SendChannelMessage, window, orders
<1>5. CASE SendFails
  <2>1. /\ told' \in [Feeds -> SUBSET Rows]
        /\ accounted' \in [Feeds -> SUBSET Rows]
        /\ cut' \in [Feeds -> SUBSET Rows]
        /\ lost' \in [Feeds -> SUBSET Rows]
    <3>1. CASE UNCHANGED readers
      BY <3>1 DEF readers, TypeOK
    <3>2. CASE \E rows \in formatLogFeedMessage(job.feed, job.fresh) :
                 /\ Show(job.feed, rows)
                 /\ lost' = [lost EXCEPT ![job.feed] = @ \union rows]
      <4>1. PICK rows \in SUBSET Rows :
              /\ Show(job.feed, rows)
              /\ lost' = [lost EXCEPT ![job.feed] = @ \union rows]
        BY <1>3, <3>2
      <4> QED
        BY <1>2, <4>1, ShowTypes DEF TypeOK
    <3> QED
      BY <1>5, <3>1, <3>2 DEF SendFails
  <2>2. faults' \in 0..MaxFaults
    BY <1>5, FaultTypes DEF SendFails
  <2> QED
    BY <1>5, <2>1, <2>2 DEF TypeOK, SendFails, Finish, window, orders
<1> QED
  BY <1>4, <1>5

LEMMA RecordTypes ==
    ASSUME TypeOK, Record
    PROVE  TypeOK'
<1>1. job \in Job /\ job.feed \in Feeds /\ job.known \in SUBSET Rows
  <2>1. job \in Job
    BY DEF Record, TypeOK
  <2> QED
    BY <2>1 DEF Job
<1>2. [mem EXCEPT ![job.feed] =
         [Entry(job.feed) EXCEPT !.known = job.known, !.due = FALSE]]
      \in [Feeds -> Feed \union {NoFeed}]
  BY <1>1, CheckedEntryIsFeed DEF TypeOK
<1>3. /\ mem' \in [Feeds -> Feed \union {NoFeed}]
      /\ disk' \in [Feeds -> Feed \union {NoFeed}]
      /\ faults' \in 0..MaxFaults
  BY <1>2, UpdateTypes DEF Record
<1> QED
  BY <1>3 DEF TypeOK, Record, Finish, window, readers, orders

LEMMA IntervalTypes ==
    ASSUME TypeOK, NEW f \in Feeds, IntervalElapses(f)
    PROVE  TypeOK'
<1>1. ASSUME NEW feeds \in [Feeds -> Feed \union {NoFeed}]
      PROVE  IntervalElapsed(feeds, f) \in [Feeds -> Feed \union {NoFeed}]
  <2>1. CASE Live(feeds[f])
    <3>1. feeds[f] \in Feed
      BY <2>1 DEF Live
    <3>2. [feeds[f] EXCEPT !.due = TRUE] \in Feed
      BY <3>1 DEF Feed
    <3> QED
      BY <2>1, <3>2 DEF IntervalElapsed
  <2> QED
    BY <2>1 DEF IntervalElapsed
<1>2. /\ mem' \in [Feeds -> Feed \union {NoFeed}]
      /\ disk' \in [Feeds -> Feed \union {NoFeed}]
  BY <1>1 DEF IntervalElapses, TypeOK
<1> QED
  BY <1>2 DEF TypeOK, IntervalElapses, window, loop, readers, orders

\* The history of a feed that a command begins.
LEMMA OrderedTypes ==
    ASSUME TypeOK, NEW f \in Feeds, NEW c \in Channels \union {NoChannel},
           NEW n \in 0..MaxRows, Ordered(f, c, n)
    PROVE  /\ asked' \in [Feeds -> Channels \union {NoChannel}]
           /\ since' \in [Feeds -> 0..MaxRows]
           /\ told' \in [Feeds -> SUBSET Rows]
           /\ lost' \in [Feeds -> SUBSET Rows]
           /\ raced' \subseteq Feeds
           /\ unsaved' \subseteq Feeds
BY DEF Ordered, TypeOK

LEMMA WatchQueriesTypes ==
    ASSUME TypeOK, NEW w \in Commands, NEW f \in Feeds, NEW c \in Channels,
           NEW n \in Limits, WatchQueries(w, f, c, n)
    PROVE  TypeOK'
<1>1. PICK rows \in queryLogFeedRows(f, n) :
         command' = [command EXCEPT ![w] =
             [feed |-> f, channel |-> c, limit |-> n, rows |-> rows,
              upto |-> newest[f]]]
  BY DEF WatchQueries
<1>2. rows \subseteq Rows /\ newest[f] \in 0..MaxRows
  BY QueryReturnsRows DEF TypeOK
<1>3. [feed |-> f, channel |-> c, limit |-> n, rows |-> rows,
       upto |-> newest[f]] \in Baseline
  BY <1>2 DEF Baseline
<1>4. command' \in [Commands -> Baseline \union {NoCommand}]
  BY <1>1, <1>3 DEF TypeOK
<1>5. commands' \in 0..MaxCommands
  BY NumbersAssumption DEF WatchQueries, TypeOK
<1> QED
  BY <1>4, <1>5 DEF TypeOK, WatchQueries, window, loop, readers, orders

LEMMA WatchStoresTypes ==
    ASSUME TypeOK, NEW w \in Commands, WatchStores(w)
    PROVE  TypeOK'
<1> DEFINE b == command[w]
           feed == [channel |-> b.channel, limit |-> b.limit, known |-> b.rows,
                    due |-> FALSE]
<1>1. b \in Baseline
  BY DEF WatchStores, TypeOK
<1>2. /\ b.feed \in Feeds /\ b.channel \in Channels /\ b.limit \in Limits
      /\ b.rows \in SUBSET Rows /\ b.upto \in 0..MaxRows
  BY <1>1 DEF Baseline
<1>3. feed \in Feed
  BY <1>2 DEF Feed
<1>4. [mem EXCEPT ![b.feed] = feed] \in [Feeds -> Feed \union {NoFeed}]
  BY <1>2, <1>3 DEF TypeOK
<1>5. /\ Update([mem EXCEPT ![b.feed] = feed])
      /\ Ordered(b.feed, b.channel, b.upto)
      /\ accounted' = [accounted EXCEPT ![b.feed] = @ \union b.rows]
      /\ command' = [command EXCEPT ![w] = NoCommand]
      /\ UNCHANGED <<window, loop, cut, commands>>
  BY DEF WatchStores
<1>6. /\ mem' \in [Feeds -> Feed \union {NoFeed}]
      /\ disk' \in [Feeds -> Feed \union {NoFeed}]
      /\ faults' \in 0..MaxFaults
  BY <1>4, <1>5, UpdateTypes
<1>7. /\ asked' \in [Feeds -> Channels \union {NoChannel}]
      /\ since' \in [Feeds -> 0..MaxRows]
      /\ told' \in [Feeds -> SUBSET Rows]
      /\ lost' \in [Feeds -> SUBSET Rows]
      /\ raced' \subseteq Feeds
      /\ unsaved' \subseteq Feeds
  BY <1>2, <1>5, OrderedTypes
<1>8. /\ accounted' \in [Feeds -> SUBSET Rows]
      /\ command' \in [Commands -> Baseline \union {NoCommand}]
  BY <1>2, <1>5 DEF TypeOK
<1> QED
  BY <1>5, <1>6, <1>7, <1>8 DEF TypeOK, window, loop

LEMMA UnwatchTypes ==
    ASSUME TypeOK, NEW f \in Feeds, UnwatchLogFeed(f)
    PROVE  TypeOK'
<1>1. [mem EXCEPT ![f] = NoFeed] \in [Feeds -> Feed \union {NoFeed}]
  BY DEF TypeOK
<1>2. /\ mem' \in [Feeds -> Feed \union {NoFeed}]
      /\ disk' \in [Feeds -> Feed \union {NoFeed}]
      /\ faults' \in 0..MaxFaults
  BY <1>1, UpdateTypes DEF UnwatchLogFeed
<1>3. newest[f] \in 0..MaxRows
  BY DEF TypeOK
<1>4. /\ asked' \in [Feeds -> Channels \union {NoChannel}]
      /\ since' \in [Feeds -> 0..MaxRows]
      /\ told' \in [Feeds -> SUBSET Rows]
      /\ lost' \in [Feeds -> SUBSET Rows]
      /\ raced' \subseteq Feeds
      /\ unsaved' \subseteq Feeds
  BY <1>3, OrderedTypes DEF UnwatchLogFeed
<1>5. commands' \in 0..MaxCommands
  BY NumbersAssumption DEF UnwatchLogFeed, TypeOK
<1> QED
  BY <1>2, <1>4, <1>5 DEF TypeOK, UnwatchLogFeed, window, loop

LEMMA RestartTypes ==
    ASSUME TypeOK, Restart
    PROVE  TypeOK'
<1>1. todo' \in UNION {[S -> LiveFeed] : S \in SUBSET Feeds}
  BY EmptySnapshot DEF Restart, Snapshots
<1>2. lost' \in [Feeds -> SUBSET Rows]
  BY DEF Restart, TypeOK
<1>3. command' \in [Commands -> Baseline \union {NoCommand}]
  BY DEF Restart
<1>4. faults' \in 0..MaxFaults
  BY FaultTypes DEF Restart
<1> QED
  BY <1>1, <1>2, <1>3, <1>4 DEF TypeOK, Restart, window, orders

\* Every variable keeps its type (LogFeed entries, the snapshot of
\* refreshDueLogFeeds, the locals of refreshLogFeed and WatchLogFeed).
THEOREM TypeCorrect == Spec => []TypeOK
<1>1. TypeOK /\ [Next]_vars => TypeOK'
  <2> SUFFICES ASSUME TypeOK, [Next]_vars PROVE TypeOK'
    OBVIOUS
  <2>1. CASE LoopStep
    BY <2>1, SnapshotTypes, QueryFailsTypes, QuerySucceedsTypes, SendTypes,
       RecordTypes DEF LoopStep
  <2>2. CASE CommandStep
    BY <2>2, WatchQueriesTypes, WatchStoresTypes, UnwatchTypes DEF CommandStep
  <2>3. CASE \E f \in Feeds : RowLogged(f) \/ RowLeavesWindow(f) \/ IntervalElapses(f)
    BY <2>3, LogTypes, IntervalTypes
  <2>4. CASE Restart
    BY <2>4, RestartTypes
  <2>5. CASE UNCHANGED vars
    BY <2>5 DEF TypeOK, vars, window, loop, readers, orders
  <2> QED
    BY <2>1, <2>2, <2>3, <2>4, <2>5 DEF Next
<1> QED
  BY <1>1, InitTypes, PTL DEF Spec

------------------------------------------------------------------------------
(* The feeds that are served are those asked for.                          *)

\* An entry serves what was asked for.
Serves(feed, f) ==
    /\ Live(feed) <=> asked[f] # NoChannel
    /\ Live(feed) => feed.channel = asked[f]

Served ==
    \A f \in Feeds \ unsaved : Serves(mem[f], f) /\ Serves(disk[f], f)

\* A refresh that ends changes neither whether nor where its feed is served,
\* in memory and in a file that is written then.
LEMMA RefreshKeepsServed ==
    ASSUME TypeOK, Served, NEW f \in Feeds, NEW feed \in Feed,
           feed.channel = Entry(f).channel,
           mem' = [mem EXCEPT ![f] = feed], disk' \in {disk, mem'},
           UNCHANGED orders
    PROVE  Served'
<1>1. feed # NoFeed /\ Entry(f) # NoFeed
  BY EntryIsFeed, SentinelsAssumption
<1>2. (Live(feed) <=> Live(mem[f])) /\ (Live(feed) => feed.channel = mem[f].channel)
  BY <1>1, EntryIsFeed DEF Live
<1>3. asked' = asked /\ unsaved' = unsaved
  BY DEF orders
<1>4. \A g \in Feeds \ unsaved : mem'[g] = (IF g = f THEN feed ELSE mem[g])
  BY DEF TypeOK
<1>5. \A g \in Feeds \ unsaved : Serves(mem'[g], g)
  BY <1>2, <1>4 DEF Served, Serves
<1>6. \A g \in Feeds \ unsaved : Serves(disk'[g], g)
  BY <1>5 DEF Served
<1> QED
  BY <1>3, <1>5, <1>6 DEF Served, Serves

\* A command sets what is asked for together with the entry; unless the file is
\* written, the feed counts as not saved.
LEMMA CommandKeepsServed ==
    ASSUME TypeOK, Served, NEW f \in Feeds, NEW feed \in Feed \union {NoFeed},
           NEW c, NEW n, Update([mem EXCEPT ![f] = feed]), Ordered(f, c, n),
           Live(feed) <=> c # NoChannel, Live(feed) => feed.channel = c
    PROVE  Served'
<1>1. asked' = [asked EXCEPT ![f] = c]
  BY DEF Ordered
<1>2. mem' = [mem EXCEPT ![f] = feed]
  BY DEF Update
<1>3. ASSUME NEW g \in Feeds \ unsaved', g # f
      PROVE  Serves(mem[g], g)' /\ Serves(disk[g], g)'
  <2>1. g \notin unsaved
    BY <1>3 DEF Ordered
  <2>2. Serves(mem[g], g) /\ Serves(disk[g], g) /\ asked'[g] = asked[g]
    BY <1>1, <1>3, <2>1 DEF Served, TypeOK
  <2>3. mem'[g] = mem[g] /\ disk'[g] \in {mem[g], disk[g]}
    BY <1>2, <1>3 DEF Update, TypeOK
  <2> QED
    BY <2>2, <2>3 DEF Serves
<1>4. ASSUME f \notin unsaved'
      PROVE  Serves(mem[f], f)' /\ Serves(disk[f], f)'
  <2>1. disk' = mem'
    BY <1>4 DEF Ordered
  <2>2. mem'[f] = feed /\ asked'[f] = c
    BY <1>1, <1>2 DEF TypeOK
  <2> QED
    BY <2>1, <2>2 DEF Serves
<1> QED
  BY <1>3, <1>4 DEF Served

LEMMA ServedStep == TypeOK /\ Served /\ [Next]_vars => Served'
<1> SUFFICES ASSUME TypeOK, Served, [Next]_vars PROVE Served'
  OBVIOUS
<1>1. ASSUME UNCHANGED <<mem, disk, orders>> PROVE Served'
  BY <1>1 DEF Served, Serves, orders
<1>2. CASE refreshDueLogFeeds
  BY <1>1, <1>2 DEF refreshDueLogFeeds
<1>3. ASSUME NEW f \in Feeds, QueryFails(f) PROVE Served'
  <2>1. [Entry(f) EXCEPT !.due = FALSE] \in Feed
    BY CheckedEntryIsFeed
  <2>2. [Entry(f) EXCEPT !.due = FALSE].channel = Entry(f).channel
    BY CheckedEntryIsFeed
  <2> QED
    BY <1>3, <2>1, <2>2, RefreshKeepsServed DEF QueryFails
<1>4. ASSUME NEW f \in Feeds, QuerySucceeds(f) PROVE Served'
  BY <1>1, <1>4 DEF QuerySucceeds
<1>5. CASE SendChannelMessage \/ SendFails
  BY <1>1, <1>5 DEF SendChannelMessage, SendFails
<1>6. CASE Record
  <2> DEFINE feed == [Entry(job.feed) EXCEPT !.known = job.known, !.due = FALSE]
  <2>1. job \in Job
    BY <1>6 DEF Record, TypeOK
  <2>2. job.feed \in Feeds /\ job.known \in SUBSET Rows
    BY <2>1 DEF Job
  <2>3. feed \in Feed /\ feed.channel = Entry(job.feed).channel
    BY <2>2, CheckedEntryIsFeed
  <2>4. mem' = [mem EXCEPT ![job.feed] = feed] /\ disk' \in {disk, mem'}
    BY <1>6 DEF Record, Update
  <2> HIDE DEF feed
  <2> QED
    BY <1>6, <2>2, <2>3, <2>4, RefreshKeepsServed DEF Record
<1>7. ASSUME NEW f \in Feeds, RowLogged(f) \/ RowLeavesWindow(f) PROVE Served'
  BY <1>1, <1>7 DEF RowLogged, RowLeavesWindow
<1>8. ASSUME NEW f \in Feeds, IntervalElapses(f) PROVE Served'
  <2>1. ASSUME NEW feeds \in [Feeds -> Feed \union {NoFeed}], NEW g \in Feeds
        PROVE  /\ Live(IntervalElapsed(feeds, f)[g]) <=> Live(feeds[g])
               /\ Live(feeds[g]) =>
                    IntervalElapsed(feeds, f)[g].channel = feeds[g].channel
    <3>1. CASE Live(feeds[f]) /\ g = f
      <4>1. feeds[f] \in Feed
        BY <3>1 DEF Live
      <4>2. [feeds[f] EXCEPT !.due = TRUE] \in Feed
        BY <4>1 DEF Feed
      <4>3. [feeds[f] EXCEPT !.due = TRUE].channel = feeds[f].channel
        BY <4>1 DEF Feed
      <4>4. IntervalElapsed(feeds, f)[f] = [feeds[f] EXCEPT !.due = TRUE]
        BY <3>1 DEF IntervalElapsed
      <4> QED
        BY <3>1, <4>2, <4>3, <4>4, SentinelsAssumption DEF Live
    <3>2. CASE ~(Live(feeds[f]) /\ g = f)
      BY <3>2 DEF IntervalElapsed
    <3> QED
      BY <3>1, <3>2
  <2>2. \A g \in Feeds :
           /\ Live(mem'[g]) <=> Live(mem[g])
           /\ Live(mem[g]) => mem'[g].channel = mem[g].channel
           /\ Live(disk'[g]) <=> Live(disk[g])
           /\ Live(disk[g]) => disk'[g].channel = disk[g].channel
    BY <1>8, <2>1 DEF IntervalElapses, TypeOK
  <2>3. asked' = asked /\ unsaved' = unsaved
    BY <1>8 DEF IntervalElapses, orders
  <2> QED
    BY <2>2, <2>3 DEF Served, Serves
<1>9. ASSUME NEW w \in Commands, NEW f \in Feeds, NEW c \in Channels, NEW n \in Limits,
             WatchQueries(w, f, c, n)
      PROVE  Served'
  BY <1>1, <1>9 DEF WatchQueries
<1>10. ASSUME NEW w \in Commands, WatchStores(w) PROVE Served'
  <2> DEFINE b == command[w]
             feed == [channel |-> b.channel, limit |-> b.limit,
                      known |-> b.rows, due |-> FALSE]
  <2>1. b \in Baseline
    BY <1>10 DEF WatchStores, TypeOK
  <2>2. /\ b.feed \in Feeds /\ b.channel \in Channels
        /\ b.limit \in Limits /\ b.rows \in SUBSET Rows
    BY <2>1 DEF Baseline
  <2>3. feed \in Feed /\ feed.channel = b.channel
    BY <2>2 DEF Feed
  <2>4. Live(feed) /\ b.channel # NoChannel
    BY <2>2, <2>3, NamesAssumption, SentinelsAssumption DEF Live
  <2>5. Update([mem EXCEPT ![b.feed] = feed]) /\ Ordered(b.feed, b.channel, b.upto)
    BY <1>10 DEF WatchStores
  <2> HIDE DEF feed, b
  <2> QED
    BY <2>2, <2>3, <2>4, <2>5, CommandKeepsServed
<1>11. ASSUME NEW f \in Feeds, UnwatchLogFeed(f) PROVE Served'
  <2>1. ~Live(NoFeed)
    BY DEF Live
  <2> QED
    BY <1>11, <2>1, CommandKeepsServed DEF UnwatchLogFeed
<1>12. CASE Restart
  BY <1>12 DEF Restart, Served, Serves, orders
<1>13. CASE UNCHANGED vars
  BY <1>1, <1>13 DEF vars
<1> QED
  BY <1>2, <1>3, <1>4, <1>5, <1>6, <1>7, <1>8, <1>9, <1>10, <1>11, <1>12, <1>13
  DEF Next, LoopStep, CommandStep

\* A feed is served exactly if the last command asked for it, and in the channel
\* it asked for, whatever refreshes the command raced with: refreshLogFeed keeps
\* the channel it finds, and leaves none where it finds no entry.
THEOREM ServedIsAsked == Spec => []ServedAsAsked
<1>1. Init => Served
  <2> SUFFICES ASSUME Init PROVE Served
    OBVIOUS
  <2>1. \A f \in Feeds : mem[f] = NoFeed /\ disk[f] = NoFeed /\ asked[f] = NoChannel
    BY DEF Init
  <2> QED
    BY <2>1 DEF Served, Serves, Live
<1>2. Served => ServedAsAsked
  BY DEF Served, Serves, ServedAsAsked
<1> QED
  BY <1>1, <1>2, ServedStep, TypeCorrect, PTL DEF Spec

------------------------------------------------------------------------------
(* No row is swallowed but by a message that was posted.                   *)

\* The rows that may count as known.
Credited == [f \in Feeds |-> accounted[f] \union cut[f]]

Accounted ==
    /\ \A f \in Feeds : /\ Known(mem[f]) \subseteq Credited[f]
                        /\ Known(disk[f]) \subseteq Credited[f]
    /\ \A f \in DOMAIN todo : todo[f].known \subseteq Credited[f]
    /\ pc = "send" => job.known \subseteq Credited[job.feed] \union job.fresh
    /\ pc = "record" => job.known \subseteq Credited[job.feed]

\* Rows stay credited; what only reads or forgets keeps the invariant.
LEMMA KeepsAccounted ==
    ASSUME TypeOK, Accounted,
           \A f \in Feeds : Credited[f] \subseteq Credited'[f],
           \A f \in Feeds : /\ Known(mem'[f]) \subseteq Credited'[f]
                            /\ Known(disk'[f]) \subseteq Credited'[f],
           \A f \in DOMAIN todo' : f \in DOMAIN todo /\ todo'[f] = todo[f],
           pc' = "idle" \/ UNCHANGED <<pc, job>>
    PROVE  Accounted'
<1>1. DOMAIN todo \subseteq Feeds
  BY SnapshotEntries DEF TypeOK, Snapshots
<1>2. \A f \in DOMAIN todo' : todo'[f].known \subseteq Credited'[f]
  BY <1>1 DEF Accounted
<1>3. CASE pc' = "idle"
  BY <1>2, <1>3 DEF Accounted
<1>4. CASE UNCHANGED <<pc, job>> /\ pc # "idle"
  <2>1. job \in Job
    BY <1>4 DEF TypeOK
  <2>2. job.feed \in Feeds
    BY <2>1 DEF Job
  <2>3. Credited[job.feed] \subseteq Credited'[job.feed]
    BY <2>2
  <2> QED
    BY <1>2, <1>4, <2>3 DEF Accounted
<1> QED
  BY <1>3, <1>4

\* A refresh that ends stores rows that are credited.
LEMMA StoredRows ==
    ASSUME TypeOK, Accounted, NEW f \in Feeds, NEW feed,
           Known(feed) \subseteq Credited'[f],
           \A g \in Feeds : Credited[g] \subseteq Credited'[g],
           mem' = [mem EXCEPT ![f] = feed], disk' \in {disk, mem'}
    PROVE  \A g \in Feeds : /\ Known(mem'[g]) \subseteq Credited'[g]
                           /\ Known(disk'[g]) \subseteq Credited'[g]
<1>1. \A g \in Feeds : mem'[g] = IF g = f THEN feed ELSE mem[g]
  BY DEF TypeOK
<1>2. \A g \in Feeds : Known(mem'[g]) \subseteq Credited'[g]
  BY <1>1 DEF Accounted
<1> QED
  BY <1>2 DEF Accounted

\* The query that succeeds.
LEMMA QueryAccounted ==
    ASSUME TypeOK, Accounted, NEW f \in Feeds, QuerySucceeds(f)
    PROVE  Accounted'
<1>1. /\ f \in DOMAIN todo
      /\ todo[f] \in LiveFeed
  BY SnapshotEntries DEF QuerySucceeds, TypeOK, Snapshots
<1>2. todo[f].known \subseteq Credited[f]
  BY <1>1 DEF Accounted
<1>3. PICK rows \in queryLogFeedRows(f, todo[f].limit) :
         \E fresh \in FirstOf(f, todo[f].limit, rows \ todo[f].known) :
            /\ job' = [feed |-> f, channel |-> todo[f].channel,
                       known |-> todo[f].known \union fresh, fresh |-> fresh]
            /\ pc' = IF fresh = {} THEN "record" ELSE "send"
  BY DEF QuerySucceeds
<1>4. PICK fresh \in FirstOf(f, todo[f].limit, rows \ todo[f].known) :
         /\ job' = [feed |-> f, channel |-> todo[f].channel,
                    known |-> todo[f].known \union fresh, fresh |-> fresh]
         /\ pc' = IF fresh = {} THEN "record" ELSE "send"
  BY <1>3
<1>5. /\ todo' = Others(f) /\ UNCHANGED <<mem, disk>>
      /\ UNCHANGED Credited
  BY DEF QuerySucceeds, readers, Credited
<1>6. \A g \in DOMAIN todo' : g \in DOMAIN todo /\ todo'[g] = todo[g]
  BY <1>5 DEF Others
<1>7. /\ job'.feed = f /\ job'.fresh = fresh
      /\ job'.known = todo[f].known \union fresh
  BY <1>4
<1>8. /\ pc' = "send" => job'.known \subseteq Credited'[job'.feed] \union job'.fresh
      /\ pc' = "record" => job'.known \subseteq Credited'[job'.feed]
  BY <1>2, <1>4, <1>5, <1>7
<1> QED
  BY <1>5, <1>6, <1>8 DEF Accounted

\* The call that posts: what the message does not show, it cuts off.
LEMMA SendAccounted ==
    ASSUME TypeOK, Accounted, SendChannelMessage \/ SendFails
    PROVE  Accounted'
<1>1. job \in Job /\ pc = "send"
  BY DEF SendChannelMessage, SendFails, TypeOK
<1>2. job.feed \in Feeds /\ job.fresh \in SUBSET Rows
  BY <1>1 DEF Job
<1>3. \A rows : Show(job.feed, rows) =>
         /\ \A f \in Feeds : Credited[f] \subseteq Credited'[f]
         /\ job.fresh \subseteq Credited'[job.feed]
  BY <1>2 DEF Show, TypeOK, Credited
<1>4. CASE SendChannelMessage
  <2>1. PICK rows : Show(job.feed, rows)
    BY <1>4 DEF SendChannelMessage
  <2>2. job.known \subseteq Credited'[job.feed]
    BY <1>1, <1>2, <1>3, <2>1 DEF Accounted
  <2>3. /\ pc' = "record" /\ UNCHANGED <<mem, disk, todo, job>>
        /\ \A f \in Feeds : Credited[f] \subseteq Credited'[f]
    BY <1>3, <1>4, <2>1 DEF SendChannelMessage
  <2>4. DOMAIN todo \subseteq Feeds
    BY SnapshotEntries DEF TypeOK, Snapshots
  <2> QED
    BY <2>2, <2>3, <2>4 DEF Accounted
<1>5. CASE SendFails
  <2>1. \A f \in Feeds : Credited[f] \subseteq Credited'[f]
    BY <1>3, <1>5 DEF SendFails, readers, Credited
  <2>2. pc' = "idle" /\ UNCHANGED <<mem, disk, todo>>
    BY <1>5 DEF SendFails, Finish
  <2>3. \A f \in Feeds : /\ Known(mem'[f]) \subseteq Credited'[f]
                        /\ Known(disk'[f]) \subseteq Credited'[f]
    BY <2>1, <2>2 DEF Accounted
  <2> QED
    BY <2>1, <2>2, <2>3, KeepsAccounted
<1> QED
  BY <1>4, <1>5

\* The end of a refresh, with or without rows.
LEMMA RefreshAccounted ==
    ASSUME TypeOK, Accounted, Record \/ \E f \in Feeds : QueryFails(f)
    PROVE  Accounted'
<1>1. Credited' = Credited
  BY DEF Record, QueryFails, readers, Credited
<1>2. CASE Record
  <2> DEFINE feed == [Entry(job.feed) EXCEPT !.known = job.known, !.due = FALSE]
  <2>1. job \in Job
    BY <1>2 DEF Record, TypeOK
  <2>2. job.feed \in Feeds /\ job.known \in SUBSET Rows
    BY <2>1 DEF Job
  <2>3. feed \in Feed /\ feed.known = job.known
    BY <2>2, CheckedEntryIsFeed
  <2>4. /\ mem' = [mem EXCEPT ![job.feed] = feed] /\ disk' \in {disk, mem'}
        /\ pc = "record" /\ pc' = "idle" /\ todo' = todo
    BY <1>2 DEF Record, Update, Finish
  <2> HIDE DEF feed
  <2>5. Known(feed) \subseteq Credited'[job.feed]
    BY <1>1, <2>3, <2>4 DEF Accounted, Known
  <2>6. \A g \in Feeds : /\ Known(mem'[g]) \subseteq Credited'[g]
                        /\ Known(disk'[g]) \subseteq Credited'[g]
    BY <1>1, <2>2, <2>4, <2>5, StoredRows
  <2> QED
    BY <1>1, <2>4, <2>6, KeepsAccounted
<1>3. ASSUME NEW f \in Feeds, QueryFails(f) PROVE Accounted'
  <2> DEFINE feed == [Entry(f) EXCEPT !.due = FALSE]
  <2>1. feed \in Feed /\ feed.known = Entry(f).known
    BY CheckedEntryIsFeed
  <2>2. /\ mem' = [mem EXCEPT ![f] = feed] /\ disk' \in {disk, mem'}
        /\ UNCHANGED <<pc, job>> /\ todo' = Others(f)
    BY <1>3 DEF QueryFails
  <2> HIDE DEF feed
  <2>3. Known(feed) = Known(mem[f])
    BY <2>1, EntryIsFeed, SentinelsAssumption DEF Known
  <2>4. \A g \in Feeds : /\ Known(mem'[g]) \subseteq Credited'[g]
                        /\ Known(disk'[g]) \subseteq Credited'[g]
    <3>1. Known(feed) \subseteq Credited'[f]
      BY <1>1, <2>3 DEF Accounted
    <3> QED
      BY <1>1, <2>2, <3>1, StoredRows
  <2>5. \A g \in DOMAIN todo' : g \in DOMAIN todo /\ todo'[g] = todo[g]
    BY <2>2 DEF Others
  <2> QED
    BY <1>1, <2>2, <2>4, <2>5, KeepsAccounted
<1> QED
  BY <1>2, <1>3

\* The commands: a watch accounts for its baseline.
LEMMA CommandAccounted ==
    ASSUME TypeOK, Accounted, CommandStep
    PROVE  Accounted'
<1>1. ASSUME NEW w \in Commands, NEW f \in Feeds, NEW c \in Channels, NEW n \in Limits,
             WatchQueries(w, f, c, n)
      PROVE  Accounted'
  BY <1>1 DEF WatchQueries, Accounted, loop, readers, Credited
<1>2. ASSUME NEW w \in Commands, WatchStores(w) PROVE Accounted'
  <2> DEFINE b == command[w]
             feed == [channel |-> b.channel, limit |-> b.limit,
                      known |-> b.rows, due |-> FALSE]
  <2>1. b \in Baseline
    BY <1>2 DEF WatchStores, TypeOK
  <2>2. b.feed \in Feeds
    BY <2>1 DEF Baseline
  <2>3. feed.known = b.rows
    OBVIOUS
  <2>4. /\ mem' = [mem EXCEPT ![b.feed] = feed] /\ disk' \in {disk, mem'}
        /\ accounted' = [accounted EXCEPT ![b.feed] = @ \union b.rows] /\ cut' = cut
        /\ UNCHANGED <<pc, todo, job>>
    BY <1>2 DEF WatchStores, Update, loop
  <2> HIDE DEF feed, b
  <2>5. /\ \A f \in Feeds : Credited[f] \subseteq Credited'[f]
        /\ b.rows \subseteq Credited'[b.feed]
    BY <2>2, <2>4 DEF TypeOK, Credited
  <2>6. Known(feed) \subseteq Credited'[b.feed]
    BY <2>3, <2>5 DEF Known
  <2>7. \A g \in Feeds : /\ Known(mem'[g]) \subseteq Credited'[g]
                        /\ Known(disk'[g]) \subseteq Credited'[g]
    BY <2>2, <2>4, <2>5, <2>6, StoredRows
  <2> QED
    BY <2>4, <2>5, <2>7, KeepsAccounted
<1>3. ASSUME NEW f \in Feeds, UnwatchLogFeed(f) PROVE Accounted'
  <2>1. /\ mem' = [mem EXCEPT ![f] = NoFeed] /\ disk' \in {disk, mem'}
        /\ UNCHANGED <<pc, todo, job, Credited>>
    BY <1>3 DEF UnwatchLogFeed, Update, loop, Credited
  <2>2. Known(NoFeed) \subseteq Credited'[f]
    BY DEF Known
  <2>3. \A g \in Feeds : /\ Known(mem'[g]) \subseteq Credited'[g]
                        /\ Known(disk'[g]) \subseteq Credited'[g]
    BY <2>1, <2>2, StoredRows
  <2> QED
    BY <2>1, <2>3, KeepsAccounted
<1> QED
  BY <1>1, <1>2, <1>3 DEF CommandStep

LEMMA AccountedStep ==
    TypeOK /\ Accounted /\ [Next]_vars => Accounted'
<1> SUFFICES ASSUME TypeOK, Accounted, [Next]_vars PROVE Accounted'
  OBVIOUS
<1>1. ASSUME refreshDueLogFeeds PROVE Accounted'
  <2>1. PICK chosen \in SUBSET {f \in Feeds : Due(f)} :
           todo' = [f \in chosen |-> mem[f]]
    BY <1>1 DEF refreshDueLogFeeds
  <2>2. \A f \in chosen : mem[f].known \subseteq Credited[f]
    BY <2>1 DEF Due, Live, Accounted, Known
  <2> QED
    BY <1>1, <2>1, <2>2 DEF refreshDueLogFeeds, Accounted, readers, Credited
<1>2. CASE \E f \in Feeds : RowLogged(f) \/ RowLeavesWindow(f)
  BY <1>2 DEF RowLogged, RowLeavesWindow, Accounted, loop, readers, Credited
<1>3. ASSUME NEW f \in Feeds, IntervalElapses(f) PROVE Accounted'
  <2>1. ASSUME NEW feeds \in [Feeds -> Feed \union {NoFeed}], NEW g \in Feeds
        PROVE  Known(IntervalElapsed(feeds, f)[g]) = Known(feeds[g])
    <3>1. CASE Live(feeds[f]) /\ g = f
      <4>1. feeds[f] \in Feed
        BY <3>1 DEF Live
      <4>2. /\ [feeds[f] EXCEPT !.due = TRUE] \in Feed
            /\ [feeds[f] EXCEPT !.due = TRUE].known = feeds[f].known
        BY <4>1 DEF Feed
      <4>3. IntervalElapsed(feeds, f)[f] = [feeds[f] EXCEPT !.due = TRUE]
        BY <3>1 DEF IntervalElapsed
      <4> QED
        BY <3>1, <4>1, <4>2, <4>3, SentinelsAssumption DEF Known
    <3>2. CASE ~(Live(feeds[f]) /\ g = f)
      BY <3>2 DEF IntervalElapsed
    <3> QED
      BY <3>1, <3>2
  <2>2. \A g \in Feeds : Known(mem'[g]) = Known(mem[g]) /\ Known(disk'[g]) = Known(disk[g])
    BY <1>3, <2>1 DEF IntervalElapses, TypeOK
  <2>3. UNCHANGED <<pc, todo, job, Credited>>
    BY <1>3 DEF IntervalElapses, loop, readers, Credited
  <2> QED
    BY <2>2, <2>3 DEF Accounted
<1>4. CASE Restart
  BY <1>4 DEF Restart, Accounted, Credited
<1>5. CASE UNCHANGED vars
  BY <1>5 DEF vars, loop, readers, Accounted, Credited
<1>6. CASE LoopStep
  BY <1>1, <1>6, QueryAccounted, SendAccounted, RefreshAccounted DEF LoopStep
<1> QED
  BY <1>2, <1>3, <1>4, <1>5, <1>6, CommandAccounted DEF Next

\* A row that the bot will never post belongs to a baseline, was shown, or was cut
\* off a message that was posted: neither failed queries, sends and saves, nor
\* limits, restarts or racing commands swallow a row (refreshLogFeed).
THEOREM NothingIsSwallowed == Spec => []NothingSwallowed
<1>1. Init => Accounted
  <2> SUFFICES ASSUME Init PROVE Accounted
    OBVIOUS
  <2>1. \A f \in Feeds : mem[f] = NoFeed /\ disk[f] = NoFeed
    BY DEF Init
  <2>2. DOMAIN todo = {} /\ pc = "idle"
    BY DEF Init
  <2> QED
    BY <2>1, <2>2 DEF Accounted, Known
<1>2. Accounted => NothingSwallowed
  BY DEF Accounted, NothingSwallowed, Credited
<1>3. TypeOK /\ Accounted /\ [Next]_vars => Accounted'
  BY AccountedStep
<1> QED
  BY <1>1, <1>2, <1>3, TypeCorrect, PTL DEF Spec

------------------------------------------------------------------------------
(* A row is shown once, and only if it is new.                             *)

\* The rows that were shown and whose record cannot be behind.
ShownRows(f) == told[f] \ lost[f]

\* What was shown is known: to the entry, or to the refresh that is about to store
\* it; and to the snapshot and the refresh that look for fresh rows.
Remembered ==
    /\ pc # "idle" => job.feed \notin DOMAIN todo
    /\ pc = "send" => job.fresh \subseteq job.known
    /\ \A f \in Feeds \ raced :
           /\ ShownRows(f) \subseteq Known(mem[f]) \/ (pc = "record" /\ job.feed = f)
           /\ f \in DOMAIN todo => ShownRows(f) \subseteq todo[f].known
           /\ pc # "idle" /\ job.feed = f => ShownRows(f) \subseteq job.known
           /\ pc = "send" /\ job.feed = f => ShownRows(f) \intersect job.fresh = {}

\* The old rows that a query of f with this limit can find are known: a row is, or
\* newer old rows that are known fill the query.
Covers(f, limit, known, old) ==
    \A r \in old :
        \/ r \in known
        \/ /\ f \notin OwnLimit
           /\ \E newer \in SUBSET (known \intersect old) :
                  Cardinality(newer) = limit /\ \A s \in newer : r < s

EntryCovers(f, feed) ==
    Live(feed) => Covers(f, feed.limit, feed.known, oldest[f]..since[f])

\* What a watch command is about to store.
CommandCovers(b) ==
    /\ b.upto <= newest[b.feed]
    /\ b.feed \notin ByLatency =>
           Covers(b.feed, b.limit, b.rows, oldest[b.feed]..b.upto)

\* Watches that are stored and that no refresh raced with.
Steady == Feeds \ (ByLatency \union raced \union unsaved)

FeedCovers(f) ==
    /\ EntryCovers(f, mem[f]) /\ EntryCovers(f, disk[f])
    /\ f \in DOMAIN todo =>
           EntryCovers(f, todo[f]) /\ Known(mem[f]) \subseteq todo[f].known
    /\ pc # "idle" /\ job.feed = f => Known(mem[f]) \subseteq job.known
    /\ pc = "send" /\ job.feed = f => \A r \in job.fresh : r > since[f]

\* The entries of a watch keep knowing its baseline.
BaselineKept ==
    /\ \A f \in Feeds : since[f] <= newest[f]
    /\ \A w \in Commands : command[w] # NoCommand => CommandCovers(command[w])
    /\ \A f \in Steady : FeedCovers(f)

\* The interval that elapses changes nothing else of an entry.
LEMMA IntervalKeeps ==
    ASSUME NEW feeds \in [Feeds -> Feed \union {NoFeed}], NEW f \in Feeds, NEW g \in Feeds
    PROVE  /\ Known(IntervalElapsed(feeds, f)[g]) = Known(feeds[g])
           /\ Live(IntervalElapsed(feeds, f)[g]) <=> Live(feeds[g])
           /\ Live(feeds[g]) => /\ IntervalElapsed(feeds, f)[g].limit = feeds[g].limit
                                /\ IntervalElapsed(feeds, f)[g].known = feeds[g].known
<1>1. CASE Live(feeds[f]) /\ g = f
  <2>1. feeds[f] \in Feed
    BY <1>1 DEF Live
  <2>2. /\ [feeds[f] EXCEPT !.due = TRUE] \in Feed
        /\ [feeds[f] EXCEPT !.due = TRUE].known = feeds[f].known
        /\ [feeds[f] EXCEPT !.due = TRUE].limit = feeds[f].limit
        /\ [feeds[f] EXCEPT !.due = TRUE].channel = feeds[f].channel
    BY <2>1 DEF Feed
  <2>3. IntervalElapsed(feeds, f)[f] = [feeds[f] EXCEPT !.due = TRUE]
    BY <1>1 DEF IntervalElapsed
  <2> QED
    BY <1>1, <2>1, <2>2, <2>3, SentinelsAssumption DEF Known, Live
<1>2. CASE ~(Live(feeds[f]) /\ g = f)
  BY <1>2 DEF IntervalElapsed
<1> QED
  BY <1>1, <1>2

\* An entry with the channel and the limit of the stored one serves as it does.
LEMMA SameServiceKeeps ==
    ASSUME TypeOK, NEW f \in Feeds, NEW feed \in Feed,
           feed.channel = Entry(f).channel, feed.limit = Entry(f).limit
    PROVE  /\ Known(feed) = feed.known
           /\ Live(feed) <=> Live(mem[f])
           /\ Live(feed) => feed.limit = mem[f].limit
<1>1. /\ Entry(f) \in Feed /\ Entry(f) # NoFeed
      /\ Live(Entry(f)) <=> Live(mem[f])
      /\ Live(mem[f]) => Entry(f) = mem[f]
  BY EntryIsFeed, SentinelsAssumption DEF Entry, Live
<1>2. feed # NoFeed
  BY SentinelsAssumption
<1> QED
  BY <1>1, <1>2 DEF Known, Live

\* What a query failure stores knows what the entry knew; what a refresh stores knows
\* what the refresh knew.  Both serve, with the same limit, exactly if the entry does.
LEMMA CheckedEntryKeeps ==
    ASSUME TypeOK, NEW f \in Feeds, NEW rows \in SUBSET Rows
    PROVE  LET failed == [Entry(f) EXCEPT !.due = FALSE]
               done == [Entry(f) EXCEPT !.known = rows, !.due = FALSE]
           IN
           /\ failed \in Feed /\ done \in Feed
           /\ Known(failed) = Known(mem[f]) /\ Known(done) = rows
           /\ Live(failed) <=> Live(mem[f])
           /\ Live(done) <=> Live(mem[f])
           /\ Live(failed) => failed.limit = mem[f].limit
           /\ Live(done) => done.limit = mem[f].limit
<1> DEFINE failed == [Entry(f) EXCEPT !.due = FALSE]
           done == [Entry(f) EXCEPT !.known = rows, !.due = FALSE]
<1>1. Entry(f) \in Feed /\ Entry(f).known = Known(mem[f])
  BY EntryIsFeed, SentinelsAssumption DEF Known
<1>2. /\ failed \in Feed /\ failed.channel = Entry(f).channel
      /\ failed.limit = Entry(f).limit /\ failed.known = Entry(f).known
  BY <1>1 DEF Feed
<1>3. /\ done \in Feed /\ done.channel = Entry(f).channel
      /\ done.limit = Entry(f).limit /\ done.known = rows
  BY <1>1 DEF Feed
<1> HIDE DEF failed, done
<1>4. /\ Known(failed) = Known(mem[f])
      /\ Live(failed) <=> Live(mem[f])
      /\ Live(failed) => failed.limit = mem[f].limit
  BY <1>1, <1>2, SameServiceKeeps
<1>5. /\ Known(done) = rows
      /\ Live(done) <=> Live(mem[f])
      /\ Live(done) => done.limit = mem[f].limit
  BY <1>3, SameServiceKeeps
<1> QED
  BY <1>2, <1>3, <1>4, <1>5 DEF failed, done

\* The refresh in progress.
LEMMA JobTypes ==
    ASSUME TypeOK, pc # "idle"
    PROVE  job \in Job /\ job.feed \in Feeds /\ job.known \in SUBSET Rows /\ job.fresh \in SUBSET Rows
<1>1. job \in Job
  BY DEF TypeOK
<1> QED
  BY <1>1 DEF Job

\* What a query that succeeds hands to the rest of the refresh.
LEMMA QueryHandsOver ==
    ASSUME TypeOK, NEW f \in Feeds, QuerySucceeds(f)
    PROVE  /\ pc = "idle" /\ f \in DOMAIN todo /\ todo[f] \in LiveFeed
           /\ todo' = Others(f) /\ pc' \in {"send", "record"}
           /\ UNCHANGED <<mem, disk, window, command, readers, orders>>
           /\ \E rows \in queryLogFeedRows(f, todo[f].limit) :
              \E fresh \in FirstOf(f, todo[f].limit, rows \ todo[f].known) :
                 /\ job'.feed = f /\ job'.fresh = fresh
                 /\ job'.known = todo[f].known \union fresh
                 /\ fresh \subseteq rows \ todo[f].known
<1>1. PICK rows \in queryLogFeedRows(f, todo[f].limit) :
         \E fresh \in FirstOf(f, todo[f].limit, rows \ todo[f].known) :
            /\ job' = [feed |-> f, channel |-> todo[f].channel,
                       known |-> todo[f].known \union fresh, fresh |-> fresh]
            /\ pc' = IF fresh = {} THEN "record" ELSE "send"
  BY DEF QuerySucceeds
<1>2. PICK fresh \in FirstOf(f, todo[f].limit, rows \ todo[f].known) :
         /\ job' = [feed |-> f, channel |-> todo[f].channel,
                    known |-> todo[f].known \union fresh, fresh |-> fresh]
         /\ pc' = IF fresh = {} THEN "record" ELSE "send"
  BY <1>1
<1>3. /\ job'.feed = f /\ job'.fresh = fresh
      /\ job'.known = todo[f].known \union fresh
      /\ fresh \subseteq rows \ todo[f].known
  BY <1>2 DEF FirstOf
<1>4. todo[f] \in LiveFeed
  BY SnapshotEntries DEF QuerySucceeds, TypeOK, Snapshots
<1> QED
  BY <1>2, <1>3, <1>4 DEF QuerySucceeds

\* A step that changes neither what entries know nor what was shown.
LEMMA RememberedKept ==
    ASSUME TypeOK, Remembered,
           \A f \in Feeds : Known(mem'[f]) = Known(mem[f]),
           \A f \in DOMAIN todo' : f \in DOMAIN todo /\ todo'[f] = todo[f],
           UNCHANGED <<pc, job, told, lost, raced>>
    PROVE  Remembered'
BY DEF Remembered, ShownRows

\* A command begins a new history.
LEMMA CommandRemembers ==
    ASSUME TypeOK, Remembered, NEW f \in Feeds, NEW feed, NEW c, NEW n,
           mem' = [mem EXCEPT ![f] = feed], Ordered(f, c, n), UNCHANGED loop
    PROVE  Remembered'
<1>1. UNCHANGED <<pc, todo, job>>
  BY DEF loop
<1>2. ShownRows(f)' = {}
  BY DEF Ordered, ShownRows, TypeOK
<1>3. ASSUME NEW g \in Feeds \ raced', g # f
      PROVE  g \notin raced /\ ShownRows(g)' = ShownRows(g) /\ mem'[g] = mem[g]
  BY <1>3 DEF Ordered, ShownRows, TypeOK
<1> QED
  BY <1>1, <1>2, <1>3 DEF Remembered

LEMMA RememberedStep == TypeOK /\ Remembered /\ [Next]_vars => Remembered'
<1> SUFFICES ASSUME TypeOK, Remembered, [Next]_vars PROVE Remembered'
  OBVIOUS
<1>1. CASE refreshDueLogFeeds
  <2>1. PICK chosen \in SUBSET {f \in Feeds : Due(f)} :
           todo' = [f \in chosen |-> mem[f]]
    BY <1>1 DEF refreshDueLogFeeds
  <2>2. \A f \in chosen : todo'[f] = mem[f] /\ mem[f].known = Known(mem[f])
    BY <2>1 DEF Due, Live, Known
  <2>3. DOMAIN todo' = chosen /\ pc = "idle" /\ UNCHANGED <<mem, pc, job, told, lost, raced>>
    BY <1>1, <2>1 DEF refreshDueLogFeeds, readers, orders
  <2> QED
    BY <2>2, <2>3 DEF Remembered, ShownRows
<1>2. ASSUME NEW f \in Feeds, QueryFails(f) PROVE Remembered'
  <2> DEFINE feed == [Entry(f) EXCEPT !.due = FALSE]
  <2>1. Known(mem[f]) \in SUBSET Rows
    BY DEF Known, TypeOK, Feed
  <2>2. Known(feed) = Known(mem[f])
    BY <2>1, CheckedEntryKeeps
  <2>3. /\ mem' = [mem EXCEPT ![f] = feed]
        /\ todo' = Others(f) /\ UNCHANGED <<pc, job, told, lost, raced>>
    BY <1>2 DEF QueryFails, readers, orders
  <2> HIDE DEF feed
  <2>4. \A g \in Feeds : Known(mem'[g]) = Known(mem[g])
    BY <2>2, <2>3 DEF TypeOK
  <2>5. \A g \in DOMAIN todo' : g \in DOMAIN todo /\ todo'[g] = todo[g]
    BY <2>3 DEF Others
  <2> QED
    BY <2>3, <2>4, <2>5, RememberedKept
<1>3. ASSUME NEW f \in Feeds, QuerySucceeds(f) PROVE Remembered'
  <2>1. PICK rows, fresh : /\ job'.feed = f /\ job'.fresh = fresh
                           /\ job'.known = todo[f].known \union fresh
                           /\ fresh \subseteq rows \ todo[f].known
    BY <1>3, QueryHandsOver
  <2>2. /\ pc = "idle" /\ f \in DOMAIN todo /\ todo' = Others(f) /\ pc' \in {"send", "record"}
        /\ UNCHANGED <<mem, told, lost, raced>>
    BY <1>3, QueryHandsOver DEF readers, orders
  <2>3. /\ f \notin DOMAIN todo'
        /\ \A g \in DOMAIN todo' : g \in DOMAIN todo /\ todo'[g] = todo[g]
    BY <2>2 DEF Others
  <2> QED
    BY <2>1, <2>2, <2>3 DEF Remembered, ShownRows
<1>4. CASE SendChannelMessage
  <2>1. PICK rows \in formatLogFeedMessage(job.feed, job.fresh) : Show(job.feed, rows)
    BY <1>4 DEF SendChannelMessage
  <2>2. rows \subseteq job.fresh /\ pc = "send" /\ job.feed \in Feeds
    BY <1>4, <2>1, JobTypes DEF SendChannelMessage, FirstOf, formatLogFeedMessage
  <2>3. /\ pc' = "record" /\ UNCHANGED <<mem, todo, job, lost, raced>>
    BY <1>4 DEF SendChannelMessage, orders
  <2>4. \A f \in Feeds : told'[f] = IF f = job.feed THEN told[f] \union rows ELSE told[f]
    BY <2>1, <2>2 DEF Show, TypeOK
  <2>5. DOMAIN todo \subseteq Feeds
    BY SnapshotEntries DEF TypeOK, Snapshots
  <2>6. ASSUME NEW f \in Feeds \ raced', ~(pc' = "record" /\ job'.feed = f)
        PROVE  ShownRows(f)' \subseteq Known(mem'[f])
    BY <2>2, <2>3, <2>4, <2>6 DEF Remembered, ShownRows
  <2>7. ASSUME NEW f \in Feeds \ raced', f \in DOMAIN todo'
        PROVE  ShownRows(f)' \subseteq todo'[f].known
    BY <2>2, <2>3, <2>4, <2>7 DEF Remembered, ShownRows
  <2>8. ASSUME NEW f \in Feeds \ raced', job'.feed = f
        PROVE  ShownRows(f)' \subseteq job'.known
    BY <2>2, <2>3, <2>4, <2>8 DEF Remembered, ShownRows
  <2> QED
    BY <2>2, <2>3, <2>6, <2>7, <2>8 DEF Remembered
<1>5. CASE SendFails
  <2>1. /\ pc = "send" /\ pc' = "idle" /\ UNCHANGED <<mem, todo, raced>> /\ job.feed \in Feeds
    BY <1>5, JobTypes DEF SendFails, Finish, orders
  <2>2. \A f \in Feeds : ShownRows(f)' \subseteq ShownRows(f)
    <3>1. CASE UNCHANGED readers
      BY <3>1 DEF readers, ShownRows
    <3>2. CASE \E rows \in formatLogFeedMessage(job.feed, job.fresh) :
                 /\ Show(job.feed, rows)
                 /\ lost' = [lost EXCEPT ![job.feed] = @ \union rows]
      <4>1. PICK rows : /\ Show(job.feed, rows)
                        /\ lost' = [lost EXCEPT ![job.feed] = @ \union rows]
        BY <3>2
      <4> QED
        BY <2>1, <4>1 DEF Show, ShownRows, TypeOK
    <3> QED
      BY <1>5, <3>1, <3>2 DEF SendFails
  <2>3. DOMAIN todo \subseteq Feeds
    BY SnapshotEntries DEF TypeOK, Snapshots
  <2> QED
    BY <2>1, <2>2, <2>3 DEF Remembered
<1>6. CASE Record
  <2> DEFINE feed == [Entry(job.feed) EXCEPT !.known = job.known, !.due = FALSE]
  <2>1. job.feed \in Feeds /\ job.known \in SUBSET Rows
    BY <1>6, JobTypes DEF Record
  <2>2. Known(feed) = job.known
    BY <2>1, CheckedEntryKeeps
  <2>3. /\ mem' = [mem EXCEPT ![job.feed] = feed] /\ pc = "record" /\ pc' = "idle"
        /\ UNCHANGED <<todo, told, lost, raced>>
    BY <1>6 DEF Record, Update, Finish, readers, orders
  <2> HIDE DEF feed
  <2>4. \A g \in Feeds : Known(mem'[g]) = IF g = job.feed THEN job.known ELSE Known(mem[g])
    BY <2>1, <2>2, <2>3 DEF TypeOK
  <2> QED
    BY <2>1, <2>3, <2>4 DEF Remembered, ShownRows
<1>7. CASE \E f \in Feeds : RowLogged(f) \/ RowLeavesWindow(f)
  BY <1>7 DEF RowLogged, RowLeavesWindow, Remembered, ShownRows, loop, readers, orders
<1>8. ASSUME NEW f \in Feeds, IntervalElapses(f) PROVE Remembered'
  <2>1. \A g \in Feeds : Known(mem'[g]) = Known(mem[g])
    BY <1>8, IntervalKeeps DEF IntervalElapses, TypeOK
  <2> QED
    BY <1>8, <2>1, RememberedKept DEF IntervalElapses, loop, readers, orders
<1>9. ASSUME NEW w \in Commands, NEW f \in Feeds, NEW c \in Channels, NEW n \in Limits,
             WatchQueries(w, f, c, n)
      PROVE  Remembered'
  BY <1>9 DEF WatchQueries, Remembered, ShownRows, loop, readers, orders
<1>10. ASSUME NEW w \in Commands, WatchStores(w) PROVE Remembered'
  <2>1. command[w] \in Baseline
    BY <1>10 DEF WatchStores, TypeOK
  <2>2. command[w].feed \in Feeds
    BY <2>1 DEF Baseline
  <2> QED
    BY <1>10, <2>2, CommandRemembers DEF WatchStores, Update
<1>11. ASSUME NEW f \in Feeds, UnwatchLogFeed(f) PROVE Remembered'
  BY <1>11, CommandRemembers DEF UnwatchLogFeed, Update
<1>12. CASE Restart
  <2>1. /\ pc' = "idle" /\ mem' = disk /\ DOMAIN todo' = {} /\ UNCHANGED <<told, raced>>
        /\ \A f \in Feeds : lost'[f] = lost[f] \union (told[f] \ Known(disk[f]))
    BY <1>12 DEF Restart, orders
  <2> QED
    BY <2>1 DEF Remembered, ShownRows
<1>13. CASE UNCHANGED vars
  BY <1>13 DEF vars, loop, readers, orders, Remembered, ShownRows
<1> QED
  BY <1>1, <1>2, <1>3, <1>4, <1>5, <1>6, <1>7, <1>8, <1>9, <1>10, <1>11, <1>12, <1>13
  DEF Next, LoopStep, CommandStep

\* A watch shows a row once, unless the bot lost track of it or a refresh was in
\* flight when the watch was registered: a refresh queries with the rows of the
\* snapshot, which know what every earlier refresh has shown.
THEOREM RowsShownOnce == Spec => NoRowTwice
<1>1. Init => Remembered
  <2> SUFFICES ASSUME Init PROVE Remembered
    OBVIOUS
  <2>1. /\ \A f \in Feeds : ShownRows(f) = {}
        /\ DOMAIN todo = {} /\ pc = "idle"
    BY DEF Init, ShownRows
  <2> QED
    BY <2>1 DEF Remembered
<1>2. ASSUME TypeOK, Remembered, Posts
      PROVE  \/ job.feed \in raced
             \/ \A row \in job.fresh \intersect told[job.feed] : row \in lost[job.feed]
  <2>1. pc = "send" /\ job.feed \in Feeds
    BY <1>2, JobTypes DEF Posts
  <2> QED
    BY <1>2, <2>1 DEF Remembered, ShownRows
<1>3. TypeOK /\ Remembered =>
          [Posts => \/ job.feed \in raced
                    \/ \A row \in job.fresh \intersect told[job.feed] :
                         row \in lost[job.feed]]_vars
  BY <1>2
<1> QED
  BY <1>1, <1>3, RememberedStep, TypeCorrect, PTL DEF Spec, NoRowTwice

\* Who knows more covers more, and as rows leave the window there is less to cover.
LEMMA CoversMore ==
    ASSUME NEW f, NEW limit, NEW known, NEW more, NEW first \in Nat, NEW later \in Nat,
           NEW upto \in Nat, Covers(f, limit, known, first..upto), known \subseteq more,
           first <= later
    PROVE  Covers(f, limit, more, later..upto)
<1> SUFFICES ASSUME NEW r \in later..upto, r \notin more
             PROVE  /\ f \notin OwnLimit
                    /\ \E newer \in SUBSET (more \intersect (later..upto)) :
                          Cardinality(newer) = limit /\ \A s \in newer : r < s
  BY DEF Covers
<1>1. r \in first..upto /\ r \notin known
  OBVIOUS
<1>2. /\ f \notin OwnLimit
      /\ \E newer \in SUBSET (known \intersect (first..upto)) :
            Cardinality(newer) = limit /\ \A s \in newer : r < s
  BY <1>1 DEF Covers
<1>3. PICK newer \in SUBSET (known \intersect (first..upto)) :
         Cardinality(newer) = limit /\ \A s \in newer : r < s
  BY <1>2
<1>4. newer \in SUBSET (more \intersect (later..upto))
  BY <1>3
<1> QED
  BY <1>2, <1>3, <1>4

\* The baseline of a watch covers everything there was.
LEMMA QueryCovers ==
    ASSUME TypeOK, NEW f \in Feeds \ ByLatency, NEW n \in Limits,
           NEW rows \in queryLogFeedRows(f, n)
    PROVE  Covers(f, n, rows, Window(f))
<1>1. CASE f \in OwnLimit
  BY <1>1 DEF queryLogFeedRows, Covers
<1>2. CASE f \notin OwnLimit
  <2>1. rows \in FirstOf(f, n, Window(f))
    BY <1>2 DEF queryLogFeedRows
  <2>2. Window(f) \in SUBSET Rows
    BY NumbersAssumption DEF TypeOK, Window, Rows
  <2> SUFFICES ASSUME NEW r \in Window(f) \ rows
               PROVE  Cardinality(rows) = n /\ \A s \in rows : r < s
    BY <1>2, <2>1 DEF Covers, FirstOf
  <2>3. rows # Window(f) /\ n \in Nat
    BY NumbersAssumption
  <2>4. /\ rows \subseteq Window(f)
        /\ Cardinality(rows) = IF Cardinality(Window(f)) < n
                                 THEN Cardinality(Window(f)) ELSE n
        /\ \A s \in rows : s > r
    BY <2>1 DEF FirstOf, Before
  <2>5. IsFiniteSet(Window(f)) /\ Cardinality(Window(f)) \in Nat
    BY <2>2, RowSets
  <2>6. Cardinality(rows) # Cardinality(Window(f))
    BY <2>3, <2>4, <2>5, FS_Subset
  <2>7. \A s \in rows : r < s
    BY <2>2, <2>4 DEF Rows
  <2> QED
    BY <2>3, <2>4, <2>5, <2>6, <2>7
<1> QED
  BY <1>1, <1>2

\* A query finds no unknown row among those that are covered.
LEMMA FreshIsNew ==
    ASSUME TypeOK, NEW f \in Feeds \ ByLatency, NEW n \in Limits, NEW known,
           NEW upto \in Nat, upto <= newest[f], Covers(f, n, known, oldest[f]..upto),
           NEW rows \in queryLogFeedRows(f, n), NEW r \in rows \ known
    PROVE  r > upto
<1>1. Window(f) \in SUBSET Rows /\ rows \subseteq Window(f) /\ rows \in SUBSET Rows
  BY NumbersAssumption DEF TypeOK, Window, Rows, queryLogFeedRows, FirstOf
<1>2. r \in Nat /\ oldest[f] <= r
  BY <1>1 DEF Rows, Window
<1> SUFFICES ASSUME r <= upto PROVE FALSE
  BY <1>2
<1>3. r \in oldest[f]..upto
  BY <1>1, <1>2 DEF Window
<1>4. /\ f \notin OwnLimit
      /\ \E newer \in SUBSET (known \intersect (oldest[f]..upto)) :
            Cardinality(newer) = n /\ \A s \in newer : r < s
  BY <1>3 DEF Covers
<1>5. PICK newer \in SUBSET (known \intersect (oldest[f]..upto)) :
         Cardinality(newer) = n /\ \A s \in newer : r < s
  BY <1>4
<1>6. rows \in FirstOf(f, n, Window(f)) /\ n \in Nat
  BY <1>4, NumbersAssumption DEF queryLogFeedRows
<1>7. ASSUME NEW s \in newer
      PROVE  s \in rows
  <2>1. s \in Window(f) /\ s \in Nat /\ r < s
    BY <1>3, <1>5, <1>7 DEF Window, TypeOK
  <2>2. s \notin rows => r > s
    BY <1>6, <2>1 DEF FirstOf, Before
  <2> QED
    BY <1>2, <2>1, <2>2
<1>8. newer \union {r} \subseteq rows /\ r \notin newer
  BY <1>2, <1>5, <1>7
<1>9. IsFiniteSet(newer) /\ IsFiniteSet(rows)
  BY <1>1, <1>8, RowSets
<1>10. Cardinality(newer \union {r}) = n + 1
  BY <1>5, <1>8, <1>9, FS_AddElement
<1>11. Cardinality(newer \union {r}) <= Cardinality(rows) /\ Cardinality(rows) \in Nat
  BY <1>8, <1>9, FS_Subset, FS_CardinalityType
<1>12. Cardinality(rows) <= n
  BY <1>1, <1>6, FirstAreFew
<1> QED
  BY <1>6, <1>10, <1>11, <1>12

\* An entry that serves as another one, and knows as much, covers as much.
LEMMA EntryCoversMore ==
    ASSUME TypeOK, NEW f \in Feeds, NEW old, NEW new, EntryCovers(f, old),
           Live(new) => Live(old) /\ new.limit = old.limit /\ old.known \subseteq new.known
    PROVE  EntryCovers(f, new)
<1>1. oldest[f] \in Nat /\ since[f] \in Nat /\ oldest[f] <= oldest[f]
  BY DEF TypeOK
<1> QED
  BY <1>1, CoversMore DEF EntryCovers

\* A step that changes what is stored, and leaves the watches as they are.
LEMMA StoredCovers ==
    ASSUME TypeOK, BaselineKept, UNCHANGED <<since, raced, unsaved, command, window>>,
           \A f \in Steady : EntryCovers(f, mem'[f]) /\ EntryCovers(f, disk'[f]),
           \A f \in DOMAIN todo' : /\ f \in DOMAIN todo /\ todo'[f] = todo[f]
                                   /\ Known(mem'[f]) \subseteq Known(mem[f]),
           pc' = "idle"
    PROVE  BaselineKept'
<1>1. UNCHANGED <<oldest, newest, Steady>>
  BY DEF window, Steady
<1>2. ASSUME NEW f \in Steady
      PROVE  FeedCovers(f)'
  BY <1>1 DEF BaselineKept, FeedCovers, EntryCovers
<1>3. \A w \in Commands : command[w] # NoCommand => CommandCovers(command[w])'
  BY <1>1 DEF BaselineKept, CommandCovers
<1> QED
  BY <1>1, <1>2, <1>3 DEF BaselineKept

\* A command that is saved begins with what it stores.
LEMMA CommandCoversFeed ==
    ASSUME TypeOK, BaselineKept, NEW f \in Feeds, NEW feed \in Feed \union {NoFeed}, NEW c,
           NEW n \in 0..MaxRows, n <= newest[f],
           Update([mem EXCEPT ![f] = feed]), Ordered(f, c, n),
           \/ f \in ByLatency \/ ~Live(feed)
           \/ Covers(f, feed.limit, feed.known, oldest[f]..n),
           UNCHANGED <<window, loop>>,
           \A w \in Commands : command'[w] # NoCommand => command'[w] = command[w]
    PROVE  BaselineKept'
<1>1. UNCHANGED <<oldest, newest, pc, todo, job>>
  BY DEF window, loop
<1>2. /\ since'[f] = n
      /\ \A g \in Feeds : g # f => since'[g] = since[g]
  BY DEF Ordered, TypeOK
<1>3. \A w \in Commands : command'[w] # NoCommand => CommandCovers(command[w])'
  BY <1>1 DEF BaselineKept, CommandCovers
<1>4. ASSUME NEW g \in Steady', g # f
      PROVE  FeedCovers(g)'
  <2>1. g \in Steady
    BY <1>4 DEF Steady, Ordered
  <2>2. mem'[g] = mem[g] /\ disk'[g] \in {mem[g], disk[g]} /\ since'[g] = since[g]
    BY <1>2, <1>4 DEF Update, TypeOK, Steady
  <2> QED
    BY <1>1, <2>1, <2>2 DEF BaselineKept, FeedCovers, EntryCovers
<1>5. ASSUME f \in Steady'
      PROVE  FeedCovers(f)'
  <2>1. f \notin raced' /\ f \notin unsaved' /\ f \notin ByLatency
    BY <1>5 DEF Steady
  <2>2. ~InFlight(f) /\ disk' = mem'
    BY <2>1 DEF Ordered
  <2>3. mem'[f] = feed /\ disk'[f] = feed
    BY <2>2 DEF Update, TypeOK
  <2> QED
    BY <1>1, <1>2, <2>1, <2>2, <2>3 DEF FeedCovers, EntryCovers, InFlight
<1> QED
  BY <1>1, <1>2, <1>3, <1>4, <1>5 DEF BaselineKept

\* What a query succeeds with is new.
LEMMA QueryCoversStep ==
    ASSUME TypeOK, BaselineKept, NEW f \in Feeds, QuerySucceeds(f)
    PROVE  BaselineKept'
<1>1. /\ pc = "idle" /\ f \in DOMAIN todo /\ todo[f] \in LiveFeed /\ todo' = Others(f)
      /\ UNCHANGED <<mem, disk, oldest, newest, command, since, raced, unsaved>>
  BY QueryHandsOver DEF window, orders
<1>2. PICK rows \in queryLogFeedRows(f, todo[f].limit) :
         \E fresh \in FirstOf(f, todo[f].limit, rows \ todo[f].known) :
            /\ job'.feed = f /\ job'.fresh = fresh
            /\ job'.known = todo[f].known \union fresh
            /\ fresh \subseteq rows \ todo[f].known
  BY QueryHandsOver
<1>3. /\ job'.feed = f /\ todo[f].known \subseteq job'.known
      /\ job'.fresh \subseteq rows \ todo[f].known
  BY <1>2
<1>4. UNCHANGED Steady
  BY <1>1 DEF Steady
<1>5. ASSUME NEW g \in Steady, g # f
      PROVE  FeedCovers(g)'
  BY <1>1, <1>3, <1>5 DEF BaselineKept, FeedCovers, EntryCovers, Others
<1>6. ASSUME f \in Steady
      PROVE  FeedCovers(f)'
  <2>1. FeedCovers(f) /\ f \in Feeds \ ByLatency
    BY <1>6 DEF BaselineKept, Steady
  <2>2. Covers(f, todo[f].limit, todo[f].known, oldest[f]..since[f])
    BY <1>1, <2>1 DEF FeedCovers, EntryCovers, LiveFeed
  <2>3. /\ todo[f].limit \in Limits /\ since[f] \in Nat /\ since[f] <= newest[f]
    BY <1>1, NumbersAssumption DEF LiveFeed, Feed, BaselineKept, TypeOK
  <2>4. \A r \in job'.fresh : r > since[f]
    BY <1>3, <2>1, <2>2, <2>3, FreshIsNew
  <2>5. f \notin DOMAIN todo'
    BY <1>1 DEF Others
  <2> QED
    BY <1>1, <1>3, <2>1, <2>4, <2>5 DEF FeedCovers, EntryCovers
<1> QED
  BY <1>1, <1>4, <1>5, <1>6 DEF BaselineKept, CommandCovers

LEMMA BaselineStep == TypeOK /\ Remembered /\ BaselineKept /\ [Next]_vars => BaselineKept'
<1> SUFFICES ASSUME TypeOK, Remembered, BaselineKept, [Next]_vars PROVE BaselineKept'
  OBVIOUS
<1>1. CASE refreshDueLogFeeds
  <2>1. PICK chosen \in SUBSET {f \in Feeds : Due(f)} :
           todo' = [f \in chosen |-> mem[f]]
    BY <1>1 DEF refreshDueLogFeeds
  <2>2. \A f \in chosen : todo'[f] = mem[f] /\ mem[f].known = Known(mem[f])
    BY <2>1 DEF Due, Live, Known
  <2>3. /\ DOMAIN todo' = chosen /\ pc = "idle" /\ UNCHANGED Steady
        /\ UNCHANGED <<mem, disk, oldest, newest, pc, job, command, since, raced, unsaved>>
    BY <1>1, <2>1 DEF refreshDueLogFeeds, window, orders, Steady
  <2> QED
    BY <2>2, <2>3 DEF BaselineKept, FeedCovers, EntryCovers, CommandCovers
<1>2. ASSUME NEW f \in Feeds, QueryFails(f) PROVE BaselineKept'
  <2> DEFINE feed == [Entry(f) EXCEPT !.due = FALSE]
  <2>1. Known(mem[f]) \in SUBSET Rows
    BY DEF Known, TypeOK, Feed
  <2>2. /\ Known(feed) = Known(mem[f]) /\ feed \in Feed
        /\ Live(feed) <=> Live(mem[f])
        /\ Live(feed) => feed.limit = mem[f].limit
    BY <2>1, CheckedEntryKeeps
  <2>3. /\ mem' = [mem EXCEPT ![f] = feed] /\ disk' \in {disk, mem'} /\ pc' = "idle"
        /\ todo' = Others(f) /\ UNCHANGED <<since, raced, unsaved, command, window>>
    BY <1>2 DEF QueryFails, orders
  <2> HIDE DEF feed
  <2>4. \A g \in Feeds : Known(mem'[g]) = Known(mem[g]) /\ (g # f => mem'[g] = mem[g])
    BY <2>2, <2>3 DEF TypeOK
  <2>5. \A g \in DOMAIN todo' : g \in DOMAIN todo /\ todo'[g] = todo[g] /\ g \in Feeds
    BY <2>3, SnapshotEntries DEF Others, TypeOK, Snapshots
  <2>6. Live(feed) => mem[f].known = Known(mem[f]) /\ feed.known = Known(feed)
    BY <2>2 DEF Known, Live
  <2>7. ASSUME NEW g \in Steady
        PROVE  EntryCovers(g, mem'[g]) /\ EntryCovers(g, disk'[g])
    <3>1. EntryCovers(g, mem[g]) /\ EntryCovers(g, disk[g]) /\ g \in Feeds
      BY <2>7 DEF BaselineKept, FeedCovers, Steady
    <3>2. g = f => EntryCovers(f, feed)
      BY <2>2, <2>6, <3>1, EntryCoversMore
    <3>3. EntryCovers(g, mem'[g])
      BY <2>3, <2>4, <3>1, <3>2 DEF TypeOK
    <3> QED
      BY <2>3, <3>1, <3>3
  <2> QED
    BY <2>3, <2>4, <2>5, <2>7, StoredCovers
<1>3. ASSUME NEW f \in Feeds, QuerySucceeds(f) PROVE BaselineKept'
  BY <1>3, QueryCoversStep
<1>4. CASE SendChannelMessage
  BY <1>4 DEF SendChannelMessage, BaselineKept, FeedCovers, EntryCovers, CommandCovers,
              Steady, window, orders
<1>5. CASE SendFails
  BY <1>5 DEF SendFails, Finish, BaselineKept, FeedCovers, EntryCovers, CommandCovers,
              Steady, window, orders
<1>6. CASE Record
  <2> DEFINE f == job.feed
             feed == [Entry(f) EXCEPT !.known = job.known, !.due = FALSE]
  <2>1. f \in Feeds /\ job.known \in SUBSET Rows /\ pc = "record"
    BY <1>6, JobTypes DEF Record
  <2>2. /\ Known(feed) = job.known /\ feed \in Feed
        /\ Live(feed) <=> Live(mem[f])
        /\ Live(feed) => feed.limit = mem[f].limit
    BY <2>1, CheckedEntryKeeps
  <2>3. /\ mem' = [mem EXCEPT ![f] = feed] /\ disk' \in {disk, mem'} /\ pc' = "idle"
        /\ UNCHANGED <<todo, since, raced, unsaved, command, window>>
    BY <1>6 DEF Record, Update, Finish, orders
  <2>4. f \notin DOMAIN todo
    BY <2>1 DEF Remembered
  <2> HIDE DEF feed, f
  <2>5. \A g \in Feeds : g # f => mem'[g] = mem[g]
    BY <2>3 DEF TypeOK
  <2>6. Live(feed) => mem[f].known = Known(mem[f]) /\ feed.known = Known(feed)
    BY <2>2 DEF Known, Live
  <2>7. ASSUME NEW g \in Steady
        PROVE  EntryCovers(g, mem'[g]) /\ EntryCovers(g, disk'[g])
    <3>1. EntryCovers(g, mem[g]) /\ EntryCovers(g, disk[g]) /\ g \in Feeds
      BY <2>7 DEF BaselineKept, FeedCovers, Steady
    <3>2. ASSUME g = f
          PROVE  EntryCovers(f, feed)
      <4>1. Known(mem[f]) \subseteq job.known
        BY <2>1, <2>7, <3>2 DEF BaselineKept, FeedCovers, f
      <4> QED
        BY <2>1, <2>2, <2>6, <3>1, <3>2, <4>1, EntryCoversMore
    <3>3. EntryCovers(g, mem'[g])
      BY <2>3, <2>5, <3>1, <3>2 DEF TypeOK
    <3> QED
      BY <2>3, <3>1, <3>3
  <2>8. \A g \in DOMAIN todo : g \in Feeds /\ g # f
    BY <2>4, SnapshotEntries DEF TypeOK, Snapshots
  <2> QED
    BY <2>3, <2>5, <2>7, <2>8, StoredCovers
<1>7. ASSUME NEW f \in Feeds, RowLogged(f) \/ RowLeavesWindow(f) PROVE BaselineKept'
  <2>1. /\ UNCHANGED <<mem, disk, pc, todo, job, command, since, raced, unsaved, Steady>>
        /\ \A g \in Feeds : oldest[g] <= oldest'[g] /\ newest[g] <= newest'[g]
        /\ \A g \in Feeds : oldest[g] \in Nat /\ oldest'[g] \in Nat
        /\ \A g \in Feeds : newest[g] \in Nat /\ newest'[g] \in Nat
    BY <1>7 DEF RowLogged, RowLeavesWindow, loop, orders, Steady, TypeOK
  <2>2. ASSUME NEW g \in Feeds, NEW feed, EntryCovers(g, feed)
        PROVE  Live(feed) => Covers(g, feed.limit, feed.known, oldest'[g]..since[g])
    <3>1. since[g] \in Nat
      BY DEF TypeOK
    <3> QED
      BY <2>1, <2>2, <3>1, CoversMore DEF EntryCovers
  <2>3. ASSUME NEW g \in Steady
        PROVE  FeedCovers(g)'
    BY <2>1, <2>2, <2>3 DEF BaselineKept, FeedCovers, EntryCovers, Steady
  <2>4. ASSUME NEW w \in Commands, command[w] # NoCommand
        PROVE  CommandCovers(command[w])'
    <3>1. command[w] \in Baseline /\ CommandCovers(command[w])
      BY <2>4 DEF TypeOK, BaselineKept
    <3>2. command[w].feed \in Feeds /\ command[w].upto \in Nat
      BY <3>1 DEF Baseline
    <3> QED
      BY <2>1, <3>1, <3>2, CoversMore DEF CommandCovers
  <2>5. \A g \in Feeds : since[g] <= newest'[g]
    BY <2>1 DEF BaselineKept, TypeOK
  <2> QED
    BY <2>1, <2>3, <2>4, <2>5 DEF BaselineKept
<1>8. ASSUME NEW f \in Feeds, IntervalElapses(f) PROVE BaselineKept'
  <2>1. /\ mem' = IntervalElapsed(mem, f) /\ disk' = IntervalElapsed(disk, f)
        /\ UNCHANGED <<oldest, newest, pc, todo, job, command, since, raced, unsaved, Steady>>
    BY <1>8 DEF IntervalElapses, window, loop, orders, Steady
  <2>2. ASSUME NEW g \in Steady
        PROVE  FeedCovers(g)'
    <3>1. FeedCovers(g) /\ g \in Feeds
      BY <2>2 DEF BaselineKept, Steady
    <3>2. Known(mem'[g]) = Known(mem[g])
      BY <2>1, <3>1, IntervalKeeps DEF TypeOK
    <3>3. EntryCovers(g, mem'[g])
      <4>1. Live(mem'[g]) => /\ Live(mem[g]) /\ mem'[g].limit = mem[g].limit
                             /\ mem[g].known \subseteq mem'[g].known
        BY <2>1, <3>1, IntervalKeeps DEF TypeOK
      <4> QED
        BY <3>1, <4>1, EntryCoversMore DEF FeedCovers
    <3>4. EntryCovers(g, disk'[g])
      <4>1. Live(disk'[g]) => /\ Live(disk[g]) /\ disk'[g].limit = disk[g].limit
                             /\ disk[g].known \subseteq disk'[g].known
        BY <2>1, <3>1, IntervalKeeps DEF TypeOK
      <4> QED
        BY <3>1, <4>1, EntryCoversMore DEF FeedCovers
    <3> QED
      BY <2>1, <3>1, <3>2, <3>3, <3>4 DEF FeedCovers, EntryCovers
  <2> QED
    BY <2>1, <2>2 DEF BaselineKept, CommandCovers
<1>9. ASSUME NEW w \in Commands, NEW f \in Feeds, NEW c \in Channels, NEW n \in Limits,
             WatchQueries(w, f, c, n)
      PROVE  BaselineKept'
  <2>1. PICK rows \in queryLogFeedRows(f, n) :
           command' = [command EXCEPT ![w] =
               [feed |-> f, channel |-> c, limit |-> n, rows |-> rows,
                upto |-> newest[f]]]
    BY <1>9 DEF WatchQueries
  <2>2. UNCHANGED <<mem, disk, oldest, newest, pc, todo, job, since, raced, unsaved, Steady>>
    BY <1>9 DEF WatchQueries, window, loop, orders, Steady
  <2>3. f \notin ByLatency => Covers(f, n, rows, oldest[f]..newest[f])
    BY QueryCovers DEF Window
  <2>4. newest[f] <= newest[f]
    BY DEF TypeOK
  <2>5. CommandCovers(command[w])'
    <3>1. command'[w] = [feed |-> f, channel |-> c, limit |-> n, rows |-> rows,
                         upto |-> newest[f]]
      BY <2>1 DEF TypeOK
    <3> QED
      BY <2>2, <2>3, <2>4, <3>1 DEF CommandCovers
  <2>6. \A v \in Commands : v # w => command'[v] = command[v]
    BY <2>1 DEF TypeOK
  <2> QED
    BY <2>2, <2>5, <2>6 DEF BaselineKept, FeedCovers, EntryCovers, CommandCovers
<1>10. ASSUME NEW w \in Commands, WatchStores(w) PROVE BaselineKept'
  <2> DEFINE b == command[w]
             feed == [channel |-> b.channel, limit |-> b.limit, known |-> b.rows,
                      due |-> FALSE]
  <2>1. b \in Baseline /\ CommandCovers(b)
    BY <1>10 DEF WatchStores, TypeOK, BaselineKept
  <2>2. /\ b.feed \in Feeds /\ b.upto \in 0..MaxRows /\ feed \in Feed
        /\ b.upto <= newest[b.feed]
        /\ b.feed \in ByLatency \/ Covers(b.feed, feed.limit, feed.known, oldest[b.feed]..b.upto)
    BY <2>1 DEF Baseline, Feed, CommandCovers
  <2>3. /\ Update([mem EXCEPT ![b.feed] = feed]) /\ Ordered(b.feed, b.channel, b.upto)
        /\ UNCHANGED <<window, loop>>
        /\ command' = [command EXCEPT ![w] = NoCommand]
    BY <1>10 DEF WatchStores
  <2> HIDE DEF b, feed
  <2>4. \A v \in Commands : command'[v] # NoCommand => command'[v] = command[v]
    BY <2>3 DEF TypeOK
  <2> QED
    BY <2>2, <2>3, <2>4, CommandCoversFeed
<1>11. ASSUME NEW f \in Feeds, UnwatchLogFeed(f) PROVE BaselineKept'
  <2>1. /\ newest[f] \in 0..MaxRows /\ newest[f] <= newest[f] /\ ~Live(NoFeed)
        /\ Update([mem EXCEPT ![f] = NoFeed]) /\ Ordered(f, NoChannel, newest[f])
        /\ UNCHANGED <<window, loop, command>>
    BY <1>11 DEF UnwatchLogFeed, TypeOK, Live
  <2> QED
    BY <2>1, CommandCoversFeed
<1>12. CASE Restart
  <2>1. /\ pc' = "idle" /\ mem' = disk /\ DOMAIN todo' = {}
        /\ UNCHANGED <<disk, oldest, newest, since, raced, unsaved, Steady>>
        /\ \A w \in Commands : command'[w] = NoCommand
    BY <1>12 DEF Restart, window, orders, Steady
  <2> QED
    BY <2>1 DEF BaselineKept, FeedCovers, EntryCovers
<1>13. CASE UNCHANGED vars
  BY <1>13 DEF vars, window, loop, orders, BaselineKept, FeedCovers, EntryCovers,
               CommandCovers, Steady
<1> QED
  BY <1>1, <1>2, <1>3, <1>4, <1>5, <1>6, <1>7, <1>8, <1>9, <1>10, <1>11, <1>12, <1>13
  DEF Next, LoopStep, CommandStep

\* Rows that were logged before a watch are not posted, unless its feed shows the
\* slowest rows, a refresh was in flight when it was registered or it was not saved:
\* what its query can still find of them is known, or is crowded out by known rows.
THEOREM OnlyNewRowsPosted == Spec => OnlyNewRows
<1>1. Init => Remembered /\ BaselineKept
  <2> SUFFICES ASSUME Init PROVE Remembered /\ BaselineKept
    OBVIOUS
  <2>1. /\ \A f \in Feeds : ShownRows(f) = {} /\ ~Live(mem[f]) /\ ~Live(disk[f])
        /\ \A f \in Feeds : since[f] <= newest[f]
        /\ DOMAIN todo = {} /\ pc = "idle" /\ \A w \in Commands : command[w] = NoCommand
    BY NumbersAssumption DEF Init, ShownRows, Live
  <2> QED
    BY <2>1 DEF Remembered, BaselineKept, FeedCovers, EntryCovers, Steady
<1>2. ASSUME TypeOK, BaselineKept, Posts
      PROVE  \/ job.feed \in ByLatency \union raced \union unsaved
             \/ \A row \in job.fresh : row > since[job.feed]
  <2>1. pc = "send" /\ job.feed \in Feeds
    BY <1>2, JobTypes DEF Posts
  <2> QED
    BY <1>2, <2>1 DEF BaselineKept, FeedCovers, Steady
<1>3. TypeOK /\ BaselineKept =>
          [Posts => \/ job.feed \in ByLatency \union raced \union unsaved
                    \/ \A row \in job.fresh : row > since[job.feed]]_vars
  BY <1>2
<1> QED
  BY <1>1, <1>3, RememberedStep, BaselineStep, TypeCorrect, PTL DEF Spec, OnlyNewRows
==============================================================================
