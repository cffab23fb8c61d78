---------------------- MODULE DashboardWatches_proofs ----------------------
(***************************************************************************)
(* Theorems about DashboardWatches, for every set of dashboards, channels  *)
(* and goroutines and for every bound.  Types, the version 1 fields in     *)
(* memory and in the file, and the channels of refreshes in flight are     *)
(* inductive together (Inductive); that orders are obeyed needs in         *)
(* addition what an unraced refresh is about to write (JobsObeyOrders).    *)
(***************************************************************************)
EXTENDS DashboardWatches, TLAPS

Delivering == {"edit", "send", "recordEdit", "recordSend"}

\* A refresh that has decided to edit or to send knows its channel.
JobsHaveChannels ==
    \A w \in Workers : pc[w] \in Delivering => job[w].channel \in Channels

\* What the file holds is consistent, or is a version 1 file to migrate.
DiskMirrors ==
    \/ Mirrors(disk)
    \/ /\ \A k \in Keys : disk.watches[k] = NoWatch
       /\ disk.legacyChannel # NoChannel

Inductive == TypeOK /\ JobsHaveChannels /\ LegacyMirrorsAll /\ DiskMirrors

------------------------------------------------------------------------------
(* What the operators of the store return.                                 *)

\* All is a key, and a stored entry that is not NoWatch is a watch.
LEMMA StoredWatches ==
    ASSUME NEW data \in StoreData
    PROVE  /\ All \in Keys
           /\ data.legacyChannel \in Channels \union {NoChannel}
           /\ data.legacyMessage \in MessageIds
           /\ \A k \in Keys : data.watches[k] # NoWatch
                => /\ data.watches[k] \in Watch
                   /\ data.watches[k].channel \in Channels
                   /\ data.watches[k].message \in MessageIds
BY DEF StoreData, Watch, Keys

\* SetWatch changes one entry and keeps the version 1 fields.
LEMMA SetWatchStores ==
    ASSUME TypeOK, NEW k \in Keys, NEW watch \in Watch \union {NoWatch}
    PROVE  /\ SetWatch(k, watch) \in StoreData
           /\ SetWatch(k, watch).watches[k] = watch
           /\ \A other \in Keys \ {k} :
                 SetWatch(k, watch).watches[other] = mem.watches[other]
           /\ SetWatch(k, watch).legacyChannel = mem.legacyChannel
           /\ SetWatch(k, watch).legacyMessage = mem.legacyMessage
BY DEF TypeOK, StoreData, SetWatch

\* An entry built from a channel, a message and a flag is a watch.
LEMMA WatchRecord ==
    ASSUME NEW c \in Channels, NEW m \in MessageIds, NEW d \in BOOLEAN
    PROVE  LET watch == [channel |-> c, message |-> m, due |-> d]
           IN  /\ watch \in Watch /\ watch # NoWatch
               /\ watch.channel = c /\ watch.message = m
BY NoWatchAssumption DEF Watch

\* data is stored, consistent, and differs from mem only at k.
Changes(data, k) ==
    /\ data \in StoreData
    /\ Mirrors(data)
    /\ \A other \in Keys \ {k} : data.watches[other] = mem.watches[other]

\* data has a watch at k, in the given channel.
Places(data, k, channel) ==
    /\ data.watches[k] # NoWatch
    /\ data.watches[k].channel = channel

\* The entry that an edit stores keeps the message of the entry, if any.
LEMMA EditResultStores ==
    ASSUME TypeOK, LegacyMirrorsAll, NEW k \in Keys, NEW c \in Channels
    PROVE  Changes(EditResult(k, c), k) /\ Places(EditResult(k, c), k, c)
<1> DEFINE message == IF mem.watches[k] = NoWatch THEN NoMessage
                                                  ELSE mem.watches[k].message
           watch == [channel |-> c, message |-> message, due |-> FALSE]
<1>1. message \in MessageIds
  BY StoredWatches, BoundsAssumption DEF TypeOK, NoMessage, MessageIds
<1>2. watch \in Watch /\ watch # NoWatch /\ watch.channel = c
      /\ watch.message = message
  BY <1>1, WatchRecord
<1> HIDE DEF watch
<1>3. EditResult(k, c) = IF k = All
                           THEN [SetWatch(k, watch) EXCEPT !.legacyChannel = c]
                           ELSE SetWatch(k, watch)
  BY DEF EditResult, watch
<1>4. EditResult(k, c) \in StoreData
  BY <1>2, <1>3, SetWatchStores DEF StoreData
<1>5. EditResult(k, c).watches = SetWatch(k, watch).watches
  BY <1>2, <1>3, SetWatchStores DEF StoreData
<1>6. Mirrors(EditResult(k, c))
  <2>1. CASE k # All
    BY <1>2, <1>3, <2>1, SetWatchStores, StoredWatches
    DEF Mirrors, LegacyMirrorsAll, TypeOK
  <2>2. CASE k = All
    <3>1. EditResult(k, c).legacyChannel = c
      BY <1>2, <1>3, <2>2, SetWatchStores DEF StoreData
    <3>2. EditResult(k, c).legacyMessage = mem.legacyMessage
      BY <1>2, <1>3, <2>2, SetWatchStores DEF StoreData
    <3>3. EditResult(k, c).watches[All] = watch
      BY <1>2, <1>5, <2>2, SetWatchStores
    <3> QED
      BY <1>2, <2>2, <3>1, <3>2, <3>3 DEF Mirrors, LegacyMirrorsAll
  <2> QED
    BY <2>1, <2>2
<1> QED
  BY <1>2, <1>4, <1>5, <1>6, SetWatchStores DEF Changes, Places

\* After a send both the entry and, for All, version 1 get channel and message.
LEMMA SendResultStores ==
    ASSUME TypeOK, LegacyMirrorsAll, NEW k \in Keys, NEW c \in Channels,
           NEW m \in MessageIds
    PROVE  Changes(SendResult(k, c, m), k) /\ Places(SendResult(k, c, m), k, c)
<1> DEFINE watch == [channel |-> c, message |-> m, due |-> FALSE]
           data == SetWatch(k, watch)
           result == SendResult(k, c, m)
<1>1. watch \in Watch /\ watch # NoWatch /\ watch.channel = c
      /\ watch.message = m
  BY WatchRecord
<1>2. result = IF k = All
                 THEN [data EXCEPT !.legacyChannel = c, !.legacyMessage = m]
                 ELSE data
  BY DEF SendResult
<1> HIDE DEF watch, result
<1>3. result \in StoreData /\ result.watches = data.watches
  <2>1. data \in StoreData
    BY <1>1, SetWatchStores
  <2> HIDE DEF data
  <2> QED
    BY <1>1, <1>2, <2>1 DEF StoreData
<1>4. Mirrors(result)
  <2>1. CASE k # All
    BY <1>1, <1>2, <2>1, SetWatchStores, StoredWatches
    DEF Mirrors, LegacyMirrorsAll, TypeOK
  <2>2. CASE k = All
    <3>1. result.legacyChannel = c /\ result.legacyMessage = m
      BY <1>1, <1>2, <2>2, SetWatchStores DEF StoreData
    <3>2. result.watches[All] = watch
      BY <1>1, <1>3, <2>2, SetWatchStores
    <3> QED
      BY <1>1, <3>1, <3>2 DEF Mirrors
  <2> QED
    BY <2>1, <2>2
<1> QED
  BY <1>1, <1>3, <1>4, SetWatchStores DEF Changes, Places, result

\* A watch command stores an entry without a message.
LEMMA WatchResultStores ==
    ASSUME TypeOK, LegacyMirrorsAll, NEW k \in Keys, NEW c \in Channels
    PROVE  Changes(WatchResult(k, c), k) /\ Places(WatchResult(k, c), k, c)
<1> DEFINE watch == [channel |-> c, message |-> NoMessage, due |-> TRUE]
           data == SetWatch(k, watch)
           result == WatchResult(k, c)
<1>0. NoMessage \in MessageIds
  BY BoundsAssumption DEF NoMessage, MessageIds
<1>1. watch \in Watch /\ watch # NoWatch /\ watch.channel = c
      /\ watch.message = NoMessage
  BY <1>0, WatchRecord
<1>2. result = IF k = All THEN [data EXCEPT !.legacyChannel = c] ELSE data
  BY DEF WatchResult
<1> HIDE DEF watch, result
<1>3. result \in StoreData /\ result.watches = data.watches
  <2>1. data \in StoreData
    BY <1>1, SetWatchStores
  <2> HIDE DEF data
  <2> QED
    BY <1>1, <1>2, <2>1 DEF StoreData
<1>4. Mirrors(result)
  <2>1. CASE k # All
    BY <1>1, <1>2, <2>1, SetWatchStores, StoredWatches
    DEF Mirrors, LegacyMirrorsAll, TypeOK
  <2>2. CASE k = All
    <3>1. result.legacyChannel = c
      BY <1>1, <1>2, <2>2, SetWatchStores DEF StoreData
    <3>2. result.watches[All] = watch
      BY <1>1, <1>3, <2>2, SetWatchStores
    <3> QED
      BY <1>1, <3>1, <3>2 DEF Mirrors
  <2> QED
    BY <2>1, <2>2
<1> QED
  BY <1>1, <1>3, <1>4, SetWatchStores DEF Changes, Places, result

\* An unwatch removes the entry and, for All, clears version 1.
LEMMA UnwatchResultStores ==
    ASSUME TypeOK, LegacyMirrorsAll, NEW k \in Keys
    PROVE  Changes(UnwatchResult(k), k) /\ UnwatchResult(k).watches[k] = NoWatch
<1> DEFINE data == SetWatch(k, NoWatch)
           result == UnwatchResult(k)
<1>1. result = IF k = All
                 THEN [data EXCEPT !.legacyChannel = NoChannel,
                                   !.legacyMessage = NoMessage]
                 ELSE data
  BY DEF UnwatchResult
<1> HIDE DEF result
<1>2. NoMessage \in MessageIds
  BY BoundsAssumption DEF NoMessage, MessageIds
<1>3. result \in StoreData /\ result.watches = data.watches
  <2>1. data \in StoreData
    BY <1>1, SetWatchStores
  <2> HIDE DEF data
  <2> QED
    BY <1>1, <1>2, <2>1 DEF StoreData
<1>4. Mirrors(result)
  <2>1. CASE k # All
    BY <1>1, <2>1, SetWatchStores, StoredWatches
    DEF Mirrors, LegacyMirrorsAll, TypeOK
  <2>2. CASE k = All
    <3>1. result.legacyChannel = NoChannel /\ result.legacyMessage = NoMessage
      BY <1>1, <2>2, SetWatchStores DEF StoreData
    <3>2. result.watches[All] = NoWatch
      BY <1>3, <2>2, SetWatchStores
    <3> QED
      BY <3>1, <3>2 DEF Mirrors
  <2> QED
    BY <2>1, <2>2
<1> QED
  BY <1>3, <1>4, SetWatchStores DEF Changes, result

------------------------------------------------------------------------------
(* Saving and loading.                                                     *)

\* A file that DiskMirrors holds of is loaded as consistent data, in which only
\* the watch All can be new.
LEMMA LoadedStores ==
    ASSUME disk \in StoreData, DiskMirrors, NEW isDue \in BOOLEAN
    PROVE  /\ Loaded(disk, isDue) \in StoreData
           /\ Mirrors(Loaded(disk, isDue))
<1> DEFINE result == Loaded(disk, isDue)
           watch == [channel |-> disk.legacyChannel,
                     message |-> disk.legacyMessage, due |-> isDue]
           migrates == /\ \A k \in Keys : disk.watches[k] = NoWatch
                       /\ \/ disk.legacyChannel # NoChannel
                          \/ disk.legacyMessage # NoMessage
<1>1. result = IF migrates THEN [disk EXCEPT !.watches[All] = watch] ELSE disk
  BY DEF Loaded
<1> HIDE DEF result
<1>2. CASE migrates
  <2>1. disk.legacyChannel \in Channels
    BY <1>2, StoredWatches DEF DiskMirrors, Mirrors
  <2>2. /\ watch \in Watch /\ watch # NoWatch
        /\ watch.channel = disk.legacyChannel
        /\ watch.message = disk.legacyMessage
    BY <2>1, StoredWatches, WatchRecord
  <2> HIDE DEF watch
  <2>3. result = [disk EXCEPT !.watches[All] = watch]
    BY <1>1, <1>2
  <2>4. All \in Keys
    BY DEF Keys
  <2>5. /\ result \in StoreData
        /\ result.watches[All] = watch
        /\ result.legacyChannel = disk.legacyChannel
        /\ result.legacyMessage = disk.legacyMessage
    BY <2>2, <2>3, <2>4 DEF StoreData
  <2> QED
    BY <2>2, <2>5 DEF Mirrors, result
<1>3. CASE ~migrates
  <2>1. result = disk
    BY <1>1, <1>3
  <2>2. Mirrors(disk)
    BY <1>3 DEF DiskMirrors
  <2> QED
    BY <2>1, <2>2 DEF result
<1> QED
  BY <1>2, <1>3

\* Loading keeps every entry but All.
LEMMA LoadedKeepsOthers ==
    ASSUME NEW data \in StoreData, NEW isDue \in BOOLEAN, NEW k \in Keys \ {All}
    PROVE  Loaded(data, isDue).watches[k] = data.watches[k]
BY DEF Loaded, StoreData

\* Loading consistent data without the watch All brings no watch.
LEMMA LoadedKeepsConsistent ==
    ASSUME NEW data \in StoreData, NEW isDue \in BOOLEAN, Mirrors(data)
    PROVE  Loaded(data, isDue) = data
BY DEF Loaded, Mirrors, Keys

\* Update stores what it is given, in memory and perhaps in the file.
LEMMA UpdateStores ==
    ASSUME Inductive, NEW data, Update(data), data \in StoreData, Mirrors(data)
    PROVE  /\ mem' = data /\ disk' \in {disk, data}
           /\ mem' \in StoreData /\ disk' \in StoreData
           /\ LegacyMirrorsAll' /\ DiskMirrors'
           /\ faults' \in 0..MaxFaults
<1>1. mem' = data /\ disk' \in {disk, data}
  BY DEF Update, Saved, SaveFailed
<1>2. faults' \in 0..MaxFaults
  BY BoundsAssumption DEF Inductive, TypeOK, Update, Saved, SaveFailed, Fault
<1>3. LegacyMirrorsAll'
  BY <1>1 DEF LegacyMirrorsAll, Mirrors
<1>4. DiskMirrors'
  <2>1. CASE disk' = data
    BY <2>1 DEF DiskMirrors, Mirrors
  <2>2. CASE disk' = disk
    BY <2>2 DEF Inductive, DiskMirrors, Mirrors
  <2> QED
    BY <1>1, <2>1, <2>2
<1> QED
  BY <1>1, <1>2, <1>3, <1>4 DEF Inductive, TypeOK

\* An interval that elapses changes nothing but the flag of one watch.
LEMMA IntervalElapsedStores ==
    ASSUME NEW data \in StoreData, NEW k \in Keys
    PROVE  LET result == IntervalElapsed(data, k) IN
           /\ result \in StoreData
           /\ result.legacyChannel = data.legacyChannel
           /\ result.legacyMessage = data.legacyMessage
           /\ \A other \in Keys :
                /\ result.watches[other] = NoWatch
                   <=> data.watches[other] = NoWatch
                /\ result.watches[other] # NoWatch
                   => /\ result.watches[other].channel
                           = data.watches[other].channel
                      /\ result.watches[other].message
                           = data.watches[other].message
<1> DEFINE watch == [data.watches[k] EXCEPT !.due = TRUE]
<1>1. CASE data.watches[k] = NoWatch
  BY <1>1 DEF IntervalElapsed
<1>2. CASE data.watches[k] # NoWatch
  <2>1. data.watches[k] \in Watch
    BY <1>2, StoredWatches
  <2>2. /\ watch \in Watch /\ watch # NoWatch
        /\ watch.channel = data.watches[k].channel
        /\ watch.message = data.watches[k].message
    BY <2>1, NoWatchAssumption DEF Watch
  <2>3. IntervalElapsed(data, k) = [data EXCEPT !.watches[k] = watch]
    BY <1>2 DEF IntervalElapsed
  <2> HIDE DEF watch
  <2>4. /\ IntervalElapsed(data, k) \in StoreData
        /\ IntervalElapsed(data, k).legacyChannel = data.legacyChannel
        /\ IntervalElapsed(data, k).legacyMessage = data.legacyMessage
        /\ IntervalElapsed(data, k).watches = [data.watches EXCEPT ![k] = watch]
    BY <2>2, <2>3 DEF StoreData
  <2> QED
    BY <1>2, <2>2, <2>4 DEF StoreData
<1> QED
  BY <1>1, <1>2

------------------------------------------------------------------------------
(* Types, the version 1 fields and the channels of jobs.                   *)

\* What a snapshot makes the worker do, and for which channel.
LEMMA SnapshotDecides ==
    ASSUME Inductive, NEW w \in Workers, NEW k \in Keys, Snapshot(w, k)
    PROVE  /\ pc' \in [Workers -> PCs] /\ job' \in [Workers -> Job]
           /\ \A other \in Workers \ {w} :
                 pc'[other] = pc[other] /\ job'[other] = job[other]
           /\ pc'[w] \in {"idle", "edit", "send"}
           /\ pc'[w] # "idle" =>
                /\ job'[w].key = k
                /\ job'[w].channel \in Channels
                /\ mem.watches[k] # NoWatch =>
                     job'[w].channel = mem.watches[k].channel
                /\ mem.watches[k] = NoWatch => k = All /\ EnvEnabled
<1> USE DEF Inductive, TypeOK
<1>1. ASSUME NEW c \in Channels, NEW m \in MessageIds,
             job' = [job EXCEPT ![w] = [key |-> k, channel |-> c, message |-> m]],
             pc' = [pc EXCEPT ![w] = IF m # NoMessage THEN "edit" ELSE "send"]
      PROVE  /\ pc' \in [Workers -> PCs] /\ job' \in [Workers -> Job]
             /\ \A other \in Workers \ {w} :
                   pc'[other] = pc[other] /\ job'[other] = job[other]
             /\ pc'[w] \in {"edit", "send"}
             /\ job'[w].key = k
             /\ job'[w].channel = c
  BY <1>1 DEF PCs, Job
<1>2. CASE mem.watches[k] # NoWatch
  <2>1. mem.watches[k].channel \in Channels /\ mem.watches[k].message \in MessageIds
    BY <1>2, StoredWatches
  <2> QED
    BY <1>1, <1>2, <2>1 DEF Snapshot
<1>3. CASE mem.watches[k] = NoWatch /\ HasFallback(k)
  <2>1. mem.legacyMessage \in MessageIds /\ fallbackChannel \in Channels
    BY <1>3, StoredWatches, NamesAssumption DEF HasFallback, fallbackChannel
  <2>2. k = All /\ EnvEnabled
    BY <1>3 DEF HasFallback, LegacyMirrorsAll, Mirrors
  <2> QED
    BY <1>1, <1>3, <2>1, <2>2 DEF Snapshot
<1>4. CASE mem.watches[k] = NoWatch /\ ~HasFallback(k)
  <2>1. pc' = [pc EXCEPT ![w] = "idle"] /\ job' = [job EXCEPT ![w] = NoJob]
    BY <1>4 DEF Snapshot
  <2>2. NoJob \in Job
    BY BoundsAssumption DEF NoJob, Job, Keys, NoMessage, MessageIds
  <2> QED
    BY <2>1, <2>2 DEF PCs
<1> QED
  BY <1>2, <1>3, <1>4

\* A worker that finishes leaves the jobs of the others alone.
LEMMA FinishTypes ==
    ASSUME Inductive, NEW w \in Workers, Finish(w)
    PROVE  pc' \in [Workers -> PCs] /\ job' \in [Workers -> Job]
           /\ JobsHaveChannels' /\ pc'[w] = "idle"
           /\ \A other \in Workers \ {w} :
                 pc'[other] = pc[other] /\ job'[other] = job[other]
<1>1. NoJob \in Job
  BY BoundsAssumption DEF NoJob, Job, Keys, NoMessage, MessageIds
<1> QED
  BY <1>1
  DEF Inductive, TypeOK, Finish, PCs, JobsHaveChannels, Delivering

\* A post adds the next message.
LEMMA PostTypes ==
    ASSUME TypeOK, NEW c \in Channels, Post(c)
    PROVE  /\ sent' \in MessageIds
           /\ discord' \in [Messages -> Channels \union {NoChannel}]
           /\ sent + 1 \in MessageIds
BY BoundsAssumption DEF TypeOK, Post, MessageIds, Messages

\* A fault is counted.
LEMMA FaultTypes == TypeOK /\ Fault => faults' \in 0..MaxFaults
BY BoundsAssumption DEF TypeOK, Fault

\* An order about a key is counted and keeps its types.
LEMMA OrderTypes ==
    ASSUME TypeOK, NEW k \in Keys, NEW c \in Channels \union {NoChannel},
           Ordered(k, c)
    PROVE  /\ asked' \in [Keys -> Channels \union {NoChannel}]
           /\ raced' \subseteq Keys
           /\ commands' \in 0..MaxCommands
BY BoundsAssumption DEF TypeOK, Ordered

\* The initial states, of a fresh install and of a version 1 file.
LEMMA InductiveInit == Init => Inductive
<1> SUFFICES ASSUME Init PROVE Inductive
  OBVIOUS
<1>1. /\ NoMessage \in MessageIds /\ 1 \in MessageIds /\ 0 \in MessageIds
      /\ 0 \in 0..MaxCommands /\ 0 \in 0..MaxFaults
  BY BoundsAssumption DEF NoMessage, MessageIds
<1>2. Empty \in StoreData /\ Mirrors(Empty)
  BY <1>1 DEF Empty, StoreData, Mirrors, Keys
<1>3. NoJob \in Job
  BY <1>1 DEF NoJob, Job, Keys
<1>4. /\ pc \in [Workers -> PCs] /\ job \in [Workers -> Job] /\ todo \subseteq Keys
      /\ raced \subseteq Keys /\ commands \in 0..MaxCommands
      /\ faults \in 0..MaxFaults /\ JobsHaveChannels
  BY <1>1, <1>3 DEF Init, PCs, JobsHaveChannels, Delivering
<1>5. CASE disk = Empty /\ mem = Empty /\ sent = 0
           /\ discord = [m \in Messages |-> NoChannel]
           /\ asked = [k \in Keys |-> NoChannel]
  <2>1. TypeOK
    BY <1>1, <1>2, <1>4, <1>5 DEF TypeOK
  <2> QED
    BY <1>2, <1>4, <1>5, <2>1 DEF Inductive, LegacyMirrorsAll, DiskMirrors
<1>6. ASSUME NEW c \in Channels, NEW isDue \in BOOLEAN,
             disk = Version1(c), mem = Loaded(disk, isDue), sent = 1,
             discord = [m \in Messages |-> IF m = 1 THEN c ELSE NoChannel],
             asked = [k \in Keys |-> IF k = All THEN c ELSE NoChannel]
      PROVE  Inductive
  <2>1. disk \in StoreData
    BY <1>1, <1>2, <1>6 DEF Version1, StoreData
  <2>2. /\ \A k \in Keys : disk.watches[k] = NoWatch
        /\ disk.legacyChannel = c
    BY <1>6 DEF Version1, Empty
  <2>3. DiskMirrors
    BY <2>2, NamesAssumption DEF DiskMirrors
  <2>4. mem \in StoreData /\ LegacyMirrorsAll
    BY <1>6, <2>1, <2>3, LoadedStores DEF LegacyMirrorsAll
  <2>5. TypeOK
    BY <1>1, <1>4, <1>6, <2>1, <2>4 DEF TypeOK
  <2> QED
    BY <1>4, <2>3, <2>4, <2>5 DEF Inductive
<1> QED
  BY <1>5, <1>6 DEF Init

\* A step of a refresh keeps the invariant: the decision, the edit or the send,
\* and the record, which may find an entry that changed meanwhile.
LEMMA InductiveRefresh ==
    ASSUME Inductive, NEW w \in Workers, RefreshStep(w)
    PROVE  Inductive'
<1> USE DEF Inductive
<1>1. job[w] \in Job /\ job[w].key \in Keys /\ job[w].message \in MessageIds
  BY DEF TypeOK, Job
<1>2. CASE EditChannelMessage(w)
  <2>1. TypeOK'
    BY <1>2 DEF EditChannelMessage, Goto, TypeOK, PCs, orders
  <2>2. JobsHaveChannels'
    BY <1>2
    DEF EditChannelMessage, AtStep, Goto, TypeOK, JobsHaveChannels, Delivering
  <2> QED
    BY <1>2, <2>1, <2>2
    DEF EditChannelMessage, LegacyMirrorsAll, DiskMirrors, Mirrors
<1>3. CASE EditFails(w)
  <2>1. faults' \in 0..MaxFaults
    BY <1>3, FaultTypes DEF EditFails, TypeOK
  <2>2. TypeOK'
    BY <1>3, <2>1 DEF EditFails, Goto, TypeOK, PCs, orders
  <2>3. JobsHaveChannels'
    BY <1>3
    DEF EditFails, AtStep, Goto, TypeOK, JobsHaveChannels, Delivering
  <2> QED
    BY <1>3, <2>2, <2>3 DEF EditFails, LegacyMirrorsAll, DiskMirrors, Mirrors
<1>4. CASE SendChannelMessage(w)
  <2>1. job[w].channel \in Channels
    BY <1>4 DEF SendChannelMessage, AtStep, JobsHaveChannels, Delivering
  <2>2. /\ sent' \in MessageIds /\ sent + 1 \in MessageIds
        /\ discord' \in [Messages -> Channels \union {NoChannel}]
    BY <1>4, <2>1, PostTypes DEF SendChannelMessage
  <2>3. /\ job' \in [Workers -> Job] /\ pc' \in [Workers -> PCs]
        /\ \A other \in Workers : job'[other].channel = job[other].channel
        /\ \A other \in Workers \ {w} : pc'[other] = pc[other]
    BY <1>4, <2>2 DEF SendChannelMessage, Goto, TypeOK, Job, PCs
  <2>4. TypeOK'
    BY <1>4, <2>2, <2>3 DEF SendChannelMessage, TypeOK, orders
  <2>5. JobsHaveChannels'
    BY <2>1, <2>3 DEF JobsHaveChannels
  <2> QED
    BY <1>4, <2>4, <2>5
    DEF SendChannelMessage, LegacyMirrorsAll, DiskMirrors, Mirrors
<1>5. CASE SendFails(w)
  <2>1. job[w].channel \in Channels
    BY <1>5 DEF SendFails, AtStep, JobsHaveChannels, Delivering
  <2>2. /\ sent' \in MessageIds
        /\ discord' \in [Messages -> Channels \union {NoChannel}]
    BY <1>5, <2>1, PostTypes DEF SendFails, TypeOK
  <2>3. TypeOK' /\ JobsHaveChannels'
    BY <1>5, <2>2, FaultTypes, FinishTypes DEF SendFails, TypeOK, orders
  <2> QED
    BY <1>5, <2>3 DEF SendFails, LegacyMirrorsAll, DiskMirrors, Mirrors
<1>6. CASE RecordEdit(w)
  <2> DEFINE data == EditResult(job[w].key, job[w].channel)
  <2>1. job[w].channel \in Channels
    BY <1>6 DEF RecordEdit, AtStep, JobsHaveChannels, Delivering
  <2>2. data \in StoreData /\ Mirrors(data)
    BY <1>1, <2>1, EditResultStores DEF Changes
  <2>3. Update(data) /\ Finish(w)
    BY <1>6 DEF RecordEdit
  <2> HIDE DEF data
  <2> QED
    BY <1>6, <2>2, <2>3, UpdateStores, FinishTypes DEF RecordEdit, TypeOK, orders
<1>7. CASE RecordSend(w)
  <2> DEFINE data == SendResult(job[w].key, job[w].channel, job[w].message)
  <2>1. job[w].channel \in Channels
    BY <1>7 DEF RecordSend, AtStep, JobsHaveChannels, Delivering
  <2>2. data \in StoreData /\ Mirrors(data)
    BY <1>1, <2>1, SendResultStores DEF Changes
  <2>3. Update(data) /\ Finish(w)
    BY <1>7 DEF RecordSend
  <2> HIDE DEF data
  <2> QED
    BY <1>7, <2>2, <2>3, UpdateStores, FinishTypes DEF RecordSend, TypeOK, orders
<1>8. CASE RefreshWatched(w)
  <2>1. Snapshot(w, job[w].key)
    BY <1>8 DEF RefreshWatched
  <2>2. TypeOK'
    BY <1>1, <1>8, <2>1, SnapshotDecides DEF RefreshWatched, TypeOK, orders
  <2>3. JobsHaveChannels'
    BY <1>1, <2>1, SnapshotDecides DEF JobsHaveChannels, Delivering
  <2> QED
    BY <1>8, <2>2, <2>3
    DEF RefreshWatched, LegacyMirrorsAll, DiskMirrors, Mirrors
<1> QED
  BY <1>2, <1>3, <1>4, <1>5, <1>6, <1>7, <1>8 DEF RefreshStep

\* Every other step keeps it too: the loop, time, the commands, deletions and
\* restarts.
LEMMA InductiveNext == Inductive /\ [Next]_vars => Inductive'
<1> SUFFICES ASSUME Inductive, [Next]_vars PROVE Inductive'
  OBVIOUS
<1> USE DEF Inductive
<1>1. ASSUME NEW w \in Workers, RefreshStep(w) PROVE Inductive'
  BY <1>1, InductiveRefresh
<1>2. CASE refreshDueDashboards
  BY <1>2
  DEF refreshDueDashboards, TypeOK, orders, Keys, JobsHaveChannels,
      LegacyMirrorsAll, DiskMirrors, Mirrors
<1>3. ASSUME NEW k \in Keys, refreshNext(k) PROVE Inductive'
  <2>1. Loop \in Workers /\ Snapshot(Loop, k)
    BY <1>3 DEF refreshNext, Workers
  <2>2. TypeOK'
    BY <1>3, <2>1, SnapshotDecides DEF refreshNext, TypeOK, orders
  <2>3. JobsHaveChannels'
    BY <2>1, SnapshotDecides DEF JobsHaveChannels, Delivering
  <2> QED
    BY <1>3, <2>2, <2>3 DEF refreshNext, LegacyMirrorsAll, DiskMirrors, Mirrors
<1>4. ASSUME NEW k \in Keys, IntervalElapses(k) PROVE Inductive'
  <2>1. mem' = IntervalElapsed(mem, k) /\ disk' = IntervalElapsed(disk, k)
    BY <1>4 DEF IntervalElapses
  <2>2. TypeOK'
    BY <1>4, <2>1, IntervalElapsedStores DEF IntervalElapses, TypeOK, orders
  <2>3. JobsHaveChannels'
    BY <1>4 DEF IntervalElapses, JobsHaveChannels
  <2>4. All \in Keys
    BY DEF Keys
  <2>5. LegacyMirrorsAll'
    BY <2>1, <2>4, IntervalElapsedStores DEF TypeOK, LegacyMirrorsAll, Mirrors
  <2>6. DiskMirrors'
    BY <2>1, <2>4, IntervalElapsedStores DEF TypeOK, DiskMirrors, Mirrors
  <2> QED
    BY <2>2, <2>3, <2>5, <2>6
<1>5. ASSUME NEW w \in Commands, NEW k \in Keys, NEW c \in Channels,
             WatchDashboardScope(w, k, c)
      PROVE  Inductive'
  <2> DEFINE data == WatchResult(k, c)
  <2>1. data \in StoreData /\ Mirrors(data)
    BY WatchResultStores DEF Changes
  <2>2. Update(data)
    BY <1>5 DEF WatchDashboardScope, Update
  <2>3. /\ pc' \in [Workers -> PCs] /\ job' \in [Workers -> Job]
        /\ JobsHaveChannels'
    <3>1. CASE UNCHANGED <<pc, job>>
      BY <3>1 DEF TypeOK, JobsHaveChannels
    <3>2. CASE /\ Goto(w, "snapshot")
               /\ job' = [job EXCEPT ![w] = [NoJob EXCEPT !.key = k]]
      <4>1. [NoJob EXCEPT !.key = k] \in Job
        BY BoundsAssumption DEF NoJob, Job, NoMessage, MessageIds
      <4> QED
        BY <3>2, <4>1
        DEF Goto, TypeOK, PCs, JobsHaveChannels, Delivering, Workers
    <3> QED
      BY <1>5, <3>1, <3>2 DEF WatchDashboardScope
  <2>4. Ordered(k, c)
    BY <1>5 DEF WatchDashboardScope
  <2> HIDE DEF data
  <2> QED
    BY <1>5, <2>1, <2>2, <2>3, <2>4, UpdateStores, OrderTypes
    DEF WatchDashboardScope, TypeOK
<1>6. ASSUME NEW k \in Keys, UnwatchDashboardScope(k) PROVE Inductive'
  <2> DEFINE data == UnwatchResult(k)
  <2>1. data \in StoreData /\ Mirrors(data)
    BY UnwatchResultStores DEF Changes
  <2>2. Update(data) /\ Ordered(k, NoChannel)
    BY <1>6 DEF UnwatchDashboardScope
  <2> HIDE DEF data
  <2>3. TypeOK'
    BY <1>6, <2>1, <2>2, UpdateStores, OrderTypes DEF UnwatchDashboardScope, TypeOK
  <2> QED
    BY <1>6, <2>1, <2>2, <2>3, UpdateStores
    DEF UnwatchDashboardScope, JobsHaveChannels
<1>7. ASSUME NEW m \in Messages, DeleteMessage(m) PROVE Inductive'
  BY <1>7, FaultTypes
  DEF DeleteMessage, TypeOK, orders, JobsHaveChannels, LegacyMirrorsAll,
      DiskMirrors, Mirrors
<1>8. CASE Restart
  <2>1. PICK isDue \in BOOLEAN : mem' = Loaded(disk, isDue)
    BY <1>8 DEF Restart
  <2>2. mem' \in StoreData /\ LegacyMirrorsAll'
    BY <2>1, LoadedStores DEF TypeOK, LegacyMirrorsAll, Mirrors
  <2>3. NoJob \in Job
    BY BoundsAssumption DEF NoJob, Job, Keys, NoMessage, MessageIds
  <2>4. TypeOK'
    BY <1>8, <2>2, <2>3, FaultTypes DEF Restart, TypeOK, PCs
  <2>5. JobsHaveChannels' /\ DiskMirrors'
    BY <1>8 DEF Restart, JobsHaveChannels, Delivering, DiskMirrors, Mirrors
  <2> QED
    BY <2>2, <2>4, <2>5
<1>9. CASE UNCHANGED vars
  BY <1>9
  DEF vars, orders, TypeOK, JobsHaveChannels, LegacyMirrorsAll, DiskMirrors, Mirrors
<1> QED
  BY <1>1, <1>2, <1>3, <1>4, <1>5, <1>6, <1>7, <1>8, <1>9
  DEF Next, LoopStep, CommandStep

------------------------------------------------------------------------------
(* Orders.                                                                 *)

\* The keys that orders alone decide about: no environment default exists.
Ordinary(k) == k = All => ~EnvEnabled

\* What the state says about key k is what was asked for last.
Obeyed(k) ==
    /\ asked[k] = NoChannel <=> mem.watches[k] = NoWatch
    /\ mem.watches[k] # NoWatch => mem.watches[k].channel = asked[k]

\* A refresh in flight that no order raced with will write what was asked for.
JobsObeyOrders ==
    \A k \in Keys \ raced : Ordinary(k) =>
        \A w \in Workers : pc[w] \in Delivering /\ job[w].key = k
                           => job[w].channel = asked[k]

Orders == UnracedOrdersObeyed /\ JobsObeyOrders

\* UnracedOrdersObeyed, read key by key.
LEMMA OrdersByKey ==
    UnracedOrdersObeyed <=> \A k \in Keys \ raced : Ordinary(k) => Obeyed(k)
BY DEF UnracedOrdersObeyed, Ordinary, Obeyed

\* A fresh install has no watch, a version 1 file has the one it was given.
LEMMA OrdersInit == Init => Orders
<1> SUFFICES ASSUME Init PROVE Orders
  OBVIOUS
<1>1. JobsObeyOrders
  BY DEF Init, JobsObeyOrders, Delivering
<1>2. CASE mem = Empty /\ asked = [k \in Keys |-> NoChannel]
  BY <1>1, <1>2 DEF Orders, UnracedOrdersObeyed, Empty
<1>3. ASSUME NEW c \in Channels, NEW isDue \in BOOLEAN,
             disk = Version1(c), mem = Loaded(disk, isDue),
             asked = [k \in Keys |-> IF k = All THEN c ELSE NoChannel]
      PROVE  UnracedOrdersObeyed
  <2>1. disk.watches = [k \in Keys |-> NoWatch] /\ disk.legacyChannel = c
    BY <1>3 DEF Version1, Empty
  <2>2. disk.legacyMessage = 1 /\ 1 \in MessageIds
    BY <1>3, BoundsAssumption DEF Version1, Empty, MessageIds
  <2> DEFINE watch == [channel |-> c, message |-> 1, due |-> isDue]
  <2>3. mem = [disk EXCEPT !.watches[All] = watch]
    BY <1>3, <2>1, <2>2, NamesAssumption DEF Loaded
  <2>4. watch # NoWatch /\ watch.channel = c
    BY <2>2, WatchRecord
  <2> HIDE DEF watch
  <2>5. disk = [watches |-> [k \in Keys |-> NoWatch], legacyChannel |-> c,
                legacyMessage |-> 1]
    BY <1>3 DEF Version1, Empty
  <2>6. mem.watches = [k \in Keys |-> IF k = All THEN watch ELSE NoWatch]
    BY <2>3, <2>5
  <2> QED
    BY <1>3, <2>4, <2>6, NamesAssumption DEF UnracedOrdersObeyed
<1> QED
  BY <1>1, <1>2, <1>3 DEF Init, Orders

\* A snapshot of a watch that no order raced with has the channel asked for.
LEMMA SnapshotObeys ==
    ASSUME Inductive, Orders, NEW w \in Workers, NEW k \in Keys, Snapshot(w, k),
           UNCHANGED <<asked, raced>>
    PROVE  JobsObeyOrders'
<1> SUFFICES ASSUME NEW key \in Keys \ raced, Ordinary(key), NEW v \in Workers,
                    pc'[v] \in Delivering, job'[v].key = key
             PROVE  job'[v].channel = asked[key]
  BY DEF JobsObeyOrders, Ordinary, Delivering
<1>1. CASE v # w
  BY <1>1, SnapshotDecides DEF Orders, JobsObeyOrders
<1>2. CASE v = w
  <2>1. pc'[w] # "idle"
    BY <1>2 DEF Delivering
  <2>2. key = k /\ mem.watches[k] # NoWatch
        /\ job'[w].channel = mem.watches[k].channel
    BY <1>2, <2>1, SnapshotDecides DEF Ordinary
  <2> QED
    BY <1>2, <2>2 DEF Orders, UnracedOrdersObeyed, Ordinary
<1> QED
  BY <1>1, <1>2

\* A worker that finishes has no job left to disagree with an order.
LEMMA FinishObeys ==
    ASSUME Inductive, Orders, NEW w \in Workers, Finish(w),
           UNCHANGED <<asked, raced>>
    PROVE  JobsObeyOrders'
BY FinishTypes DEF Orders, JobsObeyOrders, Ordinary, Delivering

\* Storing the result of a refresh: if nobody raced, it is what was asked for.
LEMMA ResultObeys ==
    ASSUME Inductive, Orders, NEW w \in Workers, pc[w] \in Delivering,
           NEW data, Changes(data, job[w].key),
           Places(data, job[w].key, job[w].channel), mem' = data,
           UNCHANGED <<asked, raced>>
    PROVE  UnracedOrdersObeyed'
<1> SUFFICES ASSUME NEW k \in Keys \ raced, Ordinary(k)
             PROVE  Obeyed(k)'
  BY DEF UnracedOrdersObeyed, Ordinary, Obeyed
<1>1. Obeyed(k)
  BY DEF Orders, UnracedOrdersObeyed, Ordinary, Obeyed
<1>2. CASE k # job[w].key
  BY <1>1, <1>2 DEF Obeyed, Changes
<1>3. CASE k = job[w].key
  <2>1. job[w].channel \in Channels /\ job[w].channel = asked[k]
    BY <1>3 DEF Inductive, JobsHaveChannels, Orders, JobsObeyOrders
  <2> QED
    BY <1>3, <2>1, NamesAssumption DEF Obeyed, Places
<1> QED
  BY <1>2, <1>3

\* A command of which no refresh is in flight decides about its key.
LEMMA OrderObeyed ==
    ASSUME Inductive, Orders, NEW k \in Keys, NEW c \in Channels \union {NoChannel},
           NEW data, Changes(data, k), Ordered(k, c), mem' = data,
           IF c = NoChannel THEN data.watches[k] = NoWatch ELSE Places(data, k, c),
           \A v \in Workers : pc'[v] \in Delivering
                              => pc[v] \in Delivering /\ job'[v] = job[v]
    PROVE  Orders'
<1>1. \A other \in Keys \ raced' : other # k => other \in Keys \ raced
  BY DEF Ordered
<1>2. k \notin raced' => ~InFlight(k)
  BY DEF Ordered
<1>3. asked' = [asked EXCEPT ![k] = c] /\ asked \in [Keys -> Channels \union {NoChannel}]
  BY DEF Ordered, Inductive, TypeOK
<1>4. UnracedOrdersObeyed'
  <2> SUFFICES ASSUME NEW key \in Keys \ raced', Ordinary(key)
               PROVE  Obeyed(key)'
    BY DEF UnracedOrdersObeyed, Ordinary, Obeyed
  <2>1. CASE key = k
    BY <1>3, <2>1, NamesAssumption DEF Obeyed, Places
  <2>2. CASE key # k
    <3>1. Obeyed(key)
      BY <1>1, <2>2 DEF Orders, UnracedOrdersObeyed, Ordinary, Obeyed
    <3> QED
      BY <1>3, <2>2, <3>1 DEF Obeyed, Changes
  <2> QED
    BY <2>1, <2>2
<1>5. JobsObeyOrders'
  <2> SUFFICES ASSUME NEW key \in Keys \ raced', Ordinary(key), NEW v \in Workers,
                      pc'[v] \in Delivering, job'[v].key = key
               PROVE  job'[v].channel = asked'[key]
    BY DEF JobsObeyOrders, Ordinary, Delivering
  <2>1. pc[v] \in Delivering /\ job[v].key = key /\ job'[v] = job[v]
    OBVIOUS
  <2>2. key # k
    BY <1>2, <2>1 DEF InFlight, Delivering
  <2> QED
    BY <1>1, <1>3, <2>1, <2>2 DEF Orders, JobsObeyOrders
<1> QED
  BY <1>4, <1>5 DEF Orders

\* Every step keeps the orders obeyed.
LEMMA OrdersNext == Inductive /\ Orders /\ [Next]_vars => Orders'
<1> SUFFICES ASSUME Inductive, Orders, [Next]_vars PROVE Orders'
  OBVIOUS
<1>1. ASSUME UNCHANGED <<mem, pc, job, asked, raced>> PROVE Orders'
  BY <1>1 DEF Orders, UnracedOrdersObeyed, JobsObeyOrders
<1>2. ASSUME UNCHANGED <<mem, asked, raced>> PROVE UnracedOrdersObeyed'
  BY <1>2 DEF Orders, UnracedOrdersObeyed
<1>3. ASSUME NEW w \in Workers, RefreshStep(w) PROVE Orders'
  <2>1. UNCHANGED <<asked, raced>>
    BY <1>3
    DEF RefreshStep, EditChannelMessage, EditFails, SendChannelMessage, SendFails,
        RecordEdit, RecordSend, RefreshWatched, orders
  <2>2. job[w].key \in Keys /\ job[w].message \in MessageIds
    BY DEF Inductive, TypeOK, Job
  <2>3. CASE EditChannelMessage(w) \/ EditFails(w) \/ SendChannelMessage(w)
    <3>1. /\ pc[w] \in Delivering
          /\ \A v \in Workers \ {w} : pc'[v] = pc[v]
          /\ \A v \in Workers : /\ job'[v].key = job[v].key
                                /\ job'[v].channel = job[v].channel
      BY <2>3
      DEF EditChannelMessage, EditFails, SendChannelMessage, AtStep, Goto,
          Delivering, Inductive, TypeOK, Job
    <3>2. JobsObeyOrders'
      BY <2>1, <3>1 DEF Orders, JobsObeyOrders, Ordinary
    <3> QED
      BY <1>2, <2>1, <2>3, <3>2
      DEF EditChannelMessage, EditFails, SendChannelMessage, Orders
  <2>4. CASE SendFails(w)
    BY <1>2, <2>1, <2>4, FinishObeys DEF SendFails, Orders
  <2>5. CASE RecordEdit(w)
    <3> DEFINE data == EditResult(job[w].key, job[w].channel)
    <3>1. pc[w] \in Delivering /\ job[w].channel \in Channels
      BY <2>5 DEF RecordEdit, AtStep, Delivering, Inductive, JobsHaveChannels
    <3>2. Changes(data, job[w].key) /\ Places(data, job[w].key, job[w].channel)
      BY <2>2, <3>1, EditResultStores DEF Inductive
    <3>3. mem' = data
      BY <2>5 DEF RecordEdit, Update, Saved, SaveFailed
    <3>4. Finish(w)
      BY <2>5 DEF RecordEdit
    <3> HIDE DEF data
    <3> QED
      BY <2>1, <3>1, <3>2, <3>3, <3>4, ResultObeys, FinishObeys DEF Orders
  <2>6. CASE RecordSend(w)
    <3> DEFINE data == SendResult(job[w].key, job[w].channel, job[w].message)
    <3>1. pc[w] \in Delivering /\ job[w].channel \in Channels
      BY <2>6 DEF RecordSend, AtStep, Delivering, Inductive, JobsHaveChannels
    <3>2. Changes(data, job[w].key) /\ Places(data, job[w].key, job[w].channel)
      BY <2>2, <3>1, SendResultStores DEF Inductive
    <3>3. mem' = data
      BY <2>6 DEF RecordSend, Update, Saved, SaveFailed
    <3>4. Finish(w)
      BY <2>6 DEF RecordSend
    <3> HIDE DEF data
    <3> QED
      BY <2>1, <3>1, <3>2, <3>3, <3>4, ResultObeys, FinishObeys DEF Orders
  <2>7. CASE RefreshWatched(w)
    BY <1>2, <2>1, <2>2, <2>7, SnapshotObeys DEF RefreshWatched, Orders
  <2> QED
    BY <1>3, <2>3, <2>4, <2>5, <2>6, <2>7 DEF RefreshStep
<1>4. CASE refreshDueDashboards
  BY <1>1, <1>4 DEF refreshDueDashboards, orders
<1>5. ASSUME NEW k \in Keys, refreshNext(k) PROVE Orders'
  <2>1. Loop \in Workers /\ Snapshot(Loop, k) /\ UNCHANGED <<mem, asked, raced>>
    BY <1>5 DEF refreshNext, Workers, orders
  <2> QED
    BY <1>2, <2>1, SnapshotObeys DEF Orders
<1>6. ASSUME NEW k \in Keys, IntervalElapses(k) PROVE Orders'
  <2>1. /\ mem' = IntervalElapsed(mem, k) /\ mem \in StoreData
        /\ UNCHANGED <<pc, job, asked, raced>>
    BY <1>6 DEF IntervalElapses, orders, Inductive, TypeOK
  <2>2. UnracedOrdersObeyed'
    BY <2>1, IntervalElapsedStores DEF Orders, UnracedOrdersObeyed
  <2> QED
    BY <2>1, <2>2 DEF Orders, JobsObeyOrders
<1>7. ASSUME NEW w \in Commands, NEW k \in Keys, NEW c \in Channels,
             WatchDashboardScope(w, k, c)
      PROVE  Orders'
  <2> DEFINE data == WatchResult(k, c)
  <2>1. Changes(data, k) /\ Places(data, k, c)
    BY WatchResultStores DEF Inductive
  <2>2. mem' = data /\ Ordered(k, c) /\ c # NoChannel
    BY <1>7, NamesAssumption DEF WatchDashboardScope, Saved, SaveFailed
  <2>3. \A v \in Workers : pc'[v] \in Delivering
                           => pc[v] \in Delivering /\ job'[v] = job[v]
    BY <1>7
    DEF WatchDashboardScope, Goto, Delivering, Inductive, TypeOK, Workers
  <2> HIDE DEF data
  <2> QED
    BY <2>1, <2>2, <2>3, OrderObeyed
<1>8. ASSUME NEW k \in Keys, UnwatchDashboardScope(k) PROVE Orders'
  <2> DEFINE data == UnwatchResult(k)
  <2>1. Changes(data, k) /\ data.watches[k] = NoWatch
    BY UnwatchResultStores DEF Inductive
  <2>2. mem' = data /\ Ordered(k, NoChannel) /\ UNCHANGED <<pc, job>>
    BY <1>8 DEF UnwatchDashboardScope, Update, Saved, SaveFailed
  <2> HIDE DEF data
  <2> QED
    BY <2>1, <2>2, OrderObeyed
<1>9. ASSUME NEW m \in Messages, DeleteMessage(m) PROVE Orders'
  BY <1>1, <1>9 DEF DeleteMessage, orders
<1>10. CASE Restart
  <2>1. \A k \in Keys \ raced' :
           k \in Keys \ raced /\ mem'.watches[k] = mem.watches[k]
    BY <1>10 DEF Restart
  <2>2. UNCHANGED asked /\ \A w \in Workers : pc'[w] \notin Delivering
    BY <1>10 DEF Restart, Delivering
  <2>3. UnracedOrdersObeyed'
    BY <2>1, <2>2 DEF Orders, UnracedOrdersObeyed
  <2> QED
    BY <2>2, <2>3 DEF Orders, JobsObeyOrders, Delivering
<1>11. CASE UNCHANGED vars
  BY <1>1, <1>11 DEF vars
<1> QED
  BY <1>3, <1>4, <1>5, <1>6, <1>7, <1>8, <1>9, <1>10, <1>11
  DEF Next, LoopStep, CommandStep

------------------------------------------------------------------------------
(* Dashboards that nobody knows of any more.                               *)

\* Whether a key comes out of the file does not depend on time.
LEMMA LoadedWhenever ==
    ASSUME disk \in StoreData, DiskMirrors, NEW isDue \in BOOLEAN, NEW k \in Keys,
           Loaded(disk, TRUE).watches[k] = NoWatch
    PROVE  Loaded(disk, isDue).watches[k] = NoWatch
<1> DEFINE migrates == /\ \A key \in Keys : disk.watches[key] = NoWatch
                       /\ \/ disk.legacyChannel # NoChannel
                          \/ disk.legacyMessage # NoMessage
<1>1. CASE k # All
  BY <1>1, LoadedKeepsOthers
<1>2. CASE ~migrates
  BY <1>2 DEF Loaded
<1>3. CASE migrates /\ k = All
  <2> DEFINE watch == [channel |-> disk.legacyChannel,
                       message |-> disk.legacyMessage, due |-> TRUE]
  <2>1. disk.legacyChannel \in Channels
    BY <1>3, StoredWatches DEF DiskMirrors, Mirrors
  <2>2. watch # NoWatch
    BY <2>1, StoredWatches, WatchRecord
  <2>3. Loaded(disk, TRUE) = [disk EXCEPT !.watches[All] = watch]
    BY <1>3 DEF Loaded
  <2> HIDE DEF watch
  <2>4. Loaded(disk, TRUE).watches[All] = watch
    BY <2>3 DEF StoreData, Keys
  <2> QED
    BY <1>3, <2>2, <2>4
<1> QED
  BY <1>1, <1>2, <1>3

\* An interval that elapses does not bring a key out of the file.
LEMMA LoadedAfterInterval ==
    ASSUME disk \in StoreData, NEW k \in Keys, NEW other \in Keys,
           Loaded(disk, TRUE).watches[k] = NoWatch
    PROVE  Loaded(IntervalElapsed(disk, other), TRUE).watches[k] = NoWatch
<1> DEFINE result == IntervalElapsed(disk, other)
<1>1. CASE \A key \in Keys : disk.watches[key] = NoWatch
  BY <1>1 DEF IntervalElapsed
<1>2. CASE ~\A key \in Keys : disk.watches[key] = NoWatch
  <2>1. Loaded(disk, TRUE) = disk
    BY <1>2 DEF Loaded
  <2>2. /\ ~\A key \in Keys : result.watches[key] = NoWatch
        /\ result.watches[k] = NoWatch
    BY <1>2, <2>1, IntervalElapsedStores
  <2> QED
    BY <2>2 DEF Loaded
<1> QED
  BY <1>1, <1>2

\* Storing a result about another key does not bring k back.
LEMMA UpdateForgets ==
    ASSUME Inductive, NEW k \in Keys, NEW other \in Keys \ {k}, Forgotten(k),
           NEW data, Changes(data, other), Update(data)
    PROVE  mem'.watches[k] = NoWatch /\ Loaded(disk', TRUE).watches[k] = NoWatch
<1>1. data \in StoreData /\ Mirrors(data) /\ data.watches[k] = NoWatch
  BY DEF Changes, Forgotten
<1>2. mem' = data /\ disk' \in {disk, data}
  BY <1>1, UpdateStores
<1>3. Loaded(data, TRUE) = data
  BY <1>1, LoadedKeepsConsistent
<1>4. CASE disk' = data
  BY <1>1, <1>2, <1>3, <1>4
<1>5. CASE disk' = disk
  BY <1>1, <1>2, <1>5 DEF Forgotten
<1> QED
  BY <1>2, <1>4, <1>5

\* No step but a command brings a forgotten dashboard back.
LEMMA StepForgets ==
    ASSUME Inductive, [Next]_vars, NEW k \in Keys, Forgotten(k),
           commands' = commands, Ordinary(k)
    PROVE  Forgotten(k)'
<1> USE DEF Inductive
<1>1. ASSUME UNCHANGED <<mem, disk>>, ~InFlight(k)' PROVE Forgotten(k)'
  BY <1>1 DEF Forgotten
<1>2. ASSUME NEW w \in Workers, RefreshStep(w) PROVE Forgotten(k)'
  <2>1. pc[w] # "idle" /\ job[w].key \in Keys /\ job[w].message \in MessageIds
    BY <1>2
    DEF RefreshStep, EditChannelMessage, EditFails, SendChannelMessage, SendFails,
        RecordEdit, RecordSend, RefreshWatched, AtStep, TypeOK, Job
  <2>2. job[w].key # k
    BY <2>1 DEF Forgotten, InFlight
  <2>3. ASSUME Finish(w) PROVE ~InFlight(k)'
    BY <2>3, FinishTypes DEF Forgotten, InFlight
  <2>4. CASE EditChannelMessage(w) \/ EditFails(w) \/ SendChannelMessage(w)
    <3>1. /\ \A v \in Workers \ {w} : pc'[v] = pc[v]
          /\ \A v \in Workers : job'[v].key = job[v].key
      BY <2>4
      DEF EditChannelMessage, EditFails, SendChannelMessage, Goto, TypeOK, Job
    <3>2. ~InFlight(k)'
      BY <2>2, <3>1 DEF Forgotten, InFlight
    <3> QED
      BY <1>1, <2>4, <3>2 DEF EditChannelMessage, EditFails, SendChannelMessage
  <2>5. CASE SendFails(w)
    BY <1>1, <2>3, <2>5 DEF SendFails
  <2>6. CASE RecordEdit(w)
    <3> DEFINE data == EditResult(job[w].key, job[w].channel)
    <3>1. job[w].channel \in Channels
      BY <2>6 DEF RecordEdit, AtStep, JobsHaveChannels, Delivering
    <3>2. Changes(data, job[w].key)
      BY <2>1, <3>1, EditResultStores
    <3>3. Update(data) /\ Finish(w)
      BY <2>6 DEF RecordEdit
    <3> HIDE DEF data
    <3> QED
      BY <2>1, <2>2, <2>3, <3>2, <3>3, UpdateForgets DEF Forgotten
  <2>7. CASE RecordSend(w)
    <3> DEFINE data == SendResult(job[w].key, job[w].channel, job[w].message)
    <3>1. job[w].channel \in Channels
      BY <2>7 DEF RecordSend, AtStep, JobsHaveChannels, Delivering
    <3>2. Changes(data, job[w].key)
      BY <2>1, <3>1, SendResultStores
    <3>3. Update(data) /\ Finish(w)
      BY <2>7 DEF RecordSend
    <3> HIDE DEF data
    <3> QED
      BY <2>1, <2>2, <2>3, <3>2, <3>3, UpdateForgets DEF Forgotten
  <2>8. CASE RefreshWatched(w)
    <3>1. Snapshot(w, job[w].key) /\ UNCHANGED <<mem, disk>>
      BY <2>8 DEF RefreshWatched
    <3>2. ~InFlight(k)'
      BY <2>1, <2>2, <3>1, SnapshotDecides DEF Forgotten, InFlight
    <3> QED
      BY <1>1, <3>1, <3>2
  <2> QED
    BY <1>2, <2>4, <2>5, <2>6, <2>7, <2>8 DEF RefreshStep
<1>3. CASE refreshDueDashboards
  BY <1>1, <1>3 DEF refreshDueDashboards, Forgotten, InFlight
<1>4. ASSUME NEW key \in Keys, refreshNext(key) PROVE Forgotten(k)'
  <2>1. Loop \in Workers /\ Snapshot(Loop, key) /\ UNCHANGED <<mem, disk>>
    BY <1>4 DEF refreshNext, Workers
  <2>2. ~InFlight(k)'
    BY <2>1, SnapshotDecides DEF Forgotten, InFlight, Ordinary
  <2> QED
    BY <1>1, <2>1, <2>2
<1>5. ASSUME NEW key \in Keys, IntervalElapses(key) PROVE Forgotten(k)'
  <2>1. mem' = IntervalElapsed(mem, key) /\ disk' = IntervalElapsed(disk, key)
        /\ UNCHANGED <<pc, job>>
    BY <1>5 DEF IntervalElapses
  <2>2. mem'.watches[k] = NoWatch
    BY <2>1, IntervalElapsedStores DEF TypeOK, Forgotten
  <2>3. Loaded(disk', TRUE).watches[k] = NoWatch
    BY <2>1, LoadedAfterInterval DEF TypeOK, Forgotten
  <2> QED
    BY <2>1, <2>2, <2>3 DEF Forgotten, InFlight
<1>6. CASE CommandStep
  BY <1>6 DEF CommandStep, WatchDashboardScope, UnwatchDashboardScope, Ordered, TypeOK
<1>7. ASSUME NEW m \in Messages, DeleteMessage(m) PROVE Forgotten(k)'
  BY <1>1, <1>7 DEF DeleteMessage, Forgotten, InFlight
<1>8. CASE Restart
  <2>1. PICK isDue \in BOOLEAN : mem' = Loaded(disk, isDue)
    BY <1>8 DEF Restart
  <2>2. mem'.watches[k] = NoWatch
    BY <2>1, LoadedWhenever DEF TypeOK, Forgotten
  <2>3. UNCHANGED disk /\ ~InFlight(k)'
    BY <1>8 DEF Restart, InFlight
  <2> QED
    BY <2>2, <2>3 DEF Forgotten
<1>9. CASE UNCHANGED vars
  BY <1>1, <1>9 DEF vars, Forgotten, InFlight
<1> QED
  BY <1>2, <1>3, <1>4, <1>5, <1>6, <1>7, <1>8, <1>9 DEF Next, LoopStep

------------------------------------------------------------------------------
(* The theorems.                                                           *)

\* Inductive holds initially and every step preserves it (refreshes, the loop,
\* the commands, time, deletions and restarts).
THEOREM InductiveInvariant == Spec => []Inductive
BY InductiveInit, InductiveNext, PTL DEF Spec

\* Every variable keeps its type: no refresh stores an entry without a channel.
THEOREM TypeCorrect == Spec => []TypeOK
<1>1. Inductive => TypeOK
  BY DEF Inductive
<1> QED
  BY <1>1, InductiveInvariant, PTL

\* The version 1 fields mirror the watch "all" after every refresh, command,
\* failed save and restart (UnwatchDashboardScope, migrateV2).
THEOREM LegacyFieldsMirror == Spec => []LegacyMirrorsAll
<1>1. Inductive => LegacyMirrorsAll
  BY DEF Inductive
<1> QED
  BY <1>1, InductiveInvariant, PTL

\* Orders that no refresh races with are obeyed for good, however many
\* goroutines refresh and whatever fails (WatchDashboardScope,
\* UnwatchDashboardScope, RefreshDashboardWatch).
THEOREM OrdersAreObeyed == Spec => []UnracedOrdersObeyed
<1>1. Init => Inductive /\ Orders
  BY InductiveInit, OrdersInit
<1>2. Inductive /\ Orders /\ [Next]_vars => (Inductive /\ Orders)'
  BY InductiveNext, OrdersNext
<1>3. Orders => UnracedOrdersObeyed
  BY DEF Orders
<1> QED
  BY <1>1, <1>2, <1>3, PTL DEF Spec

\* What no goroutine, no memory and no file knows of comes back only through a
\* command (early returns of RefreshDashboardWatch, Load).
THEOREM ForgottenIsForgotten == Spec => ForgottenStaysForgotten
<1>1. Inductive /\ [Next]_vars
      => [\A k \in Keys :
             Forgotten(k) /\ commands' = commands /\ (k = All => ~EnvEnabled)
             => Forgotten(k)']_vars
  BY StepForgets DEF Ordinary
<1> QED
  BY <1>1, InductiveInvariant, PTL DEF Spec, ForgottenStaysForgotten

=============================================================================
