------------------------- MODULE CalCachedCalendar -------------------------
(***************************************************************************)
(* The offline cache of a calendar: calendar/base/src/calCachedCalendar.js *)
(* with the offline flags of the storage calendar,                         *)
(* calendar/providers/storage/calStorageCalendar.js, over a provider that  *)
(* keeps no change log, such as that of ICS files.                         *)
(*                                                                         *)
(* An action is one event of the main thread: a call, the answer of the    *)
(* provider, the answer to an asynchronous reading of an offline flag, a   *)
(* listing of the cache, or one item of a loop of cal.forEach, which gives *)
(* way to other events.  The cache is a database file and survives a crash.*)
(*                                                                         *)
(* The contents of an item are the stamp of the change that made them;     *)
(* stamps grow, so that they stand for lastModifiedTime as well.  0 is the *)
(* content of an item that does not exist.  Left out: change logs,         *)
(* disabled calendars, recurring items, metadata, observers.               *)
(***************************************************************************)
EXTENDS Integers, FiniteSets

CONSTANTS
    Items,         \* the items, by their ids
    MaxClock,      \* bound: the changes that give an item new contents
    Edited,        \* bound: the items that the user changes
    Shared,        \* bound: those that another client changes
    Lossy          \* bound: those for which an answer of the server may be lost

ASSUME CacheAssumption ==
    /\ IsFiniteSet(Items)
    /\ Edited \subseteq Items /\ Shared \subseteq Items /\ Lossy \subseteq Items
    /\ MaxClock \in Nat \ {0}

VARIABLES
    server,        \* the contents at the server
    cache,         \* mCachedCalendar: contents and offline flag
    offline,       \* Services.io.offline
    clock,         \* the last stamp
    refreshing,    \* mUncachedCalendar.refresh has not sent onLoad yet
    phase,         \* how far the synchronisation has got
    queued,        \* mSyncQueue holds response functions
    snap,          \* offlineCachedItems and offlineCachedItemFlags
    fetched,       \* modifiedTimes: the items that the provider has returned
    todo,          \* the items that a loop of cal.forEach has before it
    play,          \* the playbacks of a synchronisation and of a failed one
    op,            \* the calls in progress
    owed,          \* history: offline changes since the cache was last renewed
                   \* that the server has not got
    seen,          \* history: what the server last told of its contents
    raced          \* history: items with changes that overlapped

vars == <<server, cache, offline, clock, refreshing, phase, queued, snap,
          fetched, todo, play, op, owed, seen, raced>>
syncVars == <<phase, queued, snap, fetched, todo>>

Flag == {"none", "created", "modified", "deleted"}
Stamp == 0..MaxClock
Absent == [content |-> 0, flag |-> "none"]
Nothing == -1                   \* no change is owed; a deletion is owed as 0

(* The calls of the user.  "ask": getItemOfflineFlag was called to choose  *)
(* between cache and provider.  "sent": the provider was called.  The      *)
(* others wait for the flag in the storage: "store" in modifyItem after    *)
(* the provider has agreed, "write" in the modifyItem of an offline        *)
(* change, "mark" in modifyOfflineItem, "drop" in deleteOfflineItem.       *)
(* flag: its value at the time of the call.                                *)
Call(st, k, c, f) == [stage |-> st, kind |-> k, content |-> c, flag |-> f]
NoCall == Call("idle", "none", 0, "none")
Busy(i) == op[i] # NoCall

(* A playback waits for a listing if cur is empty; queue and cur hold the  *)
(* items with the contents that they had in the listing.                   *)
Playback(s, q, c) == [stage |-> s, queue |-> q, cur |-> c]
NoPlayback == Playback("idle", {}, {})
StartPlayback == Playback("created", {}, {})
Playbacks == {"sync", "failed"}
Holds(p, i) == \E e \in p.queue \cup p.cur : e[1] = i
Playing(i) == \E w \in Playbacks : Holds(play[w], i)

(* A change of i now would meet another copy of it that will be written    *)
(* back: the one that the provider has read, or that of a playback.        *)
Window(i) == phase = "fetching" \/ (phase = "adding" /\ i \in todo) \/ Playing(i)
Meets(i) == raced' = IF Window(i) THEN raced \cup {i} ELSE raced
Doubled(i) == raced' = raced \cup {i}  \* new here, and at the server as well
Overtakes(S) == raced' = raced \cup {i \in S : Busy(i)}
-----------------------------------------------------------------------------
(* The storage calendar.  UPDATE has no effect on a row that is not there. *)

SetFlagAnyway(c, i, f) == [c EXCEPT ![i].flag = f]
                                  \* mutant: the row is taken to exist
SetFlag(c, i, f) == IF c[i].content = 0 THEN c ELSE [c EXCEPT ![i].flag = f]
Put(c, i, x) == [c EXCEPT ![i] = [content |-> x, flag |-> "none"]]
Remove(c, i) == [c EXCEPT ![i] = Absent]

JustWrite(c, i, x, f) == Put(c, i, x)     \* mutant: the flag is cleared
(* doModifyItem, with the flag that was read before. *)
DoModifyItem(c, i, x, f) == SetFlag(Put(c, i, x), i, f)

(* modifyOfflineItem and deleteOfflineItem, when the flag has been read. *)
ModifyOffline(c, i, f) ==
    IF f \in {"created", "deleted"} THEN c ELSE SetFlag(c, i, "modified")
DeleteOffline(c, i, f) ==
    IF f = "created" THEN Remove(c, i)
    ELSE IF f = "deleted" THEN c ELSE SetFlag(c, i, "deleted")

(* adoptItem and addOfflineItem: both are synchronous. *)
AdoptOffline(c, i, x) == SetFlag(Put(c, i, x), i, "created")

(* A flag that is read asynchronously is that of the call or that of now.  *)
FlagRead(i) == {op[i].flag, cache[i].flag}
-----------------------------------------------------------------------------
(* The provider: it does what it is asked or refuses; "lost" is a call     *)
(* that was done but is reported as unavailable.                           *)
Accepts(k, i) == IF k = "created" THEN server[i] = 0 ELSE server[i] # 0
Result(k, x) == IF k = "deleted" THEN 0 ELSE x
Answers(k, i) ==
    {"unavailable", "error"} \cup (IF Accepts(k, i) THEN {"ok"} ELSE {})
        \cup (IF Accepts(k, i) /\ i \in Lossy THEN {"lost"} ELSE {})
Done(answer, k, i, x) ==
    server' = IF answer \in {"ok", "lost"} THEN [server EXCEPT ![i] = Result(k, x)]
              ELSE server

-----------------------------------------------------------------------------
(* The calls of the user.  New items have new ids. *)

Visible(i) == cache[i].content # 0 /\ cache[i].flag # "deleted"
New(i) ==
    /\ cache[i].content = 0 /\ server[i] = 0 /\ snap[i].content = 0 /\ fetched[i] = 0
    /\ ~Playing(i) /\ ~Busy(i)

(* Another client adds, changes or deletes an item. *)
OtherClient(i) ==
    /\ i \in Shared
    /\ \/ /\ server[i] # 0 \/ New(i)
          /\ clock < MaxClock /\ clock' = clock + 1
          /\ server' = [server EXCEPT ![i] = clock + 1]
       \/ server[i] # 0 /\ server' = [server EXCEPT ![i] = 0] /\ UNCHANGED clock
    /\ UNCHANGED <<cache, offline, refreshing, syncVars, play, op, owed, seen, raced>>

(* adoptItem *)
AdoptItem(i) ==
    /\ i \in Edited /\ New(i)
    /\ clock < MaxClock /\ clock' = clock + 1
    /\ IF offline
       THEN /\ cache' = AdoptOffline(cache, i, clock + 1)
            /\ owed' = [owed EXCEPT ![i] = clock + 1]
            /\ Meets(i) /\ UNCHANGED op
       ELSE /\ op' = [op EXCEPT ![i] = Call("sent", "created", clock + 1, "none")]
            /\ Meets(i) /\ UNCHANGED <<cache, owed>>
    /\ UNCHANGED <<server, offline, refreshing, syncVars, play, seen>>

(* modifyItem and deleteItem *)
ModifyItem(i) ==
    /\ i \in Edited /\ Visible(i) /\ ~Busy(i)
    /\ clock < MaxClock /\ clock' = clock + 1
    /\ op' = [op EXCEPT ![i] =
                Call(IF offline THEN "write" ELSE "ask", "modified", clock + 1, cache[i].flag)]
    /\ Meets(i)
    /\ UNCHANGED <<server, cache, offline, refreshing, syncVars, play, owed, seen>>

DeleteItem(i) ==
    /\ i \in Edited /\ Visible(i) /\ ~Busy(i)
    /\ op' = [op EXCEPT ![i] =
                Call(IF offline THEN "drop" ELSE "ask", "deleted", 0, cache[i].flag)]
    /\ Meets(i)
    /\ UNCHANGED <<server, cache, offline, clock, refreshing, syncVars, play, owed, seen>>

Offline(k) == IF k = "deleted" THEN "drop" ELSE "write"

(* flagListener: an item with an offline flag is changed in the cache. *)
FlagAnswered(i) ==
    LET o == op[i] IN
    /\ o.stage = "ask"
    /\ \E f \in FlagRead(i) :
         op' = [op EXCEPT ![i] =
                  IF f \in {"created", "modified"}
                  THEN Call(Offline(o.kind), o.kind, o.content, cache[i].flag)
                  ELSE Call("sent", o.kind, o.content, "none")]
    /\ Meets(i)
    /\ UNCHANGED <<server, cache, offline, clock, refreshing, syncVars, play, owed, seen>>

(* cacheListener, with the change of the cache that follows at once. *)
ProviderAnswers(i) ==
    LET o == op[i]  k == o.kind IN
    /\ o.stage = "sent"
    /\ \E answer \in Answers(k, i) :
         /\ Done(answer, k, i, o.content)
         /\ IF answer = "ok" THEN seen' = [seen EXCEPT ![i] = Result(k, o.content)]
            ELSE UNCHANGED seen
         /\ owed' = IF answer = "ok" THEN [owed EXCEPT ![i] = Nothing]
                    ELSE IF answer # "error" /\ k = "created"
                    THEN [owed EXCEPT ![i] = o.content] ELSE owed
         /\ cache' = CASE answer = "ok" /\ k = "created" -> Put(cache, i, o.content)
                       [] answer = "ok" /\ k = "deleted" -> Remove(cache, i)
                       [] answer \in {"unavailable", "lost"} /\ k = "created"
                            -> AdoptOffline(cache, i, o.content)
                       [] OTHER -> cache
         /\ op' = [op EXCEPT ![i] =
                     CASE answer = "ok" /\ k = "modified"
                            -> Call("store", k, o.content, cache[i].flag)
                       [] answer \in {"unavailable", "lost"} /\ k # "created"
                            -> Call(Offline(k), k, o.content, cache[i].flag)
                       [] OTHER -> NoCall]
         /\ IF answer = "lost" /\ k = "created" THEN Doubled(i) ELSE Meets(i)
    /\ UNCHANGED <<offline, clock, refreshing, syncVars, play>>

(* The storage has read the flag, and goes on. *)
Stored(i) ==
    LET o == op[i] IN
    /\ o.stage \in {"store", "write", "mark", "drop"}
    /\ \E f \in FlagRead(i) :
         /\ cache' = CASE o.stage = "mark" -> ModifyOffline(cache, i, f)
                       [] o.stage = "drop" -> DeleteOffline(cache, i, f)
                       [] OTHER -> DoModifyItem(cache, i, o.content, f)
         /\ owed' = CASE o.stage = "mark" -> [owed EXCEPT ![i] = o.content]
                      [] o.stage = "drop"
                           -> [owed EXCEPT ![i] = IF f = "created" THEN Nothing ELSE 0]
                      [] OTHER -> owed
         /\ op' = [op EXCEPT ![i] =
                     IF o.stage = "write"
                     THEN Call("mark", o.kind, o.content, cache'[i].flag) ELSE NoCall]
    /\ Meets(i)
    /\ UNCHANGED <<server, offline, clock, refreshing, syncVars, play, seen>>
-----------------------------------------------------------------------------
(* Synchronisation: synchronize, called with another response function.    *)

Synchronize ==
    /\ IF queued \/ offline                \* offline: the queue is emptied at once
       THEN UNCHANGED <<phase, queued, snap>>
       ELSE /\ queued' = TRUE /\ phase' = "created"
            /\ snap' = [i \in Items |-> Absent]
    /\ UNCHANGED <<fetched, todo>>

(* refresh; onOfflineStatusChanged calls it too. *)
Refresh ==
    /\ IF offline THEN Synchronize /\ UNCHANGED refreshing
       ELSE refreshing' = TRUE /\ UNCHANGED syncVars
    /\ UNCHANGED <<server, cache, offline, clock, play, op, owed, seen, raced>>
GoOnline ==
    /\ offline /\ offline' = FALSE /\ refreshing' = TRUE
    /\ UNCHANGED <<server, cache, clock, syncVars, play, op, owed, seen, raced>>
GoOffline ==
    /\ ~offline /\ offline' = TRUE
    /\ UNCHANGED <<server, cache, clock, refreshing, syncVars, play, op, owed, seen, raced>>

(* onLoad of the provider. *)
Loaded ==
    /\ refreshing /\ refreshing' = FALSE /\ Synchronize
    /\ UNCHANGED <<server, cache, offline, clock, play, op, owed, seen, raced>>

PhaseAfter == [created |-> "modified", modified |-> "deleted", deleted |-> "fetching"]

(* getOfflineAddedItems and the listings after it. *)
ListOffline ==
    /\ phase \in DOMAIN PhaseAfter /\ phase' = PhaseAfter[phase]
    /\ snap' = [i \in Items |-> IF cache[i].flag = phase THEN cache[i] ELSE snap[i]]
    /\ UNCHANGED <<server, cache, offline, clock, refreshing, queued, fetched, todo,
                   play, op, owed, seen, raced>>

KeepCalendar(c) == c                  \* mutant: the cache is not emptied
(* setupCachedCalendar: deleteCalendar removes every item. *)
SetupCachedCalendar(c) == [i \in Items |-> Absent]

(* onGetResult.  The offline changes leave the cache with everything else, *)
(* and nothing brings them back: see Reconcile.                            *)
ItemsFetched ==
    /\ phase = "fetching" /\ phase' = "adding"
    /\ fetched' = server /\ seen' = server
    /\ cache' = SetupCachedCalendar(cache) /\ owed' = [i \in Items |-> Nothing]
    /\ todo' = {i \in Items : server[i] # 0}
    /\ raced' = raced \cup {i \in Items : Busy(i) \/ Holds(play["failed"], i)}
    /\ UNCHANGED <<server, offline, clock, refreshing, queued, snap, play, op>>

AddFetched(i) ==
    /\ phase = "adding" /\ i \in todo /\ todo' = todo \ {i}
    /\ cache' = Put(cache, i, fetched[i])
    /\ Overtakes({i})
    /\ UNCHANGED <<server, offline, clock, refreshing, phase, queued, snap, fetched,
                   play, op, owed, seen>>
(* onOperationComplete, that waits for the loop of onGetResult. *)
AllAdded ==
    /\ phase = "adding" /\ todo = {} /\ phase' = "reconciling"
    /\ UNCHANGED <<server, cache, offline, clock, refreshing, queued, snap, fetched,
                   todo, play, op, owed, seen, raced>>

RestoreBlindly(c) == [i \in Items |-> IF snap[i].flag = "none" THEN c[i] ELSE snap[i]]
                           \* mutant: offline items come back without a comparison
(* The loop over offlineCachedItems, a plain object: cal.forEach walks its *)
(* entries, pairs of a key and an item, whose hashId is undefined, so that *)
(* no case of the switch is ever taken.                                    *)
Reconcile(c) == c
AllReconciled ==
    /\ phase = "reconciling" /\ phase' = "playing"
    /\ cache' = Reconcile(cache)
    /\ snap' = [i \in Items |-> Absent] /\ fetched' = [i \in Items |-> 0]
    /\ play' = [play EXCEPT !["sync"] = StartPlayback]
    /\ UNCHANGED <<server, offline, clock, refreshing, queued, todo, op, owed, seen, raced>>

EmptyQueue == queued' = FALSE /\ phase' = "idle"
KeepQueue == phase' = "idle" /\ UNCHANGED queued   \* mutant: nobody is told of a failure
FetchFailed == EmptyQueue

(* onOperationComplete with an error, before the items or after them.  A   *)
(* bound: the playback of an earlier failure has ended.                    *)
FetchFails ==
    /\ phase = "fetching" \/ (phase = "adding" /\ todo = {})
    /\ play["failed"] = NoPlayback
    /\ play' = [play EXCEPT !["failed"] = StartPlayback]
    /\ FetchFailed
    /\ snap' = [i \in Items |-> Absent] /\ fetched' = [i \in Items |-> 0]
    /\ UNCHANGED <<server, cache, offline, clock, refreshing, todo, op, owed, seen, raced>>
-----------------------------------------------------------------------------
(* playbackOfflineItems *)

StageAfter == [created |-> "modified", modified |-> "deleted", deleted |-> "idle"]

(* popItemQueue *)
Popped(s, q) ==
    IF q = {} THEN {Playback(StageAfter[s], {}, {})}
    ELSE {Playback(s, q \ {e}, {e}) : e \in q}

(* The callback of a synchronisation's playback empties the queue, that of *)
(* a failed synchronisation sends onLoad.                                  *)
Continue(w, p) ==
    /\ play' = [play EXCEPT ![w] = p]
    /\ IF p = NoPlayback /\ w = "sync" THEN EmptyQueue ELSE UNCHANGED <<queued, phase>>
AbortSilently(w) ==               \* mutant: the callback is not called
    play' = [play EXCEPT ![w] = NoPlayback] /\ UNCHANGED <<queued, phase>>
Abort(w) == Continue(w, NoPlayback)

ListPlayback(w) ==
    LET p == play[w]  s == p.stage
        q == {<<i, cache[i].content>> : i \in {j \in Items : cache[j].flag = s}}
    IN /\ s # "idle" /\ p.cur = {}
       /\ IF offline THEN Abort(w) /\ UNCHANGED raced
          ELSE /\ \E next \in Popped(s, q) : Continue(w, next)
               /\ Overtakes({e[1] : e \in q})
       /\ UNCHANGED <<server, cache, offline, clock, refreshing, snap, fetched, todo,
                      op, owed, seen>>

ResetAnyway(s, i, answer) == SetFlag(cache, i, "none")   \* mutant: also on failure
(* opListener *)
PlayedBack(s, i, answer) ==
    IF answer # "ok" THEN cache
    ELSE IF s = "deleted" THEN Remove(cache, i)
    ELSE SetFlag(cache, i, "none")

PlaybackAnswered(w) ==
    LET p == play[w]  s == p.stage IN
    /\ \E e \in p.cur : \E answer \in Answers(s, e[1]) :
         LET i == e[1]  x == Result(s, e[2]) IN
         /\ Done(answer, s, i, e[2])
         /\ cache' = PlayedBack(s, i, answer)
         /\ seen' = IF answer = "ok" THEN [seen EXCEPT ![i] = x] ELSE seen
         /\ owed' = IF answer = "ok" /\ owed[i] = x THEN [owed EXCEPT ![i] = Nothing]
                    ELSE owed
         /\ IF answer = "lost" /\ s = "created" THEN Doubled(i) ELSE Overtakes({i})
    /\ \E next \in Popped(s, p.queue) : Continue(w, next)
    /\ UNCHANGED <<offline, clock, refreshing, snap, fetched, todo, op>>
-----------------------------------------------------------------------------
(* The application ends: the file of the cache is what is left.  A change  *)
(* in progress is lost, and the items that onGetResult has not added yet.  *)
Crash ==
    /\ raced' = raced \cup {i \in Items : Busy(i) \/ (phase = "adding" /\ i \in todo)}
    /\ phase' = "idle" /\ queued' = FALSE /\ refreshing' = FALSE
    /\ snap' = [i \in Items |-> Absent] /\ fetched' = [i \in Items |-> 0] /\ todo' = {}
    /\ play' = [w \in Playbacks |-> NoPlayback]
    /\ op' = [i \in Items |-> NoCall]
    /\ UNCHANGED <<server, cache, offline, clock, owed, seen>>

Init ==
    /\ server \in [Items -> {0, 1}] /\ seen = server /\ clock = 1
    /\ cache = [i \in Items |-> [content |-> server[i], flag |-> "none"]]
    /\ offline \in BOOLEAN /\ refreshing = FALSE
    /\ phase = "idle" /\ queued = FALSE
    /\ snap = [i \in Items |-> Absent] /\ fetched = [i \in Items |-> 0] /\ todo = {}
    /\ play = [w \in Playbacks |-> NoPlayback]
    /\ op = [i \in Items |-> NoCall]
    /\ owed = [i \in Items |-> Nothing] /\ raced = {}

SyncEvent ==
    \/ ListOffline \/ ItemsFetched \/ AllAdded \/ AllReconciled \/ FetchFails
    \/ \E i \in Items : AddFetched(i)
PlayEvent(w) == ListPlayback(w) \/ PlaybackAnswered(w)
UserCall(i) == AdoptItem(i) \/ ModifyItem(i) \/ DeleteItem(i)
CallEvent(i) == FlagAnswered(i) \/ ProviderAnswers(i) \/ Stored(i)

(* What begins something new.  A bound: after an overlap only what is      *)
(* under way is brought to its end.                                        *)
Begin ==
    /\ raced = {}
    /\ \/ Refresh \/ Loaded \/ GoOnline \/ GoOffline \/ Crash
       \/ \E i \in Items : UserCall(i) \/ OtherClient(i)

Next ==
    \/ Begin \/ SyncEvent
    \/ \E w \in Playbacks : PlayEvent(w)
    \/ \E i \in Items : CallEvent(i)

Spec == Init /\ [][Next]_vars

(* Events are served in some order, and calls of the provider are answered,*)
(* if only with an error.                                                  *)
Served == SyncEvent \/ \E w \in Playbacks : PlayEvent(w)
FairSpec == Spec /\ WF_vars(Served)
-----------------------------------------------------------------------------
CallType == [stage : {"idle", "ask", "sent", "store", "write", "mark", "drop"},
             kind : Flag, content : Stamp, flag : Flag]
PlaybackType == [stage : {"idle", "created", "modified", "deleted"},
                 queue : SUBSET (Items \X Stamp), cur : SUBSET (Items \X Stamp)]

(* Types; and an offline flag stands on an item that is there. *)
TypeOK ==
    /\ server \in [Items -> Stamp] /\ seen \in [Items -> Stamp] /\ clock \in Stamp
    /\ cache \in [Items -> [content : Stamp, flag : Flag]]
    /\ snap \in [Items -> [content : Stamp, flag : Flag]]
    /\ \A i \in Items : cache[i].content = 0 => cache[i].flag = "none"
    /\ offline \in BOOLEAN /\ refreshing \in BOOLEAN
    /\ phase \in {"idle", "created", "modified", "deleted", "fetching", "adding",
                  "reconciling", "playing"}
    /\ queued \in BOOLEAN
    /\ fetched \in [Items -> Stamp] /\ todo \subseteq Items
    /\ play \in [Playbacks -> PlaybackType]
    /\ op \in [Items -> CallType]
    /\ owed \in [Items -> Stamp \cup {Nothing}]
    /\ raced \subseteq Items

(* An offline change that nothing overlapped stays in the cache, under its *)
(* flag, until the server has it, it is withdrawn, or a synchronisation    *)
(* that succeeds renews the cache: calls that fail, playbacks, failed      *)
(* synchronisations and crashes do not lose it.                            *)
Keeps(r, x) == r.flag # "none" /\ x = (IF r.flag = "deleted" THEN 0 ELSE r.content)
NothingLost ==
    \A i \in Items \ raced : owed[i] # Nothing /\ ~Busy(i) => Keeps(cache[i], owed[i])

(* When nothing is under way, an item without an offline flag is as the    *)
(* server last told it to be.                                              *)
Quiet ==
    /\ phase = "idle" /\ \A w \in Playbacks : play[w] = NoPlayback
    /\ \A i \in Items : ~Busy(i)
MirrorsServer ==
    Quiet => \A i \in Items \ raced : cache[i].flag = "none" => cache[i].content = seen[i]

(* An offline flag tells which call will bring the item to the server:     *)
(* "created" stands on items that the server is not known to have, the     *)
(* others on items that it has, as far as the client knows.                *)
FlagFits ==
    \A i \in Items \ raced :
        /\ cache[i].flag = "created" => seen[i] = 0
        /\ cache[i].flag \in {"modified", "deleted"} => seen[i] # 0

(* mSyncQueue is not empty exactly while a synchronisation is under way:   *)
(* it is what keeps a second one from starting.                            *)
QueueIsLock == queued <=> phase # "idle"

(* A playback calls the provider without comparing anything; still, what   *)
(* the client has seen of the server is not replaced by something older.   *)
NothingOlder ==
    [][\A i \in Items \ raced :
         ~(0 < server'[i] /\ server'[i] < server[i] /\ server[i] = seen[i])]_vars

(* Items that were created offline are adopted again when a synchronisation*)
(* puts its snapshot away.                                                 *)
CreatedAreAdopted ==
    [][phase = "reconciling" /\ phase' = "playing" =>
         \A i \in Items \ raced : snap[i].flag = "created" => cache'[i] = snap[i]]_vars

(* Each synchronisation ends, and every response function is called.       *)
SyncEnds == queued ~> ~queued
=============================================================================
