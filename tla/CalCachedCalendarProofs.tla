---------------------- MODULE CalCachedCalendarProofs ----------------------
(***************************************************************************)
(* Proofs about CalCachedCalendar, for any items, stamps and bounds.       *)
(***************************************************************************)
EXTENDS CalCachedCalendar, TLAPS

Cached == [content : Stamp, flag : Flag]

(* A cache whose offline flags stand on items that are there. *)
CacheOK(c) ==
    /\ c \in [Items -> Cached]
    /\ \A i \in Items : c[i].content = 0 => c[i].flag = "none"

(* A playback that has ended has no item whose answer could still come.    *)
PlayOK(p) ==
    /\ p \in [Playbacks -> PlaybackType]
    /\ \A w \in Playbacks : p[w].stage = "idle" => p[w].cur = {}

CacheInv == TypeOK /\ QueueIsLock /\ PlayOK(play)
-----------------------------------------------------------------------------
(* The constants that the actions use have their types. *)
LEMMA Constants ==
    /\ 0 \in Stamp /\ Stamp \subseteq Int
    /\ Absent \in Cached /\ Absent.flag = "none"
    /\ NoCall \in CallType
    /\ NoPlayback \in PlaybackType /\ NoPlayback.cur = {}
    /\ StartPlayback \in PlaybackType /\ StartPlayback.cur = {}
  BY CacheAssumption DEF Stamp, Absent, Cached, Flag, NoCall, Call, CallType, NoPlayback,
     StartPlayback, Playback, PlaybackType

LEMMA CallTyped ==
    ASSUME NEW s \in {"idle", "ask", "sent", "store", "write", "mark", "drop"},
           NEW k \in Flag, NEW x \in Stamp, NEW f \in Flag
    PROVE  Call(s, k, x, f) \in CallType
  BY DEF Call, CallType

LEMMA SetFlagOK ==
    ASSUME NEW c, CacheOK(c), NEW i \in Items, NEW f \in Flag
    PROVE  CacheOK(SetFlag(c, i, f))
  BY DEF CacheOK, Cached, SetFlag

LEMMA PutOK ==
    ASSUME NEW c, CacheOK(c), NEW i \in Items, NEW x \in Stamp
    PROVE  CacheOK(Put(c, i, x))
  BY DEF CacheOK, Cached, Put, Flag

LEMMA RemoveOK ==
    ASSUME NEW c, CacheOK(c), NEW i \in Items
    PROVE  CacheOK(Remove(c, i))
  BY Constants DEF CacheOK, Remove

LEMMA OfflineOK ==
    ASSUME NEW c, CacheOK(c), NEW i \in Items, NEW x \in Stamp, NEW f \in Flag
    PROVE  /\ CacheOK(DoModifyItem(c, i, x, f)) /\ CacheOK(AdoptOffline(c, i, x))
           /\ CacheOK(ModifyOffline(c, i, f)) /\ CacheOK(DeleteOffline(c, i, f))
  <1>1. CacheOK(Put(c, i, x))
    BY PutOK
  <1>2. {"created", "modified", "deleted"} \subseteq Flag
    BY DEF Flag
  <1> QED
    BY <1>1, <1>2, SetFlagOK, RemoveOK
       DEF DoModifyItem, AdoptOffline, ModifyOffline, DeleteOffline

(* The provider's contents stay stamps. *)
LEMMA DoneTyped ==
    ASSUME NEW i \in Items, NEW x \in Stamp, NEW answer, NEW k,
           server \in [Items -> Stamp], Done(answer, k, i, x)
    PROVE  server' \in [Items -> Stamp] /\ Result(k, x) \in Stamp
  BY Constants DEF Done, Result

(* What a playback goes on with. *)
LEMMA PoppedOK ==
    ASSUME NEW s \in {"created", "modified", "deleted"}, NEW q \in SUBSET (Items \X Stamp),
           NEW p \in Popped(s, q)
    PROVE  p \in PlaybackType /\ (p.stage = "idle" => p.cur = {})
  <1>1. CASE q = {}
    <2>1. StageAfter[s] \in {"idle", "created", "modified", "deleted"}
      BY DEF StageAfter
    <2>2. p = Playback(StageAfter[s], {}, {})
      BY <1>1 DEF Popped
    <2> QED
      BY <2>1, <2>2 DEF Playback, PlaybackType
  <1>2. CASE q # {}
    <2>1. PICK e \in q : p = Playback(s, q \ {e}, {e})
      BY <1>2 DEF Popped
    <2> QED
      BY <2>1 DEF Playback, PlaybackType
  <1> QED
    BY <1>1, <1>2

LEMMA ContinueOK ==
    ASSUME CacheInv, NEW w \in Playbacks, NEW p \in PlaybackType,
           p.stage = "idle" => p.cur = {}, Continue(w, p)
    PROVE  /\ PlayOK(play')
           /\ (queued' <=> phase' # "idle") /\ queued' \in BOOLEAN
           /\ phase' \in {phase, "idle"}
  BY DEF CacheInv, PlayOK, TypeOK, QueueIsLock, Continue, EmptyQueue
-----------------------------------------------------------------------------
LEMMA CacheInit == Init => CacheInv
  <1> SUFFICES ASSUME Init PROVE CacheInv
    OBVIOUS
  <1>1. server \in [Items -> Stamp] /\ clock \in Stamp
    BY CacheAssumption DEF Init, Stamp
  <1>2. CacheOK(cache)
    BY <1>1 DEF Init, CacheOK, Cached, Flag
  <1>3. snap \in [Items -> Cached] /\ fetched \in [Items -> Stamp]
    BY Constants DEF Init
  <1>4. op \in [Items -> CallType] /\ PlayOK(play)
    BY Constants DEF Init, PlayOK
  <1> QED
    BY <1>1, <1>2, <1>3, <1>4
       DEF Init, CacheInv, TypeOK, QueueIsLock, CacheOK, PlayOK, Cached
-----------------------------------------------------------------------------
(* The calls of the user and what they wait for. *)
LEMMA CallsKeep ==
    ASSUME CacheInv, NEW i \in Items,
           OtherClient(i) \/ UserCall(i) \/ CallEvent(i)
    PROVE  CacheInv'
  <1>0. CacheOK(cache) /\ cache[i] \in Cached /\ cache[i].flag \in Flag
        /\ PlayOK(play) /\ raced \cup {i} \subseteq Items
    BY DEF CacheInv, TypeOK, CacheOK, Cached
  <1>1. clock < MaxClock => clock + 1 \in Stamp
    BY CacheAssumption DEF CacheInv, TypeOK, Stamp
  <1>2. \A r \in CallType : [op EXCEPT ![i] = r] \in [Items -> CallType]
    BY DEF CacheInv, TypeOK
  <1>4. CASE OtherClient(i)
    <2>1. server' \in [Items -> Stamp] /\ clock' \in Stamp
      BY <1>1, <1>4, Constants DEF OtherClient, CacheInv, TypeOK
    <2> QED
      BY <1>4, <2>1 DEF OtherClient, CacheInv, TypeOK, QueueIsLock, PlayOK, syncVars
  <1>5. CASE AdoptItem(i)
    <2>1. clock' = clock + 1 /\ clock + 1 \in Stamp /\ raced' \subseteq Items
      BY <1>0, <1>1, <1>5 DEF AdoptItem, Meets, CacheInv, TypeOK
    <2>2. CacheOK(cache')
      <3>1. CacheOK(AdoptOffline(cache, i, clock + 1))
        BY <1>0, <2>1, OfflineOK DEF Flag
      <3> QED
        BY <1>0, <1>5, <3>1 DEF AdoptItem
    <2>3. op' \in [Items -> CallType] /\ owed' \in [Items -> Stamp \cup {Nothing}]
      <3>1. CASE offline
        BY <1>5, <2>1, <3>1 DEF AdoptItem, CacheInv, TypeOK
      <3>2. CASE ~offline
        <4>1. PICK r \in CallType : op' = [op EXCEPT ![i] = r]
          <5>1. Call("sent", "created", clock + 1, "none") \in CallType
            BY <2>1, CallTyped DEF Flag
          <5> QED
            BY <1>5, <3>2, <5>1 DEF AdoptItem
        <4>2. owed' = owed
          BY <1>5, <3>2 DEF AdoptItem
        <4> QED
          BY <1>2, <4>1, <4>2 DEF CacheInv, TypeOK
      <3> QED
        BY <3>1, <3>2
    <2> QED
      BY <1>5, <2>1, <2>2, <2>3
         DEF AdoptItem, CacheInv, TypeOK, QueueIsLock, PlayOK, CacheOK, Cached, syncVars
  <1>6. CASE ModifyItem(i) \/ DeleteItem(i)
    <2>1. clock' \in Stamp /\ raced' \subseteq Items
      BY <1>0, <1>1, <1>6 DEF ModifyItem, DeleteItem, Meets, CacheInv, TypeOK
    <2>2. PICK r \in CallType : op' = [op EXCEPT ![i] = r]
      <3>1. CASE ModifyItem(i)
        <4>1. PICK s \in {"write", "ask"} :
                op' = [op EXCEPT ![i] = Call(s, "modified", clock + 1, cache[i].flag)]
          BY <3>1 DEF ModifyItem
        <4>2. clock + 1 \in Stamp /\ "modified" \in Flag
          BY <1>1, <3>1 DEF ModifyItem, Flag
        <4> QED
          BY <1>0, <4>1, <4>2, CallTyped
      <3>2. CASE DeleteItem(i)
        <4>1. PICK s \in {"drop", "ask"} :
                op' = [op EXCEPT ![i] = Call(s, "deleted", 0, cache[i].flag)]
          BY <3>2 DEF DeleteItem
        <4>2. 0 \in Stamp /\ "deleted" \in Flag
          BY Constants DEF Flag
        <4> QED
          BY <1>0, <4>1, <4>2, CallTyped
      <3> QED
        BY <1>6, <3>1, <3>2
    <2>3. op' \in [Items -> CallType]
      BY <1>2, <2>2
    <2>4. UNCHANGED <<server, cache, offline, refreshing, syncVars, play, owed, seen>>
      BY <1>6 DEF ModifyItem, DeleteItem
    <2> QED
      BY <2>1, <2>3, <2>4 DEF CacheInv, TypeOK, QueueIsLock, PlayOK, syncVars
  <1> DEFINE o == op[i]
  <1>7. /\ o \in CallType /\ o.kind \in Flag /\ o.content \in Stamp /\ o.flag \in Flag
        /\ \A k \in Flag : Offline(k) \in {"drop", "write"}
    BY DEF CacheInv, TypeOK, CallType, Offline
  <1>8. CASE FlagAnswered(i)
    <2>1. PICK r \in CallType : op' = [op EXCEPT ![i] = r]
      <3>1. "none" \in Flag
        BY DEF Flag
      <3> QED
        BY <1>0, <1>7, <1>8, <3>1, CallTyped DEF FlagAnswered
    <2>2. op' \in [Items -> CallType] /\ raced' \subseteq Items
      BY <1>0, <1>2, <1>8, <2>1 DEF FlagAnswered, Meets, CacheInv, TypeOK
    <2>3. UNCHANGED <<server, cache, offline, clock, refreshing, syncVars, play, owed, seen>>
      BY <1>8 DEF FlagAnswered
    <2> QED
      BY <2>2, <2>3 DEF CacheInv, TypeOK, QueueIsLock, PlayOK, syncVars
  <1>9. CASE ProviderAnswers(i)
    <2>1. PICK answer \in Answers(o.kind, i) :
         /\ Done(answer, o.kind, i, o.content)
         /\ IF answer = "ok" THEN seen' = [seen EXCEPT ![i] = Result(o.kind, o.content)]
            ELSE UNCHANGED seen
         /\ owed' = IF answer = "ok" THEN [owed EXCEPT ![i] = Nothing]
                    ELSE IF answer # "error" /\ o.kind = "created"
                    THEN [owed EXCEPT ![i] = o.content] ELSE owed
         /\ cache' = CASE answer = "ok" /\ o.kind = "created" -> Put(cache, i, o.content)
                       [] answer = "ok" /\ o.kind = "deleted" -> Remove(cache, i)
                       [] answer \in {"unavailable", "lost"} /\ o.kind = "created"
                            -> AdoptOffline(cache, i, o.content)
                       [] OTHER -> cache
         /\ op' = [op EXCEPT ![i] =
                     CASE answer = "ok" /\ o.kind = "modified"
                            -> Call("store", o.kind, o.content, cache[i].flag)
                       [] answer \in {"unavailable", "lost"} /\ o.kind # "created"
                            -> Call(Offline(o.kind), o.kind, o.content, cache[i].flag)
                       [] OTHER -> NoCall]
         /\ IF answer = "lost" /\ o.kind = "created" THEN Doubled(i) ELSE Meets(i)
      BY <1>9 DEF ProviderAnswers
    <2>2. server' \in [Items -> Stamp] /\ seen' \in [Items -> Stamp]
      <3>1. server' \in [Items -> Stamp] /\ Result(o.kind, o.content) \in Stamp
        BY <1>7, <2>1, DoneTyped DEF CacheInv, TypeOK
      <3> QED
        BY <2>1, <3>1 DEF CacheInv, TypeOK
    <2>3. owed' \in [Items -> Stamp \cup {Nothing}] /\ raced' \subseteq Items
      BY <1>0, <1>7, <2>1 DEF CacheInv, TypeOK, Meets, Doubled
    <2>4. CacheOK(cache')
      BY <1>0, <1>7, <2>1, PutOK, RemoveOK, OfflineOK
    <2>5. PICK r \in CallType : op' = [op EXCEPT ![i] = r]
      <3>1. Call("store", o.kind, o.content, cache[i].flag) \in CallType
            /\ Call(Offline(o.kind), o.kind, o.content, cache[i].flag) \in CallType
        BY <1>0, <1>7, CallTyped
      <3> QED
        BY <2>1, <3>1, Constants
    <2>6. op' \in [Items -> CallType]
      BY <1>2, <2>5
    <2>7. UNCHANGED <<offline, clock, refreshing, syncVars, play>>
      BY <1>9 DEF ProviderAnswers
    <2> QED
      BY <2>2, <2>3, <2>4, <2>6, <2>7
         DEF CacheInv, TypeOK, QueueIsLock, PlayOK, CacheOK, Cached, syncVars
  <1>10. CASE Stored(i)
    <2>1. FlagRead(i) \subseteq Flag
      BY <1>0, <1>7 DEF FlagRead
    <2>2. PICK f \in FlagRead(i) :
         /\ cache' = CASE o.stage = "mark" -> ModifyOffline(cache, i, f)
                       [] o.stage = "drop" -> DeleteOffline(cache, i, f)
                       [] OTHER -> DoModifyItem(cache, i, o.content, f)
         /\ owed' = CASE o.stage = "mark" -> [owed EXCEPT ![i] = o.content]
                      [] o.stage = "drop"
                           -> [owed EXCEPT ![i] = IF f = "created" THEN Nothing ELSE 0]
                      [] OTHER -> owed
         /\ op' = [op EXCEPT ![i] =
                     IF o.stage = "write"
                     THEN Call("mark", o.kind, o.content, cache'[i].flag) ELSE NoCall]
      BY <1>10 DEF Stored
    <2>3. CacheOK(cache')
      BY <1>0, <1>7, <2>1, <2>2, OfflineOK
    <2>4. owed' \in [Items -> Stamp \cup {Nothing}] /\ raced' \subseteq Items
      BY <1>0, <1>7, <1>10, <2>2, Constants DEF Stored, CacheInv, TypeOK, Meets
    <2>5. PICK c \in CallType : op' = [op EXCEPT ![i] = c]
      <3>1. cache'[i].flag \in Flag
        BY <2>3 DEF CacheOK, Cached
      <3>2. Call("mark", o.kind, o.content, cache'[i].flag) \in CallType
        BY <1>7, <3>1, CallTyped
      <3> QED
        BY <2>2, <3>2, Constants
    <2>6. op' \in [Items -> CallType]
      BY <1>2, <2>5
    <2>7. UNCHANGED <<server, offline, clock, refreshing, syncVars, play, seen>>
      BY <1>10 DEF Stored
    <2> QED
      BY <2>3, <2>4, <2>6, <2>7
         DEF CacheInv, TypeOK, QueueIsLock, PlayOK, CacheOK, Cached, syncVars
  <1> QED
    BY <1>4, <1>5, <1>6, <1>8, <1>9, <1>10 DEF UserCall, CallEvent
-----------------------------------------------------------------------------
(* The events of a synchronisation. *)
LEMMA SyncKeeps == CacheInv /\ SyncEvent => CacheInv'
  <1> SUFFICES ASSUME CacheInv, SyncEvent PROVE CacheInv'
    OBVIOUS
  <1>0. CacheOK(cache) /\ PlayOK(play) /\ \A i \in Items : raced \cup {i} \subseteq Items
    BY DEF CacheInv, TypeOK, CacheOK, Cached
  <1>1. \A S \in SUBSET Items : Overtakes(S) => raced' \subseteq Items
    BY DEF CacheInv, TypeOK, Overtakes
  <1>2. {"sync", "failed"} = Playbacks
    BY DEF Playbacks
  <1>3. CASE ListOffline
    <2>1. phase' \in {"modified", "deleted", "fetching"} /\ phase # "idle"
      BY <1>3 DEF ListOffline, PhaseAfter
    <2>2. snap' \in [Items -> Cached]
      BY <1>3 DEF ListOffline, CacheInv, TypeOK, Cached
    <2> QED
      BY <1>3, <2>1, <2>2 DEF ListOffline, CacheInv, TypeOK, QueueIsLock, PlayOK, Cached
  <1>4. CASE ItemsFetched
    <2>1. CacheOK(cache') /\ raced' \subseteq Items /\ todo' \subseteq Items
      BY <1>4, Constants
         DEF ItemsFetched, SetupCachedCalendar, CacheOK, CacheInv, TypeOK
    <2>2. fetched' \in [Items -> Stamp] /\ seen' \in [Items -> Stamp]
          /\ owed' \in [Items -> Stamp \cup {Nothing}]
      BY <1>4 DEF ItemsFetched, CacheInv, TypeOK
    <2> QED
      BY <1>4, <2>1, <2>2
         DEF ItemsFetched, CacheInv, TypeOK, QueueIsLock, PlayOK, CacheOK, Cached
  <1>5. CASE AllAdded
    BY <1>5 DEF AllAdded, CacheInv, TypeOK, QueueIsLock, PlayOK
  <1>6. CASE AllReconciled
    <2>1. PlayOK(play')
      BY <1>0, <1>6, Constants DEF AllReconciled, PlayOK
    <2>2. snap' \in [Items -> Cached] /\ fetched' \in [Items -> Stamp]
      BY <1>6, Constants DEF AllReconciled
    <2> QED
      BY <1>6, <2>1, <2>2 DEF AllReconciled, Reconcile, CacheInv, TypeOK, QueueIsLock, PlayOK, Cached
  <1>7. CASE FetchFails
    <2>1. PlayOK(play')
      BY <1>0, <1>7, Constants DEF FetchFails, PlayOK
    <2>2. snap' \in [Items -> Cached] /\ fetched' \in [Items -> Stamp]
      BY <1>7, Constants DEF FetchFails
    <2> QED
      BY <1>7, <2>1, <2>2
         DEF FetchFails, FetchFailed, EmptyQueue, CacheInv, TypeOK, QueueIsLock, PlayOK, Cached
  <1>8. ASSUME NEW i \in Items, AddFetched(i) PROVE CacheInv'
    <2>1. CacheOK(cache')
      BY <1>0, <1>8, PutOK DEF AddFetched, CacheInv, TypeOK
    <2>2. raced' \subseteq Items
      BY <1>1, <1>8 DEF AddFetched
    <2> QED
      BY <1>8, <2>1, <2>2
         DEF AddFetched, CacheInv, TypeOK, QueueIsLock, PlayOK, CacheOK, Cached
  <1> QED
    BY <1>3, <1>4, <1>5, <1>6, <1>7, <1>8 DEF SyncEvent

(* The events of a playback. *)
LEMMA PlayKeeps ==
    ASSUME CacheInv, NEW w \in Playbacks, PlayEvent(w)
    PROVE  CacheInv'
  <1>0. CacheOK(cache) /\ PlayOK(play) /\ play[w] \in PlaybackType
        /\ \A S \in SUBSET Items : Overtakes(S) => raced' \subseteq Items
    BY DEF CacheInv, TypeOK, CacheOK, Cached, PlayOK, Overtakes
  <1> DEFINE p == play[w]
             s == p.stage
  <1>1. s \in {"idle", "created", "modified", "deleted"} /\ p.cur \subseteq Items \X Stamp
        /\ p.queue \subseteq Items \X Stamp
    BY <1>0 DEF PlaybackType
  <1>2. CASE ListPlayback(w)
    <2> DEFINE q == {<<i, cache[i].content>> : i \in {j \in Items : cache[j].flag = s}}
    <2>1. q \subseteq Items \X Stamp /\ {e[1] : e \in q} \subseteq Items
      BY DEF CacheInv, TypeOK
    <2>2. s \in {"created", "modified", "deleted"}
      BY <1>1, <1>2 DEF ListPlayback
    <2>3. PICK n \in PlaybackType : Continue(w, n) /\ (n.stage = "idle" => n.cur = {})
      <3>1. CASE offline
        BY <1>2, <3>1, Constants DEF ListPlayback, Abort
      <3>2. CASE ~offline
        <4>1. PICK n \in Popped(s, q) : Continue(w, n)
          BY <1>2, <3>2 DEF ListPlayback
        <4> HIDE DEF s, q
        <4> QED
          BY <2>1, <2>2, <4>1, PoppedOK
      <3> QED
        BY <3>1, <3>2
    <2>4. raced' \subseteq Items
      BY <1>0, <1>2, <2>1 DEF ListPlayback, CacheInv, TypeOK
    <2>5. /\ PlayOK(play') /\ (queued' <=> phase' # "idle") /\ queued' \in BOOLEAN
          /\ phase' \in {phase, "idle"}
      BY <2>3, ContinueOK
    <2>6. UNCHANGED <<server, cache, offline, clock, refreshing, snap, fetched, todo,
                      op, owed, seen>>
      BY <1>2 DEF ListPlayback
    <2> QED
      BY <2>4, <2>5, <2>6 DEF CacheInv, TypeOK, QueueIsLock, PlayOK
  <1>3. CASE PlaybackAnswered(w)
    <2>1. PICK e \in p.cur : \E answer \in Answers(s, e[1]) :
         LET i == e[1]  x == Result(s, e[2]) IN
         /\ Done(answer, s, i, e[2])
         /\ cache' = PlayedBack(s, i, answer)
         /\ seen' = IF answer = "ok" THEN [seen EXCEPT ![i] = x] ELSE seen
         /\ owed' = IF answer = "ok" /\ owed[i] = x THEN [owed EXCEPT ![i] = Nothing]
                    ELSE owed
         /\ IF answer = "lost" /\ s = "created" THEN Doubled(i) ELSE Overtakes({i})
      BY <1>3 DEF PlaybackAnswered
    <2>2. PICK i \in Items, x \in Stamp : e = <<i, x>>
      BY <1>1, <2>1
    <2>3. PICK answer \in Answers(s, i) :
         /\ Done(answer, s, i, x)
         /\ cache' = PlayedBack(s, i, answer)
         /\ seen' = IF answer = "ok" THEN [seen EXCEPT ![i] = Result(s, x)] ELSE seen
         /\ owed' = IF answer = "ok" /\ owed[i] = Result(s, x)
                    THEN [owed EXCEPT ![i] = Nothing] ELSE owed
         /\ Doubled(i) \/ Overtakes({i})
      BY <2>1, <2>2
    <2>4. s \in {"created", "modified", "deleted"}
      BY <1>0, <1>1, <2>1 DEF PlayOK
    <2>5. server' \in [Items -> Stamp] /\ seen' \in [Items -> Stamp]
          /\ owed' \in [Items -> Stamp \cup {Nothing}]
      <3> HIDE DEF s
      <3>1. server' \in [Items -> Stamp] /\ Result(s, x) \in Stamp
        BY <2>3, DoneTyped DEF CacheInv, TypeOK
      <3> QED
        BY <2>3, <3>1 DEF CacheInv, TypeOK
    <2>6. CacheOK(cache')
      <3>1. "none" \in Flag
        BY DEF Flag
      <3> QED
        BY <1>0, <2>3, <3>1, SetFlagOK, RemoveOK DEF PlayedBack
    <2>7. raced' \subseteq Items
      BY <1>0, <2>3 DEF Doubled, CacheInv, TypeOK
    <2>8. PICK n \in PlaybackType : Continue(w, n) /\ (n.stage = "idle" => n.cur = {})
      <3>1. PICK n \in Popped(s, p.queue) : Continue(w, n)
        BY <1>3 DEF PlaybackAnswered
      <3> DEFINE rest == p.queue
      <3>2. rest \in SUBSET (Items \X Stamp)
        BY <1>1
      <3> HIDE DEF s, rest
      <3>3. n \in Popped(s, rest)
        BY <3>1 DEF rest
      <3> QED
        BY <2>4, <3>1, <3>2, <3>3, PoppedOK
    <2>9. /\ PlayOK(play') /\ (queued' <=> phase' # "idle") /\ queued' \in BOOLEAN
          /\ phase' \in {phase, "idle"}
      BY <2>8, ContinueOK
    <2>10. UNCHANGED <<offline, clock, refreshing, snap, fetched, todo, op>>
      BY <1>3 DEF PlaybackAnswered
    <2> QED
      BY <2>5, <2>6, <2>7, <2>9, <2>10
         DEF CacheInv, TypeOK, QueueIsLock, PlayOK, CacheOK, Cached
  <1> QED
    BY <1>2, <1>3 DEF PlayEvent

(* Refreshes, changes of the status, and crashes. *)
LEMMA BeginKeeps ==
    CacheInv /\ (Refresh \/ Loaded \/ GoOnline \/ GoOffline \/ Crash) => CacheInv'
  <1> SUFFICES ASSUME CacheInv, Refresh \/ Loaded \/ GoOnline \/ GoOffline \/ Crash
               PROVE  CacheInv'
    OBVIOUS
  <1>1. ASSUME Synchronize
        PROVE  /\ phase' \in {phase, "created"} /\ queued' \in BOOLEAN
               /\ queued' <=> phase' # "idle"
               /\ snap' \in [Items -> Cached]
               /\ UNCHANGED <<fetched, todo>>
    <2>1. CASE queued \/ offline
      BY <1>1, <2>1 DEF Synchronize, CacheInv, TypeOK, QueueIsLock, Cached
    <2>2. CASE ~(queued \/ offline)
      <3>1. queued' = TRUE /\ phase' = "created" /\ snap' = [i \in Items |-> Absent]
            /\ UNCHANGED <<fetched, todo>>
        BY <1>1, <2>2 DEF Synchronize
      <3> QED
        BY <3>1, Constants
    <2> QED
      BY <2>1, <2>2
  <1>2. CASE Refresh
    BY <1>1, <1>2 DEF Refresh, CacheInv, TypeOK, QueueIsLock, PlayOK, syncVars, Cached
  <1>3. CASE Loaded
    BY <1>1, <1>3 DEF Loaded, CacheInv, TypeOK, QueueIsLock, PlayOK, Cached
  <1>4. CASE GoOnline \/ GoOffline
    <2>1. /\ offline' \in BOOLEAN /\ refreshing' \in BOOLEAN
          /\ UNCHANGED <<server, cache, clock, phase, queued, snap, fetched, todo,
                         play, op, owed, seen, raced>>
      BY <1>4 DEF GoOnline, GoOffline, syncVars, CacheInv, TypeOK
    <2> QED
      BY <2>1 DEF CacheInv, TypeOK, QueueIsLock, PlayOK
  <1>5. CASE Crash
    <2>1. /\ snap' \in [Items -> Cached] /\ fetched' \in [Items -> Stamp]
          /\ op' \in [Items -> CallType]
          /\ PlayOK(play') /\ raced' \subseteq Items
      BY <1>5, Constants DEF Crash, PlayOK, CacheInv, TypeOK
    <2> QED
      BY <1>5, <2>1 DEF Crash, CacheInv, TypeOK, QueueIsLock, PlayOK, Cached
  <1> QED
    BY <1>2, <1>3, <1>4, <1>5

LEMMA CacheStep == CacheInv /\ [Next]_vars => CacheInv'
  <1> SUFFICES ASSUME CacheInv, [Next]_vars PROVE CacheInv'
    OBVIOUS
  <1>1. CASE Next
    BY <1>1, CallsKeep, SyncKeeps, PlayKeeps, BeginKeeps DEF Next, Begin
  <1>2. CASE UNCHANGED vars
    BY <1>2 DEF vars, syncVars, CacheInv, TypeOK, QueueIsLock, PlayOK
  <1> QED
    BY <1>1, <1>2

LEMMA CacheInvariant == Spec => []CacheInv
  BY CacheInit, CacheStep, PTL DEF Spec

(* Every variable keeps its type, and an offline flag stands only on an    *)
(* item that is in the cache, whatever overlaps, fails or crashes.         *)
THEOREM CacheTypeCorrect == Spec => []TypeOK
  <1>1. CacheInv => TypeOK
    BY DEF CacheInv
  <1> QED
    BY <1>1, CacheInvariant, PTL

(* The queue of response functions is a lock: it is taken by every         *)
(* synchronisation, and given back on every way one can end.               *)
THEOREM LockIsFreed == Spec => []QueueIsLock
  <1>1. CacheInv => QueueIsLock
    BY DEF CacheInv
  <1> QED
    BY <1>1, CacheInvariant, PTL

-----------------------------------------------------------------------------
(* What the parts of an item say of one another while nothing has          *)
(* overlapped a change of it.                                              *)

(* The cache has been emptied, and the item is to be added again. *)
Adding(i) == phase = "adding" /\ i \in todo

(* The playback of a synchronisation comes last. *)
PhasesOK == phase # "playing" => play["sync"] = NoPlayback

(* Contents are made by changes of the past; those of a call are newer     *)
(* than what the server has told, and those of an offline change are not   *)
(* older.                                                                  *)
Dated(i) ==
    /\ server[i] <= clock /\ seen[i] <= clock /\ cache[i].content <= clock
    /\ op[i].content <= clock
    /\ op[i].kind \in {"created", "modified"} /\ op[i].stage # "store" =>
          seen[i] < op[i].content
    /\ cache[i].flag = "modified" => seen[i] <= cache[i].content

(* A call of the user: what it has read still holds, and its kind fits.    *)
Offered(i) ==
    LET c == cache[i]  o == op[i] IN
    /\ o.stage \in {"ask", "sent", "store", "write", "mark", "drop"}
    /\ o.stage # "sent" => o.flag = c.flag
    /\ o.stage \in {"sent", "store"} => c.flag = "none"
    /\ o.stage \in {"store", "write", "mark"} => o.kind = "modified"
    /\ o.stage = "drop" => o.kind = "deleted"
    /\ o.stage = "store" => seen[i] = o.content
    /\ o.stage = "mark" => c.content = o.content
    /\ o.kind \in {"created", "modified", "deleted"}
    /\ o.kind = "created" => o.stage = "sent" /\ c.content = 0 /\ server[i] = 0
    /\ o.kind # "created" =>
          c.content # 0 /\ c.flag # "deleted" /\ (c.flag = "none" => seen[i] # 0)
    /\ o.kind # "deleted" => o.content # 0

(* An item that is to be added again: nothing is left of it but what the   *)
(* server has told.                                                        *)
Renewed(i) ==
    cache[i] = Absent /\ seen[i] = fetched[i] /\ owed[i] = Nothing /\ ~Playing(i)

(* Any other item: its flag and contents fit what the server has told.     *)
Settled(i) ==
    LET c == cache[i]  o == op[i] IN
    /\ c.flag = "none" /\ o.stage \notin {"store", "mark"} => c.content = seen[i]
    /\ c.flag = "created" => seen[i] = 0 /\ server[i] = 0
    /\ c.flag \in {"modified", "deleted"} => seen[i] # 0
    /\ owed[i] # Nothing /\ o.stage # "mark" => Keeps(c, owed[i])

(* What a playback holds is in the cache, under its flag or played back.   *)
Played(i) ==
    \A w \in Playbacks : \A e \in play[w].queue \cup play[w].cur :
        e[1] = i =>
          IF play[w].stage = "deleted" THEN cache[i].flag = "deleted" \/ cache[i].content = 0
          ELSE /\ cache[i].content = e[2] /\ e[2] # 0
               /\ cache[i].flag \in {play[w].stage, "none"}

ItemOK(i) ==
    /\ Dated(i)
    /\ Busy(i) => ~Adding(i) /\ ~Playing(i) /\ Offered(i)
    /\ Adding(i) => Renewed(i)
    /\ ~Adding(i) => Settled(i)
    /\ Played(i)

ItemsInv == CacheInv /\ PhasesOK /\ \A i \in Items \ raced : ItemOK(i)
-----------------------------------------------------------------------------
(* What the types say of one item. *)
LEMMA ItemTyped ==
    ASSUME CacheInv, NEW i \in Items
    PROVE  /\ cache[i] \in Cached /\ cache[i].content \in Stamp /\ cache[i].flag \in Flag
           /\ server[i] \in Stamp /\ seen[i] \in Stamp /\ fetched[i] \in Stamp /\ clock \in Stamp
           /\ owed[i] \in Stamp \cup {Nothing}
           /\ op[i] \in CallType
           /\ cache[i].content = 0 => cache[i].flag = "none"
  BY DEF CacheInv, TypeOK, Cached

LEMMA StampNumbers == \A x \in Stamp : x \in Int /\ 0 <= x /\ x # Nothing
  BY CacheAssumption DEF Stamp, Nothing

(* The parts of an item that a step leaves alone. *)
SameItem(i) ==
    /\ cache'[i] = cache[i] /\ server'[i] = server[i] /\ seen'[i] = seen[i]
    /\ owed'[i] = owed[i] /\ fetched'[i] = fetched[i] /\ op'[i] = op[i]
    /\ clock <= clock'

(* An item that a step leaves alone, also if a playback takes it up or     *)
(* lets it go.                                                             *)
LEMMA Frame ==
    ASSUME CacheInv, CacheInv', NEW i \in Items, ItemOK(i), SameItem(i),
           Adding(i)' <=> Adding(i),
           Playing(i)' => \/ Playing(i)
                          \/ ~Busy(i) /\ ~Adding(i),
           Played(i)'
    PROVE  ItemOK(i)'
  <1>1. op'[i] = op[i] /\ (Busy(i)' <=> Busy(i))
    BY DEF SameItem, Busy
  <1>2. Dated(i)'
    <2>1. clock \in Int /\ clock' \in Int
      BY StampNumbers, ItemTyped DEF CacheInv, TypeOK
    <2>2. /\ server[i] \in Int /\ seen[i] \in Int /\ cache[i].content \in Int
          /\ op[i].content \in Int
      BY StampNumbers, ItemTyped DEF CallType
    <2>3. Dated(i)
      BY DEF ItemOK
    <2> QED
      BY <1>1, <2>1, <2>2, <2>3 DEF Dated, SameItem
  <1>3. Busy(i)' => ~Adding(i)' /\ ~Playing(i)' /\ Offered(i)'
    <2> SUFFICES ASSUME Busy(i) PROVE ~Adding(i)' /\ ~Playing(i)' /\ Offered(i)'
      BY <1>1
    <2>1. ~Adding(i) /\ ~Playing(i) /\ Offered(i)
      BY DEF ItemOK
    <2>2. ~Adding(i)' /\ ~Playing(i)'
      BY <2>1
    <2>3. Offered(i)'
      BY <1>1, <2>1 DEF Offered, SameItem
    <2> QED
      BY <2>2, <2>3
  <1>4. Adding(i)' => Renewed(i)'
    <2> SUFFICES ASSUME Adding(i) PROVE Renewed(i)'
      OBVIOUS
    <2>1. Renewed(i)
      BY DEF ItemOK
    <2>2. ~Playing(i)'
      BY <2>1 DEF Renewed
    <2> QED
      BY <2>1, <2>2 DEF Renewed, SameItem
  <1>5. ~Adding(i)' => Settled(i)'
    BY <1>1 DEF ItemOK, Settled, SameItem
  <1> QED
    BY <1>2, <1>3, <1>4, <1>5 DEF ItemOK

(* An item that no other copy is held of. *)
LEMMA Calm ==
    ASSUME NEW i \in Items, ~Window(i), UNCHANGED <<phase, play, todo>>,
           Dated(i)', Busy(i)' => Offered(i)', Settled(i)'
    PROVE  ItemOK(i)'
  <1>1. ~Adding(i)' /\ ~Playing(i)'
    BY DEF Window, Adding, Playing, Holds
  <1>2. Played(i)'
    BY <1>1 DEF Playing, Holds, Played
  <1> QED
    BY <1>1, <1>2 DEF ItemOK

LEMMA Still ==
    ASSUME CacheInv, CacheInv', NEW i \in Items, ItemOK(i), SameItem(i),
           UNCHANGED <<phase, play>>, i \in todo' <=> i \in todo
    PROVE  ItemOK(i)'
  <1>1. (Playing(i)' => Playing(i)) /\ (Adding(i)' <=> Adding(i))
    BY DEF Playing, Holds, Adding
  <1>2. Played(i)'
    BY DEF ItemOK, Played, SameItem
  <1> QED
    BY <1>1, <1>2, Frame

(* A change of one call leaves the other calls alone. *)
LEMMA OneCall ==
    ASSUME CacheInv, NEW j \in Items, NEW r, op' = [op EXCEPT ![j] = r]
    PROVE  op'[j] = r /\ \A i \in Items : i # j => op'[i] = op[i]
  BY DEF CacheInv, TypeOK

(* The fields of a call, and a call that has begun. *)
LEMMA CallFields ==
    ASSUME NEW st, NEW k, NEW x, NEW f
    PROVE  /\ Call(st, k, x, f).stage = st /\ Call(st, k, x, f).kind = k
           /\ Call(st, k, x, f).content = x /\ Call(st, k, x, f).flag = f
  BY DEF Call

LEMMA NoCallFields == NoCall.stage = "idle" /\ NoCall.kind = "none" /\ NoCall.content = 0
  BY DEF Call, NoCall

(* A change or deletion of another client. *)
LEMMA OtherClientItem ==
    ASSUME ItemsInv, CacheInv', NEW i \in Items \ raced', OtherClient(i)
    PROVE  ItemOK(i)'
  <1>0. UNCHANGED <<cache, offline, refreshing, syncVars, play, op, owed, seen, raced>>
    BY DEF OtherClient
  <1>1. ItemOK(i) /\ CacheInv /\ i \in Items
    BY <1>0 DEF ItemsInv
  <1>2. server[i] # 0 \/ New(i)
    BY DEF OtherClient
  <1>3. server'[i] \in {0, clock'} /\ clock <= clock' /\ clock \in Int /\ clock' \in Int /\ 0 <= clock'
    <2>1. clock \in Int /\ 0 <= clock
      BY <1>1, StampNumbers, ItemTyped
    <2> QED
      BY <1>1, <2>1 DEF OtherClient, CacheInv, TypeOK
  <1>4. New(i) => ~Busy(i) /\ cache[i].flag = "none"
    BY <1>1 DEF New, CacheInv, TypeOK
  <1>5. Dated(i)'
    <2>1. seen[i] \in Int /\ cache[i].content \in Int /\ op[i].content \in Int
      BY <1>1, StampNumbers, ItemTyped DEF CallType
    <2>2. Dated(i)
      BY <1>1 DEF ItemOK
    <2> QED
      BY <1>0, <1>3, <2>1, <2>2 DEF Dated, syncVars
  <1>6. /\ Busy(i)' <=> Busy(i)
        /\ Adding(i)' <=> Adding(i)
        /\ Playing(i)' <=> Playing(i)
    BY <1>0 DEF Busy, Adding, Playing, Holds, syncVars
  <1>7. Busy(i)' => ~Adding(i)' /\ ~Playing(i)' /\ Offered(i)'
    <2> SUFFICES ASSUME Busy(i) PROVE ~Adding(i) /\ ~Playing(i) /\ Offered(i)'
      BY <1>6
    <2>1. ~Adding(i) /\ ~Playing(i) /\ Offered(i) /\ server[i] # 0
      BY <1>1, <1>2, <1>4 DEF ItemOK
    <2> QED
      BY <1>0, <2>1 DEF Offered
  <1>8. Adding(i)' => Renewed(i)'
    BY <1>0, <1>1, <1>6 DEF ItemOK, Renewed, syncVars
  <1>9. ~Adding(i)' => Settled(i)'
    BY <1>0, <1>1, <1>2, <1>4, <1>6 DEF ItemOK, Settled
  <1>10. Played(i)'
    BY <1>0, <1>1 DEF ItemOK, Played, syncVars
  <1> QED
    BY <1>5, <1>7, <1>8, <1>9, <1>10 DEF ItemOK

(* What a call of the user finds: nothing overlaps it. *)
LEMMA Untouched ==
    ASSUME ItemsInv, NEW i \in Items \ raced', Meets(i)
    PROVE  /\ i \in Items /\ ItemOK(i) /\ CacheInv /\ ~Window(i)
           /\ Settled(i) /\ Dated(i) /\ (Busy(i) => Offered(i))
  <1>1. ~Window(i) /\ i \notin raced
    BY DEF Meets
  <1>2. ~Adding(i)
    BY <1>1 DEF Window, Adding
  <1> QED
    BY <1>1, <1>2 DEF ItemsInv, ItemOK

(* The contents of a new change are newer than all others. *)
LEMMA NewStamp ==
    ASSUME CacheInv, NEW i \in Items, Dated(i), clock < MaxClock
    PROVE  /\ clock \in Int /\ clock + 1 \in Int /\ clock < clock + 1 /\ clock + 1 # 0
           /\ server[i] <= clock + 1 /\ seen[i] <= clock + 1 /\ cache[i].content <= clock + 1
           /\ 0 <= clock + 1 /\ clock + 1 <= clock + 1
           /\ seen[i] < clock + 1
  <1>1. clock \in Int /\ 0 <= clock
    BY StampNumbers, ItemTyped
  <1>2. /\ seen[i] \in Int /\ cache[i].content \in Int /\ server[i] \in Int
    BY StampNumbers, ItemTyped
  <1> QED
    BY <1>1, <1>2 DEF Dated

LEMMA AdoptItemItem ==
    ASSUME ItemsInv, CacheInv', NEW i \in Items \ raced', AdoptItem(i)
    PROVE  ItemOK(i)'
  <1>0. Meets(i) /\ New(i) /\ clock < MaxClock /\ clock' = clock + 1
        /\ UNCHANGED <<server, offline, refreshing, syncVars, play, seen>>
    BY DEF AdoptItem
  <1>1. /\ i \in Items /\ ItemOK(i) /\ CacheInv /\ ~Window(i)
        /\ Settled(i) /\ Dated(i)
    BY <1>0, Untouched
  <1>2. /\ clock \in Int /\ clock + 1 \in Int /\ clock < clock + 1 /\ clock + 1 # 0
        /\ server[i] <= clock + 1 /\ seen[i] <= clock + 1 /\ cache[i].content <= clock + 1
        /\ 0 <= clock + 1 /\ clock + 1 <= clock + 1
        /\ seen[i] < clock + 1
    BY <1>0, <1>1, NewStamp
  <1>3. cache[i].content = 0 /\ cache[i].flag = "none" /\ server[i] = 0
        /\ op[i] = NoCall
    BY <1>0, <1>1 DEF New, Busy, CacheInv, TypeOK
  <1>4. seen[i] = 0 /\ owed[i] = Nothing
    BY <1>1, <1>3, NoCallFields DEF Settled, Keeps
  <1>5. CASE offline
    <2>1. cache' = AdoptOffline(cache, i, clock + 1) /\ owed' = [owed EXCEPT ![i] = clock + 1]
          /\ op' = op
      BY <1>5 DEF AdoptItem
    <2>2. cache'[i].content = clock + 1 /\ cache'[i].flag = "created"
      BY <1>1, <1>2, <2>1 DEF AdoptOffline, SetFlag, Put, CacheInv, TypeOK
    <2>3. owed'[i] = clock + 1
      BY <1>1, <2>1 DEF CacheInv, TypeOK
    <2>4. Settled(i)'
      BY <1>0, <1>3, <1>4, <2>2, <2>3 DEF Settled, Keeps
    <2>5. Dated(i)'
      BY <1>0, <1>2, <1>3, <1>4, <2>1, <2>2, NoCallFields DEF Dated, syncVars
    <2> QED
      BY <1>0, <1>1, <1>3, <2>1, <2>4, <2>5, Calm DEF syncVars, Busy
  <1>6. CASE ~offline
    <2> DEFINE r == Call("sent", "created", clock + 1, "none")
    <2>1. op' = [op EXCEPT ![i] = r] /\ cache' = cache /\ owed' = owed
      BY <1>6 DEF AdoptItem
    <2>2. op'[i] = r
      BY <1>1, <2>1, OneCall, ZenonT(30)
    <2>3. r.stage = "sent" /\ r.kind = "created" /\ r.content = clock + 1
      BY DEF Call
    <2> HIDE DEF r
    <2>4. Settled(i)'
      BY <1>0, <1>3, <1>4, <2>1, <2>2, <2>3 DEF Settled
    <2>5. Dated(i)'
      BY <1>0, <1>2, <1>3, <1>4, <2>1, <2>2, <2>3, NoCallFields DEF Dated, syncVars
    <2>6. Offered(i)'
      BY <1>0, <1>2, <1>3, <2>1, <2>2, <2>3 DEF Offered
    <2> QED
      BY <1>0, <1>1, <2>2, <2>4, <2>5, <2>6, Calm DEF syncVars
  <1> QED
    BY <1>5, <1>6

(* modifyItem and deleteItem read the flag; nothing else has happened yet. *)
LEMMA AskedItem ==
    ASSUME ItemsInv, CacheInv', NEW i \in Items \ raced', ModifyItem(i) \/ DeleteItem(i)
    PROVE  ItemOK(i)'
  <1>0. Meets(i) /\ Visible(i) /\ ~Busy(i)
        /\ UNCHANGED <<server, cache, offline, refreshing, syncVars, play, owed, seen>>
    BY DEF ModifyItem, DeleteItem
  <1>1. /\ i \in Items /\ ItemOK(i) /\ CacheInv /\ ~Window(i)
        /\ Settled(i) /\ Dated(i)
    BY <1>0, Untouched
  <1>2. /\ seen[i] \in Int /\ cache[i].content \in Int /\ server[i] \in Int
        /\ clock \in Int /\ 0 <= clock
    BY <1>1, StampNumbers, ItemTyped
  <1>3. PICK r : /\ op' = [op EXCEPT ![i] = r] /\ r.flag = cache[i].flag
                 /\ \/ /\ r.kind = "modified" /\ r.content = clock + 1 /\ clock' = clock + 1
                       /\ clock < MaxClock /\ r.stage \in {"ask", "write"}
                    \/ /\ r.kind = "deleted" /\ r.content = 0 /\ clock' = clock
                       /\ r.stage \in {"ask", "drop"}
    <2>1. CASE ModifyItem(i)
      <3>1. PICK st \in {"ask", "write"} :
              op' = [op EXCEPT ![i] = Call(st, "modified", clock + 1, cache[i].flag)]
        BY <2>1 DEF ModifyItem
      <3> DEFINE r == Call(st, "modified", clock + 1, cache[i].flag)
      <3>2. /\ r.stage = st /\ r.kind = "modified" /\ r.content = clock + 1
            /\ r.flag = cache[i].flag
        BY DEF Call
      <3>3. op' = [op EXCEPT ![i] = r]
        BY <3>1
      <3> HIDE DEF r
      <3> QED
        BY <2>1, <3>2, <3>3 DEF ModifyItem
    <2>2. CASE DeleteItem(i)
      <3>1. PICK st \in {"ask", "drop"} :
              op' = [op EXCEPT ![i] = Call(st, "deleted", 0, cache[i].flag)]
        BY <2>2 DEF DeleteItem
      <3> DEFINE r == Call(st, "deleted", 0, cache[i].flag)
      <3>2. /\ r.stage = st /\ r.kind = "deleted" /\ r.content = 0
            /\ r.flag = cache[i].flag
        BY DEF Call
      <3>3. op' = [op EXCEPT ![i] = r]
        BY <3>1
      <3> HIDE DEF r
      <3> QED
        BY <2>2, <3>2, <3>3 DEF DeleteItem
    <2> QED
      BY <2>1, <2>2
  <1>4. op'[i] = r
    BY <1>1, <1>3, OneCall, ZenonT(30)
  <1>5. op[i] = NoCall
    BY <1>0, <1>1 DEF Busy
  <1>6. Settled(i)'
    BY <1>0, <1>1, <1>3, <1>4, <1>5, NoCallFields DEF Settled
  <1>7. Dated(i)'
    <2>1. clock' \in Int /\ clock <= clock' /\ r.content <= clock'
          /\ (r.kind = "modified" => seen[i] < r.content)
      BY <1>1, <1>2, <1>3 DEF Dated
    <2> QED
      BY <1>0, <1>1, <1>2, <1>3, <1>4, <1>5, <2>1, NoCallFields DEF Dated, syncVars
  <1>8. Offered(i)'
    <2>1. cache[i].content # 0 /\ cache[i].flag # "deleted"
      BY <1>0 DEF Visible
    <2>2. cache[i].flag = "none" => seen[i] # 0
      BY <1>1, <1>5, <2>1, NoCallFields DEF Settled
    <2>3. r.kind # "deleted" => r.content # 0
      BY <1>2, <1>3
    <2> QED
      BY <1>0, <1>3, <1>4, <2>1, <2>2, <2>3 DEF Offered
  <1> QED
    BY <1>0, <1>1, <1>4, <1>6, <1>7, <1>8, Calm DEF syncVars

(* getItemOfflineFlag has answered: the flag that was read still stands. *)
LEMMA FlagAnsweredItem ==
    ASSUME ItemsInv, CacheInv', NEW i \in Items \ raced', FlagAnswered(i)
    PROVE  ItemOK(i)'
  <1>0. /\ Meets(i) /\ op[i].stage = "ask"
        /\ UNCHANGED <<server, cache, offline, clock, refreshing, syncVars, play, owed, seen>>
    BY DEF FlagAnswered
  <1>1. /\ i \in Items /\ ItemOK(i) /\ CacheInv /\ ~Window(i)
        /\ Settled(i) /\ Dated(i) /\ Offered(i)
    BY <1>0, Untouched, NoCallFields DEF Busy
  <1>2. PICK o : o = op[i]
    OBVIOUS
  <1>3. o.kind \in {"modified", "deleted"} /\ o.stage = "ask"
    BY <1>0, <1>1, <1>2 DEF Offered
  <1>4. PICK r : /\ op' = [op EXCEPT ![i] = r]
                 /\ r.kind = o.kind /\ r.content = o.content
                 /\ \/ /\ cache[i].flag \in {"created", "modified"}
                       /\ r.flag = cache[i].flag /\ r.stage = Offline(o.kind)
                    \/ /\ cache[i].flag \notin {"created", "modified"}
                       /\ r.stage = "sent"
    <2>1. FlagRead(i) = {cache[i].flag}
      BY <1>0, <1>1 DEF FlagRead, Offered
    <2>2. op' = [op EXCEPT ![i] =
                   IF cache[i].flag \in {"created", "modified"}
                   THEN Call(Offline(o.kind), o.kind, o.content, cache[i].flag)
                   ELSE Call("sent", o.kind, o.content, "none")]
      BY <1>2, <2>1 DEF FlagAnswered
    <2>3. CASE cache[i].flag \in {"created", "modified"}
      <3> DEFINE r == Call(Offline(o.kind), o.kind, o.content, cache[i].flag)
      <3>1. r.stage = Offline(o.kind) /\ r.kind = o.kind /\ r.content = o.content
            /\ r.flag = cache[i].flag
        BY DEF Call
      <3>2. op' = [op EXCEPT ![i] = r]
        BY <2>2, <2>3
      <3> HIDE DEF r
      <3> QED
        BY <2>3, <3>1, <3>2
    <2>4. CASE cache[i].flag \notin {"created", "modified"}
      <3> DEFINE r == Call("sent", o.kind, o.content, "none")
      <3>1. r.stage = "sent" /\ r.kind = o.kind /\ r.content = o.content
        BY DEF Call
      <3>2. op' = [op EXCEPT ![i] = r]
        BY <2>2, <2>4
      <3> HIDE DEF r
      <3> QED
        BY <2>4, <3>1, <3>2
    <2> QED
      BY <2>3, <2>4
  <1>5. op'[i] = r
    BY <1>1, <1>4, OneCall, ZenonT(30)
  <1>6. r.stage \in {"sent", "write", "drop"}
        /\ (r.stage = "write" => r.kind = "modified")
        /\ (r.stage = "drop" => r.kind = "deleted")
        /\ (r.stage = "sent" <=> cache[i].flag \notin {"created", "modified"})
    BY <1>3, <1>4 DEF Offline
  <1>7. Settled(i)'
    BY <1>0, <1>1, <1>5, <1>6 DEF Settled
  <1>8. Dated(i)'
    BY <1>0, <1>1, <1>2, <1>3, <1>4, <1>5 DEF Dated, syncVars
  <1>9. Offered(i)'
    <2>1. cache[i].flag \in Flag
      BY <1>1, ItemTyped
    <2> QED
      BY <1>0, <1>1, <1>2, <1>3, <1>4, <1>5, <1>6, <2>1 DEF Offered, Flag
  <1> QED
    BY <1>0, <1>1, <1>5, <1>7, <1>8, <1>9, Calm DEF syncVars

(* An item after a change of its row in the cache. *)
LEMMA RowAfter ==
    ASSUME NEW c, CacheOK(c), NEW i \in Items, NEW x \in Stamp, NEW f \in Flag
    PROVE  /\ Put(c, i, x)[i] = [content |-> x, flag |-> "none"]
           /\ Remove(c, i)[i] = Absent
           /\ c[i].content # 0 => SetFlag(c, i, f)[i] = [content |-> c[i].content, flag |-> f]
           /\ c[i].content = 0 => SetFlag(c, i, f)[i] = c[i]
  BY DEF Put, Remove, SetFlag, CacheOK, Cached

LEMMA RowWritten ==
    ASSUME NEW c, CacheOK(c), NEW i \in Items, NEW x \in Stamp, NEW f \in Flag
    PROVE  x # 0 => /\ DoModifyItem(c, i, x, f)[i] = [content |-> x, flag |-> f]
                    /\ AdoptOffline(c, i, x)[i] = [content |-> x, flag |-> "created"]
  <1> SUFFICES ASSUME x # 0
               PROVE  /\ DoModifyItem(c, i, x, f)[i] = [content |-> x, flag |-> f]
                      /\ AdoptOffline(c, i, x)[i] = [content |-> x, flag |-> "created"]
    OBVIOUS
  <1> DEFINE d == Put(c, i, x)
  <1>1. d[i] = [content |-> x, flag |-> "none"] /\ CacheOK(d)
    BY RowAfter, PutOK, ZenonT(30)
  <1>2. d[i].content = x /\ d[i].content # 0
    BY <1>1
  <1>3. \A g \in Flag : SetFlag(d, i, g)[i] = [content |-> d[i].content, flag |-> g]
    <2> HIDE DEF d
    <2> QED
      BY <1>1, <1>2, RowAfter
  <1>4. "created" \in Flag
    BY DEF Flag
  <1> QED
    BY <1>2, <1>3, <1>4 DEF DoModifyItem, AdoptOffline

(* A change of one row leaves the others alone. *)
LEMMA OtherRows ==
    ASSUME NEW c, CacheOK(c), NEW j \in Items, NEW i \in Items, i # j, NEW x, NEW f
    PROVE  /\ Put(c, j, x)[i] = c[i] /\ Remove(c, j)[i] = c[i] /\ SetFlag(c, j, f)[i] = c[i]
           /\ DoModifyItem(c, j, x, f)[i] = c[i] /\ AdoptOffline(c, j, x)[i] = c[i]
           /\ ModifyOffline(c, j, f)[i] = c[i] /\ DeleteOffline(c, j, f)[i] = c[i]
  BY DEF Put, Remove, SetFlag, DoModifyItem, AdoptOffline, ModifyOffline, DeleteOffline, CacheOK

(* The storage goes on with a call. *)
LEMMA StoredItem ==
    ASSUME ItemsInv, CacheInv', NEW i \in Items \ raced', Stored(i)
    PROVE  ItemOK(i)'
  <1>0. /\ Meets(i) /\ op[i].stage \in {"store", "write", "mark", "drop"}
        /\ UNCHANGED <<server, offline, clock, refreshing, syncVars, play, seen>>
    BY DEF Stored
  <1>1. /\ i \in Items /\ ItemOK(i) /\ CacheInv /\ ~Window(i)
        /\ Settled(i) /\ Dated(i) /\ Offered(i)
    BY <1>0, Untouched, NoCallFields DEF Busy
  <1>2. PICK o : o = op[i]
    OBVIOUS
  <1>3. PICK c : c = cache[i]
    OBVIOUS
  <1>4. /\ c \in Cached /\ c.flag \in Flag /\ c.content \in Stamp /\ o.content \in Stamp
        /\ CacheOK(cache) /\ (c.content = 0 => c.flag = "none")
        /\ owed \in [Items -> Stamp \cup {Nothing}]
    <2>1. o \in CallType
      BY <1>1, <1>2, ItemTyped
    <2> QED
      BY <1>1, <1>3, <2>1, ItemTyped DEF CallType, CacheInv, TypeOK, CacheOK, Cached
  <1>5. /\ cache' = CASE o.stage = "mark" -> ModifyOffline(cache, i, c.flag)
                      [] o.stage = "drop" -> DeleteOffline(cache, i, c.flag)
                      [] OTHER -> DoModifyItem(cache, i, o.content, c.flag)
        /\ owed' = CASE o.stage = "mark" -> [owed EXCEPT ![i] = o.content]
                     [] o.stage = "drop"
                          -> [owed EXCEPT ![i] = IF c.flag = "created" THEN Nothing ELSE 0]
                     [] OTHER -> owed
        /\ op' = [op EXCEPT ![i] =
                    IF o.stage = "write"
                    THEN Call("mark", o.kind, o.content, cache'[i].flag) ELSE NoCall]
    <2>1. FlagRead(i) = {c.flag}
      BY <1>0, <1>1, <1>3 DEF FlagRead, Offered
    <2> QED
      BY <1>2, <2>1 DEF Stored
  <1>6. o.stage \in {"store", "write", "mark", "drop"} /\ Settled(i) /\ Dated(i) /\ Offered(i)
    BY <1>0, <1>1, <1>2
  <1>7. op'[i] = IF o.stage = "write"
                 THEN Call("mark", o.kind, o.content, cache'[i].flag) ELSE NoCall
    <2> DEFINE r == IF o.stage = "write"
                    THEN Call("mark", o.kind, o.content, cache'[i].flag) ELSE NoCall
    <2>1. op' = [op EXCEPT ![i] = r]
      BY <1>5
    <2> HIDE DEF r
    <2>2. op'[i] = r
      BY <1>1, <2>1, OneCall
    <2> QED
      BY <2>2 DEF r
  <1>8. /\ seen[i] \in Int /\ c.content \in Int /\ clock \in Int /\ o.content \in Int
        /\ 0 <= clock /\ o.content <= clock /\ c.content <= clock
    BY <1>1, <1>2, <1>3, <1>4, StampNumbers, ItemTyped DEF Dated
  <1>9. CASE o.stage = "store"
    <2>1. /\ o.kind = "modified" /\ c.flag = "none" /\ seen[i] = o.content /\ o.content # 0
      BY <1>1, <1>2, <1>3, <1>9 DEF Offered
    <2>2. cache'[i] = [content |-> o.content, flag |-> "none"] /\ op'[i] = NoCall
          /\ owed' = owed
      <3>1. cache' = DoModifyItem(cache, i, o.content, c.flag) /\ owed' = owed
        BY <1>5, <1>9
      <3>2. DoModifyItem(cache, i, o.content, c.flag)[i] = [content |-> o.content, flag |-> c.flag]
        <4>1. PICK x \in Stamp : x = o.content
          BY <1>4
        <4>2. PICK f \in Flag : f = c.flag
          BY <1>4
        <4>3. x # 0 /\ CacheOK(cache)
          BY <1>4, <2>1, <4>1
        <4>4. DoModifyItem(cache, i, x, f)[i] = [content |-> x, flag |-> f]
          BY <1>1, <4>3, RowWritten, ZenonT(30)
        <4> QED
          BY <4>1, <4>2, <4>4
      <3> QED
        BY <1>7, <1>9, <2>1, <3>1, <3>2
    <2>3. Settled(i)'
      BY <1>0, <1>1, <1>2, <1>3, <1>9, <2>1, <2>2, NoCallFields DEF Settled, Keeps
    <2>4. Dated(i)'
      BY <1>0, <1>1, <1>7, <1>8, <2>2, NoCallFields DEF Dated, syncVars
    <2> QED
      BY <1>0, <1>1, <1>7, <2>2, <2>3, <2>4, Calm DEF syncVars, Busy
  <1>10. CASE o.stage = "write"
    <2> DEFINE r == Call("mark", o.kind, o.content, cache'[i].flag)
    <2>1. o.kind = "modified" /\ o.content # 0 /\ c.flag # "deleted" /\ c.content # 0
          /\ (c.flag = "none" => seen[i] # 0) /\ seen[i] < o.content
      BY <1>1, <1>2, <1>3, <1>10 DEF Offered, Dated
    <2>2. cache'[i] = [content |-> o.content, flag |-> c.flag] /\ op'[i] = r
          /\ owed' = owed
      <3>1. cache' = DoModifyItem(cache, i, o.content, c.flag) /\ owed' = owed
        BY <1>5, <1>10
      <3>2. DoModifyItem(cache, i, o.content, c.flag)[i] = [content |-> o.content, flag |-> c.flag]
        <4>1. PICK x \in Stamp : x = o.content
          BY <1>4
        <4>2. PICK f \in Flag : f = c.flag
          BY <1>4
        <4>3. x # 0 /\ CacheOK(cache)
          BY <1>4, <2>1, <4>1
        <4>4. DoModifyItem(cache, i, x, f)[i] = [content |-> x, flag |-> f]
          BY <1>1, <4>3, RowWritten, ZenonT(30)
        <4> QED
          BY <4>1, <4>2, <4>4
      <3> QED
        BY <1>7, <1>10, <3>1, <3>2
    <2>3. r.stage = "mark" /\ r.kind = "modified" /\ r.content = o.content
          /\ r.flag = cache'[i].flag
      BY <2>1, CallFields
    <2> HIDE DEF r
    <2>4. Settled(i)'
      BY <1>0, <1>1, <1>3, <2>1, <2>2, <2>3 DEF Settled
    <2>5. Dated(i)'
      BY <1>0, <1>1, <1>7, <1>8, <2>1, <2>2, <2>3, NoCallFields DEF Dated, syncVars
    <2>6. Offered(i)'
      BY <1>0, <2>1, <2>2, <2>3 DEF Offered
    <2> QED
      BY <1>0, <1>1, <1>7, <2>4, <2>5, <2>6, Calm DEF syncVars
  <1>11. CASE o.stage = "mark"
    <2>1. /\ o.kind = "modified" /\ o.content # 0 /\ c.flag # "deleted"
          /\ c.content = o.content /\ (c.flag = "none" => seen[i] # 0) /\ seen[i] < o.content
      BY <1>1, <1>2, <1>3, <1>11 DEF Offered, Dated
    <2>2. /\ cache'[i] = [content |-> o.content,
                          flag |-> IF c.flag = "created" THEN "created" ELSE "modified"]
          /\ op'[i] = NoCall /\ owed'[i] = o.content
      <3>1. cache' = IF c.flag = "created" THEN cache ELSE SetFlag(cache, i, "modified")
        BY <1>5, <1>11, <2>1 DEF ModifyOffline
      <3>2. c = [content |-> o.content, flag |-> c.flag]
        BY <1>4, <2>1 DEF Cached
      <3>3. SetFlag(cache, i, "modified")[i] = [content |-> o.content, flag |-> "modified"]
        <4>1. c.content # 0
          BY <2>1
        <4>2. SetFlag(cache, i, "modified")[i] = [content |-> c.content, flag |-> "modified"]
          BY <1>1, <1>3, <1>4, <4>1, RowAfter, ZenonT(30) DEF Flag
        <4> QED
          BY <2>1, <4>2
      <3> QED
        BY <1>3, <1>4, <1>5, <1>7, <1>11, <3>1, <3>2, <3>3
    <2>3. Settled(i)'
      BY <1>0, <1>1, <1>3, <1>4, <2>1, <2>2, NoCallFields DEF Settled, Keeps, Flag
    <2>4. Dated(i)'
      BY <1>0, <1>1, <1>7, <1>8, <2>1, <2>2, NoCallFields DEF Dated, syncVars
    <2> QED
      BY <1>0, <1>1, <1>7, <2>2, <2>3, <2>4, Calm DEF syncVars, Busy
  <1>12. CASE o.stage = "drop"
    <2>1. o.kind = "deleted" /\ c.flag # "deleted" /\ c.content # 0
          /\ (c.flag = "none" => seen[i] # 0)
      BY <1>1, <1>2, <1>3, <1>12 DEF Offered
    <2>2. /\ op'[i] = NoCall
          /\ IF c.flag = "created" THEN cache'[i] = Absent /\ owed'[i] = Nothing
             ELSE cache'[i] = [content |-> c.content, flag |-> "deleted"] /\ owed'[i] = 0
      <3>1. cache' = IF c.flag = "created" THEN Remove(cache, i)
                     ELSE SetFlag(cache, i, "deleted")
        BY <1>5, <1>12, <2>1 DEF DeleteOffline
      <3>2. /\ SetFlag(cache, i, "deleted")[i] = [content |-> c.content, flag |-> "deleted"]
            /\ Remove(cache, i)[i] = Absent
        BY <1>1, <1>3, <1>4, <2>1, RowAfter DEF Flag
      <3> QED
        BY <1>4, <1>5, <1>7, <1>12, <3>1, <3>2
    <2>3. Settled(i)'
      BY <1>0, <1>1, <1>3, <1>4, <2>1, <2>2, NoCallFields DEF Settled, Keeps, Flag, Absent
    <2>4. Dated(i)'
      BY <1>0, <1>1, <1>7, <1>8, <2>1, <2>2, NoCallFields DEF Dated, syncVars, Absent
    <2> QED
      BY <1>0, <1>1, <1>7, <2>2, <2>3, <2>4, Calm DEF syncVars, Busy
  <1> QED
    BY <1>6, <1>9, <1>10, <1>11, <1>12

(* The provider has answered a call of the user. *)
LEMMA ProviderAnswersItem ==
    ASSUME ItemsInv, CacheInv', NEW i \in Items \ raced', ProviderAnswers(i)
    PROVE  ItemOK(i)'
  <1>1. PICK o : o = op[i]
    OBVIOUS
  <1>2. PICK answer \in Answers(o.kind, i) :
         /\ Done(answer, o.kind, i, o.content)
         /\ IF answer = "ok" THEN seen' = [seen EXCEPT ![i] = Result(o.kind, o.content)]
            ELSE UNCHANGED seen
         /\ owed' = IF answer = "ok" THEN [owed EXCEPT ![i] = Nothing]
                    ELSE IF answer # "error" /\ o.kind = "created"
                    THEN [owed EXCEPT ![i] = o.content] ELSE owed
         /\ cache' = CASE answer = "ok" /\ o.kind = "created" -> Put(cache, i, o.content)
                       [] answer = "ok" /\ o.kind = "deleted" -> Remove(cache, i)
                       [] answer \in {"unavailable", "lost"} /\ o.kind = "created"
                            -> AdoptOffline(cache, i, o.content)
                       [] OTHER -> cache
         /\ op' = [op EXCEPT ![i] =
                     CASE answer = "ok" /\ o.kind = "modified"
                            -> Call("store", o.kind, o.content, cache[i].flag)
                       [] answer \in {"unavailable", "lost"} /\ o.kind # "created"
                            -> Call(Offline(o.kind), o.kind, o.content, cache[i].flag)
                       [] OTHER -> NoCall]
         /\ IF answer = "lost" /\ o.kind = "created" THEN Doubled(i) ELSE Meets(i)
    BY <1>1 DEF ProviderAnswers
  <1>3. /\ op[i].stage = "sent"
        /\ UNCHANGED <<offline, clock, refreshing, syncVars, play>>
    BY DEF ProviderAnswers
  <1>4. ~(answer = "lost" /\ o.kind = "created") /\ Meets(i)
    BY <1>2 DEF Doubled
  <1>5. /\ i \in Items /\ ItemOK(i) /\ CacheInv /\ ~Window(i)
        /\ Settled(i) /\ Dated(i) /\ Offered(i)
    BY <1>3, <1>4, Untouched, NoCallFields DEF Busy
  <1>6. /\ CacheOK(cache) /\ seen \in [Items -> Stamp] /\ server \in [Items -> Stamp]
        /\ owed \in [Items -> Stamp \cup {Nothing}]
        /\ o \in CallType /\ o.content \in Stamp /\ o.kind \in Flag
        /\ seen[i] \in Int /\ cache[i].content \in Int /\ server[i] \in Int
        /\ clock \in Int /\ 0 <= clock
        /\ o.content \in Int
    <2>1. o \in CallType
      BY <1>1, <1>5, ItemTyped
    <2>2. o.content \in Stamp /\ o.kind \in Flag
      BY <2>1 DEF CallType
    <2> QED
      BY <1>5, <2>1, <2>2, ItemTyped, StampNumbers DEF CacheInv, TypeOK, CacheOK, Cached
  <1>7. PICK x \in Stamp : x = o.content
    BY <1>6
  <1>8. PICK f \in Flag : f = cache[i].flag
    BY <1>5, ItemTyped
  <1>9. /\ f = "none" /\ o.kind \in {"created", "modified", "deleted"}
        /\ o.kind = "created" => cache[i].content = 0 /\ server[i] = 0 /\ seen[i] = 0
        /\ o.kind # "created" => cache[i].content # 0 /\ seen[i] # 0
        /\ o.kind # "created" => cache[i].content = seen[i]
        /\ o.kind # "deleted" => x # 0 /\ seen[i] < x
        /\ owed[i] = Nothing
    <2>1. f = "none" /\ o.kind \in {"created", "modified", "deleted"}
      BY <1>1, <1>3, <1>5, <1>8 DEF Offered
    <2>2. cache[i].content = seen[i] /\ owed[i] = Nothing
      BY <1>3, <1>5, <1>8, <2>1 DEF Settled, Keeps
    <2>3. /\ o.kind = "created" => cache[i].content = 0 /\ server[i] = 0
          /\ o.kind # "created" => cache[i].content # 0 /\ seen[i] # 0
      BY <1>1, <1>5, <1>8, <2>1 DEF Offered
    <2>4. o.kind # "deleted" => x # 0 /\ seen[i] < x
      BY <1>1, <1>3, <1>5, <1>7, <2>1 DEF Offered, Dated
    <2> QED
      BY <2>1, <2>2, <2>3, <2>4
  <1>10. PICK r : /\ op' = [op EXCEPT ![i] = r]
                  /\ \/ /\ answer = "ok" /\ o.kind = "modified" /\ r.stage = "store"
                        /\ r.kind = o.kind /\ r.content = x /\ r.flag = f
                     \/ /\ answer \in {"unavailable", "lost"} /\ o.kind # "created"
                        /\ r.stage = Offline(o.kind)
                        /\ r.kind = o.kind /\ r.content = x /\ r.flag = f
                     \/ /\ ~(answer = "ok" /\ o.kind = "modified")
                        /\ ~(answer \in {"unavailable", "lost"} /\ o.kind # "created")
                        /\ r = NoCall
    <2>1. CASE answer = "ok" /\ o.kind = "modified"
      <3> DEFINE r == Call("store", o.kind, x, f)
      <3>1. r.stage = "store" /\ r.kind = o.kind /\ r.content = x /\ r.flag = f
        BY DEF Call
      <3>2. op' = [op EXCEPT ![i] = r]
        BY <1>2, <1>7, <1>8, <2>1
      <3> HIDE DEF r
      <3> QED
        BY <2>1, <3>1, <3>2
    <2>2. CASE answer \in {"unavailable", "lost"} /\ o.kind # "created"
      <3> DEFINE r == Call(Offline(o.kind), o.kind, x, f)
      <3>1. r.stage = Offline(o.kind) /\ r.kind = o.kind /\ r.content = x /\ r.flag = f
        BY DEF Call
      <3>2. op' = [op EXCEPT ![i] = r]
        BY <1>2, <1>7, <1>8, <2>2
      <3> HIDE DEF r
      <3> QED
        BY <2>2, <3>1, <3>2
    <2>3. CASE /\ ~(answer = "ok" /\ o.kind = "modified")
               /\ ~(answer \in {"unavailable", "lost"} /\ o.kind # "created")
      BY <1>2, <2>3
    <2> QED
      BY <2>1, <2>2, <2>3
  <1>11. op'[i] = r
    BY <1>5, <1>10, OneCall
  <1>12. /\ server'[i] = IF answer \in {"ok", "lost"} THEN Result(o.kind, x) ELSE server[i]
         /\ seen'[i] = IF answer = "ok" THEN Result(o.kind, x) ELSE seen[i]
         /\ owed'[i] = IF answer = "ok" THEN Nothing
                       ELSE IF answer # "error" /\ o.kind = "created" THEN x ELSE owed[i]
    BY <1>2, <1>5, <1>6, <1>7 DEF Done
  <1>13. /\ o.kind = "created" /\ answer = "ok" =>
              cache'[i] = [content |-> x, flag |-> "none"]
         /\ o.kind = "deleted" /\ answer = "ok" => cache'[i] = Absent
         /\ o.kind = "created" /\ answer = "unavailable" =>
              cache'[i] = [content |-> x, flag |-> "created"]
         /\ answer = "error" \/ (o.kind # "created" /\ answer # "ok")
              \/ (o.kind = "modified") => cache'[i] = cache[i]
    <2>1. Put(cache, i, x)[i] = [content |-> x, flag |-> "none"] /\ Remove(cache, i)[i] = Absent
      BY <1>5, <1>6 DEF Put, Remove, CacheOK
    <2>2. o.kind = "created" => AdoptOffline(cache, i, x)[i] = [content |-> x, flag |-> "created"]
      <3>1. "created" \in Flag /\ (o.kind = "created" => x # 0)
        BY <1>9 DEF Flag
      <3> QED
        BY <1>5, <1>6, <3>1, RowWritten
    <2>3. cache' = CASE answer = "ok" /\ o.kind = "created" -> Put(cache, i, x)
                     [] answer = "ok" /\ o.kind = "deleted" -> Remove(cache, i)
                     [] answer \in {"unavailable", "lost"} /\ o.kind = "created"
                          -> AdoptOffline(cache, i, x)
                     [] OTHER -> cache
      BY <1>2, <1>7
    <2>4. CASE o.kind = "created"
      BY <1>4, <2>1, <2>2, <2>3, <2>4
    <2>5. CASE o.kind = "deleted"
      BY <2>1, <2>3, <2>5
    <2>6. CASE o.kind = "modified"
      BY <2>3, <2>6
    <2> QED
      BY <1>9, <2>4, <2>5, <2>6
  <1>14. answer \in {"ok", "lost", "unavailable", "error"} /\ (answer = "lost" => o.kind # "created")
    BY <1>2, <1>4 DEF Answers
  <1>15. Settled(i)'
    <2>1. CASE o.kind = "created"
      <3>1. r = NoCall
        BY <1>10, <2>1
      <3>2. CASE answer = "ok"
        BY <1>11, <1>12, <1>13, <2>1, <3>1, <3>2, NoCallFields DEF Settled, Result
      <3>3. CASE answer = "unavailable"
        BY <1>9, <1>11, <1>12, <1>13, <2>1, <3>1, <3>3, NoCallFields DEF Settled, Keeps
      <3>4. CASE answer = "error"
        BY <1>8, <1>9, <1>11, <1>12, <1>13, <2>1, <3>1, <3>4, NoCallFields DEF Settled
      <3> QED
        BY <1>14, <2>1, <3>2, <3>3, <3>4
    <2>2. CASE o.kind = "modified"
      BY <1>8, <1>9, <1>10, <1>11, <1>12, <1>13, <1>14, <2>2, NoCallFields
         DEF Settled, Keeps, Result, Offline
    <2>3. CASE o.kind = "deleted"
      <3>1. r.stage \notin {"store", "mark"}
        BY <1>10, <2>3, NoCallFields DEF Offline
      <3>2. CASE answer = "ok"
        BY <1>11, <1>12, <1>13, <2>3, <3>1, <3>2 DEF Settled, Result, Absent
      <3>3. CASE answer # "ok"
        BY <1>8, <1>9, <1>11, <1>12, <1>13, <2>3, <3>1, <3>3 DEF Settled
      <3> QED
        BY <3>2, <3>3
    <2> QED
      BY <1>9, <2>1, <2>2, <2>3
  <1>16. Dated(i)'
    <2>1. x <= clock
      BY <1>1, <1>5, <1>7 DEF Dated
    <2>2. Dated(i)
      BY <1>5
    <2>3. r.content <= clock /\ (r.kind = "modified" => r.content = x)
          /\ (r # NoCall => r.kind = o.kind) /\ (r = NoCall => r.kind = "none")
      BY <1>6, <1>10, <2>1, NoCallFields
    <2>4. /\ server'[i] <= clock /\ seen'[i] <= clock /\ cache'[i].content <= clock
          /\ cache'[i].flag # "modified"
      <3>1. Result(o.kind, x) <= clock
        BY <1>6, <2>1 DEF Result
      <3>2. server'[i] <= clock /\ seen'[i] <= clock
        BY <1>12, <2>2, <3>1 DEF Dated
      <3>3. \/ cache'[i] = cache[i]
            \/ cache'[i] = Absent
            \/ cache'[i].content = x /\ cache'[i].flag \in {"none", "created"}
        BY <1>9, <1>13, <1>14
      <3>4. Absent.content = 0 /\ Absent.flag = "none" /\ cache[i].content <= clock
        BY <2>2 DEF Absent, Dated
      <3>5. cache'[i].content <= clock /\ cache'[i].flag # "modified"
        BY <1>6, <1>8, <1>9, <2>1, <3>3, <3>4
      <3> QED
        BY <3>2, <3>5
    <2>5. r.kind \in {"created", "modified"} /\ r.stage # "store" => seen'[i] < r.content
      BY <1>9, <1>10, <1>12, <1>14, <2>3, NoCallFields
    <2> QED
      BY <1>3, <1>6, <1>11, <2>2, <2>3, <2>4, <2>5, NoCallFields DEF Dated, syncVars
  <1>17. Busy(i)' => Offered(i)'
    <2> SUFFICES ASSUME r # NoCall PROVE Offered(i)'
      BY <1>11 DEF Busy
    <2>1. /\ o.kind \in {"modified", "deleted"} /\ r.kind = o.kind /\ r.content = x /\ r.flag = f
          /\ \/ answer = "ok" /\ o.kind = "modified" /\ r.stage = "store"
             \/ answer # "ok" /\ o.kind = "modified" /\ r.stage = "write"
             \/ answer # "ok" /\ o.kind = "deleted" /\ r.stage = "drop"
      BY <1>9, <1>10, <1>14 DEF Offline
    <2>2. cache'[i] = cache[i]
      BY <1>13, <2>1
    <2>3. seen'[i] = IF answer = "ok" THEN x ELSE seen[i]
      BY <1>12, <2>1 DEF Result
    <2> QED
      BY <1>8, <1>9, <1>11, <2>1, <2>2, <2>3 DEF Offered
  <1> QED
    BY <1>3, <1>5, <1>11, <1>15, <1>16, <1>17, Calm DEF syncVars

(* An item that is returned by the server is put into the emptied cache. *)
LEMMA AddFetchedItem ==
    ASSUME ItemsInv, CacheInv', NEW i \in Items \ raced', AddFetched(i)
    PROVE  ItemOK(i)'
  <1>0. /\ phase = "adding" /\ i \in todo /\ todo' = todo \ {i} /\ Overtakes({i})
        /\ cache' = Put(cache, i, fetched[i])
        /\ UNCHANGED <<server, offline, clock, refreshing, phase, queued, snap, fetched,
                       play, op, owed, seen>>
    BY DEF AddFetched
  <1>1. i \in Items /\ CacheInv /\ ItemOK(i) /\ Adding(i)
    BY <1>0 DEF Overtakes, Adding, ItemsInv
  <1>2. Renewed(i) /\ Dated(i) /\ ~Busy(i)
    BY <1>1 DEF ItemOK
  <1>3. cache'[i] = [content |-> seen[i], flag |-> "none"]
    BY <1>0, <1>1, <1>2 DEF Put, CacheInv, TypeOK, Renewed
  <1>4. ~Adding(i)' /\ ~Busy(i)' /\ ~Playing(i)'
    BY <1>0, <1>2 DEF Adding, Busy, Renewed, Playing, Holds
  <1>5. Settled(i)'
    BY <1>0, <1>2, <1>3 DEF Settled, Renewed
  <1>6. Dated(i)'
    BY <1>0, <1>2, <1>3 DEF Dated
  <1>7. Played(i)'
    BY <1>4 DEF Playing, Holds, Played
  <1> QED
    BY <1>4, <1>5, <1>6, <1>7 DEF ItemOK

(* What happens to one item does not touch another. *)
LEMMA OthersSame ==
    ASSUME ItemsInv, NEW j \in Items, NEW i \in Items, i # j,
           OtherClient(j) \/ UserCall(j) \/ CallEvent(j) \/ AddFetched(j)
    PROVE  /\ SameItem(i) /\ UNCHANGED <<phase, play>> /\ (i \in todo' <=> i \in todo)
           /\ raced \subseteq raced'
  <1>1. /\ CacheOK(cache) /\ server \in [Items -> Stamp] /\ seen \in [Items -> Stamp]
        /\ owed \in [Items -> Stamp \cup {Nothing}] /\ clock \in Int /\ clock <= clock
        /\ clock <= clock + 1
    <2>1. CacheInv
      BY DEF ItemsInv
    <2>2. clock \in Int
      BY <2>1, StampNumbers, ItemTyped
    <2> QED
      BY <2>1, <2>2 DEF CacheInv, TypeOK, CacheOK, Cached
  <1>2. ASSUME NEW r, op' = [op EXCEPT ![j] = r] PROVE op'[i] = op[i]
    BY <1>2, OneCall DEF ItemsInv
  <1>4. CASE OtherClient(j)
    <2>1. UNCHANGED <<cache, offline, refreshing, syncVars, play, op, owed, seen, raced>>
          /\ clock' \in {clock, clock + 1} /\ server'[i] = server[i]
      BY <1>1, <1>4 DEF OtherClient
    <2> QED
      BY <1>1, <2>1 DEF SameItem, syncVars
  <1>5. CASE AdoptItem(j)
    <2>1. UNCHANGED <<server, offline, refreshing, syncVars, play, seen>>
          /\ clock' = clock + 1 /\ raced \subseteq raced'
      BY <1>5 DEF AdoptItem, Meets
    <2>2. cache'[i] = cache[i] /\ owed'[i] = owed[i] /\ op'[i] = op[i]
      <3>1. CASE offline
        <4>1. cache' = AdoptOffline(cache, j, clock + 1) /\ op' = op
              /\ owed' = [owed EXCEPT ![j] = clock + 1]
          BY <1>5, <3>1 DEF AdoptItem
        <4>2. AdoptOffline(cache, j, clock + 1)[i] = cache[i]
          BY <1>1, OtherRows
        <4> QED
          BY <1>1, <4>1, <4>2
      <3>2. CASE ~offline
        BY <1>2, <1>5, <3>2 DEF AdoptItem
      <3> QED
        BY <3>1, <3>2
    <2> QED
      BY <1>1, <2>1, <2>2 DEF SameItem, syncVars
  <1>6. CASE ModifyItem(j) \/ DeleteItem(j)
    <2>1. UNCHANGED <<server, cache, offline, refreshing, syncVars, play, owed, seen>>
          /\ clock' \in {clock, clock + 1} /\ raced \subseteq raced'
      BY <1>6 DEF ModifyItem, DeleteItem, Meets
    <2>2. op'[i] = op[i]
      BY <1>2, <1>6 DEF ModifyItem, DeleteItem
    <2> QED
      BY <1>1, <2>1, <2>2 DEF SameItem, syncVars
  <1>7. CASE FlagAnswered(j)
    <2>1. UNCHANGED <<server, cache, offline, clock, refreshing, syncVars, play, owed, seen>>
          /\ raced \subseteq raced'
      BY <1>7 DEF FlagAnswered, Meets
    <2>2. op'[i] = op[i]
      BY <1>2, <1>7 DEF FlagAnswered
    <2> QED
      BY <1>1, <2>1, <2>2 DEF SameItem, syncVars
  <1>8. CASE ProviderAnswers(j)
    <2>1. UNCHANGED <<offline, clock, refreshing, syncVars, play>>
          /\ raced \subseteq raced'
      BY <1>8 DEF ProviderAnswers, Meets, Doubled
    <2>2. op'[i] = op[i]
      BY <1>2, <1>8 DEF ProviderAnswers
    <2>3. server'[i] = server[i] /\ seen'[i] = seen[i] /\ owed'[i] = owed[i]
      BY <1>1, <1>8 DEF ProviderAnswers, Done
    <2>4. cache'[i] = cache[i]
      <3>1. PICK x : \/ cache' = Put(cache, j, x)
                     \/ cache' = Remove(cache, j)
                     \/ cache' = AdoptOffline(cache, j, x)
                     \/ cache' = cache
        BY <1>8 DEF ProviderAnswers
      <3> QED
        BY <1>1, <3>1, OtherRows
    <2> QED
      BY <1>1, <2>1, <2>2, <2>3, <2>4 DEF SameItem, syncVars
  <1>9. CASE Stored(j)
    <2>1. UNCHANGED <<server, offline, clock, refreshing, syncVars, play, seen>>
          /\ raced \subseteq raced'
      BY <1>9 DEF Stored, Meets
    <2>2. op'[i] = op[i]
      BY <1>2, <1>9 DEF Stored
    <2>3. owed'[i] = owed[i]
      BY <1>1, <1>9 DEF Stored
    <2>4. cache'[i] = cache[i]
      <3>1. PICK x, f : \/ cache' = ModifyOffline(cache, j, f)
                        \/ cache' = DeleteOffline(cache, j, f)
                        \/ cache' = DoModifyItem(cache, j, x, f)
        BY <1>9 DEF Stored
      <3> QED
        BY <1>1, <3>1, OtherRows
    <2> QED
      BY <1>1, <2>1, <2>2, <2>3, <2>4 DEF SameItem, syncVars
  <1>10. CASE AddFetched(j)
    <2>1. UNCHANGED <<server, offline, clock, refreshing, phase, queued, snap, fetched,
                      play, op, owed, seen>>
          /\ raced \subseteq raced' /\ todo' = todo \ {j} /\ cache' = Put(cache, j, fetched[j])
      BY <1>10 DEF AddFetched, Overtakes
    <2>2. cache'[i] = cache[i]
      BY <1>1, <2>1, OtherRows
    <2> QED
      BY <1>1, <2>1, <2>2 DEF SameItem
  <1> QED
    BY <1>4, <1>5, <1>6, <1>7, <1>8, <1>9, <1>10 DEF UserCall, CallEvent

(* An event of one item keeps what is said of every item. *)
LEMMA ItemEventKeeps ==
    ASSUME ItemsInv, CacheInv', NEW j \in Items,
           OtherClient(j) \/ UserCall(j) \/ CallEvent(j) \/ AddFetched(j),
           NEW i \in Items \ raced'
    PROVE  ItemOK(i)'
  <1>1. CASE i = j
    BY <1>1, OtherClientItem, AdoptItemItem, AskedItem, FlagAnsweredItem, ProviderAnswersItem,
       StoredItem, AddFetchedItem
       DEF UserCall, CallEvent
  <1>2. CASE i # j
    <2>1. /\ SameItem(i) /\ UNCHANGED <<phase, play>> /\ (i \in todo' <=> i \in todo)
          /\ raced \subseteq raced'
      BY <1>2, OthersSame
    <2>2. CacheInv /\ ItemOK(i)
      BY <2>1 DEF ItemsInv
    <2> QED
      BY <2>1, <2>2, Still
  <1> QED
    BY <1>1, <1>2

(* A step that changes neither the item nor the playbacks, between phases  *)
(* in which nothing of the item is to be added.                            *)
LEMMA PhaseItem ==
    ASSUME ItemsInv, CacheInv', NEW i \in Items \ raced,
           UNCHANGED <<cache, server, seen, owed, op, clock, play>>,
           ~Adding(i), ~Adding(i)'
    PROVE  ItemOK(i)'
  <1>1. CacheInv /\ ItemOK(i) /\ i \in Items
    BY DEF ItemsInv
  <1>2. /\ Dated(i)' /\ Settled(i)' /\ Played(i)'
        /\ Busy(i)' => ~Playing(i)' /\ Offered(i)'
    BY <1>1 DEF ItemOK, Dated, Settled, Played, Busy, Playing, Holds, Offered
  <1> QED
    BY <1>2 DEF ItemOK

(* The cache is emptied, and the offline changes with it. *)
LEMMA ItemsFetchedItem ==
    ASSUME ItemsInv, CacheInv', ItemsFetched, NEW i \in Items \ raced'
    PROVE  ItemOK(i)'
  <1>0. /\ phase = "fetching" /\ phase' = "adding"
        /\ fetched' = server /\ seen' = server
        /\ cache' = [j \in Items |-> Absent] /\ owed' = [j \in Items |-> Nothing]
        /\ todo' = {j \in Items : server[j] # 0}
        /\ raced' = raced \cup {j \in Items : Busy(j) \/ Holds(play["failed"], j)}
        /\ UNCHANGED <<server, offline, clock, refreshing, queued, snap, play, op>>
    BY DEF ItemsFetched, SetupCachedCalendar
  <1>1. /\ i \in Items /\ Dated(i) /\ CacheInv /\ ~Busy(i)
        /\ ~Holds(play["failed"], i) /\ play["sync"] = NoPlayback
    BY <1>0 DEF ItemsInv, PhasesOK, ItemOK
  <1>2. op[i] = NoCall /\ ~Busy(i)'
    BY <1>0, <1>1 DEF Busy
  <1>3. ~Playing(i) /\ ~Playing(i)'
    <2>1. ~Holds(play["sync"], i)
      BY <1>1 DEF NoPlayback, Playback, Holds
    <2> QED
      BY <1>0, <1>1, <2>1 DEF Playing, Playbacks, Holds
  <1>4. /\ cache'[i] = Absent /\ cache'[i].content = 0 /\ cache'[i].flag = "none"
        /\ owed'[i] = Nothing /\ (i \in todo' <=> server[i] # 0)
    BY <1>0, <1>1 DEF Absent
  <1>5. Renewed(i)'
    BY <1>0, <1>3, <1>4 DEF Renewed
  <1>6. ~Adding(i)' => Settled(i)'
    BY <1>0, <1>4 DEF Adding, Settled
  <1>7. Dated(i)'
    <2>1. 0 <= clock
      BY <1>1, ItemTyped, StampNumbers
    <2> QED
      BY <1>0, <1>1, <1>2, <1>4, <2>1, NoCallFields DEF Dated
  <1>8. Played(i)'
    BY <1>3 DEF Playing, Holds, Played
  <1> QED
    BY <1>2, <1>5, <1>6, <1>7, <1>8 DEF ItemOK

(* A playback starts with nothing in its hands. *)
LEMMA StartedItem ==
    ASSUME ItemsInv, CacheInv', NEW i \in Items \ raced, NEW w \in Playbacks,
           UNCHANGED <<cache, server, seen, owed, op, clock>>,
           play' = [play EXCEPT ![w] = StartPlayback],
           ~Adding(i), ~Adding(i)'
    PROVE  ItemOK(i)'
  <1>1. i \in Items /\ ItemOK(i) /\ CacheInv
    BY DEF ItemsInv
  <1>2. /\ \A v \in Playbacks : v # w => play'[v] = play[v]
        /\ play'[w] = StartPlayback
        /\ StartPlayback.queue = {} /\ StartPlayback.cur = {}
    BY <1>1 DEF CacheInv, PlayOK, StartPlayback, Playback
  <1>3. Playing(i)' => Playing(i)
    BY <1>2 DEF Playing, Holds
  <1>4. Played(i)'
    BY <1>1, <1>2 DEF ItemOK, Played
  <1>5. Dated(i)' /\ Settled(i)'
    BY <1>1 DEF ItemOK, Dated, Settled
  <1>6. Busy(i)' => ~Playing(i)' /\ Offered(i)'
    BY <1>1, <1>3 DEF ItemOK, Busy, Offered
  <1> QED
    BY <1>4, <1>5, <1>6 DEF ItemOK

(* The steps of a synchronisation that leave the items alone. *)
LEMMA QuietStepItem ==
    ASSUME ItemsInv, CacheInv', ListOffline \/ AllAdded \/ AllReconciled \/ FetchFails,
           NEW i \in Items \ raced'
    PROVE  ItemOK(i)'
  <1>1. UNCHANGED <<cache, server, seen, owed, op, clock, raced, todo>>
    BY DEF ListOffline, AllAdded, AllReconciled, Reconcile, FetchFails
  <1>2. ~Adding(i) /\ ~Adding(i)'
    BY <1>1
       DEF ListOffline, AllAdded, AllReconciled, FetchFails, FetchFailed, EmptyQueue, PhaseAfter,
           Adding
  <1>3. CASE ListOffline \/ AllAdded
    BY <1>1, <1>2, <1>3, PhaseItem DEF ListOffline, AllAdded
  <1>4. CASE AllReconciled
    BY <1>1, <1>2, <1>4, StartedItem DEF AllReconciled, Playbacks
  <1>5. CASE FetchFails
    BY <1>1, <1>2, <1>5, StartedItem DEF FetchFails, Playbacks
  <1> QED
    BY <1>3, <1>4, <1>5

(* A crash drops all that is under way. *)
LEMMA CrashItem ==
    ASSUME ItemsInv, CacheInv', Crash, NEW i \in Items \ raced'
    PROVE  ItemOK(i)'
  <1>0. /\ phase' = "idle" /\ play' = [w \in Playbacks |-> NoPlayback]
        /\ op' = [j \in Items |-> NoCall]
        /\ UNCHANGED <<server, cache, offline, clock, owed, seen>>
    BY DEF Crash
  <1>1. i \in Items /\ ItemOK(i) /\ CacheInv /\ ~Adding(i) /\ ~Adding(i)' /\ ~Busy(i)
    BY DEF Crash, ItemsInv, Adding
  <1>2. op'[i] = NoCall /\ op[i] = NoCall /\ ~Busy(i)'
    BY <1>0, <1>1 DEF Busy
  <1>3. Played(i)'
    BY <1>0 DEF Played, NoPlayback, Playback
  <1>4. Settled(i)' /\ Dated(i)'
    BY <1>0, <1>1, <1>2 DEF ItemOK, Settled, Dated
  <1> QED
    BY <1>1, <1>2, <1>3, <1>4 DEF ItemOK

(* A synchronisation begins, or the status changes. *)
LEMMA StatusItem ==
    ASSUME ItemsInv, CacheInv', Refresh \/ Loaded \/ GoOnline \/ GoOffline,
           NEW i \in Items \ raced'
    PROVE  ItemOK(i)'
  <1>1. ASSUME Synchronize PROVE phase' \in {phase, "created"} /\ todo' = todo
                                 /\ (phase' # phase => phase = "idle")
    BY <1>1 DEF Synchronize, ItemsInv, CacheInv, QueueIsLock
  <1>2. /\ phase' \in {phase, "created"} /\ todo' = todo /\ (phase' # phase => phase = "idle")
        /\ UNCHANGED <<fetched, server, cache, clock, play, op, owed, seen, raced>>
    <2>1. CASE Refresh \/ Loaded
      BY <1>1, <2>1 DEF Refresh, Loaded, Synchronize, syncVars
    <2>2. CASE GoOnline \/ GoOffline
      BY <2>2 DEF GoOnline, GoOffline, syncVars
    <2> QED
      BY <2>1, <2>2
  <1>3. CacheInv /\ ItemOK(i) /\ i \in Items /\ clock \in Int
    <2>1. CacheInv /\ ItemOK(i) /\ i \in Items
      BY <1>2 DEF ItemsInv
    <2> QED
      BY <2>1, ItemTyped, StampNumbers
  <1>4. SameItem(i) /\ (Adding(i)' <=> Adding(i))
    BY <1>2, <1>3 DEF SameItem, Adding
  <1>5. Playing(i)' => Playing(i)
    BY <1>2 DEF Playing, Holds
  <1>6. Played(i)'
    BY <1>2, <1>3 DEF ItemOK, Played
  <1> QED
    BY <1>3, <1>4, <1>5, <1>6, Frame

(* What a playback goes on with is what it had before it, or has listed. *)
LEMMA PoppedHolds ==
    ASSUME NEW s \in {"created", "modified", "deleted"}, NEW q, NEW p \in Popped(s, q)
    PROVE  /\ p.queue \cup p.cur \subseteq q
           /\ p.queue \cup p.cur # {} => p.stage = s
           /\ p.stage \in {"idle", "created", "modified", "deleted"}
  <1>1. CASE q = {}
    <2>1. p = Playback(StageAfter[s], {}, {})
      BY <1>1 DEF Popped
    <2> QED
      BY <2>1 DEF Playback, StageAfter
  <1>2. CASE q # {}
    <2>1. PICK e \in q : p = Playback(s, q \ {e}, {e})
      BY <1>2 DEF Popped
    <2> QED
      BY <2>1 DEF Playback
  <1> QED
    BY <1>1, <1>2

(* A playback that goes on, or ends, tells the queue of a synchronisation. *)
LEMMA ContinueSame ==
    ASSUME ItemsInv, NEW w \in Playbacks, play[w].stage # "idle", NEW p, Continue(w, p)
    PROVE  /\ phase' \in {phase, "idle"} /\ (phase' # phase => phase = "playing")
           /\ play'[w] = p /\ \A v \in Playbacks : v # w => play'[v] = play[v]
           /\ phase' # "playing" => play'["sync"] = NoPlayback
  <1>1. /\ play'[w] = p /\ \A v \in Playbacks : v # w => play'[v] = play[v]
        /\ play[w] # NoPlayback
    BY DEF Continue, ItemsInv, CacheInv, PlayOK, NoPlayback, Playback
  <1>2. "sync" \in Playbacks
    BY DEF Playbacks
  <1>3. CASE w = "sync"
    <2>1. phase = "playing"
      BY <1>1, <1>3 DEF ItemsInv, PhasesOK
    <2> QED
      BY <1>1, <1>3, <2>1 DEF Continue, EmptyQueue
  <1>4. CASE w # "sync"
    BY <1>1, <1>2, <1>4 DEF Continue, ItemsInv, PhasesOK
  <1> QED
    BY <1>3, <1>4

(* A playback lists the items of a flag: it holds what is in the cache.    *)
LEMMA ListPlaybackItem ==
    ASSUME ItemsInv, CacheInv', NEW w \in Playbacks, ListPlayback(w), NEW i \in Items \ raced'
    PROVE  ItemOK(i)'
  <1> DEFINE s == play[w].stage
             q == {<<j, cache[j].content>> : j \in {k \in Items : cache[k].flag = s}}
  <1>0. /\ s # "idle"
        /\ UNCHANGED <<server, cache, offline, clock, refreshing, snap, fetched, todo,
                       op, owed, seen>>
        /\ raced \subseteq raced'
    BY DEF ListPlayback, Overtakes
  <1>1. CacheInv /\ ItemOK(i) /\ i \in Items /\ clock \in Int
    <2>1. CacheInv /\ ItemOK(i) /\ i \in Items
      BY <1>0 DEF ItemsInv
    <2> QED
      BY <2>1, ItemTyped, StampNumbers
  <1>2. SameItem(i)
    BY <1>0, <1>1 DEF SameItem
  <1>3. CASE offline
    <2>1. Continue(w, NoPlayback)
      BY <1>3 DEF ListPlayback, Abort
    <2>2. /\ phase' \in {phase, "idle"} /\ (phase' # phase => phase = "playing")
          /\ play'[w] = NoPlayback /\ \A v \in Playbacks : v # w => play'[v] = play[v]
      BY <1>0, <2>1, ContinueSame
    <2>3. NoPlayback.queue = {} /\ NoPlayback.cur = {}
      BY DEF NoPlayback, Playback
    <2>4. Playing(i)' => Playing(i)
      BY <2>2, <2>3 DEF Playing, Holds
    <2>5. Played(i)'
      BY <1>0, <1>1, <2>2, <2>3 DEF ItemOK, Played
    <2>6. Adding(i)' <=> Adding(i)
      BY <1>0, <2>2 DEF Adding
    <2> QED
      BY <1>1, <1>2, <2>4, <2>5, <2>6, Frame
  <1>4. CASE ~offline
    <2>1. PICK p \in Popped(s, q) : Continue(w, p)
      BY <1>4 DEF ListPlayback
    <2>2. Overtakes({e[1] : e \in q})
      BY <1>4 DEF ListPlayback
    <2>3. s \in {"created", "modified", "deleted"}
      BY <1>0, <1>1 DEF CacheInv, PlayOK, PlaybackType
    <2>4. /\ p.queue \cup p.cur \subseteq q
          /\ p.queue \cup p.cur # {} => p.stage = s
      <3> HIDE DEF s, q
      <3> QED
        BY <2>1, <2>3, PoppedHolds
    <2>5. /\ phase' \in {phase, "idle"} /\ (phase' # phase => phase = "playing")
          /\ play'[w] = p /\ \A v \in Playbacks : v # w => play'[v] = play[v]
      BY <1>0, <2>1, ContinueSame
    <2>6. \A e \in q : e[1] = i => e[2] = cache[i].content /\ cache[i].flag = s
      OBVIOUS
    <2>7. Holds(p, i) => ~Busy(i) /\ cache[i].flag # "none"
      <3> SUFFICES ASSUME Holds(p, i) PROVE ~Busy(i) /\ cache[i].flag # "none"
        OBVIOUS
      <3>1. PICK e \in q : e[1] = i
        BY <2>4 DEF Holds
      <3>2. i \in {d[1] : d \in q}
        BY <3>1
      <3>3. ~Busy(i)
        <4> HIDE DEF q
        <4> QED
          BY <1>1, <2>2, <3>2 DEF Overtakes
      <3>4. cache[i].flag # "none"
        BY <2>3, <2>6, <3>1
      <3> QED
        BY <3>3, <3>4
    <2>8. Playing(i)' => \/ Playing(i)
                         \/ ~Busy(i) /\ cache[i].flag # "none"
      <3> SUFFICES ASSUME NEW v \in Playbacks, Holds(play'[v], i)
                   PROVE  \/ Playing(i)
                          \/ ~Busy(i) /\ cache[i].flag # "none"
        BY DEF Playing, Holds
      <3> QED
        BY <2>5, <2>7 DEF Playing
    <2>9. Played(i)'
      <3> SUFFICES ASSUME NEW v \in Playbacks, NEW e \in play'[v].queue \cup play'[v].cur,
                          e[1] = i
                   PROVE  IF play'[v].stage = "deleted"
                          THEN cache[i].flag = "deleted" \/ cache[i].content = 0
                          ELSE /\ cache[i].content = e[2] /\ e[2] # 0
                               /\ cache[i].flag \in {play'[v].stage, "none"}
        BY <1>0 DEF Played
      <3>1. CASE v # w
        BY <1>1, <2>5, <3>1 DEF ItemOK, Played
      <3>2. CASE v = w
        <4>1. e \in q /\ play'[v].stage = s
          BY <2>4, <2>5, <3>2
        <4>2. e[2] = cache[i].content /\ cache[i].flag = s
          BY <2>6, <4>1
        <4>3. cache[i].content # 0
          BY <1>1, <2>3, <4>2, ItemTyped
        <4> QED
          BY <4>1, <4>2, <4>3
      <3> QED
        BY <3>1, <3>2
    <2>10. Adding(i)' <=> Adding(i)
      BY <1>0, <2>5 DEF Adding
    <2>11. cache[i].flag # "none" => ~Adding(i)
      BY <1>1 DEF ItemOK, Renewed, Absent
    <2> QED
      BY <1>1, <1>2, <2>8, <2>9, <2>10, <2>11, Frame
  <1> QED
    BY <1>3, <1>4

(* The provider has answered a playback: the flag is reset if it agreed.   *)
LEMMA PlaybackAnsweredItem ==
    ASSUME ItemsInv, CacheInv', NEW w \in Playbacks, PlaybackAnswered(w), NEW i \in Items \ raced'
    PROVE  ItemOK(i)'
  <1>0. UNCHANGED <<offline, clock, refreshing, snap, fetched, todo, op>>
    BY DEF PlaybackAnswered
  <1>1. PICK s : s = play[w].stage
    OBVIOUS
  <1>2. PICK e \in play[w].cur : \E answer \in Answers(s, e[1]) :
         LET j == e[1]  x == Result(s, e[2]) IN
         /\ Done(answer, s, j, e[2])
         /\ cache' = PlayedBack(s, j, answer)
         /\ seen' = IF answer = "ok" THEN [seen EXCEPT ![j] = x] ELSE seen
         /\ owed' = IF answer = "ok" /\ owed[j] = x THEN [owed EXCEPT ![j] = Nothing]
                    ELSE owed
         /\ IF answer = "lost" /\ s = "created" THEN Doubled(j) ELSE Overtakes({j})
    BY <1>1 DEF PlaybackAnswered
  <1>3. CacheInv /\ play[w] \in PlaybackType /\ (s = "idle" => play[w].cur = {})
    BY <1>1 DEF ItemsInv, CacheInv, PlayOK
  <1>4. PICK j \in Items, x \in Stamp : e = <<j, x>>
    BY <1>2, <1>3 DEF PlaybackType
  <1>5. PICK answer \in Answers(s, j) :
         /\ Done(answer, s, j, x)
         /\ cache' = PlayedBack(s, j, answer)
         /\ seen' = IF answer = "ok" THEN [seen EXCEPT ![j] = Result(s, x)] ELSE seen
         /\ owed' = IF answer = "ok" /\ owed[j] = Result(s, x)
                    THEN [owed EXCEPT ![j] = Nothing] ELSE owed
         /\ IF answer = "lost" /\ s = "created" THEN Doubled(j) ELSE Overtakes({j})
    BY <1>2, <1>4
  <1>6. s \in {"created", "modified", "deleted"}
    BY <1>1, <1>2, <1>3 DEF PlaybackType
  <1>7. PICK p \in Popped(s, play[w].queue) : Continue(w, p)
    BY <1>1 DEF PlaybackAnswered
  <1>8. /\ p.queue \cup p.cur \subseteq play[w].queue
        /\ p.queue \cup p.cur # {} => p.stage = s
    BY <1>6, <1>7, PoppedHolds
  <1>9. /\ phase' \in {phase, "idle"} /\ (phase' # phase => phase = "playing")
        /\ play'[w] = p /\ \A v \in Playbacks : v # w => play'[v] = play[v]
    BY <1>1, <1>6, <1>7, ContinueSame
  <1>10. \A v \in Playbacks : \A d \in play'[v].queue \cup play'[v].cur :
           d \in play[v].queue \cup play[v].cur /\ play'[v].stage = play[v].stage
    <2> SUFFICES ASSUME NEW v \in Playbacks, NEW d \in play'[v].queue \cup play'[v].cur
                 PROVE  d \in play[v].queue \cup play[v].cur /\ play'[v].stage = play[v].stage
      OBVIOUS
    <2>1. CASE v # w
      BY <1>9, <2>1
    <2>2. CASE v = w
      BY <1>1, <1>8, <1>9, <2>2
    <2> QED
      BY <2>1, <2>2
  <1>11. Playing(i)' => Playing(i)
    BY <1>10 DEF Playing, Holds
  <1>12. raced \subseteq raced'
    BY <1>5 DEF Doubled, Overtakes
  <1>13. ItemOK(i) /\ i \in Items
    BY <1>12 DEF ItemsInv
  <1>14. /\ CacheOK(cache) /\ server \in [Items -> Stamp] /\ seen \in [Items -> Stamp]
         /\ owed \in [Items -> Stamp \cup {Nothing}] /\ clock \in Int /\ clock <= clock
         /\ 0 <= clock
    <2>1. clock \in Int /\ 0 <= clock
      BY <1>3, <1>13, ItemTyped, StampNumbers
    <2> QED
      BY <1>3, <2>1 DEF CacheInv, TypeOK, CacheOK, Cached
  <1>a. Adding(i)' <=> Adding(i)
    BY <1>0, <1>9 DEF Adding
  <1>15. CASE i # j
    <2>1. server'[i] = server[i] /\ seen'[i] = seen[i] /\ owed'[i] = owed[i]
      BY <1>5, <1>13, <1>14, <1>15 DEF Done
    <2>2. cache'[i] = cache[i]
      <3>1. PICK f : \/ cache' = cache
                     \/ cache' = Remove(cache, j)
                     \/ cache' = SetFlag(cache, j, f)
        BY <1>5 DEF PlayedBack
      <3>2. CacheOK(cache) /\ i \in Items /\ i # j
        BY <1>13, <1>14, <1>15
      <3> QED
        BY <3>1, <3>2, OtherRows
    <2>3. SameItem(i)
      BY <1>0, <1>14, <2>1, <2>2 DEF SameItem
    <2>4. Played(i)'
      BY <1>10, <1>13, <2>2 DEF ItemOK, Played
    <2> QED
      BY <1>3, <1>a, <1>11, <1>13, <2>3, <2>4, Frame
  <1>16. CASE i = j
    <2>1. ~Busy(i) /\ ~(answer = "lost" /\ s = "created")
      BY <1>5, <1>16 DEF Doubled, Overtakes
    <2>2. Playing(i)
      BY <1>2, <1>4, <1>16 DEF Playing, Holds
    <2>3. ~Adding(i)
      BY <1>13, <2>2 DEF ItemOK, Renewed
    <2>4. Settled(i) /\ Played(i) /\ Dated(i)
      BY <1>13, <2>3 DEF ItemOK
    <2>5. op[i] = NoCall
      BY <2>1 DEF Busy
    <2>6. ~Busy(i)' /\ ~Adding(i)'
      BY <1>0, <1>a, <2>3, <2>5 DEF Busy
    <2>7. PICK c : c = cache[i]
      OBVIOUS
    <2>8. c.flag \in Flag /\ c.content \in Stamp /\ (c.content = 0 => c.flag = "none")
      BY <1>3, <1>13, <2>7, ItemTyped
    <2>9. IF s = "deleted" THEN c.flag = "deleted" \/ c.content = 0
          ELSE c.content = x /\ x # 0 /\ c.flag \in {s, "none"}
      <3>1. e \in play[w].queue \cup play[w].cur /\ e[1] = i /\ e[2] = x
        BY <1>2, <1>4, <1>16
      <3> QED
        BY <1>1, <2>4, <2>7, <3>1 DEF Played
    <2>10. /\ c.flag = "none" => c.content = seen[i]
           /\ c.flag = "created" => seen[i] = 0 /\ server[i] = 0
           /\ c.flag \in {"modified", "deleted"} => seen[i] # 0
           /\ owed[i] # Nothing => Keeps(c, owed[i])
      BY <2>4, <2>5, <2>7, NoCallFields DEF Settled
    <2>11. PICK r : r = Result(s, x)
      OBVIOUS
    <2>12. r = (IF s = "deleted" THEN 0 ELSE x)
      BY <2>11 DEF Result
    <2>13. CASE answer # "ok"
      <3>1. cache' = cache /\ seen' = seen /\ owed' = owed
        BY <1>5, <2>13 DEF PlayedBack
      <3>2. server'[i] = server[i] \/ (answer = "lost" /\ server'[i] = r)
        BY <1>5, <1>14, <1>16, <2>11, <2>13 DEF Done
      <3>3. Settled(i)'
        <4>1. c.flag = "created" => server'[i] = 0
          <5>1. CASE s = "created"
            BY <2>1, <2>10, <3>2, <5>1
          <5>2. CASE s = "modified"
            BY <2>9, <2>10, <5>2
          <5>3. CASE s = "deleted"
            BY <2>10, <2>12, <3>2, <5>3
          <5> QED
            BY <1>6, <5>1, <5>2, <5>3
        <4> QED
          BY <1>0, <2>4, <2>7, <2>10, <3>1, <4>1 DEF Settled
      <3>4. Dated(i)'
        <4>1. server'[i] <= clock
          BY <1>14, <2>4, <2>7, <2>9, <2>12, <3>2 DEF Dated
        <4> QED
          BY <1>0, <2>4, <3>1, <4>1 DEF Dated
      <3>5. Played(i)'
        BY <1>10, <2>4, <3>1 DEF Played
      <3> QED
        BY <2>6, <3>3, <3>4, <3>5 DEF ItemOK
    <2>14. CASE answer = "ok"
      <3>1. /\ server'[i] = r /\ seen'[i] = r
            /\ owed'[i] = IF owed[i] = r THEN Nothing ELSE owed[i]
        BY <1>5, <1>13, <1>14, <1>16, <2>11, <2>14 DEF Done
      <3>2. cache'[i].flag = "none" /\ cache'[i].content = r
        <4>1. CASE s = "deleted"
          <5>1. cache' = Remove(cache, i)
            BY <1>5, <1>16, <2>14, <4>1 DEF PlayedBack
          <5>2. cache'[i] = Absent
            BY <1>13, <1>14, <5>1 DEF Remove, CacheOK
          <5> QED
            BY <2>12, <4>1, <5>2 DEF Absent
        <4>2. CASE s # "deleted"
          <5>1. cache' = [cache EXCEPT ![i].flag = "none"]
            BY <1>5, <1>16, <2>7, <2>9, <2>14, <4>2 DEF PlayedBack, SetFlag
          <5> QED
            BY <1>13, <1>14, <2>7, <2>9, <2>12, <4>2, <5>1 DEF CacheOK, Cached
        <4> QED
          BY <4>1, <4>2
      <3>3. owed'[i] = Nothing
        <4> SUFFICES ASSUME owed[i] # Nothing PROVE owed[i] = r
          BY <3>1
        <4>1. c.flag # "none" /\ owed[i] = (IF c.flag = "deleted" THEN 0 ELSE c.content)
          BY <2>10 DEF Keeps
        <4>2. c.flag = s
          BY <2>8, <2>9, <4>1
        <4> QED
          BY <1>6, <2>9, <2>12, <4>1, <4>2
      <3>4. Settled(i)'
        BY <1>0, <2>5, <3>1, <3>2, <3>3 DEF Settled
      <3>5. r <= clock
        BY <1>14, <2>4, <2>7, <2>9, <2>12 DEF Dated
      <3>6. Dated(i)'
        BY <1>0, <1>14, <2>4, <2>5, <3>1, <3>2, <3>5, NoCallFields DEF Dated
      <3>7. Played(i)'
        <4> SUFFICES ASSUME NEW v \in Playbacks, NEW d \in play'[v].queue \cup play'[v].cur,
                            d[1] = i
                     PROVE  IF play'[v].stage = "deleted"
                            THEN cache'[i].flag = "deleted" \/ cache'[i].content = 0
                            ELSE /\ cache'[i].content = d[2] /\ d[2] # 0
                                 /\ cache'[i].flag \in {play'[v].stage, "none"}
          BY DEF Played
        <4>1. d \in play[v].queue \cup play[v].cur /\ play'[v].stage = play[v].stage
          BY <1>10
        <4>2. IF play[v].stage = "deleted" THEN c.flag = "deleted" \/ c.content = 0
              ELSE c.content = d[2] /\ d[2] # 0 /\ c.flag \in {play[v].stage, "none"}
          BY <2>4, <2>7, <4>1 DEF Played
        <4>3. CASE s = "deleted"
          <5>1. play[v].stage = "deleted"
            BY <2>8, <2>9, <4>2, <4>3
          <5> QED
            BY <2>12, <3>2, <4>1, <4>3, <5>1
        <4>4. CASE s # "deleted"
          <5>1. play[v].stage # "deleted"
            BY <1>6, <2>9, <4>2, <4>4
          <5> QED
            BY <2>9, <2>12, <3>2, <4>1, <4>2, <4>4, <5>1
        <4> QED
          BY <4>3, <4>4
      <3> QED
        BY <2>6, <3>4, <3>6, <3>7 DEF ItemOK
    <2> QED
      BY <2>13, <2>14
  <1> QED
    BY <1>15, <1>16

(* What is said of every item, and of the phases. *)
LEMMA PhasesKeep ==
    ASSUME ItemsInv, [Next]_vars
    PROVE  PhasesOK'
  <1>1. CacheInv /\ (phase # "playing" => play["sync"] = NoPlayback) /\ "sync" \in Playbacks
    BY DEF ItemsInv, PhasesOK, Playbacks
  <1>2. ASSUME UNCHANGED play, phase = "playing" => phase' = "playing" PROVE PhasesOK'
    BY <1>1, <1>2 DEF PhasesOK
  <1>3. ASSUME NEW i \in Items, OtherClient(i) \/ UserCall(i) \/ CallEvent(i) \/ AddFetched(i)
        PROVE  PhasesOK'
    <2>1. UNCHANGED <<phase, play>>
      BY <1>3 DEF OtherClient, UserCall, AdoptItem, ModifyItem, DeleteItem, CallEvent,
         FlagAnswered, ProviderAnswers, Stored, AddFetched, syncVars
    <2> QED
      BY <1>2, <2>1
  <1>4. CASE ListOffline \/ ItemsFetched \/ AllAdded
    BY <1>2, <1>4 DEF ListOffline, PhaseAfter, ItemsFetched, AllAdded
  <1>5. CASE AllReconciled
    BY <1>5 DEF AllReconciled, PhasesOK
  <1>6. CASE FetchFails
    <2>1. phase # "playing" /\ play' = [play EXCEPT !["failed"] = StartPlayback]
      BY <1>6 DEF FetchFails
    <2>2. play'["sync"] = play["sync"]
      BY <1>1, <2>1 DEF CacheInv, PlayOK
    <2> QED
      BY <1>1, <2>1, <2>2 DEF PhasesOK
  <1>7. ASSUME NEW w \in Playbacks, PlayEvent(w) PROVE PhasesOK'
    <2>1. play[w].stage # "idle" /\ \E p : Continue(w, p)
      <3>1. CASE ListPlayback(w)
        BY <3>1 DEF ListPlayback, Abort
      <3>2. CASE PlaybackAnswered(w)
        <4>1. play[w].stage # "idle"
          BY <1>1, <3>2 DEF PlaybackAnswered, CacheInv, PlayOK
        <4> QED
          BY <3>2, <4>1 DEF PlaybackAnswered
      <3> QED
        BY <1>7, <3>1, <3>2 DEF PlayEvent
    <2> QED
      BY <2>1, ContinueSame DEF PhasesOK
  <1>8. CASE Refresh \/ Loaded
    <2>1. UNCHANGED play /\ (Synchronize \/ UNCHANGED phase)
      BY <1>8 DEF Refresh, Loaded, syncVars
    <2>2. phase = "playing" => phase' = "playing"
      BY <1>1, <2>1 DEF Synchronize, CacheInv, QueueIsLock
    <2> QED
      BY <1>2, <2>1, <2>2
  <1>9. CASE GoOnline \/ GoOffline \/ UNCHANGED vars
    BY <1>2, <1>9 DEF GoOnline, GoOffline, syncVars, vars
  <1>10. CASE Crash
    BY <1>1, <1>10 DEF Crash, PhasesOK
  <1> QED
    BY <1>3, <1>4, <1>5, <1>6, <1>7, <1>8, <1>9, <1>10 DEF Next, Begin, SyncEvent

LEMMA ItemsInit == Init => ItemsInv
  <1> SUFFICES ASSUME Init PROVE ItemsInv
    OBVIOUS
  <1>1. CacheInv
    BY CacheInit
  <1>2. /\ phase = "idle" /\ play = [w \in Playbacks |-> NoPlayback]
        /\ op = [i \in Items |-> NoCall]
        /\ seen = server /\ clock = 1 /\ server \in [Items -> {0, 1}]
        /\ cache = [i \in Items |-> [content |-> server[i], flag |-> "none"]]
        /\ owed = [i \in Items |-> Nothing]
    BY DEF Init
  <1>3. PhasesOK
    BY <1>2 DEF PhasesOK, Playbacks
  <1>4. ASSUME NEW i \in Items PROVE ItemOK(i)
    <2>1. /\ op[i] = NoCall
          /\ \A w \in Playbacks : play[w].queue = {} /\ play[w].cur = {}
      BY <1>2 DEF NoPlayback, Playback
    <2>2. ~Busy(i) /\ ~Adding(i)
      BY <1>2, <2>1 DEF Busy, Adding
    <2>3. Settled(i) /\ Played(i)
      BY <1>2, <2>1 DEF Settled, Played
    <2>4. Dated(i)
      <3>1. server[i] \in {0, 1} /\ cache[i].content = server[i] /\ cache[i].flag = "none"
        BY <1>2
      <3> QED
        BY <1>2, <2>1, <3>1, NoCallFields DEF Dated
    <2> QED
      BY <2>2, <2>3, <2>4 DEF ItemOK
  <1> QED
    BY <1>1, <1>3, <1>4 DEF ItemsInv

LEMMA ItemsStep == ItemsInv /\ [Next]_vars => ItemsInv'
  <1> SUFFICES ASSUME ItemsInv, [Next]_vars PROVE ItemsInv'
    OBVIOUS
  <1>1. CacheInv'
    BY CacheStep DEF ItemsInv
  <1>2. PhasesOK'
    BY PhasesKeep
  <1>3. ASSUME NEW i \in Items \ raced' PROVE ItemOK(i)'
    <2>1. CASE UNCHANGED vars
      BY <2>1 DEF vars, ItemsInv, ItemOK, Dated, Offered, Renewed, Settled, Played, Busy,
         Adding, Playing, Holds
    <2>2. CASE Next
      BY <1>1, <2>2, ItemEventKeeps, ItemsFetchedItem, QuietStepItem, CrashItem,
         StatusItem, ListPlaybackItem, PlaybackAnsweredItem
         DEF Next, Begin, SyncEvent, PlayEvent
    <2> QED
      BY <2>1, <2>2
  <1> QED
    BY <1>1, <1>2, <1>3 DEF ItemsInv

LEMMA ItemsInvariant == Spec => []ItemsInv
  BY ItemsInit, ItemsStep, PTL DEF Spec

-----------------------------------------------------------------------------
(* An offline change that nothing overlapped stays in the cache under its  *)
(* flag, through calls and playbacks that fail, synchronisations that fail *)
(* and crashes: only an answer of the server, its withdrawal or a          *)
(* synchronisation that renews the cache takes it out.                     *)
THEOREM OfflineChangesAreKept == Spec => []NothingLost
  <1>1. ASSUME ItemsInv PROVE NothingLost
    <2> SUFFICES ASSUME NEW i \in Items \ raced, owed[i] # Nothing, ~Busy(i)
                 PROVE  Keeps(cache[i], owed[i])
      BY DEF NothingLost
    <2>1. ItemOK(i)
      BY <1>1 DEF ItemsInv
    <2>2. ~Adding(i)
      BY <2>1 DEF ItemOK, Renewed
    <2>3. op[i].stage # "mark"
      BY NoCallFields DEF Busy
    <2> QED
      BY <2>1, <2>2, <2>3 DEF ItemOK, Settled
  <1> QED
    BY <1>1, ItemsInvariant, PTL

(* When nothing is under way, an item without an offline flag has the      *)
(* contents that the server last told it to have.                          *)
THEOREM MirrorsWhenQuiet == Spec => []MirrorsServer
  <1>1. ASSUME ItemsInv PROVE MirrorsServer
    <2> SUFFICES ASSUME Quiet, NEW i \in Items \ raced, cache[i].flag = "none"
                 PROVE  cache[i].content = seen[i]
      BY DEF MirrorsServer
    <2>1. ItemOK(i) /\ ~Adding(i)
      BY <1>1 DEF ItemsInv, Quiet, Adding
    <2>2. op[i] = NoCall
      BY DEF Quiet, Busy
    <2> QED
      BY <2>1, <2>2, NoCallFields DEF ItemOK, Settled
  <1> QED
    BY <1>1, ItemsInvariant, PTL

(* A flag tells which call brings the item to the server: "created" stands *)
(* on items that the server is not known to have, the others on items that *)
(* it has.                                                                 *)
THEOREM FlagsFit == Spec => []FlagFits
  <1>1. ASSUME ItemsInv PROVE FlagFits
    <2> SUFFICES ASSUME NEW i \in Items \ raced
                 PROVE  /\ cache[i].flag = "created" => seen[i] = 0
                        /\ cache[i].flag \in {"modified", "deleted"} => seen[i] # 0
      BY DEF FlagFits
    <2>1. ItemOK(i)
      BY <1>1 DEF ItemsInv
    <2>2. Adding(i) => cache[i].flag = "none"
      BY <2>1 DEF ItemOK, Renewed, Absent
    <2> QED
      BY <2>1, <2>2 DEF ItemOK, Settled
  <1> QED
    BY <1>1, ItemsInvariant, PTL

(* No call of the provider takes the server back to contents older than    *)
(* those that the client has seen of it.                                   *)
LEMMA NoOlderWrite ==
    ASSUME ItemsInv, [Next]_vars, NEW i \in Items \ raced,
           0 < server'[i], server'[i] < server[i], server[i] = seen[i]
    PROVE  FALSE
  <1>1. CacheInv /\ ItemOK(i) /\ i \in Items /\ Dated(i)
    BY DEF ItemsInv, ItemOK
  <1>2. /\ server[i] \in Int /\ seen[i] \in Int /\ cache[i].content \in Int /\ clock \in Int
        /\ server[i] <= clock /\ server \in [Items -> Stamp]
        /\ server'[i] # 0 /\ server'[i] # server[i]
    <2>1. /\ server[i] \in Int /\ seen[i] \in Int /\ cache[i].content \in Int /\ clock \in Int
      BY <1>1, ItemTyped, StampNumbers
    <2>2. server'[i] # 0
      OBVIOUS
    <2>3. server'[i] # server[i]
      BY <2>1
    <2> QED
      BY <1>1, <2>1, <2>2, <2>3 DEF Dated, CacheInv, TypeOK
  <1>3. ASSUME NEW j \in Items, OtherClient(j) PROVE FALSE
    <2>1. server'[i] = clock + 1
      BY <1>1, <1>2, <1>3 DEF OtherClient
    <2> QED
      BY <1>2, <2>1
  <1>4. ASSUME NEW j \in Items, ProviderAnswers(j) PROVE FALSE
    <2>1. PICK o : o = op[j]
      OBVIOUS
    <2>2. PICK answer : answer \in Answers(o.kind, j) /\ Done(answer, o.kind, j, o.content)
      BY <1>4, <2>1 DEF ProviderAnswers
    <2>3. j = i /\ server'[i] = Result(o.kind, o.content)
      BY <1>1, <1>2, <2>2 DEF Done
    <2>4. o.kind # "deleted" /\ server'[i] = o.content
      BY <1>2, <2>3 DEF Result
    <2>5. o.stage = "sent"
      BY <1>4, <2>1 DEF ProviderAnswers
    <2>6. Offered(i)
      BY <1>1, <2>1, <2>3, <2>5, NoCallFields DEF ItemOK, Busy
    <2>7. seen[i] < o.content
      BY <1>1, <2>1, <2>3, <2>4, <2>5, <2>6 DEF Dated, Offered
    <2>8. o.content \in Int
      <3>1. o \in CallType
        BY <1>1, <2>1, ItemTyped
      <3>2. o.content \in Stamp
        BY <3>1 DEF CallType
      <3> QED
        BY <3>2, StampNumbers
    <2>9. o.content < seen[i]
      BY <2>4
    <2> QED
      BY <1>2, <2>7, <2>8, <2>9
  <1>5. ASSUME NEW w \in Playbacks, PlaybackAnswered(w) PROVE FALSE
    <2>1. PICK s : s = play[w].stage
      OBVIOUS
    <2>2. PICK e \in play[w].cur : \E answer \in Answers(s, e[1]) : Done(answer, s, e[1], e[2])
      BY <1>5, <2>1 DEF PlaybackAnswered
    <2>3. PICK answer \in Answers(s, e[1]) : Done(answer, s, e[1], e[2])
      BY <2>2
    <2>4. e[1] = i /\ server'[i] = Result(s, e[2]) /\ answer \in {"ok", "lost"}
      BY <1>1, <1>2, <2>3 DEF Done
    <2>5. s # "deleted" /\ server'[i] = e[2]
      BY <1>2, <2>4 DEF Result
    <2>6. s # "created"
      <3> SUFFICES ASSUME s = "created" PROVE FALSE
        OBVIOUS
      <3>1. server[i] = 0
        BY <2>3, <2>4 DEF Answers, Accepts
      <3>2. server'[i] \in Int
        <4>1. play[w] \in PlaybackType
          BY <1>1 DEF CacheInv, PlayOK
        <4>2. e[2] \in Stamp
          BY <4>1 DEF PlaybackType
        <4> QED
          BY <2>5, <4>2, StampNumbers
      <3> QED
        BY <3>1, <3>2
    <2>7. Playing(i)
      BY <2>2, <2>4 DEF Playing, Holds
    <2>8. ~Busy(i) /\ ~Adding(i)
      BY <1>1, <2>7 DEF ItemOK, Renewed
    <2>9. Settled(i) /\ op[i] = NoCall
      BY <1>1, <2>8 DEF ItemOK, Busy
    <2>10. cache[i].content = e[2] /\ cache[i].flag \in {s, "none"}
      <3>1. e \in play[w].queue \cup play[w].cur
        BY <2>2
      <3> QED
        BY <1>1, <2>1, <2>4, <2>5, <3>1 DEF ItemOK, Played
    <2>11. cache[i].content < seen[i]
      BY <2>5, <2>10
    <2>12. cache[i].flag # "none"
      BY <1>2, <2>9, <2>11, NoCallFields DEF Settled
    <2>13. cache[i].flag = "modified"
      <3>1. play[w] \in PlaybackType /\ (play[w].stage = "idle" => play[w].cur = {})
        BY <1>1 DEF CacheInv, PlayOK
      <3>2. s \in {"created", "modified", "deleted"}
        BY <2>1, <2>2, <3>1 DEF PlaybackType
      <3> QED
        BY <2>5, <2>6, <2>10, <2>12, <3>2
    <2> QED
      BY <1>1, <1>2, <2>11, <2>13 DEF Dated
  <1>6. CASE server' = server
    BY <1>2, <1>6
  <1> QED
    BY <1>3, <1>4, <1>5, <1>6
       DEF vars, Next, Begin, SyncEvent, PlayEvent, UserCall, CallEvent, Refresh, Loaded, GoOnline,
           GoOffline, Crash, AdoptItem, ModifyItem, DeleteItem, FlagAnswered, Stored, ListOffline,
           ItemsFetched, AllAdded, AllReconciled, FetchFails, AddFetched, Reconcile, ListPlayback

(* Contents of the server that the client has seen are never replaced by   *)
(* older ones of an offline change or of a call.                           *)
THEOREM SeenIsNotReplaced == Spec => NothingOlder
  <1>1. ASSUME ItemsInv, [Next]_vars
        PROVE  [\A i \in Items \ raced :
                  ~(0 < server'[i] /\ server'[i] < server[i] /\ server[i] = seen[i])]_vars
    BY <1>1, NoOlderWrite
  <1> QED
    BY <1>1, ItemsInvariant, PTL DEF Spec, NothingOlder
=============================================================================
