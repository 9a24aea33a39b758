------------------------- MODULE ICSCalendarProofs -------------------------
(***************************************************************************)
(* Proofs about ICSCalendar, for any number of calls and any changes of    *)
(* other clients.                                                          *)
(***************************************************************************)
EXTENDS ICSCalendar, SequenceTheorems, TLAPS

(* What a queue may have after `last' calls, of which those in C were      *)
(* modifications.                                                          *)
QueueOK(q, C, last) ==
    /\ q \in Seq(Entry)
    /\ \A i \in 1 .. Len(q) :
         /\ q[i].action = "change" => q[i].id \in C
         /\ q[i].action = "get" => q[i].id \notin C /\ q[i].id <= last

(* The modifications whose callers wait for an answer are in the memory    *)
(* calendar, and then in the upload, and then in the remote file; nobody   *)
(* waits while the file is downloaded.                                     *)
ActingOK ==
    /\ request.op = "backup" => acting \subseteq memory
    /\ request.op = "put" =>
         /\ acting \subseteq request.items
         /\ request.state = "done" => request.items \cap Call \subseteq published
    /\ request.op = "etag" => acting \subseteq published
    /\ request.op \in {"get", "none"} => acting = {}

(* The types of the variables that processQueue does not assign. *)
RestOK ==
    /\ lastCall \in 0 .. MaxCalls
    /\ etag \in Tag
    /\ readOnly \in BOOLEAN
    /\ server \in AllServerTags
    /\ remote \in [items : SUBSET (changes \cup edits), version : Nat, readable : BOOLEAN]
    /\ edits \subseteq Edit
    /\ changes \subseteq 1 .. lastCall
    /\ published \subseteq changes

(* Calls that have not been made have no answer. *)
UnmadeOK(answers, last) == \A c \in Call : c > last => answers[c] = "none"

(* The inductive invariant. *)
CalInv == /\ TypeOK /\ NeverStuck /\ ActingOK /\ SuccessIsPublished
          /\ QueueOK(queue, changes, lastCall) /\ UnmadeOK(answer, lastCall)
-----------------------------------------------------------------------------
(* processQueue leaves a calendar that is unlocked and has done everything *)
(* or one that is locked and has its request under way.                    *)
LEMMA ProcessPreserves ==
    ASSUME RestOK', NEW q, QueueOK(q, changes', lastCall'),
           NEW items \in SUBSET (changes' \cup edits'),
           NEW answers \in [Call -> Answer], ProcessQueue(q, items, answers),
           UnmadeOK(answers, lastCall'),
           \A c \in changes' : answers[c] = "ok" => c \in published'
    PROVE  CalInv'
  <1>1. PICK n \in 1 .. Len(q) + 1 :
          LET mods == Ids(q, n, "change")
              gets == Ids(q, n, "get")
          IN /\ memory' = items \cup mods
             /\ acting' = mods
             /\ answer' = [c \in Call |-> IF c \in gets THEN "ok" ELSE answers[c]]
             /\ \/ /\ mods # {}
                   /\ request' = Backup /\ locked' = TRUE
                   /\ queue' = SubSeq(q, n, Len(q))
                \/ /\ mods = {} /\ n <= Len(q)
                   /\ request' = Get(q[n].force) /\ locked' = TRUE
                   /\ queue' = SubSeq(q, n + 1, Len(q))
                \/ /\ mods = {} /\ n > Len(q)
                   /\ request' = NoRequest /\ locked' = FALSE
                   /\ queue' = <<>>
    BY DEF ProcessQueue, ModificationActions, MustWrite
  <1> DEFINE mods == Ids(q, n, "change")
             gets == Ids(q, n, "get")
  <1>2. q \in Seq(Entry) /\ Len(q) \in Nat /\ n \in Nat \ {0}
    BY LenProperties DEF QueueOK
  <1>3. /\ mods \subseteq changes' /\ gets \cap changes' = {}
        /\ \A c \in gets : c <= lastCall'
    BY <1>2 DEF Ids, QueueOK
  <1> HIDE DEF mods, gets
  <1>4. ASSUME NEW m \in Nat \ {0}
        PROVE  QueueOK(SubSeq(q, m, Len(q)), changes', lastCall')
    <2>1. \A i \in m .. Len(q) : q[i] \in Entry
      <3>1. \A i \in m .. Len(q) : i \in 1 .. Len(q)
        BY <1>2
      <3> QED
        BY <1>2, <3>1, ElementOfSeq
    <2> DEFINE s == SubSeq(q, m, Len(q))
    <2>2. /\ s \in Seq(Entry)
          /\ Len(s) = IF m <= Len(q) THEN Len(q) - m + 1 ELSE 0
          /\ \A i \in 1 .. Len(q) - m + 1 : s[i] = q[m + i - 1]
      BY <1>2, <2>1, SubSeqProperties
    <2> HIDE DEF s
    <2>3. ASSUME NEW i \in 1 .. Len(s)
          PROVE  \E j \in 1 .. Len(q) : s[i] = q[j]
      <3>1. m + i - 1 \in 1 .. Len(q) /\ i \in 1 .. Len(q) - m + 1
        BY <1>2, <2>2
      <3> QED
        BY <2>2, <3>1
    <2>4. QueueOK(s, changes', lastCall')
      BY <2>2, <2>3 DEF QueueOK
    <2> QED
      BY <2>4 DEF s
  <1>5. QueueOK(queue', changes', lastCall')
    <2>1. n + 1 \in Nat \ {0}
      BY <1>2
    <2>2. QueueOK(<<>>, changes', lastCall')
      BY EmptySeq DEF QueueOK
    <2> QED
      BY <1>1, <1>2, <1>4, <2>1, <2>2
  <1>6. NeverStuck' /\ ActingOK'
    BY <1>1 DEF NeverStuck, ActingOK, Backup, Get, NoRequest, Request, mods, gets
  <1>7. request' \in [op : {"none", "get", "backup", "put", "etag"}, force : BOOLEAN,
                      items : SUBSET (changes' \cup edits'), tag : Tag,
                      state : {"sent", "done", "refused", "lost"}]
    <2>1. ASSUME n <= Len(q)
          PROVE  q[n].force \in BOOLEAN
      <3>1. q[n] \in Entry
        BY <1>2, <2>1, ElementOfSeq
      <3> QED
        BY <3>1 DEF Entry
    <2> DEFINE T == [op : {"none", "get", "backup", "put", "etag"}, force : BOOLEAN,
                     items : SUBSET (changes' \cup edits'), tag : Tag,
                     state : {"sent", "done", "refused", "lost"}]
    <2>2. NoTag \in Tag /\ {} \in SUBSET (changes' \cup edits')
      BY DEF Tag
    <2>3. Backup \in T /\ NoRequest \in T /\ \A f \in BOOLEAN : Get(f) \in T
      BY <2>2 DEF Backup, Get, NoRequest, Request
    <2> QED
      BY <1>1, <2>1, <2>3
  <1>8. answer' \in [Call -> Answer]
    BY <1>1 DEF Answer
  <1>9. memory' \subseteq changes' \cup edits' /\ acting' \subseteq changes' /\ locked' \in BOOLEAN
    BY <1>1, <1>3 DEF mods
  <1>10. SuccessIsPublished'
    <2>1. \A c \in changes' : c \in Call
      BY CalendarAssumption DEF RestOK, Call
    <2>2. \A c \in changes' : answer'[c] = answers[c]
      BY <1>1, <1>3, <2>1 DEF gets
    <2> QED
      BY <2>2 DEF SuccessIsPublished
  <1>11. UnmadeOK(answer, lastCall)'
    <2>1. lastCall' \in Nat /\ \A c \in Call : c \in Nat
      BY CalendarAssumption DEF RestOK, Call
    <2>2. \A c \in Call : c > lastCall' => c \notin gets
      BY <1>3, <2>1
    <2> QED
      BY <1>1, <2>2 DEF UnmadeOK, gets
  <1>12. TypeOK'
    BY <1>5, <1>7, <1>8, <1>9 DEF TypeOK, RestOK, QueueOK
  <1> QED
    BY <1>5, <1>6, <1>10, <1>11, <1>12 DEF CalInv

(* unlock answers "ok" only to callers whose modification was published.   *)
LEMMA UnlockPreserves ==
    ASSUME CalInv, RestOK', NEW ok \in BOOLEAN, NEW q, QueueOK(q, changes', lastCall'),
           NEW items \in SUBSET (changes' \cup edits'), Unlock(ok, q, items),
           changes' = changes, published' = published, lastCall' = lastCall,
           ok => acting \subseteq published
    PROVE  CalInv'
  <1> DEFINE answers == [c \in Call |-> IF c \in acting THEN AnswerTo(ok, c) ELSE answer[c]]
  <1>1. answers \in [Call -> Answer]
    BY DEF CalInv, TypeOK, AnswerTo, Answer
  <1>2. \A c \in changes' : answers[c] = "ok" => c \in published'
    <2>1. changes \subseteq Call
      BY CalendarAssumption DEF CalInv, TypeOK, Call
    <2> QED
      BY <2>1 DEF CalInv, SuccessIsPublished, AnswerTo
  <1>3. ProcessQueue(q, items, answers)
    BY DEF Unlock
  <1>4. UnmadeOK(answers, lastCall')
    BY CalendarAssumption DEF UnmadeOK, CalInv, TypeOK, Call
  <1> HIDE DEF answers
  <1> QED
    BY <1>1, <1>2, <1>3, <1>4, ProcessPreserves
-----------------------------------------------------------------------------
LEMMA CalInit == Init => CalInv
  <1> SUFFICES ASSUME Init PROVE CalInv
    OBVIOUS
  <1>1. QueueOK(queue, changes, lastCall)
    BY EmptySeq DEF Init, QueueOK
  <1>2. /\ lastCall \in 0 .. MaxCalls /\ server \in AllServerTags /\ etag \in Tag
        /\ changes \subseteq 1 .. lastCall
    BY CalendarAssumption DEF Init, Tag
  <1>3. request \in [op : {"none", "get", "backup", "put", "etag"}, force : BOOLEAN,
                     items : SUBSET (changes \cup edits), tag : Tag,
                     state : {"sent", "done", "refused", "lost"}]
    BY DEF Init, NoRequest, Request, Tag
  <1>4. /\ remote \in [items : SUBSET (changes \cup edits), version : Nat, readable : BOOLEAN]
        /\ answer \in [Call -> Answer]
    BY DEF Init, Answer
  <1>5. \A i \in 1 .. Len(queue) : queue[i].action = "change" => queue[i].id \in changes
    BY <1>1 DEF QueueOK
  <1>6. TypeOK
    BY <1>1, <1>2, <1>3, <1>4, <1>5 DEF Init, TypeOK, QueueOK
  <1>7. UnmadeOK(answer, lastCall) /\ SuccessIsPublished
    BY DEF Init, UnmadeOK, SuccessIsPublished
  <1>8. NeverStuck /\ ActingOK
    BY DEF Init, NeverStuck, ActingOK, NoRequest, Request
  <1> QED
    BY <1>1, <1>6, <1>7, <1>8 DEF CalInv

(* Adding to a queue keeps what it may have. *)
LEMMA AppendOK ==
    ASSUME NEW C, NEW last, NEW q, NEW e \in Entry, QueueOK(q, C, last),
           e.action = "change" => e.id \in C,
           e.action = "get" => e.id \notin C /\ e.id <= last
    PROVE  QueueOK(Append(q, e), C, last)
  <1>1. q \in Seq(Entry) /\ Len(q) \in Nat
    BY LenProperties DEF QueueOK
  <1> DEFINE s == Append(q, e)
  <1>2. /\ s \in Seq(Entry) /\ Len(s) = Len(q) + 1
        /\ \A i \in 1 .. Len(q) : s[i] = q[i]
        /\ s[Len(q) + 1] = e
    BY <1>1, AppendProperties
  <1> HIDE DEF s
  <1>3. \A i \in 1 .. Len(s) : i \in 1 .. Len(q) \/ i = Len(q) + 1
    BY <1>1, <1>2
  <1>4. QueueOK(s, C, last)
    BY <1>2, <1>3 DEF QueueOK
  <1> QED
    BY <1>4 DEF s

(* A call adds to the queue, which is processed if the calendar is idle. *)
LEMMA CallPreserves == CalInv /\ CallCalendar => CalInv'
  <1> SUFFICES ASSUME CalInv, CallCalendar PROVE CalInv'
    OBVIOUS
  <1>1. PICK what \in {"change", "get", "refresh"}, force \in BOOLEAN :
          /\ changes' = IF what = "change" THEN changes \cup {lastCall'} ELSE changes
          /\ Enqueue(Action(what, lastCall', force))
    BY DEF CallCalendar
  <1>2. /\ lastCall < MaxCalls /\ lastCall' = lastCall + 1
        /\ UNCHANGED <<etag, readOnly, server, remote, edits, published>>
    BY DEF CallCalendar
  <1>3. /\ lastCall \in Nat /\ lastCall' \in 0 .. MaxCalls /\ lastCall' \in 1 .. lastCall'
        /\ lastCall' \notin changes /\ changes \subseteq 1 .. lastCall'
    BY <1>2, CalendarAssumption DEF CalInv, TypeOK
  <1>4. PICK e \in Entry : /\ e = Action(what, lastCall', force)
                           /\ e.action = what /\ e.id = lastCall'
    <2>1. Action(what, lastCall', force) \in Entry
      BY <1>3 DEF Action, Entry
    <2>2. /\ Action(what, lastCall', force).action = what
          /\ Action(what, lastCall', force).id = lastCall'
      BY DEF Action
    <2> QED
      BY <2>1, <2>2
  <1>5. Enqueue(e)
    BY <1>1, <1>4
  <1>6. RestOK'
    BY <1>1, <1>2, <1>3 DEF CalInv, TypeOK, RestOK
  <1>7. QueueOK(queue, changes', lastCall')
    <2>1. QueueOK(queue, changes, lastCall)
      BY DEF CalInv
    <2>2. ASSUME NEW i \in 1 .. Len(queue)
          PROVE  queue[i].id \in Nat
      <3>1. queue[i] \in Entry
        BY <2>1, ElementOfSeq DEF QueueOK
      <3> QED
        BY <3>1, CalendarAssumption DEF Entry
    <2> QED
      BY <1>1, <1>2, <1>3, <2>1, <2>2 DEF QueueOK
  <1>8. QueueOK(Append(queue, e), changes', lastCall')
    BY <1>1, <1>3, <1>4, <1>7, AppendOK
  <1>9. \A c \in changes' : answer[c] = "ok" => c \in published'
    <2>1. lastCall' \in Call => answer[lastCall'] = "none"
      BY <1>2, <1>3 DEF CalInv, UnmadeOK
    <2>2. lastCall' \in Call
      BY <1>3, CalendarAssumption DEF Call
    <2> QED
      BY <1>1, <1>2, <2>1, <2>2 DEF CalInv, SuccessIsPublished
  <1>10. UnmadeOK(answer, lastCall')
    BY <1>2, <1>3, CalendarAssumption DEF CalInv, UnmadeOK, Call
  <1>11. CASE locked
    <2>1. queue' = Append(queue, e) /\ UNCHANGED <<memory, acting, locked, request, answer>>
      BY <1>5, <1>11 DEF Enqueue
    <2>2. changes \subseteq changes'
      BY <1>1
    <2>3. QueueOK(queue', changes', lastCall')
      BY <1>8, <2>1
    <2>4. /\ NeverStuck' /\ ActingOK' /\ SuccessIsPublished' /\ UnmadeOK(answer, lastCall)'
      BY <1>2, <1>9, <1>10, <1>11, <2>1
         DEF CalInv, NeverStuck, ActingOK, SuccessIsPublished, UnmadeOK
    <2>5. TypeOK'
      BY <1>2, <1>6, <2>1, <2>2, <2>3 DEF CalInv, TypeOK, RestOK, QueueOK
    <2> QED
      BY <2>3, <2>4, <2>5 DEF CalInv
  <1>12. CASE ~locked
    <2>1. ProcessQueue(Append(queue, e), memory, answer)
      BY <1>5, <1>12 DEF Enqueue
    <2>2. memory \in SUBSET (changes' \cup edits') /\ answer \in [Call -> Answer]
      BY <1>1, <1>2 DEF CalInv, TypeOK
    <2> QED
      BY <1>6, <1>8, <1>9, <1>10, <2>1, <2>2, ProcessPreserves
  <1> QED
    BY <1>11, <1>12

(* The ends of requests and the other steps. *)
LEMMA StepPreserves == CalInv /\ [Next]_vars => CalInv'
  <1> SUFFICES ASSUME CalInv, [Next]_vars PROVE CalInv'
    OBVIOUS
  <1> DEFINE AnyRequest == [op : {"none", "get", "backup", "put", "etag"}, force : BOOLEAN,
                            items : SUBSET (changes \cup edits), tag : Tag,
                            state : {"sent", "done", "refused", "lost"}]
  <1>0. /\ RestOK /\ QueueOK(queue, changes, lastCall)
        /\ memory \in SUBSET (changes \cup edits)
        /\ remote.items \in SUBSET (changes \cup edits) /\ remote.version \in Nat
        /\ \A v \in Nat : TagOf(v) \in Tag
        /\ ForcedRefresh \in Entry /\ ForcedRefresh.action = "refresh"
    BY CalendarAssumption
       DEF CalInv, TypeOK, RestOK, TagOf, Tag, ForcedRefresh, Action, Entry
  <1>1. CASE CallCalendar
    BY <1>1, CallPreserves
  <1>2. CASE MakeWritable
    BY <1>2 DEF MakeWritable, CalInv, TypeOK, NeverStuck, ActingOK, SuccessIsPublished,
                UnmadeOK, QueueOK
  <1>3. CASE PutArrives
    <2>1. /\ request.op = "put" /\ request \in AnyRequest /\ remote.version + 1 \in Tag
          /\ remote.version + 1 \in Nat
          /\ UNCHANGED <<lastCall, queue, memory, acting, locked, etag, readOnly, server,
                         edits, changes, answer>>
      BY <1>0, <1>3 DEF PutArrives, CalInv, TypeOK, Tag
    <2>2. /\ request' \in AnyRequest /\ request'.op = "put" /\ request'.items = request.items
          /\ published \subseteq published'
          /\ published' \subseteq published \cup (request.items \cap Call)
          /\ request'.state = "done" => request.items \cap Call \subseteq published'
          /\ remote' \in [items : SUBSET (changes \cup edits), version : Nat, readable : BOOLEAN]
      <3>1. CASE /\ remote' = [items |-> request.items, version |-> remote.version + 1,
                               readable |-> TRUE]
                 /\ published' = published \cup (request.items \cap Call)
                 /\ request' = [request EXCEPT !.state = "done", !.tag = remote.version + 1]
        BY <2>1, <3>1
      <3>2. CASE /\ request' = [request EXCEPT !.state = "refused"]
                 /\ UNCHANGED <<remote, published>>
        BY <1>0, <2>1, <3>2 DEF RestOK
      <3> QED
        BY <1>3, <3>1, <3>2 DEF PutArrives
    <2>3. published' \subseteq changes
      BY <2>1, <2>2, CalendarAssumption DEF CalInv, TypeOK, Call
    <2>4. TypeOK'
      BY <2>1, <2>2, <2>3 DEF CalInv, TypeOK
    <2>5. NeverStuck' /\ ActingOK' /\ SuccessIsPublished' /\ UnmadeOK(answer, lastCall)'
      BY <2>1, <2>2 DEF CalInv, NeverStuck, ActingOK, SuccessIsPublished, UnmadeOK
    <2> QED
      BY <1>0, <2>1, <2>4, <2>5 DEF CalInv
  <1>4. CASE OtherClient
    <2>1. PICK e \in Edit \ edits :
            /\ edits' = edits \cup {e}
            /\ remote' = [items |-> remote.items \cup {e}, version |-> remote.version + 1,
                          readable |-> e \notin BadEdit]
      BY <1>4 DEF OtherClient
    <2>2. UNCHANGED <<lastCall, queue, memory, acting, locked, request, etag, readOnly,
                      server, changes, published, answer>>
      BY <1>4 DEF OtherClient
    <2>3. remote' \in [items : SUBSET (changes' \cup edits'), version : Nat, readable : BOOLEAN]
      BY <1>0, <2>1, <2>2
    <2>4. /\ request \in [op : {"none", "get", "backup", "put", "etag"}, force : BOOLEAN,
                           items : SUBSET (changes' \cup edits'), tag : Tag,
                           state : {"sent", "done", "refused", "lost"}]
          /\ memory \subseteq changes' \cup edits'
      BY <2>1, <2>2 DEF CalInv, TypeOK
    <2>5. TypeOK'
      BY <2>1, <2>2, <2>3, <2>4 DEF CalInv, TypeOK
    <2>6. NeverStuck' /\ ActingOK' /\ SuccessIsPublished' /\ UnmadeOK(answer, lastCall)'
      BY <2>2 DEF CalInv, NeverStuck, ActingOK, SuccessIsPublished, UnmadeOK
    <2> QED
      BY <1>0, <2>2, <2>5, <2>6 DEF CalInv
  <1>5. CASE BackupEnds
    <2>1. /\ request' = Put(memory) /\ request.op = "backup"
          /\ UNCHANGED <<lastCall, queue, memory, acting, locked, etag, readOnly, server,
                         remote, edits, changes, published, answer>>
      BY <1>5 DEF BackupEnds
    <2>2. request' \in AnyRequest
      BY <1>0, <2>1 DEF Put, Request, RestOK
    <2>3. TypeOK'
      BY <2>1, <2>2 DEF CalInv, TypeOK
    <2>4. NeverStuck' /\ ActingOK' /\ SuccessIsPublished' /\ UnmadeOK(answer, lastCall)'
      BY <2>1 DEF CalInv, NeverStuck, ActingOK, SuccessIsPublished, UnmadeOK, Put, Request
    <2> QED
      BY <1>0, <2>1, <2>3, <2>4 DEF CalInv
  <1>6. CASE WriteFails
    <2>1. QueueOK(Append(queue, ForcedRefresh), changes, lastCall)
      BY <1>0, AppendOK
    <2>2. /\ RestOK' /\ UNCHANGED <<changes, published, lastCall, edits>>
      BY <1>0, <1>6 DEF WriteFails, RestOK
    <2>3. Unlock(FALSE, Append(queue, ForcedRefresh), memory)
      BY <1>6 DEF WriteFails
    <2> QED
      BY <1>0, <2>1, <2>2, <2>3, UnlockPreserves
  <1>7. CASE PutSucceeds
    <2>1. /\ acting \subseteq published
          /\ UNCHANGED <<lastCall, readOnly, server, remote, edits, changes, published>>
      <3>1. acting \subseteq request.items /\ request.items \cap Call \subseteq published
        BY <1>7 DEF PutSucceeds, CalInv, ActingOK
      <3>2. acting \subseteq Call
        BY CalendarAssumption DEF CalInv, TypeOK, Call
      <3> QED
        BY <1>7, <3>1, <3>2 DEF PutSucceeds
    <2>2. CASE etag' = request.tag /\ Unlock(TRUE, queue, memory)
      <3>1. RestOK'
        BY <1>0, <2>1, <2>2 DEF CalInv, TypeOK, RestOK
      <3> QED
        BY <1>0, <2>1, <2>2, <3>1, UnlockPreserves
    <2>3. CASE request' = FetchEtag /\ UNCHANGED <<queue, memory, acting, locked, etag, answer>>
      <3>1. request' \in AnyRequest /\ request'.op = "etag"
        BY <2>3 DEF FetchEtag, Request, Tag
      <3>2. TypeOK'
        BY <2>1, <2>3, <3>1 DEF CalInv, TypeOK
      <3>3. NeverStuck' /\ ActingOK' /\ SuccessIsPublished' /\ UnmadeOK(answer, lastCall)'
        BY <1>7, <2>1, <2>3, <3>1
           DEF PutSucceeds, CalInv, NeverStuck, ActingOK, SuccessIsPublished, UnmadeOK
      <3> QED
        BY <1>0, <2>1, <2>3, <3>2, <3>3 DEF CalInv
    <2> QED
      BY <1>7, <2>2, <2>3 DEF PutSucceeds
  <1>8. CASE EtagArrives
    <2>1. /\ RestOK' /\ UNCHANGED <<changes, published, lastCall, edits>>
      BY <1>0, <1>8 DEF EtagArrives, RestOK, Tag
    <2>2. Unlock(TRUE, queue, memory) /\ acting \subseteq published
      BY <1>8 DEF EtagArrives, CalInv, ActingOK
    <2> QED
      BY <1>0, <2>1, <2>2, UnlockPreserves
  <1>9. CASE EtagLost
    <2>1. /\ request' = [request EXCEPT !.state = "lost"] /\ request.op = "etag"
          /\ request \in AnyRequest
          /\ UNCHANGED <<lastCall, queue, memory, acting, locked, etag, readOnly, server,
                         remote, edits, changes, published, answer>>
      BY <1>9 DEF EtagLost, CalInv, TypeOK
    <2>2. request' \in AnyRequest /\ request'.op = "etag"
      BY <2>1
    <2>3. TypeOK'
      BY <2>1, <2>2 DEF CalInv, TypeOK
    <2>4. NeverStuck' /\ ActingOK' /\ SuccessIsPublished' /\ UnmadeOK(answer, lastCall)'
      BY <2>1, <2>2 DEF CalInv, NeverStuck, ActingOK, SuccessIsPublished, UnmadeOK
    <2> QED
      BY <1>0, <2>1, <2>3, <2>4 DEF CalInv
  <1>10. CASE NothingToLoad
    <2>1. /\ RestOK' /\ UNCHANGED <<changes, published, lastCall, edits>>
      BY <1>0, <1>10 DEF NothingToLoad, RestOK
    <2>2. Unlock(TRUE, queue, memory) /\ acting \subseteq published
      BY <1>10 DEF NothingToLoad, CalInv, ActingOK
    <2> QED
      BY <1>0, <2>1, <2>2, UnlockPreserves
  <1>11. CASE FileLoaded
    <2>1. /\ RestOK' /\ UNCHANGED <<changes, published, lastCall, edits>>
      BY <1>0, <1>11 DEF FileLoaded, RestOK
    <2>2. Unlock(TRUE, queue, remote.items) /\ acting \subseteq published
      BY <1>11 DEF FileLoaded, CalInv, ActingOK
    <2> QED
      BY <1>0, <2>1, <2>2, UnlockPreserves
  <1>12. CASE FileUnreadable
    <2>1. /\ RestOK' /\ UNCHANGED <<changes, published, lastCall, edits>>
      BY <1>0, <1>12 DEF FileUnreadable, RestOK
    <2>2. acting \subseteq published
      BY <1>12 DEF FileUnreadable, CalInv, ActingOK
    <2>3. PICK items \in SUBSET (changes \cup edits) : Unlock(TRUE, queue, items)
      BY <1>0, <1>12 DEF FileUnreadable
    <2> QED
      BY <1>0, <2>1, <2>2, <2>3, UnlockPreserves
  <1>13. CASE UNCHANGED vars
    BY <1>13 DEF vars, CalInv, TypeOK, NeverStuck, ActingOK, SuccessIsPublished,
                UnmadeOK, QueueOK
  <1> QED
    BY <1>1, <1>2, <1>3, <1>4, <1>5, <1>6, <1>7, <1>8, <1>9, <1>10, <1>11, <1>12, <1>13
       DEF Next, RequestEnds

LEMMA CalInvariant == Spec => []CalInv
  BY CalInit, StepPreserves, PTL DEF Spec

(* Every variable has its type: what the queue, an upload or the calendar  *)
(* has as a modification is one that was put in the queue.                 *)
THEOREM CalendarTypeCorrect == Spec => []TypeOK
  <1>1. CalInv => TypeOK
    BY DEF CalInv
  <1> QED
    BY <1>1, CalInvariant, PTL

(* The calendar is never left locked with nothing under way, nor unlocked  *)
(* with calls in its queue or callers to answer.                           *)
THEOREM StaysLive == Spec => []NeverStuck
  <1>1. CalInv => NeverStuck
    BY DEF CalInv
  <1> QED
    BY <1>1, CalInvariant, PTL

(* No caller is told that its modification succeeded unless the remote     *)
(* file has had it, whatever failed and was queued in between.             *)
THEOREM SuccessesArePublished == Spec => []SuccessIsPublished
  <1>1. CalInv => SuccessIsPublished
    BY DEF CalInv
  <1> QED
    BY <1>1, CalInvariant, PTL
-----------------------------------------------------------------------------
(* With a server that sends ETags always, the ETag of the calendar is that *)
(* of a version of the file that the calendar has all changes of.  An      *)
(* upload carries that ETag and what the calendar has; when the server has *)
(* done it, the calendar has all changes of the new version too.           *)
UploadOK ==
    /\ request.state = "sent" => request.tag = etag /\ request.items = memory
    /\ request.state = "done" =>
         /\ request.tag \in Nat /\ request.tag <= remote.version
         /\ request.tag = remote.version => edits \subseteq memory

TagsOK ==
    /\ remote.readable
    /\ edits \subseteq remote.items
    /\ etag \in Nat /\ etag <= remote.version
    /\ etag = remote.version => edits \subseteq memory
    /\ request.op # "etag"
    /\ request.op = "put" => UploadOK

WellServed == server = "put" /\ edits \cap BadEdit = {}

TagsInv == WellServed => TagsOK

(* processQueue takes nothing out of the calendar, and never asks for an   *)
(* ETag or starts an upload at once.                                       *)
LEMMA ProcessKeeps ==
    ASSUME NEW q, NEW items, NEW answers, ProcessQueue(q, items, answers)
    PROVE  items \subseteq memory' /\ request'.op \in {"backup", "get", "none"}
  BY DEF ProcessQueue, Backup, Get, NoRequest, Request

(* After such a step the ETag is that of a version the calendar has.       *)
LEMMA ProcessTags ==
    ASSUME NEW q, NEW items, NEW answers, ProcessQueue(q, items, answers),
           UNCHANGED <<server, remote, edits>>,
           WellServed => /\ remote.readable
                         /\ edits \subseteq remote.items
                         /\ etag' \in Nat /\ etag' <= remote.version
                         /\ etag' = remote.version => edits \subseteq items
    PROVE  TagsInv'
  BY ProcessKeeps DEF TagsInv, TagsOK, WellServed

LEMMA TagsInit == Init => TagsInv
  BY DEF Init, TagsInv, TagsOK, WellServed, NoRequest, Request

(* Every step keeps it.  The interesting ones are PutArrives, where the    *)
(* ETags agree and the upload has all changes of the version it replaces,  *)
(* and OtherClient, which makes a version with an ETag of its own.         *)
LEMMA TagsStep == CalInv /\ TagsInv /\ [Next]_vars => TagsInv'
  <1> SUFFICES ASSUME CalInv, TagsInv, [Next]_vars PROVE TagsInv'
    OBVIOUS
  <1>0. /\ remote.version \in Nat /\ etag \in Tag /\ request.tag \in Tag
        /\ locked \in BOOLEAN
    BY DEF CalInv, TypeOK
  <1>1. CASE CallCalendar
    <2>1. UNCHANGED <<etag, server, remote, edits>>
      BY <1>1 DEF CallCalendar
    <2>2. PICK e : Enqueue(e)
      BY <1>1 DEF CallCalendar
    <2>3. CASE locked
      <3>1. UNCHANGED <<memory, request>>
        BY <2>2, <2>3 DEF Enqueue
      <3> QED
        BY <2>1, <3>1 DEF TagsInv, TagsOK, WellServed, UploadOK
    <2>4. CASE ~locked
      <3>1. ProcessQueue(Append(queue, e), memory, answer)
        BY <2>2, <2>4 DEF Enqueue
      <3> QED
        BY <2>1, <3>1, ProcessTags DEF TagsInv, TagsOK, WellServed
    <2> QED
      BY <2>3, <2>4
  <1>2. CASE MakeWritable
    BY <1>2 DEF MakeWritable, TagsInv, TagsOK, WellServed, UploadOK
  <1>3. CASE PutArrives
    <2> SUFFICES ASSUME WellServed PROVE TagsOK'
      BY <1>3 DEF PutArrives, TagsInv, WellServed
    <2>1. /\ TagsOK /\ request.op = "put" /\ request.state = "sent"
          /\ request.tag = etag /\ request.items = memory /\ etag # NoTag
          /\ UNCHANGED <<memory, etag, edits>>
      BY <1>3, CalendarAssumption DEF PutArrives, TagsInv, TagsOK, UploadOK
    <2>2. CASE request.tag = remote.version
      <3>1. /\ remote' = [items |-> memory, version |-> remote.version + 1,
                          readable |-> TRUE]
            /\ request' = [request EXCEPT !.state = "done", !.tag = remote.version + 1]
        BY <1>3, <2>1, <2>2 DEF PutArrives, TagMatches
      <3>2. request'.state = "done" /\ request'.tag = remote'.version
            /\ request'.op = "put"
        BY <2>1, <3>1 DEF CalInv, TypeOK
      <3>3. edits \subseteq memory
        BY <2>1, <2>2 DEF TagsOK
      <3> QED
        BY <1>0, <2>1, <3>1, <3>2, <3>3 DEF TagsOK, UploadOK
    <2>3. CASE request.tag # remote.version
      <3>1. remote' = remote /\ request' = [request EXCEPT !.state = "refused"]
        BY <1>3, <2>1, <2>3 DEF PutArrives, TagMatches
      <3>2. request'.state = "refused" /\ request'.op = "put"
        BY <2>1, <3>1 DEF CalInv, TypeOK
      <3> QED
        BY <2>1, <3>1, <3>2 DEF TagsOK, UploadOK
    <2> QED
      BY <2>2, <2>3
  <1>4. CASE OtherClient
    <2>1. PICK e \in Edit \ edits :
            /\ edits' = edits \cup {e}
            /\ remote' = [items |-> remote.items \cup {e}, version |-> remote.version + 1,
                          readable |-> e \notin BadEdit]
      BY <1>4 DEF OtherClient
    <2>2. UNCHANGED <<memory, request, etag, server>>
      BY <1>4 DEF OtherClient
    <2> SUFFICES ASSUME WellServed' PROVE TagsOK'
      BY DEF TagsInv
    <2>3. WellServed /\ e \notin BadEdit
      BY <2>1, <2>2 DEF WellServed
    <2>4. TagsOK
      BY <2>3 DEF TagsInv
    <2>5. remote'.readable /\ edits' \subseteq remote'.items
          /\ remote'.version = remote.version + 1
      BY <2>1, <2>3, <2>4 DEF TagsOK
    <2>6. etag \in Nat /\ etag < remote'.version
      BY <1>0, <2>4, <2>5 DEF TagsOK
    <2>7. request.op = "put" => UploadOK'
      BY <1>0, <2>2, <2>4, <2>5 DEF TagsOK, UploadOK
    <2> QED
      BY <1>0, <2>2, <2>4, <2>5, <2>6, <2>7 DEF TagsOK
  <1>5. CASE BackupEnds
    <2>1. /\ request' = Put(memory)
          /\ UNCHANGED <<memory, etag, server, remote, edits>>
      BY <1>5 DEF BackupEnds
    <2>2. /\ request'.op = "put" /\ request'.state = "sent"
          /\ request'.tag = etag /\ request'.items = memory
      BY <2>1 DEF Put, Request
    <2> QED
      BY <2>1, <2>2 DEF TagsInv, TagsOK, WellServed, UploadOK
  <1>6. CASE WriteFails
    BY <1>6, ProcessTags DEF WriteFails, Unlock, TagsInv, TagsOK, WellServed
  <1>7. CASE PutSucceeds
    <2>1. UNCHANGED <<server, remote, edits>>
      BY <1>7 DEF PutSucceeds
    <2>2. CASE server = "put"
      <3>1. etag' = request.tag /\ Unlock(TRUE, queue, memory)
        BY <1>7, <2>2 DEF PutSucceeds
      <3>2. WellServed => /\ TagsOK /\ etag' \in Nat /\ etag' <= remote.version
                          /\ etag' = remote.version => edits \subseteq memory
        BY <1>7, <3>1 DEF PutSucceeds, TagsInv, TagsOK, UploadOK
      <3> QED
        BY <2>1, <3>1, <3>2, ProcessTags DEF Unlock, TagsOK
    <2>3. CASE server # "put"
      BY <2>1, <2>3 DEF TagsInv, WellServed
    <2> QED
      BY <2>2, <2>3
  <1>8. CASE EtagArrives
    BY <1>8 DEF EtagArrives, TagsInv, TagsOK, WellServed
  <1>9. CASE EtagLost
    BY <1>9 DEF EtagLost, TagsInv, TagsOK, WellServed
  <1>10. CASE NothingToLoad
    BY <1>10, ProcessTags DEF NothingToLoad, Unlock, TagsInv, TagsOK, WellServed
  <1>11. CASE FileLoaded
    <2>1. /\ etag' = TagOf(remote.version) /\ Unlock(TRUE, queue, remote.items)
          /\ UNCHANGED <<server, remote, edits>>
      BY <1>11 DEF FileLoaded
    <2>2. WellServed => TagsOK /\ etag' = remote.version
      BY <2>1 DEF TagsInv, WellServed, TagOf
    <2> QED
      BY <1>0, <2>1, <2>2, ProcessTags DEF Unlock, TagsOK
  <1>12. CASE FileUnreadable
    BY <1>12 DEF FileUnreadable, TagsInv, TagsOK, WellServed
  <1>13. CASE UNCHANGED vars
    BY <1>13 DEF vars, TagsInv, TagsOK, WellServed, UploadOK
  <1> QED
    BY <1>1, <1>2, <1>3, <1>4, <1>5, <1>6, <1>7, <1>8, <1>9, <1>10, <1>11, <1>12, <1>13
       DEF Next, RequestEnds

(* The ETags do what they are for: no upload of the calendar removes a     *)
(* change of another client, whatever is refused, lost and queued, with a  *)
(* server that sends them always and files that can be read.               *)
THEOREM EtagsProtect == Spec => []NothingOverwritten
  <1>1. TagsInv => NothingOverwritten
    BY DEF TagsInv, TagsOK, WellServed, NothingOverwritten
  <1>2. Init => CalInv /\ TagsInv
    BY CalInit, TagsInit
  <1>3. CalInv /\ TagsInv /\ [Next]_vars => (CalInv /\ TagsInv)'
    BY StepPreserves, TagsStep
  <1> QED
    BY <1>1, <1>2, <1>3, PTL DEF Spec

-----------------------------------------------------------------------------
(* What a read sees.  In a queue, a modification that is older than a read *)
(* comes before it.                                                        *)
ReadsFollow(q) ==
    \A i, j \in 1 .. Len(q) :
        q[i].action = "get" /\ q[j].action = "change" /\ i < j => q[i].id < q[j].id

Queued(q, c) == \E i \in 1 .. Len(q) : q[i].action = "change" /\ q[i].id = c

(* As long as the files can be read, a modification that succeeded is in   *)
(* the memory calendar and in the remote file, and one whose caller waits  *)
(* is in the queue or in the memory calendar and on its way to the file.   *)
KeptOK ==
    /\ remote.readable /\ ReadsFollow(queue)
    /\ \A c \in changes :
         /\ answer[c] = "ok" => c \in memory /\ c \in remote.items
         /\ answer[c] = "none" => c \in acting \/ Queued(queue, c)
    /\ request.op \in {"backup", "put", "etag"} => acting \subseteq memory
    /\ request.op = "put" /\ request.state = "sent" => request.items = memory
    /\ request.op = "etag" \/ (request.op = "put" /\ request.state = "done")
         => acting \subseteq remote.items

KeptInv == edits \cap BadEdit = {} => KeptOK

(* The reads that processQueue answers see the modifications before them.  *)
ReadsSee(answers) ==
    \A g \in Call \ changes, c \in changes :
        c < g /\ answers[g] = "none" /\ answer'[g] = "ok" /\ answer'[c] # "failed"
          => c \in memory'

(* Nothing is lost of a queue whose first entries are taken. *)
LEMMA TailKeeps ==
    ASSUME NEW q, q \in Seq(Entry), NEW m \in Nat \ {0}, NEW i \in m .. Len(q)
    PROVE  \E j \in 1 .. Len(SubSeq(q, m, Len(q))) : SubSeq(q, m, Len(q))[j] = q[i]
  <1>1. Len(q) \in Nat /\ \A k \in m .. Len(q) : q[k] \in Entry
    BY LenProperties, ElementOfSeq
  <1> DEFINE s == SubSeq(q, m, Len(q))
  <1>2. /\ Len(s) = Len(q) - m + 1
        /\ \A k \in 1 .. Len(q) - m + 1 : s[k] = q[m + k - 1]
    BY <1>1, SubSeqProperties
  <1> HIDE DEF s
  <1>3. i - m + 1 \in 1 .. Len(s) /\ m + (i - m + 1) - 1 = i
    BY <1>1, <1>2
  <1>4. s[i - m + 1] = q[i]
    BY <1>2, <1>3
  <1>5. \E j \in 1 .. Len(s) : s[j] = q[i]
    BY <1>3, <1>4
  <1> QED
    BY <1>5 DEF s

LEMMA ProcessSees ==
    ASSUME NEW C, NEW L, NEW q, QueueOK(q, C, L), ReadsFollow(q), changes \subseteq C,
           NEW D \in SUBSET Call, D = C,
           NEW items, NEW answers \in [Call -> Answer], ProcessQueue(q, items, answers),
           NEW R, R = remote', R.readable, changes' = C,
           \A c \in C : /\ answers[c] = "ok" => c \in items /\ c \in R.items
                        /\ answers[c] = "none" => Queued(q, c)
    PROVE  KeptOK' /\ ReadsSee(answers)
  <1>1. PICK n \in 1 .. Len(q) + 1 :
          LET mods == Ids(q, n, "change")
              gets == Ids(q, n, "get")
          IN /\ memory' = items \cup mods
             /\ acting' = mods
             /\ answer' = [c \in Call |-> IF c \in gets THEN "ok" ELSE answers[c]]
             /\ \/ /\ mods # {}
                   /\ request' = Backup
                   /\ queue' = SubSeq(q, n, Len(q))
                \/ /\ mods = {} /\ n <= Len(q)
                   /\ request' = Get(q[n].force)
                   /\ queue' = SubSeq(q, n + 1, Len(q)) /\ q[n].action = "refresh"
                \/ /\ mods = {} /\ n > Len(q)
                   /\ request' = NoRequest
                   /\ queue' = <<>>
    BY DEF ProcessQueue, ModificationActions, MustWrite, StopsAt
  <1> DEFINE mods == Ids(q, n, "change")
             gets == Ids(q, n, "get")
  <1>2. /\ q \in Seq(Entry) /\ Len(q) \in Nat /\ n \in Nat \ {0} /\ n <= Len(q) + 1
        /\ \A i \in 1 .. Len(q) : q[i] \in Entry
    BY LenProperties, ElementOfSeq DEF QueueOK
  <1>3. /\ \A c : c \in mods <=> \E i \in 1 .. n - 1 : q[i].action = "change" /\ q[i].id = c
        /\ \A g : g \in gets <=> \E i \in 1 .. n - 1 : q[i].action = "get" /\ q[i].id = g
    BY DEF Ids
  <1>4. mods \subseteq C /\ gets \cap C = {}
    BY <1>2, <1>3 DEF QueueOK
  <1> HIDE DEF mods, gets
  <1>5. ASSUME NEW m \in Nat \ {0}, NEW s, s = SubSeq(q, m, Len(q))
        PROVE  ReadsFollow(s)
    <2>1. \A i \in m .. Len(q) : q[i] \in Entry
      BY <1>2
    <2>2. /\ Len(s) = IF m <= Len(q) THEN Len(q) - m + 1 ELSE 0
          /\ \A i \in 1 .. Len(q) - m + 1 : s[i] = q[m + i - 1]
      BY <1>2, <1>5, <2>1, SubSeqProperties
    <2>3. \A i \in 1 .. Len(s) : s[i] = q[m + i - 1] /\ m + i - 1 \in 1 .. Len(q)
      BY <1>2, <2>2
    <2>4. ReadsFollow(s)
      <3> SUFFICES ASSUME NEW i \in 1 .. Len(s), NEW j \in 1 .. Len(s),
                          s[i].action = "get", s[j].action = "change", i < j
                   PROVE  s[i].id < s[j].id
        BY DEF ReadsFollow
      <3>1. m + i - 1 < m + j - 1
        BY <1>2, <2>2
      <3> QED
        BY <2>3, <3>1 DEF ReadsFollow
    <2> QED
      BY <2>4
  <1>6. ReadsFollow(queue')
    <2>1. n + 1 \in Nat \ {0} /\ ReadsFollow(<<>>)
      BY <1>2, EmptySeq DEF ReadsFollow
    <2> QED
      BY <1>1, <1>2, <1>5, <2>1
  <1>7. ASSUME NEW c \in C, Queued(q, c), c \notin mods
        PROVE  Queued(queue', c)
    <2>1. PICK i \in 1 .. Len(q) : q[i].action = "change" /\ q[i].id = c
      BY <1>7 DEF Queued
    <2>2. i \notin 1 .. n - 1 /\ i \in n .. Len(q)
      BY <1>2, <1>3, <1>7, <2>1
    <2>3. CASE queue' = SubSeq(q, n, Len(q))
      <3>1. n \in Nat \ {0} /\ q \in Seq(Entry)
        BY <1>2
      <3>2. \E j \in 1 .. Len(SubSeq(q, n, Len(q))) : SubSeq(q, n, Len(q))[j] = q[i]
        BY <2>2, <3>1, TailKeeps
      <3> QED
        BY <2>1, <2>3, <3>2 DEF Queued
    <2>4. CASE queue' = SubSeq(q, n + 1, Len(q)) /\ q[n].action = "refresh"
      <3>1. i \in n + 1 .. Len(q) /\ n + 1 \in Nat \ {0}
        BY <1>2, <2>1, <2>2, <2>4
      <3>2. \E j \in 1 .. Len(SubSeq(q, n + 1, Len(q))) : SubSeq(q, n + 1, Len(q))[j] = q[i]
        BY <1>2, <3>1, TailKeeps
      <3> QED
        BY <2>1, <2>4, <3>2, ZenonT(30) DEF Queued
    <2>5. ~(n > Len(q))
      BY <1>2, <2>2
    <2> QED
      BY <1>1, <2>3, <2>4, <2>5
  <1>8. \A c \in C : answer'[c] = answers[c]
    BY <1>1, <1>4 DEF gets
  <1>9. /\ request'.op \in {"backup", "get", "none"}
        /\ acting' = mods /\ memory' = items \cup mods
    BY <1>1 DEF Backup, Get, NoRequest, Request, mods
  <1>10. KeptOK'
    <2>1. ASSUME NEW c \in C
          PROVE  /\ answer'[c] = "ok" => c \in memory' /\ c \in remote'.items
                 /\ answer'[c] = "none" => c \in acting' \/ Queued(queue', c)
      BY <1>7, <1>8, <1>9
    <2> QED
      BY <1>6, <1>9, <2>1 DEF KeptOK, Queued, ReadsFollow
  <1>11. ReadsSee(answers)
    <2> SUFFICES ASSUME NEW g \in Call \ changes, NEW c \in changes,
                        c < g, answers[g] = "none", answer'[g] = "ok", answer'[c] # "failed"
                 PROVE  c \in memory'
      BY DEF ReadsSee
    <2>1. g \in gets /\ answer'[c] = answers[c] /\ c \in C /\ c \in Call
      BY <1>1, <1>8 DEF gets
    <2>2. CASE answers[c] = "ok"
      BY <1>9, <2>1, <2>2
    <2>3. CASE answers[c] = "none"
      <3>1. PICK i \in 1 .. n - 1 : q[i].action = "get" /\ q[i].id = g
        BY <1>3, <2>1
      <3>2. PICK j \in 1 .. Len(q) : q[j].action = "change" /\ q[j].id = c
        BY <2>1, <2>3 DEF Queued
      <3>3. i \in 1 .. Len(q) /\ c \in Nat /\ g \in Nat
        BY <1>2, <2>1 DEF Call
      <3>4. j < i
        BY <3>1, <3>2, <3>3 DEF ReadsFollow
      <3>5. j \in 1 .. n - 1
        BY <1>2, <3>4
      <3> QED
        BY <1>3, <1>9, <3>2, <3>5
    <2>4. answers[c] \in Answer
      BY <2>1
    <2> QED
      BY <2>1, <2>2, <2>3, <2>4 DEF Answer
  <1> QED
    BY <1>10, <1>11

(* Adding a call keeps the order: it is the latest one. *)
LEMMA AppendFollows ==
    ASSUME NEW C, NEW L, NEW q, NEW e \in Entry, QueueOK(q, C, L), ReadsFollow(q),
           e.action = "change" => \A i \in 1 .. Len(q) : q[i].action = "get" => q[i].id < e.id
    PROVE  /\ ReadsFollow(Append(q, e))
           /\ \A c : Queued(Append(q, e), c)
                       <=> Queued(q, c) \/ (e.action = "change" /\ c = e.id)
  <1>1. q \in Seq(Entry) /\ Len(q) \in Nat
    BY LenProperties DEF QueueOK
  <1> DEFINE s == Append(q, e)
  <1>2. /\ Len(s) = Len(q) + 1
        /\ \A i \in 1 .. Len(q) : s[i] = q[i] /\ i \in 1 .. Len(s)
        /\ s[Len(q) + 1] = e /\ Len(q) + 1 \in 1 .. Len(s)
    BY <1>1, AppendProperties
  <1> HIDE DEF s
  <1>3. \A i \in 1 .. Len(s) : i \in 1 .. Len(q) \/ i = Len(q) + 1
    BY <1>1, <1>2
  <1>4. ReadsFollow(s)
    <2> SUFFICES ASSUME NEW i \in 1 .. Len(s), NEW j \in 1 .. Len(s),
                        s[i].action = "get", s[j].action = "change", i < j
                 PROVE  s[i].id < s[j].id
      BY DEF ReadsFollow
    <2>1. i \in 1 .. Len(q)
      BY <1>1, <1>2
    <2>2. CASE j \in 1 .. Len(q)
      BY <1>2, <2>1, <2>2 DEF ReadsFollow
    <2>3. CASE j = Len(q) + 1
      BY <1>2, <2>1, <2>3
    <2> QED
      BY <1>3, <2>2, <2>3
  <1>5. ASSUME NEW c
        PROVE  Queued(s, c) <=> Queued(q, c) \/ (e.action = "change" /\ c = e.id)
    BY <1>2, <1>3 DEF Queued
  <1> QED
    BY <1>4, <1>5 DEF s

(* unlock tells those who wait; what they waited for is in the items. *)
LEMMA UnlockSees ==
    ASSUME CalInv, NEW ok \in BOOLEAN, NEW q, QueueOK(q, changes, lastCall), ReadsFollow(q),
           NEW items, Unlock(ok, q, items), UNCHANGED <<remote, changes>>,
           remote.readable,
           \A c \in changes : answer[c] = "ok" => c \in items /\ c \in remote.items,
           \A c \in changes : answer[c] = "none" => c \in acting \/ Queued(q, c),
           ok => \A c \in acting : c \in items /\ c \in remote.items
    PROVE  KeptOK' /\ ReadsSee(answer)
  <1>0. changes \in SUBSET Call /\ answer \in [Call -> Answer] /\ acting \subseteq changes
    <2>1. changes \subseteq 1 .. lastCall /\ lastCall \in 0 .. MaxCalls
      BY DEF CalInv, TypeOK
    <2> QED
      BY <2>1, CalendarAssumption DEF CalInv, TypeOK, Call
  <1>1. PICK answers : answers = [c \in Call |-> IF c \in acting THEN AnswerTo(ok, c)
                                                 ELSE answer[c]]
    OBVIOUS
  <1>2. ProcessQueue(q, items, answers)
    BY <1>1 DEF Unlock
  <1>3. answers \in [Call -> Answer]
    BY <1>0, <1>1 DEF AnswerTo, Answer
  <1>4. \A c \in changes : /\ answers[c] = "ok" => c \in items /\ c \in remote.items
                           /\ answers[c] = "none" => Queued(q, c)
    BY <1>0, <1>1 DEF AnswerTo
  <1>5. \A g \in Call \ changes : answers[g] = answer[g]
    BY <1>0, <1>1
  <1>6. PICK C, R : C = changes /\ R = remote'
    OBVIOUS
  <1>7. KeptOK' /\ ReadsSee(answers)
    <2>1. QueueOK(q, C, lastCall) /\ C \in SUBSET Call /\ R.readable /\ changes' = C
          /\ \A c \in C : /\ answers[c] = "ok" => c \in items /\ c \in R.items
                          /\ answers[c] = "none" => Queued(q, c)
      BY <1>0, <1>4, <1>6
    <2> QED
      BY <1>2, <1>3, <1>6, <2>1, ProcessSees
  <1> QED
    BY <1>5, <1>7 DEF ReadsSee

LEMMA KeptInit == Init => KeptInv
  <1> SUFFICES ASSUME Init PROVE KeptOK
    BY DEF KeptInv
  <1>1. ReadsFollow(queue)
    BY EmptySeq DEF Init, ReadsFollow
  <1> QED
    BY <1>1 DEF Init, KeptOK, NoRequest, Request

(* Every step keeps it, and what a step answers to a read it has seen.     *)
LEMMA KeptStep ==
    CalInv /\ KeptInv /\ [Next]_vars =>
        KeptInv' /\ (edits \cap BadEdit = {} => ReadsSee(answer))
  <1> SUFFICES ASSUME CalInv, KeptInv, [Next]_vars
               PROVE  KeptInv' /\ (edits \cap BadEdit = {} => ReadsSee(answer))
    OBVIOUS
  <1>0. /\ QueueOK(queue, changes, lastCall) /\ changes \in SUBSET Call
        /\ answer \in [Call -> Answer] /\ lastCall \in Nat /\ acting \subseteq changes
        /\ changes \subseteq 1 .. lastCall
    <2>1. changes \subseteq 1 .. lastCall /\ lastCall \in 0 .. MaxCalls
      BY DEF CalInv, TypeOK
    <2> QED
      BY <2>1, CalendarAssumption DEF CalInv, TypeOK, Call
  <1>1. ASSUME UNCHANGED <<edits, answer>>, edits \cap BadEdit = {} => KeptOK'
        PROVE  KeptInv' /\ (edits \cap BadEdit = {} => ReadsSee(answer))
    BY <1>1 DEF KeptInv, ReadsSee
  <1>2. ASSUME UNCHANGED edits, edits \cap BadEdit = {} => KeptOK' /\ ReadsSee(answer)
        PROVE  KeptInv' /\ (edits \cap BadEdit = {} => ReadsSee(answer))
    BY <1>2 DEF KeptInv
  <1>3. CASE CallCalendar
    <2> SUFFICES ASSUME edits \cap BadEdit = {} PROVE KeptOK' /\ ReadsSee(answer)
      BY <1>2, <1>3 DEF CallCalendar
    <2>1. KeptOK
      BY DEF KeptInv
    <2>2. PICK what \in {"change", "get", "refresh"}, force \in BOOLEAN :
            /\ changes' = IF what = "change" THEN changes \cup {lastCall'} ELSE changes
            /\ Enqueue(Action(what, lastCall', force))
      BY <1>3 DEF CallCalendar
    <2>3. /\ lastCall < MaxCalls /\ lastCall' = lastCall + 1
          /\ UNCHANGED <<etag, readOnly, server, remote, edits, published>>
      BY <1>3 DEF CallCalendar
    <2>4. PICK e : e = Action(what, lastCall', force)
      OBVIOUS
    <2>5. /\ e \in Entry /\ e.action = what /\ e.id = lastCall' /\ Enqueue(e)
          /\ lastCall' \in Call /\ lastCall' \notin changes /\ answer[lastCall'] = "none"
          /\ \A c \in Call : c <= lastCall => c # lastCall'
      <3>1. lastCall' \in 0 .. MaxCalls /\ lastCall' \in Call /\ lastCall' > lastCall
            /\ lastCall' \notin changes
        BY <1>0, <2>3, CalendarAssumption DEF Call
      <3>2. answer[lastCall'] = "none"
        BY <3>1 DEF CalInv, UnmadeOK
      <3>3. \A c \in Call : c <= lastCall => c # lastCall'
        BY <1>0, <2>3 DEF Call
      <3> QED
        BY <2>2, <2>4, <3>1, <3>2, <3>3 DEF Action, Entry
    <2>6. \A i \in 1 .. Len(queue) : queue[i].action = "get" => queue[i].id < e.id
      <3> SUFFICES ASSUME NEW i \in 1 .. Len(queue), queue[i].action = "get"
                   PROVE  queue[i].id < e.id
        OBVIOUS
      <3>1. queue[i].id <= lastCall
        BY <1>0 DEF QueueOK
      <3>2. queue[i] \in Entry
        BY <1>0, ElementOfSeq DEF QueueOK
      <3>3. queue[i].id \in Nat
        BY <3>2, CalendarAssumption DEF Entry
      <3> QED
        BY <1>0, <2>3, <2>5, <3>1, <3>3
    <2>7. PICK q : q = Append(queue, e)
      OBVIOUS
    <2>8. /\ ReadsFollow(q)
          /\ \A c : Queued(q, c) <=> Queued(queue, c) \/ (what = "change" /\ c = lastCall')
      BY <1>0, <2>1, <2>5, <2>6, <2>7, AppendFollows DEF KeptOK
    <2>9. CASE locked
      <3>1. queue' = q /\ UNCHANGED <<memory, acting, locked, request, answer>>
        BY <2>5, <2>7, <2>9 DEF Enqueue
      <3>2. \A c \in changes' : /\ answer[c] = "ok" => c \in memory /\ c \in remote.items
                                /\ answer[c] = "none" => c \in acting \/ Queued(q, c)
        BY <2>1, <2>2, <2>5, <2>8 DEF KeptOK
      <3>3. ReadsFollow(queue)' /\ \A c \in changes' : Queued(q, c) => Queued(queue, c)'
        BY <2>8, <3>1 DEF ReadsFollow, Queued
      <3>4. KeptOK'
        BY <2>1, <2>3, <3>1, <3>2, <3>3 DEF KeptOK
      <3>5. ReadsSee(answer)
        BY <3>1 DEF ReadsSee
      <3> QED
        BY <3>4, <3>5
    <2>10. CASE ~locked
      <3>1. ProcessQueue(q, memory, answer)
        BY <2>5, <2>7, <2>10 DEF Enqueue
      <3>2. acting = {}
        BY <2>10 DEF CalInv, NeverStuck
      <3>3. PICK C, R, answers, items :
              C = changes' /\ R = remote' /\ answers = answer /\ items = memory
        OBVIOUS
      <3>4. C \in SUBSET Call /\ changes \subseteq C
        BY <1>0, <2>2, <2>5, <3>3
      <3>5. QueueOK(q, C, lastCall')
        <4>1. QueueOK(queue, C, lastCall')
          <5>1. \A i \in 1 .. Len(queue) : queue[i] \in Entry /\ queue[i].id \in Nat
            <6>1. \A i \in 1 .. Len(queue) : queue[i] \in Entry
              BY <1>0, ElementOfSeq DEF QueueOK
            <6> QED
              BY <6>1, CalendarAssumption DEF Entry
          <5>2. \A i \in 1 .. Len(queue) : queue[i].action = "get" =>
                  queue[i].id <= lastCall' /\ queue[i].id # lastCall'
            BY <1>0, <2>3, <2>5, <2>6, <5>1
          <5> QED
            BY <1>0, <2>2, <3>3, <5>2 DEF QueueOK
        <4>2. e.action = "get" => e.id \notin C /\ e.id <= lastCall'
          BY <1>0, <2>2, <2>3, <2>5, <3>3
        <4> QED
          BY <2>2, <2>5, <2>7, <3>3, <4>1, <4>2, AppendOK
      <3>6. \A c \in C : /\ answers[c] = "ok" => c \in items /\ c \in R.items
                         /\ answers[c] = "none" => Queued(q, c)
        BY <2>1, <2>2, <2>3, <2>5, <2>8, <3>2, <3>3 DEF KeptOK
      <3>7. R.readable
        BY <2>1, <2>3, <3>3 DEF KeptOK
      <3>8. KeptOK' /\ ReadsSee(answers)
        BY <1>0, <2>8, <3>1, <3>3, <3>4, <3>5, <3>6, <3>7, ProcessSees, ZenonT(30)
      <3> QED
        BY <3>3, <3>8
    <2> QED
      BY <2>9, <2>10
  <1>4. CASE MakeWritable
    BY <1>1, <1>4 DEF MakeWritable, KeptInv, KeptOK, ReadsFollow, Queued
  <1>5. CASE PutArrives
    <2> SUFFICES ASSUME edits \cap BadEdit = {} PROVE KeptOK'
      BY <1>1, <1>5 DEF PutArrives
    <2>1. /\ KeptOK /\ request.op = "put" /\ request.state = "sent" /\ request.items = memory
          /\ acting \subseteq memory
          /\ UNCHANGED <<queue, memory, acting, changes, answer>>
      BY <1>5 DEF PutArrives, KeptInv, KeptOK
    <2>2. ReadsFollow(queue)' /\ \A c \in changes : Queued(queue, c) => Queued(queue, c)'
      BY <2>1 DEF ReadsFollow, Queued, KeptOK
    <2>3. CASE /\ remote' = [items |-> request.items, version |-> remote.version + 1,
                             readable |-> TRUE]
               /\ request' = [request EXCEPT !.state = "done", !.tag = remote.version + 1]
      <3>1. /\ request'.op = "put" /\ request'.state = "done"
            /\ remote'.items = memory /\ remote'.readable
        BY <2>1, <2>3 DEF CalInv, TypeOK
      <3> QED
        BY <2>1, <2>2, <3>1 DEF KeptOK
    <2>4. CASE /\ request' = [request EXCEPT !.state = "refused"] /\ UNCHANGED remote
      <3>1. request'.op = "put" /\ request'.state = "refused"
        BY <2>1, <2>4 DEF CalInv, TypeOK
      <3> QED
        BY <2>1, <2>2, <2>4, <3>1 DEF KeptOK
    <2> QED
      BY <1>5, <2>3, <2>4 DEF PutArrives
  <1>6. CASE OtherClient
    <2>1. PICK e \in Edit \ edits :
            /\ edits' = edits \cup {e}
            /\ remote' = [items |-> remote.items \cup {e}, version |-> remote.version + 1,
                          readable |-> e \notin BadEdit]
      BY <1>6 DEF OtherClient
    <2>2. UNCHANGED <<queue, memory, acting, request, changes, answer>>
      BY <1>6 DEF OtherClient
    <2>3. ASSUME edits' \cap BadEdit = {}
          PROVE  KeptOK'
      <3>1. KeptOK /\ e \notin BadEdit
        BY <2>1, <2>3 DEF KeptInv
      <3>2. ReadsFollow(queue)' /\ \A c \in changes : Queued(queue, c) => Queued(queue, c)'
        BY <2>2, <3>1 DEF ReadsFollow, Queued, KeptOK
      <3>3. remote'.readable /\ remote.items \subseteq remote'.items
        BY <2>1, <3>1
      <3> QED
        BY <2>2, <3>1, <3>2, <3>3 DEF KeptOK
    <2> QED
      BY <2>2, <2>3 DEF KeptInv, ReadsSee
  <1>7. CASE BackupEnds
    <2> SUFFICES ASSUME edits \cap BadEdit = {} PROVE KeptOK'
      BY <1>1, <1>7 DEF BackupEnds
    <2>1. KeptOK /\ request.op = "backup" /\ request' = Put(memory)
          /\ UNCHANGED <<queue, memory, acting, remote, changes, answer>>
      BY <1>7 DEF BackupEnds, KeptInv
    <2>2. request'.op = "put" /\ request'.state = "sent" /\ request'.items = memory
      BY <2>1 DEF Put, Request
    <2>3. ReadsFollow(queue)' /\ \A c \in changes : Queued(queue, c) => Queued(queue, c)'
      BY <2>1 DEF ReadsFollow, Queued, KeptOK
    <2> QED
      BY <2>1, <2>2, <2>3 DEF KeptOK
  <1>8. CASE WriteFails
    <2> SUFFICES ASSUME edits \cap BadEdit = {} PROVE KeptOK' /\ ReadsSee(answer)
      BY <1>2, <1>8 DEF WriteFails
    <2>1. KeptOK
      BY DEF KeptInv
    <2>2. ForcedRefresh \in Entry /\ ForcedRefresh.action = "refresh"
      BY CalendarAssumption DEF ForcedRefresh, Action, Entry
    <2>3. PICK q : q = Append(queue, ForcedRefresh)
      OBVIOUS
    <2>4. /\ QueueOK(q, changes, lastCall) /\ ReadsFollow(q)
          /\ \A c : Queued(q, c) <=> Queued(queue, c)
      BY <1>0, <2>1, <2>2, <2>3, AppendOK, AppendFollows DEF KeptOK
    <2>5. Unlock(FALSE, q, memory) /\ UNCHANGED <<remote, changes>>
      BY <1>8, <2>3 DEF WriteFails
    <2>6. /\ \A c \in changes : answer[c] = "ok" => c \in memory /\ c \in remote.items
          /\ \A c \in changes : answer[c] = "none" => c \in acting \/ Queued(q, c)
          /\ remote.readable
      BY <2>1, <2>4 DEF KeptOK
    <2> QED
      BY <2>4, <2>5, <2>6, UnlockSees
  <1>9. ASSUME NEW items, Unlock(TRUE, queue, items), UNCHANGED <<remote, changes, edits>>,
               edits \cap BadEdit = {} =>
                 /\ \A c \in changes : answer[c] = "ok" => c \in items
                 /\ \A c \in acting : c \in items /\ c \in remote.items
        PROVE  KeptInv' /\ (edits \cap BadEdit = {} => ReadsSee(answer))
    <2> SUFFICES ASSUME edits \cap BadEdit = {} PROVE KeptOK' /\ ReadsSee(answer)
      BY <1>2, <1>9
    <2>1. KeptOK
      BY DEF KeptInv
    <2>2. /\ \A c \in changes : answer[c] = "ok" => c \in items /\ c \in remote.items
          /\ \A c \in changes : answer[c] = "none" => c \in acting \/ Queued(queue, c)
          /\ remote.readable /\ ReadsFollow(queue)
      BY <1>9, <2>1 DEF KeptOK
    <2> QED
      BY <1>0, <1>9, <2>2, UnlockSees
  <1>10. CASE PutSucceeds
    <2>1. UNCHANGED <<remote, changes, edits>>
      BY <1>10 DEF PutSucceeds
    <2>2. CASE server = "put"
      <3>1. Unlock(TRUE, queue, memory)
        BY <1>10, <2>2 DEF PutSucceeds
      <3>2. edits \cap BadEdit = {} =>
                 /\ \A c \in changes : answer[c] = "ok" => c \in memory
                 /\ \A c \in acting : c \in memory /\ c \in remote.items
        BY <1>10 DEF PutSucceeds, KeptInv, KeptOK
      <3> QED
        BY <1>9, <2>1, <3>1, <3>2
    <2>3. CASE server # "put"
      <3>1. request' = FetchEtag /\ UNCHANGED <<queue, memory, acting, locked, etag, answer>>
        BY <1>10, <2>3 DEF PutSucceeds
      <3>2. request'.op = "etag"
        BY <3>1 DEF FetchEtag, Request
      <3>3. edits \cap BadEdit = {} => KeptOK'
        <4> SUFFICES ASSUME edits \cap BadEdit = {} PROVE KeptOK'
          OBVIOUS
        <4>1. KeptOK /\ request.op = "put" /\ request.state = "done"
          BY <1>10 DEF PutSucceeds, KeptInv
        <4>2. ReadsFollow(queue)' /\ \A c \in changes : Queued(queue, c) => Queued(queue, c)'
          BY <3>1, <4>1 DEF ReadsFollow, Queued, KeptOK
        <4> QED
          BY <2>1, <3>1, <3>2, <4>1, <4>2 DEF KeptOK
      <3> QED
        BY <1>1, <2>1, <3>1, <3>3
    <2> QED
      BY <2>2, <2>3
  <1>11. CASE EtagArrives
    <2>1. Unlock(TRUE, queue, memory) /\ UNCHANGED <<remote, changes, edits>>
      BY <1>11 DEF EtagArrives
    <2>2. edits \cap BadEdit = {} =>
               /\ \A c \in changes : answer[c] = "ok" => c \in memory
               /\ \A c \in acting : c \in memory /\ c \in remote.items
      BY <1>11 DEF EtagArrives, KeptInv, KeptOK
    <2> QED
      BY <1>9, <2>1, <2>2
  <1>12. CASE EtagLost
    <2> SUFFICES ASSUME edits \cap BadEdit = {} PROVE KeptOK'
      BY <1>1, <1>12 DEF EtagLost
    <2>1. /\ KeptOK /\ request.op = "etag" /\ request' = [request EXCEPT !.state = "lost"]
          /\ UNCHANGED <<queue, memory, acting, remote, changes, answer>>
      BY <1>12 DEF EtagLost, KeptInv
    <2>2. request'.op = "etag"
      BY <2>1 DEF CalInv, TypeOK
    <2>3. ReadsFollow(queue)' /\ \A c \in changes : Queued(queue, c) => Queued(queue, c)'
      BY <2>1 DEF ReadsFollow, Queued, KeptOK
    <2> QED
      BY <2>1, <2>2, <2>3 DEF KeptOK
  <1>13. request.op = "get" => acting = {}
    BY DEF CalInv, ActingOK
  <1>14. CASE NothingToLoad
    <2>1. Unlock(TRUE, queue, memory) /\ UNCHANGED <<remote, changes, edits>> /\ acting = {}
      BY <1>13, <1>14 DEF NothingToLoad
    <2>2. edits \cap BadEdit = {} => \A c \in changes : answer[c] = "ok" => c \in memory
      BY DEF KeptInv, KeptOK
    <2> QED
      BY <1>9, <2>1, <2>2
  <1>15. CASE FileLoaded
    <2>1. /\ Unlock(TRUE, queue, remote.items) /\ UNCHANGED <<remote, changes, edits>>
          /\ acting = {}
      BY <1>13, <1>15 DEF FileLoaded
    <2>2. edits \cap BadEdit = {} => \A c \in changes : answer[c] = "ok" => c \in remote.items
      BY DEF KeptInv, KeptOK
    <2> QED
      BY <1>9, <2>1, <2>2
  <1>16. CASE FileUnreadable
    BY <1>16 DEF FileUnreadable, KeptInv, KeptOK
  <1>17. CASE UNCHANGED vars
    <2>1. UNCHANGED <<queue, memory, acting, request, remote, changes, answer, edits>>
      BY <1>17 DEF vars
    <2> QED
      BY <1>1, <2>1 DEF KeptInv, KeptOK, ReadsFollow, Queued
  <1> QED
    BY <1>3, <1>4, <1>5, <1>6, <1>7, <1>8, <1>10, <1>11, <1>12, <1>14, <1>15, <1>16, <1>17
       DEF Next, RequestEnds

(* A read sees the modifications asked for before it, but those that have  *)
(* failed, whatever was downloaded and uploaded in between, as long as     *)
(* other clients leave files that can be read.                             *)
THEOREM ReadsAreCurrent == Spec => ReadsItsWrites
  <1>1. Init => CalInv /\ KeptInv
    BY CalInit, KeptInit
  <1>2. CalInv /\ KeptInv /\ [Next]_vars => (CalInv /\ KeptInv)'
    BY StepPreserves, KeptStep
  <1>3. CalInv /\ KeptInv /\ [Next]_vars =>
          (edits \cap BadEdit = {} =>
             \A g \in Call \ changes, c \in changes :
               c < g /\ answer[g] = "none" /\ answer'[g] = "ok" /\ answer'[c] # "failed"
                 => c \in memory')
    BY KeptStep DEF ReadsSee
  <1> QED
    BY <1>1, <1>2, <1>3, PTL DEF Spec, ReadsItsWrites
=============================================================================
