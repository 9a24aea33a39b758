------------------------ MODULE MsgCopyServiceProofs ------------------------
(***************************************************************************)
(* Proofs about MsgCopyService, for every value of its constants.          *)
(***************************************************************************)
EXTENDS MsgCopyService, FiniteSetTheorems, SequenceTheorems, TLAPS

(* The loop count of a call whose listener is being called is positive, so *)
(* that decrementing the unsigned numOrigRequests does not wrap around.    *)
CountsArePositive ==
    \A i \in 1 .. Len(stack) : stack[i].at = "listener" => stack[i].orig > 0

TypeInv == TypeOK /\ CountsArePositive
-----------------------------------------------------------------------------
LEMMA SourceListShape ==
    ASSUME NEW s \in SourceLists
    PROVE  /\ DOMAIN s \subseteq 1 .. MaxSources
           /\ \A i \in DOMAIN s : s[i] \in Folder
           /\ s # <<>>
  <1>1. PICK n \in 1 .. MaxSources : s \in [1 .. n -> Folder]
    BY DEF SourceLists
  <1>2. 1 \in DOMAIN s
    BY <1>1, BoundAssumption
  <1> QED
    BY <1>1, <1>2, BoundAssumption

LEMMA SingleIsSourceList ==
    ASSUME NEW f \in Folder
    PROVE  <<f>> \in SourceLists
  <1>1. <<f>> \in [1 .. 1 -> Folder]
    OBVIOUS
  <1>2. 1 \in 1 .. MaxSources
    BY BoundAssumption
  <1>3. \A i, j \in DOMAIN <<f>> : <<f>>[i] = <<f>>[j] => i = j
    OBVIOUS
  <1> QED
    BY <1>1, <1>2, <1>3 DEF SourceLists

(* What CopyMessages, CopyFolders and CopyFileMessage put in the array. *)
LEMMA MadeMsgs ==
    ASSUME NEW s \in SourceLists, NEW i \in DOMAIN s, NEW dst \in Folder,
           NEW undo \in BOOLEAN
    PROVE  MakeRequest("msgs", s[i], dst, s, undo) \in CopyRequest
  BY SourceListShape DEF MakeRequest, UnprocessedSources, CopyRequest, AnyRequest, AllKinds

LEMMA MadeFolder ==
    ASSUME NEW src \in Folder, NEW dst \in Folder
    PROVE  MakeRequest("folder", src, dst, <<src>>, FALSE) \in CopyRequest
  <1>1. <<src>> \in SourceLists /\ DOMAIN <<src>> \subseteq 1 .. MaxSources
    BY SingleIsSourceList, SourceListShape
  <1> QED
    BY <1>1 DEF MakeRequest, UnprocessedSources, CopyRequest, AnyRequest, AllKinds

LEMMA MadeFile ==
    ASSUME NEW file \in File, NEW dst \in Folder, NEW s \in {<<>>, <<NoFolder>>}
    PROVE  MakeRequest("file", file, dst, s, FALSE) \in CopyRequest
  <1>1. DOMAIN s \subseteq 1 .. MaxSources
    BY BoundAssumption
  <1> QED
    BY <1>1 DEF MakeRequest, UnprocessedSources, CopyRequest, AnyRequest, AllKinds

LEMMA StartedIsRequest ==
    ASSUME NEW r \in CopyRequest, NEW j
    PROVE  StartSource(r, j) \in CopyRequest
  BY DEF StartSource, CopyRequest, AnyRequest

LEMMA MarkedAreRequests ==
    ASSUME NEW req \in [Id -> CopyRequest \cup {Blank}], NEW q, NEW scanned \in SUBSET Id,
           \A i \in scanned : req[i] \in CopyRequest
    PROVE  /\ MarkProcessed(q, req, scanned) \in [Id -> CopyRequest \cup {Blank}]
           /\ \A i \in Id : /\ req[i] \in CopyRequest =>
                                  MarkProcessed(q, req, scanned)[i] \in CopyRequest
                            /\ MarkProcessed(q, req, scanned)[i].dst = req[i].dst
                            /\ MarkProcessed(q, req, scanned)[i].src = req[i].src
  <1>1. \A r \in CopyRequest : [r EXCEPT !.processed = TRUE] \in CopyRequest
    BY DEF CopyRequest, AnyRequest
  <1>2. \A r \in CopyRequest \cup {Blank} :
            /\ [r EXCEPT !.processed = TRUE].dst = r.dst
            /\ [r EXCEPT !.processed = TRUE].src = r.src
    BY DEF CopyRequest, AnyRequest, Blank
  <1> QED
    BY <1>1, <1>2 DEF MarkProcessed

LEMMA CopyIsOp ==
    ASSUME NEW id \in Id, NEW r \in CopyRequest, NEW j \in NextSource(r)
    PROVE  Copy(id, r, j) \in Op
  <1>1. CASE r.type = "file"
    BY <1>1 DEF Copy, Op, CopyRequest, AnyRequest
  <1>2. CASE r.type # "file"
    <2>1. r.sources \in SourceLists /\ r.todo \subseteq DOMAIN r.sources
      BY <1>2 DEF CopyRequest
    <2>2. j \in DOMAIN r.sources
      BY <2>1, SourceListShape DEF NextSource
    <2> QED
      BY <1>2, <2>1, <2>2, SourceListShape DEF Copy, Op, CopyRequest, AnyRequest
  <1> QED
    BY <1>1, <1>2
-----------------------------------------------------------------------------
(* The array is finite. *)
LEMMA QueueFinite ==
    ASSUME NEW q \in SUBSET Id
    PROVE  IsFiniteSet(q) /\ Cardinality(q) \in Nat
  <1>1. IsFiniteSet(Id)
    BY FS_Interval, BoundAssumption DEF Id
  <1> QED
    BY <1>1, FS_Subset, FS_CardinalityType

LEMMA FailedStartIsFrame == FailedStart \in Frame
  BY DEF FailedStart, Call, Frame

(* The calls that remain when the innermost one returns. *)
LEMMA CallersTyped ==
    ASSUME NEW s \in Seq(Frame), s # <<>>
    PROVE  /\ CallersOf(s) \in Seq(Frame)
           /\ Len(CallersOf(s)) = Len(s) - 1
           /\ \A i \in 1 .. Len(s) - 1 : CallersOf(s)[i] = s[i]
  <1>1. Len(s) \in Nat \ {0}
    BY EmptySeq
  <1>2. \A i \in 1 .. Len(s) - 1 : s[i] \in Frame
    BY <1>1, ElementOfSeq
  <1> DEFINE n == Len(s) - 1
  <1>3. 1 \in Int /\ n \in Int /\ n - 1 + 1 = n /\ n >= 0
    BY <1>1
  <1>4. /\ SubSeq(s, 1, n) \in Seq(Frame)
        /\ Len(SubSeq(s, 1, n)) = IF 1 <= n THEN n - 1 + 1 ELSE 0
        /\ \A i \in 1 .. n - 1 + 1 : SubSeq(s, 1, n)[i] = s[1 + i - 1]
    <2> HIDE DEF n
    <2>1. \A i \in 1 .. n : s[i] \in Frame
      BY <1>2 DEF n
    <2> QED
      BY <1>3, <2>1, SubSeqProperties
  <1>5. \A i \in Int : s[1 + i - 1] = s[i]
    OBVIOUS
  <1> QED
    BY <1>3, <1>4, <1>5 DEF CallersOf

(* DoNextCopy keeps the types of what it is given, starts at most the copy *)
(* of one request, and leaves the other requests as they are.              *)
LEMMA NextCopyTyped ==
    ASSUME NEW q \in SUBSET Id, NEW req \in [Id -> CopyRequest \cup {Blank}],
           \A i \in q : req[i] \in CopyRequest,
           NEW calls \in Seq(Frame), NEW open \in Int,
           \A i \in 1 .. Len(calls) : calls[i].at = "listener" => calls[i].orig > 0,
           ops \subseteq Op, starts \in [Id -> Nat], stopped \in [Id -> Answer],
           DoNextCopy(q, req, calls, open)
    PROVE  /\ queue' \subseteq q
           /\ request' \in [Id -> CopyRequest \cup {Blank}]
           /\ \A i \in queue' : request'[i] \in CopyRequest
           /\ ops' \subseteq Op
           /\ stack' \in Seq(Frame)
           /\ CountsArePositive'
           /\ batches' \in Int
           /\ starts' \in [Id -> Nat]
           /\ stopped' \in [Id -> Answer]
  <1>1. CASE NothingToStart(q, req, calls, open)
    BY <1>1, MarkedAreRequests DEF NothingToStart, CountsArePositive
  <1>2. ASSUME NEW id \in q, NEW j \in NextSource(req[id])
        PROVE  /\ Started(q, req, id, j) \in [Id -> CopyRequest \cup {Blank}]
               /\ \A i \in q : Started(q, req, id, j)[i] \in CopyRequest
               /\ Copy(id, req[id], j) \in Op
    <2> DEFINE marked == MarkProcessed(q, req, {i \in q : i < id})
    <2>1. {i \in q : i < id} \in SUBSET Id
      OBVIOUS
    <2>2. /\ marked \in [Id -> CopyRequest \cup {Blank}]
          /\ \A i \in q : marked[i] \in CopyRequest
      BY <2>1, MarkedAreRequests
    <2>3. StartSource(req[id], j) \in CopyRequest
      BY StartedIsRequest
    <2>4. Copy(id, req[id], j) \in Op
      BY CopyIsOp
    <2> HIDE DEF marked
    <2>5. Started(q, req, id, j) = [marked EXCEPT ![id] = StartSource(req[id], j)]
      BY DEF Started, marked
    <2> QED
      BY <2>2, <2>3, <2>4, <2>5
  <1>3. ASSUME NEW id \in q, NEW j \in NextSource(req[id]),
               starts' = [starts EXCEPT ![id] = @ + 1],
               StartCopy(q, req, calls, open, id, j)
        PROVE  /\ queue' \subseteq q
               /\ request' \in [Id -> CopyRequest \cup {Blank}]
               /\ \A i \in queue' : request'[i] \in CopyRequest
               /\ ops' \subseteq Op
               /\ stack' = calls /\ batches' = open
               /\ starts' \in [Id -> Nat] /\ stopped' = stopped
    BY <1>2, <1>3 DEF StartCopy
  <1>4. ASSUME NEW id \in q, NEW j \in NextSource(req[id]),
               starts' = [starts EXCEPT ![id] = @ + 1],
               RefuseCopy(q, req, calls, open, id, j)
        PROVE  /\ queue' \subseteq q
               /\ request' \in [Id -> CopyRequest \cup {Blank}]
               /\ \A i \in queue' : request'[i] \in CopyRequest
               /\ ops' \subseteq Op
               /\ stack' \in Seq(Frame) /\ CountsArePositive' /\ batches' \in Int
               /\ starts' \in [Id -> Nat] /\ stopped' \in [Id -> Answer]
    <2>1. /\ stack' \in Seq(Frame) /\ Len(stack') = Len(calls) + 1
          /\ \A i \in 1 .. Len(calls) : stack'[i] = calls[i]
          /\ stack'[Len(calls) + 1] = FailedStart
      BY <1>4, FailedStartIsFrame DEF RefuseCopy
    <2>2. CountsArePositive'
      <3>1. Len(calls) \in Nat /\ FailedStart.at # "listener"
        BY LenProperties DEF FailedStart, Call
      <3>2. ASSUME NEW i \in 1 .. Len(stack'), stack'[i].at = "listener"
            PROVE  stack'[i].orig > 0
        <4>1. i \in 1 .. Len(calls) \/ i = Len(calls) + 1
          BY <2>1, <3>1
        <4>2. i # Len(calls) + 1
          BY <2>1, <3>1, <3>2
        <4>3. i \in 1 .. Len(calls) /\ stack'[i] = calls[i]
          BY <2>1, <4>1, <4>2
        <4> QED
          BY <3>2, <4>3
      <3> QED
        BY <3>2 DEF CountsArePositive
    <2>3. batches' \in Int
      BY <1>4 DEF RefuseCopy, ClearRequest, CloseBatch
    <2>4. /\ queue' \subseteq q /\ stopped' \in [Id -> Answer]
          /\ request' \in [Id -> CopyRequest \cup {Blank}]
          /\ \A i \in queue' : request'[i] \in CopyRequest
      <3> DEFINE started == Started(q, req, id, j)
      <3>1. /\ started \in [Id -> CopyRequest \cup {Blank}]
            /\ \A i \in q : started[i] \in CopyRequest
        BY <1>2
      <3> HIDE DEF started
      <3>2. /\ queue' = q \ {id}
            /\ request' = [started EXCEPT ![id] = Blank]
            /\ stopped' = [stopped EXCEPT ![id] = "failed"]
        BY <1>4 DEF RefuseCopy, ClearRequest, started
      <3> QED
        BY <3>1, <3>2 DEF Answer
    <2>5. ops' \subseteq Op /\ starts' \in [Id -> Nat]
      BY <1>4 DEF RefuseCopy
    <2> QED
      BY <2>1, <2>2, <2>3, <2>4, <2>5
  <1>5. CASE \E id \in q : \E j \in NextSource(req[id]) :
               /\ starts' = [starts EXCEPT ![id] = @ + 1]
               /\ \/ StartCopy(q, req, calls, open, id, j)
                  \/ RefuseCopy(q, req, calls, open, id, j)
    BY <1>3, <1>4, <1>5 DEF CountsArePositive
  <1> QED
    BY <1>1, <1>5 DEF DoNextCopy
-----------------------------------------------------------------------------
LEMMA DoCopyTyped ==
    ASSUME TypeInv, lastId < MaxRequests, NEW r \in CopyRequest, NEW open \in Int,
           DoCopy(r, open)
    PROVE  TypeInv'
  <1> DEFINE id  == lastId + 1
             req == [request EXCEPT ![id] = r]
             q   == queue \cup {id}
  <1>1. /\ id \in Id /\ id \in 0 .. MaxRequests /\ q \subseteq 1 .. id /\ q \in SUBSET Id
        /\ req \in [Id -> CopyRequest \cup {Blank}] /\ \A i \in q : req[i] \in CopyRequest
    BY BoundAssumption DEF TypeInv, TypeOK, Id
  <1>2. lastId' = id /\ outcome' = outcome
    BY DEF DoCopy
  <1>3. CASE MustWait(r)
    <2>1. /\ request' = req /\ queue' = q /\ batches' = open
          /\ UNCHANGED <<ops, stack, starts, stopped>>
      BY <1>3 DEF DoCopy
    <2> HIDE DEF id, req, q
    <2> QED
      BY <1>1, <1>2, <2>1 DEF TypeInv, TypeOK, CountsArePositive
  <1>4. CASE ~MustWait(r)
    <2>1. DoNextCopy(q, req, stack, open)
      BY <1>4 DEF DoCopy
    <2> HIDE DEF id, req, q
    <2>2. /\ queue' \subseteq q
          /\ request' \in [Id -> CopyRequest \cup {Blank}]
          /\ \A i \in queue' : request'[i] \in CopyRequest
          /\ ops' \subseteq Op /\ stack' \in Seq(Frame) /\ CountsArePositive'
          /\ batches' \in Int /\ starts' \in [Id -> Nat] /\ stopped' \in [Id -> Answer]
      BY <1>1, <2>1, NextCopyTyped DEF TypeInv, TypeOK, CountsArePositive
    <2> QED
      BY <1>1, <1>2, <2>2 DEF TypeInv, TypeOK
  <1> QED
    BY <1>3, <1>4

(* A frame that a call of NotifyCompletion pushes. *)
LEMMA NotifyTyped ==
    ASSUME TypeInv, NEW id \in Id, NEW src \in Folder \cup File \cup {NoFolder},
           NEW dst \in Folder \cup {NoFolder}, NEW ok \in BOOLEAN,
           NotifyCompletion(id, src, dst, ok), ops' \subseteq Op
    PROVE  TypeInv'
  <1> DEFINE frame == Call(src, dst, ok, Cardinality(queue), "find")
  <1>1. queue \in SUBSET Id
    BY BoundAssumption DEF TypeInv, TypeOK, Id
  <1>2. frame \in Frame /\ frame.at = "find"
    BY <1>1, QueueFinite DEF Call, Frame
  <1>3. stack' = Append(stack, frame)
    BY DEF NotifyCompletion
  <1>4. outcome' \in [Id -> Answer]
    BY DEF NotifyCompletion, TypeInv, TypeOK, Answer, Verdict
  <1> HIDE DEF frame
  <1>5. stack \in Seq(Frame) /\ Len(stack) \in Nat
    BY LenProperties DEF TypeInv, TypeOK
  <1>6. /\ stack' \in Seq(Frame) /\ Len(stack') = Len(stack) + 1
        /\ \A i \in 1 .. Len(stack) : stack'[i] = stack[i]
        /\ stack'[Len(stack) + 1] = frame
    BY <1>2, <1>3, <1>5
  <1>7. ASSUME NEW i \in 1 .. Len(stack'), stack'[i].at = "listener"
        PROVE  stack'[i].orig > 0
    <2>1. i \in 1 .. Len(stack) \/ i = Len(stack) + 1
      BY <1>5, <1>6
    <2>2. i # Len(stack) + 1
      BY <1>2, <1>6, <1>7
    <2>3. i \in 1 .. Len(stack) /\ stack'[i] = stack[i]
      BY <1>6, <2>1, <2>2
    <2> QED
      BY <1>7, <2>3 DEF TypeInv, CountsArePositive
  <1> QED
    BY <1>4, <1>6, <1>7 DEF NotifyCompletion, TypeInv, TypeOK, CountsArePositive

LEMMA InitTyped == Init => TypeInv
  <1> SUFFICES ASSUME Init PROVE TypeInv
    OBVIOUS
  <1>1. request \in [Id -> CopyRequest \cup {Blank}]
    BY DEF Init
  <1>2. lastId \in 0 .. MaxRequests
    BY BoundAssumption DEF Init
  <1>3. stack \in Seq(Frame) /\ Len(stack) = 0
    BY EmptySeq DEF Init
  <1> QED
    BY <1>1, <1>2, <1>3 DEF Init, TypeInv, TypeOK, CountsArePositive, Answer

(* The innermost call is typed. *)
LEMMA TopTyped ==
    ASSUME TypeInv, stack # <<>>
    PROVE  /\ Len(stack) \in Nat \ {0} /\ Len(stack) \in 1 .. Len(stack)
           /\ Top \in Frame
           /\ Top.at = "listener" => Top.orig > 0
  <1>1. Len(stack) \in Nat \ {0} /\ Len(stack) \in 1 .. Len(stack)
    BY EmptySeq DEF TypeInv, TypeOK
  <1> QED
    BY <1>1, ElementOfSeq DEF TypeInv, TypeOK, CountsArePositive, Top

LEMMA CallersCounted ==
    ASSUME TypeInv, stack # <<>>
    PROVE  /\ CallersOf(stack) \in Seq(Frame)
           /\ \A i \in 1 .. Len(CallersOf(stack)) :
                 CallersOf(stack)[i].at = "listener" => CallersOf(stack)[i].orig > 0
  <1>1. stack \in Seq(Frame) /\ Len(stack) \in Nat \ {0}
    BY TopTyped DEF TypeInv, TypeOK
  <1>2. /\ CallersOf(stack) \in Seq(Frame)
        /\ Len(CallersOf(stack)) = Len(stack) - 1
        /\ \A i \in 1 .. Len(stack) - 1 : CallersOf(stack)[i] = stack[i]
    BY <1>1, CallersTyped
  <1>3. \A i \in 1 .. Len(stack) - 1 : i \in 1 .. Len(stack)
    BY <1>1
  <1> QED
    BY <1>2, <1>3 DEF TypeInv, CountsArePositive

LEMMA ResumedIsFrame ==
    ASSUME NEW f \in Frame, f.orig > 0
    PROVE  Resumed(f) \in Frame /\ Resumed(f).at = "find"
  <1>1. /\ f.src \in Folder \cup File \cup {NoFolder}
        /\ f.dst \in Folder \cup {NoFolder} /\ f.ok \in BOOLEAN
        /\ f.orig \in Nat
    BY DEF Frame
  <1> DEFINE orig == f.orig
  <1>2. orig \in Nat /\ orig > 0
    BY <1>1
  <1> HIDE DEF orig
  <1>3. orig - 1 \in Nat
    BY <1>2
  <1>4. ASSUME NEW src \in Folder \cup File \cup {NoFolder},
               NEW dst \in Folder \cup {NoFolder}, NEW ok \in BOOLEAN, NEW n \in Nat
        PROVE  /\ Call(src, dst, ok, n, "find") \in Frame
               /\ Call(src, dst, ok, n, "find").at = "find"
    BY DEF Call, Frame
  <1> QED
    BY <1>1, <1>3, <1>4 DEF Resumed, orig

LEMMA StepTyped == TypeInv /\ [Next]_vars => TypeInv'
  <1> SUFFICES ASSUME TypeInv, [Next]_vars
               PROVE  TypeInv'
    OBVIOUS
  <1>1. CASE CopyMessages
    <2>1. PICK sources \in SourceLists, dst \in Folder, undo \in BOOLEAN, i \in 1 .. MaxSources :
            /\ i \in DOMAIN sources
            /\ DoCopy(MakeRequest("msgs", sources[i], dst, sources, undo),
                      IF Batched(MakeRequest("msgs", sources[i], dst, sources, undo))
                      THEN batches + 1 ELSE batches)
      BY <1>1, SourceListShape DEF CopyMessages
    <2>2. /\ MakeRequest("msgs", sources[i], dst, sources, undo) \in CopyRequest
          /\ batches \in Int /\ lastId < MaxRequests
      BY <1>1, <2>1, MadeMsgs DEF CopyMessages, ClientMayCall, TypeInv, TypeOK
    <2> QED
      BY <2>1, <2>2, DoCopyTyped
  <1>2. CASE CopyNoMessages
    <2>1. lastId + 1 \in Id /\ lastId' \in 0 .. MaxRequests /\ queue' \subseteq 1 .. lastId'
      BY <1>2, BoundAssumption DEF CopyNoMessages, ClientMayCall, TypeInv, TypeOK, Id
    <2>2. /\ starts' \in [Id -> Nat] /\ stopped' \in [Id -> Answer]
          /\ outcome' \in [Id -> Answer]
      BY <1>2, <2>1 DEF CopyNoMessages, TypeInv, TypeOK, Answer
    <2> QED
      BY <1>2, <2>1, <2>2 DEF CopyNoMessages, TypeInv, TypeOK, CountsArePositive
  <1>3. CASE CopyFolders
    <2>1. PICK src \in Folder, dst \in Folder :
            DoCopy(MakeRequest("folder", src, dst, <<src>>, FALSE), batches)
      BY <1>3 DEF CopyFolders
    <2>2. batches \in Int /\ lastId < MaxRequests
      BY <1>3 DEF CopyFolders, ClientMayCall, TypeInv, TypeOK
    <2> QED
      BY <2>1, <2>2, MadeFolder, DoCopyTyped
  <1>4. CASE CopyFileMessage
    <2>1. PICK file \in File, dst \in Folder, sources \in {<<>>, <<NoFolder>>} :
            DoCopy(MakeRequest("file", file, dst, sources, FALSE), batches)
      BY <1>4 DEF CopyFileMessage
    <2>2. batches \in Int /\ lastId < MaxRequests
      BY <1>4 DEF CopyFileMessage, ClientMayCall, TypeInv, TypeOK
    <2> QED
      BY <2>1, <2>2, MadeFile, DoCopyTyped
  <1>5. CASE AbortSend
    <2>1. PICK id \in queue :
            NotifyCompletion(id, request[id].src, request[id].dst, FALSE)
      BY <1>5 DEF AbortSend
    <2>2. request[id] \in CopyRequest /\ id \in Id
      BY BoundAssumption DEF TypeInv, TypeOK, Id
    <2>3. request[id].src \in Folder \cup File /\ request[id].dst \in Folder
      BY <2>2 DEF CopyRequest, AnyRequest
    <2>4. ops' \subseteq Op
      BY <1>5 DEF AbortSend, TypeInv, TypeOK
    <2> QED
      BY <2>1, <2>2, <2>3, <2>4, NotifyTyped
  <1>6. CASE CopyEnds
    <2>1. PICK o \in ops, ok \in BOOLEAN : \E report \in Reports(o) :
            /\ NotifyCompletion(o.req, report[1], report[2], ok)
            /\ ops' = ops \ {o}
      BY <1>6 DEF CopyEnds
    <2>2. PICK report \in Reports(o) :
            /\ NotifyCompletion(o.req, report[1], report[2], ok)
            /\ ops' = ops \ {o}
      BY <2>1
    <2>3. o \in Op /\ ops' \subseteq Op
      BY <2>2 DEF TypeInv, TypeOK
    <2>4. o.req \in Id /\ o.src \in Folder \cup File /\ o.dst \in Folder
      BY <2>3 DEF Op
    <2>5. report[1] \in Folder \cup File \cup {NoFolder} /\ report[2] \in Folder \cup {NoFolder}
      BY <2>4 DEF Reports
    <2> QED
      BY <2>2, <2>3, <2>4, <2>5, NotifyTyped
  <1>7. CASE ClearFound
    <2>1. PICK id \in queue : ClearRequest(queue, request, id, Verdict(Top.ok), batches)
                              /\ Over(id, Top)
      BY <1>7 DEF ClearFound
    <2>2. /\ Len(stack) \in 1 .. Len(stack) /\ Top \in Frame
          /\ stack' = [stack EXCEPT ![Len(stack)].at = "listener"]
          /\ UNCHANGED <<lastId, ops, starts, outcome>>
      BY <1>7, TopTyped DEF ClearFound
    <2>3. queue \in SUBSET Id /\ id \in Id
      BY BoundAssumption DEF TypeInv, TypeOK, Id
    <2>4. /\ queue' \subseteq 1 .. lastId' /\ batches' \in Int
          /\ request' \in [Id -> CopyRequest \cup {Blank}]
          /\ \A i \in queue' : request'[i] \in CopyRequest
          /\ stopped' \in [Id -> Answer]
      BY <2>1, <2>2, <2>3 DEF TypeInv, TypeOK, ClearRequest, CloseBatch, Answer, Verdict
    <2>5. Top.orig > 0
      <3>1. {i \in queue : i < id} \in SUBSET Id
        BY <2>3
      <3>2. IndexOf(id) \in Nat
        BY <3>1, QueueFinite DEF IndexOf
      <3>3. IndexOf(id) < Top.orig
        BY <2>1 DEF Over
      <3>4. Top.orig \in Nat
        BY <2>2 DEF Frame
      <3> QED
        BY <3>2, <3>3, <3>4
    <2> DEFINE top == [Top EXCEPT !.at = "listener"]
    <2>6. top \in Frame /\ top.orig > 0
      BY <2>2, <2>5 DEF Frame
    <2>7. stack' = [stack EXCEPT ![Len(stack)] = top]
      BY <2>2 DEF Top
    <2> HIDE DEF top
    <2>8. /\ stack' \in Seq(Frame) /\ Len(stack') = Len(stack)
          /\ \A i \in 1 .. Len(stack) : stack'[i] = IF i = Len(stack) THEN top ELSE stack[i]
      <3>1. stack \in Seq(Frame)
        BY DEF TypeInv, TypeOK
      <3> QED
        BY <2>2, <2>6, <2>7, <3>1, ExceptSeq
    <2>9. CountsArePositive'
      BY <2>6, <2>8 DEF CountsArePositive, TypeInv
    <2> QED
      BY <2>2, <2>4, <2>8, <2>9 DEF TypeInv, TypeOK
  <1>8. CASE NothingOver
    <2>1. /\ stack # <<>> /\ UNCHANGED <<lastId, outcome>>
          /\ DoNextCopy(queue, request, CallersOf(stack), batches)
      BY <1>8 DEF NothingOver
    <2>2. /\ CallersOf(stack) \in Seq(Frame)
          /\ \A i \in 1 .. Len(CallersOf(stack)) :
                CallersOf(stack)[i].at = "listener" => CallersOf(stack)[i].orig > 0
      BY <2>1, CallersCounted
    <2>3. queue \in SUBSET Id
      BY BoundAssumption DEF TypeInv, TypeOK, Id
    <2>4. /\ queue' \subseteq queue
          /\ request' \in [Id -> CopyRequest \cup {Blank}]
          /\ \A i \in queue' : request'[i] \in CopyRequest
          /\ ops' \subseteq Op /\ stack' \in Seq(Frame) /\ CountsArePositive'
          /\ batches' \in Int /\ starts' \in [Id -> Nat] /\ stopped' \in [Id -> Answer]
      BY <2>1, <2>2, <2>3, NextCopyTyped DEF TypeInv, TypeOK
    <2> QED
      BY <2>1, <2>4 DEF TypeInv, TypeOK
  <1>9. CASE ListenerReturns
    <2>1. /\ stack # <<>>
          /\ UNCHANGED <<lastId, queue, request, ops, batches, starts, stopped, outcome>>
      BY <1>9 DEF ListenerReturns, InListener, history
    <2>2. CASE Top.at = "listener"
      <3> DEFINE top == Resumed(Top)
      <3>1. Len(stack) \in 1 .. Len(stack) /\ Top \in Frame /\ Top.orig > 0
        BY <2>1, <2>2, TopTyped
      <3>2. top \in Frame /\ top.at = "find"
        BY <3>1, ResumedIsFrame
      <3>3. stack' = [stack EXCEPT ![Len(stack)] = top]
        BY <1>9, <2>2 DEF ListenerReturns
      <3> HIDE DEF top
      <3>4. /\ stack' \in Seq(Frame) /\ Len(stack') = Len(stack)
            /\ \A i \in 1 .. Len(stack) : stack'[i] = IF i = Len(stack) THEN top ELSE stack[i]
        BY <3>1, <3>2, <3>3, ExceptSeq DEF TypeInv, TypeOK
      <3>5. CountsArePositive'
        BY <3>2, <3>4 DEF CountsArePositive, TypeInv
      <3> QED
        BY <2>1, <3>4, <3>5 DEF TypeInv, TypeOK
    <2>3. CASE Top.at # "listener"
      <3>1. stack' = CallersOf(stack)
        BY <1>9, <2>3 DEF ListenerReturns
      <3>2. /\ CallersOf(stack) \in Seq(Frame)
            /\ \A i \in 1 .. Len(CallersOf(stack)) :
                  CallersOf(stack)[i].at = "listener" => CallersOf(stack)[i].orig > 0
        BY <2>1, CallersCounted
      <3> QED
        BY <2>1, <3>1, <3>2 DEF TypeInv, TypeOK, CountsArePositive
    <2> QED
      BY <2>2, <2>3
  <1>10. CASE UNCHANGED vars
    BY <1>10 DEF vars, TypeInv, TypeOK, CountsArePositive
  <1> QED
    BY <1>1, <1>2, <1>3, <1>4, <1>5, <1>6, <1>7, <1>8, <1>9, <1>10
       DEF Next, ClientCalls, ServiceSteps

(* Every variable keeps its type and numOrigRequests, an unsigned count of *)
(* NotifyCompletion, is never decremented from zero, whatever the clients  *)
(* and the destinations do.                                                *)
THEOREM TypeCorrect == Spec => [](TypeOK /\ CountsArePositive)
  <1>1. Spec => []TypeInv
    BY InitTyped, StepTyped, PTL DEF Spec
  <1> QED
    BY <1>1, PTL DEF TypeInv
-----------------------------------------------------------------------------
(* The scan of DoNextCopy starts nothing that has to wait: an earlier      *)
(* request for the folder would be exhausted, or wait for one that is, and *)
(* block the one that is started.                                          *)
LEMMA NextCopyInOrder ==
    ASSUME NEW q \in SUBSET Id, NEW req \in [Id -> CopyRequest \cup {Blank}],
           \A i \in q : req[i] \in CopyRequest,
           NEW calls, NEW open, DoNextCopy(q, req, calls, open),
           NEW o \in ops' \ ops, NEW i \in queue', i < o.req
    PROVE  request'[i].dst # o.dst
  <1>1. PICK id \in q : \E k \in NextSource(req[id]) :
            FirstEligible(q, req, id) /\ StartCopy(q, req, calls, open, id, k)
    BY DEF DoNextCopy, NothingToStart, RefuseCopy
  <1>1a. PICK j \in NextSource(req[id]) : StartCopy(q, req, calls, open, id, j)
    BY <1>1
  <1>2. /\ o = Copy(id, req[id], j) /\ i \in q
        /\ request' = Started(q, req, id, j)
    BY <1>1a DEF StartCopy
  <1>3. o.req = id /\ o.dst = req[id].dst
    BY <1>2 DEF Copy
  <1>4. i \in Id /\ id \in Id /\ i < id /\ i # id
    <2>1. i \in Id /\ id \in Id
      BY <1>2
    <2>2. \A k, l \in Id : k < l => k # l
      BY BoundAssumption DEF Id
    <2>3. i < id
      BY <1>3
    <2> QED
      BY <2>1, <2>2, <2>3
  <1>5. request'[i].dst = req[i].dst
    <2> DEFINE marked == MarkProcessed(q, req, {k \in q : k < id})
    <2>1. {k \in q : k < id} \in SUBSET Id
      OBVIOUS
    <2>2. marked \in [Id -> CopyRequest \cup {Blank}] /\ marked[i].dst = req[i].dst
      BY <1>4, <2>1, MarkedAreRequests
    <2> HIDE DEF marked
    <2>3. request' = [marked EXCEPT ![id] = StartSource(req[id], j)]
      BY <1>2 DEF Started, marked
    <2> QED
      BY <1>4, <2>2, <2>3
  <1>6. id \in Eligible(q, req) /\ i \notin Eligible(q, req)
    BY <1>1, <1>4 DEF FirstEligible, IsFirst, Id
  <1>7. ~Blocked(q, req, id)
    BY <1>6 DEF Eligible
  <1>8. CASE Exhausted(req[i])
    BY <1>2, <1>3, <1>4, <1>5, <1>7, <1>8 DEF Blocked
  <1>9. CASE Blocked(q, req, i)
    <2>1. PICK k \in q : k < i /\ Exhausted(req[k]) /\ req[k].dst = req[i].dst
      BY <1>9 DEF Blocked
    <2>2. k < id
      BY <1>4, <2>1 DEF Id
    <2> QED
      BY <1>3, <1>5, <1>7, <2>1, <2>2 DEF Blocked
  <1> QED
    BY <1>2, <1>6, <1>8, <1>9 DEF Eligible

LEMMA StepInOrder ==
    ASSUME TypeInv, [Next]_vars, NEW o \in ops' \ ops, NEW i \in queue', i < o.req
    PROVE  request'[i].dst # o.dst
  <1>1. queue \in SUBSET Id /\ request \in [Id -> CopyRequest \cup {Blank}]
    BY BoundAssumption DEF TypeInv, TypeOK, Id
  <1>2. ASSUME NEW r \in CopyRequest, NEW open, DoCopy(r, open), lastId < MaxRequests
        PROVE  request'[i].dst # o.dst
    <2> DEFINE id  == lastId + 1
               req == [request EXCEPT ![id] = r]
               q   == queue \cup {id}
    <2>1. /\ id \in Id /\ q \in SUBSET Id
          /\ req \in [Id -> CopyRequest \cup {Blank}] /\ \A k \in q : req[k] \in CopyRequest
      BY <1>1, <1>2, BoundAssumption DEF TypeInv, TypeOK, Id
    <2>2. DoNextCopy(q, req, stack, open)
      BY <1>2 DEF DoCopy
    <2> HIDE DEF id, req, q
    <2> QED
      BY <2>1, <2>2, NextCopyInOrder
  <1>3. CASE CopyMessages
    <2>1. PICK sources \in SourceLists, dst \in Folder, undo \in BOOLEAN, k \in 1 .. MaxSources :
            /\ k \in DOMAIN sources
            /\ DoCopy(MakeRequest("msgs", sources[k], dst, sources, undo),
                      IF Batched(MakeRequest("msgs", sources[k], dst, sources, undo))
                      THEN batches + 1 ELSE batches)
      BY <1>3, SourceListShape DEF CopyMessages
    <2>2. /\ MakeRequest("msgs", sources[k], dst, sources, undo) \in CopyRequest
          /\ lastId < MaxRequests
      BY <1>3, <2>1, MadeMsgs DEF CopyMessages, ClientMayCall
    <2> QED
      BY <1>2, <2>1, <2>2
  <1>4. CASE CopyFolders
    <2>1. PICK src \in Folder, dst \in Folder :
            DoCopy(MakeRequest("folder", src, dst, <<src>>, FALSE), batches)
      BY <1>4 DEF CopyFolders
    <2> QED
      BY <1>2, <1>4, <2>1, MadeFolder DEF CopyFolders, ClientMayCall
  <1>5. CASE CopyFileMessage
    <2>1. PICK file \in File, dst \in Folder, sources \in {<<>>, <<NoFolder>>} :
            DoCopy(MakeRequest("file", file, dst, sources, FALSE), batches)
      BY <1>5 DEF CopyFileMessage
    <2> QED
      BY <1>2, <1>5, <2>1, MadeFile DEF CopyFileMessage, ClientMayCall
  <1>6. CASE NothingOver
    <2>1. DoNextCopy(queue, request, CallersOf(stack), batches)
      BY <1>6 DEF NothingOver
    <2>2. \A k \in queue : request[k] \in CopyRequest
      BY DEF TypeInv, TypeOK
    <2> QED
      BY <1>1, <2>1, <2>2, NextCopyInOrder
  <1>7. CASE CopyNoMessages \/ AbortSend \/ CopyEnds \/ ClearFound \/ ListenerReturns
             \/ UNCHANGED vars
    BY <1>7 DEF CopyNoMessages, AbortSend, CopyEnds, ClearFound, ListenerReturns, vars
  <1> QED
    BY <1>3, <1>4, <1>5, <1>6, <1>7 DEF Next, ClientCalls, ServiceSteps

(* Requests for one folder are started in order of arrival, however calls  *)
(* of the service nest and whichever of them fail or are aborted.          *)
THEOREM StartedInOrder == Spec => FifoPerDestination
  <1>1. TypeInv /\ [Next]_vars =>
          [\A o \in ops' \ ops :
              ~\E i \in queue' : i < o.req /\ request'[i].dst = o.dst]_vars
    BY StepInOrder
  <1> QED
    BY <1>1, InitTyped, StepTyped, PTL DEF Spec, FifoPerDestination
-----------------------------------------------------------------------------
(* Undo batches.  A step of DoNextCopy changes no request in what Batched  *)
(* looks at, and ClearRequest closes the batch of what it takes off.       *)
BatchedIn(q, req) == {id \in q : Batched(req[id])}

LEMMA StartedBatch ==
    ASSUME NEW q \in SUBSET Id, NEW req \in [Id -> CopyRequest \cup {Blank}],
           \A i \in q : req[i] \in CopyRequest, NEW id \in q, NEW j
    PROVE  \A i \in q : Batched(Started(q, req, id, j)[i]) <=> Batched(req[i])
  <1> DEFINE marked == MarkProcessed(q, req, {i \in q : i < id})
  <1>1. marked \in [Id -> CopyRequest \cup {Blank}]
    <2>1. {i \in q : i < id} \in SUBSET Id
      OBVIOUS
    <2> QED
      BY <2>1, MarkedAreRequests
  <1>2. \A i \in q : Batched(marked[i]) <=> Batched(req[i])
    <2>1. \A r \in CopyRequest : [r EXCEPT !.processed = TRUE].undo = r.undo
                                 /\ [r EXCEPT !.processed = TRUE].sources = r.sources
      BY DEF CopyRequest, AnyRequest
    <2> QED
      BY <2>1 DEF MarkProcessed, Batched
  <1>3. Batched(StartSource(req[id], j)) <=> Batched(req[id])
    <2>1. \A r \in CopyRequest : StartSource(r, j).undo = r.undo
                                 /\ StartSource(r, j).sources = r.sources
      BY DEF StartSource, CopyRequest, AnyRequest
    <2> QED
      BY <2>1 DEF Batched
  <1> HIDE DEF marked
  <1>4. Started(q, req, id, j) = [marked EXCEPT ![id] = StartSource(req[id], j)]
    BY DEF Started, marked
  <1> QED
    BY <1>1, <1>2, <1>3, <1>4

LEMMA ClearBatch ==
    ASSUME NEW q \in SUBSET Id, NEW req \in [Id -> CopyRequest \cup {Blank}],
           NEW id \in q, NEW answer, NEW open, open = Cardinality(BatchedIn(q, req)),
           ClearRequest(q, req, id, answer, open)
    PROVE  batches' = Cardinality(BatchedIn(queue', request'))
  <1> DEFINE S == BatchedIn(q, req)
  <1>1. IsFiniteSet(S)
    BY QueueFinite, FS_Subset DEF BatchedIn
  <1>2. BatchedIn(queue', request') = S \ {id}
    BY DEF ClearRequest, BatchedIn
  <1>3. CASE Batched(req[id])
    <2>1. id \in S
      BY <1>3 DEF BatchedIn
    <2>2. Cardinality(S \ {id}) = Cardinality(S) - 1
      BY <1>1, <2>1, FS_RemoveElement
    <2> QED
      BY <1>2, <1>3, <2>2 DEF ClearRequest, CloseBatch
  <1>4. CASE ~Batched(req[id])
    <2>1. S \ {id} = S
      BY <1>4 DEF BatchedIn
    <2> QED
      BY <1>2, <1>4, <2>1 DEF ClearRequest, CloseBatch
  <1> QED
    BY <1>3, <1>4

LEMMA NextCopyBatches ==
    ASSUME NEW q \in SUBSET Id, NEW req \in [Id -> CopyRequest \cup {Blank}],
           \A i \in q : req[i] \in CopyRequest,
           NEW calls, NEW open, open = Cardinality(BatchedIn(q, req)),
           DoNextCopy(q, req, calls, open)
    PROVE  batches' = Cardinality(BatchedIn(queue', request'))
  <1>1. CASE NothingToStart(q, req, calls, open)
    <2>1. \A r \in CopyRequest : [r EXCEPT !.processed = TRUE].undo = r.undo
                                 /\ [r EXCEPT !.processed = TRUE].sources = r.sources
      BY DEF CopyRequest, AnyRequest
    <2>2. \A i \in q : Batched(request'[i]) <=> Batched(req[i])
      BY <1>1, <2>1 DEF NothingToStart, MarkProcessed, Batched
    <2>3. BatchedIn(queue', request') = BatchedIn(q, req)
      BY <1>1, <2>2 DEF NothingToStart, BatchedIn
    <2> QED
      BY <1>1, <2>3 DEF NothingToStart
  <1>2. ASSUME NEW id \in q, NEW j, StartCopy(q, req, calls, open, id, j)
        PROVE  batches' = Cardinality(BatchedIn(queue', request'))
    <2>1. BatchedIn(queue', request') = BatchedIn(q, req)
      BY <1>2, StartedBatch DEF StartCopy, BatchedIn
    <2> QED
      BY <1>2, <2>1 DEF StartCopy
  <1>3. ASSUME NEW id \in q, NEW j \in NextSource(req[id]),
               RefuseCopy(q, req, calls, open, id, j)
        PROVE  batches' = Cardinality(BatchedIn(queue', request'))
    <2> DEFINE started == Started(q, req, id, j)
               marked  == MarkProcessed(q, req, {i \in q : i < id})
    <2>1. BatchedIn(q, started) = BatchedIn(q, req)
      BY StartedBatch DEF BatchedIn
    <2>2. started \in [Id -> CopyRequest \cup {Blank}]
      <3>1. {i \in q : i < id} \in SUBSET Id
        OBVIOUS
      <3>2. marked \in [Id -> CopyRequest \cup {Blank}]
        BY <3>1, MarkedAreRequests
      <3>3. StartSource(req[id], j) \in CopyRequest
        BY StartedIsRequest
      <3> HIDE DEF marked
      <3>4. started = [marked EXCEPT ![id] = StartSource(req[id], j)]
        BY DEF Started, marked
      <3> QED
        BY <3>2, <3>3, <3>4
    <2>3. ClearRequest(q, started, id, "failed", open)
      BY <1>3 DEF RefuseCopy
    <2> HIDE DEF started
    <2> QED
      BY <2>1, <2>2, <2>3, ClearBatch
  <1> QED
    BY <1>1, <1>2, <1>3 DEF DoNextCopy

(* A new request opens a batch if it is batched. *)
LEMMA DoCopyBatches ==
    ASSUME TypeInv, BatchesClosed, lastId < MaxRequests, NEW r \in CopyRequest,
           DoCopy(r, IF Batched(r) THEN batches + 1 ELSE batches)
    PROVE  BatchesClosed'
  <1> DEFINE id   == lastId + 1
             req  == [request EXCEPT ![id] = r]
             q    == queue \cup {id}
             open == IF Batched(r) THEN batches + 1 ELSE batches
             S    == BatchedIn(queue, request)
  <1>1. /\ id \in Id /\ id \notin queue /\ queue \in SUBSET Id /\ q \in SUBSET Id
        /\ request \in [Id -> CopyRequest \cup {Blank}]
        /\ req \in [Id -> CopyRequest \cup {Blank}] /\ \A i \in q : req[i] \in CopyRequest
    BY BoundAssumption DEF TypeInv, TypeOK, Id
  <1>2. batches = Cardinality(S) /\ IsFiniteSet(S) /\ id \notin S
    BY <1>1, QueueFinite, FS_Subset DEF BatchesClosed, BatchedIn
  <1>3. open = Cardinality(BatchedIn(q, req))
    <2>1. CASE Batched(r)
      <3>1. BatchedIn(q, req) = S \cup {id}
        BY <1>1, <2>1 DEF BatchedIn
      <3>2. Cardinality(S \cup {id}) = Cardinality(S) + 1
        BY <1>2, FS_AddElement
      <3> QED
        BY <1>2, <2>1, <3>1, <3>2
    <2>2. CASE ~Batched(r)
      <3>1. BatchedIn(q, req) = S
        BY <1>1, <2>2 DEF BatchedIn
      <3> QED
        BY <1>2, <2>2, <3>1
    <2> QED
      BY <2>1, <2>2
  <1>4. CASE MustWait(r)
    <2>1. request' = req /\ queue' = q /\ batches' = open
      BY <1>4 DEF DoCopy
    <2> QED
      BY <1>3, <2>1 DEF BatchesClosed, BatchedIn
  <1>5. CASE ~MustWait(r)
    <2>1. DoNextCopy(q, req, stack, open)
      BY <1>5 DEF DoCopy
    <2> HIDE DEF id, req, q, open, S
    <2>2. batches' = Cardinality(BatchedIn(queue', request'))
      BY <1>1, <1>3, <2>1, NextCopyBatches
    <2> QED
      BY <2>2 DEF BatchesClosed, BatchedIn
  <1> QED
    BY <1>4, <1>5

LEMMA StepBatches == TypeInv /\ BatchesClosed /\ [Next]_vars => BatchesClosed'
  <1> SUFFICES ASSUME TypeInv, BatchesClosed, [Next]_vars
               PROVE  BatchesClosed'
    OBVIOUS
  <1>0. /\ queue \in SUBSET Id /\ request \in [Id -> CopyRequest \cup {Blank}]
        /\ \A i \in queue : request[i] \in CopyRequest
        /\ batches = Cardinality(BatchedIn(queue, request))
    BY BoundAssumption DEF TypeInv, TypeOK, Id, BatchesClosed, BatchedIn
  <1>1. CASE CopyMessages
    <2>1. PICK sources \in SourceLists, dst \in Folder, undo \in BOOLEAN, i \in 1 .. MaxSources :
            /\ i \in DOMAIN sources
            /\ DoCopy(MakeRequest("msgs", sources[i], dst, sources, undo),
                      IF Batched(MakeRequest("msgs", sources[i], dst, sources, undo))
                      THEN batches + 1 ELSE batches)
      BY <1>1, SourceListShape DEF CopyMessages
    <2>2. /\ MakeRequest("msgs", sources[i], dst, sources, undo) \in CopyRequest
          /\ lastId < MaxRequests
      BY <1>1, <2>1, MadeMsgs DEF CopyMessages, ClientMayCall
    <2> QED
      BY <2>1, <2>2, DoCopyBatches
  <1>2. CASE CopyFolders
    <2>1. PICK src \in Folder, dst \in Folder :
            DoCopy(MakeRequest("folder", src, dst, <<src>>, FALSE), batches)
      BY <1>2 DEF CopyFolders
    <2>2. ~Batched(MakeRequest("folder", src, dst, <<src>>, FALSE))
      BY DEF Batched, MakeRequest
    <2> QED
      BY <1>2, <2>1, <2>2, MadeFolder, DoCopyBatches DEF CopyFolders, ClientMayCall
  <1>3. CASE CopyFileMessage
    <2>1. PICK file \in File, dst \in Folder, sources \in {<<>>, <<NoFolder>>} :
            DoCopy(MakeRequest("file", file, dst, sources, FALSE), batches)
      BY <1>3 DEF CopyFileMessage
    <2>2. ~Batched(MakeRequest("file", file, dst, sources, FALSE))
      BY DEF Batched, MakeRequest
    <2> QED
      BY <1>3, <2>1, <2>2, MadeFile, DoCopyBatches DEF CopyFileMessage, ClientMayCall
  <1>4. CASE ClearFound
    <2>1. PICK id \in queue : ClearRequest(queue, request, id, Verdict(Top.ok), batches)
      BY <1>4 DEF ClearFound
    <2>2. batches' = Cardinality(BatchedIn(queue', request'))
      BY <1>0, <2>1, ClearBatch
    <2> QED
      BY <2>2 DEF BatchesClosed, BatchedIn
  <1>5. CASE NothingOver
    <2>1. DoNextCopy(queue, request, CallersOf(stack), batches)
      BY <1>5 DEF NothingOver
    <2>2. batches' = Cardinality(BatchedIn(queue', request'))
      BY <1>0, <2>1, NextCopyBatches
    <2> QED
      BY <2>2 DEF BatchesClosed, BatchedIn
  <1>6. CASE CopyNoMessages \/ AbortSend \/ CopyEnds \/ ListenerReturns \/ UNCHANGED vars
    BY <1>6 DEF CopyNoMessages, AbortSend, CopyEnds, NotifyCompletion, ListenerReturns, vars,
                BatchesClosed
  <1> QED
    BY <1>1, <1>2, <1>3, <1>4, <1>5, <1>6 DEF Next, ClientCalls, ServiceSteps

(* No undo batch stays open when its request is gone, and none is closed   *)
(* twice, whichever way requests end: transactions of other requests would *)
(* end up in the batch.                                                    *)
THEOREM BatchesMatch == Spec => []BatchesClosed
  <1>1. Init => BatchesClosed
    <2>1. ASSUME Init PROVE {id \in queue : Batched(request[id])} = {}
      BY <2>1 DEF Init
    <2> QED
      BY <2>1, FS_EmptySet DEF Init, BatchesClosed
  <1>2. TypeInv /\ BatchesClosed /\ [Next]_vars => (TypeInv /\ BatchesClosed)'
    BY StepTyped, StepBatches
  <1>3. Init => TypeInv /\ BatchesClosed
    BY <1>1, InitTyped
  <1> QED
    BY <1>2, <1>3, PTL DEF Spec
-----------------------------------------------------------------------------
(* Requests in the array, and those still to come, have had no answer.     *)
Unanswered ==
    /\ \A id \in queue : stopped[id] = "none"
    /\ \A id \in Id : id > lastId => stopped[id] = "none"

(* A step from the old array to the new one leaves the requests that have  *)
(* been answered alone, and answers none that stays.                       *)
AnswersOnce(q) ==
    /\ queue' \subseteq q
    /\ \A id \in queue' : stopped'[id] = "none"
    /\ \A id \in Id \ q : stopped'[id] = stopped[id] /\ starts'[id] = starts[id]

LEMMA NextCopyAnswers ==
    ASSUME NEW q \in SUBSET Id, NEW req, NEW calls, NEW open,
           starts \in [Id -> Nat], stopped \in [Id -> Answer],
           \A id \in q : stopped[id] = "none", DoNextCopy(q, req, calls, open)
    PROVE  AnswersOnce(q)
  <1>1. CASE NothingToStart(q, req, calls, open)
    BY <1>1 DEF NothingToStart, AnswersOnce
  <1>2. ASSUME NEW id \in q, starts' = [starts EXCEPT ![id] = @ + 1],
               NEW j, StartCopy(q, req, calls, open, id, j)
        PROVE  AnswersOnce(q)
    BY <1>2 DEF StartCopy, AnswersOnce
  <1>3. ASSUME NEW id \in q, starts' = [starts EXCEPT ![id] = @ + 1],
               NEW j, RefuseCopy(q, req, calls, open, id, j)
        PROVE  AnswersOnce(q)
    BY <1>3 DEF RefuseCopy, ClearRequest, AnswersOnce
  <1> QED
    BY <1>1, <1>2, <1>3 DEF DoNextCopy

LEMMA DoCopyAnswers ==
    ASSUME TypeInv, Unanswered, lastId < MaxRequests, NEW r, NEW open, DoCopy(r, open)
    PROVE  AnswersOnce(queue \cup {lastId + 1}) /\ lastId' = lastId + 1
           /\ lastId + 1 \in Id /\ stopped[lastId + 1] = "none"
  <1> DEFINE q == queue \cup {lastId + 1}
  <1>1. /\ lastId + 1 \in Id /\ q \in SUBSET Id /\ lastId \in Nat
        /\ starts \in [Id -> Nat] /\ stopped \in [Id -> Answer]
    BY BoundAssumption DEF TypeInv, TypeOK, Id
  <1>2. stopped[lastId + 1] = "none" /\ \A id \in q : stopped[id] = "none"
    BY <1>1 DEF Unanswered
  <1>3. CASE MustWait(r)
    BY <1>1, <1>2, <1>3 DEF DoCopy, AnswersOnce
  <1>4. CASE ~MustWait(r)
    <2>1. DoNextCopy(q, [request EXCEPT ![lastId + 1] = r], stack, open)
      BY <1>4 DEF DoCopy
    <2> HIDE DEF q
    <2>2. AnswersOnce(q)
      BY <1>1, <1>2, <2>1, NextCopyAnswers
    <2> QED
      BY <1>1, <1>2, <2>2 DEF DoCopy, q
  <1> QED
    BY <1>3, <1>4

(* Which requests a step may answer or start. *)
LEMMA StepAnswers ==
    ASSUME TypeInv, Unanswered, [Next]_vars
    PROVE  /\ Unanswered'
           /\ \A id \in Id : stopped[id] # "none" =>
                 /\ stopped'[id] = stopped[id] /\ starts'[id] = starts[id]
                 /\ id \notin queue'
  <1>0. /\ queue \in SUBSET Id /\ lastId \in Nat
        /\ starts \in [Id -> Nat] /\ stopped \in [Id -> Answer]
        /\ Id \subseteq Nat
    BY BoundAssumption DEF TypeInv, TypeOK, Id
  <1>1. CASE CopyMessages \/ CopyFolders \/ CopyFileMessage
    <2>1. PICK r, open : DoCopy(r, open)
      BY <1>1 DEF CopyMessages, CopyFolders, CopyFileMessage
    <2>2. lastId < MaxRequests
      BY <1>1 DEF CopyMessages, CopyFolders, CopyFileMessage, ClientMayCall
    <2>3. /\ AnswersOnce(queue \cup {lastId + 1}) /\ lastId' = lastId + 1
          /\ lastId + 1 \in Id /\ stopped[lastId + 1] = "none"
      BY <2>1, <2>2, DoCopyAnswers
    <2> DEFINE q == queue \cup {lastId + 1}
    <2>4. \A id \in q : id \in 1 .. lastId + 1
      BY <1>0 DEF TypeInv, TypeOK
    <2>5. \A id \in Id : id > lastId' => id \in Id \ q /\ id > lastId
      BY <1>0, <2>3, <2>4
    <2>6. \A id \in Id : stopped[id] # "none" => id \in Id \ q
      BY <2>3 DEF Unanswered
    <2> HIDE DEF q
    <2>7. AnswersOnce(q)
      BY <2>3 DEF q
    <2> QED
      BY <2>5, <2>6, <2>7 DEF AnswersOnce, Unanswered
  <1>2. CASE CopyNoMessages
    <2>1. lastId + 1 \in Id /\ stopped[lastId + 1] = "none" /\ lastId + 1 \notin queue
      BY <1>0, <1>2, BoundAssumption
         DEF CopyNoMessages, ClientMayCall, Unanswered, Id, TypeInv, TypeOK
    <2> QED
      BY <1>0, <1>2, <2>1 DEF CopyNoMessages, Unanswered
  <1>3. CASE ClearFound
    <2>1. PICK id \in queue : ClearRequest(queue, request, id, Verdict(Top.ok), batches)
      BY <1>3 DEF ClearFound
    <2>2. UNCHANGED <<lastId, starts>> /\ lastId \notin {i \in Id : i > lastId}
      BY <1>0, <1>3 DEF ClearFound
    <2>3. \A i \in queue : ~(i > lastId)
      BY <1>0 DEF TypeInv, TypeOK
    <2> QED
      BY <1>0, <2>1, <2>2, <2>3 DEF ClearRequest, Unanswered
  <1>4. CASE NothingOver
    <2>1. DoNextCopy(queue, request, CallersOf(stack), batches) /\ lastId' = lastId
      BY <1>4 DEF NothingOver
    <2>2. AnswersOnce(queue)
      BY <1>0, <2>1, NextCopyAnswers DEF Unanswered
    <2>3. \A i \in queue : ~(i > lastId)
      BY <1>0 DEF TypeInv, TypeOK
    <2> QED
      BY <1>0, <2>1, <2>2, <2>3 DEF AnswersOnce, Unanswered
  <1>5. CASE AbortSend \/ CopyEnds \/ ListenerReturns \/ UNCHANGED vars
    BY <1>5 DEF AbortSend, CopyEnds, NotifyCompletion, ListenerReturns, vars, history, Unanswered
  <1> QED
    BY <1>1, <1>2, <1>3, <1>4, <1>5 DEF Next, ClientCalls, ServiceSteps

(* A request is answered once, and after that it is neither in the array   *)
(* nor started again, however calls nest and whatever is aborted.          *)
THEOREM AnsweredForGood == Spec => StopIsFinal
  <1>1. Init => Unanswered
    BY DEF Init, Unanswered
  <1>2. TypeInv /\ Unanswered /\ [Next]_vars =>
          [\A id \in Id : stopped[id] # "none" =>
              /\ stopped'[id] = stopped[id] /\ starts'[id] = starts[id]
              /\ id \notin queue']_vars
    BY StepAnswers
  <1>3. TypeInv /\ Unanswered /\ [Next]_vars => (TypeInv /\ Unanswered)'
    BY StepTyped, StepAnswers
  <1> QED
    BY <1>1, <1>2, <1>3, InitTyped, PTL DEF Spec, StopIsFinal

-----------------------------------------------------------------------------
(* Orderly clients and destinations: no pair of source and destination is  *)
(* queued while it is in the array, no copy completes while a listener is  *)
(* called, none is aborted, a request has one source, and CopyFolder does  *)
(* not fail at once.  Each condition is needed: without it TLC finds a     *)
(* request that is answered while its copy goes on, or a destination that  *)
(* copies twice at once.                                                   *)
Orderly ==
    /\ ~SamePair /\ ~NestedLoop /\ ~Aborts
    /\ MaxSources = 1 /\ "refused" \notin FolderEnds

(* What the clients that are orderly put in the array. *)
WellMade(r) ==
    r.type # "file" => /\ r.sources = <<r.src>> /\ r.src # r.dst
                       /\ r.type = "folder" => Parent[r.src] # r.dst

(* The report of a copy of one request could be taken for the other's. *)
Clash(r, s) ==
    r.src = s.src /\ (r.dst = s.dst \/ r.dst = Parent[s.dst] \/ s.dst = Parent[r.dst])

(* The one copy that is made for a request. *)
CopyOf(id, r) == [req |-> id, type |-> r.type, dst |-> r.dst, src |-> r.src]

(* FindRequest may take r for the request that the call is about. *)
Answers(r, frame) ==
    Matches(r, frame.src, frame.dst) \/ SameFolderCopy(r, frame.src, frame.dst)

(* A started request is the first of the array for its destination. *)
ArrayOK(q, req) ==
    /\ \A i \in q : WellMade(req[i])
    /\ \A i, j \in q : i < j /\ req[i].dst = req[j].dst => ~Exhausted(req[j])
    /\ \A i, j \in q : i # j => ~Clash(req[i], req[j])

StartsOK(q, req, st) == \A i \in q : (st[i] = 0) <=> ~Exhausted(req[i])

OpsOK(q, req, copies) ==
    \A o \in copies : /\ o.req \in q /\ Exhausted(req[o.req])
                      /\ o = CopyOf(o.req, req[o.req])

UnusedOK ==
    /\ \A i \in Id \ queue : request[i] = Blank
    /\ \A i \in Id : i > lastId => starts[i] = 0

(* NotifyCompletion before it has cleared a request: it can find none but  *)
(* the request whose copy has ended, as the call says.                     *)
Reported(frame) ==
    /\ frame.at = "find" /\ frame.orig = Cardinality(queue)
    /\ \E id \in queue :
         /\ Exhausted(request[id]) /\ outcome[id] = Verdict(frame.ok)
         /\ \A o \in ops : o.req # id
         /\ \A i \in queue : Answers(request[i], frame) => i = id

(* And after: what it still looks at, the requests up to m, holds none     *)
(* that it can find.                                                       *)
Cleared(frame) ==
    /\ frame.at \in {"find", "listener"}
    /\ \E m \in 0 .. lastId :
         /\ Cardinality({i \in queue : i <= m}) =
               IF frame.at = "find" THEN frame.orig ELSE frame.orig - 1
         /\ \A i \in queue : i <= m => ~Answers(request[i], frame)

CallsOK == stack = <<>> \/ (Len(stack) = 1 /\ (Reported(stack[1]) \/ Cleared(stack[1])))

OrderlyInv ==
    /\ ArrayOK(queue, request) /\ StartsOK(queue, request, starts)
    /\ OpsOK(queue, request, ops) /\ UnusedOK /\ CallsOK
    /\ Unanswered /\ AnswersOwnCopy
-----------------------------------------------------------------------------
(* What a step leaves of a request in the array. *)
Keeps(r, s) ==
    s.type = r.type /\ s.src = r.src /\ s.dst = r.dst /\ s.sources = r.sources

LEMMA KeptIsAlike ==
    ASSUME NEW r, NEW s, Keeps(r, s)
    PROVE  /\ WellMade(r) => WellMade(s)
           /\ \A frame : Answers(s, frame) <=> Answers(r, frame)
           /\ \A id : CopyOf(id, s) = CopyOf(id, r)
  BY DEF Keeps, WellMade, Answers, Matches, SameFolderCopy, DstName, CopyOf

LEMMA KeptClash ==
    ASSUME NEW r, NEW s, Keeps(r, s), NEW u, NEW v, Keeps(u, v), Clash(s, v)
    PROVE  Clash(r, u)
  BY DEF Keeps, Clash

LEMMA OneSource ==
    ASSUME Orderly, NEW s \in SourceLists
    PROVE  DOMAIN s = {1} /\ s = <<s[1]>> /\ s[1] \in Folder
  <1>1. PICK n \in 1 .. MaxSources : s \in [1 .. n -> Folder]
    BY DEF SourceLists
  <1>2. s \in [1 .. 1 -> Folder] /\ 1 .. 1 = {1}
    BY <1>1 DEF Orderly
  <1>3. s[1] \in Folder /\ s = [i \in 1 .. 1 |-> s[1]]
    BY <1>2
  <1>4. <<s[1]>> = [i \in 1 .. 1 |-> s[1]]
    OBVIOUS
  <1> QED
    BY <1>2, <1>3, <1>4

(* Starting the source of a request exhausts it, and starts its one copy. *)
LEMMA StartExhausts ==
    ASSUME Orderly, NEW r \in CopyRequest, WellMade(r), ~Exhausted(r),
           NEW j \in NextSource(r), NEW id
    PROVE  /\ Keeps(r, StartSource(r, j)) /\ Exhausted(StartSource(r, j))
           /\ Copy(id, r, j) = CopyOf(id, r)
  <1>1. Keeps(r, StartSource(r, j))
    BY DEF Keeps, StartSource, CopyRequest, AnyRequest
  <1>2. CASE r.type = "file"
    BY <1>1, <1>2 DEF StartSource, Exhausted, Copy, CopyOf, CopyRequest, AnyRequest
  <1>3. CASE r.type # "file"
    <2>1. r.sources \in SourceLists /\ r.sources = <<r.src>> /\ r.todo \subseteq DOMAIN r.sources
      BY <1>3 DEF WellMade, CopyRequest
    <2>2. DOMAIN r.sources = {1} /\ r.sources[1] = r.src /\ r.sources # <<>>
      BY <2>1, OneSource
    <2>3. r.todo = {1}
      BY <2>1, <2>2 DEF Exhausted, AllSourcesProcessed
    <2>4. j = 1
      BY <2>2, <2>3 DEF NextSource
    <2>5. StartSource(r, j).todo = {} /\ StartSource(r, j).sources # <<>>
      BY <2>2, <2>3, <2>4 DEF StartSource, CopyRequest, AnyRequest
    <2>6. Copy(id, r, j) = CopyOf(id, r)
      BY <1>3, <2>2, <2>4 DEF Copy, CopyOf
    <2> QED
      BY <1>1, <2>5, <2>6 DEF Exhausted, AllSourcesProcessed
  <1> QED
    BY <1>2, <1>3

LEMMA MarkKeeps ==
    ASSUME NEW req \in [Id -> CopyRequest \cup {Blank}], NEW q, NEW scanned,
           NEW i \in Id, req[i] \in CopyRequest
    PROVE  /\ Keeps(req[i], MarkProcessed(q, req, scanned)[i])
           /\ Exhausted(MarkProcessed(q, req, scanned)[i]) <=> Exhausted(req[i])
           /\ i \notin scanned => MarkProcessed(q, req, scanned)[i] = req[i]
  <1>1. \A r \in CopyRequest : Keeps(r, [r EXCEPT !.processed = TRUE])
                               /\ Exhausted([r EXCEPT !.processed = TRUE])
    BY DEF CopyRequest, AnyRequest, Keeps, Exhausted
  <1>2. Keeps(req[i], req[i])
    BY DEF Keeps
  <1> QED
    BY <1>1, <1>2 DEF MarkProcessed

(* The request that the scan starts is the first of its line. *)
LEMMA FirstInLine ==
    ASSUME NEW q \in SUBSET Id, NEW req, ArrayOK(q, req),
           NEW id \in q, FirstEligible(q, req, id),
           NEW i \in q, i # id, req[i].dst = req[id].dst
    PROVE  i > id /\ ~Exhausted(req[i])
  <1>1. id \in Eligible(q, req) /\ ~Blocked(q, req, id)
    BY DEF FirstEligible, IsFirst, Eligible
  <1>2. i \in Nat /\ id \in Nat /\ q \subseteq Nat
    BY BoundAssumption DEF Id
  <1>3. ~(i < id)
    <2> SUFFICES ASSUME i < id PROVE FALSE
      OBVIOUS
    <2>1. ~Exhausted(req[i])
      BY <1>1 DEF Blocked
    <2>2. i \notin Eligible(q, req)
      BY <1>2 DEF FirstEligible, IsFirst
    <2>3. PICK k \in q : k < i /\ Exhausted(req[k]) /\ req[k].dst = req[i].dst
      BY <2>1, <2>2 DEF Eligible, Blocked
    <2>4. k < id
      BY <1>2, <2>3
    <2> QED
      BY <1>1, <2>3, <2>4 DEF Blocked
  <1>4. i > id
    BY <1>2, <1>3
  <1>5. ~Exhausted(req[i])
    BY <1>2, <1>4 DEF ArrayOK
  <1> QED
    BY <1>4, <1>5

(* The scan of an orderly array keeps it orderly: it starts at most one    *)
(* request, the first of its line, and calls no listener.                  *)
StartsFirst(q, req) ==
    \/ starts' = starts
    \/ \E id \in q : /\ starts' = [starts EXCEPT ![id] = @ + 1]
                     /\ ~Exhausted(req[id])
                     /\ \A i \in q : i # id /\ req[i].dst = req[id].dst =>
                           i > id /\ ~Exhausted(req[i])

LEMMA NextCopyOrderly ==
    ASSUME Orderly, NEW q \in SUBSET Id, NEW req \in [Id -> CopyRequest \cup {Blank}],
           \A i \in q : req[i] \in CopyRequest, starts \in [Id -> Nat],
           ArrayOK(q, req), StartsOK(q, req, starts), OpsOK(q, req, ops),
           NEW calls, NEW open, DoNextCopy(q, req, calls, open)
    PROVE  /\ queue' = q /\ stack' = calls /\ stopped' = stopped
           /\ ArrayOK(q, request') /\ StartsOK(q, request', starts')
           /\ OpsOK(q, request', ops')
           /\ \A i \in q : Keeps(req[i], request'[i])
           /\ \A i \in Id \ q : request'[i] = req[i] /\ starts'[i] = starts[i]
           /\ StartsFirst(q, req)
  <1>1. ASSUME NEW new, \A i \in q : Keeps(req[i], new[i])
        PROVE  /\ \A i \in q : WellMade(new[i])
               /\ \A i, j \in q : i # j => ~Clash(new[i], new[j])
               /\ \A i \in q : CopyOf(i, new[i]) = CopyOf(i, req[i])
               /\ \A i \in q : new[i].dst = req[i].dst
    BY <1>1, KeptIsAlike, KeptClash DEF ArrayOK, Keeps
  <1>2. CASE NothingToStart(q, req, calls, open)
    <2>1. /\ \A i \in q : Keeps(req[i], request'[i])
          /\ \A i \in q : Exhausted(request'[i]) <=> Exhausted(req[i])
      BY <1>2, MarkKeeps DEF NothingToStart
    <2>2. \A i \in Id \ q : request'[i] = req[i]
      BY <1>2 DEF NothingToStart, MarkProcessed
    <2>3. queue' = q /\ stack' = calls /\ stopped' = stopped /\ starts' = starts /\ ops' = ops
      BY <1>2 DEF NothingToStart
    <2>4. PICK new : new = request'
      OBVIOUS
    <2>5. ArrayOK(q, new)
      BY <1>1, <2>1, <2>4 DEF ArrayOK
    <2>6. OpsOK(q, new, ops)
      BY <1>1, <2>1, <2>4 DEF OpsOK
    <2> QED
      BY <2>1, <2>2, <2>3, <2>4, <2>5, <2>6 DEF StartsOK, StartsFirst
  <1>3. CASE \E id \in q : \E j \in NextSource(req[id]) :
               /\ FirstEligible(q, req, id)
               /\ starts' = [starts EXCEPT ![id] = @ + 1]
               /\ StartCopy(q, req, calls, open, id, j)
    <2>1. PICK id \in q : \E j \in NextSource(req[id]) :
               /\ FirstEligible(q, req, id)
               /\ starts' = [starts EXCEPT ![id] = @ + 1]
               /\ StartCopy(q, req, calls, open, id, j)
      BY <1>3
    <2>2. PICK j \in NextSource(req[id]) : StartCopy(q, req, calls, open, id, j)
      BY <2>1
    <2>3. req[id] \in CopyRequest /\ WellMade(req[id]) /\ ~Exhausted(req[id]) /\ id \in Id
      BY <2>1 DEF ArrayOK, FirstEligible, IsFirst, Eligible
    <2>4. /\ Keeps(req[id], StartSource(req[id], j)) /\ Exhausted(StartSource(req[id], j))
          /\ Copy(id, req[id], j) = CopyOf(id, req[id])
      BY <2>3, StartExhausts
    <2> DEFINE marked == MarkProcessed(q, req, {i \in q : i < id})
    <2>5. marked \in [Id -> CopyRequest \cup {Blank}]
      <3>1. {i \in q : i < id} \in SUBSET Id
        OBVIOUS
      <3> QED
        BY <3>1, MarkedAreRequests
    <2>6. \A i \in q : Keeps(req[i], marked[i]) /\ (Exhausted(marked[i]) <=> Exhausted(req[i]))
      BY MarkKeeps
    <2>7. \A i \in Id \ q : marked[i] = req[i]
      BY DEF MarkProcessed
    <2>8. request' = [marked EXCEPT ![id] = StartSource(req[id], j)]
      BY <2>2 DEF StartCopy, Started
    <2> HIDE DEF marked
    <2>9. PICK new : new = request'
      OBVIOUS
    <2>10. /\ new[id] = StartSource(req[id], j)
           /\ \A i \in Id \ {id} : new[i] = marked[i]
      BY <2>3, <2>5, <2>8, <2>9
    <2>11. /\ \A i \in q : Keeps(req[i], new[i])
           /\ \A i \in q : Exhausted(new[i]) <=> (i = id \/ Exhausted(req[i]))
      BY <2>4, <2>6, <2>10
    <2>12. \A i \in Id \ q : new[i] = req[i] /\ starts'[i] = starts[i]
      BY <2>1, <2>7, <2>10
    <2>13. \A i \in q : i # id /\ req[i].dst = req[id].dst => i > id /\ ~Exhausted(req[i])
      BY <2>1, FirstInLine
    <2>14. ArrayOK(q, new)
      <3>1. ASSUME NEW i \in q, NEW k \in q, i < k, new[i].dst = new[k].dst
            PROVE  ~Exhausted(new[k])
        <4>1. ~Exhausted(req[k]) /\ req[i].dst = req[k].dst
          BY <1>1, <2>11, <3>1 DEF ArrayOK
        <4>2. i \in Nat /\ k \in Nat
          BY BoundAssumption DEF Id
        <4>3. k # id
          BY <2>13, <3>1, <4>1, <4>2
        <4> QED
          BY <2>11, <4>1, <4>3
      <3> QED
        BY <1>1, <2>11, <3>1 DEF ArrayOK
    <2>15. StartsOK(q, new, starts')
      <3>1. \A i \in q : starts'[i] = IF i = id THEN starts[id] + 1 ELSE starts[i]
        BY <2>1, <2>3
      <3>2. starts[id] \in Nat
        BY <2>3
      <3> QED
        BY <2>11, <3>1, <3>2 DEF StartsOK
    <2>16. OpsOK(q, new, ops')
      <3>1. ops' = ops \cup {CopyOf(id, req[id])}
        BY <2>2, <2>4 DEF StartCopy
      <3>2. CopyOf(id, req[id]).req = id
        BY DEF CopyOf
      <3> QED
        BY <1>1, <2>11, <3>1, <3>2 DEF OpsOK
    <2>17. queue' = q /\ stack' = calls /\ stopped' = stopped
      BY <2>2 DEF StartCopy
    <2>18. StartsFirst(q, req)
      BY <2>1, <2>3, <2>13 DEF StartsFirst
    <2> QED
      BY <2>9, <2>11, <2>12, <2>14, <2>15, <2>16, <2>17, <2>18
  <1>4. ~\E id, j : RefuseCopy(q, req, calls, open, id, j)
    BY DEF RefuseCopy, Orderly
  <1> QED
    BY <1>2, <1>3, <1>4 DEF DoNextCopy

-----------------------------------------------------------------------------
(* What the clients hand over is well made and not started. *)
LEMMA OnlySourceToDo ==
    ASSUME NEW f, NEW dst, f # dst
    PROVE  1 \in UnprocessedSources(<<f>>, dst)
  BY DEF UnprocessedSources

LEMMA MadeOrderly ==
    ASSUME NEW r, r.type \in {"msgs", "folder"}, r.sources = <<r.src>>, r.src # r.dst,
           r.type = "folder" => Parent[r.src] # r.dst,
           r.todo = UnprocessedSources(r.sources, r.dst), ~r.processed
    PROVE  WellMade(r) /\ ~Exhausted(r)
  <1>1. 1 \in r.todo
    BY OnlySourceToDo
  <1> QED
    BY <1>1 DEF WellMade, Exhausted, AllSourcesProcessed

LEMMA MadeFileOrderly ==
    ASSUME NEW r, r.type = "file", r.sources \in {<<>>, <<NoFolder>>}, r.dst \in Folder,
           r.todo = UnprocessedSources(r.sources, r.dst), ~r.processed
    PROVE  WellMade(r) /\ ~Exhausted(r)
  <1>1. NoFolder # r.dst
    BY FolderAssumption
  <1>2. r.sources = <<NoFolder>> => 1 \in r.todo
    BY <1>1, OnlySourceToDo
  <1> QED
    BY <1>2 DEF WellMade, Exhausted, AllSourcesProcessed

(* The array with the new request. *)
Longer == queue \cup {lastId + 1}
Joined(r) == [request EXCEPT ![lastId + 1] = r]

LEMMA NewRequest ==
    ASSUME Orderly, TypeInv, OrderlyInv, lastId < MaxRequests,
           NEW r \in CopyRequest, WellMade(r), ~Exhausted(r), Fresh(r.src, r.dst)
    PROVE  /\ lastId + 1 \in Id /\ lastId + 1 \notin queue /\ Longer \in SUBSET Id
           /\ Joined(r) \in [Id -> CopyRequest \cup {Blank}]
           /\ \A i \in Longer : Joined(r)[i] \in CopyRequest
           /\ Joined(r)[lastId + 1] = r
           /\ \A i \in Id \ {lastId + 1} : Joined(r)[i] = request[i]
           /\ ArrayOK(Longer, Joined(r)) /\ StartsOK(Longer, Joined(r), starts)
           /\ OpsOK(Longer, Joined(r), ops)
  <1>0. PICK id, q, req : id = lastId + 1 /\ q = Longer /\ req = Joined(r)
    OBVIOUS
  <1>1. /\ id \in Id /\ q \in SUBSET Id /\ id \notin queue /\ lastId \in Nat
        /\ \A i \in queue : i \in Nat /\ i < id /\ i # id
        /\ request \in [Id -> CopyRequest \cup {Blank}]
        /\ \A i \in queue : request[i] \in CopyRequest
    BY <1>0, BoundAssumption DEF TypeInv, TypeOK, Id, Longer
  <1>2. req[id] = r /\ \A i \in Id \ {id} : req[i] = request[i]
    BY <1>0, <1>1 DEF Joined
  <1>3. /\ req \in [Id -> CopyRequest \cup {Blank}] /\ \A i \in q : req[i] \in CopyRequest
        /\ \A i \in queue : req[i] = request[i]
    <2>1. req \in [Id -> CopyRequest \cup {Blank}]
      BY <1>0, <1>1 DEF Joined
    <2>2. \A i \in queue : i \in Id /\ i # id
      BY <1>0, <1>1 DEF Longer
    <2>3. \A i \in queue : req[i] = request[i]
      BY <1>2, <2>2
    <2> QED
      BY <1>0, <1>1, <1>2, <2>1, <2>3 DEF Longer
  <1>4. \A i \in queue : ~Clash(r, request[i]) /\ ~Clash(request[i], r)
    BY DEF Orderly, Fresh, Clash
  <1>5. ArrayOK(q, req)
    <2>1. \A i \in q : WellMade(req[i])
      BY <1>0, <1>2, <1>3 DEF OrderlyInv, ArrayOK, Longer
    <2>2. ASSUME NEW i \in q, NEW k \in q, i < k, req[i].dst = req[k].dst
          PROVE  ~Exhausted(req[k])
      <3>1. CASE k = id
        BY <1>2, <3>1
      <3>2. CASE k # id
        <4>1. i \in queue /\ k \in queue
          BY <1>0, <1>1, <2>2, <3>2 DEF Longer
        <4> QED
          BY <1>3, <2>2, <4>1 DEF OrderlyInv, ArrayOK
      <3> QED
        BY <3>1, <3>2
    <2>3. \A i, k \in q : i # k => ~Clash(req[i], req[k])
      BY <1>0, <1>2, <1>3, <1>4 DEF OrderlyInv, ArrayOK, Longer
    <2> QED
      BY <2>1, <2>2, <2>3 DEF ArrayOK
  <1>6. StartsOK(q, req, starts)
    <2>1. starts[id] = 0
      BY <1>0, <1>1 DEF OrderlyInv, UnusedOK
    <2> QED
      BY <1>0, <1>2, <1>3, <2>1 DEF OrderlyInv, StartsOK, Longer
  <1>7. OpsOK(q, req, ops)
    BY <1>0, <1>3 DEF OrderlyInv, OpsOK, Longer
  <1> QED
    BY <1>0, <1>1, <1>2, <1>3, <1>5, <1>6, <1>7

(* What joining the array leaves of it. *)
LEMMA DoCopyArray ==
    ASSUME Orderly, TypeInv, OrderlyInv, lastId < MaxRequests,
           NEW r \in CopyRequest, WellMade(r), ~Exhausted(r), Fresh(r.src, r.dst),
           NEW open, DoCopy(r, open)
    PROVE  /\ queue' = Longer /\ stack' = stack /\ stopped' = stopped
           /\ lastId' = lastId + 1 /\ outcome' = outcome
           /\ ArrayOK(Longer, request') /\ StartsOK(Longer, request', starts')
           /\ OpsOK(Longer, request', ops')
           /\ \A i \in Longer : Keeps(Joined(r)[i], request'[i])
           /\ \A i \in Id \ Longer : request'[i] = Joined(r)[i] /\ starts'[i] = starts[i]
           /\ StartsFirst(Longer, Joined(r))
  <1>0. PICK id, q, req : id = lastId + 1 /\ q = Longer /\ req = Joined(r)
    OBVIOUS
  <1>1. /\ q \in SUBSET Id /\ req \in [Id -> CopyRequest \cup {Blank}]
        /\ \A i \in q : req[i] \in CopyRequest
        /\ ArrayOK(q, req) /\ StartsOK(q, req, starts) /\ OpsOK(q, req, ops)
    BY <1>0, NewRequest
  <1>1a. starts \in [Id -> Nat] /\ \A i : Keeps(req[i], req[i])
    BY DEF Keeps, TypeInv, TypeOK
  <1>2. lastId' = id /\ outcome' = outcome
    BY <1>0 DEF DoCopy
  <1>3. CASE MustWait(r)
    <2>1. /\ request' = req /\ queue' = q
          /\ UNCHANGED <<ops, stack, starts, stopped>>
      BY <1>0, <1>3 DEF DoCopy, Longer, Joined
    <2> QED
      BY <1>0, <1>1, <1>1a, <1>2, <2>1 DEF StartsFirst
  <1>4. CASE ~MustWait(r)
    <2>1. DoNextCopy(q, req, stack, open)
      BY <1>0, <1>4 DEF DoCopy, Longer, Joined
    <2> QED
      BY <1>0, <1>1, <1>1a, <1>2, <2>1, NextCopyOrderly
  <1> QED
    BY <1>3, <1>4

(* A call whose listener is being called is not disturbed by what a step   *)
(* does to requests that are newer than those it looks at.                 *)
LEMMA ClearedStays ==
    ASSUME TypeInv, NEW frame, Cleared(frame), lastId' >= lastId, lastId' \in Nat,
           queue' \subseteq Nat, \A i \in Nat : i <= lastId => (i \in queue' <=> i \in queue),
           \A i \in queue : Keeps(request[i], request'[i])
    PROVE  Cleared(frame)'
  <1>1. lastId \in Nat /\ queue \subseteq Nat
    BY BoundAssumption DEF TypeInv, TypeOK
  <1>2. PICK m \in 0 .. lastId :
         /\ Cardinality({i \in queue : i <= m}) =
               IF frame.at = "find" THEN frame.orig ELSE frame.orig - 1
         /\ \A i \in queue : i <= m => ~Answers(request[i], frame)
    BY DEF Cleared
  <1>3. m \in 0 .. lastId' /\ {i \in queue' : i <= m} = {i \in queue : i <= m}
    <2>1. m \in 0 .. lastId' /\ \A i \in Nat : i <= m => i <= lastId
      BY <1>1
    <2> QED
      BY <1>1, <2>1
  <1>4. ASSUME NEW i \in queue', i <= m
        PROVE  ~Answers(request'[i], frame)
    <2>1. i \in queue
      BY <1>1, <1>4
    <2> QED
      BY <1>2, <1>4, <2>1, KeptIsAlike
  <1>5. PICK new : new = request'
    OBVIOUS
  <1>6. \A i \in queue' : i <= m => ~Answers(new[i], frame)
    BY <1>4, <1>5
  <1> QED
    BY <1>2, <1>3, <1>5, <1>6 DEF Cleared

(* Only a call whose listener is being called lets a client call. *)
LEMMA CallerIsCleared ==
    ASSUME OrderlyInv, ClientMayCall, stack # <<>>
    PROVE  Len(stack) = 1 /\ Cleared(stack[1])
  <1>1. Len(stack) = 1 /\ (Reported(stack[1]) \/ Cleared(stack[1]))
    BY DEF OrderlyInv, CallsOK
  <1>2. stack[1].at \in {"listener", "failed start"}
    BY <1>1 DEF ClientMayCall, InListener, Top
  <1> QED
    BY <1>1, <1>2 DEF Reported

LEMMA DoCopyOrderly ==
    ASSUME Orderly, TypeInv, OrderlyInv, ClientMayCall,
           NEW r \in CopyRequest, WellMade(r), ~Exhausted(r), Fresh(r.src, r.dst),
           NEW open, DoCopy(r, open)
    PROVE  OrderlyInv'
  <1>1. /\ queue' = Longer /\ stack' = stack /\ stopped' = stopped
        /\ lastId' = lastId + 1 /\ outcome' = outcome
        /\ ArrayOK(Longer, request') /\ StartsOK(Longer, request', starts')
        /\ OpsOK(Longer, request', ops')
        /\ \A i \in Longer : Keeps(Joined(r)[i], request'[i])
        /\ \A i \in Id \ Longer : request'[i] = Joined(r)[i] /\ starts'[i] = starts[i]
    BY DoCopyArray DEF ClientMayCall
  <1>2. /\ lastId + 1 \in Id /\ lastId + 1 \notin queue
        /\ \A i \in Id \ {lastId + 1} : Joined(r)[i] = request[i]
    BY NewRequest DEF ClientMayCall
  <1>3. /\ lastId \in Nat /\ Id \subseteq Nat /\ queue \subseteq Id
        /\ \A i \in queue : i <= lastId
    BY BoundAssumption DEF TypeInv, TypeOK, Id
  <1>4. UnusedOK'
    <2>1. \A i \in Id \ queue' : request'[i] = Blank
      BY <1>1, <1>2 DEF Longer, OrderlyInv, UnusedOK
    <2>2. ASSUME NEW i \in Id, i > lastId'
          PROVE  starts'[i] = 0
      <3>1. i > lastId /\ i \notin Longer
        BY <1>1, <1>3, <2>2 DEF Longer
      <3> QED
        BY <1>1, <3>1 DEF OrderlyInv, UnusedOK
    <2> QED
      BY <2>1, <2>2 DEF UnusedOK
  <1>5. CallsOK'
    <2>1. CASE stack = <<>>
      BY <1>1, <2>1 DEF CallsOK
    <2>2. CASE stack # <<>>
      <3>1. PICK frame : frame = stack[1]
        OBVIOUS
      <3>2. Len(stack) = 1 /\ Cleared(frame)
        BY <2>2, <3>1, CallerIsCleared
      <3>3. lastId' >= lastId /\ lastId' \in Nat /\ queue' \subseteq Nat
        BY <1>1, <1>3 DEF Longer
      <3>4. \A i \in Nat : i <= lastId => (i \in queue' <=> i \in queue)
        BY <1>1, <1>3 DEF Longer
      <3>5. \A i \in queue : Keeps(request[i], request'[i])
        <4>1. \A i \in queue : i \in Longer /\ i \in Id \ {lastId + 1}
          BY <1>2, <1>3 DEF Longer
        <4> QED
          BY <1>1, <1>2, <4>1
      <3>6. Cleared(frame)'
        BY <3>2, <3>3, <3>4, <3>5, ClearedStays
      <3> QED
        BY <1>1, <3>1, <3>2, <3>6 DEF CallsOK
    <2> QED
      BY <2>1, <2>2
  <1>6. Unanswered'
    <2>1. stopped[lastId + 1] = "none"
      BY <1>2, <1>3 DEF OrderlyInv, Unanswered
    <2>2. \A i \in Id : i > lastId + 1 => i > lastId
      BY <1>3
    <2> QED
      BY <1>1, <2>1, <2>2 DEF Longer, OrderlyInv, Unanswered
  <1>7. AnswersOwnCopy'
    BY <1>1 DEF OrderlyInv, AnswersOwnCopy
  <1> QED
    BY <1>1, <1>4, <1>5, <1>6, <1>7 DEF OrderlyInv

(* The report of a copy can only be taken for an answer to its request. *)
LEMMA ReportFinds ==
    ASSUME Orderly, TypeInv, OrderlyInv, NEW o \in ops, NEW report \in Reports(o),
           NEW frame, frame.src = report[1], frame.dst = report[2],
           NEW i \in queue, Answers(request[i], frame)
    PROVE  i = o.req
  <1>1. PICK r, s : r = request[o.req] /\ s = request[i]
    OBVIOUS
  <1>2. /\ o.req \in queue /\ o.dst = r.dst /\ o.src = r.src /\ o.type = r.type
        /\ r \in CopyRequest /\ s \in CopyRequest /\ WellMade(s)
        /\ i # o.req => ~Clash(r, s)
    BY <1>1 DEF OrderlyInv, OpsOK, CopyOf, ArrayOK, TypeInv, TypeOK
  <1>3. /\ s.src \in Folder \cup File /\ s.dst \in Folder /\ s.type \in AllKinds
        /\ s.type = "file" => s.src \in File
        /\ r.src \in Folder \cup File /\ r.dst \in Folder
    BY <1>2 DEF CopyRequest, AnyRequest
  <1>4. \/ s.src = frame.src /\ s.dst = frame.dst /\ s.type # "folder"
        \/ s.type = "folder" /\ s.src = frame.src
           /\ frame.dst \in Folder /\ Parent[frame.dst] = s.dst
    BY <1>1 DEF Answers, Matches, SameFolderCopy
  <1>5. CASE o.type # "folder"
    <2>1. frame.src = r.src /\ frame.dst = r.dst
      BY <1>2, <1>5 DEF Reports
    <2>2. Clash(r, s)
      BY <1>4, <2>1 DEF Clash
    <2> QED
      BY <1>2, <2>2
  <1>6. CASE o.type = "folder"
    <2>1. PICK f \in Folder : /\ Parent[f] = r.dst
                              /\ report = <<r.src, f>> \/ report = <<f, f>>
      BY <1>2, <1>6 DEF Reports
    <2>2. CASE report = <<r.src, f>>
      <3>1. frame.src = r.src /\ frame.dst = f
        BY <2>2
      <3>2. Clash(r, s)
        BY <1>4, <2>1, <3>1 DEF Clash
      <3> QED
        BY <1>2, <3>2
    <2>3. CASE report = <<f, f>>
      <3>1. frame.src = f /\ frame.dst = f
        BY <2>3
      <3>2. s.type # "file"
        BY <1>3, <1>4, <3>1, FolderAssumption
      <3> QED
        BY <1>2, <1>4, <3>1, <3>2 DEF WellMade
    <2> QED
      BY <2>1, <2>2, <2>3
  <1> QED
    BY <1>5, <1>6

LEMMA EndsOrderly ==
    ASSUME Orderly, TypeInv, OrderlyInv, CopyEnds
    PROVE  OrderlyInv'
  <1>1. PICK o \in ops, ok \in BOOLEAN : \E report \in Reports(o) :
           NotifyCompletion(o.req, report[1], report[2], ok) /\ ops' = ops \ {o}
    BY DEF CopyEnds
  <1>2. PICK report \in Reports(o) :
           NotifyCompletion(o.req, report[1], report[2], ok) /\ ops' = ops \ {o}
    BY <1>1
  <1>3. stack = <<>> /\ UNCHANGED <<lastId, queue, request, batches, starts, stopped>>
    <2>1. stack = <<>>
      BY DEF CopyEnds, Orderly
    <2>2. UNCHANGED <<lastId, queue, request, batches, starts, stopped>>
      BY <1>2 DEF NotifyCompletion
    <2> QED
      BY <2>1, <2>2
  <1>4. o.req \in queue /\ Exhausted(request[o.req]) /\ o.req \in Id
    <2>1. o.req \in queue /\ Exhausted(request[o.req])
      BY DEF OrderlyInv, OpsOK
    <2>2. queue \subseteq Id
      BY BoundAssumption DEF TypeInv, TypeOK, Id
    <2> QED
      BY <2>1, <2>2
  <1>5. /\ outcome'[o.req] = Verdict(ok)
        /\ \A i \in Id : i # o.req => outcome'[i] = outcome[i]
    BY <1>2, <1>4 DEF NotifyCompletion, TypeInv, TypeOK
  <1>6. \A p \in ops' : p.req # o.req
    BY <1>2 DEF OrderlyInv, OpsOK
  <1>7. PICK frame : frame = Call(report[1], report[2], ok, Cardinality(queue), "find")
    OBVIOUS
  <1>8. /\ frame.src = report[1] /\ frame.dst = report[2] /\ frame.ok = ok
        /\ frame.orig = Cardinality(queue) /\ frame.at = "find"
    BY <1>7 DEF Call
  <1>9. \A i \in queue : Answers(request[i], frame) => i = o.req
    BY <1>8, ReportFinds
  <1>10. Reported(frame)'
    BY <1>3, <1>4, <1>5, <1>6, <1>8, <1>9 DEF Reported
  <1>11. CallsOK'
    <2>1. stack' = <<frame>>
      BY <1>2, <1>3, <1>7 DEF NotifyCompletion
    <2> QED
      BY <1>10, <2>1 DEF CallsOK
  <1>12. AnswersOwnCopy'
    BY <1>3, <1>4, <1>5 DEF AnswersOwnCopy, OrderlyInv, Unanswered
  <1>13. OpsOK(queue, request, ops')
    BY <1>2 DEF OrderlyInv, OpsOK
  <1> QED
    BY <1>3, <1>11, <1>12, <1>13 DEF OrderlyInv, UnusedOK, Unanswered

(* What NotifyCompletion clears is the request whose copy has ended. *)
LEMMA ClearsReported ==
    ASSUME TypeInv, OrderlyInv, stack # <<>>, Top.at = "find",
           NEW id \in queue, IsFound(id, Top.src, Top.dst), Over(id, Top)
    PROVE  /\ Len(stack) = 1 /\ Top = stack[1] /\ Top.orig = Cardinality(queue)
           /\ Exhausted(request[id]) /\ outcome[id] = Verdict(Top.ok)
           /\ \A o \in ops : o.req # id
           /\ \A i \in queue : Answers(request[i], Top) => i = id
  <1>1. /\ Len(stack) = 1 /\ Top = stack[1] /\ (Reported(Top) \/ Cleared(Top))
    BY DEF OrderlyInv, CallsOK, Top
  <1>2. Answers(request[id], Top)
    BY DEF IsFound, IsFirst, Answers
  <1>3. CASE Reported(Top)
    BY <1>1, <1>2, <1>3 DEF Reported
  <1>4. CASE Cleared(Top)
    <2>1. PICK m \in 0 .. lastId :
           /\ Cardinality({i \in queue : i <= m}) = Top.orig
           /\ \A i \in queue : i <= m => ~Answers(request[i], Top)
      BY <1>4 DEF Cleared
    <2>2. Cardinality({i \in queue : i < id}) < Cardinality({i \in queue : i <= m})
      BY <2>1 DEF Over, IndexOf
    <2>3. queue \in SUBSET Id /\ Id \subseteq Nat /\ m \in Nat /\ id \in Nat
      BY BoundAssumption DEF TypeInv, TypeOK, Id
    <2>4. ~(id <= m)
      BY <1>2, <2>1
    <2>5. {i \in queue : i <= m} \subseteq {i \in queue : i < id}
      <3>1. \A i \in Nat : i <= m => i < id
        BY <2>3, <2>4
      <3> QED
        BY <2>3, <3>1
    <2>6. {i \in queue : i < id} \in SUBSET Id /\ {i \in queue : i <= m} \in SUBSET Id
      BY <2>3
    <2>7. IsFiniteSet({i \in queue : i < id})
      BY <2>6, QueueFinite
    <2>8. Cardinality({i \in queue : i <= m}) <= Cardinality({i \in queue : i < id})
      BY <2>5, <2>7, FS_Subset
    <2>9. Cardinality({i \in queue : i < id}) \in Nat /\ Cardinality({i \in queue : i <= m}) \in Nat
      BY <2>6, QueueFinite
    <2> QED
      BY <2>2, <2>8, <2>9
  <1> QED
    BY <1>1, <1>3, <1>4

LEMMA ClearOrderly ==
    ASSUME Orderly, TypeInv, OrderlyInv, ClearFound
    PROVE  OrderlyInv'
  <1>1. PICK id \in queue : /\ IsFound(id, Top.src, Top.dst) /\ Over(id, Top)
                            /\ ClearRequest(queue, request, id, Verdict(Top.ok), batches)
    BY DEF ClearFound
  <1>2. /\ Len(stack) = 1 /\ Top = stack[1] /\ Top.orig = Cardinality(queue)
        /\ Exhausted(request[id]) /\ outcome[id] = Verdict(Top.ok)
        /\ \A o \in ops : o.req # id
        /\ \A i \in queue : Answers(request[i], Top) => i = id
    BY <1>1, ClearsReported DEF ClearFound
  <1>3. /\ queue \in SUBSET Id /\ id \in Id /\ lastId \in Nat /\ Id \subseteq Nat
        /\ \A i \in queue : i <= lastId
        /\ request \in [Id -> CopyRequest \cup {Blank}] /\ stopped \in [Id -> Answer]
    BY BoundAssumption DEF TypeInv, TypeOK, Id
  <1>4. /\ queue' = queue \ {id} /\ UNCHANGED <<lastId, ops, starts, outcome>>
        /\ request' = [request EXCEPT ![id] = Blank]
        /\ stopped' = [stopped EXCEPT ![id] = Verdict(Top.ok)]
    BY <1>1 DEF ClearRequest, ClearFound
  <1>5. PICK new : new = request'
    OBVIOUS
  <1>6. /\ new[id] = Blank /\ stopped'[id] = Verdict(Top.ok)
        /\ \A i \in Id : i # id => new[i] = request[i] /\ stopped'[i] = stopped[i]
    BY <1>3, <1>4, <1>5
  <1>7. \A i \in queue' : i \in queue /\ i \in Id /\ i # id /\ new[i] = request[i]
    BY <1>3, <1>4, <1>6
  <1>8. ArrayOK(queue', new) /\ StartsOK(queue', new, starts')
    BY <1>4, <1>7 DEF OrderlyInv, ArrayOK, StartsOK
  <1>9. OpsOK(queue', new, ops')
    BY <1>2, <1>4, <1>7 DEF OrderlyInv, OpsOK
  <1>10. UnusedOK'
    BY <1>3, <1>4, <1>5, <1>6 DEF OrderlyInv, UnusedOK
  <1>11. Unanswered'
    <2>1. \A i \in Id : i > lastId => i # id
      BY <1>3
    <2> QED
      BY <1>4, <1>6, <1>7, <2>1 DEF OrderlyInv, Unanswered
  <1>12. AnswersOwnCopy'
    BY <1>2, <1>4, <1>6 DEF OrderlyInv, AnswersOwnCopy
  <1>13. PICK frame : frame = [Top EXCEPT !.at = "listener"]
    OBVIOUS
  <1>14. /\ frame.src = Top.src /\ frame.dst = Top.dst /\ frame.orig = Top.orig
         /\ frame.at = "listener"
    <2>1. Top \in Frame
      BY TopTyped DEF ClearFound
    <2> QED
      BY <1>13, <2>1 DEF Frame
  <1>15. Len(stack') = 1 /\ stack'[1] = frame
    BY <1>2, <1>13 DEF ClearFound, TypeInv, TypeOK
  <1>16. Cleared(frame)'
    <2>1. {i \in queue' : i <= lastId'} = queue \ {id}
      BY <1>3, <1>4
    <2>1a. lastId' \in 0 .. lastId'
      BY <1>3, <1>4
    <2>2. Cardinality(queue \ {id}) = Cardinality(queue) - 1
      BY <1>3, QueueFinite, FS_RemoveElement
    <2>3. \A i \in queue' : ~Answers(new[i], frame)
      BY <1>2, <1>7, <1>14 DEF Answers
    <2>4. Cardinality({i \in queue' : i <= lastId'}) = frame.orig - 1
      BY <1>2, <1>14, <2>1, <2>2
    <2> QED
      BY <1>5, <1>14, <2>1a, <2>3, <2>4 DEF Cleared
  <1>17. CallsOK'
    BY <1>15, <1>16 DEF CallsOK
  <1> QED
    BY <1>5, <1>8, <1>9, <1>10, <1>11, <1>12, <1>17 DEF OrderlyInv

LEMMA NothingOverOrderly ==
    ASSUME Orderly, TypeInv, OrderlyInv, NothingOver
    PROVE  /\ OrderlyInv' /\ StartsFirst(queue, request)
           /\ queue' = queue /\ stopped' = stopped /\ lastId' = lastId
           /\ \A i \in queue : Keeps(request[i], request'[i])
           /\ \A i \in Id \ queue : request'[i] = request[i]
  <1>1. /\ queue \in SUBSET Id /\ request \in [Id -> CopyRequest \cup {Blank}]
        /\ \A i \in queue : request[i] \in CopyRequest
        /\ starts \in [Id -> Nat] /\ \A i \in queue : ~(i > lastId)
    BY BoundAssumption DEF TypeInv, TypeOK, Id
  <1>2. DoNextCopy(queue, request, CallersOf(stack), batches) /\ UNCHANGED <<lastId, outcome>>
    BY DEF NothingOver
  <1>3. /\ queue' = queue /\ stack' = CallersOf(stack) /\ stopped' = stopped
        /\ ArrayOK(queue, request') /\ StartsOK(queue, request', starts')
        /\ OpsOK(queue, request', ops')
        /\ \A i \in queue : Keeps(request[i], request'[i])
        /\ \A i \in Id \ queue : request'[i] = request[i] /\ starts'[i] = starts[i]
        /\ StartsFirst(queue, request)
    BY <1>1, <1>2, NextCopyOrderly DEF OrderlyInv
  <1>4. CallsOK'
    <2>1. Len(stack) = 1 /\ stack \in Seq(Frame) /\ stack # <<>>
      BY DEF NothingOver, OrderlyInv, CallsOK, TypeInv, TypeOK
    <2>2. stack' \in Seq(Frame) /\ Len(stack') = 0
      BY <1>3, <2>1, CallersTyped
    <2>3. stack' = <<>>
      BY <2>2, EmptySeq
    <2> QED
      BY <2>3 DEF CallsOK
  <1>5. UnusedOK'
    BY <1>1, <1>2, <1>3 DEF OrderlyInv, UnusedOK
  <1>6. Unanswered' /\ AnswersOwnCopy'
    BY <1>2, <1>3 DEF OrderlyInv, Unanswered, AnswersOwnCopy
  <1> QED
    BY <1>2, <1>3, <1>4, <1>5, <1>6 DEF OrderlyInv

LEMMA ReturnsOrderly ==
    ASSUME Orderly, TypeInv, OrderlyInv, ListenerReturns
    PROVE  OrderlyInv'
  <1>1. UNCHANGED <<lastId, queue, request, ops, batches, starts, stopped, outcome>>
    BY DEF ListenerReturns, history
  <1>2. /\ Len(stack) = 1 /\ Top = stack[1] /\ Cleared(Top)
        /\ Top.at = "listener" /\ stack # <<>>
    BY DEF ListenerReturns, InListener, OrderlyInv, CallsOK, Top, Reported, Cleared
  <1>3. PICK frame : frame = Resumed(Top)
    OBVIOUS
  <1>4. /\ frame.src = Top.src /\ frame.dst = Top.dst /\ frame.orig = Top.orig - 1
        /\ frame.at = "find"
    BY <1>3 DEF Resumed, Call
  <1>5. Len(stack') = 1 /\ stack'[1] = frame
    <2>1. stack' = [stack EXCEPT ![Len(stack)] = frame]
      BY <1>2, <1>3 DEF ListenerReturns
    <2>2. stack \in Seq(Frame)
      BY DEF TypeInv, TypeOK
    <2> QED
      BY <1>2, <2>1, <2>2
  <1>6. Cleared(frame)
    BY <1>2, <1>4 DEF Cleared, Answers
  <1>7. Cleared(frame)'
    BY <1>1, <1>6 DEF Cleared
  <1>8. CallsOK'
    BY <1>5, <1>7 DEF CallsOK
  <1> QED
    BY <1>1, <1>8 DEF OrderlyInv, UnusedOK, Unanswered, AnswersOwnCopy

LEMMA EmptyCallOrderly ==
    ASSUME Orderly, TypeInv, OrderlyInv, CopyNoMessages
    PROVE  OrderlyInv'
  <1>1. /\ lastId' = lastId + 1 /\ UNCHANGED <<queue, request, ops, stack, batches>>
        /\ starts' = [starts EXCEPT ![lastId + 1] = 1]
        /\ stopped' = [stopped EXCEPT ![lastId + 1] = "ok"]
        /\ outcome' = [outcome EXCEPT ![lastId + 1] = "ok"]
    BY DEF CopyNoMessages
  <1>2. /\ lastId + 1 \in Id /\ lastId \in Nat /\ Id \subseteq Nat /\ queue \subseteq Id
        /\ \A i \in queue : i <= lastId
        /\ starts \in [Id -> Nat] /\ stopped \in [Id -> Answer] /\ outcome \in [Id -> Answer]
    BY BoundAssumption DEF CopyNoMessages, ClientMayCall, TypeInv, TypeOK, Id
  <1>3. \A i \in queue : i # lastId + 1
    BY <1>2
  <1>4. \A i \in Id : i # lastId + 1 =>
          starts'[i] = starts[i] /\ stopped'[i] = stopped[i] /\ outcome'[i] = outcome[i]
    BY <1>1, <1>2
  <1>5. stopped'[lastId + 1] = "ok" /\ outcome'[lastId + 1] = "ok"
    BY <1>1, <1>2
  <1>6. \A i \in Id : i > lastId + 1 => i # lastId + 1 /\ i > lastId
    BY <1>2
  <1>7. CallsOK'
    <2>1. CASE stack = <<>>
      BY <1>1, <2>1 DEF CallsOK
    <2>2. CASE stack # <<>>
      <3>1. PICK frame : frame = stack[1]
        OBVIOUS
      <3>2. Len(stack) = 1 /\ Cleared(frame)
        BY <2>2, <3>1, CallerIsCleared DEF CopyNoMessages
      <3>3. \A i \in queue : Keeps(request[i], request'[i])
        BY <1>1 DEF Keeps
      <3>4. lastId' >= lastId /\ lastId' \in Nat /\ queue' \subseteq Nat
        BY <1>1, <1>2
      <3>5. Cleared(frame)'
        BY <1>1, <3>2, <3>3, <3>4, ClearedStays
      <3> QED
        BY <1>1, <3>1, <3>2, <3>5 DEF CallsOK
    <2> QED
      BY <2>1, <2>2
  <1>8. UnusedOK' /\ Unanswered'
    BY <1>1, <1>2, <1>3, <1>4, <1>6 DEF OrderlyInv, UnusedOK, Unanswered
  <1>9. AnswersOwnCopy'
    BY <1>4, <1>5 DEF OrderlyInv, AnswersOwnCopy
  <1>10. StartsOK(queue, request, starts')
    BY <1>2, <1>3, <1>4 DEF OrderlyInv, StartsOK
  <1> QED
    BY <1>1, <1>7, <1>8, <1>9, <1>10 DEF OrderlyInv

(* The requests that the three calls of a client make. *)
LEMMA CallsAreOrderly ==
    ASSUME Orderly, CopyMessages \/ CopyFolders \/ CopyFileMessage
    PROVE  \E r \in CopyRequest : \E open :
             /\ WellMade(r) /\ ~Exhausted(r) /\ Fresh(r.src, r.dst)
             /\ ClientMayCall /\ DoCopy(r, open)
  <1>1. CASE CopyMessages
    <2>1. PICK sources \in SourceLists, dst \in Folder, undo \in BOOLEAN :
          \E i \in DOMAIN sources :
            LET r == MakeRequest("msgs", sources[i], dst, sources, undo)
            IN sources[i] # dst /\ Fresh(sources[i], dst)
               /\ DoCopy(r, IF Batched(r) THEN batches + 1 ELSE batches)
      BY <1>1 DEF CopyMessages
    <2>2. PICK i \in DOMAIN sources :
            LET r == MakeRequest("msgs", sources[i], dst, sources, undo)
            IN sources[i] # dst /\ Fresh(sources[i], dst)
               /\ DoCopy(r, IF Batched(r) THEN batches + 1 ELSE batches)
      BY <2>1
    <2>3. PICK r : r = MakeRequest("msgs", sources[i], dst, sources, undo)
      OBVIOUS
    <2>4. sources = <<sources[i]>>
      BY OneSource
    <2>4a. /\ r.type = "msgs" /\ r.src = sources[i] /\ r.dst = dst /\ r.sources = sources
           /\ r.todo = UnprocessedSources(sources, dst) /\ ~r.processed
      BY <2>3 DEF MakeRequest
    <2>5. WellMade(r) /\ ~Exhausted(r) /\ r.src = sources[i] /\ r.dst = dst
      BY <2>2, <2>4, <2>4a, MadeOrderly
    <2>6. r \in CopyRequest
      BY <2>3, MadeMsgs
    <2> QED
      BY <1>1, <2>2, <2>3, <2>5, <2>6 DEF CopyMessages
  <1>2. CASE CopyFolders
    <2>1. PICK src \in Folder, dst \in Folder :
            /\ src # dst /\ Parent[src] # dst /\ Fresh(src, dst)
            /\ DoCopy(MakeRequest("folder", src, dst, <<src>>, FALSE), batches)
      BY <1>2 DEF CopyFolders
    <2>2. PICK r : r = MakeRequest("folder", src, dst, <<src>>, FALSE)
      OBVIOUS
    <2>2a. /\ r.type = "folder" /\ r.src = src /\ r.dst = dst /\ r.sources = <<src>>
           /\ r.todo = UnprocessedSources(<<src>>, dst) /\ ~r.processed
      BY <2>2 DEF MakeRequest
    <2>3. WellMade(r) /\ ~Exhausted(r) /\ r.src = src /\ r.dst = dst
      BY <2>1, <2>2a, MadeOrderly
    <2>4. r \in CopyRequest
      BY <2>2, MadeFolder
    <2> QED
      BY <1>2, <2>1, <2>2, <2>3, <2>4 DEF CopyFolders
  <1>3. CASE CopyFileMessage
    <2>1. PICK file \in File, dst \in Folder, sources \in {<<>>, <<NoFolder>>} :
            /\ Fresh(file, dst)
            /\ DoCopy(MakeRequest("file", file, dst, sources, FALSE), batches)
      BY <1>3 DEF CopyFileMessage
    <2>2. PICK r : r = MakeRequest("file", file, dst, sources, FALSE)
      OBVIOUS
    <2>2a. /\ r.type = "file" /\ r.src = file /\ r.dst = dst /\ r.sources = sources
           /\ r.todo = UnprocessedSources(sources, dst) /\ ~r.processed
      BY <2>2 DEF MakeRequest
    <2>3. WellMade(r) /\ ~Exhausted(r) /\ r.src = file /\ r.dst = dst
      BY <2>2a, MadeFileOrderly
    <2>4. r \in CopyRequest
      BY <2>2, MadeFile
    <2> QED
      BY <1>3, <2>1, <2>2, <2>3, <2>4 DEF CopyFileMessage
  <1> QED
    BY <1>1, <1>2, <1>3

LEMMA StepOrderly ==
    ASSUME Orderly, TypeInv, OrderlyInv, [Next]_vars
    PROVE  OrderlyInv'
  <1>1. CASE CopyMessages \/ CopyFolders \/ CopyFileMessage
    <2>1. PICK r \in CopyRequest : \E open :
             /\ WellMade(r) /\ ~Exhausted(r) /\ Fresh(r.src, r.dst)
             /\ ClientMayCall /\ DoCopy(r, open)
      BY <1>1, CallsAreOrderly
    <2> QED
      BY <2>1, DoCopyOrderly
  <1>2. CASE CopyNoMessages
    BY <1>2, EmptyCallOrderly
  <1>3. CASE AbortSend
    BY <1>3 DEF AbortSend, Orderly
  <1>4. CASE CopyEnds
    BY <1>4, EndsOrderly
  <1>5. CASE ClearFound
    BY <1>5, ClearOrderly
  <1>6. CASE NothingOver
    BY <1>6, NothingOverOrderly
  <1>7. CASE ListenerReturns
    BY <1>7, ReturnsOrderly
  <1>8. CASE UNCHANGED vars
    BY <1>8 DEF vars, OrderlyInv, UnusedOK, CallsOK, Reported, Cleared, Unanswered, AnswersOwnCopy
  <1> QED
    BY <1>1, <1>2, <1>3, <1>4, <1>5, <1>6, <1>7, <1>8 DEF Next, ClientCalls, ServiceSteps

LEMMA InitOrderly == Init => OrderlyInv
  BY DEF Init, OrderlyInv, ArrayOK, StartsOK, OpsOK, UnusedOK, CallsOK, Unanswered,
         AnswersOwnCopy

LEMMA OrderlyInvariant ==
    ASSUME Orderly
    PROVE  Spec => [](TypeInv /\ OrderlyInv)
  <1>1. Init => TypeInv /\ OrderlyInv
    BY InitTyped, InitOrderly
  <1>2. TypeInv /\ OrderlyInv /\ [Next]_vars => (TypeInv /\ OrderlyInv)'
    BY StepTyped, StepOrderly
  <1> QED
    BY <1>1, <1>2, PTL DEF Spec

(* The service never has two copies into one folder under way, which the   *)
(* destinations take for granted, if its clients are orderly.              *)
THEOREM OneCopyAtATime ==
    ASSUME Orderly
    PROVE  Spec => []OneCopyPerDestination
  <1>1. TypeInv /\ OrderlyInv => OneCopyPerDestination
    <2> SUFFICES ASSUME TypeInv, OrderlyInv, NEW o \in ops, NEW p \in ops, o # p,
                        o.dst = p.dst
                 PROVE  FALSE
      BY DEF OneCopyPerDestination
    <2>1. /\ o.req \in queue /\ Exhausted(request[o.req]) /\ o = CopyOf(o.req, request[o.req])
          /\ p.req \in queue /\ Exhausted(request[p.req]) /\ p = CopyOf(p.req, request[p.req])
      BY DEF OrderlyInv, OpsOK
    <2>2. o.req # p.req /\ request[o.req].dst = request[p.req].dst
      BY <2>1 DEF CopyOf
    <2>3. o.req \in Int /\ p.req \in Int
      <3>1. queue \subseteq Id /\ Id \subseteq Int
        BY BoundAssumption DEF TypeInv, TypeOK, Id
      <3> QED
        BY <2>1, <3>1
    <2>4. o.req < p.req \/ p.req < o.req
      BY <2>2, <2>3
    <2> QED
      BY <2>1, <2>2, <2>4 DEF OrderlyInv, ArrayOK
  <1> QED
    BY <1>1, OrderlyInvariant, PTL

(* Nor is a listener told that its request is over while a copy of the     *)
(* request goes on: the call clears the request that the report is about.  *)
THEOREM StoppedWhenOver ==
    ASSUME Orderly
    PROVE  Spec => []StoppedIsOver
  <1>1. TypeInv /\ OrderlyInv => StoppedIsOver
    BY DEF OrderlyInv, OpsOK, Unanswered, StoppedIsOver
  <1> QED
    BY <1>1, OrderlyInvariant, PTL

(* And what it is told is how the copy of its own request has ended. *)
THEOREM OwnAnswer ==
    ASSUME Orderly
    PROVE  Spec => []AnswersOwnCopy
  <1>1. TypeInv /\ OrderlyInv => AnswersOwnCopy
    BY DEF OrderlyInv
  <1> QED
    BY <1>1, OrderlyInvariant, PTL

-----------------------------------------------------------------------------
(* The lines that the service promises its clients: the part of Lines      *)
(* about what steps may do, not that lines move.                           *)
LinesSafe == Service!Init /\ [][Service!Next]_Service!vars

(* Where the array stands in the lines. *)
Dest(req) == [id \in Id |-> req[id].dst]

(* The request that the scan starts is the head of an idle line. *)
LEMMA ScanStartsSome ==
    ASSUME TypeInv, NEW q \in SUBSET Id, NEW req, StartsOK(q, req, starts),
           StartsFirst(q, req), queue' = q,
           NEW d, \A i \in q : d[i] = req[i].dst,
           NEW w, w = {i \in q : starts[i] = 0}, queue \ InLine = q \ w
    PROVE  Service!StartSome(w, d)
  <1>1. PICK act : act = q \ w
    OBVIOUS
  <1>2. starts \in [Id -> Nat]
    BY DEF TypeInv, TypeOK
  <1>3. InLine' = {i \in q : starts'[i] = 0} /\ (queue \ InLine)' = q \ InLine'
    BY DEF InLine
  <1>4. CASE starts' = starts
    BY <1>1, <1>3, <1>4 DEF Service!StartSome
  <1>5. CASE \E id \in q : /\ starts' = [starts EXCEPT ![id] = @ + 1]
                           /\ ~Exhausted(req[id])
                           /\ \A i \in q : i # id /\ req[i].dst = req[id].dst =>
                                 i > id /\ ~Exhausted(req[i])
    <2>1. PICK id \in q : /\ starts' = [starts EXCEPT ![id] = @ + 1]
                          /\ ~Exhausted(req[id])
                          /\ \A i \in q : i # id /\ req[i].dst = req[id].dst =>
                                i > id /\ ~Exhausted(req[i])
      BY <1>5
    <2>2. id \in w /\ starts[id] = 0
      BY <2>1 DEF StartsOK
    <2>3. \A i \in q : starts'[i] = 0 <=> (i # id /\ starts[i] = 0)
      BY <1>2, <2>1, <2>2
    <2>4. InLine' = w \ {id}
      BY <1>3, <2>3
    <2>5. (queue \ InLine)' = act \cup {id}
      BY <1>1, <1>3, <2>2, <2>4
    <2>6. \A i \in q : i \in act => Exhausted(req[i])
      BY <1>1 DEF StartsOK
    <2>7. \A i \in (w \cup act) \ {id} : d[i] = d[id] => i > id /\ i \notin act
      BY <1>1, <2>1, <2>6
    <2>8. Service!MayStart(w, d, id)
      BY <1>1, <2>2, <2>7 DEF Service!MayStart
    <2> QED
      BY <1>1, <2>2, <2>4, <2>5, <2>8 DEF Service!StartSome
  <1> QED
    BY <1>4, <1>5 DEF StartsFirst

(* A request that joins the array joins the line of its destination. *)
LEMMA DoCopySubmits ==
    ASSUME Orderly, TypeInv, OrderlyInv, ClientMayCall,
           NEW r \in CopyRequest, WellMade(r), ~Exhausted(r), Fresh(r.src, r.dst),
           NEW open, DoCopy(r, open)
    PROVE  Service!Submit(r.dst) /\ r.dst \in Folder
  <1>1. /\ queue' = Longer /\ stopped' = stopped /\ lastId' = lastId + 1
        /\ \A i \in Longer : Keeps(Joined(r)[i], request'[i])
        /\ \A i \in Id \ Longer : request'[i] = Joined(r)[i]
        /\ StartsFirst(Longer, Joined(r))
    BY DoCopyArray DEF ClientMayCall
  <1>2. /\ lastId + 1 \in Id /\ lastId + 1 \notin queue /\ Longer \in SUBSET Id
        /\ Joined(r)[lastId + 1] = r
        /\ \A i \in Id \ {lastId + 1} : Joined(r)[i] = request[i]
        /\ StartsOK(Longer, Joined(r), starts)
    BY NewRequest DEF ClientMayCall
  <1>3. PICK d : d = [Dest(request) EXCEPT ![lastId + 1] = r.dst]
    OBVIOUS
  <1>4. \A i \in Id : d[i] = Joined(r)[i].dst
    BY <1>2, <1>3 DEF Dest
  <1>5. Dest(request)' = d
    <2>1. \A i \in Id : request'[i].dst = Joined(r)[i].dst
      BY <1>1 DEF Keeps
    <2>2. d = [i \in Id |-> Joined(r)[i].dst]
      BY <1>3, <1>4 DEF Dest
    <2> QED
      BY <2>1, <2>2 DEF Dest
  <1>6. PICK w : w = {i \in Longer : starts[i] = 0}
    OBVIOUS
  <1>7. w = InLine \cup {lastId + 1} /\ queue \ InLine = Longer \ w
    <2>1. starts[lastId + 1] = 0
      BY <1>2 DEF OrderlyInv, UnusedOK, TypeInv, TypeOK
    <2> QED
      BY <1>2, <1>6, <2>1 DEF InLine, Longer
  <1>8. \A i \in Longer : d[i] = Joined(r)[i].dst
    BY <1>2, <1>4
  <1>9. Service!StartSome(w, d)
    BY <1>1, <1>2, <1>6, <1>7, <1>8, ScanStartsSome
  <1>10. r.dst \in Folder
    BY DEF CopyRequest, AnyRequest
  <1> QED
    BY <1>1, <1>3, <1>5, <1>7, <1>9, <1>10
       DEF Service!Submit, Service!Id, Dest, ClientMayCall

LEMMA ClearFinishes ==
    ASSUME Orderly, TypeInv, OrderlyInv, ClearFound
    PROVE  Service!Finish
  <1>1. PICK id \in queue : /\ IsFound(id, Top.src, Top.dst) /\ Over(id, Top)
                            /\ ClearRequest(queue, request, id, Verdict(Top.ok), batches)
    BY DEF ClearFound
  <1>2. Exhausted(request[id])
    BY <1>1, ClearsReported DEF ClearFound
  <1>3. /\ queue' = queue \ {id} /\ UNCHANGED <<lastId, starts>>
        /\ request' = [request EXCEPT ![id] = Blank]
        /\ stopped' = [stopped EXCEPT ![id] = Verdict(Top.ok)]
    BY <1>1 DEF ClearRequest, ClearFound, history
  <1>4. starts[id] # 0
    BY <1>2 DEF OrderlyInv, StartsOK
  <1>5. /\ id \in queue \ InLine /\ InLine' = InLine
        /\ (queue \ InLine)' = (queue \ InLine) \ {id}
    BY <1>3, <1>4 DEF InLine
  <1>6. request \in [Id -> CopyRequest \cup {Blank}]
    BY DEF TypeInv, TypeOK
  <1>7. Dest(request)' = [Dest(request) EXCEPT ![id] = NoFolder]
    BY <1>3, <1>6 DEF Dest, Blank
  <1>8. PICK ok \in {"ok", "failed"} : ok = Verdict(Top.ok)
    BY DEF Verdict
  <1> QED
    BY <1>3, <1>5, <1>7, <1>8 DEF Service!Finish, Service!Id, Dest

LEMMA ScanStarts ==
    ASSUME Orderly, TypeInv, OrderlyInv, NothingOver
    PROVE  Service!Start \/ UNCHANGED Service!vars
  <1>1. /\ StartsFirst(queue, request) /\ queue' = queue
        /\ lastId' = lastId /\ stopped' = stopped
        /\ \A i \in queue : Keeps(request[i], request'[i])
        /\ \A i \in Id \ queue : request'[i] = request[i]
    BY NothingOverOrderly
  <1>2. queue \in SUBSET Id /\ StartsOK(queue, request, starts)
    BY BoundAssumption DEF TypeInv, TypeOK, Id, OrderlyInv
  <1>3. Dest(request)' = Dest(request)
    BY <1>1 DEF Dest, Keeps
  <1>4. PICK w : w = InLine
    OBVIOUS
  <1>5. PICK d : d = Dest(request)
    OBVIOUS
  <1>6. /\ \A i \in queue : d[i] = request[i].dst
        /\ w = {i \in queue : starts[i] = 0} /\ queue \ InLine = queue \ w
    BY <1>2, <1>4, <1>5 DEF Dest, InLine
  <1>7. Service!StartSome(w, d)
    BY <1>1, <1>2, <1>6, ScanStartsSome
  <1>8. CASE InLine' = w /\ (queue \ InLine)' = queue \ InLine
    BY <1>1, <1>3, <1>4, <1>8 DEF Service!vars, Service!Id, Dest
  <1>9. CASE \E id \in w : /\ Service!MayStart(w, d, id)
                           /\ InLine' = w \ {id}
                           /\ (queue \ InLine)' = (queue \ InLine) \cup {id}
    BY <1>1, <1>3, <1>4, <1>5, <1>9 DEF Service!Start, Dest
  <1> QED
    BY <1>7, <1>8, <1>9 DEF Service!StartSome

LEMMA StepInLines ==
    ASSUME Orderly, TypeInv, OrderlyInv, [Next]_vars
    PROVE  [Service!Next]_Service!vars
  <1>1. CASE CopyMessages \/ CopyFolders \/ CopyFileMessage
    <2>1. PICK r \in CopyRequest : \E open :
             /\ WellMade(r) /\ ~Exhausted(r) /\ Fresh(r.src, r.dst)
             /\ ClientMayCall /\ DoCopy(r, open)
      BY <1>1, CallsAreOrderly
    <2>2. Service!Submit(r.dst) /\ r.dst \in Folder
      BY <2>1, DoCopySubmits
    <2> QED
      BY <2>2 DEF Service!Next
  <1>2. CASE CopyNoMessages
    <2>1. /\ lastId < MaxRequests /\ lastId' = lastId + 1 /\ UNCHANGED <<queue, request>>
          /\ starts' = [starts EXCEPT ![lastId + 1] = 1]
          /\ stopped' = [stopped EXCEPT ![lastId + 1] = "ok"]
      BY <1>2 DEF CopyNoMessages, ClientMayCall
    <2>2. \A i \in queue : i \in Id /\ i # lastId + 1
      BY BoundAssumption DEF TypeInv, TypeOK, Id
    <2>3. \A i \in queue : starts'[i] = starts[i]
      BY <2>1, <2>2 DEF TypeInv, TypeOK
    <2>4. InLine' = InLine /\ (queue \ InLine)' = queue \ InLine
      BY <2>1, <2>3 DEF InLine
    <2> QED
      BY <2>1, <2>4 DEF Service!Next, Service!SubmitNothing
  <1>3. CASE AbortSend
    BY <1>3 DEF AbortSend, Orderly
  <1>4. CASE CopyEnds \/ ListenerReturns \/ UNCHANGED vars
    <2>1. UNCHANGED <<lastId, queue, request, starts, stopped>>
      BY <1>4 DEF CopyEnds, NotifyCompletion, ListenerReturns, history, vars
    <2> QED
      BY <2>1 DEF Service!vars, InLine
  <1>5. CASE ClearFound
    BY <1>5, ClearFinishes DEF Service!Next
  <1>6. CASE NothingOver
    BY <1>6, ScanStarts DEF Service!Next
  <1> QED
    BY <1>1, <1>2, <1>3, <1>4, <1>5, <1>6 DEF Next, ClientCalls, ServiceSteps

(* With orderly clients the service is a line per destination: a request   *)
(* joins the line of its folder, is started when it is the head of that    *)
(* line and nothing of the line is being copied, and is answered once.     *)
THEOREM ImplementsLines ==
    ASSUME Orderly
    PROVE  Spec => LinesSafe
  <1>1. Init => Service!Init
    BY DEF Init, Service!Init, Service!Id, InLine, Id, Blank
  <1>2. TypeInv /\ OrderlyInv /\ [Next]_vars => [Service!Next]_Service!vars
    BY StepInLines
  <1> QED
    BY <1>1, <1>2, OrderlyInvariant, PTL DEF Spec, LinesSafe
=============================================================================
