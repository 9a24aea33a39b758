--------------------------- MODULE MsgCopyService ---------------------------
(***************************************************************************)
(* The mail copy service, mailnews/base/src/nsMsgCopyService.cpp.          *)
(*                                                                         *)
(* Clients ask the service to copy messages, folders or a message file     *)
(* into a destination folder.  The service keeps the requests in one array *)
(* in order of arrival, hands the sources of a request to its destination  *)
(* folder, and is told by that folder, through NotifyCompletion, that a    *)
(* copy is over.  A request that is over is taken off the array and its    *)
(* listener is called (OnStopCopy); a listener may ask for another copy    *)
(* before it returns, and may spin the event loop (a modal alert), so that *)
(* calls of NotifyCompletion nest: `stack' holds the calls in progress.    *)
(*                                                                         *)
(* A request is named by its number in order of arrival, so that the array *)
(* m_copyRequests is the set `queue' of numbers read in ascending order.   *)
(* OnStartCopy is taken not to call back into the service, and a request   *)
(* without a listener is one whose listener returns at once.               *)
(***************************************************************************)
EXTENDS Integers, Sequences, FiniteSets

CONSTANTS
    Folder,        \* the mail folders
    NoFolder,      \* the null folder: the parent of a root folder
    Parent,        \* Parent[f]: the folder that f is a subfolder of
    Leaf,          \* Leaf[f]: the name of f (nsIMsgFolder::GetName)
    NoName,        \* the empty string, m_dstFolderName of a message request
    File,          \* the nsIFile objects that CopyFileMessage is called with
    Kinds,         \* the calls the clients make, of AllKinds
    MaxRequests,   \* bound: the number of requests
    MaxSources,    \* bound: the number of source folders of one request
    SamePair,      \* may a queued pair of source and destination be queued again?
    NestedLoop,    \* may a copy complete while a listener is being called: the
                   \* listener spins the event loop, or asks for a copy that
                   \* its destination does at once
    FolderEnds,    \* the ways a folder copy ends, of AllFolderEnds
    Aborts         \* may a compose window abort its message while it is copied?

AllKinds == {"msgs", "folder", "file"}

(* "named":   the new subfolder is reported, with the name of the source    *)
(* "renamed": it had to get another name (CopyFolderLocal, for a move)      *)
(* "empty":   an empty folder of another server (CopyFolderAcrossServer)    *)
(*            is reported with the new subfolder in place of the source     *)
(* "refused": CopyFolder returns an error and reports nothing               *)
AllFolderEnds == {"named", "renamed", "empty", "refused"}

ASSUME FolderAssumption ==
    /\ NoFolder \notin Folder
    /\ Parent \in [Folder -> Folder \cup {NoFolder}]
    /\ \A f \in Folder : Leaf[f] # NoName
    /\ File \cap (Folder \cup {NoFolder}) = {}

ASSUME BoundAssumption ==
    /\ Kinds \subseteq AllKinds
    /\ FolderEnds \subseteq AllFolderEnds
    /\ MaxRequests \in Nat \ {0}
    /\ MaxSources \in Nat \ {0}

ASSUME ModeAssumption ==
    SamePair \in BOOLEAN /\ NestedLoop \in BOOLEAN /\ Aborts \in BOOLEAN

VARIABLES
    lastId,    \* the number of the latest request
    queue,     \* the numbers of the requests in m_copyRequests
    request,   \* the nsCopyRequest of each number
    ops,       \* the copies the destination folders have been told to do
    stack,     \* the calls of NotifyCompletion in progress, outermost first
    batches,   \* undo batches open in the transaction manager
    starts,    \* history: calls of OnStartCopy per request
    stopped,   \* history: what OnStopCopy said per request
    outcome    \* history: how the latest copy of each request ended

vars == <<lastId, queue, request, ops, stack, batches, starts, stopped, outcome>>
history == <<starts, stopped, outcome>>

Id == 1 .. MaxRequests
Answer == {"none", "ok", "failed"}
Verdict(ok) == IF ok THEN "ok" ELSE "failed"
-----------------------------------------------------------------------------
(* nsCopyRequest and its nsCopySources.  todo holds the indices of the     *)
(* sources whose m_processed is still false.                               *)

SourceLists ==
    { s \in UNION {[1 .. n -> Folder] : n \in 1 .. MaxSources} :
        \A i, j \in DOMAIN s : s[i] = s[j] => i = j }

AnyRequest ==
    [ type      : AllKinds,
      src       : Folder \cup File,
      dst       : Folder,
      sources   : SourceLists \cup {<<>>, <<NoFolder>>},
      todo      : SUBSET (1 .. MaxSources),
      processed : BOOLEAN,
      undo      : BOOLEAN ]

(* Folders are copied from folders, files have at most the source that     *)
(* stands for the message they replace.                                    *)
CopyRequest ==
    { r \in AnyRequest :
        IF r.type = "file"
        THEN r.src \in File /\ r.sources \in {<<>>, <<NoFolder>>}
        ELSE r.src \in Folder /\ r.sources \in SourceLists
             /\ r.todo \subseteq DOMAIN r.sources }

Blank == [ type |-> "none", src |-> NoFolder, dst |-> NoFolder, sources |-> <<>>,
           todo |-> {}, processed |-> FALSE, undo |-> FALSE ]

(* AddNewCopySource: a source that is the destination counts as processed. *)
UnprocessedSources(sources, dst) == {i \in DOMAIN sources : sources[i] # dst}

MakeRequest(type, src, dst, sources, undo) ==
    [ type |-> type, src |-> src, dst |-> dst, sources |-> sources,
      todo |-> UnprocessedSources(sources, dst), processed |-> FALSE,
      undo |-> undo ]

DstName(r) == IF r.type = "folder" THEN Leaf[r.src] ELSE NoName

(* An undo batch spans a request with several sources. *)
Batched(r) == r.undo /\ Len(r.sources) > 1

AllSourcesProcessed(r) == r.todo = {}
-----------------------------------------------------------------------------
(* DoNextCopy: the scan of the array and the start of one source.          *)

(* What the scan takes as processed: m_processed, or every source of a     *)
(* request that has sources.                                               *)
Exhausted(r) == r.processed \/ (r.sources # <<>> /\ AllSourcesProcessed(r))

(* The destination is in activeTargets when the scan gets to id. *)
BlockedNever(q, req, id) == FALSE   \* mutant: no activeTargets
Blocked(q, req, id) ==
    \E i \in q : i < id /\ Exhausted(req[i]) /\ req[i].dst = req[id].dst

Eligible(q, req) ==
    {id \in q : ~Exhausted(req[id]) /\ ~Blocked(q, req, id)}

(* The scan sets m_processed of the requests it finds exhausted. *)
MarkProcessed(q, req, scanned) ==
    [id \in Id |->
        IF id \in scanned /\ Exhausted(req[id]) /\ ~Blocked(q, req, id)
        THEN [req[id] EXCEPT !.processed = TRUE]
        ELSE req[id]]

IsFirst(x, S) == x \in S /\ \A y \in S : x <= y

(* The request once its next source (the only one of a file) is started. *)
StartSource(r, j) ==
    [r EXCEPT !.todo = @ \ {j}, !.processed = @ \/ r.type = "file"]

NextSource(r) ==
    IF r.sources = <<>> THEN {0} ELSE {j \in r.todo : IsFirst(j, r.todo)}

(* ClearRequest up to the call of OnStopCopy. *)
CloseNoBatch(r, n) == n             \* mutant: EndBatch is forgotten
CloseBatch(r, n) == IF Batched(r) THEN n - 1 ELSE n

ClearButKeep(q, req, id, answer, open) ==   \* mutant: not removed from the array
    /\ queue' = q
    /\ request' = req
    /\ batches' = CloseBatch(req[id], open)
    /\ stopped' = [stopped EXCEPT ![id] = answer]

ClearRequest(q, req, id, answer, open) ==
    /\ queue' = q \ {id}
    /\ request' = [req EXCEPT ![id] = Blank]
    /\ batches' = CloseBatch(req[id], open)
    /\ stopped' = [stopped EXCEPT ![id] = answer]

(* A call in progress, orig being its numOrigRequests. *)
Call(src, dst, ok, orig, at) ==
    [src |-> src, dst |-> dst, ok |-> ok, orig |-> orig, at |-> at]

(* The call of a listener that DoNextCopy makes, through ClearRequest:     *)
(* when the listener returns there is nothing left to do.                  *)
FailedStart == Call(NoFolder, NoFolder, FALSE, 0, "failed start")

AnyEligible(q, req, id) == id \in Eligible(q, req)   \* mutant: not FIFO
FirstEligible(q, req, id) == IsFirst(id, Eligible(q, req))

(* What the destination folder is handed: the file, or the source folder. *)
Copy(id, r, j) ==
    [ req |-> id, type |-> r.type, dst |-> r.dst,
      src |-> IF r.type = "file" THEN r.src ELSE r.sources[j] ]

(* The requests once the scan has found id and started its source j. *)
Started(q, req, id, j) ==
    [MarkProcessed(q, req, {i \in q : i < id}) EXCEPT ![id] = StartSource(req[id], j)]

NothingToStart(q, req, calls, open) ==
    /\ Eligible(q, req) = {}
    /\ request' = MarkProcessed(q, req, q)
    /\ queue' = q /\ stack' = calls /\ batches' = open
    /\ UNCHANGED <<ops, starts, stopped>>

StartCopy(q, req, calls, open, id, j) ==
    /\ ops' = ops \cup {Copy(id, req[id], j)}
    /\ request' = Started(q, req, id, j)
    /\ queue' = q /\ stack' = calls /\ batches' = open
    /\ UNCHANGED stopped

(* CopyFolder fails at once and does not notify. *)
RefuseCopy(q, req, calls, open, id, j) ==
    /\ req[id].type = "folder" /\ "refused" \in FolderEnds
    /\ ClearRequest(q, Started(q, req, id, j), id, "failed", open)
    /\ stack' = Append(calls, FailedStart)
    /\ UNCHANGED ops

DoNextCopy(q, req, calls, open) ==
    \/ NothingToStart(q, req, calls, open)
    \/ \E id \in q : \E j \in NextSource(req[id]) :
         /\ FirstEligible(q, req, id)
         /\ starts' = [starts EXCEPT ![id] = @ + 1]
         /\ \/ StartCopy(q, req, calls, open, id, j)
            \/ RefuseCopy(q, req, calls, open, id, j)
-----------------------------------------------------------------------------
(* The clients' calls.  They come from the event loop or from a listener   *)
(* that is being called.                                                   *)

Top == stack[Len(stack)]
CallersOf(s) == SubSeq(s, 1, Len(s) - 1)

InListener == stack # <<>> /\ Top.at \in {"listener", "failed start"}
ClientMayCall == (stack = <<>> \/ InListener) /\ lastId < MaxRequests

(* The pair is none that the report of a queued copy can be taken for:     *)
(* messages into a folder, or a folder into the parent of that folder.     *)
Fresh(src, dst) ==
    SamePair \/ \A i \in queue :
                    request[i].src = src =>
                        /\ request[i].dst \notin {dst, Parent[dst]}
                        /\ Parent[request[i].dst] # dst

(* QueueRequest: does r have to wait for a request already in the array?   *)
MustWait(r) ==
    \E i \in queue : /\ request[i].dst = r.dst
                     /\ r.type = "folder" => DstName(request[i]) = DstName(r)

DoCopy(r, open) ==
    LET id  == lastId + 1
        req == [request EXCEPT ![id] = r]
    IN /\ lastId' = id
       /\ UNCHANGED outcome
       /\ IF MustWait(r)
          THEN /\ request' = req
               /\ queue' = queue \cup {id}
               /\ batches' = open
               /\ UNCHANGED <<ops, stack, starts, stopped>>
          ELSE DoNextCopy(queue \cup {id}, req, stack, open)

(* CopyMessages groups the headers by their folders; srcFolder is the      *)
(* folder of one of them.                                                  *)
CopyMessages ==
    /\ "msgs" \in Kinds /\ ClientMayCall
    /\ \E sources \in SourceLists, dst \in Folder, undo \in BOOLEAN :
       \E i \in DOMAIN sources :
         LET r == MakeRequest("msgs", sources[i], dst, sources, undo)
         IN /\ sources[i] # dst
            /\ undo => Len(sources) > 1
            /\ Fresh(sources[i], dst)
            /\ DoCopy(r, IF Batched(r) THEN batches + 1 ELSE batches)

(* CopyMessages of an empty array answers the listener at once. *)
CopyNoMessages ==
    /\ "msgs" \in Kinds /\ ClientMayCall
    /\ lastId' = lastId + 1
    /\ starts' = [starts EXCEPT ![lastId + 1] = 1]
    /\ stopped' = [stopped EXCEPT ![lastId + 1] = "ok"]
    /\ outcome' = [outcome EXCEPT ![lastId + 1] = "ok"]
    /\ UNCHANGED <<queue, request, ops, stack, batches>>

(* CopyFolders copies its first folder; the callers do not drop a folder   *)
(* on itself or on its parent.  Folder has a member for the copy to become.*)
CopyFolders ==
    /\ "folder" \in Kinds /\ ClientMayCall
    /\ \E src, dst \in Folder :
         /\ src # dst /\ Parent[src] # dst
         /\ \E f \in Folder : Parent[f] = dst /\ Leaf[f] = Leaf[src]
         /\ Fresh(src, dst)
         /\ DoCopy(MakeRequest("folder", src, dst, <<src>>, FALSE), batches)

(* CopyFileMessage: with a message to replace there is one source, of no   *)
(* folder; without, there is none.                                         *)
CopyFileMessage ==
    /\ "file" \in Kinds /\ ClientMayCall
    /\ \E file \in File, dst \in Folder, sources \in {<<>>, <<NoFolder>>} :
         /\ Fresh(file, dst)
         /\ DoCopy(MakeRequest("file", file, dst, sources, FALSE), batches)
-----------------------------------------------------------------------------
(* The destination folders.                                                *)

(* The pairs with which a destination may report the end of the copy o. *)
Reports(o) ==
    LET new(named) == {f \in Folder : /\ Parent[f] = o.dst /\ f # o.src
                                      /\ (Leaf[f] = Leaf[o.src]) = named}
        If(end, pairs) == IF end \in FolderEnds THEN pairs ELSE {}
    IN IF o.type = "folder"
       THEN If("named",   {<<o.src, f>> : f \in new(TRUE)})  \cup
            If("renamed", {<<o.src, f>> : f \in new(FALSE)}) \cup
            If("empty",   {<<f, f>> : f \in new(TRUE)})
       ELSE {<<o.src, o.dst>>}

(* NotifyCompletion for the request id, up to the loop. *)
NotifyCompletion(id, src, dst, ok) ==
    /\ outcome' = [outcome EXCEPT ![id] = Verdict(ok)]
    /\ stack' = Append(stack, Call(src, dst, ok, Cardinality(queue), "find"))
    /\ UNCHANGED <<lastId, queue, request, batches, starts, stopped>>

CopyEnds ==
    /\ stack = <<>> \/ (NestedLoop /\ InListener)
    /\ \E o \in ops, ok \in BOOLEAN : \E report \in Reports(o) :
         /\ NotifyCompletion(o.req, report[1], report[2], ok)
         /\ ops' = ops \ {o}

(* nsMsgComposeAndSend::Abort reports the copy of its file as failed; the  *)
(* destination is not told, and reports the end of the copy all the same.  *)
AbortSend ==
    /\ Aborts
    /\ stack = <<>> \/ InListener
    /\ \E id \in queue :
         /\ request[id].type = "file"
         /\ NotifyCompletion(id, request[id].src, request[id].dst, FALSE)
    /\ UNCHANGED ops

(* FindRequest.  The loop leaves copyRequest set when the last request is  *)
(* a folder copy that differs in nothing but the name.                     *)
SameFolderCopy(r, src, dst) ==
    /\ r.type = "folder" /\ r.src = src
    /\ dst \in Folder /\ Parent[dst] = r.dst

MatchesDestination(r, src, dst) == r.dst = dst   \* mutant: source not compared

Matches(r, src, dst) ==
    IF r.type = "folder"
    THEN SameFolderCopy(r, src, dst) /\ DstName(r) = Leaf[dst]
    ELSE r.src = src /\ r.dst = dst

IsFound(id, src, dst) ==
    LET hits == {i \in queue : Matches(request[i], src, dst)}
    IN \/ IsFirst(id, hits)
       \/ /\ hits = {}
          /\ id \in queue /\ \A i \in queue : i <= id
          /\ SameFolderCopy(request[id], src, dst)

IndexOf(id) == Cardinality({i \in queue : i < id})

(* The request found is over: it was in the array when the call began, and *)
(* its sources are all started or the copy failed.                         *)
OverOfAnyAge(id, frame) ==      \* mutant: numOrigRequests is not looked at
    request[id].processed \/ AllSourcesProcessed(request[id]) \/ ~frame.ok

OverIfMarked(id, frame) ==      \* mutant: the sources are not looked at
    IndexOf(id) < frame.orig /\ (request[id].processed \/ ~frame.ok)

Over(id, frame) ==
    /\ IndexOf(id) < frame.orig
    /\ request[id].processed \/ AllSourcesProcessed(request[id]) \/ ~frame.ok

ClearFound ==
    /\ stack # <<>> /\ Top.at = "find"
    /\ \E id \in queue :
         /\ IsFound(id, Top.src, Top.dst)
         /\ Over(id, Top)
         /\ ClearRequest(queue, request, id, Verdict(Top.ok), batches)
    /\ stack' = [stack EXCEPT ![Len(stack)].at = "listener"]
    /\ UNCHANGED <<lastId, ops, starts, outcome>>

(* The loop ends: nothing is found, or what is found is not over. *)
NothingOver ==
    /\ stack # <<>> /\ Top.at = "find"
    /\ \A id \in queue : IsFound(id, Top.src, Top.dst) => ~Over(id, Top)
    /\ DoNextCopy(queue, request, CallersOf(stack), batches)
    /\ UNCHANGED <<lastId, outcome>>

(* OnStopCopy returns: the loop of NotifyCompletion goes around again. *)
Resumed(frame) == Call(frame.src, frame.dst, frame.ok, frame.orig - 1, "find")

ListenerReturns ==
    /\ InListener
    /\ stack' = IF Top.at = "listener"
                THEN [stack EXCEPT ![Len(stack)] = Resumed(Top)]
                ELSE CallersOf(stack)
    /\ UNCHANGED <<lastId, queue, request, ops, batches, history>>
-----------------------------------------------------------------------------
Init ==
    /\ lastId = 0
    /\ queue = {}
    /\ request = [id \in Id |-> Blank]
    /\ ops = {}
    /\ stack = <<>>
    /\ batches = 0
    /\ starts = [id \in Id |-> 0]
    /\ stopped = [id \in Id |-> "none"]
    /\ outcome = [id \in Id |-> "none"]

ClientCalls == \/ CopyMessages \/ CopyNoMessages \/ CopyFolders \/ CopyFileMessage
               \/ AbortSend

ServiceSteps == CopyEnds \/ ClearFound \/ NothingOver \/ ListenerReturns

Next == ClientCalls \/ ServiceSteps

Spec == Init /\ [][Next]_vars

(* Destinations report in the end, calls and listeners return: the event   *)
(* loop runs.  Nothing makes the clients call.                             *)
FairSpec == Spec /\ WF_vars(ServiceSteps)
-----------------------------------------------------------------------------
(* Every variable has its type. *)
Frame ==
    [ src : Folder \cup File \cup {NoFolder}, dst : Folder \cup {NoFolder},
      ok : BOOLEAN, orig : Nat, at : {"find", "listener", "failed start"} ]

Op == [ req : Id, type : AllKinds, dst : Folder, src : Folder \cup File ]

TypeOK ==
    /\ lastId \in 0 .. MaxRequests
    /\ queue \subseteq 1 .. lastId
    /\ request \in [Id -> CopyRequest \cup {Blank}]
    /\ \A id \in queue : request[id] \in CopyRequest
    /\ ops \subseteq Op
    /\ stack \in Seq(Frame)
    /\ batches \in Int
    /\ starts \in [Id -> Nat]
    /\ stopped \in [Id -> Answer]
    /\ outcome \in [Id -> Answer]

(* A destination folder is never told to copy while it is copying.  The    *)
(* destinations rely on it: nsMsgLocalMailFolder::InitCopyState asserts    *)
(* that no message is being copied into the folder, and on a violation     *)
(* OnCopyCompleted drops the state of the copy that is running.            *)
OneCopyPerDestination ==
    \A o, p \in ops : o # p => o.dst # p.dst

(* When the listener of a request is told that it is over, no copy of the  *)
(* request is still going on (NotifyCompletion clears the right request).  *)
StoppedIsOver == \A o \in ops : stopped[o.req] = "none"

(* What OnStopCopy says of a request is how its own copy ended.  In        *)
(* particular no request is failed that was never started.                 *)
AnswersOwnCopy ==
    \A id \in Id : stopped[id] # "none" => stopped[id] = outcome[id]

(* The service does not strand a request: while no call is in progress     *)
(* and no destination is copying, the array is empty.                      *)
NoStall == stack = <<>> /\ ops = {} => queue = {}

(* The undo batches opened by CopyMessages and not closed by ClearRequest  *)
(* are those of the requests in the array.                                 *)
BatchesClosed == batches = Cardinality({id \in queue : Batched(request[id])})

(* Requests with the same destination are started in order of arrival:     *)
(* nothing is started while an earlier request for its folder is queued.   *)
FifoPerDestination ==
    [][\A o \in ops' \ ops :
          ~\E i \in queue' : i < o.req /\ request'[i].dst = o.dst]_vars

(* A request whose listener has been answered is neither answered nor      *)
(* started again, nor found in the array.                                  *)
StopIsFinal ==
    [][\A id \in Id : stopped[id] # "none" =>
          /\ stopped'[id] = stopped[id] /\ starts'[id] = starts[id]
          /\ id \notin queue']_vars

(* Every request that is queued is answered in the end.                    *)
EventuallyStopped ==
    \A id \in Id : (id \in queue) ~> (stopped[id] # "none")

(* The service, seen from its clients, is a line per destination folder:   *)
(* requests not started are waiting, started ones are active until         *)
(* ClearRequest answers them.                                              *)
InLine == {id \in queue : starts[id] = 0}

Service == INSTANCE MsgCopyLines WITH
    waiting <- InLine,
    active  <- queue \ InLine,
    dest    <- [id \in Id |-> request[id].dst],
    answer  <- stopped

Lines == Service!Spec
=============================================================================
