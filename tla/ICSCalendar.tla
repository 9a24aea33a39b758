---------------------------- MODULE ICSCalendar ----------------------------
(***************************************************************************)
(* A calendar kept in one remote file,                                     *)
(* calendar/providers/ics/calICSCalendar.js, with its http hooks.          *)
(*                                                                         *)
(* The items of the file are kept in a memory calendar.  Calls of the      *)
(* application go through a queue; modifications are applied to the memory *)
(* calendar and the whole file is uploaded, after a backup of the remote   *)
(* one.  The calendar is locked while it downloads or uploads.  An upload  *)
(* carries the ETag of the file that was loaded, so that the server can    *)
(* refuse it when another client has changed the file.                     *)
(*                                                                         *)
(* A modification is named by the number of the call, and is either in a   *)
(* version of the file or not.  Listeners called by the calendar may call  *)
(* it back while it is locked, which only adds to the queue; calls from a  *)
(* listener of processQueue itself are not modelled.                       *)
(***************************************************************************)
EXTENDS Integers, Sequences, FiniteSets

CONSTANTS
    MaxCalls,    \* bound: the number of calls of the application
    Edit,        \* changes that other clients make to the remote file
    NoTag,       \* no ETag is known
    BadEdit,     \* those that leave a file that cannot be read
    ServerTags   \* the servers considered, of AllServerTags

(* "put": ETags are sent with downloads and uploads.                       *)
(* "get": they are not sent in the response to an upload.                  *)
(* "none": the server has no ETags.                                        *)
AllServerTags == {"put", "get", "none"}

ASSUME CalendarAssumption ==
    /\ MaxCalls \in Nat \ {0}
    /\ NoTag \notin Nat
    /\ Edit \cap Int = {} /\ BadEdit \subseteq Edit
    /\ ServerTags \subseteq AllServerTags

VARIABLES
    lastCall,   \* the number of the latest call
    queue,      \* the queue of actions
    memory,     \* the changes that mMemoryCalendar has
    acting,     \* mModificationActions
    locked,     \* locked
    request,    \* the network request under way
    etag,       \* mHooks.mEtag
    readOnly,   \* the property of that name
    server,     \* which ETags the server sends
    remote,     \* the remote file
    edits,      \* history: the changes made by other clients
    changes,    \* history: the modifications that were put in the queue
    published,  \* history: the modifications that were in the remote file
    answer      \* history: what onOperationComplete said to each call

vars == <<lastCall, queue, memory, acting, locked, request, etag, readOnly,
          server, remote, edits, changes, published, answer>>

Call == 1 .. MaxCalls
Item == Call \cup Edit
Tag == Nat \cup {NoTag}
Answer == {"none", "ok", "failed"}

Action(what, c, force) == [action |-> what, id |-> c, force |-> force]
ForcedRefresh == Action("refresh", 0, TRUE)
-----------------------------------------------------------------------------
(* The requests.  `tag' is the If header of an upload; `state' is how far  *)
(* it has got: sent, done by the server or refused; lost if its answer is  *)
(* one that nobody handles.                                                *)
Request(op, force, items, tag, state) ==
    [op |-> op, force |-> force, items |-> items, tag |-> tag, state |-> state]

NoRequest   == Request("none", FALSE, {}, NoTag, "done")
Backup      == Request("backup", FALSE, {}, NoTag, "sent")
Get(force)  == Request("get", force, {}, NoTag, "sent")
FetchEtag   == Request("etag", FALSE, {}, NoTag, "sent")
Put(items)  == Request("put", FALSE, items, etag, "sent")

(* The loop of processQueue stops at the first refresh, if there is one. *)
StopsAt(q, n) ==
    /\ n <= Len(q) => q[n].action = "refresh"
    /\ \A i \in 1 .. n - 1 : q[i].action # "refresh"

IdsOfAll(q, n, what) == {q[i].id : i \in 1 .. n - 1}
                                      \* mutant: a case falls through
Ids(q, n, what) == {q[i].id : i \in {j \in 1 .. n - 1 : q[j].action = what}}

WriteUnlessRefresh(mods, q, n) == mods # {} /\ n > Len(q)
                                      \* mutant: a refresh is not put back
MustWrite(mods, q, n) == mods # {}

KeepActions(done, mods) == done \cup mods
                                      \* mutant: mModificationActions is not emptied
ModificationActions(done, mods) == mods

(* processQueue of an unlocked calendar: modifications are applied and     *)
(* reads are answered up to the first refresh; then a file with            *)
(* modifications is written, and the refresh is put back, or it is done.   *)
ProcessQueue(q, items, answers) ==
    \E n \in 1 .. Len(q) + 1 :
      LET mods == Ids(q, n, "change")
          gets == Ids(q, n, "get")
      IN /\ StopsAt(q, n)
         /\ memory' = items \cup mods
         /\ acting' = ModificationActions(acting, mods)
         /\ answer' = [c \in Call |-> IF c \in gets THEN "ok" ELSE answers[c]]
         /\ \/ /\ MustWrite(mods, q, n)
               /\ request' = Backup /\ locked' = TRUE
               /\ queue' = SubSeq(q, n, Len(q))
            \/ /\ ~MustWrite(mods, q, n) /\ n <= Len(q)
               /\ request' = Get(q[n].force) /\ locked' = TRUE
               /\ queue' = SubSeq(q, n + 1, Len(q))
            \/ /\ ~MustWrite(mods, q, n) /\ n > Len(q)
               /\ request' = NoRequest /\ locked' = FALSE
               /\ queue' = <<>>

(* unlock: the callers of the modifications are answered, and the queue is *)
(* processed.  An error code makes failures of them.                       *)
AnswerOk(ok, c) == "ok"               \* mutant: the error code is not looked at
AnswerTo(ok, c) == IF ok THEN "ok" ELSE "failed"

Unlock(ok, q, items) ==
    ProcessQueue(q, items,
                 [c \in Call |-> IF c \in acting THEN AnswerTo(ok, c) ELSE answer[c]])
-----------------------------------------------------------------------------
(* The application's calls.  A modification of a calendar that is read     *)
(* only is an exception; what is in the queue already is not looked at.    *)
Enqueue(entry) ==
    IF locked
    THEN /\ queue' = Append(queue, entry)
         /\ UNCHANGED <<memory, acting, locked, request, answer>>
    ELSE ProcessQueue(Append(queue, entry), memory, answer)

CallCalendar ==
    /\ lastCall < MaxCalls
    /\ lastCall' = lastCall + 1
    /\ \E what \in {"change", "get", "refresh"}, force \in BOOLEAN :
         /\ what = "change" => ~readOnly
         /\ force => what = "refresh"
         /\ changes' = IF what = "change" THEN changes \cup {lastCall'} ELSE changes
         /\ Enqueue(Action(what, lastCall', force))
    /\ UNCHANGED <<etag, readOnly, server, remote, edits, published>>

(* The user makes the calendar writable again, in its properties. *)
MakeWritable ==
    /\ readOnly
    /\ readOnly' = FALSE
    /\ UNCHANGED <<lastCall, queue, memory, acting, locked, request, etag,
                   server, remote, edits, changes, published, answer>>
-----------------------------------------------------------------------------
(* The server.  It does what the If header of an upload asks for.          *)
TagOf(version) == IF server = "none" THEN NoTag ELSE version

IgnoreTag(tag) == TRUE                \* mutant: uploads carry no If header
TagMatches(tag) == tag \in {NoTag, remote.version}

PutArrives ==
    /\ request.op = "put" /\ request.state = "sent"
    /\ IF TagMatches(request.tag)
       THEN /\ remote' = [items |-> request.items, version |-> remote.version + 1,
                          readable |-> TRUE]
            /\ published' = published \cup (request.items \cap Call)
            /\ request' = [request EXCEPT !.state = "done", !.tag = remote.version + 1]
       ELSE /\ request' = [request EXCEPT !.state = "refused"]
            /\ UNCHANGED <<remote, published>>
    /\ UNCHANGED <<lastCall, queue, memory, acting, locked, etag, readOnly, server,
                   edits, changes, answer>>

(* Another client changes the file that it finds there. *)
OtherClient ==
    /\ \E e \in Edit \ edits :
         /\ edits' = edits \cup {e}
         /\ remote' = [items |-> remote.items \cup {e}, version |-> remote.version + 1,
                       readable |-> e \notin BadEdit]
    /\ UNCHANGED <<lastCall, queue, memory, acting, locked, request, etag, readOnly,
                   server, changes, published, answer>>
-----------------------------------------------------------------------------
(* The ends of the requests.                                               *)

(* Downloading the file for the backup may fail, which changes nothing;    *)
(* doWriteICS then uploads what the memory calendar has.                   *)
BackupEnds ==
    /\ request.op = "backup"
    /\ request' = Put(memory)
    /\ UNCHANGED <<lastCall, queue, memory, acting, locked, etag, readOnly, server,
                   remote, edits, changes, published, answer>>

(* The upload cannot be started, is refused, or is not known to be done.   *)
(* The calendar becomes read only and is going to be refreshed.            *)
WriteFails ==
    /\ request.op \in {"backup", "put"}
    /\ readOnly' = TRUE
    /\ Unlock(FALSE, Append(queue, ForcedRefresh), memory)
    /\ UNCHANGED <<lastCall, etag, server, remote, edits, changes, published>>

(* onAfterPut takes the ETag of the response, or has to ask for it.        *)
PutSucceeds ==
    /\ request.op = "put" /\ request.state = "done"
    /\ \/ /\ server = "put"
          /\ etag' = request.tag
          /\ Unlock(TRUE, queue, memory)
       \/ /\ server # "put"
          /\ request' = FetchEtag
          /\ UNCHANGED <<queue, memory, acting, locked, etag, answer>>
    /\ UNCHANGED <<lastCall, readOnly, server, remote, edits, changes, published>>

(* PROPFIND is answered.  The ETag is looked for under a propfind element, *)
(* where the answer has a multistatus: none is ever found.                 *)
EtagArrives ==
    /\ request.op = "etag" /\ request.state = "sent"
    /\ etag' = NoTag
    /\ Unlock(TRUE, queue, memory)
    /\ UNCHANGED <<lastCall, readOnly, server, remote, edits, changes, published>>

(* The answer is not UTF-8: that is caught, and the search throws then.    *)
EtagLost ==
    /\ request.op = "etag" /\ request.state = "sent"
    /\ request' = [request EXCEPT !.state = "lost"]
    /\ UNCHANGED <<lastCall, queue, memory, acting, locked, etag, readOnly, server,
                   remote, edits, changes, published, answer>>

(* onStreamComplete: the download failed, or there is nothing new. *)
NothingToLoadStays ==                 \* mutant: return without unlock
    /\ request.op = "get"
    /\ request' = NoRequest
    /\ UNCHANGED <<lastCall, queue, memory, acting, locked, etag, readOnly, server,
                   remote, edits, changes, published, answer>>

NothingToLoad ==
    /\ request.op = "get"
    /\ Unlock(TRUE, queue, memory)
    /\ UNCHANGED <<lastCall, etag, readOnly, server, remote, edits, changes, published>>

NotModified == ~request.force /\ etag # NoTag /\ etag = remote.version

FileLoaded ==
    /\ request.op = "get" /\ ~NotModified /\ remote.readable
    /\ etag' = TagOf(remote.version)
    /\ Unlock(TRUE, queue, remote.items)
    /\ UNCHANGED <<lastCall, readOnly, server, remote, edits, changes, published>>

(* The file is not UTF-8, and the old items are kept; or one of its items  *)
(* is refused by the memory calendar, which has those before it; or it is  *)
(* not parsed, which onParsingComplete does not look at.                   *)
FileUnreadable ==
    /\ request.op = "get" /\ ~NotModified /\ ~remote.readable
    /\ etag' = TagOf(remote.version)
    /\ \/ /\ readOnly' = TRUE
          /\ \E items \in {memory} \cup SUBSET remote.items : Unlock(TRUE, queue, items)
       \/ UNCHANGED readOnly /\ Unlock(TRUE, queue, {})
    /\ UNCHANGED <<lastCall, server, remote, edits, changes, published>>
-----------------------------------------------------------------------------
(* The calendar has been loaded when it was registered. *)
Init ==
    /\ lastCall = 0
    /\ queue = <<>>
    /\ memory = {}
    /\ acting = {}
    /\ locked = FALSE
    /\ request = NoRequest
    /\ server \in ServerTags
    /\ remote = [items |-> {}, version |-> 0, readable |-> TRUE]
    /\ etag = IF server = "none" THEN NoTag ELSE 0
    /\ readOnly = FALSE
    /\ edits = {} /\ changes = {}
    /\ published = {}
    /\ answer = [c \in Call |-> "none"]

RequestEnds == BackupEnds \/ WriteFails \/ PutSucceeds \/ EtagArrives \/ EtagLost
               \/ NothingToLoad \/ FileLoaded \/ FileUnreadable

Next == CallCalendar \/ MakeWritable \/ PutArrives \/ OtherClient \/ RequestEnds

Spec == Init /\ [][Next]_vars

(* Requests end, one way or another: the network has its timeouts. *)
FairSpec == Spec /\ WF_vars(RequestEnds)
-----------------------------------------------------------------------------
(* Every variable has its type: what is taken for a modification is one. *)
Entry == [action : {"change", "get", "refresh"}, id : 0 .. MaxCalls, force : BOOLEAN]

TypeOK ==
    /\ lastCall \in 0 .. MaxCalls
    /\ queue \in Seq(Entry)
    /\ \A i \in 1 .. Len(queue) : queue[i].action = "change" => queue[i].id \in changes
    /\ memory \subseteq changes \cup edits
    /\ acting \subseteq changes
    /\ locked \in BOOLEAN
    /\ request \in [op : {"none", "get", "backup", "put", "etag"}, force : BOOLEAN,
                    items : SUBSET (changes \cup edits), tag : Tag,
                    state : {"sent", "done", "refused", "lost"}]
    /\ etag \in Tag
    /\ readOnly \in BOOLEAN
    /\ server \in AllServerTags
    /\ remote \in [items : SUBSET (changes \cup edits), version : Nat, readable : BOOLEAN]
    /\ edits \subseteq Edit
    /\ changes \subseteq 1 .. lastCall
    /\ published \subseteq changes
    /\ answer \in [Call -> Answer]

(* The calendar is locked exactly while a request is under way, whose end  *)
(* unlocks it; an unlocked one has nothing in its queue, and its callers   *)
(* have been answered.                                                     *)
NeverStuck ==
    /\ locked <=> request.op # "none"
    /\ ~locked => queue = <<>> /\ acting = {}

(* The changes of other clients are not overwritten, with a server that    *)
(* sends ETags and files that can be read: that is what the hooks are for. *)
NothingOverwritten ==
    server = "put" /\ edits \cap BadEdit = {} => edits \subseteq remote.items

(* A caller is told that its modification succeeded only when it has been  *)
(* in the remote file.                                                     *)
SuccessIsPublished ==
    \A c \in changes : answer[c] = "ok" => c \in published

(* A read sees the earlier modifications whose callers have not been told  *)
(* that they failed, whatever refreshes and uploads came between, as long  *)
(* as the files could be read.                                             *)
ReadsItsWrites ==
    [][edits \cap BadEdit = {} =>
        \A g \in Call \ changes, c \in changes :
            c < g /\ answer[g] = "none" /\ answer'[g] = "ok" /\ answer'[c] # "failed"
              => c \in memory']_vars

(* A calendar at rest whose server has ETags knows the one of the file it  *)
(* has loaded or written, so that its next upload can be refused.          *)
EtagKnown == ~locked /\ server # "none" => etag # NoTag

(* A file that could not be read is not overwritten by the calendar. *)
InvalidFileKept ==
    [][~remote.readable /\ remote' # remote => edits' # edits]_vars

(* Modifications and reads are answered in the end, unless the answer to a *)
(* PROPFIND was lost, after which the calendar stays locked.               *)
Waiting == acting \cup Ids(queue, Len(queue) + 1, "change")
                  \cup Ids(queue, Len(queue) + 1, "get")

EventuallyAnswered ==
    \A c \in Call : c \in Waiting ~> (answer[c] # "none" \/ request.state = "lost")
=============================================================================
