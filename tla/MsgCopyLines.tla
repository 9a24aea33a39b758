---------------------------- MODULE MsgCopyLines ----------------------------
(***************************************************************************)
(* What a copy service promises its clients: one line per destination      *)
(* folder.  A request joins the line of its folder, the requests of a line *)
(* are served one at a time and in order of arrival, the lines of          *)
(* different folders do not wait for each other, and every request gets    *)
(* one answer, which is that of its own copy.                              *)
(***************************************************************************)
EXTENDS Naturals

CONSTANTS Folder, NoFolder, MaxRequests

Id == 1 .. MaxRequests

VARIABLES
    lastId,   \* the number of the latest request
    waiting,  \* the requests whose copy is not started
    active,   \* the requests being copied, or copied and not yet answered
    dest,     \* the destination of the requests in line
    answer    \* what each request was answered

vars == <<lastId, waiting, active, dest, answer>>

Init ==
    /\ lastId = 0 /\ waiting = {} /\ active = {}
    /\ dest = [id \in Id |-> NoFolder]
    /\ answer = [id \in Id |-> "none"]

(* The head of an idle line. *)
MayStart(w, d, id) ==
    id \in w /\ \A i \in (w \cup active) \ {id} : d[i] = d[id] => i > id /\ i \notin active

(* From the requests w waiting for the destinations d, at most one starts. *)
StartSome(w, d) ==
    \/ waiting' = w /\ active' = active
    \/ \E id \in w : /\ MayStart(w, d, id)
                     /\ waiting' = w \ {id} /\ active' = active \cup {id}

Submit(f) ==
    LET d == [dest EXCEPT ![lastId + 1] = f]
    IN /\ lastId < MaxRequests
       /\ lastId' = lastId + 1
       /\ dest' = d
       /\ StartSome(waiting \cup {lastId + 1}, d)
       /\ UNCHANGED answer

SubmitNothing ==
    /\ lastId < MaxRequests
    /\ lastId' = lastId + 1
    /\ answer' = [answer EXCEPT ![lastId + 1] = "ok"]
    /\ UNCHANGED <<waiting, active, dest>>

Start == /\ \E id \in waiting : /\ MayStart(waiting, dest, id)
                                /\ waiting' = waiting \ {id}
                                /\ active' = active \cup {id}
         /\ UNCHANGED <<lastId, dest, answer>>

Finish ==
    /\ \E id \in active, ok \in {"ok", "failed"} :
         /\ active' = active \ {id}
         /\ answer' = [answer EXCEPT ![id] = ok]
         /\ dest' = [dest EXCEPT ![id] = NoFolder]
    /\ UNCHANGED <<lastId, waiting>>

Next == (\E f \in Folder : Submit(f)) \/ SubmitNothing \/ Start \/ Finish

(* Lines move: copies end, and the head of an idle line is started. *)
Spec == Init /\ [][Next]_vars /\ WF_vars(Start) /\ WF_vars(Finish)
=============================================================================
