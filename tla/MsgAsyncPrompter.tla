-------------------------- MODULE MsgAsyncPrompter --------------------------
(***************************************************************************)
(* The authentication prompter, mailnews/base/src/msgAsyncPrompter.js.     *)
(*                                                                         *)
(* Servers and calendars that need a password ask the prompter for their   *)
(* turn.  Callers with the same key share one prompt: the first of them is *)
(* called (onPromptStart) to put up its modal dialogue, and the others are *)
(* told afterwards whether there is a password.  A caller that retries a   *)
(* failed password jumps the queue.                                        *)
(*                                                                         *)
(* A dialogue spins the event loop: calls, and the prompts of runnables    *)
(* that are in the event queue, nest in it.  `stack' holds the runs of     *)
(* runnablePrompter that have called a listener, outermost first.          *)
(*                                                                         *)
(* Calls are numbered in order of arrival.  An entry of _pendingPrompts is *)
(* named by the number of its `first' caller, so that the object is the    *)
(* set `pending' and its insertion order is the order of the numbers.      *)
(***************************************************************************)
EXTENDS Integers, Sequences, FiniteSets

CONSTANTS
    Key,       \* the keys that say which prompts can be shared
    NoKey,     \* the key of a call that has not been made
    MaxCalls   \* bound: the number of calls of queueAsyncAuthPrompt

ASSUME PrompterAssumption == MaxCalls \in Nat \ {0} /\ NoKey \notin Key

VARIABLES
    lastCall,    \* the number of the latest call
    key,         \* aKey of each call
    jump,        \* did the call make an entry and jump the queue?
    bound,       \* the entry whose consumers a call was added to, or 0
    pending,     \* the entries of _pendingPrompts
    inProgress,  \* _asyncPromptInProgress
    runnables,   \* keys of the runnablePrompters whose prompt is to come
    stack,       \* the runs that have called a listener
    logins,      \* Services.logins.initializationPromise
    told         \* history: the calls made to each caller's listener

vars == <<lastCall, key, jump, bound, pending, inProgress, runnables, stack, logins, told>>

Call == 1 .. MaxCalls
Told == {"start", "available", "canceled"}
-----------------------------------------------------------------------------
Consumers(p) == {c \in 1 .. lastCall : bound[c] = p}
EntryOf(k) == {p \in pending : key[p] = k}
Top == stack[Len(stack)]

IdleAlways(n) == TRUE            \* mutant: prompts in progress are not looked at
Idle(n) == n = 0

AnyOf(p, S) == p \in S           \* mutant: not the first of the queue
IsFirstOf(p, S) == p \in S /\ \A q \in S : p <= q

(* _doAsyncAuthPrompt, with n prompts in progress and the entries P. *)
DoAsyncAuthPrompt(P, keys, n) ==
    \/ /\ ~Idle(n) \/ P = {}
       /\ inProgress' = n
       /\ UNCHANGED runnables
    \/ /\ Idle(n)
       /\ \E p \in P : /\ IsFirstOf(p, P)
                       /\ runnables' = Append(runnables, keys[p])
       /\ inProgress' = n + 1

(* A prompt that jumps the queue is dispatched, whatever is in progress. *)
JumpUncounted(k, n) == inProgress' = n /\ runnables' = Append(runnables, k)
                                 \* mutant: ++ forgotten when the queue is jumped
JumpQueue(k, n) == inProgress' = n + 1 /\ runnables' = Append(runnables, k)

QueueAsyncAuthPrompt ==
    /\ lastCall < MaxCalls
    /\ lastCall' = lastCall + 1
    /\ \E k \in Key, aJumpQueue \in BOOLEAN :
         LET c == lastCall + 1
         IN /\ key' = [key EXCEPT ![c] = k]
            /\ \/ \E p \in EntryOf(k) :
                    /\ bound' = [bound EXCEPT ![c] = p]
                    /\ UNCHANGED <<jump, pending, inProgress, runnables>>
               \/ /\ EntryOf(k) = {}
                  /\ pending' = pending \cup {c}
                  /\ jump' = [jump EXCEPT ![c] = aJumpQueue]
                  /\ IF aJumpQueue
                     THEN JumpQueue(k, inProgress)
                     ELSE DoAsyncAuthPrompt(pending', key', inProgress)
                  /\ UNCHANGED bound
    /\ UNCHANGED <<stack, logins, told>>
-----------------------------------------------------------------------------
(* runnablePrompter.run, up to the call of onPromptStart.  Runnables run   *)
(* in the order of their dispatch, from the event loop: of the thread, of  *)
(* a dialogue, or of a listener that spins one.                            *)
RunPrompt ==
    /\ logins = "ready" /\ runnables # <<>>
    /\ runnables' = Tail(runnables)
    /\ \E p \in EntryOf(Head(runnables)) :
         /\ stack' = Append(stack, [entry |-> p, at |-> "prompt", ok |-> FALSE, left |-> {}])
         /\ told' = [told EXCEPT ![p] = Append(@, "start")]
    /\ UNCHANGED <<lastCall, key, jump, bound, pending, inProgress, logins>>

(* The promise is rejected: nothing catches that in run, which ends with   *)
(* the prompt still counted and its entry still pending.                   *)
RunFails ==
    /\ logins = "failed" /\ runnables # <<>>
    /\ runnables' = Tail(runnables)
    /\ UNCHANGED <<lastCall, key, jump, bound, pending, inProgress, stack, logins, told>>

(* The loop over the consumers and what follows it: the next of `left' is  *)
(* called, or the run ends and the next prompt is dispatched.              *)
RunEndsOnly(P) == UNCHANGED <<inProgress, runnables>>   \* mutant: -- is skipped
RunEnds(P) == DoAsyncAuthPrompt(P, key, inProgress - 1)

NotifyConsumers(p, ok, left) ==
    \/ /\ left = {}
       /\ stack' = SubSeq(stack, 1, Len(stack) - 1)
       /\ RunEnds(pending')
       /\ UNCHANGED told
    \/ \E c \in left :
         /\ \A d \in left : c <= d
         /\ told' = [told EXCEPT ![c] = Append(@, IF ok THEN "available" ELSE "canceled")]
         /\ stack' = [stack EXCEPT ![Len(stack)] =
                         [entry |-> p, at |-> "consumer", ok |-> ok, left |-> left \ {c}]]
         /\ UNCHANGED <<inProgress, runnables>>

(* onPromptStart returns: FALSE when it has thrown. *)
KeepEntry(P, p) == P           \* mutant: the entry is not deleted
DeleteEntry(P, p) == P \ {p}

PromptEnds ==
    /\ stack # <<>> /\ Top.at = "prompt"
    /\ pending' = DeleteEntry(pending, Top.entry)
    /\ \E ok \in BOOLEAN : NotifyConsumers(Top.entry, ok, Consumers(Top.entry))
    /\ UNCHANGED <<lastCall, key, jump, bound, logins>>

(* onPromptAuthAvailable or onPromptCanceled returns, or throws. *)
ConsumerReturns ==
    /\ stack # <<>> /\ Top.at = "consumer"
    /\ UNCHANGED pending
    /\ NotifyConsumers(Top.entry, Top.ok, Top.left)
    /\ UNCHANGED <<lastCall, key, jump, bound, logins>>

(* The login manager, of the platform, settles its promise. *)
LoginsSettle ==
    /\ logins = "initializing"
    /\ logins' \in {"ready", "failed"}
    /\ UNCHANGED <<lastCall, key, jump, bound, pending, inProgress, runnables, stack, told>>
-----------------------------------------------------------------------------
Init ==
    /\ lastCall = 0
    /\ key = [c \in Call |-> NoKey]
    /\ jump = [c \in Call |-> FALSE]
    /\ bound = [c \in Call |-> 0]
    /\ pending = {}
    /\ inProgress = 0
    /\ runnables = <<>>
    /\ stack = <<>>
    /\ logins = "initializing"
    /\ told = [c \in Call |-> <<>>]

PrompterSteps == RunPrompt \/ RunFails \/ PromptEnds \/ ConsumerReturns \/ LoginsSettle

Next == QueueAsyncAuthPrompt \/ PrompterSteps

Spec == Init /\ [][Next]_vars

(* The event loop runs, the login manager settles its promise, and the     *)
(* user ends the dialogues on the screen.  Nothing makes callers call.     *)
FairSpec == Spec /\ WF_vars(PrompterSteps)
-----------------------------------------------------------------------------
(* Every variable has its type. *)
Frame == [entry : Call, at : {"prompt", "consumer"}, ok : BOOLEAN, left : SUBSET Call]

TypeOK ==
    /\ lastCall \in 0 .. MaxCalls
    /\ key \in [Call -> Key \cup {NoKey}]
    /\ jump \in [Call -> BOOLEAN]
    /\ bound \in [Call -> 0 .. MaxCalls]
    /\ pending \subseteq 1 .. lastCall
    /\ \A p \in pending : key[p] \in Key
    /\ inProgress \in Nat
    /\ runnables \in Seq(Key)
    /\ stack \in Seq(Frame)
    /\ logins \in {"initializing", "ready", "failed"}
    /\ told \in [Call -> Seq(Told)]

(* The counter is the number of prompts dispatched and not ended.  Were it *)
(* higher no queued prompt would be shown any more, were it lower two of   *)
(* them would.                                                             *)
CounterExact ==
    logins # "failed" => inProgress = Len(runnables) + Len(stack)

(* While an entry is pending something is going on that will come to it,   *)
(* as long as the login manager has not failed.                            *)
NoStall == pending # {} /\ logins # "failed" => runnables # <<>> \/ stack # <<>>

(* Of the prompts in progress at most one has waited for its turn: the     *)
(* user is asked one question at a time, but for retries.                  *)
InProgress == (UNION {EntryOf(runnables[i]) : i \in DOMAIN runnables})
              \cup {stack[i].entry : i \in DOMAIN stack}

OneAtATime == Cardinality({p \in InProgress : ~jump[p]}) <= 1

(* The listener of a call is called at most once: to prompt, or with the   *)
(* outcome of the prompt that another did for it.                          *)
ToldOnce == \A c \in Call : Len(told[c]) <= 1

(* A prompt that does not jump the queue is not put up before one that was *)
(* queued earlier.                                                         *)
InTurn ==
    [][\A p \in pending :
          told'[p] # told[p] /\ ~jump[p] => \A q \in pending : q < p => told[q] # <<>>]_vars

(* Every caller is told, unless the login manager has failed. *)
EventuallyTold ==
    \A c \in Call : lastCall >= c ~> (told[c] # <<>> \/ logins = "failed")
=============================================================================
