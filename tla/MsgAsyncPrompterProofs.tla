---------------------- MODULE MsgAsyncPrompterProofs ----------------------
(***************************************************************************)
(* Proofs about MsgAsyncPrompter, for every set of keys and any number of  *)
(* calls.                                                                  *)
(***************************************************************************)
EXTENDS MsgAsyncPrompter, SequenceTheorems, FiniteSetTheorems, TLAPS

(* The inductive invariant.  The counter is exact until the login manager  *)
(* fails; a prompt is on the screen only when it has not; and when nothing *)
(* is in progress nothing is pending, since every step that brings the     *)
(* counter to zero or adds an entry dispatches the first entry.            *)
IdleIsEmpty == logins # "failed" /\ inProgress = 0 => pending = {}

PrompterInv == TypeOK /\ CounterExact /\ IdleIsEmpty /\ (stack # <<>> => logins = "ready")
-----------------------------------------------------------------------------
(* What _doAsyncAuthPrompt dispatches it counts, and it leaves nothing     *)
(* behind when nothing is in progress.                                     *)
LEMMA DispatchCounted ==
    ASSUME NEW P \in SUBSET Call, NEW keys, \A p \in P : keys[p] \in Key, NEW n \in Nat,
           runnables \in Seq(Key), DoAsyncAuthPrompt(P, keys, n)
    PROVE  /\ inProgress' \in Nat /\ runnables' \in Seq(Key)
           /\ inProgress' - Len(runnables') = n - Len(runnables)
           /\ inProgress' = 0 => P = {}
  <1>1. CASE (~Idle(n) \/ P = {}) /\ inProgress' = n /\ UNCHANGED runnables
    BY <1>1 DEF Idle
  <1>2. CASE /\ inProgress' = n + 1
             /\ \E p \in P : runnables' = Append(runnables, keys[p])
    <2>1. PICK p \in P : runnables' = Append(runnables, keys[p])
      BY <1>2
    <2>2. /\ Append(runnables, keys[p]) \in Seq(Key)
          /\ Len(Append(runnables, keys[p])) = Len(runnables) + 1
      BY AppendProperties
    <2>3. Len(runnables) \in Nat
      BY LenProperties
    <2> QED
      BY <1>2, <2>1, <2>2, <2>3
  <1> QED
    BY <1>1, <1>2 DEF DoAsyncAuthPrompt

(* The stack is popped when the run ends, and keeps its height otherwise. *)
LEMMA NotifyPreserves ==
    ASSUME PrompterInv, stack # <<>>, pending' \in SUBSET pending,
           NEW p \in Call, NEW ok \in BOOLEAN, NEW left \in SUBSET Call,
           NotifyConsumers(p, ok, left),
           UNCHANGED <<lastCall, key, jump, bound, logins>>,
           inProgress = 0 => pending' = {}
    PROVE  PrompterInv'
  <1>1. /\ stack \in Seq(Frame) /\ runnables \in Seq(Key) /\ logins = "ready"
        /\ pending' \subseteq 1 .. lastCall' /\ pending' \in SUBSET Call
        /\ \A q \in pending' : key[q] \in Key
    <2>1. stack \in Seq(Frame) /\ runnables \in Seq(Key) /\ logins = "ready"
      BY DEF PrompterInv, TypeOK
    <2>2. pending \subseteq 1 .. lastCall /\ lastCall \in 0 .. MaxCalls /\ lastCall' = lastCall
          /\ \A q \in pending : key[q] \in Key
      BY DEF PrompterInv, TypeOK
    <2>3. 1 .. lastCall \subseteq Call
      BY <2>2, PrompterAssumption DEF Call
    <2> QED
      BY <2>1, <2>2, <2>3
  <1>2. Len(stack) \in Nat \ {0} /\ Len(runnables) \in Nat
    BY <1>1, EmptySeq, LenProperties
  <1>3. inProgress \in Nat /\ inProgress = Len(runnables) + Len(stack)
    BY <1>1 DEF PrompterInv, TypeOK, CounterExact
  <1>4. CASE /\ left = {} /\ stack' = SubSeq(stack, 1, Len(stack) - 1)
             /\ RunEnds(pending') /\ UNCHANGED told
    <2> DEFINE n == inProgress - 1
    <2>1. n \in Nat /\ n - Len(runnables) = Len(stack) - 1
      BY <1>2, <1>3
    <2>2. DoAsyncAuthPrompt(pending', key, n)
      BY <1>4 DEF RunEnds
    <2> HIDE DEF n
    <2>3. /\ inProgress' \in Nat /\ runnables' \in Seq(Key)
          /\ inProgress' - Len(runnables') = Len(stack) - 1
          /\ inProgress' = 0 => pending' = {}
      BY <1>1, <2>1, <2>2, DispatchCounted
    <2>4. stack' \in Seq(Frame) /\ Len(stack') = Len(stack) - 1
      <3> DEFINE m == Len(stack) - 1
      <3>1. m \in Int /\ m >= 0 /\ m - 1 + 1 = m /\ m <= Len(stack)
        BY <1>2
      <3>2. \A i \in 1 .. m : stack[i] \in Frame
        <4>1. \A i \in 1 .. m : i \in 1 .. Len(stack)
          BY <1>2
        <4> QED
          BY <1>1, <4>1, ElementOfSeq
      <3> HIDE DEF m
      <3>3. /\ SubSeq(stack, 1, m) \in Seq(Frame)
            /\ Len(SubSeq(stack, 1, m)) = IF 1 <= m THEN m - 1 + 1 ELSE 0
        BY <3>1, <3>2, SubSeqProperties
      <3> QED
        BY <1>4, <3>1, <3>3 DEF m
    <2>5. Len(runnables') \in Nat /\ Len(stack') \in Nat
      BY <2>3, <2>4, LenProperties
    <2>6. inProgress' = Len(runnables') + Len(stack')
      BY <2>3, <2>4, <2>5
    <2> QED
      BY <1>1, <1>4, <2>3, <2>4, <2>6
         DEF PrompterInv, TypeOK, CounterExact, IdleIsEmpty
  <1>5. ASSUME NEW c \in left,
               told' = [told EXCEPT ![c] = Append(@, IF ok THEN "available" ELSE "canceled")],
               stack' = [stack EXCEPT ![Len(stack)] =
                           [entry |-> p, at |-> "consumer", ok |-> ok, left |-> left \ {c}]],
               UNCHANGED <<inProgress, runnables>>
        PROVE  PrompterInv'
    <2> DEFINE top == [entry |-> p, at |-> "consumer", ok |-> ok, left |-> left \ {c}]
    <2>1. top \in Frame /\ Len(stack) \in 1 .. Len(stack)
      BY <1>2 DEF Frame
    <2> HIDE DEF top
    <2>2. stack' = [stack EXCEPT ![Len(stack)] = top]
      BY <1>5 DEF top
    <2>3. stack' \in Seq(Frame) /\ Len(stack') = Len(stack)
      BY <1>1, <2>1, <2>2, ExceptSeq
    <2>4. told' \in [Call -> Seq(Told)]
      <3> DEFINE what == IF ok THEN "available" ELSE "canceled"
      <3>1. what \in Told /\ c \in Call /\ told \in [Call -> Seq(Told)]
        BY DEF Told, PrompterInv, TypeOK
      <3> HIDE DEF what
      <3>2. Append(told[c], what) \in Seq(Told)
        BY <3>1, AppendProperties
      <3>3. told' = [told EXCEPT ![c] = Append(told[c], what)]
        BY <1>5 DEF what
      <3> QED
        BY <3>1, <3>2, <3>3
    <2> QED
      BY <1>1, <1>3, <1>5, <2>3, <2>4 DEF PrompterInv, TypeOK, CounterExact, IdleIsEmpty
  <1> QED
    BY <1>4, <1>5 DEF NotifyConsumers
-----------------------------------------------------------------------------
LEMMA InitHolds == Init => PrompterInv
  <1> SUFFICES ASSUME Init PROVE PrompterInv
    OBVIOUS
  <1>1. /\ stack = <<>> /\ runnables = <<>> /\ <<>> \in Seq(Frame) /\ <<>> \in Seq(Key)
        /\ Len(<<>>) = 0 /\ <<>> \in Seq(Told)
    BY EmptySeq DEF Init
  <1>2. lastCall \in 0 .. MaxCalls /\ bound \in [Call -> 0 .. MaxCalls]
    BY PrompterAssumption DEF Init
  <1> QED
    BY <1>1, <1>2 DEF Init, PrompterInv, TypeOK, CounterExact, IdleIsEmpty

LEMMA StepHolds == PrompterInv /\ [Next]_vars => PrompterInv'
  <1> SUFFICES ASSUME PrompterInv, [Next]_vars
               PROVE  PrompterInv'
    OBVIOUS
  <1>0. /\ stack \in Seq(Frame) /\ runnables \in Seq(Key)
        /\ Len(stack) \in Nat /\ Len(runnables) \in Nat /\ inProgress \in Nat
        /\ pending \in SUBSET Call /\ lastCall \in 0 .. MaxCalls
    <2>1. stack \in Seq(Frame) /\ runnables \in Seq(Key)
      BY DEF PrompterInv, TypeOK
    <2>2. Len(stack) \in Nat /\ Len(runnables) \in Nat
      BY <2>1, LenProperties
    <2> QED
      BY <2>1, <2>2, PrompterAssumption DEF PrompterInv, TypeOK, Call
  <1>1. CASE QueueAsyncAuthPrompt
    <2> DEFINE c == lastCall + 1
    <2>1. c \in Call /\ c \in 0 .. MaxCalls /\ c \notin pending /\ 1 .. lastCall \subseteq 1 .. c
          /\ c \in 1 .. c /\ lastCall' = c /\ UNCHANGED <<stack, logins, told>>
      BY <1>0, <1>1, PrompterAssumption DEF QueueAsyncAuthPrompt, Call, PrompterInv, TypeOK
    <2>2. PICK k \in Key, aJumpQueue \in BOOLEAN :
            /\ key' = [key EXCEPT ![c] = k]
            /\ \/ \E p \in EntryOf(k) :
                    /\ bound' = [bound EXCEPT ![c] = p]
                    /\ UNCHANGED <<jump, pending, inProgress, runnables>>
               \/ /\ pending' = pending \cup {c}
                  /\ jump' = [jump EXCEPT ![c] = aJumpQueue]
                  /\ IF aJumpQueue
                     THEN JumpQueue(k, inProgress)
                     ELSE DoAsyncAuthPrompt(pending', key', inProgress)
                  /\ UNCHANGED bound
      BY <1>1 DEF QueueAsyncAuthPrompt
    <2> HIDE DEF c
    <2>3. /\ key' \in [Call -> Key \cup {NoKey}] /\ key'[c] = k
          /\ \A p \in pending : key'[p] \in Key
      BY <2>1, <2>2 DEF PrompterInv, TypeOK
    <2>4. CASE \E p \in EntryOf(k) :
                    /\ bound' = [bound EXCEPT ![c] = p]
                    /\ UNCHANGED <<jump, pending, inProgress, runnables>>
      <3>1. PICK p \in EntryOf(k) :
                    /\ bound' = [bound EXCEPT ![c] = p]
                    /\ UNCHANGED <<jump, pending, inProgress, runnables>>
        BY <2>4
      <3>2. p \in 0 .. MaxCalls
        BY <1>0 DEF EntryOf, Call
      <3>3. bound' \in [Call -> 0 .. MaxCalls]
        BY <3>1, <3>2 DEF PrompterInv, TypeOK
      <3> QED
        BY <2>1, <2>3, <3>1, <3>3 DEF PrompterInv, TypeOK, CounterExact, IdleIsEmpty
    <2>5. CASE /\ pending' = pending \cup {c}
               /\ jump' = [jump EXCEPT ![c] = aJumpQueue]
               /\ IF aJumpQueue
                  THEN JumpQueue(k, inProgress)
                  ELSE DoAsyncAuthPrompt(pending', key', inProgress)
               /\ UNCHANGED bound
      <3>1. /\ pending' \in SUBSET Call /\ pending' \subseteq 1 .. lastCall'
            /\ \A p \in pending' : key'[p] \in Key
        BY <1>0, <2>1, <2>3, <2>5 DEF PrompterInv, TypeOK
      <3>2. /\ inProgress' \in Nat /\ runnables' \in Seq(Key)
            /\ inProgress' - Len(runnables') = inProgress - Len(runnables)
            /\ inProgress' # 0
        <4>1. CASE aJumpQueue
          <5>1. inProgress' = inProgress + 1 /\ runnables' = Append(runnables, k)
            BY <2>5, <4>1 DEF JumpQueue
          <5>2. runnables' \in Seq(Key) /\ Len(runnables') = Len(runnables) + 1
            BY <1>0, <5>1, AppendProperties
          <5> QED
            BY <1>0, <5>1, <5>2
        <4>2. CASE ~aJumpQueue
          <5>1. DoAsyncAuthPrompt(pending', key', inProgress)
            BY <2>5, <4>2
          <5>2. pending' # {}
            BY <2>5
          <5> QED
            BY <1>0, <3>1, <5>1, <5>2, DispatchCounted
        <4> QED
          BY <4>1, <4>2
      <3>3. Len(runnables') \in Nat
        BY <3>2, LenProperties
      <3>4. inProgress = Len(runnables) + Len(stack)
               => inProgress' = Len(runnables') + Len(stack)
        BY <1>0, <3>2, <3>3
      <3>5. jump' \in [Call -> BOOLEAN]
        BY <2>5 DEF PrompterInv, TypeOK
      <3> QED
        BY <2>1, <2>3, <2>5, <3>1, <3>2, <3>4, <3>5
           DEF PrompterInv, TypeOK, CounterExact, IdleIsEmpty
    <2> QED
      BY <2>2, <2>4, <2>5
  <1>2. CASE RunPrompt
    <2>1. PICK p \in EntryOf(Head(runnables)) :
            /\ stack' = Append(stack, [entry |-> p, at |-> "prompt", ok |-> FALSE, left |-> {}])
            /\ told' = [told EXCEPT ![p] = Append(@, "start")]
      BY <1>2 DEF RunPrompt
    <2>2. runnables # <<>> /\ runnables' = Tail(runnables) /\ logins = "ready"
          /\ UNCHANGED <<lastCall, key, jump, bound, pending, inProgress, logins>>
      BY <1>2 DEF RunPrompt
    <2>3. runnables' \in Seq(Key) /\ Len(runnables') = Len(runnables) - 1
      BY <1>0, <2>2, HeadTailProperties
    <2> DEFINE top == [entry |-> p, at |-> "prompt", ok |-> FALSE, left |-> {}]
    <2>4. p \in Call /\ top \in Frame
      BY <1>0 DEF EntryOf, Frame
    <2> HIDE DEF top
    <2>5. stack' \in Seq(Frame) /\ Len(stack') = Len(stack) + 1
      <3>1. stack' = Append(stack, top)
        BY <2>1 DEF top
      <3> QED
        BY <1>0, <2>4, <3>1, AppendProperties
    <2>6. told' \in [Call -> Seq(Told)]
      <3>1. told \in [Call -> Seq(Told)] /\ "start" \in Told
        BY DEF PrompterInv, TypeOK, Told
      <3>2. Append(told[p], "start") \in Seq(Told)
        BY <2>4, <3>1, AppendProperties
      <3> QED
        BY <2>1, <3>1, <3>2
    <2>7. Len(runnables') + Len(stack') = Len(runnables) + Len(stack)
      BY <1>0, <2>3, <2>5
    <2> QED
      BY <2>2, <2>3, <2>5, <2>6, <2>7 DEF PrompterInv, TypeOK, CounterExact, IdleIsEmpty
  <1>3. CASE RunFails
    <2>1. runnables' \in Seq(Key)
      BY <1>0, <1>3, HeadTailProperties DEF RunFails
    <2> QED
      BY <1>3, <2>1 DEF RunFails, PrompterInv, TypeOK, CounterExact, IdleIsEmpty
  <1>4. ASSUME stack # <<>>
        PROVE  Top \in Frame
    <2>1. Len(stack) \in 1 .. Len(stack)
      BY <1>0, <1>4, EmptySeq
    <2> QED
      BY <1>0, <2>1, ElementOfSeq DEF Top
  <1>5. CASE PromptEnds
    <2>1. PICK ok \in BOOLEAN : NotifyConsumers(Top.entry, ok, Consumers(Top.entry))
      BY <1>5 DEF PromptEnds
    <2>2. /\ stack # <<>> /\ pending' \in SUBSET pending
          /\ UNCHANGED <<lastCall, key, jump, bound, logins>>
      BY <1>5 DEF PromptEnds, DeleteEntry
    <2>3. Top.entry \in Call /\ Consumers(Top.entry) \in SUBSET Call
      BY <1>0, <1>4, <2>2, PrompterAssumption DEF Frame, Consumers, Call
    <2>4. inProgress = 0 => pending' = {}
      BY <2>2 DEF PrompterInv, IdleIsEmpty
    <2> QED
      BY <2>1, <2>2, <2>3, <2>4, NotifyPreserves
  <1>6. CASE ConsumerReturns
    <2>1. /\ stack # <<>> /\ pending' \in SUBSET pending
          /\ UNCHANGED <<lastCall, key, jump, bound, logins>>
          /\ NotifyConsumers(Top.entry, Top.ok, Top.left)
      BY <1>6 DEF ConsumerReturns
    <2>2. Top.entry \in Call /\ Top.ok \in BOOLEAN /\ Top.left \in SUBSET Call
      BY <1>4, <2>1 DEF Frame
    <2>3. inProgress = 0 => pending' = {}
      BY <1>6, <2>1 DEF ConsumerReturns, PrompterInv, IdleIsEmpty
    <2> QED
      BY <2>1, <2>2, <2>3, NotifyPreserves
  <1>7. CASE LoginsSettle
    <2>1. stack = <<>>
      BY <1>7 DEF LoginsSettle, PrompterInv
    <2> QED
      BY <1>7, <2>1 DEF LoginsSettle, PrompterInv, TypeOK, CounterExact, IdleIsEmpty
  <1>8. CASE UNCHANGED vars
    BY <1>8 DEF vars, PrompterInv, TypeOK, CounterExact, IdleIsEmpty
  <1> QED
    BY <1>1, <1>2, <1>3, <1>5, <1>6, <1>7, <1>8 DEF Next, PrompterSteps

LEMMA PrompterInvariant == Spec => []PrompterInv
  BY InitHolds, StepHolds, PTL DEF Spec

(* Every variable has its type; in particular the counter never goes below *)
(* zero, and what is dispatched is a key.                                  *)
THEOREM PrompterTypeCorrect == Spec => []TypeOK
  <1>1. PrompterInv => TypeOK
    BY DEF PrompterInv
  <1> QED
    BY <1>1, PrompterInvariant, PTL

(* The counter of prompts in progress is exact, whatever callers do while  *)
(* dialogues nest.                                                         *)
THEOREM CountsPrompts == Spec => []CounterExact
  <1>1. PrompterInv => CounterExact
    BY DEF PrompterInv
  <1> QED
    BY <1>1, PrompterInvariant, PTL

(* No prompt is left in the queue with nothing in progress, unless the     *)
(* login manager has failed.                                               *)
THEOREM NeverStalls == Spec => []NoStall
  <1>1. PrompterInv => NoStall
    <2> SUFFICES ASSUME PrompterInv, pending # {}, logins # "failed",
                        runnables = <<>>, stack = <<>>
                 PROVE  FALSE
      BY DEF NoStall
    <2>1. inProgress = 0
      BY EmptySeq DEF PrompterInv, CounterExact
    <2> QED
      BY <2>1 DEF PrompterInv, IdleIsEmpty
  <1> QED
    BY <1>1, PrompterInvariant, PTL
-----------------------------------------------------------------------------
(* Who is asked what, and when.  A call has an entry of its own or is      *)
(* bound to one; an entry waits, is about to be put up (its key is among   *)
(* the runnables), or is in a frame of the stack, and its consumers are    *)
(* told in that frame, after the entry is gone.                            *)
KeysOnce == \A p, q \in pending : key[p] = key[q] => p = q

CallsOK ==
    \A c \in Call :
        /\ c > lastCall => told[c] = <<>> /\ bound[c] = 0
        /\ bound[c] <= lastCall
        /\ c \in pending => bound[c] = 0
        /\ bound[c] \in pending => told[c] = <<>>
        /\ c \in pending /\ told[c] # <<>> => \E i \in 1 .. Len(stack) : stack[i].entry = c
        /\ Len(told[c]) <= 1

(* Keys on their way to the screen are those of different entries that     *)
(* have not been asked; one that waited for its turn is the oldest.        *)
RunnablesFit(r) ==
    \A i \in 1 .. Len(r) :
        /\ \E p \in pending : /\ key[p] = r[i] /\ told[p] = <<>>
                              /\ ~jump[p] => \A q \in pending : p <= q
        /\ \A j \in 1 .. Len(r) : r[j] = r[i] => j = i

FramesOK ==
    \A i \in 1 .. Len(stack) :
        /\ stack[i].entry <= lastCall
        /\ told[stack[i].entry] # <<>>
        /\ stack[i].at = "prompt" <=> stack[i].entry \in pending
        /\ \A c \in stack[i].left : bound[c] = stack[i].entry /\ told[c] = <<>>
        /\ \A j \in 1 .. Len(stack) : stack[j].entry = stack[i].entry => j = i

(* With the keys r on their way, at most one of the prompts in progress    *)
(* has waited for its turn.                                                *)
Asked(r) == {p \in pending : \E i \in 1 .. Len(r) : r[i] = key[p]}
            \cup {stack[i].entry : i \in 1 .. Len(stack)}

AloneAmong(r) == \A p, q \in Asked(r) : ~jump[p] /\ ~jump[q] => p = q

(* The counter is never too low, not even after the login manager failed.  *)
AtLeast == inProgress >= Len(runnables) + Len(stack)

TurnsInv == /\ KeysOnce /\ CallsOK /\ RunnablesFit(runnables) /\ FramesOK
            /\ AloneAmong(runnables) /\ AtLeast

(* What is known of the types, in the form the proofs below use.           *)
Typed ==
    /\ lastCall \in 0 .. MaxCalls /\ pending \in SUBSET Call /\ inProgress \in Nat
    /\ runnables \in Seq(Key) /\ Len(runnables) \in Nat
    /\ stack \in Seq(Frame) /\ Len(stack) \in Nat
    /\ key \in [Call -> Key \cup {NoKey}] /\ jump \in [Call -> BOOLEAN]
    /\ bound \in [Call -> 0 .. MaxCalls] /\ told \in [Call -> Seq(Told)]
    /\ \A p \in pending : p <= lastCall
    /\ \A i \in 1 .. Len(stack) : stack[i] \in Frame /\ stack[i].entry \in Call
                                  /\ stack[i].left \in SUBSET Call

LEMMA CallsArePositive == \A c \in Call : c # 0
  BY DEF Call

LEMMA Types == PrompterInv => Typed
  <1> SUFFICES ASSUME PrompterInv PROVE Typed
    OBVIOUS
  <1>1. runnables \in Seq(Key) /\ stack \in Seq(Frame)
    BY DEF PrompterInv, TypeOK
  <1>2. Len(runnables) \in Nat /\ Len(stack) \in Nat
    BY <1>1, LenProperties
  <1>3. \A i \in 1 .. Len(stack) : stack[i] \in Frame
    BY <1>1, ElementOfSeq
  <1>4. lastCall \in 0 .. MaxCalls /\ pending \subseteq 1 .. lastCall
    BY DEF PrompterInv, TypeOK
  <1>5. pending \in SUBSET Call /\ \A p \in pending : p <= lastCall
    BY <1>4, PrompterAssumption DEF Call
  <1>6. /\ inProgress \in Nat
        /\ key \in [Call -> Key \cup {NoKey}] /\ jump \in [Call -> BOOLEAN]
        /\ bound \in [Call -> 0 .. MaxCalls] /\ told \in [Call -> Seq(Told)]
    BY DEF PrompterInv, TypeOK
  <1> QED
    BY <1>1, <1>2, <1>3, <1>4, <1>5, <1>6 DEF Typed, Frame

(* _doAsyncAuthPrompt keeps the order of turns: it dispatches the oldest   *)
(* entry, and only when nothing is in progress.                            *)
LEMMA DispatchInTurn ==
    ASSUME Typed', NEW r, r = runnables, NEW n \in Nat, NEW keys, keys = key',
           r \in Seq(Key), KeysOnce',
           DoAsyncAuthPrompt(pending', keys, n),
           RunnablesFit(r)', AloneAmong(r)',
           n >= Len(r) + Len(stack'),
           n = 0 => \A p \in pending' : told'[p] = <<>>
    PROVE  RunnablesFit(runnables)' /\ AloneAmong(runnables)' /\ AtLeast'
  <1>1. CASE inProgress' = n /\ UNCHANGED runnables
    BY <1>1 DEF AtLeast
  <1>2. CASE Idle(n) /\ inProgress' = n + 1
             /\ \E p \in pending' : /\ IsFirstOf(p, pending')
                                    /\ runnables' = Append(r, keys[p])
    <2>1. PICK p \in pending' : /\ IsFirstOf(p, pending')
                                /\ runnables' = Append(r, keys[p])
      BY <1>2
    <2>2. n = 0 /\ Len(r) = 0 /\ Len(stack') = 0
      <3>1. n = 0 /\ Len(r) \in Nat /\ Len(stack') \in Nat
        BY <1>2, LenProperties DEF Idle, Typed
      <3> QED
        BY <3>1
    <2>3. Len(runnables') = 1 /\ runnables'[1] = key'[p]
      <3>1. keys[p] \in Key
        <4>1. r \in Seq(Key) /\ runnables' \in Seq(Key) /\ Len(runnables') = Len(r) + 1
              /\ runnables'[Len(r) + 1] = keys[p]
          BY <2>1 DEF Typed
        <4>2. Len(r) + 1 \in 1 .. Len(runnables')
          BY <2>2, <4>1
        <4> QED
          BY <4>1, <4>2, ElementOfSeq
      <3>2. Len(Append(r, keys[p])) = Len(r) + 1 /\ Append(r, keys[p])[Len(r) + 1] = keys[p]
        BY <3>1, AppendProperties
      <3> QED
        BY <2>1, <2>2, <3>2
    <2>4. RunnablesFit(runnables)'
      BY <2>1, <2>2, <2>3 DEF RunnablesFit, IsFirstOf
    <2>5. \A q \in Asked(runnables)' : q = p
      BY <2>1, <2>2, <2>3 DEF Asked, KeysOnce
    <2>6. AloneAmong(runnables)'
      BY <2>5 DEF AloneAmong
    <2>7. AtLeast'
      BY <1>2, <2>2, <2>3 DEF AtLeast
    <2> QED
      BY <2>4, <2>6, <2>7
  <1> QED
    BY <1>1, <1>2 DEF DoAsyncAuthPrompt

(* A call that shares the prompt of an entry, or makes one of its own.     *)
LEMMA CallInTurn ==
    PrompterInv /\ PrompterInv' /\ TurnsInv /\ QueueAsyncAuthPrompt => TurnsInv'
  <1> SUFFICES ASSUME PrompterInv, PrompterInv', TurnsInv, QueueAsyncAuthPrompt
               PROVE  TurnsInv'
    OBVIOUS
  <1>0. Typed /\ Typed'
    BY Types, PTL
  <1> DEFINE c == lastCall + 1
  <1>1. /\ c \in Call /\ lastCall' = c /\ UNCHANGED <<stack, logins, told>>
        /\ c \notin pending /\ told[c] = <<>> /\ bound[c] = 0
        /\ \A d \in Call : bound[d] # c /\ bound[d] <= c
    <2>1. /\ lastCall \in Nat /\ c \in Nat /\ lastCall < c /\ c \in Call
          /\ \A p \in pending : p <= lastCall
          /\ \A d \in Call : bound[d] \in Nat
      BY <1>0, PrompterAssumption, SMTT(20) DEF QueueAsyncAuthPrompt, Typed, Call
    <2>2. told[c] = <<>> /\ bound[c] = 0 /\ \A d \in Call : bound[d] <= lastCall
      BY <2>1 DEF TurnsInv, CallsOK
    <2>3. c \notin pending /\ \A d \in Call : bound[d] # c /\ bound[d] <= c
      BY <2>1, <2>2
    <2> QED
      BY <2>1, <2>2, <2>3 DEF QueueAsyncAuthPrompt
  <1>2. PICK k \in Key, aJumpQueue \in BOOLEAN :
          /\ key' = [key EXCEPT ![c] = k]
          /\ \/ \E p \in EntryOf(k) :
                  /\ bound' = [bound EXCEPT ![c] = p]
                  /\ UNCHANGED <<jump, pending, inProgress, runnables>>
             \/ /\ EntryOf(k) = {}
                /\ pending' = pending \cup {c}
                /\ jump' = [jump EXCEPT ![c] = aJumpQueue]
                /\ IF aJumpQueue
                   THEN JumpQueue(k, inProgress)
                   ELSE DoAsyncAuthPrompt(pending', key', inProgress)
                /\ UNCHANGED bound
    BY <1>1 DEF QueueAsyncAuthPrompt
  <1> HIDE DEF c
  <1>3. /\ key'[c] = k /\ \A p \in pending : key'[p] = key[p]
        /\ \A p \in pending : p < c
        /\ c \in Nat \ {0}
        /\ \A i \in 1 .. Len(stack) : stack[i].entry # c
    <2>1. c = lastCall + 1 /\ lastCall \in Nat
      BY <1>0, PrompterAssumption DEF c, Typed
    <2>2. \A i \in 1 .. Len(stack) : stack[i].entry # c
      BY <1>0, <2>1, PrompterAssumption, SMTT(20) DEF TurnsInv, FramesOK, Typed, Call
    <2>3. key'[c] = k /\ \A p \in pending : key'[p] = key[p]
      BY <1>0, <1>1, <1>2 DEF Typed
    <2>4. \A p \in pending : p \in Nat /\ p <= lastCall
      BY <1>0 DEF Typed, Call
    <2> QED
      BY <2>1, <2>2, <2>3, <2>4
  <1>4. CASE \E p \in EntryOf(k) :
                  /\ bound' = [bound EXCEPT ![c] = p]
                  /\ UNCHANGED <<jump, pending, inProgress, runnables>>
    <2>1. PICK p \in pending : /\ bound' = [bound EXCEPT ![c] = p]
                               /\ UNCHANGED <<jump, pending, inProgress, runnables>>
      BY <1>4 DEF EntryOf
    <2>2. KeysOnce' /\ RunnablesFit(runnables)' /\ AloneAmong(runnables)' /\ AtLeast'
      BY <1>1, <1>3, <2>1
         DEF TurnsInv, KeysOnce, RunnablesFit, AloneAmong, Asked, AtLeast
    <2>3. CallsOK'
      <3>1. bound'[c] = p /\ \A d \in Call \ {c} : bound'[d] = bound[d]
        BY <1>0, <1>1, <2>1 DEF Typed
      <3>2. p <= c /\ \A d \in Call : d > c => d > lastCall /\ d # c
        BY <1>0, <1>1, <1>3, PrompterAssumption DEF Typed, Call, c
      <3> QED
        BY <1>0, <1>1, <1>3, <2>1, <3>1, <3>2 DEF TurnsInv, CallsOK
    <2>4. FramesOK'
      <3>1. lastCall <= lastCall' /\ \A i \in 1 .. Len(stack) : stack[i].entry <= lastCall'
        <4>1. lastCall \in Nat /\ lastCall' = lastCall + 1
          BY <1>0, <1>1 DEF Typed, c
        <4>2. \A i \in 1 .. Len(stack) : stack[i].entry \in Nat /\ stack[i].entry <= lastCall
          BY <1>0 DEF TurnsInv, FramesOK, Typed, Call
        <4> QED
          BY <4>1, <4>2
      <3>2. \A i \in 1 .. Len(stack) : \A d \in stack[i].left :
              d # c /\ bound'[d] = stack[i].entry
        <4>1. \A i \in 1 .. Len(stack) : stack[i].entry # 0
          <5>1. \A i \in 1 .. Len(stack) : stack[i].entry \in Call
            BY <1>0 DEF Typed
          <5> QED
            BY <5>1, CallsArePositive
        <4> QED
          BY <1>0, <1>1, <2>1, <4>1 DEF TurnsInv, FramesOK, Typed
      <3> QED
        BY <1>1, <2>1, <3>1, <3>2 DEF TurnsInv, FramesOK
    <2> QED
      BY <2>2, <2>3, <2>4 DEF TurnsInv
  <1>5. CASE /\ EntryOf(k) = {}
             /\ pending' = pending \cup {c}
             /\ jump' = [jump EXCEPT ![c] = aJumpQueue]
             /\ IF aJumpQueue
                THEN JumpQueue(k, inProgress)
                ELSE DoAsyncAuthPrompt(pending', key', inProgress)
             /\ UNCHANGED bound
    <2>1. /\ jump'[c] = aJumpQueue /\ \A p \in Call \ {c} : jump'[p] = jump[p]
          /\ \A p \in pending : key[p] # k
          /\ \A i \in 1 .. Len(runnables) : runnables[i] # k
      BY <1>0, <1>1, <1>5 DEF Typed, EntryOf, TurnsInv, RunnablesFit
    <2>2. KeysOnce'
      BY <1>3, <1>5, <2>1 DEF TurnsInv, KeysOnce
    <2>3. CallsOK'
      <3>1. \A d \in Call : d > c => d > lastCall
        BY <1>0, PrompterAssumption DEF Typed, Call, c
      <3> QED
        BY <1>0, <1>1, <1>5, <3>1 DEF TurnsInv, CallsOK
    <2>4. FramesOK'
      <3>1. lastCall <= lastCall' /\ \A i \in 1 .. Len(stack) : stack[i].entry <= lastCall'
        <4>1. lastCall \in Nat /\ lastCall' = lastCall + 1
          BY <1>0, <1>1 DEF Typed, c
        <4>2. \A i \in 1 .. Len(stack) : stack[i].entry \in Nat /\ stack[i].entry <= lastCall
          BY <1>0 DEF TurnsInv, FramesOK, Typed, Call
        <4> QED
          BY <4>1, <4>2
      <3> QED
        BY <1>1, <1>3, <1>5, <3>1 DEF TurnsInv, FramesOK
    <2>5. PICK r : r = runnables /\ RunnablesFit(r)
      BY DEF TurnsInv
    <2>6. \A i \in 1 .. Len(r) :
            /\ \E p \in pending' : /\ key'[p] = r[i] /\ told'[p] = <<>>
                                   /\ ~jump'[p] => \A q \in pending' : p <= q
            /\ \A j \in 1 .. Len(r) : r[j] = r[i] => j = i
      <3>1. ASSUME NEW i \in 1 .. Len(r)
            PROVE  \E p \in pending' : /\ key'[p] = r[i] /\ told'[p] = <<>>
                                       /\ ~jump'[p] => \A q \in pending' : p <= q
        <4>1. PICK p \in pending : /\ key[p] = r[i] /\ told[p] = <<>>
                                   /\ ~jump[p] => \A q \in pending : p <= q
          BY <2>5 DEF RunnablesFit
        <4>2. p \in Call \ {c} /\ p \in Nat /\ p < c
          BY <1>0, <1>1, <1>3 DEF Typed, Call
        <4> QED
          BY <1>1, <1>3, <1>5, <2>1, <4>1, <4>2
      <3>2. \A i, j \in 1 .. Len(r) : r[j] = r[i] => j = i
        BY <2>5 DEF RunnablesFit
      <3> QED
        BY <3>1, <3>2
    <2>7. /\ \A p \in Asked(r) : p \in Call /\ p # c /\ jump'[p] = jump[p]
          /\ {p \in pending' : \E i \in 1 .. Len(r) : r[i] = key'[p]}
             \cup {stack'[i].entry : i \in 1 .. Len(stack')} \subseteq Asked(r)
      <3>1. \A p \in pending : p \in Call /\ p # c /\ jump'[p] = jump[p]
        BY <1>0, <1>1, <2>1 DEF Typed
      <3>2. \A i \in 1 .. Len(stack) : /\ stack[i].entry \in Call /\ stack[i].entry # c
                                       /\ jump'[stack[i].entry] = jump[stack[i].entry]
        BY <1>0, <1>3, <2>1 DEF Typed
      <3>3. \A i \in 1 .. Len(r) : r[i] # k
        BY <2>1, <2>5
      <3> QED
        BY <1>1, <1>3, <1>5, <3>1, <3>2, <3>3 DEF Asked
    <2>8. \A p, q \in Asked(r) : ~jump'[p] /\ ~jump'[q] => p = q
      BY <2>5, <2>7 DEF TurnsInv, AloneAmong
    <2>9. CASE aJumpQueue
      <3>1. inProgress' = inProgress + 1 /\ runnables' = Append(r, k)
        BY <1>5, <2>5, <2>9 DEF JumpQueue
      <3>2. /\ Len(runnables') = Len(r) + 1 /\ Len(r) \in Nat
            /\ \A i \in 1 .. Len(r) : runnables'[i] = r[i]
            /\ runnables'[Len(r) + 1] = k
        BY <1>0, <2>5, <3>1, AppendProperties DEF Typed
      <3>3. \A i \in 1 .. Len(runnables') : i \in 1 .. Len(r) \/ i = Len(r) + 1
        BY <3>2
      <3>4. RunnablesFit(runnables)'
        <4>1. \A i \in 1 .. Len(runnables') :
                \E p \in pending' : /\ key'[p] = runnables'[i] /\ told'[p] = <<>>
                                    /\ ~jump'[p] => \A q \in pending' : p <= q
          <5> SUFFICES ASSUME NEW i \in 1 .. Len(runnables')
                       PROVE  \E p \in pending' :
                                /\ key'[p] = runnables'[i] /\ told'[p] = <<>>
                                /\ ~jump'[p] => \A q \in pending' : p <= q
            OBVIOUS
          <5>1. CASE i \in 1 .. Len(r)
            BY <2>6, <3>2, <5>1
          <5>2. CASE i = Len(r) + 1
            BY <1>1, <1>3, <1>5, <2>1, <2>9, <3>2, <5>2
          <5> QED
            BY <3>3, <5>1, <5>2
        <4>2. \A i, j \in 1 .. Len(runnables') : runnables'[j] = runnables'[i] => j = i
          BY <2>1, <2>5, <2>6, <3>2, <3>3
        <4> QED
          BY <4>1, <4>2 DEF RunnablesFit
      <3>5. AloneAmong(runnables)'
        <4>1. \A p \in Asked(runnables)' : p = c \/ p \in Asked(r)
          <5> SUFFICES ASSUME NEW p \in pending', p # c, NEW i \in 1 .. Len(runnables'),
                              runnables'[i] = key'[p]
                       PROVE  p \in Asked(r)
            BY <2>7 DEF Asked
          <5>1. key'[p] = key[p] /\ p \in pending /\ key[p] # k
            BY <1>3, <1>5, <2>1
          <5>2. i \in 1 .. Len(r) /\ r[i] = key[p]
            BY <3>2, <3>3, <5>1
          <5> QED
            BY <5>1, <5>2 DEF Asked
        <4> QED
          BY <2>1, <2>8, <2>9, <4>1 DEF AloneAmong
      <3>6. AtLeast'
        BY <1>0, <1>1, <2>5, <3>1, <3>2 DEF TurnsInv, AtLeast, Typed
      <3> QED
        BY <2>2, <2>3, <2>4, <3>4, <3>5, <3>6 DEF TurnsInv
    <2>10. CASE ~aJumpQueue
      <3>1. DoAsyncAuthPrompt(pending', key', inProgress)
        BY <1>5, <2>10
      <3>2. RunnablesFit(r)'
        BY <2>6 DEF RunnablesFit
      <3>3. AloneAmong(r)'
        BY <2>7, <2>8 DEF AloneAmong, Asked
      <3>4. /\ inProgress \in Nat /\ r \in Seq(Key)
            /\ inProgress >= Len(r) + Len(stack')
        BY <1>0, <1>1, <2>5 DEF TurnsInv, AtLeast, Typed
      <3>5. inProgress = 0 => \A p \in pending' : told'[p] = <<>>
        <4>1. inProgress = 0 => Len(stack) = 0
          BY <1>0, <2>5, <3>4, LenProperties DEF Typed, TurnsInv, AtLeast
        <4>2. inProgress = 0 => \A p \in pending : told[p] = <<>>
          BY <1>0, <4>1 DEF TurnsInv, CallsOK, Typed
        <4> QED
          BY <1>1, <1>5, <4>2
      <3> DEFINE n == inProgress
                 keys == key'
      <3>6. n \in Nat /\ keys = key' /\ DoAsyncAuthPrompt(pending', keys, n)
            /\ n >= Len(r) + Len(stack') /\ (n = 0 => \A p \in pending' : told'[p] = <<>>)
        BY <3>1, <3>4, <3>5
      <3> HIDE DEF n, keys
      <3>7. RunnablesFit(runnables)' /\ AloneAmong(runnables)' /\ AtLeast'
        BY <1>0, <2>2, <2>5, <3>2, <3>3, <3>4, <3>6, DispatchInTurn
      <3> QED
        BY <2>2, <2>3, <2>4, <3>7 DEF TurnsInv
    <2> QED
      BY <2>9, <2>10
  <1> QED
    BY <1>2, <1>4, <1>5

(* The prompt of the first key on its way is put up: its entry goes from   *)
(* the runnables to the stack.                                             *)
LEMMA RunInTurn ==
    PrompterInv /\ PrompterInv' /\ TurnsInv /\ RunPrompt => TurnsInv'
  <1> SUFFICES ASSUME PrompterInv, PrompterInv', TurnsInv, RunPrompt
               PROVE  TurnsInv'
    OBVIOUS
  <1>0. Typed /\ Typed'
    BY Types, PTL
  <1>1. PICK p \in EntryOf(Head(runnables)) :
          /\ stack' = Append(stack, [entry |-> p, at |-> "prompt", ok |-> FALSE, left |-> {}])
          /\ told' = [told EXCEPT ![p] = Append(@, "start")]
    BY DEF RunPrompt
  <1>2. /\ runnables # <<>> /\ runnables' = Tail(runnables)
        /\ UNCHANGED <<lastCall, key, jump, bound, pending, inProgress, logins>>
    BY DEF RunPrompt
  <1>3. /\ Head(runnables) = runnables[1] /\ Len(runnables) \in Nat \ {0}
        /\ Len(runnables') = Len(runnables) - 1
        /\ \A i \in 1 .. Len(runnables') : runnables'[i] = runnables[i + 1]
                                           /\ i + 1 \in 1 .. Len(runnables) /\ i + 1 # 1
    <2>1. /\ Head(runnables) = runnables[1] /\ Len(runnables') = Len(runnables) - 1
          /\ \A i \in 1 .. Len(runnables') : runnables'[i] = runnables[i + 1]
      BY <1>0, <1>2, HeadTailProperties DEF Typed
    <2>2. Len(runnables) \in Nat \ {0}
      BY <1>0, <1>2, EmptySeq DEF Typed
    <2> QED
      BY <2>1, <2>2
  <1>4. /\ p \in pending /\ p \in Call /\ key[p] = runnables[1] /\ told[p] = <<>>
        /\ bound[p] = 0
    <2>1. p \in pending /\ p \in Call /\ key[p] = runnables[1]
      BY <1>0, <1>1, <1>3 DEF EntryOf, Typed
    <2>2. PICK q \in pending : key[q] = runnables[1] /\ told[q] = <<>>
      BY <1>3 DEF TurnsInv, RunnablesFit
    <2> QED
      BY <2>1, <2>2 DEF TurnsInv, KeysOnce, CallsOK
  <1>5. /\ \A c \in Call \ {p} : told'[c] = told[c]
        /\ told'[p] # <<>> /\ Len(told'[p]) = 1
    <2>1. told'[p] = Append(<<>>, "start") /\ \A c \in Call \ {p} : told'[c] = told[c]
      BY <1>0, <1>1, <1>4 DEF Typed
    <2> QED
      BY <2>1
  <1> DEFINE top == [entry |-> p, at |-> "prompt", ok |-> FALSE, left |-> {}]
  <1>6. /\ Len(stack') = Len(stack) + 1 /\ Len(stack) \in Nat
        /\ \A i \in 1 .. Len(stack) : stack'[i] = stack[i]
        /\ stack'[Len(stack) + 1] = top
    <2>1. top \in Frame
      BY <1>4 DEF Frame
    <2> HIDE DEF top
    <2>2. stack' = Append(stack, top)
      BY <1>1 DEF top
    <2> QED
      BY <1>0, <2>1, <2>2, AppendProperties DEF Typed
  <1>7. top.entry = p /\ top.at = "prompt" /\ top.left = {}
    OBVIOUS
  <1> HIDE DEF top
  <1>8. \A i \in 1 .. Len(stack') : i \in 1 .. Len(stack) \/ i = Len(stack) + 1
    BY <1>6
  <1>9. \A i \in 1 .. Len(stack) : /\ stack[i].entry # p /\ stack[i].entry \in Call
                                   /\ stack[i].left \in SUBSET Call
                                   /\ \A c \in stack[i].left : c # p
    <2>1. \A i \in 1 .. Len(stack) : /\ stack[i].entry \in Call
                                     /\ stack[i].left \in SUBSET Call
      BY <1>0 DEF Typed
    <2>2. \A i \in 1 .. Len(stack) :
            /\ told[stack[i].entry] # <<>>
            /\ \A c \in stack[i].left : bound[c] = stack[i].entry
      BY DEF TurnsInv, FramesOK
    <2> QED
      BY <1>4, <2>1, <2>2, CallsArePositive
  <1>10. KeysOnce'
    BY <1>2 DEF TurnsInv, KeysOnce
  <1>11. CallsOK'
    <2>1. \A c \in Call : Len(told'[c]) <= 1
      <3>1. \A c \in Call : Len(told[c]) <= 1
        BY DEF TurnsInv, CallsOK
      <3>2. Len(told'[p]) <= 1
        BY <1>5
      <3>3. \A c \in Call \ {p} : Len(told'[c]) <= 1
        BY <1>5, <3>1
      <3> QED
        BY <3>2, <3>3
    <2>2. p <= lastCall /\ 0 \notin pending /\ lastCall \in Nat /\ p \in Nat
      BY <1>0, <1>4 DEF Typed, Call
    <2>3. \A c \in Call : c \in pending /\ told'[c] # <<>> =>
            \E i \in 1 .. Len(stack') : stack'[i].entry = c
      <3>1. Len(stack) + 1 \in 1 .. Len(stack') /\ stack'[Len(stack) + 1].entry = p
        BY <1>6, <1>7
      <3>2. ASSUME NEW c \in Call, c \in pending, told'[c] # <<>>, c # p
            PROVE  \E i \in 1 .. Len(stack') : stack'[i].entry = c
        <4>1. PICK i \in 1 .. Len(stack) : stack[i].entry = c
          BY <1>5, <3>2 DEF TurnsInv, CallsOK
        <4>2. i \in 1 .. Len(stack') /\ stack'[i].entry = c
          BY <1>6, <4>1
        <4> QED
          BY <4>2
      <3> QED
        BY <3>1, <3>2
    <2>4. ~(p > lastCall)
      BY <2>2
    <2> QED
      BY <1>2, <1>4, <1>5, <2>1, <2>2, <2>3, <2>4 DEF TurnsInv, CallsOK
  <1>12. RunnablesFit(runnables)'
    <2>1. \A i, j \in 1 .. Len(runnables') : runnables'[j] = runnables'[i] => j = i
      BY <1>3 DEF TurnsInv, RunnablesFit
    <2>2. ASSUME NEW i \in 1 .. Len(runnables')
          PROVE  \E q \in pending' : /\ key'[q] = runnables'[i] /\ told'[q] = <<>>
                                     /\ ~jump'[q] => \A s \in pending' : q <= s
      <3>1. PICK q \in pending : /\ key[q] = runnables[i + 1] /\ told[q] = <<>>
                                 /\ ~jump[q] => \A s \in pending : q <= s
        BY <1>3 DEF TurnsInv, RunnablesFit
      <3>2. runnables[i + 1] # runnables[1]
        <4>1. 1 \in 1 .. Len(runnables)
          BY <1>3
        <4> QED
          BY <1>3, <4>1 DEF TurnsInv, RunnablesFit
      <3>3. q \in Call \ {p}
        BY <1>0, <1>4, <3>1, <3>2 DEF Typed
      <3> QED
        BY <1>2, <1>3, <1>5, <3>1, <3>3
    <2> QED
      BY <2>1, <2>2 DEF RunnablesFit
  <1>13. FramesOK'
    <2>1. ASSUME NEW i \in 1 .. Len(stack)
          PROVE  /\ stack'[i].entry <= lastCall' /\ told'[stack'[i].entry] # <<>>
                 /\ stack'[i].at = "prompt" <=> stack'[i].entry \in pending'
                 /\ \A c \in stack'[i].left : bound'[c] = stack'[i].entry /\ told'[c] = <<>>
      <3>1. /\ stack[i].entry <= lastCall /\ told[stack[i].entry] # <<>>
            /\ stack[i].at = "prompt" <=> stack[i].entry \in pending
            /\ \A c \in stack[i].left : bound[c] = stack[i].entry /\ told[c] = <<>>
        BY DEF TurnsInv, FramesOK
      <3>2. /\ told'[stack[i].entry] = told[stack[i].entry]
            /\ \A c \in stack[i].left : told'[c] = told[c]
        BY <1>5, <1>9
      <3> QED
        BY <1>2, <1>6, <3>1, <3>2
    <2>2. /\ top.entry <= lastCall' /\ told'[top.entry] # <<>>
          /\ top.at = "prompt" <=> top.entry \in pending'
          /\ \A c \in top.left : bound'[c] = top.entry /\ told'[c] = <<>>
      BY <1>0, <1>2, <1>4, <1>5, <1>7 DEF Typed
    <2>3. \A i, j \in 1 .. Len(stack') : stack'[j].entry = stack'[i].entry => j = i
      BY <1>6, <1>7, <1>8, <1>9 DEF TurnsInv, FramesOK
    <2> QED
      BY <1>6, <1>8, <2>1, <2>2, <2>3 DEF FramesOK
  <1>14. AloneAmong(runnables)'
    <2>1. p \in Asked(runnables)
      <3>1. 1 \in 1 .. Len(runnables)
        BY <1>3
      <3> QED
        BY <1>4, <3>1 DEF Asked
    <2>2. ASSUME NEW q \in Asked(runnables)'
          PROVE  q \in Asked(runnables)
      <3>1. CASE q \in pending /\ \E i \in 1 .. Len(runnables') : runnables'[i] = key[q]
        BY <1>3, <3>1 DEF Asked
      <3>2. CASE \E i \in 1 .. Len(stack') : q = stack'[i].entry
        BY <1>6, <1>7, <1>8, <2>1, <3>2 DEF Asked
      <3> QED
        BY <1>2, <3>1, <3>2 DEF Asked
    <2> QED
      BY <1>2, <2>2 DEF TurnsInv, AloneAmong
  <1>15. AtLeast'
    BY <1>0, <1>2, <1>3, <1>6 DEF TurnsInv, AtLeast, Typed
  <1> QED
    BY <1>10, <1>11, <1>12, <1>13, <1>14, <1>15 DEF TurnsInv

(* The login manager has failed: a key is dropped. *)
LEMMA FailInTurn ==
    PrompterInv /\ PrompterInv' /\ TurnsInv /\ RunFails => TurnsInv'
  <1> SUFFICES ASSUME PrompterInv, PrompterInv', TurnsInv, RunFails
               PROVE  TurnsInv'
    OBVIOUS
  <1>0. Typed /\ Typed'
    BY Types, PTL
  <1>1. /\ runnables # <<>> /\ runnables' = Tail(runnables)
        /\ UNCHANGED <<lastCall, key, jump, bound, pending, inProgress, stack, told>>
    BY DEF RunFails
  <1>2. /\ Len(runnables) \in Nat \ {0}
        /\ Len(runnables') = Len(runnables) - 1
        /\ \A i \in 1 .. Len(runnables') : runnables'[i] = runnables[i + 1]
                                           /\ i + 1 \in 1 .. Len(runnables)
    <2>1. /\ Len(runnables') = Len(runnables) - 1
          /\ \A i \in 1 .. Len(runnables') : runnables'[i] = runnables[i + 1]
      BY <1>0, <1>1, HeadTailProperties DEF Typed
    <2>2. Len(runnables) \in Nat \ {0}
      BY <1>0, <1>1, EmptySeq DEF Typed
    <2> QED
      BY <2>1, <2>2
  <1>3. KeysOnce' /\ CallsOK' /\ FramesOK'
    BY <1>1 DEF TurnsInv, KeysOnce, CallsOK, FramesOK
  <1>4. RunnablesFit(runnables)'
    <2>1. \A i, j \in 1 .. Len(runnables') : runnables'[j] = runnables'[i] => j = i
      BY <1>2, SMTT(20) DEF TurnsInv, RunnablesFit
    <2>2. ASSUME NEW i \in 1 .. Len(runnables')
          PROVE  \E q \in pending' : /\ key'[q] = runnables'[i] /\ told'[q] = <<>>
                                     /\ ~jump'[q] => \A s \in pending' : q <= s
      BY <1>1, <1>2 DEF TurnsInv, RunnablesFit
    <2> QED
      BY <2>1, <2>2 DEF RunnablesFit
  <1>5. AloneAmong(runnables)'
    <2>1. ASSUME NEW q \in Asked(runnables)'
          PROVE  q \in Asked(runnables)
      BY <1>1, <1>2 DEF Asked
    <2> QED
      BY <1>1, <2>1 DEF TurnsInv, AloneAmong
  <1>6. AtLeast'
    BY <1>0, <1>1, <1>2 DEF TurnsInv, AtLeast, Typed
  <1> QED
    BY <1>3, <1>4, <1>5, <1>6 DEF TurnsInv

(* A run ends, and the oldest entry gets its turn; or its next consumer is *)
(* told, which happens once since a consumer is bound to one entry.        *)
LEMMA NotifyInTurn ==
    ASSUME PrompterInv, PrompterInv', TurnsInv, stack # <<>>,
           NEW p \in Call, p = Top.entry, NEW ok \in BOOLEAN, NEW left \in SUBSET Call,
           NotifyConsumers(p, ok, left), pending' = pending \ {p},
           \A c \in left : bound[c] = p /\ told[c] = <<>>,
           UNCHANGED <<lastCall, key, jump, bound, logins>>
    PROVE  TurnsInv'
  <1>0. Typed /\ Typed'
    BY Types, PTL
  <1> DEFINE top == Len(stack)
  <1>1. /\ top \in Nat \ {0} /\ top \in 1 .. Len(stack) /\ stack[top].entry = p
        /\ told[p] # <<>> /\ p <= lastCall
        /\ \A i \in 1 .. Len(stack) : i # top => stack[i].entry # p
    <2>1. top \in Nat \ {0}
      BY <1>0, EmptySeq DEF Typed
    <2>2. top \in 1 .. Len(stack) /\ stack[top].entry = p
      BY <2>1 DEF Top
    <2> QED
      BY <2>1, <2>2 DEF TurnsInv, FramesOK
  <1> HIDE DEF top
  <1>2. KeysOnce'
    BY DEF TurnsInv, KeysOnce
  <1>3. /\ \A q \in pending : told[q] = <<>> => q \in pending'
        /\ \A q \in pending' : q \in pending /\ q # p /\ q \in Call /\ bound[q] = 0
        /\ \A c \in left : bound[c] # 0 /\ c \notin pending
    <2>1. p # 0
      BY DEF Call
    <2> QED
      BY <1>0, <1>1, <2>1 DEF Typed, TurnsInv, CallsOK
  <1>4. ASSUME left = {}, stack' = SubSeq(stack, 1, Len(stack) - 1), RunEnds(pending'),
               UNCHANGED told
        PROVE  TurnsInv'
    <2>1. /\ Len(stack') = top - 1 /\ top - 1 \in Nat
          /\ \A i \in 1 .. Len(stack') : /\ stack'[i] = stack[i] /\ i \in 1 .. Len(stack)
                                         /\ i # top
      <3> DEFINE m == top - 1
      <3>1. m \in Nat /\ m <= Len(stack) /\ m - 1 + 1 = m
            /\ \A i \in 1 .. m : i \in 1 .. Len(stack) /\ i # top /\ 1 + i - 1 = i
        BY <1>1 DEF top
      <3>2. \A i \in 1 .. m : stack[i] \in Frame
        BY <1>0, <3>1 DEF Typed
      <3> HIDE DEF m
      <3>3. /\ Len(SubSeq(stack, 1, m)) = IF 1 <= m THEN m - 1 + 1 ELSE 0
            /\ \A i \in 1 .. m - 1 + 1 : SubSeq(stack, 1, m)[i] = stack[1 + i - 1]
        BY <3>1, <3>2, SubSeqProperties
      <3>4. Len(SubSeq(stack, 1, m)) = m /\ \A i \in 1 .. m : SubSeq(stack, 1, m)[i] = stack[i]
        BY <3>1, <3>3
      <3> QED
        BY <1>4, <3>1, <3>4 DEF m, top
    <2>2. FramesOK'
      <3>1. ASSUME NEW i \in 1 .. Len(stack')
            PROVE  /\ stack'[i].entry <= lastCall' /\ told'[stack'[i].entry] # <<>>
                   /\ stack'[i].at = "prompt" <=> stack'[i].entry \in pending'
                   /\ \A c \in stack'[i].left : bound'[c] = stack'[i].entry /\ told'[c] = <<>>
        <4>1. stack'[i] = stack[i] /\ i \in 1 .. Len(stack) /\ stack[i].entry # p
          BY <1>1, <2>1
        <4> QED
          BY <1>4, <4>1 DEF TurnsInv, FramesOK
      <3>2. \A i, j \in 1 .. Len(stack') : stack'[j].entry = stack'[i].entry => j = i
        BY <2>1 DEF TurnsInv, FramesOK
      <3> QED
        BY <3>1, <3>2 DEF FramesOK
    <2>3. CallsOK'
      <3>1. ASSUME NEW c \in Call, c \in pending', told[c] # <<>>
            PROVE  \E i \in 1 .. Len(stack') : stack'[i].entry = c
        <4>1. PICK i \in 1 .. Len(stack) : stack[i].entry = c
          BY <1>3, <3>1 DEF TurnsInv, CallsOK
        <4>2. i # top
          BY <1>1, <1>3, <3>1, <4>1
        <4>3. i \in 1 .. Len(stack')
          BY <1>1, <2>1, <4>2 DEF top
        <4> QED
          BY <2>1, <4>1, <4>3
      <3> QED
        BY <1>3, <1>4, <3>1 DEF TurnsInv, CallsOK
    <2>4. PICK r : r = runnables
      OBVIOUS
    <2>5. RunnablesFit(r)'
      BY <1>3, <1>4, <2>4 DEF TurnsInv, RunnablesFit
    <2>6. AloneAmong(r)'
      <3>1. ASSUME NEW q \in Asked(r)'
            PROVE  q \in Asked(r)
        BY <2>1, <2>4 DEF Asked
      <3> QED
        BY <2>4, <3>1 DEF TurnsInv, AloneAmong
    <2>7. inProgress - 1 \in Nat /\ inProgress - 1 >= Len(r) + Len(stack')
      BY <1>0, <1>1, <2>1, <2>4 DEF TurnsInv, AtLeast, Typed, top
    <2>8. inProgress - 1 = 0 => \A q \in pending' : told'[q] = <<>>
      <3>1. inProgress - 1 = 0 => Len(stack') = 0
        <4>1. Len(r) \in Nat /\ Len(stack') \in Nat /\ inProgress \in Nat
          BY <1>0, <2>4 DEF Typed
        <4> QED
          BY <2>7, <4>1
      <3>2. Len(stack') = 0 => \A q \in pending' : told'[q] = <<>>
        <4>1. \A q \in pending' : q \in Call
          BY <1>3
        <4> QED
          BY <2>3, <4>1 DEF CallsOK
      <3> QED
        BY <3>1, <3>2
    <2>9. PICK n, keys : n = inProgress - 1 /\ keys = key'
      OBVIOUS
    <2>10. DoAsyncAuthPrompt(pending', keys, n)
      BY <1>4, <2>9 DEF RunEnds
    <2>11. RunnablesFit(runnables)' /\ AloneAmong(runnables)' /\ AtLeast'
      <3>1. n \in Nat /\ r \in Seq(Key) /\ n >= Len(r) + Len(stack')
            /\ (n = 0 => \A q \in pending' : told'[q] = <<>>)
        BY <1>0, <2>4, <2>7, <2>8, <2>9 DEF Typed
      <3> QED
        BY <1>0, <1>2, <2>4, <2>5, <2>6, <2>9, <2>10, <3>1, DispatchInTurn
    <2> QED
      BY <1>2, <2>2, <2>3, <2>11 DEF TurnsInv
  <1>5. ASSUME NEW c \in left,
               told' = [told EXCEPT ![c] = Append(@, IF ok THEN "available" ELSE "canceled")],
               stack' = [stack EXCEPT ![Len(stack)] =
                           [entry |-> p, at |-> "consumer", ok |-> ok, left |-> left \ {c}]],
               UNCHANGED <<inProgress, runnables>>
        PROVE  TurnsInv'
    <2>1. /\ Len(stack') = Len(stack)
          /\ \A i \in 1 .. Len(stack) : i # top => stack'[i] = stack[i]
          /\ stack'[top] = [entry |-> p, at |-> "consumer", ok |-> ok, left |-> left \ {c}]
      BY <1>0, <1>1, <1>5 DEF top, Typed
    <2>2. stack'[top].entry = p /\ stack'[top].at = "consumer" /\ stack'[top].left = left \ {c}
      BY <2>1
    <2>3. \A i \in 1 .. Len(stack) : stack'[i].entry = stack[i].entry
      BY <1>1, <2>1, <2>2
    <2>4. /\ c \in Call /\ Len(told'[c]) = 1 /\ \A d \in Call \ {c} : told'[d] = told[d]
          /\ told'[c] # <<>>
      BY <1>0, <1>5 DEF Typed
    <2>5. /\ bound[c] = p /\ bound[c] # 0 /\ c \notin pending
          /\ p \in Call
      BY <1>3
    <2>6. FramesOK'
      <3>1. ASSUME NEW i \in 1 .. Len(stack), i # top
            PROVE  /\ stack'[i].entry <= lastCall' /\ told'[stack'[i].entry] # <<>>
                   /\ stack'[i].at = "prompt" <=> stack'[i].entry \in pending'
                   /\ \A d \in stack'[i].left : bound'[d] = stack'[i].entry /\ told'[d] = <<>>
        <4>1. stack'[i] = stack[i] /\ stack[i].entry # p /\ stack[i].entry \in Call
              /\ stack[i].left \in SUBSET Call
          BY <1>0, <1>1, <2>1, <3>1 DEF Typed
        <4>2. /\ stack[i].entry <= lastCall /\ told[stack[i].entry] # <<>>
              /\ stack[i].at = "prompt" <=> stack[i].entry \in pending
              /\ \A d \in stack[i].left : bound[d] = stack[i].entry /\ told[d] = <<>>
          BY DEF TurnsInv, FramesOK
        <4>3. /\ told'[stack[i].entry] # <<>>
              /\ \A d \in stack[i].left : d # c /\ told'[d] = told[d]
          BY <2>4, <2>5, <4>1, <4>2
        <4> QED
          BY <4>1, <4>2, <4>3
      <3>2. /\ stack'[top].entry <= lastCall' /\ told'[stack'[top].entry] # <<>>
            /\ stack'[top].at = "prompt" <=> stack'[top].entry \in pending'
            /\ \A d \in stack'[top].left : bound'[d] = stack'[top].entry /\ told'[d] = <<>>
        BY <1>1, <1>3, <2>2, <2>4
      <3>3. \A i, j \in 1 .. Len(stack') : stack'[j].entry = stack'[i].entry => j = i
        BY <2>1, <2>3 DEF TurnsInv, FramesOK
      <3> QED
        BY <2>1, <3>1, <3>2, <3>3 DEF FramesOK
    <2>7. CallsOK'
      <3>1. \A d \in Call : Len(told'[d]) <= 1
        <4>1. \A d \in Call : Len(told[d]) <= 1
          BY DEF TurnsInv, CallsOK
        <4>2. Len(told'[c]) <= 1
          BY <2>4
        <4>3. \A d \in Call \ {c} : Len(told'[d]) <= 1
          BY <2>4, <4>1
        <4> QED
          BY <4>2, <4>3
      <3>2. \A d \in Call : d \in pending' /\ told'[d] # <<>> =>
              \E i \in 1 .. Len(stack') : stack'[i].entry = d
        BY <1>3, <2>1, <2>3, <2>4, <2>5 DEF TurnsInv, CallsOK
      <3>3. ~(c > lastCall)
        BY <2>5 DEF TurnsInv, CallsOK
      <3> QED
        BY <1>3, <2>4, <2>5, <3>1, <3>2, <3>3 DEF TurnsInv, CallsOK
    <2>8. RunnablesFit(runnables)'
      <3>1. \A i, j \in 1 .. Len(runnables') : runnables'[j] = runnables'[i] => j = i
        BY <1>5 DEF TurnsInv, RunnablesFit
      <3>2. ASSUME NEW i \in 1 .. Len(runnables')
            PROVE  \E q \in pending' : /\ key'[q] = runnables'[i] /\ told'[q] = <<>>
                                       /\ ~jump'[q] => \A s \in pending' : q <= s
        <4>1. PICK q \in pending : /\ key[q] = runnables[i] /\ told[q] = <<>>
                                   /\ ~jump[q] => \A s \in pending : q <= s
          BY <1>5, <3>2 DEF TurnsInv, RunnablesFit
        <4>2. q \in pending' /\ q # c /\ q \in Call
          BY <1>3, <2>5, <4>1
        <4> QED
          BY <1>3, <1>5, <2>4, <4>1, <4>2
      <3> QED
        BY <3>1, <3>2 DEF RunnablesFit
    <2>9. AloneAmong(runnables)'
      <3>1. ASSUME NEW q \in Asked(runnables)'
            PROVE  q \in Asked(runnables)
        <4>1. CASE q \in pending' /\ \E i \in 1 .. Len(runnables) : runnables[i] = key[q]
          BY <4>1 DEF Asked
        <4>2. CASE \E i \in 1 .. Len(stack) : q = stack[i].entry
          BY <4>2 DEF Asked
        <4>3. \/ q \in pending' /\ \E i \in 1 .. Len(runnables') : runnables'[i] = key'[q]
              \/ \E i \in 1 .. Len(stack') : q = stack'[i].entry
          BY DEF Asked
        <4> QED
          BY <1>5, <2>1, <2>3, <4>1, <4>2, <4>3
      <3> QED
        BY <3>1 DEF TurnsInv, AloneAmong
    <2>10. AtLeast'
      BY <1>5, <2>1 DEF TurnsInv, AtLeast
    <2> QED
      BY <1>2, <2>6, <2>7, <2>8, <2>9, <2>10 DEF TurnsInv
  <1> QED
    BY <1>4, <1>5 DEF NotifyConsumers

LEMMA TurnsStep == PrompterInv /\ PrompterInv' /\ TurnsInv /\ [Next]_vars => TurnsInv'
  <1> SUFFICES ASSUME PrompterInv, PrompterInv', TurnsInv, [Next]_vars
               PROVE  TurnsInv'
    OBVIOUS
  <1>0. Typed
    BY Types
  <1>1. CASE QueueAsyncAuthPrompt
    BY <1>1, CallInTurn
  <1>2. CASE RunPrompt
    BY <1>2, RunInTurn
  <1>3. CASE RunFails
    BY <1>3, FailInTurn
  <1>4. ASSUME stack # <<>>
        PROVE  /\ Top.entry \in Call /\ Top.ok \in BOOLEAN /\ Top.left \in SUBSET Call
               /\ Top.at = "prompt" <=> Top.entry \in pending
               /\ \A c \in Top.left : bound[c] = Top.entry /\ told[c] = <<>>
    <2>1. Len(stack) \in 1 .. Len(stack)
      BY <1>0, <1>4, EmptySeq DEF Typed
    <2> QED
      BY <1>0, <2>1 DEF Top, Typed, TurnsInv, FramesOK, Frame
  <1>5. CASE PromptEnds
    <2>1. PICK ok \in BOOLEAN : NotifyConsumers(Top.entry, ok, Consumers(Top.entry))
      BY <1>5 DEF PromptEnds
    <2>2. /\ stack # <<>> /\ pending' = pending \ {Top.entry} /\ Top.entry \in pending
          /\ UNCHANGED <<lastCall, key, jump, bound, logins>>
      BY <1>4, <1>5 DEF PromptEnds, DeleteEntry
    <2>3. /\ Consumers(Top.entry) \in SUBSET Call
          /\ \A c \in Consumers(Top.entry) : bound[c] = Top.entry /\ told[c] = <<>>
      <3>1. Consumers(Top.entry) \in SUBSET Call
        BY <1>0, PrompterAssumption DEF Typed, Consumers, Call
      <3> QED
        BY <2>2, <3>1 DEF Consumers, TurnsInv, CallsOK
    <2> QED
      BY <1>4, <2>1, <2>2, <2>3, NotifyInTurn
  <1>6. CASE ConsumerReturns
    <2>1. /\ stack # <<>> /\ Top.at = "consumer" /\ pending' = pending
          /\ UNCHANGED <<lastCall, key, jump, bound, logins>>
          /\ NotifyConsumers(Top.entry, Top.ok, Top.left)
      BY <1>6 DEF ConsumerReturns
    <2>2. pending' = pending \ {Top.entry}
      BY <1>4, <2>1
    <2> QED
      BY <1>4, <2>1, <2>2, NotifyInTurn
  <1>7. CASE LoginsSettle
    BY <1>7 DEF LoginsSettle, TurnsInv, KeysOnce, CallsOK, RunnablesFit, FramesOK,
                AloneAmong, Asked, AtLeast
  <1>8. CASE UNCHANGED vars
    BY <1>8 DEF vars, TurnsInv, KeysOnce, CallsOK, RunnablesFit, FramesOK,
                AloneAmong, Asked, AtLeast
  <1> QED
    BY <1>1, <1>2, <1>3, <1>5, <1>6, <1>7, <1>8 DEF Next, PrompterSteps

LEMMA TurnsInit == Init => TurnsInv
  <1> SUFFICES ASSUME Init PROVE TurnsInv
    OBVIOUS
  <1>1. Len(stack) = 0 /\ Len(runnables) = 0 /\ pending = {} /\ inProgress = 0 /\ lastCall = 0
    BY EmptySeq DEF Init
  <1>2. \A c \in Call : told[c] = <<>> /\ bound[c] = 0 /\ Len(<<>>) = 0
    BY EmptySeq DEF Init
  <1>3. CallsOK
    BY <1>1, <1>2 DEF CallsOK
  <1> QED
    BY <1>1, <1>3 DEF TurnsInv, KeysOnce, RunnablesFit, FramesOK, AloneAmong, Asked, AtLeast

LEMMA TurnsInvariant == Spec => [](PrompterInv /\ TurnsInv)
  <1>1. Init => PrompterInv /\ TurnsInv
    BY InitHolds, TurnsInit
  <1>2. PrompterInv /\ TurnsInv /\ [Next]_vars => (PrompterInv /\ TurnsInv)'
    BY StepHolds, TurnsStep
  <1> QED
    BY <1>1, <1>2, PTL DEF Spec

(* The listener of a call is called once, however dialogues and calls of   *)
(* the same key nest: its own prompt, or the outcome of another's.         *)
THEOREM EveryoneToldOnce == Spec => []ToldOnce
  <1>1. TurnsInv => ToldOnce
    BY DEF TurnsInv, CallsOK, ToldOnce
  <1> QED
    BY <1>1, TurnsInvariant, PTL

(* At most one of the prompts in progress has waited for its turn.         *)
THEOREM OneQuestion == Spec => []OneAtATime
  <1>1. PrompterInv /\ TurnsInv => OneAtATime
    <2> SUFFICES ASSUME PrompterInv, TurnsInv PROVE OneAtATime
      OBVIOUS
    <2> DEFINE S == {p \in InProgress : ~jump[p]}
    <2>1. InProgress = Asked(runnables)
      <3>1. Typed /\ DOMAIN runnables = 1 .. Len(runnables) /\ DOMAIN stack = 1 .. Len(stack)
        BY Types, LenProperties DEF Typed
      <3>2. ASSUME NEW p
            PROVE  p \in UNION {EntryOf(runnables[i]) : i \in DOMAIN runnables}
                     <=> p \in pending /\ \E i \in 1 .. Len(runnables) : runnables[i] = key[p]
        BY <3>1 DEF EntryOf
      <3>3. ASSUME NEW p
            PROVE  p \in {stack[i].entry : i \in DOMAIN stack}
                     <=> \E i \in 1 .. Len(stack) : p = stack[i].entry
        BY <3>1
      <3>4. ASSUME NEW p
            PROVE  p \in InProgress <=> p \in Asked(runnables)
        <4>1. p \in InProgress
                <=> \/ p \in pending /\ \E i \in 1 .. Len(runnables) : runnables[i] = key[p]
                    \/ \E i \in 1 .. Len(stack) : p = stack[i].entry
          BY <3>2, <3>3, Zenon DEF InProgress
        <4>2. p \in Asked(runnables)
                <=> \/ p \in pending /\ \E i \in 1 .. Len(runnables) : runnables[i] = key[p]
                    \/ \E i \in 1 .. Len(stack) : p = stack[i].entry
          BY DEF Asked
        <4> QED
          BY <4>1, <4>2
      <3> QED
        BY <3>4
    <2>2. \A p, q \in S : p = q
      BY <2>1 DEF TurnsInv, AloneAmong
    <2>3. CASE S = {}
      BY <2>3, FS_EmptySet DEF OneAtATime
    <2>4. CASE S # {}
      <3>1. PICK p \in S : TRUE
        BY <2>4
      <3>2. S = {p}
        BY <2>2, <3>1
      <3>3. Cardinality({p}) = 1
        BY FS_Singleton
      <3> QED
        BY <3>2, <3>3 DEF OneAtATime
    <2> QED
      BY <2>3, <2>4
  <1> QED
    BY <1>1, TurnsInvariant, PTL

(* Prompts that waited for their turn are put up in the order of the calls *)
(* that made their entries.                                                *)
THEOREM PromptsInTurn == Spec => InTurn
  <1>1. PrompterInv /\ TurnsInv /\ [Next]_vars =>
          (\A p \in pending : told'[p] # told[p] /\ ~jump[p] =>
             \A q \in pending : q < p => told[q] # <<>>)
    <2> SUFFICES ASSUME PrompterInv, TurnsInv, [Next]_vars,
                        NEW p \in pending, told'[p] # told[p], ~jump[p],
                        NEW q \in pending, q < p
                 PROVE  FALSE
      OBVIOUS
    <2>0. Typed /\ p \in Call /\ q \in Call /\ p \in Nat /\ q \in Nat /\ bound[p] = 0
      BY Types DEF Typed, Call, TurnsInv, CallsOK
    <2>1. CASE RunPrompt
      <3>1. PICK s \in EntryOf(Head(runnables)) : told' = [told EXCEPT ![s] = Append(@, "start")]
        BY <2>1 DEF RunPrompt
      <3>2. Head(runnables) = runnables[1] /\ 1 \in 1 .. Len(runnables)
        <4>1. runnables # <<>> /\ runnables \in Seq(Key) /\ Len(runnables) \in Nat
          BY <2>0, <2>1 DEF RunPrompt, Typed
        <4> QED
          BY <4>1, EmptySeq, HeadTailProperties
      <3>3. p = s /\ key[p] = runnables[1]
        BY <2>0, <3>1, <3>2 DEF Typed, EntryOf
      <3>4. PICK t \in pending : /\ key[t] = runnables[1]
                                 /\ ~jump[t] => \A u \in pending : t <= u
        BY <3>2 DEF TurnsInv, RunnablesFit
      <3>5. t = p
        BY <3>3, <3>4 DEF TurnsInv, KeysOnce
      <3>6. p <= q
        BY <3>4, <3>5
      <3> QED
        BY <2>0, <3>6
    <2>2. CASE PromptEnds \/ ConsumerReturns
      <3>1. stack # <<>>
        BY <2>2 DEF PromptEnds, ConsumerReturns
      <3>2. Top.entry \in Call /\ \A c \in Top.left : bound[c] = Top.entry
        <4>1. Len(stack) \in 1 .. Len(stack)
          BY <2>0, <3>1, EmptySeq DEF Typed
        <4> QED
          BY <2>0, <4>1 DEF Top, Typed, TurnsInv, FramesOK
      <3>3. \A c \in Top.left \cup Consumers(Top.entry) : bound[c] # 0
        BY <3>2 DEF Consumers, Call
      <3>4. UNCHANGED told \/ \E c \in Top.left \cup Consumers(Top.entry) : \E a :
                                told' = [told EXCEPT ![c] = a]
        BY <2>2 DEF PromptEnds, ConsumerReturns, NotifyConsumers
      <3> QED
        BY <2>0, <3>3, <3>4 DEF Typed
    <2>3. CASE UNCHANGED told
      BY <2>3
    <2>4. QueueAsyncAuthPrompt \/ RunFails \/ LoginsSettle \/ UNCHANGED vars => UNCHANGED told
      BY DEF QueueAsyncAuthPrompt, RunFails, LoginsSettle, vars
    <2> QED
      BY <2>1, <2>2, <2>3, <2>4 DEF Next, PrompterSteps
  <1> QED
    BY <1>1, TurnsInvariant, PTL DEF Spec, InTurn
=============================================================================
