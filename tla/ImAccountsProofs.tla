-------------------------- MODULE ImAccountsProofs --------------------------
(***************************************************************************)
(* Proofs about ImAccounts, for any finite set of accounts and any bounds. *)
(***************************************************************************)
EXTENDS ImAccounts, FiniteSetTheorems, TLAPS

Pending(rec) == {a \in Accounts : rec[a].pending}

(* What the handlers of one account have in common: none starts an         *)
(* automatic login, each new mark of a first connection is saved, none but *)
(* a welcome makes a connection the first good one, and what is connecting *)
(* is marked.                                                              *)
Step(s, t) ==
    /\ t \in Account
    /\ t.pending => s.pending
    /\ s.save => t.save
    /\ t.first = "pending" => s.first = "pending" \/ t.save
    /\ t.first = "ok" => s.first = "ok"
    /\ t.conn = "connecting" =>
         \/ t.first \in {"ok", "pending"}
         \/ s.conn = "connecting" /\ t.first = s.first
    /\ t.info = s.info

(* The counter is that of the accounts that are being logged in, and the   *)
(* preference says whether there are any.                                  *)
LoginsCounted ==
    /\ count = Cardinality(Pending(acc))
    /\ running \in {"starting", "up"} => (loginPref <=> count > 0)
    /\ loginPref => disk.login
    /\ running # "up" \/ autoLoginStatus = "crash" => Pending(acc) = {}

(* A first connection is marked in the file as long as it lasts. *)
Marked ==
    \A a \in Accounts :
        /\ ~acc[a].save
        /\ acc[a].first = "pending" => disk.first[a] = "pending"
        /\ acc[a].first = "ok" => a \in finished
        /\ acc[a].conn = "connecting" /\ ~acc[a].info => acc[a].first \in {"ok", "pending"}

AllFresh == running \in {"quit", "crashed"} => \A a \in Accounts : acc[a] = Fresh(acc[a].first)

(* A suspect account is left alone, and the next start will know it. *)
LeftAlone(s) ==
    /\ s.conn = "disconnected" /\ ~s.observing /\ s.timer = "none" /\ s.lostTimers = 0
    /\ s.attempt = 0 /\ ~s.info /\ s.sock = "none" /\ ~s.quit
Suspected(a) ==
    /\ LeftAlone(acc[a])
    /\ acc[a].first \in (IF running \in {"quit", "crashed"} THEN {"pending", "crashed"}
                         ELSE {"crashed"})
    /\ disk.first[a] \in {"pending", "crashed"}
    /\ running = "up" => acc[a].imReason = "crashed"

AccountsInv ==
    /\ TypeOK /\ LoginsCounted /\ Marked /\ AllFresh /\ QuitIsClean
    /\ \A a \in suspect : Suspected(a)
-----------------------------------------------------------------------------
(* The handlers of one account. *)
LEMMA StepRefl == ASSUME NEW s \in Account PROVE Step(s, s)
  BY DEF Step

LEMMA StepTrans ==
    ASSUME NEW s \in Account, NEW t \in Account, NEW u, Step(s, t), Step(t, u)
    PROVE  Step(s, u)
  BY DEF Step

LEMMA CancelStep == ASSUME NEW s \in Account PROVE Step(s, CancelReconnection(s))
  BY DEF Step, CancelReconnection, Account

LEMMA TimerStep == ASSUME NEW s \in Account PROVE Step(s, StartReconnectTimer(s))
  <1> DEFINE n == IF s.timer = "none" THEN s.lostTimers ELSE s.lostTimers + 1
             w == IF s.attempt = 0 THEN "near" ELSE "far"
             t == [s EXCEPT !.attempt = 1, !.timer = w, !.lostTimers = n]
  <1>1. n \in Nat /\ w \in {"near", "far"}
    BY DEF Account
  <1> HIDE DEF n, w
  <1>2. t \in Account
    BY <1>1 DEF Account
  <1>3. /\ t.pending = s.pending /\ t.save = s.save /\ t.first = s.first
        /\ t.conn = s.conn /\ t.info = s.info
    BY DEF Account
  <1>4. StartReconnectTimer(s) = s \/ StartReconnectTimer(s) = t
    BY DEF StartReconnectTimer, n, w
  <1> QED
    BY <1>2, <1>3, <1>4 DEF Step

LEMMA SetFirstType ==
    ASSUME NEW s \in Account, NEW f \in FirstState
    PROVE  SetFirst(s, f) \in Account
  BY DEF Account, SetFirst, SaveFirst

LEMMA SetFirstSaves ==
    ASSUME NEW s \in Account, NEW f \in FirstState
    PROVE  SetFirst(s, f).save <=> (s.save \/ f = "pending")
  BY DEF Account, SetFirst, SaveFirst

LEMMA SetFirstFields ==
    ASSUME NEW s \in Account, NEW f \in FirstState
    PROVE  LET t == SetFirst(s, f) IN
           /\ t.first = f /\ t.conn = s.conn /\ t.pending = s.pending
           /\ t.info = s.info
  BY DEF Account, SetFirst, SaveFirst

(* Marking it pending, and taking the mark away from what is no longer     *)
(* connecting.                                                             *)
LEMMA SetPendingStep == ASSUME NEW s \in Account PROVE Step(s, SetFirst(s, "pending"))
  <1>1. "pending" \in FirstState
    BY DEF FirstState
  <1> QED
    BY <1>1, SetFirstType, SetFirstSaves, SetFirstFields DEF Step

LEMMA SetConnStep ==
    ASSUME NEW s \in Account, NEW c \in ConnState,
           c = "connecting" => s.first \in {"ok", "pending"}
    PROVE  Step(s, [s EXCEPT !.conn = c])
  <1> DEFINE t == [s EXCEPT !.conn = c]
  <1>1. t \in Account
    BY DEF Account
  <1>2. /\ t.pending = s.pending /\ t.save = s.save /\ t.first = s.first
        /\ t.conn = c /\ t.info = s.info
    BY DEF Account
  <1> QED
    BY <1>1, <1>2 DEF Step

LEMMA ConnectingStep == ASSUME NEW s \in Account PROVE Step(s, AccountConnecting(s))
  <1> DEFINE t == IF s.reason # "none" /\ s.timer = "far" THEN CancelReconnection(s) ELSE s
             u == IF t.first = "ok" THEN t ELSE SetFirst(t, "pending")
  <1>1. t \in Account /\ Step(s, t)
    <2>1. t = s \/ t = CancelReconnection(s)
      OBVIOUS
    <2> QED
      BY <2>1, CancelStep, StepRefl DEF Step
  <1>2. AccountConnecting(s) = [u EXCEPT !.conn = "connecting"]
    BY DEF AccountConnecting
  <1> HIDE DEF t
  <1>3. Step(t, u) /\ u \in Account /\ u.first \in {"ok", "pending"}
    <2>1. CASE t.first = "ok"
      BY <1>1, <2>1, StepRefl
    <2>2. CASE t.first # "ok"
      <3>1. u = SetFirst(t, "pending") /\ "pending" \in FirstState
        BY <2>2 DEF FirstState
      <3> QED
        BY <1>1, <3>1, SetPendingStep, SetFirstType, SetFirstFields
    <2> QED
      BY <2>1, <2>2
  <1> HIDE DEF u
  <1>4. Step(u, [u EXCEPT !.conn = "connecting"])
    BY <1>3, SetConnStep DEF ConnState
  <1> QED
    BY <1>1, <1>2, <1>3, <1>4, StepTrans

LEMMA PrplConnectStep == ASSUME NEW s \in Account PROVE Step(s, PrplConnect(s))
  <1> DEFINE t == AccountConnecting(s)
             u == [t EXCEPT !.sock = "opening"]
  <1>1. Step(s, t) /\ t \in Account
    BY ConnectingStep DEF Step
  <1>2. PrplConnect(s) = u
    BY DEF PrplConnect
  <1> HIDE DEF t
  <1>3. u \in Account
    BY <1>1 DEF Account
  <1>4. /\ u.pending = t.pending /\ u.save = t.save /\ u.first = t.first
        /\ u.conn = t.conn /\ u.info = t.info
    BY <1>1 DEF Account
  <1> HIDE DEF u
  <1>5. Step(t, u)
    BY <1>3, <1>4 DEF Step
  <1> QED
    BY <1>1, <1>2, <1>5, StepTrans

LEMMA ConnectStep == ASSUME NEW s \in Account PROVE Step(s, Connect(s))
  <1> DEFINE t == [s EXCEPT !.observing = TRUE]
  <1>1. t \in Account
    BY DEF Account
  <1>2. /\ t.pending = s.pending /\ t.save = s.save /\ t.first = s.first
        /\ t.conn = s.conn /\ t.info = s.info
    BY DEF Account
  <1>3. Connect(s) = t \/ Connect(s) = PrplConnect(t)
    BY DEF Connect
  <1> HIDE DEF t
  <1>4. Step(s, t)
    BY <1>1, <1>2 DEF Step
  <1> QED
    BY <1>1, <1>3, <1>4, PrplConnectStep, StepTrans

(* reportDisconnecting: the mark is taken away and automatic login ends. *)
LEMMA DisconnectingStep ==
    ASSUME NEW s \in Account, NEW reason \in Reason
    PROVE  Step(s, AccountDisconnecting(s, reason))
  <1> DEFINE t == IF s.first \in {"ok", "crashed"} THEN s ELSE SetFirst(s, "unknown")
             u == [t EXCEPT !.conn = "disconnecting", !.reason = reason, !.pending = FALSE]
  <1>1. AccountDisconnecting(s, reason) = u
        \/ AccountDisconnecting(s, reason) = StartReconnectTimer(u)
    BY DEF AccountDisconnecting
  <1>2. t \in Account /\ t.save = s.save /\ t.info = s.info
        /\ (t.first = s.first \/ t.first = "unknown")
    <2>1. CASE s.first \in {"ok", "crashed"}
      BY <2>1
    <2>2. CASE s.first \notin {"ok", "crashed"}
      <3>1. t = SetFirst(s, "unknown") /\ "unknown" \in FirstState /\ "unknown" # "pending"
        BY <2>2 DEF FirstState
      <3>2. t.save <=> s.save
        BY <3>1, SetFirstSaves
      <3>3. t \in Account /\ t.first = "unknown" /\ t.info = s.info
        BY <3>1, SetFirstType, SetFirstFields
      <3>4. t.save \in BOOLEAN /\ s.save \in BOOLEAN
        BY <3>3 DEF Account
      <3> QED
        BY <3>2, <3>3, <3>4
    <2> QED
      BY <2>1, <2>2
  <1> HIDE DEF t
  <1>3. u \in Account
    BY <1>2 DEF Account, ConnState
  <1>4. /\ ~u.pending /\ u.save = t.save /\ u.first = t.first
        /\ u.conn = "disconnecting" /\ u.info = t.info
    BY <1>2 DEF Account
  <1> HIDE DEF u
  <1>5. Step(s, u)
    BY <1>2, <1>3, <1>4 DEF Step
  <1> QED
    BY <1>1, <1>3, <1>5, TimerStep, StepTrans

LEMMA PrplDisconnectStep == ASSUME NEW s \in Account PROVE Step(s, PrplDisconnect(s))
  <1> DEFINE t == AccountDisconnecting(s, "none")
             u == [t EXCEPT !.quit = TRUE]
  <1>1. PrplDisconnect(s) = s \/ PrplDisconnect(s) = u
    BY DEF PrplDisconnect
  <1>2. Step(s, t) /\ t \in Account
    BY DisconnectingStep DEF Step, Reason
  <1> HIDE DEF t
  <1>3. u \in Account
    BY <1>2 DEF Account
  <1>4. /\ u.pending = t.pending /\ u.save = t.save /\ u.first = t.first
        /\ u.conn = t.conn /\ u.info = t.info
    BY <1>2 DEF Account
  <1> HIDE DEF u
  <1>5. Step(t, u)
    BY <1>3, <1>4 DEF Step
  <1> QED
    BY <1>1, <1>2, <1>3, <1>5, StepTrans, StepRefl

LEMMA DisconnectStep == ASSUME NEW s \in Account PROVE Step(s, Disconnect(s))
  <1> DEFINE t == [s EXCEPT !.observing = FALSE]
  <1>1. t \in Account
    BY DEF Account
  <1>2. /\ t.pending = s.pending /\ t.save = s.save /\ t.first = s.first
        /\ t.conn = s.conn /\ t.info = s.info
    BY DEF Account
  <1>3. Disconnect(s) = PrplDisconnect(t)
    BY DEF Disconnect
  <1> HIDE DEF t
  <1>4. Step(s, t)
    BY <1>1, <1>2 DEF Step
  <1> QED
    BY <1>1, <1>3, <1>4, PrplDisconnectStep, StepTrans DEF Step

LEMMA DisconnectedStep == ASSUME NEW s \in Account PROVE Step(s, AccountDisconnected(s))
  <1> DEFINE t == [s EXCEPT !.conn = "disconnected"]
  <1>1. Step(s, t) /\ t \in Account
    BY SetConnStep DEF ConnState, Step
  <1>2. AccountDisconnected(s) = t \/ AccountDisconnected(s) = Connect(t)
    BY DEF AccountDisconnected
  <1> HIDE DEF t
  <1> QED
    BY <1>1, <1>2, ConnectStep, StepTrans

LEMMA GotDisconnectedStep ==
    ASSUME NEW s \in Account, NEW reason \in Reason
    PROVE  Step(s, GotDisconnected(s, reason))
  <1> DEFINE t == IF s.conn = "disconnecting" THEN s ELSE AccountDisconnecting(s, reason)
             u == [t EXCEPT !.sock = "none", !.quit = FALSE]
  <1>1. Step(s, t) /\ t \in Account
    BY DisconnectingStep, StepRefl DEF Step
  <1>2. GotDisconnected(s, reason) = AccountDisconnected(u)
    BY DEF GotDisconnected
  <1> HIDE DEF t
  <1>3. u \in Account
    BY <1>1 DEF Account
  <1>4. /\ u.pending = t.pending /\ u.save = t.save /\ u.first = t.first
        /\ u.conn = t.conn /\ u.info = t.info
    BY <1>1 DEF Account
  <1> HIDE DEF u
  <1>5. Step(t, u)
    BY <1>3, <1>4 DEF Step
  <1>6. Step(s, u)
    BY <1>1, <1>3, <1>5, StepTrans
  <1> QED
    BY <1>2, <1>3, <1>6, DisconnectedStep, StepTrans

LEMMA StatusStep ==
    ASSUME NEW s \in Account, NEW on \in BOOLEAN
    PROVE  /\ Step(s, StatusObserved(s, on))
           /\ ~s.observing => StatusObserved(s, on) = s
  <1> DEFINE t == IF s.conn \in {"connected", "connecting"} THEN PrplDisconnect(s) ELSE s
  <1>1. Step(s, t) /\ t \in Account
    BY PrplDisconnectStep, StepRefl DEF Step
  <1>2. \/ StatusObserved(s, on) = s
        \/ StatusObserved(s, on) = CancelReconnection(t)
        \/ StatusObserved(s, on) = PrplConnect(s)
    BY DEF StatusObserved
  <1>3. ~s.observing => StatusObserved(s, on) = s
    BY DEF StatusObserved
  <1> HIDE DEF t
  <1> QED
    BY <1>1, <1>2, <1>3, StepRefl, CancelStep, PrplConnectStep, StepTrans
-----------------------------------------------------------------------------
(* The preferences after an event. *)
LEMMA SavedRecord ==
    ASSUME NEW s \in Account
    PROVE  LET t == [s EXCEPT !.save = FALSE] IN
           /\ t \in Account /\ ~t.save
           /\ t.pending = s.pending /\ t.first = s.first /\ t.conn = s.conn
           /\ t.info = s.info /\ t.imReason = s.imReason
           /\ LeftAlone(s) => LeftAlone(t)
  BY DEF Account, LeftAlone

(* What is read of an account after the event is what the handler left.    *)
LEMMA SettledAccounts ==
    ASSUME NEW new \in [Accounts -> Account], NEW k \in Nat, Settle(new, k)
    PROVE  /\ acc' \in [Accounts -> Account]
           /\ \A a \in Accounts :
                /\ acc'[a] = [new[a] EXCEPT !.save = FALSE]
                /\ ~acc'[a].save
                /\ acc'[a].pending = new[a].pending /\ acc'[a].first = new[a].first
                /\ acc'[a].conn = new[a].conn /\ acc'[a].info = new[a].info
                /\ acc'[a].imReason = new[a].imReason
                /\ LeftAlone(new[a]) => LeftAlone(acc'[a])
           /\ Pending(acc') = Pending(new)
  <1>1. acc' = [a \in Accounts |-> [new[a] EXCEPT !.save = FALSE]]
    BY DEF Settle
  <1>2. ASSUME NEW a \in Accounts
        PROVE  /\ acc'[a] = [new[a] EXCEPT !.save = FALSE] /\ acc'[a] \in Account
               /\ ~acc'[a].save
               /\ acc'[a].pending = new[a].pending /\ acc'[a].first = new[a].first
               /\ acc'[a].conn = new[a].conn /\ acc'[a].info = new[a].info
               /\ acc'[a].imReason = new[a].imReason
               /\ LeftAlone(new[a]) => LeftAlone(acc'[a])
    <2>1. new[a] \in Account /\ acc'[a] = [new[a] EXCEPT !.save = FALSE]
      BY <1>1
    <2> QED
      BY <2>1, SavedRecord
  <1>3. acc' \in [Accounts -> Account]
    BY <1>1, <1>2
  <1>4. Pending(acc') = Pending(new)
    BY <1>2 DEF Pending
  <1> QED
    BY <1>2, <1>3, <1>4

(* A new mark of a first connection is in the file when the event is over. *)
LEMMA SettledFile ==
    ASSUME TypeOK, NEW new \in [Accounts -> Account], NEW k \in Nat, Settle(new, k)
    PROVE  /\ loginPref' \in BOOLEAN
           /\ disk' \in [login : BOOLEAN, first : [Accounts -> FirstState]]
           /\ \A a \in Accounts : disk'.first[a] \in {disk.first[a], new[a].first}
           /\ \A a \in Accounts : new[a].save => disk'.first[a] = new[a].first
           /\ \/ disk' = disk
              \/ disk' = [login |-> loginPref', first |-> [a \in Accounts |-> new[a].first]]
           /\ k > 0 /\ count = 0 => disk'.login
  <1> DEFINE done  == Finished(acc, new)
             n     == count + k - done
             begun == k > 0 /\ count = 0
             ended == LastFinished(n, done)
             login == begun \/ (loginPref /\ ~ended)
             save  == begun \/ \E a \in Accounts : new[a].save
             file  == [login |-> login, first |-> [a \in Accounts |-> new[a].first]]
  <1>1. /\ loginPref' = login
        /\ disk' = IF save THEN file ELSE disk
    BY DEF Settle, Prefs
  <1>2. loginPref' \in BOOLEAN
    BY <1>1
  <1>3. \A a \in Accounts : new[a].first \in FirstState
    BY DEF Account
  <1>4. file \in [login : BOOLEAN, first : [Accounts -> FirstState]]
    BY <1>3
  <1>5. disk \in [login : BOOLEAN, first : [Accounts -> FirstState]]
    BY DEF TypeOK
  <1>6. begun => save /\ login
    OBVIOUS
  <1>7. \A a \in Accounts : new[a].save => save
    OBVIOUS
  <1> HIDE DEF login, save
  <1> QED
    BY <1>1, <1>2, <1>4, <1>5, <1>6, <1>7

(* The counter follows the accounts, and the preference the counter. *)
LEMMA SettledCount ==
    ASSUME TypeOK, LoginsCounted, running \in {"starting", "up"},
           NEW new \in [Accounts -> Account], Settle(new, 0),
           \A a \in Accounts : new[a].pending => acc[a].pending
    PROVE  /\ count' \in Nat /\ count' = Cardinality(Pending(acc'))
           /\ loginPref' <=> count' > 0
           /\ loginPref' => disk'.login
           /\ Pending(acc') \subseteq Pending(acc)
  <1> DEFINE P == Pending(acc)
             Q == Pending(new)
             done == Finished(acc, new)
  <1>1. Q \subseteq P /\ IsFiniteSet(P)
    BY AccountsAssumption, FS_Subset DEF Pending
  <1>2. done = Cardinality(P \ Q)
    <2>1. P \ Q = {a \in Accounts : acc[a].pending /\ ~new[a].pending}
      BY DEF Pending
    <2> QED
      BY <2>1 DEF Finished
  <1>3. /\ P \cap Q = Q /\ IsFiniteSet(Q) /\ IsFiniteSet(P \ Q)
        /\ Cardinality(P \ Q) = Cardinality(P) - Cardinality(P \cap Q)
        /\ Cardinality(P) \in Nat /\ Cardinality(Q) \in Nat /\ Cardinality(P \ Q) \in Nat
    BY <1>1, FS_Difference, FS_Subset, FS_CardinalityType
  <1>4. Pending(acc') = Q
    BY SettledAccounts
  <1>5. /\ count' = count + 0 - done
        /\ loginPref' = (loginPref /\ ~LastFinished(count + 0 - done, done))
    BY DEF Settle
  <1>6. count = Cardinality(P) /\ (loginPref <=> count > 0) /\ loginPref \in BOOLEAN
    BY DEF LoginsCounted, TypeOK
  <1>7. count' = Cardinality(Q)
    <2>1. Cardinality(P \cap Q) = Cardinality(Q)
      BY <1>3
    <2>2. count + 0 - Cardinality(P \ Q) = Cardinality(Q)
      <3> DEFINE p == Cardinality(P)
                 q == Cardinality(Q)
                 d == Cardinality(P \ Q)
      <3>1. p \in Nat /\ q \in Nat /\ d \in Nat /\ d = p - q /\ count = p
        BY <1>3, <1>6, <2>1
      <3> HIDE DEF p, q, d
      <3>2. count + 0 - d = q
        BY <3>1
      <3> QED
        BY <3>2 DEF q, d
    <2> QED
      BY <1>2, <1>5, <2>2
  <1>8. loginPref' <=> count' > 0
    <2>1. loginPref' <=> loginPref /\ ~(done > 0 /\ count + 0 - done = 0)
      BY <1>5 DEF LastFinished
    <2>2. done = count - count' /\ count \in Nat /\ count' \in Nat /\ count' <= count
      <3> HIDE DEF done, P, Q
      <3> QED
        BY <1>2, <1>3, <1>6, <1>7
    <2> HIDE DEF done
    <2> QED
      BY <2>1, <2>2, <1>6
  <1>9. loginPref' => disk'.login
    <2>1. loginPref' => loginPref
      BY <1>5
    <2>2. disk' = disk \/ disk'.login = loginPref'
      BY SettledFile
    <2> QED
      BY <2>1, <2>2 DEF LoginsCounted
  <1> HIDE DEF P, Q
  <1> QED
    BY <1>1, <1>3, <1>4, <1>7, <1>8, <1>9 DEF P, Q
-----------------------------------------------------------------------------
(* An event that begins no automatic login keeps the invariant if no       *)
(* suspect account takes part in it, and if what it leaves pending or      *)
(* connecting is accounted for.                                            *)
Kept(new, a) ==
    /\ new[a].pending => acc[a].pending
    /\ new[a].first = "pending" => acc[a].first = "pending" \/ new[a].save
    /\ new[a].first = "ok" => a \in finished'
    /\ new[a].conn = "connecting" /\ ~new[a].info => new[a].first \in {"ok", "pending"}
    /\ a \in suspect' => new[a] = acc[a]

Around ==
    /\ running \in {"starting", "up"}
    /\ offline' \in BOOLEAN /\ available' \in BOOLEAN
    /\ wanted' \subseteq Accounts /\ haunted' \subseteq Accounts /\ finished' \subseteq Accounts
    /\ suspect' \subseteq suspect
    /\ UNCHANGED <<running, autoLoginStatus>>

LEMMA EventKeeps ==
    ASSUME AccountsInv, Around, NEW new \in [Accounts -> Account], Settle(new, 0),
           \A a \in Accounts : Kept(new, a)
    PROVE  AccountsInv'
  <1>1. TypeOK /\ LoginsCounted /\ Marked /\ \A a \in suspect : Suspected(a)
    BY DEF AccountsInv
  <1>2. running \in {"starting", "up"} /\ running' = running
        /\ autoLoginStatus' = autoLoginStatus
    BY DEF Around
  <1>3. \A a \in Accounts : new[a].pending => acc[a].pending
    BY DEF Kept
  <1>4. /\ count' \in Nat /\ count' = Cardinality(Pending(acc'))
        /\ loginPref' <=> count' > 0
        /\ loginPref' => disk'.login
        /\ Pending(acc') \subseteq Pending(acc)
    BY <1>1, <1>2, <1>3, SettledCount
  <1>5. /\ acc' \in [Accounts -> Account]
        /\ \A a \in Accounts :
             /\ ~acc'[a].save
             /\ acc'[a].first = new[a].first
             /\ acc'[a].conn = new[a].conn /\ acc'[a].info = new[a].info
             /\ acc'[a].imReason = new[a].imReason
             /\ LeftAlone(new[a]) => LeftAlone(acc'[a])
    BY SettledAccounts
  <1>6. /\ loginPref' \in BOOLEAN
        /\ disk' \in [login : BOOLEAN, first : [Accounts -> FirstState]]
        /\ \A a \in Accounts : disk'.first[a] \in {disk.first[a], new[a].first}
        /\ \A a \in Accounts : new[a].save => disk'.first[a] = new[a].first
    BY <1>1, SettledFile
  <1>7. TypeOK'
    BY <1>1, <1>2, <1>4, <1>5, <1>6 DEF TypeOK, Around
  <1>8. LoginsCounted'
    BY <1>1, <1>2, <1>4 DEF LoginsCounted
  <1>9. Marked'
    <2> SUFFICES ASSUME NEW a \in Accounts
                 PROVE  /\ ~acc'[a].save
                        /\ acc'[a].first = "pending" => disk'.first[a] = "pending"
                        /\ acc'[a].first = "ok" => a \in finished'
                        /\ acc'[a].conn = "connecting" /\ ~acc'[a].info =>
                             acc'[a].first \in {"ok", "pending"}
      BY DEF Marked
    <2>1. acc[a].first = "pending" => disk.first[a] = "pending"
      BY <1>1 DEF Marked
    <2>2. Kept(new, a)
      OBVIOUS
    <2> QED
      BY <1>5, <1>6, <2>1, <2>2 DEF Kept
  <1>10. AllFresh' /\ QuitIsClean'
    BY <1>2 DEF AllFresh, QuitIsClean
  <1>11. ASSUME NEW a \in suspect' PROVE Suspected(a)'
    <2>1. a \in suspect /\ a \in Accounts /\ Suspected(a) /\ Kept(new, a)
      BY <1>1 DEF Around, TypeOK
    <2>2. new[a] = acc[a]
      BY <2>1 DEF Kept
    <2>3. acc[a].first = "crashed" /\ LeftAlone(acc[a])
          /\ disk.first[a] \in {"pending", "crashed"}
          /\ (running = "up" => acc[a].imReason = "crashed")
      BY <1>2, <2>1 DEF Suspected
    <2>4. LeftAlone(acc'[a]) /\ acc'[a].first = "crashed" /\ acc'[a].imReason = acc[a].imReason
          /\ disk'.first[a] \in {"pending", "crashed"}
      BY <1>5, <1>6, <2>1, <2>2, <2>3
    <2> QED
      BY <1>2, <2>3, <2>4 DEF Suspected
  <1> QED
    BY <1>7, <1>8, <1>9, <1>10, <1>11 DEF AccountsInv

(* The same for an event of one account. *)
LEMMA OneKeeps ==
    ASSUME AccountsInv, Around, NEW a \in Accounts, NEW s \in Account, SettleOne(a, s),
           s.pending => acc[a].pending,
           s.first = "pending" => acc[a].first = "pending" \/ s.save,
           s.first = "ok" => a \in finished',
           s.conn = "connecting" /\ ~s.info => s.first \in {"ok", "pending"},
           a \notin suspect', finished \ {a} \subseteq finished'
    PROVE  AccountsInv'
  <1> DEFINE new == [acc EXCEPT ![a] = s]
  <1>1. acc \in [Accounts -> Account] /\ Marked
    BY DEF AccountsInv, TypeOK
  <1>2. new \in [Accounts -> Account] /\ new[a] = s
        /\ \A b \in Accounts \ {a} : new[b] = acc[b]
    BY <1>1
  <1>3. Settle(new, 0)
    BY DEF SettleOne
  <1> HIDE DEF new
  <1>4. Kept(new, a)
    BY <1>2 DEF Kept
  <1>5. ASSUME NEW b \in Accounts \ {a} PROVE Kept(new, b)
    BY <1>1, <1>2 DEF Kept, Marked
  <1>6. \A b \in Accounts : Kept(new, b)
    BY <1>4, <1>5
  <1> QED
    BY <1>2, <1>3, <1>6, EventKeeps

LEMMA StepKeeps ==
    ASSUME AccountsInv, Around, NEW a \in Accounts, NEW s, SettleOne(a, s),
           Step(acc[a], s), a \notin suspect', finished' = finished
    PROVE  AccountsInv'
  <1>1. acc[a] \in Account /\ Marked /\ s \in Account
    BY DEF AccountsInv, TypeOK, Step
  <1>2. /\ s.pending => acc[a].pending
        /\ s.first = "pending" => acc[a].first = "pending" \/ s.save
    BY DEF Step
  <1>3. s.first = "ok" => a \in finished'
    BY <1>1 DEF Step, Marked
  <1>4. s.conn = "connecting" /\ ~s.info => s.first \in {"ok", "pending"}
    <2>1. CASE s.first \in {"ok", "pending"}
      BY <2>1
    <2>2. CASE s.conn = "connecting" /\ ~s.info /\ s.first \notin {"ok", "pending"}
      <3>1. acc[a].conn = "connecting" /\ s.first = acc[a].first /\ s.info = acc[a].info
        BY <2>2 DEF Step
      <3> QED
        BY <1>1, <2>2, <3>1 DEF Marked
    <2> QED
      BY <2>1, <2>2
  <1> QED
    BY <1>1, <1>2, <1>3, <1>4, OneKeeps

(* What happens to an account happens while the program runs, and, but for *)
(* what the user asks, to no suspect account.                              *)
LEMMA SuspectsIdle ==
    ASSUME AccountsInv, NEW a \in Accounts, AccountStep(a)
    PROVE  /\ running \in {"starting", "up"}
           /\ a \in suspect => UserConnect(a) \/ ChangeSettings(a)
  <1>1. ASSUME LeftAlone(acc[a]) PROVE UserConnect(a) \/ ChangeSettings(a)
    <2>1. /\ acc[a].conn = "disconnected" /\ acc[a].timer = "none" /\ acc[a].lostTimers = 0
          /\ acc[a].attempt = 0 /\ ~acc[a].info /\ acc[a].sock = "none" /\ ~acc[a].quit
      BY <1>1 DEF LeftAlone
    <2> QED
      BY <2>1 DEF AccountStep, UserDisconnect, UserCancels, SettingsSaved, SocketOpens,
           Welcome, ConnectionLost, QuitAnswered, Timeout, TimerNear, TimerFires,
           QuitTimer, LostTimerFires
  <1>2. ASSUME running \notin {"starting", "up"} PROVE FALSE
    <2>1. acc[a] = Fresh(acc[a].first)
      BY <1>2 DEF AccountsInv, AllFresh, TypeOK
    <2>2. \A f : LeftAlone(Fresh(f))
      BY DEF LeftAlone, Fresh
    <2>3. LeftAlone(acc[a])
      BY <2>1, <2>2
    <2> QED
      BY <1>1, <1>2, <2>3 DEF UserConnect, ChangeSettings, Clicked
  <1>3. a \in suspect => LeftAlone(acc[a])
    BY DEF AccountsInv, Suspected
  <1> QED
    BY <1>1, <1>2, <1>3
-----------------------------------------------------------------------------
(* One lemma for each kind of event. *)
LEMMA ClicksKeep ==
    ASSUME AccountsInv, NEW a \in Accounts,
           UserConnect(a) \/ UserDisconnect(a) \/ UserCancels(a), AccountStep(a)
    PROVE  AccountsInv'
  <1>1. acc[a] \in Account /\ TypeOK
    BY DEF AccountsInv, TypeOK
  <1>2. Around /\ finished' = finished
    BY <1>1 DEF Around, TypeOK, UserConnect, UserDisconnect, UserCancels, Clicked
  <1>3. CASE UserConnect(a)
    <2>1. SettleOne(a, Connect(acc[a])) /\ a \notin suspect'
      BY <1>3 DEF UserConnect
    <2> QED
      BY <1>1, <1>2, <2>1, ConnectStep, StepKeeps
  <1>4. CASE UserDisconnect(a)
    <2>1. SettleOne(a, Disconnect(acc[a])) /\ suspect' = suspect
      BY <1>4 DEF UserDisconnect
    <2>2. a \notin suspect
      BY <1>4 DEF AccountsInv, Suspected, LeftAlone, UserDisconnect
    <2> QED
      BY <1>1, <1>2, <2>1, <2>2, DisconnectStep, StepKeeps
  <1>5. CASE UserCancels(a)
    <2> DEFINE t == Disconnect(acc[a])
    <2>1. SettleOne(a, CancelReconnection(t)) /\ suspect' = suspect
      BY <1>5 DEF UserCancels
    <2>2. a \notin suspect
      BY <1>5 DEF AccountsInv, Suspected, LeftAlone, UserCancels
    <2>3. Step(acc[a], t) /\ t \in Account
      BY <1>1, DisconnectStep DEF Step
    <2> HIDE DEF t
    <2>4. Step(acc[a], CancelReconnection(t))
      BY <1>1, <2>3, CancelStep, StepTrans
    <2> QED
      BY <1>1, <1>2, <2>1, <2>2, <2>4, StepKeeps
  <1> QED
    BY <1>3, <1>4, <1>5

LEMMA SettingsKeep ==
    ASSUME AccountsInv, NEW a \in Accounts, ChangeSettings(a)
    PROVE  AccountsInv'
  <1> DEFINE s == SetFirst(acc[a], "unknown")
             early == s.info \/ s.conn = "connected"
                        \/ (s.conn = "disconnected" /\ ErrorReason(s) = "none")
             i == s.info \/ ~early
             t == [s EXCEPT !.info = i]
  <1>1. acc[a] \in Account /\ TypeOK /\ "unknown" \in FirstState
    BY DEF AccountsInv, TypeOK, FirstState
  <1>2. s \in Account /\ s.first = "unknown" /\ s.conn = acc[a].conn
        /\ s.pending = acc[a].pending /\ s.info = acc[a].info
    BY <1>1, SetFirstType, SetFirstFields
  <1>3. s.conn = "connecting" => i
    OBVIOUS
  <1>4. SettleOne(a, t)
    BY DEF ChangeSettings
  <1>5. Around /\ a \notin suspect' /\ finished \ {a} \subseteq finished'
    BY <1>1 DEF Around, TypeOK, ChangeSettings, Clicked
  <1>6. i \in BOOLEAN
    <2>1. s.info \in BOOLEAN
      BY <1>2 DEF Account
    <2> QED
      BY <2>1
  <1> HIDE DEF i, s
  <1>7. t \in Account /\ t.first = "unknown" /\ t.conn = s.conn /\ t.pending = s.pending
        /\ t.info = i
    BY <1>2, <1>6 DEF Account
  <1> HIDE DEF t
  <1> QED
    BY <1>2, <1>3, <1>4, <1>5, <1>7, OneKeeps

LEMMA SavedKeeps ==
    ASSUME AccountsInv, NEW a \in Accounts, SettingsSaved(a), AccountStep(a)
    PROVE  AccountsInv'
  <1> DEFINE s == [acc[a] EXCEPT !.info = FALSE]
             d == Disconnect(s)
             retry == s.conn = "disconnected" /\ ErrorReason(s) \in {"network", "fatal"}
             t == IF s.conn = "connecting" THEN Connect(d)
                  ELSE IF retry THEN Connect(s) ELSE s
  <1>1. acc[a] \in Account /\ TypeOK /\ acc[a].info /\ Marked
    BY DEF AccountsInv, TypeOK, SettingsSaved
  <1>2. s \in Account /\ s.first = acc[a].first /\ s.conn = acc[a].conn
        /\ s.pending = acc[a].pending /\ s.save = acc[a].save /\ ~s.info
    BY <1>1 DEF Account
  <1>3. SettleOne(a, t)
    BY DEF SettingsSaved
  <1>4. a \notin suspect
    BY <1>1 DEF AccountsInv, Suspected, LeftAlone
  <1>5. Around /\ a \notin suspect' /\ finished' = finished
    <2>1. running \in {"starting", "up"}
      BY SuspectsIdle
    <2> QED
      BY <1>1, <1>4, <2>1 DEF Around, TypeOK, SettingsSaved
  <1> HIDE DEF s
  <1>6. Step(s, t)
    <2>1. Step(s, s) /\ Step(s, d) /\ d \in Account /\ Step(s, Connect(s))
      BY <1>2, StepRefl, DisconnectStep, ConnectStep DEF Step
    <2> HIDE DEF d
    <2>2. Step(s, Connect(d))
      BY <1>2, <2>1, ConnectStep, StepTrans DEF Step
    <2> QED
      BY <2>1, <2>2
  <1>7. s.conn = "connecting" => t.conn # "connecting"
    <2> SUFFICES ASSUME s.conn = "connecting" PROVE Connect(d).conn # "connecting"
      OBVIOUS
    <2> DEFINE v == [s EXCEPT !.observing = FALSE]
    <2>1. v \in Account /\ v.conn = "connecting" /\ v.first = s.first
      BY <1>2 DEF Account
    <2>2. d = [AccountDisconnecting(v, "none") EXCEPT !.quit = TRUE]
      <3>1. d = PrplDisconnect(v)
        BY DEF Disconnect
      <3> HIDE DEF v, d
      <3> QED
        BY <2>1, <3>1 DEF PrplDisconnect
    <2> HIDE DEF v, d
    <2>3. AccountDisconnecting(v, "none") \in Account
      BY <2>1, DisconnectingStep DEF Step, Reason
    <2>4. AccountDisconnecting(v, "none").conn = "disconnecting"
      <3> DEFINE w == IF v.first \in {"ok", "crashed"} THEN v ELSE SetFirst(v, "unknown")
      <3>1. w \in Account
        BY <2>1, SetFirstType DEF FirstState
      <3>2. AccountDisconnecting(v, "none")
              = [w EXCEPT !.conn = "disconnecting", !.reason = "none", !.pending = FALSE]
        BY DEF AccountDisconnecting
      <3> HIDE DEF w
      <3> QED
        BY <3>1, <3>2 DEF Account
    <2>5. d \in Account /\ d.conn = "disconnecting"
      BY <2>2, <2>3, <2>4 DEF Account
    <2>6. Connect(d) = [d EXCEPT !.observing = TRUE]
      <3> DEFINE e == [d EXCEPT !.observing = TRUE]
      <3>1. e.conn = "disconnecting"
        BY <2>5 DEF Account
      <3>2. Connect(d) = IF Online /\ d.conn = "disconnected" THEN PrplConnect(e) ELSE e
        BY DEF Connect
      <3> QED
        BY <2>5, <3>2
    <2> QED
      BY <2>5, <2>6 DEF Account
  <1> HIDE DEF t
  <1>8. /\ t \in Account /\ ~t.info
        /\ t.pending => acc[a].pending
        /\ t.first = "pending" => acc[a].first = "pending" \/ t.save
        /\ t.first = "ok" => a \in finished'
    BY <1>1, <1>2, <1>5, <1>6 DEF Step, Marked
  <1>9. t.conn = "connecting" => t.first \in {"ok", "pending"}
    BY <1>6, <1>7 DEF Step
  <1> QED
    BY <1>3, <1>5, <1>8, <1>9, OneKeeps
(* Events that no observer is told of. *)
LEMMA QuietKeeps ==
    ASSUME AccountsInv, NEW a \in Accounts, NEW s \in Account, a \notin suspect,
           running \in {"starting", "up"},
           acc' = [acc EXCEPT ![a] = s],
           s.pending = acc[a].pending, s.save = acc[a].save, s.first = acc[a].first,
           s.conn = acc[a].conn, s.info = acc[a].info,
           UNCHANGED <<running, offline, available, count, loginPref, autoLoginStatus,
                       disk, wanted, haunted, finished, suspect>>
    PROVE  AccountsInv'
  <1>1. TypeOK /\ LoginsCounted /\ Marked /\ QuitIsClean /\ \A b \in suspect : Suspected(b)
    BY DEF AccountsInv
  <1>2. acc' \in [Accounts -> Account] /\ acc'[a] = s
        /\ \A b \in Accounts \ {a} : acc'[b] = acc[b]
    BY <1>1 DEF TypeOK
  <1>3. TypeOK'
    BY <1>1, <1>2 DEF TypeOK
  <1>4. LoginsCounted'
    <2>1. Pending(acc') = Pending(acc)
      BY <1>2 DEF Pending
    <2> QED
      BY <1>1, <2>1 DEF LoginsCounted
  <1>5. Marked'
    <2> SUFFICES ASSUME NEW b \in Accounts
                 PROVE  /\ ~acc'[b].save
                        /\ acc'[b].first = "pending" => disk'.first[b] = "pending"
                        /\ acc'[b].first = "ok" => b \in finished'
                        /\ acc'[b].conn = "connecting" /\ ~acc'[b].info =>
                             acc'[b].first \in {"ok", "pending"}
      BY DEF Marked
    <2>1. /\ acc'[b].save = acc[b].save /\ acc'[b].first = acc[b].first
          /\ acc'[b].conn = acc[b].conn /\ acc'[b].info = acc[b].info
      BY <1>2
    <2> QED
      BY <1>1, <2>1 DEF Marked
  <1>6. AllFresh' /\ QuitIsClean'
    BY <1>1 DEF AllFresh, QuitIsClean
  <1>7. ASSUME NEW b \in suspect' PROVE Suspected(b)'
    <2>1. b \in suspect /\ b \in Accounts \ {a} /\ Suspected(b)
      BY <1>1 DEF TypeOK
    <2>2. acc'[b] = acc[b]
      BY <1>2, <2>1
    <2> QED
      BY <2>1, <2>2 DEF Suspected
  <1> QED
    BY <1>3, <1>4, <1>5, <1>6, <1>7 DEF AccountsInv

LEMMA TimersKeep ==
    ASSUME AccountsInv, NEW a \in Accounts,
           Timeout(a) \/ LostTimerFires(a), AccountStep(a)
    PROVE  AccountsInv'
  <1>1. acc[a] \in Account /\ TypeOK /\ running \in {"starting", "up"}
    BY SuspectsIdle DEF AccountsInv, TypeOK
  <1>2. a \notin suspect
    <2>1. ~LeftAlone(acc[a])
      BY DEF LeftAlone, Timeout, TimerNear, TimerFires, QuitTimer, LostTimerFires
    <2> QED
      BY <2>1 DEF AccountsInv, Suspected
  <1>3. CASE TimerNear(a)
    <2> DEFINE s == [acc[a] EXCEPT !.timer = "near"]
    <2>1. s \in Account
      BY <1>1 DEF Account
    <2>2. s.pending = acc[a].pending /\ s.save = acc[a].save /\ s.first = acc[a].first
          /\ s.conn = acc[a].conn /\ s.info = acc[a].info
      BY <1>1 DEF Account
    <2>3. acc' = [acc EXCEPT ![a] = s]
      BY <1>3 DEF TimerNear
    <2>4. UNCHANGED <<running, offline, available, count, loginPref, autoLoginStatus,
                      disk, wanted, haunted, finished, suspect>>
      BY <1>3 DEF TimerNear
    <2> HIDE DEF s
    <2> QED
      BY <1>1, <1>2, <2>1, <2>2, <2>3, <2>4, QuietKeeps
  <1>4. CASE TimerFires(a)
    <2> DEFINE s == [acc[a] EXCEPT !.timer = "none"]
    <2>1. s \in Account
      BY <1>1 DEF Account
    <2>2. s.pending = acc[a].pending /\ s.save = acc[a].save /\ s.first = acc[a].first
          /\ s.conn = acc[a].conn /\ s.info = acc[a].info
      BY <1>1 DEF Account
    <2>3. SettleOne(a, Connect(s))
      BY <1>4 DEF TimerFires
    <2>4. Around /\ a \notin suspect' /\ finished' = finished
      BY <1>1, <1>2, <1>4 DEF Around, TypeOK, TimerFires
    <2> HIDE DEF s
    <2>5. Step(acc[a], s)
      BY <2>1, <2>2 DEF Step
    <2>6. Step(acc[a], Connect(s))
      BY <1>1, <2>1, <2>5, ConnectStep, StepTrans
    <2> QED
      BY <2>3, <2>4, <2>6, StepKeeps
  <1>5. CASE LostTimerFires(a)
    <2> DEFINE s == [acc[a] EXCEPT !.lostTimers = @ - 1]
    <2>1. s \in Account
      <3>1. acc[a].lostTimers \in Nat /\ acc[a].lostTimers > 0
        BY <1>1, <1>5 DEF Account, LostTimerFires
      <3>2. acc[a].lostTimers - 1 \in Nat
        BY <3>1
      <3> QED
        BY <1>1, <3>2 DEF Account
    <2>2. s.pending = acc[a].pending /\ s.save = acc[a].save /\ s.first = acc[a].first
          /\ s.conn = acc[a].conn /\ s.info = acc[a].info
      BY <1>1 DEF Account
    <2>3. SettleOne(a, Connect(s))
      BY <1>5 DEF LostTimerFires
    <2>4. Around /\ a \notin suspect' /\ finished' = finished
      BY <1>1, <1>2, <1>5 DEF Around, TypeOK, LostTimerFires
    <2> HIDE DEF s
    <2>5. Step(acc[a], s)
      BY <2>1, <2>2 DEF Step
    <2>6. Step(acc[a], Connect(s))
      BY <1>1, <2>1, <2>5, ConnectStep, StepTrans
    <2> QED
      BY <2>3, <2>4, <2>6, StepKeeps
  <1>6. CASE QuitTimer(a)
    <2>1. SettleOne(a, GotDisconnected(acc[a], "none")) /\ "none" \in Reason
      BY <1>6 DEF QuitTimer, Reason
    <2>2. Around /\ a \notin suspect' /\ finished' = finished
      BY <1>1, <1>2, <1>6 DEF Around, TypeOK, QuitTimer
    <2> QED
      BY <1>1, <2>1, <2>2, GotDisconnectedStep, StepKeeps
  <1> QED
    BY <1>3, <1>4, <1>5, <1>6 DEF Timeout

LEMMA ConnectionKeeps ==
    ASSUME AccountsInv, NEW a \in Accounts,
           SocketOpens(a) \/ Welcome(a) \/ ConnectionLost(a) \/ QuitAnswered(a),
           AccountStep(a)
    PROVE  AccountsInv'
  <1>1. acc[a] \in Account /\ TypeOK /\ running \in {"starting", "up"} /\ Marked
    BY SuspectsIdle DEF AccountsInv, TypeOK
  <1>2. a \notin suspect
    <2>1. ~LeftAlone(acc[a])
      BY DEF LeftAlone, SocketOpens, Welcome, ConnectionLost, QuitAnswered
    <2> QED
      BY <2>1 DEF AccountsInv, Suspected
  <1>3. CASE SocketOpens(a)
    <2> DEFINE s == [acc[a] EXCEPT !.sock = "registering"]
    <2>1. s \in Account
      BY <1>1 DEF Account
    <2>2. s.pending = acc[a].pending /\ s.save = acc[a].save /\ s.first = acc[a].first
          /\ s.conn = acc[a].conn /\ s.info = acc[a].info
      BY <1>1 DEF Account
    <2>3. acc' = [acc EXCEPT ![a] = s]
      BY <1>3 DEF SocketOpens
    <2>4. UNCHANGED <<running, offline, available, count, loginPref, autoLoginStatus,
                      disk, wanted, haunted, finished, suspect>>
      BY <1>3 DEF SocketOpens
    <2> HIDE DEF s
    <2> QED
      BY <1>1, <1>2, <2>1, <2>2, <2>3, <2>4, QuietKeeps
  <1>4. CASE Welcome(a)
    <2> DEFINE s == [acc[a] EXCEPT !.sock = "open"]
               u == SetFirst(s, "ok")
               t == [u EXCEPT !.conn = "connected", !.pending = FALSE]
    <2>1. s \in Account
      BY <1>1 DEF Account
    <2>2. SettleOne(a, t)
      BY <1>4 DEF Welcome, AccountConnected
    <2>3. Around /\ a \notin suspect' /\ finished' = finished \cup {a}
      BY <1>1, <1>2, <1>4 DEF Around, TypeOK, Welcome
    <2> HIDE DEF s
    <2>4. u \in Account /\ u.first = "ok"
      BY <2>1, SetFirstType, SetFirstFields DEF FirstState
    <2> HIDE DEF u
    <2>5. t \in Account
      BY <2>4 DEF Account, ConnState
    <2>6. t.first = "ok" /\ t.conn = "connected" /\ ~t.pending
      BY <2>4 DEF Account
    <2> HIDE DEF t
    <2> QED
      BY <2>2, <2>3, <2>5, <2>6, OneKeeps
  <1>5. CASE ConnectionLost(a)
    <2>1. PICK reason \in {"network", "fatal"} : SettleOne(a, GotDisconnected(acc[a], reason))
      BY <1>5 DEF ConnectionLost
    <2>2. Around /\ a \notin suspect' /\ finished' = finished
      BY <1>1, <1>2, <1>5 DEF Around, TypeOK, ConnectionLost
    <2>3. reason \in Reason
      BY DEF Reason
    <2> QED
      BY <1>1, <2>1, <2>2, <2>3, GotDisconnectedStep, StepKeeps
  <1>6. CASE QuitAnswered(a)
    <2> DEFINE reason == IF acc[a].conn = "disconnecting" THEN "none" ELSE "network"
    <2>1. SettleOne(a, GotDisconnected(acc[a], reason)) /\ reason \in Reason
      BY <1>6 DEF QuitAnswered, Reason
    <2>2. Around /\ a \notin suspect' /\ finished' = finished
      BY <1>1, <1>2, <1>6 DEF Around, TypeOK, QuitAnswered
    <2> HIDE DEF reason
    <2> QED
      BY <1>1, <2>1, <2>2, GotDisconnectedStep, StepKeeps
  <1> QED
    BY <1>3, <1>4, <1>5, <1>6

(* The observers of the status are told one after the other. *)
LEMMA StatusKeeps ==
    ASSUME AccountsInv, NEW on \in BOOLEAN, StatusChanged(on),
           offline' \in BOOLEAN, available' \in BOOLEAN
    PROVE  AccountsInv'
  <1> DEFINE new == [a \in Accounts |-> StatusObserved(acc[a], on)]
  <1>1. TypeOK /\ Marked /\ acc \in [Accounts -> Account]
    BY DEF AccountsInv, TypeOK
  <1>2. Settle(new, 0) /\ Around /\ finished' = finished /\ suspect' = suspect
    BY <1>1 DEF StatusChanged, Around, TypeOK
  <1>3. ASSUME NEW a \in Accounts
        PROVE  /\ new[a] = StatusObserved(acc[a], on)
               /\ Step(acc[a], new[a]) /\ (~acc[a].observing => new[a] = acc[a])
    BY <1>1, StatusStep
  <1>4. new \in [Accounts -> Account]
    BY <1>3 DEF Step
  <1> HIDE DEF new
  <1>5. ASSUME NEW a \in Accounts PROVE Kept(new, a)
    <2>1. Step(acc[a], new[a])
      BY <1>3
    <2>2. a \in suspect' => new[a] = acc[a]
      BY <1>2, <1>3 DEF AccountsInv, Suspected, LeftAlone
    <2> QED
      BY <1>1, <1>2, <2>1, <2>2 DEF Kept, Step, Marked
  <1> QED
    BY <1>2, <1>4, <1>5, EventKeeps
-----------------------------------------------------------------------------
(* Automatic login. *)
LEMMA ConnectKeepsPending ==
    ASSUME NEW s \in Account PROVE Connect(s).pending = s.pending
  <1> DEFINE t == [s EXCEPT !.observing = TRUE]
             v == IF t.reason # "none" /\ t.timer = "far" THEN CancelReconnection(t) ELSE t
             u == IF v.first = "ok" THEN v ELSE SetFirst(v, "pending")
             c == [u EXCEPT !.conn = "connecting"]
  <1>1. t \in Account /\ t.pending = s.pending
    BY DEF Account
  <1>2. Connect(s) = t \/ Connect(s) = [c EXCEPT !.sock = "opening"]
    BY DEF Connect, PrplConnect, AccountConnecting
  <1> HIDE DEF t
  <1>3. v \in Account /\ v.pending = t.pending
    <2>1. v = t \/ v = CancelReconnection(t)
      OBVIOUS
    <2>2. CancelReconnection(t) \in Account /\ CancelReconnection(t).pending = t.pending
      BY <1>1 DEF CancelReconnection, Account
    <2> QED
      BY <1>1, <2>1, <2>2
  <1> HIDE DEF v
  <1>4. u \in Account /\ u.pending = v.pending
    BY <1>3, SetFirstType, SetFirstFields DEF FirstState
  <1> HIDE DEF u
  <1>5. c \in Account /\ c.pending = u.pending
    BY <1>4 DEF Account, ConnState
  <1> HIDE DEF c
  <1>6. [c EXCEPT !.sock = "opening"].pending = c.pending
    BY <1>5 DEF Account
  <1> QED
    BY <1>1, <1>2, <1>3, <1>4, <1>5, <1>6

LEMMA AutoLoginStep ==
    ASSUME NEW s \in Account, ~s.pending
    PROVE  LET t == AutoLogin(s) IN
           /\ t \in Account /\ (t.pending <=> MayLogin(s))
           /\ t.first = "pending" => s.first = "pending" \/ t.save
           /\ t.first = "ok" => s.first = "ok"
           /\ t.conn = "connecting" =>
                t.first \in {"ok", "pending"} \/ (s.conn = "connecting" /\ t.first = s.first)
           /\ t.info = s.info
           /\ ~MayLogin(s) => t = s
  <1> DEFINE p == [s EXCEPT !.pending = TRUE]
  <1>1. p \in Account
    BY DEF Account
  <1>2. p.pending /\ p.first = s.first /\ p.conn = s.conn /\ p.info = s.info
    BY DEF Account
  <1>3. AutoLogin(s) = IF MayLogin(s) THEN Connect(p) ELSE s
    BY DEF AutoLogin
  <1> HIDE DEF p
  <1>4. Step(p, Connect(p)) /\ Connect(p).pending
    BY <1>1, <1>2, ConnectStep, ConnectKeepsPending
  <1> QED
    BY <1>2, <1>3, <1>4 DEF Step

(* The loop of processAutoLogin, over accounts that differ from those      *)
(* before in what checkIfConnectedOrCrashed has found.                     *)
LEMMA LoginKeeps ==
    ASSUME AccountsInv, Pending(acc) = {}, running \in {"starting", "up"},
           NEW checked \in [Accounts -> Account],
           \A a \in Accounts :
             /\ checked[a].pending = acc[a].pending /\ checked[a].first = acc[a].first
             /\ checked[a].conn = acc[a].conn /\ checked[a].info = acc[a].info
             /\ a \in suspect => LeftAlone(checked[a]) /\ checked[a].imReason = "crashed",
           ProcessAutoLogin(checked),
           running' = "up", autoLoginStatus' = "enabled",
           UNCHANGED <<offline, available, haunted, finished, suspect>>
    PROVE  AccountsInv'
  <1> DEFINE new == [a \in Accounts |-> AutoLogin(checked[a])]
             chosen == {a \in Accounts : MayLogin(checked[a])}
             k == Cardinality(chosen)
  <1>1. /\ TypeOK /\ LoginsCounted /\ Marked /\ acc \in [Accounts -> Account]
        /\ \A a \in suspect : Suspected(a)
    BY DEF AccountsInv, TypeOK
  <1>2. Settle(new, k) /\ wanted' = wanted \cup chosen
    BY DEF ProcessAutoLogin
  <1>3. IsFiniteSet(chosen) /\ k \in Nat
    <2>1. chosen \subseteq Accounts
      OBVIOUS
    <2> HIDE DEF chosen
    <2> QED
      BY <2>1, AccountsAssumption, FS_Subset, FS_CardinalityType
  <1>4. \A a \in Accounts : ~acc[a].pending
    BY DEF Pending
  <1>5. ASSUME NEW a \in Accounts
        PROVE  /\ new[a] \in Account /\ (new[a].pending <=> a \in chosen)
               /\ new[a].first = "pending" => acc[a].first = "pending" \/ new[a].save
               /\ new[a].first = "ok" => acc[a].first = "ok"
               /\ new[a].conn = "connecting" =>
                    \/ new[a].first \in {"ok", "pending"}
                    \/ acc[a].conn = "connecting" /\ new[a].first = acc[a].first
               /\ new[a].info = acc[a].info
               /\ a \in suspect => new[a] = checked[a]
    <2>1. checked[a] \in Account /\ ~checked[a].pending /\ new[a] = AutoLogin(checked[a])
      BY <1>4
    <2>2. a \in suspect => ~MayLogin(checked[a])
      BY DEF MayLogin
    <2>3. a \in chosen <=> MayLogin(checked[a])
      OBVIOUS
    <2> HIDE DEF new, chosen
    <2> QED
      BY <2>1, <2>2, <2>3, AutoLoginStep
  <1>6. new \in [Accounts -> Account]
    BY <1>5
  <1> HIDE DEF new
  <1>7. Pending(new) = chosen
    BY <1>5 DEF Pending
  <1>8. Finished(acc, new) = 0
    <2>1. {a \in Accounts : acc[a].pending /\ ~new[a].pending} = {}
      BY <1>4
    <2> QED
      BY <2>1, FS_EmptySet DEF Finished
  <1>9. count = 0 /\ ~loginPref
    BY <1>1, FS_EmptySet DEF LoginsCounted, TypeOK
  <1> HIDE DEF k, chosen
  <1>10. /\ count' = k
         /\ loginPref' <=> k > 0
    <2>1. count' = count + k - Finished(acc, new)
      BY <1>2 DEF Settle
    <2>2. loginPref' <=> (k > 0 /\ count = 0)
                        \/ (loginPref /\ ~LastFinished(count + k - Finished(acc, new),
                                                       Finished(acc, new)))
      BY <1>2 DEF Settle
    <2> QED
      BY <1>3, <1>8, <1>9, <2>1, <2>2
  <1>11. /\ acc' \in [Accounts -> Account] /\ Pending(acc') = Pending(new)
         /\ \A a \in Accounts :
              /\ ~acc'[a].save /\ acc'[a].first = new[a].first
              /\ acc'[a].conn = new[a].conn /\ acc'[a].info = new[a].info
              /\ acc'[a].imReason = new[a].imReason
              /\ LeftAlone(new[a]) => LeftAlone(acc'[a])
    BY <1>2, <1>3, <1>6, SettledAccounts
  <1>12. /\ loginPref' \in BOOLEAN
         /\ disk' \in [login : BOOLEAN, first : [Accounts -> FirstState]]
         /\ \A a \in Accounts : disk'.first[a] \in {disk.first[a], new[a].first}
         /\ \A a \in Accounts : new[a].save => disk'.first[a] = new[a].first
         /\ k > 0 => disk'.login
    BY <1>1, <1>2, <1>3, <1>6, <1>9, SettledFile
  <1>13. TypeOK'
    <2>1. wanted' \subseteq Accounts
      BY <1>1, <1>2 DEF TypeOK, chosen
    <2> QED
      BY <1>1, <1>3, <1>10, <1>11, <1>12, <2>1 DEF TypeOK
  <1>14. LoginsCounted'
    <2>1. count' = Cardinality(Pending(acc'))
      BY <1>7, <1>10, <1>11 DEF k
    <2> QED
      BY <1>10, <1>12, <2>1 DEF LoginsCounted
  <1>15. Marked'
    <2> SUFFICES ASSUME NEW a \in Accounts
                 PROVE  /\ ~acc'[a].save
                        /\ acc'[a].first = "pending" => disk'.first[a] = "pending"
                        /\ acc'[a].first = "ok" => a \in finished'
                        /\ acc'[a].conn = "connecting" /\ ~acc'[a].info =>
                             acc'[a].first \in {"ok", "pending"}
      BY DEF Marked
    <2>1. /\ acc[a].first = "pending" => disk.first[a] = "pending"
          /\ acc[a].first = "ok" => a \in finished
          /\ acc[a].conn = "connecting" /\ ~acc[a].info => acc[a].first \in {"ok", "pending"}
      BY <1>1 DEF Marked
    <2> QED
      BY <1>5, <1>11, <1>12, <2>1
  <1>16. AllFresh' /\ QuitIsClean'
    BY DEF AllFresh, QuitIsClean
  <1>17. ASSUME NEW a \in suspect' PROVE Suspected(a)'
    <2>1. a \in suspect /\ a \in Accounts /\ Suspected(a)
      BY <1>1 DEF TypeOK
    <2>2. acc[a].first = "crashed" /\ disk.first[a] \in {"pending", "crashed"}
      BY <2>1 DEF Suspected
    <2>3. new[a] = checked[a] /\ LeftAlone(new[a]) /\ new[a].imReason = "crashed"
          /\ new[a].first = "crashed"
      BY <1>5, <2>1, <2>2
    <2>4. LeftAlone(acc'[a]) /\ acc'[a].imReason = "crashed" /\ acc'[a].first = "crashed"
          /\ disk'.first[a] \in {"pending", "crashed"}
      BY <1>11, <1>12, <2>1, <2>2, <2>3
    <2> QED
      BY <2>4 DEF Suspected
  <1> QED
    BY <1>13, <1>14, <1>15, <1>16, <1>17 DEF AccountsInv
-----------------------------------------------------------------------------
(* The application. *)
LEMMA FreshAccount ==
    ASSUME NEW f \in FirstState
    PROVE  LET s == Fresh(f) IN
           /\ s \in Account /\ ~s.pending /\ ~s.save /\ s.first = f
           /\ s.conn = "disconnected" /\ LeftAlone(s)
  BY DEF Fresh, Account, ConnState, Reason, LeftAlone

LEMMA NothingPending ==
    ASSUME NEW rec \in [Accounts -> Account], \A a \in Accounts : ~rec[a].pending
    PROVE  Pending(rec) = {} /\ Cardinality(Pending(rec)) = 0
  BY FS_EmptySet DEF Pending

LEMMA StartupKeeps == ASSUME AccountsInv, Startup PROVE AccountsInv'
  <1> DEFINE f(a) == IF acc[a].first = "pending" THEN "crashed" ELSE acc[a].first
  <1>1. /\ TypeOK /\ LoginsCounted /\ Marked /\ acc \in [Accounts -> Account]
        /\ \A a \in suspect : Suspected(a)
    BY DEF AccountsInv, TypeOK
  <1>2. running \in {"quit", "crashed"} /\ running' = "starting"
        /\ autoLoginStatus' \in {"crash", "enabled"} /\ loginPref' = FALSE /\ available' = TRUE
        /\ acc' = [a \in Accounts |-> Fresh(f(a))]
        /\ UNCHANGED <<offline, count, disk, wanted, haunted, finished, suspect>>
    BY DEF Startup
  <1>3. \A a \in Accounts : f(a) \in FirstState \ {"pending"} /\ (f(a) = "ok" => acc[a].first = "ok")
    BY <1>1 DEF Account, FirstState
  <1>4. ASSUME NEW a \in Accounts
        PROVE  /\ acc'[a] \in Account /\ ~acc'[a].pending /\ ~acc'[a].save
               /\ acc'[a].first = f(a) /\ acc'[a].conn = "disconnected" /\ LeftAlone(acc'[a])
    <2>1. acc'[a] = Fresh(f(a)) /\ f(a) \in FirstState
      BY <1>2, <1>3
    <2> HIDE DEF f
    <2> QED
      BY <2>1, FreshAccount
  <1>5. acc' \in [Accounts -> Account]
    BY <1>2, <1>4
  <1>6. TypeOK'
    BY <1>1, <1>2, <1>5 DEF TypeOK
  <1>7. LoginsCounted'
    <2>1. Pending(acc') = {} /\ Cardinality(Pending(acc')) = 0
      BY <1>4, <1>5, NothingPending
    <2>2. count = 0
      BY <1>1, <1>2, FS_EmptySet DEF LoginsCounted
    <2> QED
      BY <1>2, <2>1, <2>2 DEF LoginsCounted
  <1>8. Marked'
    <2> SUFFICES ASSUME NEW a \in Accounts
                 PROVE  /\ ~acc'[a].save
                        /\ acc'[a].first = "pending" => disk'.first[a] = "pending"
                        /\ acc'[a].first = "ok" => a \in finished'
                        /\ acc'[a].conn = "connecting" /\ ~acc'[a].info =>
                             acc'[a].first \in {"ok", "pending"}
      BY DEF Marked
    <2>1. acc[a].first = "ok" => a \in finished
      BY <1>1 DEF Marked
    <2> HIDE DEF f
    <2> QED
      BY <1>2, <1>3, <1>4, <2>1
  <1>9. AllFresh' /\ QuitIsClean'
    BY <1>2 DEF AllFresh, QuitIsClean
  <1>10. ASSUME NEW a \in suspect' PROVE Suspected(a)'
    <2>1. a \in suspect /\ a \in Accounts /\ Suspected(a)
      BY <1>1, <1>2 DEF TypeOK
    <2>2. acc[a].first \in {"pending", "crashed"} /\ disk.first[a] \in {"pending", "crashed"}
      BY <1>2, <2>1 DEF Suspected
    <2>3. f(a) = "crashed"
      BY <2>2
    <2> HIDE DEF f
    <2> QED
      BY <1>2, <1>4, <2>1, <2>2, <2>3 DEF Suspected
  <1> QED
    BY <1>6, <1>7, <1>8, <1>9, <1>10 DEF AccountsInv

LEMMA ReadyKeeps == ASSUME AccountsInv, LoginsReady PROVE AccountsInv'
  <1> DEFINE c(a) == IF acc[a].first = "crashed" THEN [acc[a] EXCEPT !.imReason = "crashed"]
                     ELSE acc[a]
             checked == [a \in Accounts |-> c(a)]
  <1>1. /\ TypeOK /\ LoginsCounted /\ Marked /\ acc \in [Accounts -> Account]
        /\ \A a \in suspect : Suspected(a)
    BY DEF AccountsInv, TypeOK
  <1>2. running = "starting" /\ running' = "up"
        /\ UNCHANGED <<offline, available, autoLoginStatus, haunted, finished, suspect>>
        /\ IF autoLoginStatus = "enabled" THEN ProcessAutoLogin(checked)
           ELSE Settle(checked, 0) /\ UNCHANGED wanted
    BY DEF LoginsReady
  <1>3. ASSUME NEW s \in Account
        PROVE  LET t == [s EXCEPT !.imReason = "crashed"] IN
               /\ t \in Account /\ t.imReason = "crashed"
               /\ t.pending = s.pending /\ t.first = s.first /\ t.conn = s.conn
               /\ t.info = s.info /\ t.save = s.save /\ (LeftAlone(s) => LeftAlone(t))
    BY DEF Account, LeftAlone
  <1>4. ASSUME NEW a \in Accounts
        PROVE  /\ checked[a] \in Account
               /\ checked[a].pending = acc[a].pending /\ checked[a].first = acc[a].first
               /\ checked[a].conn = acc[a].conn /\ checked[a].info = acc[a].info
               /\ a \in suspect => LeftAlone(checked[a]) /\ checked[a].imReason = "crashed"
    <2>1. acc[a] \in Account /\ checked[a] = c(a)
      BY <1>1
    <2>2. a \in suspect => LeftAlone(acc[a]) /\ acc[a].first = "crashed"
      BY <1>1, <1>2 DEF Suspected
    <2> HIDE DEF checked
    <2> QED
      BY <1>3, <2>1, <2>2
  <1>5. checked \in [Accounts -> Account]
    BY <1>4
  <1> HIDE DEF checked, c
  <1>6. Pending(acc) = {}
    BY <1>1, <1>2 DEF LoginsCounted
  <1>7. CASE autoLoginStatus = "enabled"
    BY <1>2, <1>4, <1>5, <1>6, <1>7, LoginKeeps
  <1>8. CASE autoLoginStatus # "enabled"
    <2>1. Settle(checked, 0) /\ UNCHANGED wanted
      BY <1>2, <1>8
    <2>2. /\ acc' \in [Accounts -> Account] /\ Pending(acc') = Pending(checked)
          /\ \A a \in Accounts :
               /\ ~acc'[a].save /\ acc'[a].first = checked[a].first
               /\ acc'[a].conn = checked[a].conn /\ acc'[a].info = checked[a].info
               /\ acc'[a].imReason = checked[a].imReason
               /\ LeftAlone(checked[a]) => LeftAlone(acc'[a])
      BY <1>5, <2>1, SettledAccounts
    <2>3. /\ count' \in Nat /\ count' = Cardinality(Pending(acc'))
          /\ loginPref' <=> count' > 0
          /\ loginPref' => disk'.login
          /\ Pending(acc') \subseteq Pending(acc)
      BY <1>1, <1>2, <1>4, <1>5, <2>1, SettledCount
    <2>4. /\ loginPref' \in BOOLEAN
          /\ disk' \in [login : BOOLEAN, first : [Accounts -> FirstState]]
          /\ \A a \in Accounts : disk'.first[a] \in {disk.first[a], checked[a].first}
      BY <1>1, <1>5, <2>1, SettledFile
    <2>5. TypeOK'
      BY <1>1, <1>2, <2>1, <2>2, <2>3, <2>4 DEF TypeOK
    <2>6. LoginsCounted'
      BY <1>6, <2>3 DEF LoginsCounted
    <2>7. Marked'
      <3> SUFFICES ASSUME NEW a \in Accounts
                   PROVE  /\ ~acc'[a].save
                          /\ acc'[a].first = "pending" => disk'.first[a] = "pending"
                          /\ acc'[a].first = "ok" => a \in finished'
                          /\ acc'[a].conn = "connecting" /\ ~acc'[a].info =>
                               acc'[a].first \in {"ok", "pending"}
        BY DEF Marked
      <3>1. /\ acc[a].first = "pending" => disk.first[a] = "pending"
            /\ acc[a].first = "ok" => a \in finished
            /\ acc[a].conn = "connecting" /\ ~acc[a].info => acc[a].first \in {"ok", "pending"}
        BY <1>1 DEF Marked
      <3> QED
        BY <1>2, <1>4, <2>2, <2>4, <3>1
    <2>8. AllFresh' /\ QuitIsClean'
      BY <1>2 DEF AllFresh, QuitIsClean
    <2>9. ASSUME NEW a \in suspect' PROVE Suspected(a)'
      <3>1. a \in suspect /\ a \in Accounts /\ Suspected(a)
        BY <1>1, <1>2 DEF TypeOK
      <3>2. acc[a].first = "crashed" /\ disk.first[a] \in {"pending", "crashed"}
        BY <1>2, <3>1 DEF Suspected
      <3> QED
        BY <1>2, <1>4, <2>2, <2>4, <3>1, <3>2 DEF Suspected
    <2> QED
      BY <2>5, <2>6, <2>7, <2>8, <2>9 DEF AccountsInv
  <1> QED
    BY <1>7, <1>8

LEMMA LoginNowKeeps == ASSUME AccountsInv, LoginNow PROVE AccountsInv'
  <1>1. /\ TypeOK /\ LoginsCounted /\ acc \in [Accounts -> Account]
        /\ \A a \in suspect : Suspected(a)
    BY DEF AccountsInv, TypeOK
  <1>2. running = "up" /\ autoLoginStatus = "crash" /\ ProcessAutoLogin(acc)
        /\ running' = "up" /\ autoLoginStatus' = "enabled"
        /\ UNCHANGED <<offline, available, haunted, finished, suspect>>
    BY DEF LoginNow
  <1>3. Pending(acc) = {}
    BY <1>1, <1>2 DEF LoginsCounted
  <1>4. \A a \in suspect : LeftAlone(acc[a]) /\ acc[a].imReason = "crashed"
    BY <1>1, <1>2 DEF Suspected
  <1> QED
    BY <1>1, <1>2, <1>3, <1>4, LoginKeeps
LEMMA SaveKeeps == ASSUME AccountsInv, PrefsSaved PROVE AccountsInv'
  <1>1. /\ TypeOK /\ LoginsCounted /\ Marked /\ acc \in [Accounts -> Account]
        /\ loginPref \in BOOLEAN /\ \A a \in suspect : Suspected(a)
    BY DEF AccountsInv, TypeOK
  <1>2. /\ running \in {"starting", "up"}
        /\ disk' = [login |-> loginPref, first |-> [a \in Accounts |-> acc[a].first]]
        /\ UNCHANGED <<running, acc, offline, available, count, loginPref, autoLoginStatus,
                       wanted, haunted, finished, suspect>>
    BY DEF PrefsSaved, Prefs
  <1>3. \A a \in Accounts : acc[a].first \in FirstState
    BY <1>1 DEF Account
  <1>4. disk' \in [login : BOOLEAN, first : [Accounts -> FirstState]]
        /\ disk'.login = loginPref /\ \A a \in Accounts : disk'.first[a] = acc[a].first
    BY <1>1, <1>2, <1>3
  <1>5. TypeOK'
    BY <1>1, <1>2, <1>4 DEF TypeOK
  <1>6. LoginsCounted'
    BY <1>1, <1>2, <1>4 DEF LoginsCounted, Pending
  <1>7. Marked'
    BY <1>1, <1>2, <1>4 DEF Marked
  <1>8. AllFresh' /\ QuitIsClean'
    BY <1>2 DEF AllFresh, QuitIsClean
  <1>9. ASSUME NEW a \in suspect' PROVE Suspected(a)'
    <2>1. a \in suspect /\ a \in Accounts /\ Suspected(a)
      BY <1>1, <1>2 DEF TypeOK
    <2> QED
      BY <1>2, <1>4, <2>1 DEF Suspected
  <1> QED
    BY <1>5, <1>6, <1>7, <1>8, <1>9 DEF AccountsInv

(* What UnInit leaves of an account. *)
LEMMA UnInitAccount ==
    ASSUME NEW s \in Account
    PROVE  LET t == UnInit(s) IN
           /\ ~t.pending /\ t.first \in FirstState \ {"pending"}
           /\ t.first # s.first => s.first = "pending" /\ t.first = "unknown"
  <1> DEFINE f == IF s.first = "pending" THEN "unknown" ELSE s.first
             t == [s EXCEPT !.first = f, !.pending = FALSE]
  <1>1. f \in FirstState \ {"pending"} /\ (f # s.first => s.first = "pending" /\ f = "unknown")
    BY DEF Account, FirstState
  <1>2. UnInit(s) = t
    BY DEF UnInit
  <1> HIDE DEF f
  <1>3. ~t.pending /\ t.first = f
    BY DEF Account
  <1> QED
    BY <1>1, <1>2, <1>3

(* Quitting ends every automatic login, the last of them with the          *)
(* preference, and the file is written with that.                          *)
LEMMA QuitKeeps == ASSUME AccountsInv, Quit PROVE AccountsInv'
  <1> DEFINE new == [a \in Accounts |-> UnInit(acc[a])]
             done == Finished(acc, new)
             f == [a \in Accounts |-> new[a].first]
  <1>1. /\ TypeOK /\ LoginsCounted /\ Marked /\ acc \in [Accounts -> Account]
        /\ count \in Nat /\ loginPref \in BOOLEAN /\ \A a \in suspect : Suspected(a)
    BY DEF AccountsInv, TypeOK
  <1>2. /\ running \in {"starting", "up"} /\ running' = "quit"
        /\ acc' = [a \in Accounts |-> Fresh(new[a].first)]
        /\ loginPref' = (loginPref /\ ~LastFinished(count - done, done))
        /\ disk' = [login |-> loginPref', first |-> f]
        /\ count' = 0 /\ wanted' = {} /\ haunted' = {}
        /\ UNCHANGED <<offline, available, autoLoginStatus, finished, suspect>>
    BY DEF Quit, Prefs
  <1>3. ASSUME NEW a \in Accounts
        PROVE  /\ ~new[a].pending /\ new[a].first \in FirstState \ {"pending"}
               /\ new[a].first # acc[a].first =>
                    acc[a].first = "pending" /\ new[a].first = "unknown"
    <2>1. new[a] = UnInit(acc[a]) /\ acc[a] \in Account
      BY <1>1
    <2> HIDE DEF new
    <2> QED
      BY <2>1, UnInitAccount
  <1>4. done = count
    <2>1. {a \in Accounts : acc[a].pending /\ ~new[a].pending} = Pending(acc)
      BY <1>3 DEF Pending
    <2> QED
      BY <1>1, <2>1 DEF Finished, LoginsCounted
  <1> HIDE DEF done, new
  <1>5. loginPref' = FALSE
    <2>1. loginPref => count > 0
      BY <1>1, <1>2 DEF LoginsCounted
    <2>2. count > 0 => LastFinished(count - done, done)
      BY <1>1, <1>4 DEF LastFinished
    <2> QED
      BY <1>1, <1>2, <2>1, <2>2
  <1>6. ASSUME NEW a \in Accounts
        PROVE  /\ acc'[a] \in Account /\ ~acc'[a].pending /\ ~acc'[a].save
               /\ acc'[a].first = new[a].first /\ acc'[a].conn = "disconnected"
               /\ LeftAlone(acc'[a]) /\ acc'[a] = Fresh(acc'[a].first)
    <2>1. acc'[a] = Fresh(new[a].first) /\ new[a].first \in FirstState
      BY <1>2, <1>3
    <2> QED
      BY <2>1, FreshAccount
  <1>7. acc' \in [Accounts -> Account]
    BY <1>2, <1>6
  <1>8. disk' \in [login : BOOLEAN, first : [Accounts -> FirstState]] /\ ~disk'.login
        /\ \A a \in Accounts : disk'.first[a] = new[a].first
    <2>1. f \in [Accounts -> FirstState] /\ \A a \in Accounts : f[a] = new[a].first
      BY <1>3
    <2> HIDE DEF f
    <2> QED
      BY <1>2, <1>5, <2>1
  <1>9. TypeOK'
    BY <1>1, <1>2, <1>5, <1>7, <1>8 DEF TypeOK
  <1>10. LoginsCounted'
    <2>1. Pending(acc') = {} /\ Cardinality(Pending(acc')) = 0
      BY <1>6, <1>7, NothingPending
    <2> QED
      BY <1>2, <1>5, <2>1 DEF LoginsCounted
  <1>11. Marked'
    <2> SUFFICES ASSUME NEW a \in Accounts
                 PROVE  /\ ~acc'[a].save
                        /\ acc'[a].first = "pending" => disk'.first[a] = "pending"
                        /\ acc'[a].first = "ok" => a \in finished'
                        /\ acc'[a].conn = "connecting" /\ ~acc'[a].info =>
                             acc'[a].first \in {"ok", "pending"}
      BY DEF Marked
    <2>1. acc[a].first = "ok" => a \in finished
      BY <1>1 DEF Marked
    <2> QED
      BY <1>2, <1>3, <1>6, <2>1
  <1>12. AllFresh'
    BY <1>6 DEF AllFresh
  <1>13. QuitIsClean'
    BY <1>3, <1>8 DEF QuitIsClean
  <1>14. ASSUME NEW a \in suspect' PROVE Suspected(a)'
    <2>1. a \in suspect /\ a \in Accounts /\ Suspected(a)
      BY <1>1, <1>2 DEF TypeOK
    <2>2. acc[a].first = "crashed"
      BY <1>2, <2>1 DEF Suspected
    <2>3. new[a].first = "crashed"
      BY <1>3, <2>1, <2>2
    <2> QED
      BY <1>2, <1>6, <1>8, <2>1, <2>3 DEF Suspected
  <1> QED
    BY <1>9, <1>10, <1>11, <1>12, <1>13, <1>14 DEF AccountsInv

(* What a crash interrupts is marked in the file. *)
LEMMA CrashKeeps == ASSUME AccountsInv, Crash PROVE AccountsInv'
  <1>1. /\ TypeOK /\ LoginsCounted /\ Marked /\ acc \in [Accounts -> Account]
        /\ disk \in [login : BOOLEAN, first : [Accounts -> FirstState]]
        /\ \A a \in suspect : Suspected(a)
    BY DEF AccountsInv, TypeOK
  <1>2. /\ running \in {"starting", "up"} /\ running' = "crashed"
        /\ acc' = [a \in Accounts |-> Fresh(disk.first[a])]
        /\ loginPref' = disk.login
        /\ suspect' = suspect \cup {a \in Accounts \ finished :
                                      acc[a].conn = "connecting" /\ ~acc[a].info}
        /\ finished' = finished \cup {a \in Accounts : disk.first[a] = "ok"}
        /\ count' = 0 /\ wanted' = {} /\ haunted' = {}
        /\ UNCHANGED <<offline, available, autoLoginStatus, disk>>
    BY DEF Crash
  <1>3. ASSUME NEW a \in Accounts
        PROVE  /\ acc'[a] \in Account /\ ~acc'[a].pending /\ ~acc'[a].save
               /\ acc'[a].first = disk.first[a] /\ acc'[a].conn = "disconnected"
               /\ LeftAlone(acc'[a]) /\ acc'[a] = Fresh(acc'[a].first)
    <2>1. acc'[a] = Fresh(disk.first[a]) /\ disk.first[a] \in FirstState
      BY <1>1, <1>2
    <2> QED
      BY <2>1, FreshAccount
  <1>4. acc' \in [Accounts -> Account]
    BY <1>2, <1>3
  <1>5. TypeOK'
    <2>1. suspect' \subseteq Accounts /\ finished' \subseteq Accounts
      BY <1>1, <1>2 DEF TypeOK
    <2>2. loginPref' \in BOOLEAN
      BY <1>1, <1>2
    <2> QED
      BY <1>1, <1>2, <1>4, <2>1, <2>2 DEF TypeOK
  <1>6. LoginsCounted'
    <2>1. Pending(acc') = {} /\ Cardinality(Pending(acc')) = 0
      BY <1>3, <1>4, NothingPending
    <2> QED
      BY <1>2, <2>1 DEF LoginsCounted
  <1>7. Marked'
    <2> SUFFICES ASSUME NEW a \in Accounts
                 PROVE  /\ ~acc'[a].save
                        /\ acc'[a].first = "pending" => disk'.first[a] = "pending"
                        /\ acc'[a].first = "ok" => a \in finished'
                        /\ acc'[a].conn = "connecting" /\ ~acc'[a].info =>
                             acc'[a].first \in {"ok", "pending"}
      BY DEF Marked
    <2> QED
      BY <1>2, <1>3
  <1>8. AllFresh' /\ QuitIsClean'
    BY <1>2, <1>3 DEF AllFresh, QuitIsClean
  <1>9. ASSUME NEW a \in suspect' PROVE Suspected(a)'
    <2>1. a \in Accounts
      BY <1>1, <1>2 DEF TypeOK
    <2>2. disk.first[a] \in {"pending", "crashed"}
      <3>1. CASE a \in suspect
        BY <1>1, <3>1 DEF Suspected
      <3>2. CASE a \notin suspect
        <4>1. a \notin finished /\ acc[a].conn = "connecting" /\ ~acc[a].info
          BY <1>2, <3>2
        <4> QED
          BY <1>1, <2>1, <4>1 DEF Marked
      <3> QED
        BY <3>1, <3>2
    <2> QED
      BY <1>2, <1>3, <2>1, <2>2 DEF Suspected
  <1> QED
    BY <1>5, <1>6, <1>7, <1>8, <1>9 DEF AccountsInv
-----------------------------------------------------------------------------
(* The invariant. *)
LEMMA AccountsInvInit == ASSUME Init PROVE AccountsInv
  <1> DEFINE f(a) == IF a \in finished THEN "ok" ELSE "unknown"
  <1>1. /\ running = "quit" /\ offline = FALSE /\ available = TRUE
        /\ finished \in SUBSET Accounts /\ count = 0 /\ loginPref = FALSE
        /\ autoLoginStatus = "enabled" /\ wanted = {} /\ haunted = {} /\ suspect = {}
        /\ acc = [a \in Accounts |-> Fresh(f(a))]
        /\ disk = [login |-> FALSE, first |-> [a \in Accounts |-> acc[a].first]]
    BY DEF Init, Prefs
  <1>2. \A a \in Accounts : f(a) \in FirstState \ {"pending"} /\ (f(a) = "ok" => a \in finished)
    BY DEF FirstState
  <1>3. ASSUME NEW a \in Accounts
        PROVE  /\ acc[a] \in Account /\ ~acc[a].pending /\ ~acc[a].save /\ acc[a].first = f(a)
               /\ acc[a].conn = "disconnected" /\ acc[a] = Fresh(acc[a].first)
               /\ disk.first[a] = f(a)
    <2>1. acc[a] = Fresh(f(a)) /\ f(a) \in FirstState /\ disk.first[a] = acc[a].first
      BY <1>1, <1>2
    <2> HIDE DEF f
    <2> QED
      BY <2>1, FreshAccount
  <1>4. acc \in [Accounts -> Account]
    BY <1>1, <1>3
  <1>5. TypeOK
    <2>1. disk \in [login : BOOLEAN, first : [Accounts -> FirstState]]
      <3>1. \A a \in Accounts : acc[a].first \in FirstState
        BY <1>2, <1>3
      <3> QED
        BY <1>1, <3>1
    <2> QED
      BY <1>1, <1>4, <2>1 DEF TypeOK
  <1>6. LoginsCounted
    BY <1>1, <1>3, <1>4, NothingPending DEF LoginsCounted
  <1> HIDE DEF f
  <1>7. Marked /\ AllFresh /\ QuitIsClean
    BY <1>1, <1>2, <1>3 DEF Marked, AllFresh, QuitIsClean
  <1> QED
    BY <1>1, <1>5, <1>6, <1>7 DEF AccountsInv

LEMMA AccountsInvNext == ASSUME AccountsInv, [Next]_vars PROVE AccountsInv'
  <1>1. ASSUME NEW a \in Accounts, AccountStep(a) PROVE AccountsInv'
    <2>1. CASE UserConnect(a) \/ UserDisconnect(a) \/ UserCancels(a)
      BY <1>1, <2>1, ClicksKeep
    <2>2. CASE ChangeSettings(a)
      BY <1>1, <2>2, SettingsKeep
    <2>3. CASE SettingsSaved(a)
      BY <1>1, <2>3, SavedKeeps
    <2>4. CASE SocketOpens(a) \/ Welcome(a) \/ ConnectionLost(a) \/ QuitAnswered(a)
      BY <1>1, <2>4, ConnectionKeeps
    <2>5. CASE Timeout(a) \/ LostTimerFires(a)
      BY <1>1, <2>5, TimersKeep
    <2> QED
      BY <1>1, <2>1, <2>2, <2>3, <2>4, <2>5 DEF AccountStep
  <1>2. ASSUME NEW off \in BOOLEAN, SetOffline(off) PROVE AccountsInv'
    <2>1. offline' \in BOOLEAN /\ available' \in BOOLEAN /\ available' = available
      BY <1>2 DEF SetOffline, AccountsInv, TypeOK
    <2>2. CASE available
      <3>1. StatusChanged(~off) /\ (~off) \in BOOLEAN
        BY <1>2, <2>2 DEF SetOffline
      <3> QED
        BY <2>1, <3>1, StatusKeeps
    <2>3. CASE ~available
      <3>1. UNCHANGED <<running, acc, count, loginPref, autoLoginStatus, disk, wanted,
                        haunted, finished, suspect>>
        BY <1>2, <2>3 DEF SetOffline
      <3> QED
        BY <2>1, <3>1 DEF AccountsInv, TypeOK, LoginsCounted, Pending, Marked, AllFresh,
             QuitIsClean, Suspected
    <2> QED
      BY <2>2, <2>3
  <1>3. ASSUME NEW av \in BOOLEAN, SetStatus(av) PROVE AccountsInv'
    <2>1. offline' \in BOOLEAN /\ available' \in BOOLEAN
      BY <1>3 DEF SetStatus, AccountsInv, TypeOK
    <2>2. StatusChanged(~offline /\ av) /\ (~offline /\ av) \in BOOLEAN
      BY <1>3 DEF SetStatus
    <2> QED
      BY <2>1, <2>2, StatusKeeps
  <1>4. CASE UNCHANGED vars
    BY <1>4 DEF vars, AccountsInv, TypeOK, LoginsCounted, Pending, Marked, AllFresh,
         QuitIsClean, Suspected
  <1> QED
    BY <1>1, <1>2, <1>3, <1>4, StartupKeeps, ReadyKeeps, LoginNowKeeps, SaveKeeps,
       QuitKeeps, CrashKeeps DEF Next

(* The strengthened invariant holds in every state: what the theorems      *)
(* about logins, crash marks and quits follow from.                        *)
THEOREM Inductive == Spec => []AccountsInv
  <1> QED
    BY AccountsInvInit, AccountsInvNext, PTL DEF Spec
-----------------------------------------------------------------------------
(* Every variable of imAccounts.js keeps its type: the counter of the      *)
(* automatic logins under way is never negative.                           *)
THEOREM AccountsTypeCorrect == Spec => []TypeOK
  <1>1. AccountsInv => TypeOK
    BY DEF AccountsInv
  <1> QED
    BY <1>1, Inductive, PTL

(* While any of any number of accounts is being logged in, the file says   *)
(* so, however the logins begin and end (startAutoLogin, finishedAutoLogin *)
(* and the cases in which _finishedAutoLogin is called).                   *)
THEOREM LoginIsOnDisk == Spec => []AutoLoginOnDisk
  <1>1. AccountsInv => AutoLoginOnDisk
    <2> SUFFICES ASSUME AccountsInv, NEW a \in Accounts, acc[a].pending PROVE disk.login
      BY DEF AutoLoginOnDisk
    <2>1. a \in Pending(acc) /\ IsFiniteSet(Pending(acc))
      BY AccountsAssumption, FS_Subset DEF Pending
    <2>2. TypeOK /\ LoginsCounted
      BY DEF AccountsInv
    <2>3. count > 0
      <3>1. Cardinality(Pending(acc)) # 0
        <4> DEFINE P == Pending(acc)
        <4>1. P # {} /\ IsFiniteSet(P)
          BY <2>1
        <4> HIDE DEF P
        <4>2. Cardinality(P) # 0
          BY <4>1, FS_EmptySet
        <4> QED
          BY <4>2 DEF P
      <3> QED
        BY <2>2, <3>1 DEF TypeOK, LoginsCounted
    <2>4. running \in {"starting", "up"}
      <3>1. \A f : ~Fresh(f).pending
        BY DEF Fresh
      <3>2. acc[a] = Fresh(acc[a].first) => ~acc[a].pending
        BY <3>1
      <3> QED
        BY <2>2, <3>2 DEF TypeOK, AccountsInv, AllFresh
    <2> QED
      BY <2>2, <2>3, <2>4 DEF LoginsCounted
  <1> QED
    BY <1>1, Inductive, PTL

(* A regular quit leaves no trace of a crash (unInit of the accounts).     *)
THEOREM NoFalseAlarm == Spec => []QuitIsClean
  <1>1. AccountsInv => QuitIsClean
    BY DEF AccountsInv
  <1> QED
    BY <1>1, Inductive, PTL

(* An account that crashed the program is left alone until the user asks   *)
(* for it (checkIfConnectedOrCrashed and checkAutoLogin), for any number   *)
(* of accounts, restarts and crashes.                                      *)
THEOREM CrashersLeftAlone == Spec => []Quarantine
  <1>1. AccountsInv => Quarantine
    BY DEF AccountsInv, Quarantine, Suspected, LeftAlone
  <1> QED
    BY <1>1, Inductive, PTL

-----------------------------------------------------------------------------
(* Which accounts are connected, and which wait for it.                    *)

(* An account has a socket exactly while it is not disconnected, and waits *)
(* for the answer to QUIT while it is disconnecting.                       *)
Linked(s) ==
    /\ s.conn = "disconnected" <=> s.sock = "none"
    /\ s.conn = "disconnecting" => s.quit /\ s.reason = "none"
    /\ s.quit => s.conn # "disconnected"

(* An account that should be connected observes the status of the user,    *)
(* and has a timer when it cannot be connected now.                        *)
Looked(s, on) ==
    /\ s.observing
    /\ on /\ s.conn = "disconnected" /\ ErrorReason(s) \in {"none", "network"} =>
         s.timer # "none"

(* Nothing is left that would connect an account that the user has         *)
(* disconnected, if no such account is welcomed after QUIT.                *)
NoneTooLate == LateWelcome \cap Touched = {}
Parted(s, a) ==
    NoneTooLate =>
        /\ s.conn \in {"disconnected", "disconnecting"}
        /\ ~s.observing /\ s.timer = "none" /\ s.lostTimers = 0
        /\ s.conn = "disconnecting" => a \in Touched

Tied(a) ==
    /\ Linked(acc[a])
    /\ a \in wanted => Looked(acc[a], Online)
    /\ a \notin wanted \cup haunted => Parted(acc[a], a)
TiedInv == AccountsInv /\ \A a \in Accounts : Tied(a)

(* Two records that agree on the connection. *)
Alike(s, t) ==
    /\ t.conn = s.conn /\ t.reason = s.reason /\ t.imReason = s.imReason
    /\ t.observing = s.observing /\ t.timer = s.timer /\ t.lostTimers = s.lostTimers
    /\ t.sock = s.sock /\ t.quit = s.quit

LEMMA AlikeTied ==
    ASSUME NEW s \in Account, NEW t \in Account, Alike(s, t), NEW a \in Accounts,
           NEW on \in BOOLEAN
    PROVE  /\ Linked(s) => Linked(t)
           /\ Looked(s, on) => Looked(t, on)
           /\ Parted(s, a) => Parted(t, a)
  BY DEF Alike, Linked, Looked, Parted, ErrorReason

LEMMA FirstAlike ==
    ASSUME NEW s \in Account, NEW f \in FirstState
    PROVE  Alike(s, SetFirst(s, f))
  BY DEF Account, SetFirst, SaveFirst, Alike

LEMMA SavedAlike ==
    ASSUME NEW s \in Account, NEW t, t = [s EXCEPT !.save = FALSE]
    PROVE  t \in Account /\ Alike(s, t)
  BY DEF Account, Alike

(* A new connection is being opened; the rest is as it was. *)
Opened(s, t) ==
    /\ t.conn = "connecting" /\ t.sock = "opening"
    /\ t.reason = s.reason /\ t.imReason = s.imReason /\ t.observing = s.observing
    /\ t.lostTimers = s.lostTimers /\ t.quit = s.quit

LEMMA PrplConnectOpens == ASSUME NEW s \in Account PROVE Opened(s, PrplConnect(s))
  <1> DEFINE t == IF s.reason # "none" /\ s.timer = "far" THEN CancelReconnection(s) ELSE s
             u == IF t.first = "ok" THEN t ELSE SetFirst(t, "pending")
             v == [u EXCEPT !.conn = "connecting"]
             w == [v EXCEPT !.sock = "opening"]
  <1>1. t \in Account /\ t.reason = s.reason /\ t.imReason = s.imReason
        /\ t.observing = s.observing /\ t.lostTimers = s.lostTimers /\ t.quit = s.quit
    <2> DEFINE c == CancelReconnection(s)
    <2>1. c \in Account /\ c.reason = s.reason /\ c.imReason = s.imReason
      BY DEF Account, CancelReconnection
    <2>2. c.observing = s.observing /\ c.lostTimers = s.lostTimers /\ c.quit = s.quit
      BY DEF Account, CancelReconnection
    <2>3. t = c \/ t = s
      OBVIOUS
    <2> HIDE DEF c, t
    <2> QED
      BY <2>1, <2>2, <2>3
  <1>2. PrplConnect(s) = w
    BY DEF PrplConnect, AccountConnecting
  <1> HIDE DEF t
  <1>3. u \in Account /\ Alike(t, u)
    <2>1. CASE t.first = "ok"
      BY <1>1, <2>1 DEF Alike
    <2>2. CASE t.first # "ok"
      <3>1. u = SetFirst(t, "pending") /\ "pending" \in FirstState
        BY <2>2 DEF FirstState
      <3> QED
        BY <1>1, <3>1, SetFirstType, FirstAlike
    <2> QED
      BY <2>1, <2>2
  <1> HIDE DEF u
  <1>4. v \in Account /\ v.reason = u.reason /\ v.imReason = u.imReason /\ v.conn = "connecting"
        /\ v.observing = u.observing /\ v.lostTimers = u.lostTimers /\ v.quit = u.quit
    BY <1>3 DEF Account, ConnState
  <1> HIDE DEF v
  <1>5. w \in Account /\ w.reason = v.reason /\ w.imReason = v.imReason /\ w.conn = v.conn
        /\ w.observing = v.observing /\ w.lostTimers = v.lostTimers /\ w.quit = v.quit
        /\ w.sock = "opening"
    BY <1>4 DEF Account
  <1> HIDE DEF w
  <1> QED
    BY <1>1, <1>2, <1>3, <1>4, <1>5 DEF Opened, Alike

(* What connect does to an account: online it opens a connection unless    *)
(* there is one, and it always observes the status from then on.           *)
LEMMA ConnectTied ==
    ASSUME NEW s \in Account, Linked(s)
    PROVE  Connect(s) \in Account /\ Linked(Connect(s)) /\ Looked(Connect(s), Online)
  <1> DEFINE t == [s EXCEPT !.observing = TRUE]
  <1>1. /\ t \in Account /\ t.observing /\ t.conn = s.conn /\ t.sock = s.sock
        /\ t.quit = s.quit /\ t.reason = s.reason
    BY DEF Account
  <1>2. Connect(s) \in Account
    BY ConnectStep DEF Step
  <1>3. CASE Online /\ s.conn = "disconnected"
    <2>1. Connect(s) = PrplConnect(t)
      BY <1>3 DEF Connect
    <2> HIDE DEF t
    <2>2. Opened(t, Connect(s))
      BY <1>1, <2>1, PrplConnectOpens
    <2> QED
      BY <1>1, <1>2, <2>2 DEF Opened, Linked, Looked
  <1>4. CASE ~(Online /\ s.conn = "disconnected")
    <2>1. Connect(s) = t
      BY <1>4 DEF Connect
    <2> HIDE DEF t
    <2> QED
      BY <1>1, <1>4, <2>1 DEF Linked, Looked
  <1> QED
    BY <1>2, <1>3, <1>4

(* A connection is given up, with a timer if the network is the reason. *)
LEMMA DisconnectingFields ==
    ASSUME NEW s \in Account, NEW reason \in Reason
    PROVE  LET t == AccountDisconnecting(s, reason) IN
           /\ t \in Account /\ t.conn = "disconnecting" /\ t.reason = reason
           /\ t.imReason = s.imReason /\ t.observing = s.observing
           /\ t.sock = s.sock /\ t.quit = s.quit
           /\ reason # "network" => t.timer = s.timer /\ t.lostTimers = s.lostTimers
           /\ reason = "network" /\ ~offline => t.timer # "none"
  <1> DEFINE t == IF s.first \in {"ok", "crashed"} THEN s ELSE SetFirst(s, "unknown")
             u == [t EXCEPT !.conn = "disconnecting", !.reason = reason, !.pending = FALSE]
             v == AccountDisconnecting(s, reason)
  <1>1. t \in Account /\ Alike(s, t)
    <2>1. CASE s.first \in {"ok", "crashed"}
      BY <2>1 DEF Alike
    <2>2. CASE s.first \notin {"ok", "crashed"}
      <3>1. t = SetFirst(s, "unknown") /\ "unknown" \in FirstState
        BY <2>2 DEF FirstState
      <3> QED
        BY <3>1, SetFirstType, FirstAlike
    <2> QED
      BY <2>1, <2>2
  <1>2. v = IF reason = "network" THEN StartReconnectTimer(u) ELSE u
    BY DEF AccountDisconnecting
  <1>3. v \in Account
    BY DisconnectingStep DEF Step
  <1> HIDE DEF t
  <1>4. /\ u \in Account /\ u.conn = "disconnecting" /\ u.reason = reason
        /\ u.imReason = t.imReason /\ u.observing = t.observing /\ u.sock = t.sock
        /\ u.quit = t.quit /\ u.timer = t.timer /\ u.lostTimers = t.lostTimers
    BY <1>1 DEF Account, ConnState
  <1> HIDE DEF u, v
  <1>5. CASE reason # "network"
    <2>1. v = u
      BY <1>2, <1>5
    <2> QED
      BY <1>1, <1>3, <1>4, <1>5, <2>1 DEF Alike, v
  <1>6. CASE reason = "network" /\ offline
    <2>1. v = u
      BY <1>2, <1>6 DEF StartReconnectTimer
    <2> QED
      BY <1>1, <1>3, <1>4, <1>6, <2>1 DEF Alike, v
  <1>7. CASE reason = "network" /\ ~offline
    <2> DEFINE n == IF u.timer = "none" THEN u.lostTimers ELSE u.lostTimers + 1
               w == IF u.attempt = 0 THEN "near" ELSE "far"
               x == [u EXCEPT !.attempt = 1, !.timer = w, !.lostTimers = n]
    <2>1. v = x /\ w # "none"
      BY <1>2, <1>7 DEF StartReconnectTimer
    <2> HIDE DEF n, w
    <2>2. /\ x.conn = u.conn /\ x.reason = u.reason /\ x.imReason = u.imReason
          /\ x.observing = u.observing /\ x.sock = u.sock /\ x.quit = u.quit /\ x.timer = w
      BY <1>4 DEF Account
    <2> HIDE DEF x
    <2> QED
      BY <1>1, <1>3, <1>4, <1>7, <2>1, <2>2 DEF Alike, v
  <1> QED
    BY <1>5, <1>6, <1>7 DEF v

(* prpl.disconnect *)
LEMMA PrplDisconnectFields ==
    ASSUME NEW s \in Account
    PROVE  LET t == PrplDisconnect(s) IN
           /\ t \in Account
           /\ t.observing = s.observing /\ t.imReason = s.imReason /\ t.sock = s.sock
           /\ t.timer = s.timer /\ t.lostTimers = s.lostTimers
           /\ s.conn \in {"disconnected", "disconnecting"} => t = s
           /\ s.conn \notin {"disconnected", "disconnecting"} =>
                t.conn = "disconnecting" /\ t.reason = "none" /\ t.quit
  <1> DEFINE u == AccountDisconnecting(s, "none")
             v == [u EXCEPT !.quit = TRUE]
             t == PrplDisconnect(s)
  <1>1. t = IF s.conn \in {"disconnected", "disconnecting"} THEN s ELSE v
    BY DEF PrplDisconnect
  <1>2. /\ u \in Account /\ u.conn = "disconnecting" /\ u.reason = "none"
        /\ u.imReason = s.imReason /\ u.observing = s.observing
        /\ u.sock = s.sock /\ u.timer = s.timer /\ u.lostTimers = s.lostTimers
    BY DisconnectingFields DEF Reason
  <1> HIDE DEF u, t
  <1>3. /\ v \in Account /\ v.conn = u.conn /\ v.reason = u.reason
        /\ v.imReason = u.imReason /\ v.observing = u.observing /\ v.quit
        /\ v.sock = u.sock /\ v.timer = u.timer /\ v.lostTimers = u.lostTimers
    BY <1>2 DEF Account
  <1> HIDE DEF v
  <1>4. CASE s.conn \in {"disconnected", "disconnecting"}
    BY <1>1, <1>4 DEF t
  <1>5. CASE s.conn \notin {"disconnected", "disconnecting"}
    BY <1>1, <1>2, <1>3, <1>5 DEF t
  <1> QED
    BY <1>4, <1>5

(* disconnect leaves nothing but the timers that could connect again. *)
LEMMA DisconnectTied ==
    ASSUME NEW s \in Account, Linked(s)
    PROVE  LET t == Disconnect(s) IN
           /\ t \in Account /\ Linked(t) /\ ~t.observing
           /\ t.conn \in {"disconnected", "disconnecting"}
           /\ t.timer = s.timer /\ t.lostTimers = s.lostTimers
           /\ s.conn = "disconnected" => t.conn = "disconnected"
           /\ s.conn = "connecting" => t.conn = "disconnecting"
  <1> DEFINE u == [s EXCEPT !.observing = FALSE]
             t == Disconnect(s)
  <1>1. u \in Account /\ ~u.observing /\ u.conn = s.conn /\ u.reason = s.reason
        /\ u.timer = s.timer /\ u.lostTimers = s.lostTimers /\ u.sock = s.sock
        /\ u.quit = s.quit
    BY DEF Account
  <1>2. t = PrplDisconnect(u)
    BY DEF Disconnect
  <1> HIDE DEF u, t
  <1>3. /\ t \in Account /\ ~t.observing /\ t.sock = s.sock
        /\ t.timer = s.timer /\ t.lostTimers = s.lostTimers
        /\ s.conn \in {"disconnected", "disconnecting"} => t = u
        /\ s.conn \notin {"disconnected", "disconnecting"} =>
             t.conn = "disconnecting" /\ t.reason = "none" /\ t.quit
    BY <1>1, <1>2, PrplDisconnectFields
  <1>4. Linked(t)
    BY <1>1, <1>3 DEF Linked
  <1> QED
    BY <1>1, <1>3, <1>4 DEF t

LEMMA CancelTied ==
    ASSUME NEW s \in Account
    PROVE  LET t == CancelReconnection(s) IN
           /\ t \in Account /\ t.timer = "none"
           /\ t.conn = s.conn /\ t.reason = s.reason /\ t.imReason = s.imReason
           /\ t.observing = s.observing /\ t.lostTimers = s.lostTimers
           /\ t.sock = s.sock /\ t.quit = s.quit
  BY DEF CancelReconnection, Account

(* When a connection has ended, an account that is looked after is         *)
(* connected again, at once or by the timer, and a parted one is not.      *)
LEMMA GotDisconnectedTied ==
    ASSUME NEW s \in Account, NEW reason \in Reason, Linked(s), s.conn # "disconnected",
           NEW a \in Accounts
    PROVE  LET t == GotDisconnected(s, reason) IN
           /\ t \in Account /\ Linked(t)
           /\ s.observing => Looked(t, Online)
           /\ Parted(s, a) => Parted(t, a)
  <1> DEFINE d == IF s.conn = "disconnecting" THEN s ELSE AccountDisconnecting(s, reason)
             e == [d EXCEPT !.sock = "none", !.quit = FALSE]
             f == [e EXCEPT !.conn = "disconnected"]
             t == GotDisconnected(s, reason)
  <1>1. /\ d \in Account /\ d.observing = s.observing
        /\ s.conn = "disconnecting" => d = s
        /\ d.reason = "network" /\ ~offline => d.timer # "none"
    <2>1. CASE s.conn = "disconnecting"
      BY <2>1 DEF Linked
    <2>2. CASE s.conn # "disconnecting"
      <3>1. d = AccountDisconnecting(s, reason)
        BY <2>2
      <3> HIDE DEF d
      <3> QED
        BY <2>2, <3>1, DisconnectingFields
    <2> QED
      BY <2>1, <2>2
  <1>2. t = AccountDisconnected(e)
    BY DEF GotDisconnected
  <1> HIDE DEF d
  <1>3. /\ e \in Account /\ e.sock = "none" /\ ~e.quit /\ e.observing = d.observing
        /\ e.reason = d.reason /\ e.timer = d.timer /\ e.lostTimers = d.lostTimers
    BY <1>1 DEF Account
  <1>4. t = IF f.observing /\ f.reason = "none" /\ Online THEN Connect(f) ELSE f
    BY <1>2 DEF AccountDisconnected
  <1> HIDE DEF e, t
  <1>5. /\ f \in Account /\ f.conn = "disconnected" /\ f.sock = e.sock /\ f.quit = e.quit
        /\ f.observing = e.observing /\ f.reason = e.reason /\ f.timer = e.timer
        /\ f.lostTimers = e.lostTimers
    BY <1>3 DEF Account, ConnState
  <1> HIDE DEF f
  <1>6. Linked(f)
    BY <1>3, <1>5 DEF Linked
  <1>7. CASE f.observing /\ f.reason = "none" /\ Online
    <2>1. t \in Account /\ Linked(t) /\ Looked(t, Online)
      BY <1>4, <1>5, <1>6, <1>7, ConnectTied
    <2>2. s.observing
      BY <1>1, <1>3, <1>5, <1>7
    <2> QED
      BY <2>1, <2>2 DEF Parted, t
  <1>8. CASE ~(f.observing /\ f.reason = "none" /\ Online)
    <2>1. t = f
      BY <1>4, <1>8
    <2>2. s.observing => Looked(t, Online)
      <3>1. f.imReason \in {"none", "crashed"}
        BY <1>5 DEF Account
      <3>2. ErrorReason(f) \in {"none", "network"} => f.reason \in {"none", "network"}
        BY <3>1 DEF ErrorReason
      <3>3. Online /\ f.reason = "network" => f.timer # "none"
        BY <1>1, <1>3, <1>5 DEF Online
      <3> QED
        BY <1>1, <1>3, <1>5, <1>8, <2>1, <3>2, <3>3 DEF Looked
    <2>3. Parted(s, a) => Parted(t, a)
      <3> SUFFICES ASSUME Parted(s, a) PROVE Parted(t, a)
        OBVIOUS
      <3>1. NoneTooLate => s.conn = "disconnecting" /\ d = s
        BY <1>1 DEF Parted
      <3> QED
        BY <1>3, <1>5, <2>1, <3>1 DEF Parted
    <2> QED
      BY <1>5, <1>6, <2>1, <2>2, <2>3 DEF t
  <1> QED
    BY <1>7, <1>8

(* A change of the status disconnects or connects what observes it. *)
LEMMA StatusTied ==
    ASSUME NEW s \in Account, NEW on \in BOOLEAN, Linked(s)
    PROVE  LET t == StatusObserved(s, on) IN
           /\ t \in Account /\ Linked(t)
           /\ s.observing => Looked(t, on)
           /\ ~s.observing => t = s
  <1> DEFINE u == IF s.conn \in {"connected", "connecting"} THEN PrplDisconnect(s) ELSE s
             t == StatusObserved(s, on)
  <1>1. t \in Account /\ (~s.observing => t = s)
    BY StatusStep DEF Step
  <1>2. CASE ~s.observing
    BY <1>1, <1>2
  <1>3. CASE s.observing /\ ~on
    <2>1. t = CancelReconnection(u)
      BY <1>3 DEF StatusObserved
    <2>2. u \in Account /\ u.observing /\ Linked(u)
      <3>1. CASE s.conn \in {"connected", "connecting"}
        <4>1. u = PrplDisconnect(s) /\ s.conn \notin {"disconnected", "disconnecting"}
          BY <3>1
        <4> HIDE DEF u
        <4>2. /\ u \in Account /\ u.observing /\ u.sock = s.sock
              /\ u.conn = "disconnecting" /\ u.reason = "none" /\ u.quit
          BY <1>3, <4>1, PrplDisconnectFields
        <4> QED
          BY <4>1, <4>2 DEF Linked
      <3>2. CASE s.conn \notin {"connected", "connecting"}
        BY <1>3, <3>2
      <3> QED
        BY <3>1, <3>2
    <2> HIDE DEF u, t
    <2>3. /\ t.conn = u.conn /\ t.reason = u.reason /\ t.observing = u.observing
          /\ t.sock = u.sock /\ t.quit = u.quit
      BY <2>1, <2>2, CancelTied
    <2>4. Linked(t) /\ t.observing
      BY <2>2, <2>3 DEF Linked
    <2> QED
      BY <1>1, <1>3, <2>4 DEF Looked, t
  <1>4. CASE s.observing /\ on
    <2>1. CASE s.conn = "disconnected" /\ ErrorReason(s) \in {"none", "network"}
      <3>1. t = PrplConnect(s)
        BY <1>4, <2>1 DEF StatusObserved
      <3> HIDE DEF t
      <3>2. Opened(s, t)
        BY <3>1, PrplConnectOpens
      <3>3. Linked(t) /\ t.observing /\ t.conn # "disconnected"
        BY <1>4, <2>1, <3>2 DEF Opened, Linked
      <3> QED
        BY <1>1, <1>4, <3>3 DEF Looked, t
    <2>2. CASE ~(s.conn = "disconnected" /\ ErrorReason(s) \in {"none", "network"})
      <3>1. t = s
        BY <1>4, <2>2 DEF StatusObserved
      <3>2. Looked(s, on)
        BY <1>4, <2>2 DEF Looked
      <3> QED
        BY <1>1, <1>4, <3>1, <3>2
    <2> QED
      BY <2>1, <2>2
  <1> QED
    BY <1>2, <1>3, <1>4
-----------------------------------------------------------------------------
(* An event of one account leaves the others as they are. *)
LEMMA EachTied ==
    ASSUME TiedInv, AccountsInv', NEW a \in Accounts, UNCHANGED <<offline, available>>,
           wanted' \ {a} = wanted \ {a}, haunted' \ {a} = haunted \ {a},
           \A b \in Accounts \ {a} : Alike(acc[b], acc'[b]),
           Linked(acc'[a]),
           a \in wanted' => Looked(acc'[a], Online),
           a \notin wanted' \cup haunted' => Parted(acc'[a], a)
    PROVE  TiedInv'
  <1>1. Online' = Online /\ Online \in BOOLEAN
    BY DEF Online
  <1>2. ASSUME NEW b \in Accounts PROVE Tied(b)'
    <2>1. CASE b = a
      BY <1>1, <2>1 DEF Tied
    <2>2. CASE b # a
      <3>1. acc[b] \in Account /\ acc'[b] \in Account /\ Alike(acc[b], acc'[b]) /\ Tied(b)
        BY <2>2 DEF TiedInv, AccountsInv, TypeOK
      <3>2. (b \in wanted' <=> b \in wanted) /\ (b \in haunted' <=> b \in haunted)
        BY <2>2
      <3>3. Linked(acc'[b])
        BY <1>1, <3>1, AlikeTied DEF Tied
      <3>4. b \in wanted' => Looked(acc'[b], Online)
        BY <1>1, <3>1, <3>2, AlikeTied DEF Tied
      <3>5. b \notin wanted' \cup haunted' => Parted(acc'[b], b)
        BY <1>1, <3>1, <3>2, AlikeTied DEF Tied
      <3> QED
        BY <1>1, <3>3, <3>4, <3>5 DEF Tied
    <2> QED
      BY <2>1, <2>2
  <1> QED
    BY <1>2 DEF TiedInv

LEMMA OneTied ==
    ASSUME TiedInv, AccountsInv', NEW a \in Accounts, NEW s \in Account, SettleOne(a, s),
           UNCHANGED <<offline, available>>,
           wanted' \ {a} = wanted \ {a}, haunted' \ {a} = haunted \ {a},
           Linked(s),
           a \in wanted' => Looked(s, Online),
           a \notin wanted' \cup haunted' => Parted(s, a)
    PROVE  TiedInv'
  <1> DEFINE new == [acc EXCEPT ![a] = s]
  <1>1. acc \in [Accounts -> Account]
    BY DEF TiedInv, AccountsInv, TypeOK
  <1>2. new \in [Accounts -> Account] /\ new[a] = s
        /\ \A b \in Accounts \ {a} : new[b] = acc[b]
    BY <1>1
  <1>3. Settle(new, 0)
    BY DEF SettleOne
  <1> HIDE DEF new
  <1>4. \A b \in Accounts : acc'[b] = [new[b] EXCEPT !.save = FALSE]
    BY <1>2, <1>3, SettledAccounts
  <1>5. ASSUME NEW b \in Accounts PROVE acc'[b] \in Account /\ Alike(new[b], acc'[b])
    <2>1. new[b] \in Account /\ acc'[b] = [new[b] EXCEPT !.save = FALSE]
      BY <1>2, <1>4
    <2> QED
      BY <2>1, SavedAlike
  <1>6. \A b \in Accounts \ {a} : Alike(acc[b], acc'[b])
    BY <1>2, <1>5
  <1>7. /\ Linked(acc'[a])
        /\ a \in wanted' => Looked(acc'[a], Online)
        /\ a \notin wanted' \cup haunted' => Parted(acc'[a], a)
    <2>1. Online \in BOOLEAN /\ acc'[a] \in Account /\ Alike(s, acc'[a])
      BY <1>2, <1>5 DEF Online
    <2> QED
      BY <2>1, AlikeTied
  <1> QED
    BY <1>6, <1>7, EachTied

(* The same for events that nobody is told of. *)
LEMMA QuietTied ==
    ASSUME TiedInv, AccountsInv', NEW a \in Accounts, NEW s \in Account,
           acc' = [acc EXCEPT ![a] = s],
           UNCHANGED <<offline, available, wanted, haunted>>,
           Linked(s),
           a \in wanted => Looked(s, Online),
           a \notin wanted \cup haunted => Parted(s, a)
    PROVE  TiedInv'
  <1>1. acc \in [Accounts -> Account]
    BY DEF TiedInv, AccountsInv, TypeOK
  <1>2. acc'[a] = s /\ \A b \in Accounts \ {a} : acc'[b] = acc[b]
    BY <1>1
  <1>3. \A b \in Accounts \ {a} : Alike(acc[b], acc'[b])
    BY <1>2 DEF Alike
  <1> QED
    BY <1>2, <1>3, EachTied

(* The end of a connection. *)
LEMMA LostTied ==
    ASSUME TiedInv, AccountsInv', NEW a \in Accounts, NEW reason \in Reason,
           acc[a].conn # "disconnected", SettleOne(a, GotDisconnected(acc[a], reason)),
           UNCHANGED <<offline, available, wanted, haunted>>
    PROVE  TiedInv'
  <1> DEFINE t == GotDisconnected(acc[a], reason)
  <1>1. acc[a] \in Account /\ Tied(a) /\ Linked(acc[a])
    BY DEF TiedInv, AccountsInv, TypeOK, Tied
  <1>2. /\ t \in Account /\ Linked(t)
        /\ acc[a].observing => Looked(t, Online)
        /\ Parted(acc[a], a) => Parted(t, a)
    BY <1>1, GotDisconnectedTied
  <1>3. SettleOne(a, t)
    OBVIOUS
  <1> HIDE DEF t
  <1>4. /\ a \in wanted => Looked(t, Online)
        /\ a \notin wanted \cup haunted => Parted(t, a)
    BY <1>1, <1>2 DEF Tied, Looked
  <1> QED
    BY <1>2, <1>3, <1>4, OneTied

-----------------------------------------------------------------------------
(* What the user does. *)
LEMMA ClicksTied ==
    ASSUME TiedInv, AccountsInv', NEW a \in Accounts,
           UserConnect(a) \/ UserDisconnect(a) \/ UserCancels(a)
    PROVE  TiedInv'
  <1>1. acc[a] \in Account /\ Linked(acc[a]) /\ wanted \subseteq Accounts
    BY DEF TiedInv, AccountsInv, TypeOK, Tied
  <1>2. CASE UserConnect(a)
    <2> DEFINE t == Connect(acc[a])
    <2>1. SettleOne(a, t) /\ wanted' = wanted \cup {a} /\ haunted' = haunted
          /\ UNCHANGED <<offline, available>>
      BY <1>2 DEF UserConnect
    <2>2. t \in Account /\ Linked(t) /\ Looked(t, Online)
      BY <1>1, ConnectTied
    <2> HIDE DEF t
    <2> QED
      BY <2>1, <2>2, OneTied
  <1>3. CASE UserDisconnect(a)
    <2> DEFINE t == Disconnect(acc[a])
    <2>1. SettleOne(a, t) /\ wanted' = wanted \ {a} /\ UNCHANGED <<offline, available>>
          /\ haunted' = (IF acc[a].timer # "none" \/ acc[a].lostTimers > 0
                         THEN haunted \cup {a} ELSE haunted \ {a})
          /\ a \in Touched
      BY <1>3 DEF UserDisconnect, Clicked
    <2>2. /\ t \in Account /\ Linked(t) /\ ~t.observing
          /\ t.conn \in {"disconnected", "disconnecting"}
          /\ t.timer = acc[a].timer /\ t.lostTimers = acc[a].lostTimers
      BY <1>1, DisconnectTied
    <2> HIDE DEF t
    <2>3. a \notin haunted' => acc[a].timer = "none" /\ acc[a].lostTimers = 0
      <3>1. acc[a].lostTimers \in Nat
        BY <1>1 DEF Account
      <3> QED
        BY <2>1, <3>1
    <2>4. a \notin haunted' => Parted(t, a)
      BY <2>1, <2>2, <2>3 DEF Parted
    <2>5. haunted' \ {a} = haunted \ {a} /\ wanted' \ {a} = wanted \ {a} /\ a \notin wanted'
      BY <2>1
    <2> QED
      BY <2>1, <2>2, <2>4, <2>5, OneTied
  <1>4. CASE UserCancels(a)
    <2> DEFINE d == Disconnect(acc[a])
               t == CancelReconnection(d)
    <2>1. SettleOne(a, t) /\ wanted' = wanted \ {a} /\ UNCHANGED <<offline, available>>
          /\ haunted' = (IF acc[a].lostTimers > 0 THEN haunted \cup {a} ELSE haunted \ {a})
          /\ acc[a].conn = "disconnected"
      BY <1>4 DEF UserCancels
    <2>2. /\ d \in Account /\ Linked(d) /\ ~d.observing /\ d.conn = "disconnected"
          /\ d.lostTimers = acc[a].lostTimers
      BY <1>1, <2>1, DisconnectTied
    <2> HIDE DEF d
    <2>3. /\ t \in Account /\ t.timer = "none" /\ ~t.observing
          /\ t.conn = "disconnected" /\ t.lostTimers = acc[a].lostTimers
          /\ t.reason = d.reason /\ t.sock = d.sock /\ t.quit = d.quit
      BY <2>2, CancelTied
    <2> HIDE DEF t
    <2>4. a \notin haunted' => acc[a].lostTimers = 0
      <3>1. acc[a].lostTimers \in Nat
        BY <1>1 DEF Account
      <3> QED
        BY <2>1, <3>1
    <2>5. Linked(t) /\ (a \notin haunted' => Parted(t, a))
      BY <2>2, <2>3, <2>4 DEF Linked, Parted
    <2>6. haunted' \ {a} = haunted \ {a} /\ wanted' \ {a} = wanted \ {a} /\ a \notin wanted'
      BY <2>1
    <2> QED
      BY <2>1, <2>3, <2>5, <2>6, OneTied
  <1> QED
    BY <1>2, <1>3, <1>4

LEMMA SettingsTied ==
    ASSUME TiedInv, AccountsInv', NEW a \in Accounts, ChangeSettings(a)
    PROVE  TiedInv'
  <1> DEFINE s == SetFirst(acc[a], "unknown")
             early == s.info \/ s.conn = "connected"
                        \/ (s.conn = "disconnected" /\ ErrorReason(s) = "none")
             i == s.info \/ ~early
             t == [s EXCEPT !.info = i]
  <1>1. acc[a] \in Account /\ "unknown" \in FirstState /\ Tied(a) /\ Online \in BOOLEAN
    BY DEF TiedInv, AccountsInv, TypeOK, FirstState, Online
  <1>2. s \in Account /\ Alike(acc[a], s)
    BY <1>1, SetFirstType, FirstAlike
  <1>3. SettleOne(a, t) /\ UNCHANGED <<offline, available, wanted, haunted>>
    BY DEF ChangeSettings
  <1>4. i \in BOOLEAN
    <2>1. s.info \in BOOLEAN
      BY <1>2 DEF Account
    <2> QED
      BY <2>1
  <1> HIDE DEF i, s
  <1>5. t \in Account /\ Alike(s, t)
    BY <1>2, <1>4 DEF Account, Alike
  <1> HIDE DEF t
  <1>6. Alike(acc[a], t)
    BY <1>2, <1>5 DEF Alike
  <1>7. Linked(t) /\ (a \in wanted => Looked(t, Online))
        /\ (a \notin wanted \cup haunted => Parted(t, a))
    BY <1>1, <1>5, <1>6, AlikeTied DEF Tied
  <1> QED
    BY <1>3, <1>5, <1>7, OneTied

(* New settings take effect: a connection is renewed, one that has failed  *)
(* is tried again.                                                         *)
LEMMA SavedTied ==
    ASSUME TiedInv, AccountsInv', NEW a \in Accounts, SettingsSaved(a)
    PROVE  TiedInv'
  <1> DEFINE s == [acc[a] EXCEPT !.info = FALSE]
             d == Disconnect(s)
             retry == s.conn = "disconnected" /\ ErrorReason(s) \in {"network", "fatal"}
             t == IF s.conn = "connecting" THEN Connect(d)
                  ELSE IF retry THEN Connect(s) ELSE s
  <1>1. acc[a] \in Account /\ Tied(a) /\ Online \in BOOLEAN
    BY DEF TiedInv, AccountsInv, TypeOK, Online
  <1>2. s \in Account /\ Alike(acc[a], s)
    BY <1>1 DEF Account, Alike
  <1>3. SettleOne(a, t) /\ UNCHANGED <<offline, available, haunted>>
        /\ wanted' = IF retry THEN wanted \cup {a} ELSE wanted
    BY DEF SettingsSaved
  <1> HIDE DEF s
  <1>4. Linked(s) /\ (a \in wanted => Looked(s, Online))
        /\ (a \notin wanted \cup haunted => Parted(s, a))
    BY <1>1, <1>2, AlikeTied DEF Tied
  <1>5. CASE s.conn = "connecting"
    <2>1. t = Connect(d) /\ ~retry
      BY <1>5
    <2>2. d \in Account /\ Linked(d)
      BY <1>2, <1>4, DisconnectTied
    <2> HIDE DEF d, t, retry
    <2>3. t \in Account /\ Linked(t) /\ Looked(t, Online)
      BY <2>1, <2>2, ConnectTied
    <2>4. a \notin wanted \cup haunted => Parted(t, a)
      BY <1>4, <1>5 DEF Parted
    <2> QED
      BY <1>3, <2>1, <2>3, <2>4, OneTied
  <1>6. CASE s.conn # "connecting" /\ retry
    <2>1. t = Connect(s)
      BY <1>6
    <2> HIDE DEF t
    <2>2. t \in Account /\ Linked(t) /\ Looked(t, Online)
      BY <1>2, <1>4, <2>1, ConnectTied
    <2>3. wanted' = wanted \cup {a}
      BY <1>3, <1>6
    <2> HIDE DEF retry
    <2> QED
      BY <1>3, <2>2, <2>3, OneTied
  <1>7. CASE s.conn # "connecting" /\ ~retry
    <2>1. t = s /\ wanted' = wanted
      BY <1>3, <1>7
    <2> HIDE DEF t, retry
    <2> QED
      BY <1>2, <1>3, <1>4, <2>1, OneTied
  <1> QED
    BY <1>5, <1>6, <1>7

LEMMA TimersTied ==
    ASSUME TiedInv, AccountsInv', NEW a \in Accounts, Timeout(a) \/ LostTimerFires(a)
    PROVE  TiedInv'
  <1>1. acc[a] \in Account /\ Tied(a) /\ Linked(acc[a])
    BY DEF TiedInv, AccountsInv, TypeOK, Tied
  <1>2. CASE TimerNear(a)
    <2> DEFINE s == [acc[a] EXCEPT !.timer = "near"]
    <2>1. /\ s \in Account /\ s.timer = "near" /\ s.conn = acc[a].conn
          /\ s.reason = acc[a].reason /\ s.imReason = acc[a].imReason
          /\ s.observing = acc[a].observing /\ s.sock = acc[a].sock /\ s.quit = acc[a].quit
      BY <1>1 DEF Account
    <2>2. acc' = [acc EXCEPT ![a] = s] /\ acc[a].timer = "far"
          /\ UNCHANGED <<offline, available, wanted, haunted>>
      BY <1>2 DEF TimerNear
    <2> HIDE DEF s
    <2>3. Linked(s) /\ (a \in wanted => Looked(s, Online))
          /\ (a \notin wanted \cup haunted => Parted(s, a))
      BY <1>1, <2>1, <2>2 DEF Tied, Linked, Looked, Parted
    <2> QED
      BY <2>1, <2>2, <2>3, QuietTied
  <1>3. CASE TimerFires(a)
    <2> DEFINE s == [acc[a] EXCEPT !.timer = "none"]
               t == Connect(s)
    <2>1. s \in Account /\ s.conn = acc[a].conn /\ s.reason = acc[a].reason
          /\ s.sock = acc[a].sock /\ s.quit = acc[a].quit
      BY <1>1 DEF Account
    <2>2. SettleOne(a, t) /\ acc[a].timer = "near"
          /\ UNCHANGED <<offline, available, wanted, haunted>>
      BY <1>3 DEF TimerFires
    <2> HIDE DEF s
    <2>3. Linked(s)
      BY <1>1, <2>1 DEF Linked
    <2>4. t \in Account /\ Linked(t) /\ Looked(t, Online)
      BY <2>1, <2>3, ConnectTied
    <2>5. a \notin wanted \cup haunted => Parted(t, a)
      BY <1>1, <2>2 DEF Tied, Parted
    <2> HIDE DEF t
    <2> QED
      BY <2>2, <2>4, <2>5, OneTied
  <1>4. CASE LostTimerFires(a)
    <2> DEFINE s == [acc[a] EXCEPT !.lostTimers = @ - 1]
               t == Connect(s)
    <2>1. s \in Account
      <3>1. acc[a].lostTimers \in Nat /\ acc[a].lostTimers > 0
        BY <1>1, <1>4 DEF Account, LostTimerFires
      <3>2. acc[a].lostTimers - 1 \in Nat
        BY <3>1
      <3> QED
        BY <1>1, <3>2 DEF Account
    <2>2. s.conn = acc[a].conn /\ s.reason = acc[a].reason
          /\ s.sock = acc[a].sock /\ s.quit = acc[a].quit
      BY <1>1 DEF Account
    <2>3. SettleOne(a, t) /\ acc[a].lostTimers > 0
          /\ UNCHANGED <<offline, available, wanted, haunted>>
      BY <1>4 DEF LostTimerFires
    <2> HIDE DEF s
    <2>4. Linked(s)
      BY <1>1, <2>2 DEF Linked
    <2>5. t \in Account /\ Linked(t) /\ Looked(t, Online)
      BY <2>1, <2>4, ConnectTied
    <2>6. a \notin wanted \cup haunted => Parted(t, a)
      <3>1. acc[a].lostTimers # 0
        BY <2>3
      <3> QED
        BY <1>1, <3>1 DEF Tied, Parted
    <2> HIDE DEF t
    <2> QED
      BY <2>3, <2>5, <2>6, OneTied
  <1>5. CASE QuitTimer(a)
    <2>1. SettleOne(a, GotDisconnected(acc[a], "none")) /\ acc[a].quit
          /\ UNCHANGED <<offline, available, wanted, haunted>>
      BY <1>5 DEF QuitTimer
    <2> QED
      BY <1>1, <2>1, LostTied DEF Linked, Reason
  <1> QED
    BY <1>2, <1>3, <1>4, <1>5 DEF Timeout

(* A welcome after QUIT reaches an account that the user has disconnected  *)
(* unless it is NoneTooLate.                                               *)
LEMMA ConnectionTied ==
    ASSUME TiedInv, AccountsInv', NEW a \in Accounts,
           SocketOpens(a) \/ Welcome(a) \/ ConnectionLost(a) \/ QuitAnswered(a)
    PROVE  TiedInv'
  <1>1. acc[a] \in Account /\ Tied(a) /\ Linked(acc[a])
    BY DEF TiedInv, AccountsInv, TypeOK, Tied
  <1>2. CASE SocketOpens(a)
    <2> DEFINE s == [acc[a] EXCEPT !.sock = "registering"]
    <2>1. /\ s \in Account /\ s.sock = "registering" /\ s.conn = acc[a].conn
          /\ s.reason = acc[a].reason /\ s.imReason = acc[a].imReason
          /\ s.observing = acc[a].observing /\ s.timer = acc[a].timer
          /\ s.lostTimers = acc[a].lostTimers /\ s.quit = acc[a].quit
      BY <1>1 DEF Account
    <2>2. acc' = [acc EXCEPT ![a] = s] /\ acc[a].sock = "opening"
          /\ UNCHANGED <<offline, available, wanted, haunted>>
      BY <1>2 DEF SocketOpens
    <2> HIDE DEF s
    <2>3. Linked(s) /\ (a \in wanted => Looked(s, Online))
          /\ (a \notin wanted \cup haunted => Parted(s, a))
      BY <1>1, <2>1, <2>2 DEF Tied, Linked, Looked, Parted, ErrorReason
    <2> QED
      BY <2>1, <2>2, <2>3, QuietTied
  <1>3. CASE Welcome(a)
    <2> DEFINE s == [acc[a] EXCEPT !.sock = "open"]
               u == SetFirst(s, "ok")
               t == [u EXCEPT !.conn = "connected", !.pending = FALSE]
    <2>1. s \in Account /\ s.sock = "open" /\ s.observing = acc[a].observing
      BY <1>1 DEF Account
    <2>2. SettleOne(a, t) /\ acc[a].sock = "registering" /\ (acc[a].quit => a \in LateWelcome)
          /\ UNCHANGED <<offline, available, wanted, haunted>>
      BY <1>3 DEF Welcome, AccountConnected
    <2> HIDE DEF s
    <2>3. u \in Account /\ Alike(s, u)
      BY <2>1, SetFirstType, FirstAlike DEF FirstState
    <2> HIDE DEF u
    <2>4. t \in Account /\ t.conn = "connected" /\ t.sock = u.sock /\ t.observing = u.observing
      BY <2>3 DEF Account, ConnState
    <2> HIDE DEF t
    <2>5. Linked(t) /\ (a \in wanted => Looked(t, Online))
      BY <1>1, <2>1, <2>3, <2>4 DEF Tied, Linked, Looked, Alike
    <2>6. a \notin wanted \cup haunted => Parted(t, a)
      <3>1. Parted(acc[a], a) /\ NoneTooLate =>
              acc[a].conn = "disconnecting" /\ acc[a].quit /\ a \in Touched
        BY <1>1, <2>2 DEF Parted, Linked
      <3>2. Parted(acc[a], a) => ~NoneTooLate
        BY <2>2, <3>1 DEF NoneTooLate
      <3> QED
        BY <1>1, <3>2 DEF Tied, Parted
    <2> QED
      BY <2>2, <2>4, <2>5, <2>6, OneTied
  <1>4. CASE ConnectionLost(a)
    <2>1. PICK reason \in {"network", "fatal"} : SettleOne(a, GotDisconnected(acc[a], reason))
      BY <1>4 DEF ConnectionLost
    <2>2. acc[a].conn # "disconnected" /\ reason \in Reason
          /\ UNCHANGED <<offline, available, wanted, haunted>>
      BY <1>1, <1>4 DEF ConnectionLost, Linked, Reason
    <2> QED
      BY <2>1, <2>2, LostTied
  <1>5. CASE QuitAnswered(a)
    <2> DEFINE reason == IF acc[a].conn = "disconnecting" THEN "none" ELSE "network"
    <2>1. SettleOne(a, GotDisconnected(acc[a], reason)) /\ acc[a].quit
          /\ UNCHANGED <<offline, available, wanted, haunted>>
      BY <1>5 DEF QuitAnswered
    <2>2. acc[a].conn # "disconnected" /\ reason \in Reason
      BY <1>1, <2>1 DEF Linked, Reason
    <2> HIDE DEF reason
    <2> QED
      BY <2>1, <2>2, LostTied
  <1> QED
    BY <1>2, <1>3, <1>4, <1>5
-----------------------------------------------------------------------------
(* An event of all accounts. *)
LEMMA AllTied ==
    ASSUME AccountsInv', NEW new \in [Accounts -> Account], NEW k \in Nat, Settle(new, k),
           \A a \in Accounts :
             /\ Linked(new[a])
             /\ a \in wanted' => Looked(new[a], Online')
             /\ a \notin wanted' \cup haunted' => Parted(new[a], a)
    PROVE  TiedInv'
  <1>1. \A a \in Accounts : acc'[a] = [new[a] EXCEPT !.save = FALSE]
    BY SettledAccounts
  <1>2. ASSUME NEW a \in Accounts PROVE Tied(a)'
    <2>1. acc'[a] \in Account /\ Alike(new[a], acc'[a]) /\ new[a] \in Account
      BY <1>1, SavedAlike
    <2>2. Online' \in BOOLEAN
      BY DEF Online
    <2>3. Linked(acc'[a])
      BY <2>1, <2>2, AlikeTied
    <2>4. a \in wanted' => Looked(acc'[a], Online')
      BY <2>1, <2>2, AlikeTied
    <2>5. a \notin wanted' \cup haunted' => Parted(acc'[a], a)
      BY <2>1, <2>2, AlikeTied
    <2> QED
      BY <2>3, <2>4, <2>5 DEF Tied
  <1> QED
    BY <1>2 DEF TiedInv

LEMMA StatusChangedTied ==
    ASSUME TiedInv, AccountsInv', NEW on \in BOOLEAN, StatusChanged(on), Online' <=> on
    PROVE  TiedInv'
  <1> DEFINE new == [a \in Accounts |-> StatusObserved(acc[a], on)]
  <1>1. acc \in [Accounts -> Account] /\ \A a \in Accounts : Tied(a)
    BY DEF TiedInv, AccountsInv, TypeOK
  <1>2. Settle(new, 0) /\ UNCHANGED <<wanted, haunted>>
    BY DEF StatusChanged
  <1>3. ASSUME NEW a \in Accounts
        PROVE  /\ new[a] \in Account /\ Linked(new[a])
               /\ acc[a].observing => Looked(new[a], on)
               /\ ~acc[a].observing => new[a] = acc[a]
    <2>1. new[a] = StatusObserved(acc[a], on) /\ acc[a] \in Account /\ Linked(acc[a])
      BY <1>1 DEF Tied
    <2> HIDE DEF new
    <2> QED
      BY <2>1, StatusTied
  <1>4. new \in [Accounts -> Account]
    BY <1>3
  <1> HIDE DEF new
  <1>5. ASSUME NEW a \in Accounts
        PROVE  /\ Linked(new[a])
               /\ a \in wanted' => Looked(new[a], Online')
               /\ a \notin wanted' \cup haunted' => Parted(new[a], a)
    <2>1. a \in wanted' => acc[a].observing
      BY <1>1, <1>2 DEF Tied, Looked
    <2>2. a \in wanted' => Looked(new[a], Online')
      BY <1>3, <2>1 DEF Looked
    <2>3. a \notin wanted' \cup haunted' => Parted(acc[a], a)
      BY <1>1, <1>2 DEF Tied
    <2>4. a \notin wanted' \cup haunted' => Parted(new[a], a)
      BY <1>3, <2>3 DEF Parted
    <2> QED
      BY <1>3, <2>2, <2>4
  <1> QED
    BY <1>2, <1>4, <1>5, AllTied

(* processAutoLogin: what is chosen is wanted, and connected if online. *)
LEMMA LoginTied ==
    ASSUME AccountsInv', NEW checked \in [Accounts -> Account], ProcessAutoLogin(checked),
           UNCHANGED <<offline, available, haunted>>,
           \A a \in Accounts :
             /\ Linked(checked[a])
             /\ a \in wanted => Looked(checked[a], Online)
             /\ a \notin wanted \cup haunted => Parted(checked[a], a)
    PROVE  TiedInv'
  <1> DEFINE new == [a \in Accounts |-> AutoLogin(checked[a])]
             chosen == {a \in Accounts : MayLogin(checked[a])}
             k == Cardinality(chosen)
  <1>1. Settle(new, k) /\ wanted' = wanted \cup chosen /\ Online' = Online
    BY DEF ProcessAutoLogin, Online
  <1>2. k \in Nat
    <2>1. chosen \subseteq Accounts
      OBVIOUS
    <2> HIDE DEF chosen
    <2> QED
      BY <2>1, AccountsAssumption, FS_Subset, FS_CardinalityType
  <1>3. ASSUME NEW a \in Accounts
        PROVE  /\ new[a] \in Account /\ Linked(new[a])
               /\ a \in wanted' => Looked(new[a], Online)
               /\ a \notin wanted' \cup haunted' => Parted(new[a], a)
    <2> DEFINE p == [checked[a] EXCEPT !.pending = TRUE]
    <2>1. new[a] = IF MayLogin(checked[a]) THEN Connect(p) ELSE checked[a]
      BY DEF AutoLogin
    <2>2. p \in Account /\ Alike(checked[a], p)
      <3>1. checked[a] \in Account
        OBVIOUS
      <3> QED
        BY <3>1 DEF Account, Alike
    <2>3. a \in chosen <=> MayLogin(checked[a])
      OBVIOUS
    <2> HIDE DEF p, new, chosen
    <2>4. CASE MayLogin(checked[a])
      <3>1. Linked(p)
        BY <2>2 DEF Linked, Alike
      <3>2. new[a] \in Account /\ Linked(new[a]) /\ Looked(new[a], Online)
        BY <2>1, <2>2, <2>4, <3>1, ConnectTied
      <3> QED
        BY <1>1, <2>3, <2>4, <3>2
    <2>5. CASE ~MayLogin(checked[a])
      <3>1. new[a] = checked[a] /\ (a \in wanted' <=> a \in wanted) /\ haunted' = haunted
        BY <1>1, <2>1, <2>3, <2>5
      <3> QED
        BY <3>1
    <2> QED
      BY <2>4, <2>5
  <1>4. new \in [Accounts -> Account]
    BY <1>3
  <1> HIDE DEF new, k, chosen
  <1>5. \A a \in Accounts : a \in wanted' => Looked(new[a], Online')
    BY <1>1, <1>3
  <1> QED
    BY <1>1, <1>2, <1>3, <1>4, <1>5, AllTied

LEMMA ReadyTied == ASSUME TiedInv, AccountsInv', LoginsReady PROVE TiedInv'
  <1> DEFINE c(a) == IF acc[a].first = "crashed" THEN [acc[a] EXCEPT !.imReason = "crashed"]
                     ELSE acc[a]
             checked == [a \in Accounts |-> c(a)]
  <1>1. acc \in [Accounts -> Account] /\ \A a \in Accounts : Tied(a)
    BY DEF TiedInv, AccountsInv, TypeOK
  <1>2. UNCHANGED <<offline, available, haunted>> /\ Online' = Online
        /\ IF autoLoginStatus = "enabled" THEN ProcessAutoLogin(checked)
           ELSE Settle(checked, 0) /\ UNCHANGED wanted
    BY DEF LoginsReady, Online
  <1>3. ASSUME NEW s \in Account
        PROVE  LET t == [s EXCEPT !.imReason = "crashed"] IN
               /\ t \in Account /\ t.imReason = "crashed" /\ t.conn = s.conn
               /\ t.reason = s.reason /\ t.observing = s.observing /\ t.timer = s.timer
               /\ t.lostTimers = s.lostTimers /\ t.sock = s.sock /\ t.quit = s.quit
    BY DEF Account
  <1>4. ASSUME NEW a \in Accounts
        PROVE  /\ checked[a] \in Account /\ Linked(checked[a])
               /\ a \in wanted => Looked(checked[a], Online)
               /\ a \notin wanted \cup haunted => Parted(checked[a], a)
    <2>1. acc[a] \in Account /\ checked[a] = c(a) /\ Tied(a)
      BY <1>1
    <2> HIDE DEF checked
    <2>2. CASE acc[a].first = "crashed"
      <3> DEFINE t == [acc[a] EXCEPT !.imReason = "crashed"]
      <3>1. checked[a] = t
        BY <2>1, <2>2
      <3>2. /\ t \in Account /\ t.imReason = "crashed" /\ t.conn = acc[a].conn
            /\ t.reason = acc[a].reason /\ t.observing = acc[a].observing
            /\ t.timer = acc[a].timer /\ t.lostTimers = acc[a].lostTimers
            /\ t.sock = acc[a].sock /\ t.quit = acc[a].quit
        BY <1>3, <2>1
      <3> HIDE DEF t
      <3> QED
        BY <2>1, <3>1, <3>2 DEF Tied, Linked, Looked, Parted, ErrorReason
    <2>3. CASE acc[a].first # "crashed"
      BY <2>1, <2>3 DEF Tied
    <2> QED
      BY <2>2, <2>3
  <1>5. checked \in [Accounts -> Account]
    BY <1>4
  <1> HIDE DEF checked, c
  <1>6. CASE autoLoginStatus = "enabled"
    BY <1>2, <1>4, <1>5, <1>6, LoginTied
  <1>7. CASE autoLoginStatus # "enabled"
    <2>1. Settle(checked, 0) /\ wanted' = wanted /\ haunted' = haunted
      BY <1>2, <1>7
    <2>2. \A a \in Accounts : a \in wanted' => Looked(checked[a], Online')
      BY <1>2, <1>4, <2>1
    <2> QED
      BY <1>4, <1>5, <2>1, <2>2, AllTied
  <1> QED
    BY <1>6, <1>7

(* Between sessions, and after them, no account has anything to tie it. *)
LEMMA FreshTied ==
    ASSUME NEW f \in FirstState, NEW a \in Accounts
    PROVE  Linked(Fresh(f)) /\ ~Fresh(f).observing /\ Parted(Fresh(f), a)
  BY DEF Fresh, Linked, Parted

LEMMA SessionTied ==
    ASSUME AccountsInv', wanted' = {},
           \A a \in Accounts : \E f \in FirstState : acc'[a] = Fresh(f)
    PROVE  TiedInv'
  <1> SUFFICES ASSUME NEW a \in Accounts PROVE Tied(a)'
    BY DEF TiedInv
  <1>1. PICK f \in FirstState : acc'[a] = Fresh(f)
    OBVIOUS
  <1> QED
    BY <1>1, FreshTied DEF Tied

(* A new session begins with nothing that is wanted. *)
LEMMA NothingWanted ==
    ASSUME TiedInv, running \in {"quit", "crashed"} PROVE wanted = {}
  <1> SUFFICES ASSUME NEW a \in wanted PROVE FALSE
    OBVIOUS
  <1>1. a \in Accounts /\ acc[a] \in Account /\ acc[a] = Fresh(acc[a].first) /\ Tied(a)
    BY DEF TiedInv, AccountsInv, TypeOK, AllFresh
  <1>2. ~acc[a].observing
    <2>1. acc[a].first \in FirstState
      BY <1>1 DEF Account
    <2>2. ~Fresh(acc[a].first).observing
      BY <1>1, <2>1, FreshTied
    <2> QED
      BY <1>1, <2>2
  <1> QED
    BY <1>1, <1>2 DEF Tied, Looked

LEMMA ApplicationTied ==
    ASSUME TiedInv, AccountsInv', Startup \/ Quit \/ Crash PROVE TiedInv'
  <1>1. acc \in [Accounts -> Account] /\ \A a \in Accounts : acc[a].first \in FirstState
    BY DEF TiedInv, AccountsInv, TypeOK, Account
  <1>2. CASE Startup
    <2> DEFINE f(a) == IF acc[a].first = "pending" THEN "crashed" ELSE acc[a].first
    <2>1. acc' = [a \in Accounts |-> Fresh(f(a))] /\ wanted' = {}
      BY <1>2, NothingWanted DEF Startup
    <2>2. \A a \in Accounts : f(a) \in FirstState
      BY <1>1 DEF FirstState
    <2> HIDE DEF f
    <2> QED
      BY <2>1, <2>2, SessionTied
  <1>3. CASE Quit
    <2> DEFINE f(a) == UnInit(acc[a]).first
    <2>1. acc' = [a \in Accounts |-> Fresh(f(a))] /\ wanted' = {}
      BY <1>3 DEF Quit
    <2>2. \A a \in Accounts : f(a) \in FirstState
      BY <1>1, UnInitAccount
    <2> HIDE DEF f
    <2> QED
      BY <2>1, <2>2, SessionTied
  <1>4. CASE Crash
    <2> DEFINE f(a) == disk.first[a]
    <2>1. acc' = [a \in Accounts |-> Fresh(f(a))] /\ wanted' = {}
      BY <1>4 DEF Crash
    <2>2. \A a \in Accounts : f(a) \in FirstState
      BY DEF TiedInv, AccountsInv, TypeOK
    <2> HIDE DEF f
    <2> QED
      BY <2>1, <2>2, SessionTied
  <1> QED
    BY <1>2, <1>3, <1>4
-----------------------------------------------------------------------------
LEMMA TiedInit == ASSUME Init PROVE TiedInv
  <1> DEFINE f(a) == IF a \in finished THEN "ok" ELSE "unknown"
  <1>1. AccountsInv /\ wanted = {} /\ acc = [a \in Accounts |-> Fresh(f(a))]
    BY AccountsInvInit DEF Init
  <1>2. \A a \in Accounts : f(a) \in FirstState
    BY DEF FirstState
  <1> HIDE DEF f
  <1>3. ASSUME NEW a \in Accounts PROVE Tied(a)
    BY <1>1, <1>2, FreshTied DEF Tied
  <1> QED
    BY <1>1, <1>3 DEF TiedInv

LEMMA TiedNext == ASSUME TiedInv, AccountsInv', [Next]_vars PROVE TiedInv'
  <1>1. ASSUME NEW a \in Accounts, AccountStep(a) PROVE TiedInv'
    BY <1>1, ClicksTied, SettingsTied, SavedTied, ConnectionTied, TimersTied DEF AccountStep
  <1>2. ASSUME NEW off \in BOOLEAN, SetOffline(off) PROVE TiedInv'
    <2>1. offline' = off /\ available' = available
      BY <1>2 DEF SetOffline
    <2>2. CASE available
      <3>1. StatusChanged(~off) /\ (Online' <=> ~off)
        BY <1>2, <2>1, <2>2 DEF SetOffline, Online
      <3> DEFINE on == ~off
      <3>2. on \in BOOLEAN /\ StatusChanged(on) /\ (Online' <=> on)
        BY <3>1
      <3> HIDE DEF on
      <3> QED
        BY <3>2, StatusChangedTied
    <2>3. CASE ~available
      <3>1. UNCHANGED <<acc, wanted, haunted>> /\ Online' = FALSE /\ Online = FALSE
        BY <1>2, <2>1, <2>3 DEF SetOffline, Online
      <3> QED
        BY <3>1 DEF TiedInv, Tied, Looked
    <2> QED
      BY <2>2, <2>3
  <1>3. ASSUME NEW av \in BOOLEAN, SetStatus(av) PROVE TiedInv'
    <2> DEFINE on == ~offline /\ av
    <2>1. on \in BOOLEAN /\ StatusChanged(on) /\ (Online' <=> on)
      BY <1>3 DEF SetStatus, Online
    <2> HIDE DEF on
    <2> QED
      BY <2>1, StatusChangedTied
  <1>4. CASE LoginNow
    <2>1. acc \in [Accounts -> Account] /\ \A a \in Accounts : Tied(a)
      BY DEF TiedInv, AccountsInv, TypeOK
    <2>2. ProcessAutoLogin(acc) /\ UNCHANGED <<offline, available, haunted>>
      BY <1>4 DEF LoginNow
    <2> QED
      BY <2>1, <2>2, LoginTied DEF Tied
  <1>5. CASE PrefsSaved \/ UNCHANGED vars
    <2>1. UNCHANGED <<acc, wanted, haunted, offline, available>>
      BY <1>5 DEF PrefsSaved, vars
    <2> QED
      BY <2>1 DEF TiedInv, Tied, Online
  <1> QED
    BY <1>1, <1>2, <1>3, <1>4, <1>5, ReadyTied, ApplicationTied DEF Next

LEMMA TiedInvariant == Spec => []TiedInv
  <1>1. TiedInv /\ [Next]_vars => TiedInv'
    BY AccountsInvNext, TiedNext DEF TiedInv
  <1> QED
    BY <1>1, TiedInit, PTL DEF Spec

(* What the user has disconnected stays so: disconnect, cancelReconnection *)
(* and the timer leave nothing that connects it, with any number of        *)
(* accounts, changes of the status, failures and restarts.  The hypothesis *)
(* excludes the welcome that is handled after QUIT (ircBase.jsm, "001"),   *)
(* which does connect again an account that the user has disconnected.     *)
THEOREM UserIsObeyed ==
    ASSUME LateWelcome \cap Touched = {} PROVE Spec => []StaysDisconnected
  <1>1. TiedInv => StaysDisconnected
    BY DEF TiedInv, Tied, Parted, NoneTooLate, StaysDisconnected
  <1> QED
    BY <1>1, TiedInvariant, PTL

(* An account that should be connected, and is not without a fatal error,  *)
(* has a timer: reportDisconnecting and the observers of the status leave  *)
(* none behind.                                                            *)
THEOREM NobodyStranded == Spec => []NeverStranded
  <1>1. TiedInv => NeverStranded
    <2> SUFFICES ASSUME TiedInv, Online, NEW a \in wanted,
                        acc[a].conn = "disconnected",
                        ErrorReason(acc[a]) \in {"none", "network"}
                 PROVE  acc[a].timer # "none"
      BY DEF NeverStranded
    <2>1. a \in Accounts /\ Tied(a)
      BY DEF TiedInv, AccountsInv, TypeOK
    <2> QED
      BY <2>1 DEF Tied, Looked
  <1> QED
    BY <1>1, TiedInvariant, PTL
=============================================================================
