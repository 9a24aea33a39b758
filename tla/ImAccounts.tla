----------------------------- MODULE ImAccounts -----------------------------
(***************************************************************************)
(* The accounts of the chat: chat/components/src/imAccounts.js, with the   *)
(* user's status of imCore.js and the connections of the IRC protocol,     *)
(* chat/protocols/irc/irc.js.                                              *)
(*                                                                         *)
(* Every handler runs to its end on the main thread, with the              *)
(* notifications it sends: an action is one event of that thread.  A       *)
(* handler is an operator from the record of an account to its new record. *)
(* Preferences are kept twice, in memory and in the file that a crash      *)
(* leaves behind: the first connection of an account and the automatic     *)
(* logins under way are written down before anything can crash.            *)
(*                                                                         *)
(* Left out: passwords (IRC does not require one), creation and removal of *)
(* accounts, missing protocols, and accounts that have automatic login off.*)
(***************************************************************************)
EXTENDS Integers, FiniteSets

CONSTANTS
    Accounts,     \* the accounts
    Touched,      \* bound: the accounts that the user connects, stops and edits
    Lossy,        \* bound: the accounts whose connection may fail
    LastSecond,   \* bound: those connected in the last second before their timer
    LateWelcome   \* bound: those whose welcome may arrive after QUIT was written

ASSUME AccountsAssumption ==
    /\ IsFiniteSet(Accounts)
    /\ Touched \subseteq Accounts /\ Lossy \subseteq Accounts
    /\ LastSecond \subseteq Accounts /\ LateWelcome \subseteq Accounts

VARIABLES
    running,          \* how far the application has got, or how it ended
    acc,              \* the record of each account
    offline,          \* Services.io.offline
    available,        \* the user's own status is not STATUS_OFFLINE
    count,            \* AutoLoginCounter._count
    loginPref,        \* is the preference autoLoginPending set?
    autoLoginStatus,  \* the attribute of that name
    disk,             \* the preferences in the file
    wanted,           \* history: connected by the user or by automatic login
    haunted,          \* history: disconnected while an older timer was left
    finished,         \* history: connected once with the present settings
    suspect           \* history: a crash interrupted a first connection

vars == <<running, acc, offline, available, count, loginPref, autoLoginStatus,
          disk, wanted, haunted, finished, suspect>>

ConnState == {"disconnected", "connecting", "connected", "disconnecting"}
Reason == {"none", "network", "fatal"}
FirstState == {"ok", "unknown", "pending", "crashed"}

(* timer: "near" in the second before it is due.  lostTimers: those that   *)
(* no handle refers to.  attempt: 1 after one or more.  info:              *)
(* _pendingReconnectForConnectionInfoChange.  quit: QUIT was written.      *)
(* save: the handler has called SavePrefTimer.saveNow.                     *)
Account == [
    conn : ConnState, reason : Reason, imReason : {"none", "crashed"},
    observing : BOOLEAN, timer : {"none", "far", "near"}, lostTimers : Nat,
    attempt : {0, 1}, first : FirstState, pending : BOOLEAN,
    info : BOOLEAN, sock : {"none", "opening", "registering", "open"},
    quit : BOOLEAN, save : BOOLEAN]

Fresh(f) == [
    conn |-> "disconnected", reason |-> "none", imReason |-> "none",
    observing |-> FALSE, timer |-> "none", lostTimers |-> 0, attempt |-> 0,
    first |-> f, pending |-> FALSE, info |-> FALSE,
    sock |-> "none", quit |-> FALSE, save |-> FALSE]

Online == ~offline /\ available       \* statusType > STATUS_OFFLINE
ErrorReason(s) == IF s.imReason # "none" THEN s.imReason ELSE s.reason
-----------------------------------------------------------------------------
(* The handlers of one account.                                            *)

ForgetTimer(s) == [s EXCEPT !.attempt = 0]
                                      \* mutant: the timer is not cleared
CancelReconnection(s) == [s EXCEPT !.timer = "none", !.attempt = 0]

(* The first delay is a second, the others are longer.  A connection that  *)
(* has lasted ten seconds makes the next delay a first one: that is left   *)
(* out, since a timer that is far may be near in the next state.           *)
StartReconnectTimer(s) ==
    IF offline THEN s
    ELSE [s EXCEPT !.attempt = 1,
                   !.timer = IF s.attempt = 0 THEN "near" ELSE "far",
                   !.lostTimers = IF s.timer = "none" THEN @ ELSE @ + 1]

SaveFirstLater(f) == FALSE            \* mutant: the state is not saved at once
SaveFirst(f) == f = "pending"
SetFirst(s, f) == [s EXCEPT !.first = f, !.save = @ \/ SaveFirst(f)]

(* observe, "account-connecting" *)
AccountConnecting(s) ==
    LET t == IF s.reason # "none" /\ s.timer = "far"
             THEN CancelReconnection(s) ELSE s
        u == IF t.first = "ok" THEN t ELSE SetFirst(t, "pending")
    IN [u EXCEPT !.conn = "connecting"]

(* observe, "account-connected" *)
AccountConnected(s) ==
    [SetFirst(s, "ok") EXCEPT !.conn = "connected", !.pending = FALSE]

(* observe, "account-disconnecting", after reportDisconnecting has set the *)
(* reason.                                                                 *)
AccountDisconnecting(s, reason) ==
    LET t == IF s.first \in {"ok", "crashed"} THEN s ELSE SetFirst(s, "unknown")
        u == [t EXCEPT !.conn = "disconnecting", !.reason = reason, !.pending = FALSE]
    IN IF reason = "network" THEN StartReconnectTimer(u) ELSE u

(* ircAccount.connect *)
PrplConnect(s) == [AccountConnecting(s) EXCEPT !.sock = "opening"]

(* ircAccount.disconnect: QUIT is written, and the socket is kept for the  *)
(* server's answer, for two seconds at most.                               *)
PrplDisconnect(s) ==
    IF s.conn \in {"disconnected", "disconnecting"} THEN s
    ELSE [AccountDisconnecting(s, "none") EXCEPT !.quit = TRUE]

Connect(s) ==
    LET t == [s EXCEPT !.observing = TRUE]
    IN IF Online /\ s.conn = "disconnected" THEN PrplConnect(t) ELSE t

Disconnect(s) == PrplDisconnect([s EXCEPT !.observing = FALSE])

NoReconnection(s) == [s EXCEPT !.conn = "disconnected"]
                                      \* mutant: waits for a change of the status
(* observe, "account-disconnected" *)
AccountDisconnected(s) ==
    LET t == [s EXCEPT !.conn = "disconnected"]
    IN IF t.observing /\ t.reason = "none" /\ Online THEN Connect(t) ELSE t

(* ircAccount.gotDisconnected *)
GotDisconnected(s, reason) ==
    LET t == IF s.conn = "disconnecting" THEN s
             ELSE AccountDisconnecting(s, reason)
    IN AccountDisconnected([t EXCEPT !.sock = "none", !.quit = FALSE])

(* _statusObserver; `on' is the new status. *)
StatusObserved(s, on) ==
    IF ~s.observing THEN s
    ELSE IF ~on
    THEN CancelReconnection(
           IF s.conn \in {"connected", "connecting"} THEN PrplDisconnect(s) ELSE s)
    ELSE IF s.conn = "disconnected" /\ ErrorReason(s) \in {"none", "network"}
    THEN PrplConnect(s) ELSE s

(* checkAutoLogin *)
MayLoginAnyway(s) == s.conn \notin {"connecting", "connected"}
                                      \* mutant: errors of the account are ignored
MayLogin(s) == s.imReason = "none" /\ s.conn \notin {"connecting", "connected"}
AutoLogin(s) == IF MayLogin(s) THEN Connect([s EXCEPT !.pending = TRUE]) ELSE s

(* unInit, for a quit *)
LeavePending(s) == [s EXCEPT !.first = IF @ = "pending" THEN "unknown" ELSE @]
                                      \* mutant: automatic login is left unfinished
UnInit(s) == [s EXCEPT !.first = IF @ = "pending" THEN "unknown" ELSE @,
                       !.pending = FALSE]
-----------------------------------------------------------------------------
(* The preferences after an event.  `new' are the records of the accounts, *)
(* `started' the number of calls of startAutoLogin.                        *)

Left(old, new) == Cardinality({a \in Accounts : new[a].conn = "disconnecting"
                                                /\ old[a].conn # "disconnecting"})
                                      \* mutant: _autoLoginPending is not looked at
Finished(old, new) == Cardinality({a \in Accounts : old[a].pending /\ ~new[a].pending})

AnyFinished(n, done) == done > 0      \* mutant: the preference goes with the first
LastFinished(n, done) == done > 0 /\ n = 0

Prefs(new, login) == [login |-> login, first |-> [a \in Accounts |-> new[a].first]]

Settle(new, started) ==
    LET done  == Finished(acc, new)
        n     == count + started - done
        begun == started > 0 /\ count = 0
        ended == LastFinished(n, done)
        login == begun \/ (loginPref /\ ~ended)
        save  == begun \/ \E a \in Accounts : new[a].save
    IN /\ acc' = [a \in Accounts |-> [new[a] EXCEPT !.save = FALSE]]
       /\ count' = n
       /\ loginPref' = login
       /\ disk' = IF save THEN Prefs(new, login) ELSE disk

SettleOne(a, s) == Settle([acc EXCEPT ![a] = s], 0)
-----------------------------------------------------------------------------
(* Events of the account manager's window.  A click is handled after what  *)
(* executeSoon has put in the queue of the thread.                         *)
Clicked(a) == a \in Touched /\ running \in {"starting", "up"} /\ \A b \in Accounts : ~acc[b].info
Undisturbed(a) ==
    acc[a].timer = "near" => a \in LastSecond /\ acc[a].lostTimers = 0

UserConnect(a) ==
    /\ Clicked(a) /\ acc[a].conn = "disconnected" /\ Undisturbed(a)
    /\ SettleOne(a, Connect(acc[a]))
    /\ wanted' = wanted \cup {a} /\ suspect' = suspect \ {a}
    /\ UNCHANGED <<running, offline, available, autoLoginStatus, haunted, finished>>

UserDisconnect(a) ==
    /\ Clicked(a) /\ acc[a].conn \in {"connecting", "connected"}
    /\ SettleOne(a, Disconnect(acc[a]))
    /\ wanted' = wanted \ {a}
    /\ haunted' = IF acc[a].timer # "none" \/ acc[a].lostTimers > 0
                  THEN haunted \cup {a} ELSE haunted \ {a}
    /\ UNCHANGED <<running, offline, available, autoLoginStatus, finished, suspect>>

(* cancelReconnection, offered while a reconnection is pending. *)
UserCancels(a) ==
    /\ Clicked(a) /\ acc[a].conn = "disconnected" /\ acc[a].attempt > 0
    /\ SettleOne(a, CancelReconnection(Disconnect(acc[a])))
    /\ wanted' = wanted \ {a}
    /\ haunted' = IF acc[a].lostTimers > 0 THEN haunted \cup {a} ELSE haunted \ {a}
    /\ UNCHANGED <<running, offline, available, autoLoginStatus, finished, suspect>>

(* setBool and others, with _connectionInfoChanged. *)
ChangeSettings(a) ==
    LET s == SetFirst(acc[a], "unknown")
        early == s.info \/ s.conn = "connected"
                   \/ (s.conn = "disconnected" /\ ErrorReason(s) = "none")
    IN /\ running = "up" /\ Clicked(a)
       /\ SettleOne(a, [s EXCEPT !.info = @ \/ ~early])
       /\ finished' = finished \ {a} /\ suspect' = suspect \ {a}
       /\ UNCHANGED <<running, offline, available, autoLoginStatus, wanted, haunted>>

(* The function that _connectionInfoChanged gives to executeSoon. *)
SettingsSaved(a) ==
    LET s == [acc[a] EXCEPT !.info = FALSE]
        retry == s.conn = "disconnected" /\ ErrorReason(s) \in {"network", "fatal"}
    IN /\ acc[a].info /\ Undisturbed(a)
       /\ SettleOne(a, IF s.conn = "connecting" THEN Connect(Disconnect(s))
                       ELSE IF retry THEN Connect(s) ELSE s)
       /\ wanted' = IF retry THEN wanted \cup {a} ELSE wanted
       /\ UNCHANGED <<running, offline, available, autoLoginStatus, haunted, finished, suspect>>
-----------------------------------------------------------------------------
(* Timers. *)
TimerNear(a) ==
    /\ acc[a].timer = "far" /\ ~acc[a].info
    /\ acc' = [acc EXCEPT ![a].timer = "near"]
    /\ UNCHANGED <<running, offline, available, count, loginPref, autoLoginStatus,
                   disk, wanted, haunted, finished, suspect>>

TimerFires(a) ==
    /\ acc[a].timer = "near"
    /\ SettleOne(a, Connect([acc[a] EXCEPT !.timer = "none"]))
    /\ UNCHANGED <<running, offline, available, autoLoginStatus, wanted, haunted, finished, suspect>>

LostTimerFires(a) ==
    /\ acc[a].lostTimers > 0
    /\ SettleOne(a, Connect([acc[a] EXCEPT !.lostTimers = @ - 1]))
    /\ UNCHANGED <<running, offline, available, autoLoginStatus, wanted, haunted, finished, suspect>>
-----------------------------------------------------------------------------
(* The connection.  A message of the server is handled by an idle          *)
(* callback, after what executeSoon has put in the queue.                  *)
SocketOpens(a) ==
    /\ acc[a].sock = "opening"
    /\ acc' = [acc EXCEPT ![a].sock = "registering"]
    /\ UNCHANGED <<running, offline, available, count, loginPref, autoLoginStatus,
                   disk, wanted, haunted, finished, suspect>>

(* ircBase, "001" *)
Welcome(a) ==
    /\ acc[a].sock = "registering" /\ ~acc[a].info
    /\ acc[a].quit => a \in LateWelcome
    /\ SettleOne(a, AccountConnected([acc[a] EXCEPT !.sock = "open"]))
    /\ finished' = finished \cup {a}
    /\ UNCHANGED <<running, offline, available, autoLoginStatus, wanted, haunted, suspect>>

(* The socket is refused, reset or timed out, or the server has refused    *)
(* the account.                                                            *)
ConnectionLost(a) ==
    /\ a \in Lossy /\ acc[a].sock # "none"
    /\ \E reason \in {"network", "fatal"} : SettleOne(a, GotDisconnected(acc[a], reason))
    /\ UNCHANGED <<running, offline, available, autoLoginStatus, wanted, haunted, finished, suspect>>

(* ircBase, "ERROR", and onConnectionClosed: the answer to QUIT. *)
QuitAnswered(a) ==
    /\ acc[a].quit /\ acc[a].sock \in {"registering", "open"}
    /\ SettleOne(a, GotDisconnected(acc[a],
                      IF acc[a].conn = "disconnecting" THEN "none" ELSE "network"))
    /\ UNCHANGED <<running, offline, available, autoLoginStatus, wanted, haunted, finished, suspect>>

(* _quitTimer *)
QuitTimer(a) ==
    /\ acc[a].quit
    /\ SettleOne(a, GotDisconnected(acc[a], "none"))
    /\ UNCHANGED <<running, offline, available, autoLoginStatus, wanted, haunted, finished, suspect>>
-----------------------------------------------------------------------------
(* The status of the user: UserStatus of imCore.js.                        *)
StatusChanged(on) ==
    /\ running = "up"
    /\ Settle([a \in Accounts |-> StatusObserved(acc[a], on)], 0)
    /\ UNCHANGED <<running, autoLoginStatus, wanted, haunted, finished, suspect>>

(* The setter of offline, which tells nobody while the user's own status   *)
(* is offline.                                                             *)
SetOffline(off) ==
    /\ offline # off /\ offline' = off /\ UNCHANGED available
    /\ IF available THEN StatusChanged(~off)
       ELSE running = "up" /\ UNCHANGED <<running, acc, count, loginPref,
                autoLoginStatus, disk, wanted, haunted, finished, suspect>>

(* setStatus, or another notification of the user's status: it is sent to  *)
(* the observers even if the status has not changed.                       *)
SetStatus(av) ==
    /\ \A a \in Accounts : Undisturbed(a) \/ ~acc[a].observing
    /\ available' = av /\ UNCHANGED offline
    /\ StatusChanged(~offline /\ av)
-----------------------------------------------------------------------------
(* The application. *)

(* initAccounts; _initAutoLoginStatus may find that the last crash was not *)
(* one, if there is a crash reporter.                                      *)
Startup ==
    /\ running \in {"quit", "crashed"} /\ running' = "starting"
    /\ autoLoginStatus' \in IF loginPref THEN {"crash", "enabled"} ELSE {"enabled"}
    /\ loginPref' = FALSE
    /\ acc' = [a \in Accounts |->
                 Fresh(IF acc[a].first = "pending" THEN "crashed" ELSE acc[a].first)]
    /\ available' = TRUE
    /\ UNCHANGED <<offline, count, disk, wanted, haunted, finished, suspect>>

ProcessAutoLogin(checked) ==
    LET chosen == {a \in Accounts : MayLogin(checked[a])}
    IN /\ Settle([a \in Accounts |-> AutoLogin(checked[a])], Cardinality(chosen))
       /\ wanted' = wanted \cup chosen

(* initializationPromise: errors are found, and accounts are logged in     *)
(* unless the last session has crashed in doing so.                        *)
LoginsReady ==
    LET checked == [a \in Accounts |->
          IF acc[a].first = "crashed" THEN [acc[a] EXCEPT !.imReason = "crashed"]
          ELSE acc[a]]
    IN /\ running = "starting" /\ running' = "up"
       /\ \A a \in Accounts : Undisturbed(a)
       /\ IF autoLoginStatus = "enabled" THEN ProcessAutoLogin(checked)
          ELSE Settle(checked, 0) /\ UNCHANGED wanted
       /\ UNCHANGED <<offline, available, autoLoginStatus, haunted, finished, suspect>>

(* The button of the window, which also goes online. *)
LoginNow ==
    /\ running = "up" /\ autoLoginStatus = "crash" /\ ~offline
    /\ \A a \in Accounts : ~acc[a].info /\ Undisturbed(a)
    /\ ProcessAutoLogin(acc)
    /\ autoLoginStatus' = "enabled"
    /\ UNCHANGED <<running, offline, available, haunted, finished, suspect>>

(* SavePrefTimer, or another part of the application, saves the file. *)
PrefsSaved ==
    /\ running \in {"starting", "up"}
    /\ disk' = Prefs(acc, loginPref)
    /\ UNCHANGED <<running, acc, offline, available, count, loginPref, autoLoginStatus,
                   wanted, haunted, finished, suspect>>

(* unInitAccounts; the preference service saves the file at the end. *)
Quit ==
    LET new == [a \in Accounts |-> UnInit(acc[a])]
        n   == count - Finished(acc, new)
        login == loginPref /\ ~LastFinished(n, Finished(acc, new))
    IN /\ running \in {"starting", "up"} /\ running' = "quit"
       /\ acc' = [a \in Accounts |-> Fresh(new[a].first)]
       /\ loginPref' = login /\ disk' = Prefs(new, login)
       /\ count' = 0 /\ wanted' = {} /\ haunted' = {}
       /\ UNCHANGED <<offline, available, autoLoginStatus, finished, suspect>>

(* What is left is what was in the file; changes of settings that were not *)
(* saved are gone, and the account has its older settings again.           *)
Crash ==
    /\ running \in {"starting", "up"} /\ running' = "crashed"
    /\ acc' = [a \in Accounts |-> Fresh(disk.first[a])]
    /\ loginPref' = disk.login
    /\ suspect' = suspect \cup {a \in Accounts \ finished :
                                  acc[a].conn = "connecting" /\ ~acc[a].info}
    /\ finished' = finished \cup {a \in Accounts : disk.first[a] = "ok"}
    /\ count' = 0 /\ wanted' = {} /\ haunted' = {}
    /\ UNCHANGED <<offline, available, autoLoginStatus, disk>>
-----------------------------------------------------------------------------
Init ==
    /\ running = "quit" /\ offline = FALSE /\ available = TRUE
    /\ finished \in SUBSET Accounts
    /\ acc = [a \in Accounts |-> Fresh(IF a \in finished THEN "ok" ELSE "unknown")]
    /\ count = 0 /\ loginPref = FALSE /\ autoLoginStatus = "enabled"
    /\ disk = Prefs(acc, FALSE)
    /\ wanted = {} /\ haunted = {} /\ suspect = {}

Timeout(a) == TimerNear(a) \/ TimerFires(a) \/ QuitTimer(a)

AccountStep(a) ==
    \/ UserConnect(a) \/ UserDisconnect(a) \/ UserCancels(a)
    \/ ChangeSettings(a) \/ SettingsSaved(a)
    \/ SocketOpens(a) \/ Welcome(a) \/ ConnectionLost(a) \/ QuitAnswered(a)
    \/ Timeout(a) \/ LostTimerFires(a)

Next ==
    \/ \E a \in Accounts : AccountStep(a)
    \/ \E off \in BOOLEAN : SetOffline(off)
    \/ \E av \in BOOLEAN : SetStatus(av)
    \/ Startup \/ LoginsReady \/ LoginNow \/ PrefsSaved \/ Quit \/ Crash

Spec == Init /\ [][Next]_vars

(* Timers fire, and executeSoon is served.  Nothing is assumed of the      *)
(* user, the network, the servers and the end of the application.          *)
FairSpec ==
    Spec /\ \A a \in Accounts : WF_vars(Timeout(a)) /\ WF_vars(SettingsSaved(a))
-----------------------------------------------------------------------------
(* The variables have their types: what the handlers of imAccount, the     *)
(* counter and the preferences may hold.                                   *)
TypeOK ==
    /\ running \in {"quit", "crashed", "starting", "up"}
    /\ acc \in [Accounts -> Account]
    /\ offline \in BOOLEAN /\ available \in BOOLEAN
    /\ count \in Nat /\ loginPref \in BOOLEAN
    /\ autoLoginStatus \in {"enabled", "crash"}
    /\ disk \in [login : BOOLEAN, first : [Accounts -> FirstState]]
    /\ wanted \subseteq Accounts /\ haunted \subseteq Accounts /\ finished \subseteq Accounts
    /\ suspect \subseteq Accounts

(* While any account is being logged in automatically, the file says so:   *)
(* whatever crashes then, the next start finds autoLoginPending.           *)
AutoLoginOnDisk ==
    (\E a \in Accounts : acc[a].pending) => disk.login

(* After a regular quit the file gives no reason to suspect a crash,       *)
(* neither in an automatic login nor in the first connection of an         *)
(* account, whatever was under way (unInit).                               *)
QuitIsClean ==
    running = "quit" =>
        ~disk.login /\ \A a \in Accounts : disk.first[a] # "pending"

(* An account whose first connection with its settings was interrupted by  *)
(* a crash is not connected again before the user asks for it, through any *)
(* number of restarts, changes of the status and timers.                   *)
Quarantine == \A a \in suspect : acc[a].conn = "disconnected"

(* An account that the user has disconnected, or whose reconnection was    *)
(* cancelled, stays so until the user or a new session connects it.        *)
StaysDisconnected ==
    \A a \in Accounts \ (wanted \cup haunted) :
        acc[a].conn \in {"disconnected", "disconnecting"}

(* An account that should be connected, and is not for a reason that is    *)
(* not fatal, has a timer that will connect it: no order of going offline, *)
(* slow disconnections and failures leaves it behind.                      *)
NeverStranded ==
    running = "up" /\ Online =>
        \A a \in wanted : acc[a].conn = "disconnected"
                            /\ ErrorReason(acc[a]) \in {"none", "network"}
                          => acc[a].timer # "none"

(* An account that should be connected, online and without a fatal error   *)
(* from some time on, is connected or tried again and again.               *)
Trying(a) == acc[a].conn \in {"connecting", "connected"}
Waiting(a) ==
    /\ running = "up" /\ Online /\ a \in wanted
    /\ ErrorReason(acc[a]) \in {"none", "network"}
KeepsTrying == \A a \in Accounts : <>[]Waiting(a) => []<>Trying(a)
=============================================================================
