---------------------------- MODULE MsgSendLater ----------------------------
(***************************************************************************)
(* The send-later service: mailnews/compose/src/nsMsgSendLater.cpp, with   *)
(* the delivery of a message that is already a file (nsMsgSend.cpp), the   *)
(* reparse of the Outbox (nsLocalMailFolder.cpp) and the tasks of a quit   *)
(* (nsMsgMailSession.cpp).                                                 *)
(*                                                                         *)
(* A run sends a snapshot of the Outbox message by message: each callback  *)
(* ends a step and starts the next one.  Whatever arrives in between finds *)
(* mSendingMessages set: the timer, the user, a quit, a crash.             *)
(* Background sending is on and there is an Outbox when the service starts.*)
(*                                                                         *)
(* Left out: messages that the user deletes from the Outbox during a run,  *)
(* the flags of the message that was answered, folders too busy to be      *)
(* parsed, a quit that does not ask (mQuitForced), out-of-memory paths.    *)
(***************************************************************************)
EXTENDS Integers, FiniteSets

CONSTANTS
    Message,   \* the messages
    News,      \* those for newsgroups
    Mail,      \* those with To, Cc or Bcc; with both, they are posted first
    Later,     \* those put into the Outbox by Send Later (flag Queued)
    None,      \* no message
    MaxTasks   \* bound: entries of the shutdown service's list

ASSUME MessageAssumption ==
    /\ News \cup Mail = Message
    /\ Later \subseteq Message
    /\ None \notin Message
    /\ MaxTasks \in Nat

VARIABLES
    outbox,            \* the messages in the folder
    known,             \* history: the messages that were ever put there
    sending,           \* mSendingMessages
    rest,              \* what mEnumerator still has
    current,           \* mMessage
    step,              \* what each message is waiting for
    notifying,         \* OnStopSending is being told to the listeners
    timer,             \* mTimer is armed
    timerSet,          \* mTimerSet
    summary,           \* the folder's database
    unparsed,          \* the messages that a valid database lacks
    reparseListener,   \* the folder's mReparseListener is the service
    userInitiated,     \* mUserInitiated
    shutdownListener,  \* mShutdownListener is set
    tasks,             \* mShutdownTasks.Count()
    taskIndex,         \* mTaskIndex
    quit,              \* how far the user's quit has got
    online,            \* not WeAreOffline()
    delivered,         \* history: the servers that have accepted a message
    repeated,          \* history: those a server has accepted twice
    doubtful,          \* history: an attempt left it in the Outbox, maybe sent
    fresh,             \* history: background messages to be sent by themselves
    cancelled,         \* history: the timer was cancelled but not mTimerSet
    lost               \* history: the callbacks that nobody will make

runVars == <<sending, rest, current, step, notifying>>
timerVars == <<timer, timerSet, cancelled>>
parseVars == <<summary, unparsed, reparseListener, userInitiated>>
quitVars == <<shutdownListener, tasks, taskIndex, quit>>
serverVars == <<delivered, repeated>>
vars == <<outbox, known, runVars, timerVars, parseVars, quitVars, online,
          serverVars, doubtful, fresh, lost>>

Step == {"idle", "reading", "alert", "posting", "mailing", "copying"}
Server == {"news", "mail"}
ServersOf(m) == (IF m \in News THEN {"news"} ELSE {})
                \cup (IF m \in Mail THEN {"mail"} ELSE {})

AllIdle == [m \in Message |-> "idle"]
Done(m) == [step EXCEPT ![m] = "idle"]

(***************************************************************************)
(* Runs.                                                                   *)
(***************************************************************************)
\* mutant: EndSendMessages leaves mSendingMessages alone.
EndButSending(st, cur) ==
    /\ sending' = sending /\ rest' = {} /\ current' = cur /\ step' = st
    /\ notifying' = TRUE

(* EndSendMessages, up to the call of the listeners.                       *)
EndSendMessages(st, cur) ==
    /\ sending' = FALSE /\ rest' = {} /\ current' = cur /\ step' = st
    /\ notifying' = TRUE

(* StartNextMailFileSend where it gets a message n of the enumerator and   *)
(* the message service starts to stream it.                                *)
StartMessage(st, n, r) ==
    /\ sending' = TRUE /\ rest' = r \ {n} /\ current' = n
    /\ step' = [st EXCEPT ![n] = "reading"]
    /\ UNCHANGED notifying
    /\ fresh' = fresh \ {n}

(* StartNextMailFileSend as the callbacks call it: when the next message   *)
(* cannot be started, the run ends with those that are left.               *)
GoOn(st, cur) ==
    /\ UNCHANGED lost
    /\ \/ rest = {} /\ EndSendMessages(st, cur) /\ UNCHANGED fresh
       \/ \E n \in rest : StartMessage(st, n, rest)
       \/ \E n \in rest : EndSendMessages(st, n) /\ fresh' = fresh \ rest

(* What is still waited for when a call of InternalSendMessages is refused. *)
Waiting == IF timer' \/ (summary' = "parsing" /\ reparseListener')
             THEN fresh ELSE {}

(* GetMessages lists what the database has. *)
SnapshotOf(user) == (IF user THEN outbox ELSE outbox \ Later) \ unparsed'

(* InternalSendMessages with a database that is valid.  Nobody calls       *)
(* EndSendMessages when the first message cannot be started.               *)
StartRun(user) ==
    LET s == SnapshotOf(user) IN
    \/ s = {} /\ EndSendMessages(step, current) /\ UNCHANGED <<fresh, lost>>
    \/ \E n \in s : StartMessage(step, n, s) /\ UNCHANGED lost
    \/ \E n \in s :
          /\ sending' = TRUE /\ rest' = s \ {n} /\ current' = n
          /\ UNCHANGED <<step, notifying>>
          /\ fresh' = fresh \ s /\ lost' = lost \cup {"run"}

\* mutant: without the check of mSendingMessages.
RefusedOffline == ~online

(* WeAreOffline and mSendingMessages, at the head of InternalSendMessages. *)
Refused == ~online \/ sending

(* InternalSendMessages: refused, put off until the Outbox is parsed, or   *)
(* started.                                                                *)
InternalSendMessages(user, s, listener) ==
    \/ /\ Refused
       /\ summary' = s /\ reparseListener' = listener
       /\ fresh' = IF sending THEN fresh \cap (rest \cup Waiting) ELSE Waiting
       /\ UNCHANGED <<runVars, userInitiated, lost>>
    \/ /\ ~Refused /\ s # "valid"
       /\ summary' = "parsing" /\ reparseListener' = TRUE
       /\ userInitiated' = user
       /\ UNCHANGED <<runVars, fresh, lost>>
    \/ /\ ~Refused /\ s = "valid"
       /\ summary' = s /\ reparseListener' = listener
       /\ userInitiated' = user
       /\ StartRun(user)
(***************************************************************************)
(* The steps of a message.                                                 *)
(***************************************************************************)
Submitting(m) == step[m] \in {"posting", "mailing"}
ServerFor(m) == IF step[m] = "posting" THEN "news" ELSE "mail"

Accept(m, srv) ==
    /\ delivered' = [delivered EXCEPT ![m] = @ \cup {srv}]
    /\ repeated' = IF srv \in delivered[m] THEN repeated \cup {m} ELSE repeated

(* OnStopRequest: the message was not read, CompleteMailFileSend fails     *)
(* (the user may have declined to send a large message), or DeliverMessage *)
(* submits it: to the news server first.                                   *)
ReadEnds(m) ==
    /\ step[m] = "reading"
    /\ \/ /\ step' = [step EXCEPT ![m] = "alert"]
          /\ UNCHANGED <<sending, rest, current, notifying, fresh, lost>>
       \/ GoOn(Done(m), current)
       \/ /\ step' = [step EXCEPT ![m] = IF m \in News THEN "posting"
                                         ELSE "mailing"]
          /\ UNCHANGED <<sending, rest, current, notifying, fresh, lost>>
    /\ UNCHANGED <<serverVars, outbox, doubtful>>

(* The message was posted and goes to recipients too.  The result of       *)
(* DeliverFileAsMail is ignored: when it fails, no listener is told.       *)
MailAlso(m) ==
    /\ \/ /\ step' = [step EXCEPT ![m] = "mailing"]
          /\ UNCHANGED <<doubtful, lost>>
       \/ /\ step' = Done(m)
          /\ doubtful' = doubtful \cup {m} /\ lost' = lost \cup {"run"}
    /\ UNCHANGED <<outbox, sending, rest, current, notifying, fresh>>

(* OnSendStepFinished with success, then DoFcc: the message is taken out   *)
(* of the Outbox, where it stays if that fails, and is copied unless it    *)
(* needs no copy.                                                          *)
Sent(m) ==
    \E deleted \in BOOLEAN :
      LET cur == IF deleted THEN None ELSE current IN
      /\ outbox' = IF deleted THEN outbox \ {current} ELSE outbox
      /\ doubtful' = IF deleted THEN doubtful ELSE doubtful \cup {current}
      /\ \/ GoOn(Done(m), cur)
         \/ /\ step' = [step EXCEPT ![m] = "copying"] /\ current' = cur
            /\ UNCHANGED <<sending, rest, notifying, fresh, lost>>

(* DoDeliveryExitProcessing, when the server has accepted the message.     *)
Submitted(m) ==
    /\ Submitting(m)
    /\ Accept(m, ServerFor(m))
    /\ IF step[m] = "posting" /\ m \in Mail THEN MailAlso(m) ELSE Sent(m)

\* mutant: DoDeliveryExitProcessing drops a message that was refused.
RefusedAndDropped(m) ==
    /\ Submitting(m)
    /\ step' = [step EXCEPT ![m] = "alert"]
    /\ outbox' = outbox \ {m}
    /\ UNCHANGED <<sending, rest, current, notifying, fresh, lost, serverVars,
                   doubtful>>

(* DoDeliveryExitProcessing with an error, which is shown.  The server may *)
(* have accepted the message all the same, or an earlier one has.          *)
SubmitFails(m) ==
    /\ Submitting(m)
    /\ \/ Accept(m, ServerFor(m))
       \/ UNCHANGED serverVars
    /\ step' = [step EXCEPT ![m] = "alert"]
    /\ doubtful' = IF delivered'[m] # {} THEN doubtful \cup {m} ELSE doubtful
    /\ UNCHANGED <<outbox, sending, rest, current, notifying, fresh, lost>>

(* The alert is closed, and the listener of the send goes on.              *)
AlertDismissed(m) ==
    /\ step[m] = "alert"
    /\ GoOn(Done(m), current)
    /\ UNCHANGED <<outbox, serverVars, doubtful>>

(* OnCopyStepFinished; NotifyListenerOnStopCopy may return without telling *)
(* the listener when a copy has failed.                                    *)
CopyEnds(m) ==
    /\ step[m] = "copying"
    /\ \/ GoOn(Done(m), current)
       \/ /\ step' = Done(m) /\ lost' = lost \cup {"run"}
          /\ UNCHANGED <<sending, rest, current, notifying, fresh>>
    /\ UNCHANGED <<outbox, serverVars, doubtful>>

MessageStep(m) ==
    /\ ~notifying
    /\ \/ ReadEnds(m) \/ Submitted(m) \/ SubmitFails(m)
       \/ AlertDismissed(m) \/ CopyEnds(m)
    /\ UNCHANGED <<known, timerVars, parseVars, quitVars, online>>

(***************************************************************************)
(* What starts a run.                                                      *)
(***************************************************************************)
(* A message is put into the folder.  OnItemAdded, which is told when the  *)
(* database is valid, arms the timer.                                      *)
AddMessage(m) ==
    /\ ~notifying /\ m \notin known /\ summary # "parsing"
    /\ known' = known \cup {m} /\ outbox' = outbox \cup {m}
    /\ IF summary = "valid" /\ ~timerSet
         THEN timer' = TRUE /\ timerSet' = TRUE
         ELSE UNCHANGED <<timer, timerSet>>
    /\ fresh' = IF m \in Later \/ summary # "valid" \/ cancelled
                  THEN fresh ELSE fresh \cup {m}
    /\ UNCHANGED <<cancelled, runVars, parseVars, quitVars, online, serverVars,
                   doubtful, lost>>

\* mutant: Observe leaves mTimerSet alone.
TimerOffOnly == timer' = FALSE /\ UNCHANGED <<timerSet, cancelled>>

TimerOff == timer' = FALSE /\ timerSet' = FALSE /\ UNCHANGED cancelled

(* Observe: the timer fires.  During a run it does nothing, and what was   *)
(* added since the run began is left where it is.                          *)
TimerFires ==
    /\ ~notifying /\ timer
    /\ TimerOff
    /\ UNCHANGED unparsed
    /\ InternalSendMessages(FALSE, summary, reparseListener)
    /\ UNCHANGED <<outbox, known, quitVars, online, serverVars, doubtful>>

(* SendUnsentMessages: the user asks for all messages to be sent.          *)
UserSends ==
    /\ ~notifying /\ online /\ outbox \ unparsed # {}
    /\ UNCHANGED <<outbox, known, unparsed, timerVars, quitVars, online,
                   serverVars, doubtful>>
    /\ InternalSendMessages(TRUE, summary, reparseListener)

(* A listener of OnStopSending calls SendUnsentMessages, as the offline    *)
(* manager does when the Outbox is not empty.                              *)
ListenerSends ==
    /\ notifying /\ ~sending /\ online /\ outbox \ unparsed # {}
    /\ UNCHANGED <<outbox, known, unparsed, timerVars, quitVars, online,
                   serverVars, doubtful>>
    /\ InternalSendMessages(TRUE, summary, reparseListener)

(* HasUnsentMessages, which menus call: a reparse that it starts, or finds *)
(* under way, gets no listener.                                            *)
HasUnsentMessages ==
    /\ ~notifying /\ summary # "valid"
    /\ summary' = "parsing" /\ reparseListener' = FALSE
    /\ fresh' = IF timer THEN fresh ELSE {}
    /\ UNCHANGED <<outbox, known, unparsed, runVars, timerVars, userInitiated,
                   quitVars, online, serverVars, doubtful, lost>>

(* OnStopRunningUrl of the folder: the reparse is over, and the service    *)
(* does what it was asked, or nothing if the reparse has failed: then the  *)
(* folder keeps a database that may lack messages, and takes it for valid  *)
(* as long as it is open.                                                  *)
ParseEnds ==
    /\ ~notifying /\ summary = "parsing"
    /\ UNCHANGED <<outbox, known, timerVars, quitVars, online, serverVars,
                   doubtful>>
    /\ \/ /\ unparsed' = {}
          /\ IF reparseListener
               THEN InternalSendMessages(userInitiated, "valid", FALSE)
               ELSE /\ summary' = "valid"
                    /\ UNCHANGED <<runVars, reparseListener, userInitiated, fresh,
                                   lost>>
       \/ /\ unparsed' \in SUBSET outbox
          /\ summary' = "valid" /\ reparseListener' = FALSE
          /\ fresh' = IF timer THEN fresh \ unparsed' ELSE {}
          /\ UNCHANGED <<runVars, userInitiated, lost>>

(* The folder's file is changed while its database is closed.              *)
SummaryOutdated ==
    /\ ~notifying /\ ~sending /\ summary = "valid"
    /\ summary' = "stale" /\ unparsed' = {}
    /\ UNCHANGED <<outbox, known, runVars, timerVars, reparseListener,
                   userInitiated, quitVars, online, serverVars, doubtful, fresh,
                   lost>>

(* WeAreOffline changes.                                                   *)
SwitchOnline ==
    /\ ~notifying
    /\ online' = ~online
    /\ UNCHANGED <<outbox, known, runVars, timerVars, parseVars, quitVars,
                   serverVars, doubtful, fresh, lost>>
(***************************************************************************)
(* Quits, crashes and restarts.                                            *)
(***************************************************************************)
(* The process ends and is started again.  The messages that the servers   *)
(* in acc were being handed may have been accepted; what is in the Outbox  *)
(* survives, whether its database does or not: one that lacks messages is  *)
(* valid if another was put there since.                                   *)
NewSession ==
    /\ \E acc \in SUBSET {m \in Message : Submitting(m)} :
         /\ delivered' = [m \in Message |->
               IF m \in acc THEN delivered[m] \cup {ServerFor(m)}
               ELSE delivered[m]]
         /\ repeated' = repeated \cup {m \in acc : ServerFor(m) \in delivered[m]}
    /\ doubtful' = doubtful \cup {m \in outbox : delivered'[m] # {}}
    /\ sending' = FALSE /\ rest' = {} /\ current' = None /\ step' = AllIdle
    /\ notifying' = FALSE /\ timer' = FALSE /\ timerSet' = FALSE
    /\ cancelled' = FALSE
    /\ \/ summary' = "stale" /\ unparsed' = {}
       \/ summary = "valid" /\ UNCHANGED <<summary, unparsed>>
    /\ reparseListener' = FALSE /\ userInitiated' = FALSE
    /\ shutdownListener' = FALSE /\ tasks' = 0 /\ taskIndex' = 0 /\ quit' = "no"
    /\ fresh' = {} /\ lost' = {}
    /\ UNCHANGED <<outbox, known, online>>

Crash == NewSession

(* DoShutdownTask cancels the timer, whose messages are forgotten.         *)
DoShutdownTask ==
    /\ timer' = FALSE /\ UNCHANGED timerSet
    /\ cancelled' = timerSet
    /\ fresh' = IF summary = "parsing" /\ reparseListener THEN fresh
                ELSE fresh \cap rest

(* ProcessNextTask with mTaskIndex = i, told by who: it waits for a run    *)
(* that is under way, or has nothing left to do and calls AttemptShutdown, *)
(* which a window may refuse.  The listener that DoShutdownTask has just   *)
(* been given is dropped when EndSendMessages has called.                  *)
ProcessNextTask(i, who) ==
    \/ /\ IF i < tasks THEN DoShutdownTask ELSE UNCHANGED <<timerVars, fresh>>
       /\ IF i < tasks /\ sending
            THEN /\ taskIndex' = i /\ quit' = "waiting"
                 /\ shutdownListener' = (who = "dialog")
                 /\ lost' = IF who = "dialog" THEN lost ELSE lost \cup {"quit"}
            ELSE /\ taskIndex' = IF i < tasks THEN tasks ELSE i
                 /\ quit' = IF who = "run" /\ quit = "dialog" THEN quit ELSE "no"
                 /\ shutdownListener' = (who = "dialog" /\ shutdownListener)
                 /\ UNCHANGED lost
       /\ notifying' = FALSE
       /\ UNCHANGED <<outbox, known, sending, rest, current, step, parseVars,
                      tasks, online, serverVars, doubtful>>
    \/ ~(i < tasks /\ sending) /\ NewSession

(* The listeners have been told that the run is over: the shutdown service *)
(* is told last.                                                           *)
ListenersReturn ==
    /\ notifying
    /\ \/ /\ ~shutdownListener
          /\ notifying' = FALSE
          /\ UNCHANGED <<outbox, known, sending, rest, current, step, timerVars,
                         parseVars, quitVars, online, serverVars, doubtful,
                         fresh, lost>>
       \/ shutdownListener /\ ProcessNextTask(taskIndex + 1, "run")

(* quit-application-requested: a quit without tasks is not stopped.  Tasks *)
(* of earlier quits are still in the list.                                 *)
QuitRequested ==
    LET n == IF sending THEN tasks + 1 ELSE tasks IN
    /\ ~notifying
    /\ \/ n = 0 /\ NewSession
       \/ /\ 0 < n /\ n <= MaxTasks
          /\ tasks' = n /\ taskIndex' = 0 /\ quit' = "dialog"
          /\ UNCHANGED <<outbox, known, runVars, timerVars, parseVars,
                         shutdownListener, online, serverVars, doubtful, fresh,
                         lost>>

(* The progress dialogue has been loaded.                                  *)
StartShutdownTasks ==
    ~notifying /\ quit = "dialog" /\ ProcessNextTask(taskIndex, "dialog")

(* The user does not want to wait: AttemptShutdown.                        *)
CancelShutdownTasks ==
    /\ ~notifying /\ quit \in {"dialog", "waiting"}
    /\ \/ NewSession
       \/ /\ quit' = "no"
          /\ UNCHANGED <<outbox, known, runVars, timerVars, parseVars,
                         shutdownListener, tasks, taskIndex, online, serverVars,
                         doubtful, fresh, lost>>

Init ==
    /\ outbox = {} /\ known = {}
    /\ sending = FALSE /\ rest = {} /\ current = None /\ step = AllIdle
    /\ notifying = FALSE
    /\ timer = FALSE /\ timerSet = FALSE /\ cancelled = FALSE
    /\ summary \in {"valid", "stale"} /\ unparsed = {}
    /\ reparseListener = FALSE /\ userInitiated = FALSE
    /\ shutdownListener = FALSE /\ tasks = 0 /\ taskIndex = 0 /\ quit = "no"
    /\ online = TRUE
    /\ delivered = [m \in Message |-> {}] /\ repeated = {} /\ doubtful = {}
    /\ fresh = {} /\ lost = {}

Next ==
    \/ \E m \in Message : MessageStep(m) \/ AddMessage(m)
    \/ TimerFires \/ UserSends \/ ListenerSends \/ HasUnsentMessages
    \/ ParseEnds \/ SummaryOutdated \/ SwitchOnline
    \/ ListenersReturn \/ QuitRequested \/ StartShutdownTasks
    \/ CancelShutdownTasks \/ Crash

Spec == Init /\ [][Next]_vars

(* Streams, servers and copies answer, alerts are closed, timers fire, a   *)
(* reparse ends and a dialogue is loaded; listeners return.                *)
FairSpec ==
    /\ Spec
    /\ \A m \in Message : WF_vars(MessageStep(m))
    /\ WF_vars(TimerFires) /\ WF_vars(ParseEnds)
    /\ WF_vars(ListenersReturn) /\ WF_vars(StartShutdownTasks)

-----------------------------------------------------------------------------
(* The variables have their types; mTimerSet says that the timer is armed  *)
(* or was cancelled by a quit, at most one message is in progress, none    *)
(* outside a run, and it is mMessage until it is copied.                   *)
TypeOK ==
    /\ known \subseteq Message /\ outbox \subseteq known
    /\ sending \in BOOLEAN /\ rest \subseteq Message
    /\ current \in Message \cup {None} /\ step \in [Message -> Step]
    /\ notifying \in BOOLEAN /\ timer \in BOOLEAN /\ timerSet \in BOOLEAN
    /\ summary \in {"valid", "stale", "parsing"} /\ unparsed \subseteq known
    /\ reparseListener \in BOOLEAN /\ userInitiated \in BOOLEAN
    /\ shutdownListener \in BOOLEAN /\ tasks \in Nat /\ taskIndex \in Nat
    /\ quit \in {"no", "dialog", "waiting"} /\ online \in BOOLEAN
    /\ delivered \in [Message -> SUBSET Server]
    /\ repeated \subseteq Message /\ doubtful \subseteq Message
    /\ fresh \subseteq outbox \ (Later \cup unparsed) /\ cancelled \in BOOLEAN
    /\ lost \subseteq {"run", "quit"}
    /\ timer => timerSet
    /\ timerSet => timer \/ cancelled
    /\ ~sending => step = AllIdle /\ rest = {}
    /\ \A m, n \in Message : step[m] # "idle" /\ step[n] # "idle" => m = n
    /\ \A m \in Message : step[m] \notin {"idle", "copying"} => current = m

(* A message leaves the Outbox only when each of its servers has accepted  *)
(* it, and no server accepts it again, unless an attempt has left it there *)
(* in doubt (an error after the server had it, a failed deletion, a crash, *)
(* a mail that failed after the posting): DoDeliveryExitProcessing,        *)
(* DeleteCurrentMessage and the check of mSendingMessages.                 *)
ExactlyOnce ==
    /\ \A m \in known \ outbox : delivered[m] = ServersOf(m)
    /\ repeated \subseteq doubtful

(* A message for background sending that was added to a valid Outbox is    *)
(* waited for, by the timer, by a reparse or by the run, until a run gets  *)
(* to it.  Not those a timer finds when a run is under way or the          *)
(* application is offline, nor those of a run that ends early, of a reparse*)
(* without listener or that fails, and of a timer cancelled by a quit:     *)
(* nothing sends those until the next message or the user does.            *)
NothingForgotten ==
    \A m \in fresh :
        timer \/ (summary = "parsing" /\ reparseListener)
              \/ (sending /\ m \in rest)

(* A run ends, and a quit that waits for it is answered, unless a callback *)
(* was lost: the first message of the run could not be started, the mail   *)
(* after a posting could not, a copy failed unreported, or the shutdown    *)
(* listener was replaced while it was being told.                          *)
RunEnds ==
    /\ sending ~> (~sending \/ "run" \in lost)
    /\ quit = "waiting" ~> (quit # "waiting" \/ lost # {})

=============================================================================
