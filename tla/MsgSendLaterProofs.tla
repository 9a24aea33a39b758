------------------------- MODULE MsgSendLaterProofs -------------------------
(***************************************************************************)
(* What TLAPS proves of the send-later service, for any messages and any   *)
(* number of runs, quits and crashes: the types with the claim that one    *)
(* message at a time is in progress (TypeOK), ExactlyOnce and              *)
(* NothingForgotten.                                                       *)
(*                                                                         *)
(* The inductive invariant adds Accounted: where a message is, and what    *)
(* the servers have of it, while it is on its way.                         *)
(***************************************************************************)
EXTENDS MsgSendLater, TLAPS

(* A message that is in progress or still to be started is in the Outbox,  *)
(* unless it is being copied.  What a server has of a message that stays   *)
(* in the Outbox was put in doubt, but for the posting that has just been  *)
(* accepted.                                                               *)
Accounted ==
    /\ rest \subseteq outbox
    /\ \A m \in Message :
         /\ delivered[m] \subseteq ServersOf(m)
         /\ delivered[m] # {} => m \in known
         /\ step[m] # "idle" => m \in known /\ m \notin rest /\ m \notin fresh
         /\ step[m] \notin {"idle", "copying"} => m \in outbox
         /\ step[m] = "posting" => m \in News
         /\ step[m] = "mailing" => m \in Mail /\ (m \in News => "news" \in delivered[m])
         /\ step[m] = "mailing" /\ "mail" \in delivered[m] => m \in doubtful
         /\ m \in outbox /\ step[m] # "mailing" /\ delivered[m] # {} => m \in doubtful

Inv == TypeOK /\ ExactlyOnce /\ NothingForgotten /\ Accounted
(* What a run keeps when a message m has been dealt with: cur is mMessage. *)
LEMMA GoOnKeeps ==
  ASSUME TypeOK, Accounted, NothingForgotten, sending,
         NEW m \in Message, step[m] # "idle",
         NEW cur \in Message \cup {None}, GoOn(Done(m), cur)
  PROVE  /\ sending' \in BOOLEAN /\ rest' \subseteq rest
         /\ current' \in Message \cup {None} /\ step' \in [Message -> Step]
         /\ notifying' \in BOOLEAN /\ lost' = lost /\ fresh' \subseteq fresh
         /\ ~sending' => step' = AllIdle /\ rest' = {}
         /\ \A n \in Message : step'[n] # "idle" =>
              /\ n \in rest /\ n \notin rest' /\ n \notin fresh'
              /\ step'[n] = "reading" /\ current' = n
              /\ \A k \in Message : step'[k] # "idle" => k = n
         /\ \A n \in fresh' : n \in rest => sending' /\ n \in rest'
<1> DEFINE st == Done(m)
<1>1. st = AllIdle /\ lost' = lost
  BY DEF TypeOK, Done, AllIdle, Step, GoOn
<1>2. CASE rest = {} /\ EndSendMessages(st, cur) /\ UNCHANGED fresh
  BY <1>1, <1>2 DEF EndSendMessages, AllIdle, TypeOK, Step
<1>3. CASE \E n \in rest : StartMessage(st, n, rest)
  <2>1. PICK n \in rest : StartMessage(st, n, rest)
    BY <1>3
  <2> QED BY <1>1, <2>1 DEF StartMessage, AllIdle, TypeOK, Step
<1>4. CASE \E n \in rest : EndSendMessages(st, n) /\ fresh' = fresh \ rest
  <2>1. PICK n \in rest : EndSendMessages(st, n) /\ fresh' = fresh \ rest
    BY <1>4
  <2> QED BY <1>1, <2>1 DEF EndSendMessages, AllIdle, TypeOK, Step
<1> QED BY <1>2, <1>3, <1>4 DEF GoOn

(* A step of a message takes place in a run.                               *)
LEMMA InRun ==
  ASSUME TypeOK, NEW m \in Message, step[m] # "idle"
  PROVE  sending /\ \A n \in Message \ {m} : step[n] = "idle"
BY DEF TypeOK, AllIdle
(* What a message step does not touch.                                     *)
Surroundings == <<known, timerVars, parseVars, quitVars, online>>

(* The invariant after a message m that leaves the run, whatever became of *)
(* it: what the servers have of it is in doubt if it stays in the Outbox.  *)
LEMMA LeavesRun ==
  ASSUME Inv, NEW m \in Message, step[m] # "idle",
         NEW cur \in Message \cup {None}, GoOn(Done(m), cur),
         UNCHANGED Surroundings,
         outbox' = outbox \/ outbox' = outbox \ {m},
         delivered' \in [Message -> SUBSET Server],
         \A n \in Message \ {m} : delivered'[n] = delivered[n],
         delivered'[m] \subseteq ServersOf(m),
         doubtful \subseteq doubtful', doubtful' \subseteq Message,
         repeated' \subseteq Message,
         m \in outbox' /\ delivered'[m] # {} => m \in doubtful'
  PROVE  TypeOK' /\ NothingForgotten' /\ Accounted'
<1>1. /\ sending' \in BOOLEAN /\ rest' \subseteq rest
      /\ current' \in Message \cup {None} /\ step' \in [Message -> Step]
      /\ notifying' \in BOOLEAN /\ lost' = lost /\ fresh' \subseteq fresh
      /\ ~sending' => step' = AllIdle /\ rest' = {}
      /\ \A n \in Message : step'[n] # "idle" =>
           /\ n \in rest /\ n \notin rest' /\ n \notin fresh'
           /\ step'[n] = "reading" /\ current' = n
           /\ \A k \in Message : step'[k] # "idle" => k = n
      /\ \A n \in fresh' : n \in rest => sending' /\ n \in rest'
  BY GoOnKeeps, InRun DEF Inv
<1>2. m \in known /\ m \notin rest /\ m \notin fresh
  BY DEF Inv, Accounted
<1>3. TypeOK'
  BY <1>1, <1>2 DEF Inv, TypeOK, Surroundings, timerVars, parseVars, quitVars
<1>4. NothingForgotten'
  BY <1>1, <1>2 DEF Inv, NothingForgotten, Surroundings, timerVars, parseVars
<1>5. Accounted'
  <2>1. rest' \subseteq outbox'
    BY <1>1, <1>2 DEF Inv, Accounted
  <2>2. ASSUME NEW n \in Message
        PROVE  Accounted!2!(n)'
    <3>1. /\ delivered'[n] \subseteq ServersOf(n)
          /\ delivered'[n] # {} => n \in known'
      BY <1>2 DEF Inv, Accounted, Surroundings
    <3>2. step'[n] # "idle" => /\ n \in known' /\ n \notin rest' /\ n \notin fresh'
                               /\ n \in outbox' /\ step'[n] = "reading"
      BY <1>1, <1>2 DEF Inv, Accounted, TypeOK, Surroundings
    <3>3. n \in outbox' /\ delivered'[n] # {} => n \in doubtful'
      <4>1. CASE n = m
        BY <4>1
      <4>2. CASE n # m
        <5>1. step[n] = "idle"
          BY <4>2, InRun DEF Inv
        <5> QED BY <4>2, <5>1 DEF Inv, Accounted
      <4> QED BY <4>1, <4>2
    <3> QED BY <3>1, <3>2, <3>3
  <2> QED BY <2>1, <2>2 DEF Accounted
<1> QED BY <1>3, <1>4, <1>5

(* The same of a message that stays in the run, at another step.           *)
LEMMA StaysInRun ==
  ASSUME Inv, NEW m \in Message, step[m] # "idle",
         NEW s \in Step \ {"idle"}, step' = [step EXCEPT ![m] = s],
         UNCHANGED <<Surroundings, sending, rest, notifying, fresh, lost>>,
         current' = IF s = "copying" THEN current' ELSE current,
         current' \in Message \cup {None}, s # "copying" => step[m] # "copying",
         outbox' = outbox \/ (s = "copying" /\ outbox' = outbox \ {m}),
         delivered' \in [Message -> SUBSET Server],
         \A n \in Message \ {m} : delivered'[n] = delivered[n],
         delivered'[m] \subseteq ServersOf(m),
         doubtful \subseteq doubtful', doubtful' \subseteq Message,
         repeated' \subseteq Message,
         s = "posting" => m \in News,
         s = "mailing" => m \in Mail /\ (m \in News => "news" \in delivered'[m]),
         s = "mailing" /\ "mail" \in delivered'[m] => m \in doubtful',
         m \in outbox' /\ s # "mailing" /\ delivered'[m] # {} => m \in doubtful'
  PROVE  TypeOK' /\ NothingForgotten' /\ Accounted'
<1>1. /\ sending /\ m \in known /\ m \notin rest /\ m \notin fresh
      /\ step' \in [Message -> Step] /\ step'[m] = s
      /\ \A n \in Message \ {m} : step[n] = "idle" /\ step'[n] = "idle"
  BY InRun DEF Inv, Accounted, TypeOK
<1>2. TypeOK'
  BY <1>1 DEF Inv, TypeOK, Surroundings, timerVars, parseVars, quitVars
<1>3. NothingForgotten'
  BY DEF Inv, NothingForgotten, Surroundings, timerVars, parseVars
<1>4. Accounted'
  <2>1. rest' \subseteq outbox'
    BY <1>1 DEF Inv, Accounted
  <2>2. ASSUME NEW n \in Message
        PROVE  Accounted!2!(n)'
    BY <1>1, <2>2 DEF Inv, Accounted, Surroundings
  <2> QED BY <2>1, <2>2 DEF Accounted
<1> QED BY <1>2, <1>3, <1>4
(***************************************************************************)
(* The steps of a message.                                                 *)
(***************************************************************************)
(* What holds of any message that is in progress.                          *)
LEMMA InProgress ==
  ASSUME Inv, NEW m \in Message, step[m] # "idle"
  PROVE  /\ sending /\ current \in Message \cup {None}
         /\ delivered \in [Message -> SUBSET Server]
         /\ delivered[m] \subseteq ServersOf(m)
         /\ doubtful \subseteq Message /\ repeated \subseteq Message
         /\ step[m] # "copying" => current = m /\ m \in outbox
         /\ m \in outbox /\ step[m] # "mailing" /\ delivered[m] # {} => m \in doubtful
         /\ None \notin Message
BY InRun, MessageAssumption DEF Inv, TypeOK, Accounted

LEMMA ReadEndsKeeps ==
  ASSUME Inv, NEW m \in Message, ReadEnds(m), UNCHANGED Surroundings
  PROVE  Inv'
<1>1. /\ step[m] = "reading"
      /\ outbox' = outbox /\ delivered' = delivered /\ repeated' = repeated
      /\ doubtful' = doubtful
  BY DEF ReadEnds, serverVars
<1>2. ExactlyOnce'
  BY <1>1 DEF Inv, ExactlyOnce, Surroundings
<1>3. CASE GoOn(Done(m), current)
  BY <1>1, <1>2, <1>3, InProgress, LeavesRun DEF Inv
<1>4. CASE /\ \/ step' = [step EXCEPT ![m] = "alert"]
              \/ step' = [step EXCEPT ![m] = IF m \in News THEN "posting" ELSE "mailing"]
           /\ UNCHANGED <<sending, rest, current, notifying, fresh, lost>>
  <2>1. PICK s \in Step \ {"idle"} :
          /\ step' = [step EXCEPT ![m] = s]
          /\ s \in {"alert", "posting", "mailing"}
          /\ s = "posting" => m \in News
          /\ s = "mailing" => m \in Mail /\ m \notin News
    BY <1>4, MessageAssumption DEF Step
  <2>2. s = "mailing" /\ "mail" \in delivered[m] => m \in doubtful
    BY <1>1, InProgress
  <2>3. TypeOK' /\ NothingForgotten' /\ Accounted'
    BY <1>1, <1>4, <2>1, <2>2, InProgress, StaysInRun
  <2> QED BY <1>2, <2>3 DEF Inv
<1> QED BY <1>3, <1>4 DEF ReadEnds

LEMMA AlertDismissedKeeps ==
  ASSUME Inv, NEW m \in Message, AlertDismissed(m), UNCHANGED Surroundings
  PROVE  Inv'
<1>1. /\ step[m] = "alert" /\ GoOn(Done(m), current)
      /\ outbox' = outbox /\ delivered' = delivered /\ repeated' = repeated
      /\ doubtful' = doubtful
  BY DEF AlertDismissed, serverVars
<1>2. ExactlyOnce'
  BY <1>1 DEF Inv, ExactlyOnce, Surroundings
<1>3. TypeOK' /\ NothingForgotten' /\ Accounted'
  BY <1>1, InProgress, LeavesRun
<1> QED BY <1>2, <1>3 DEF Inv

LEMMA SubmitFailsKeeps ==
  ASSUME Inv, NEW m \in Message, SubmitFails(m), UNCHANGED Surroundings
  PROVE  Inv'
<1>1. /\ Submitting(m) /\ step[m] # "idle" /\ step[m] # "copying"
      /\ step' = [step EXCEPT ![m] = "alert"]
      /\ outbox' = outbox /\ current' = current
      /\ UNCHANGED <<sending, rest, notifying, fresh, lost>>
      /\ doubtful' = IF delivered'[m] # {} THEN doubtful \cup {m} ELSE doubtful
      /\ Accept(m, ServerFor(m)) \/ UNCHANGED serverVars
  BY DEF SubmitFails, Submitting
<1>2. /\ delivered' \in [Message -> SUBSET Server]
      /\ \A n \in Message \ {m} : delivered'[n] = delivered[n]
      /\ delivered'[m] \subseteq ServersOf(m)
      /\ delivered[m] \subseteq delivered'[m]
      /\ repeated' \subseteq Message /\ repeated' \subseteq doubtful'
  BY <1>1, InProgress DEF Accept, serverVars, Inv, Accounted, ExactlyOnce,
     ServerFor, Submitting, ServersOf, Server
<1>3. TypeOK' /\ NothingForgotten' /\ Accounted'
  BY <1>1, <1>2, InProgress, StaysInRun DEF Step
<1>4. ExactlyOnce'
  BY <1>1, <1>2, InProgress DEF Inv, ExactlyOnce, Surroundings, TypeOK
<1> QED BY <1>3, <1>4 DEF Inv
(* The same of a message whose listener is never told.                     *)
LEMMA LostInRun ==
  ASSUME Inv, NEW m \in Message, step[m] # "idle", step' = Done(m),
         UNCHANGED <<Surroundings, sending, rest, current, notifying, fresh, outbox>>,
         lost' = lost \cup {"run"},
         delivered' \in [Message -> SUBSET Server],
         \A n \in Message \ {m} : delivered'[n] = delivered[n],
         delivered'[m] \subseteq ServersOf(m),
         doubtful \subseteq doubtful', doubtful' \subseteq Message,
         repeated' \subseteq Message,
         m \in outbox /\ delivered'[m] # {} => m \in doubtful'
  PROVE  TypeOK' /\ NothingForgotten' /\ Accounted'
<1>1. /\ sending /\ m \in known
      /\ \A n \in Message \ {m} : step[n] = "idle"
      /\ step' \in [Message -> Step] /\ \A n \in Message : step'[n] = "idle"
  BY InRun DEF Inv, Accounted, TypeOK, Done, Step
<1>2. TypeOK'
  BY <1>1 DEF Inv, TypeOK, Surroundings, timerVars, parseVars, quitVars
<1>3. NothingForgotten'
  BY DEF Inv, NothingForgotten, Surroundings, timerVars, parseVars
<1>4. Accounted'
  BY <1>1 DEF Inv, Accounted, Surroundings
<1> QED BY <1>2, <1>3, <1>4

LEMMA CopyEndsKeeps ==
  ASSUME Inv, NEW m \in Message, CopyEnds(m), UNCHANGED Surroundings
  PROVE  Inv'
<1>1. /\ step[m] = "copying"
      /\ outbox' = outbox /\ delivered' = delivered /\ repeated' = repeated
      /\ doubtful' = doubtful
  BY DEF CopyEnds, serverVars
<1>2. ExactlyOnce'
  BY <1>1 DEF Inv, ExactlyOnce, Surroundings
<1>3. CASE GoOn(Done(m), current)
  BY <1>1, <1>2, <1>3, InProgress, LeavesRun DEF Inv
<1>4. CASE /\ step' = Done(m) /\ lost' = lost \cup {"run"}
           /\ UNCHANGED <<sending, rest, current, notifying, fresh>>
  BY <1>1, <1>2, <1>4, InProgress, LostInRun DEF Inv
<1> QED BY <1>3, <1>4 DEF CopyEnds

LEMMA SubmittedKeeps ==
  ASSUME Inv, NEW m \in Message, Submitted(m), UNCHANGED Surroundings
  PROVE  Inv'
<1>1. /\ Submitting(m) /\ step[m] # "idle" /\ step[m] # "copying"
      /\ current = m /\ m \in outbox
      /\ Accept(m, ServerFor(m))
  BY InProgress DEF Submitted, Submitting
<1>2. /\ delivered' \in [Message -> SUBSET Server]
      /\ \A n \in Message \ {m} : delivered'[n] = delivered[n]
      /\ delivered'[m] = delivered[m] \cup {ServerFor(m)}
      /\ delivered'[m] \subseteq ServersOf(m)
      /\ repeated' \subseteq Message /\ repeated' \subseteq doubtful
  BY <1>1, InProgress DEF Accept, Inv, Accounted, ExactlyOnce,
     ServerFor, Submitting, ServersOf, Server
<1>3. CASE step[m] = "posting" /\ m \in Mail
  <2>1. /\ outbox' = outbox
        /\ UNCHANGED <<sending, rest, current, notifying, fresh>>
        /\ \/ step' = [step EXCEPT ![m] = "mailing"] /\ UNCHANGED <<doubtful, lost>>
           \/ /\ step' = Done(m)
              /\ doubtful' = doubtful \cup {m} /\ lost' = lost \cup {"run"}
    BY <1>3 DEF Submitted, MailAlso
  <2>2. "news" \in delivered'[m] /\ ("mail" \in delivered'[m] => m \in doubtful)
    BY <1>2, <1>3, <1>1, InProgress DEF ServerFor
  <2>3. TypeOK' /\ NothingForgotten' /\ Accounted'
    <3>1. CASE step' = [step EXCEPT ![m] = "mailing"] /\ UNCHANGED <<doubtful, lost>>
      BY <1>1, <1>2, <1>3, <2>1, <2>2, <3>1, InProgress, StaysInRun DEF Step
    <3>2. CASE /\ step' = Done(m)
               /\ doubtful' = doubtful \cup {m} /\ lost' = lost \cup {"run"}
      BY <1>1, <1>2, <2>1, <3>2, InProgress, LostInRun
    <3> QED BY <2>1, <3>1, <3>2
  <2>4. ExactlyOnce'
    BY <1>1, <1>2, <2>1 DEF Inv, ExactlyOnce, Surroundings, TypeOK
  <2> QED BY <2>3, <2>4 DEF Inv
<1>4. CASE ~(step[m] = "posting" /\ m \in Mail)
  <2>1. PICK deleted \in BOOLEAN :
          LET cur == IF deleted THEN None ELSE current IN
          /\ outbox' = IF deleted THEN outbox \ {current} ELSE outbox
          /\ doubtful' = IF deleted THEN doubtful ELSE doubtful \cup {current}
          /\ \/ GoOn(Done(m), cur)
             \/ /\ step' = [step EXCEPT ![m] = "copying"] /\ current' = cur
                /\ UNCHANGED <<sending, rest, notifying, fresh, lost>>
    BY <1>4 DEF Submitted, Sent
  <2> DEFINE cur == IF deleted THEN None ELSE current
  <2>2. delivered'[m] = ServersOf(m)
    BY <1>1, <1>2, <1>4, MessageAssumption DEF Inv, Accounted, ServersOf,
       ServerFor, Submitting
  <2>3. TypeOK' /\ NothingForgotten' /\ Accounted'
    <3>1. CASE GoOn(Done(m), cur)
      BY <1>1, <1>2, <2>1, <3>1, InProgress, LeavesRun
    <3>2. CASE /\ step' = [step EXCEPT ![m] = "copying"] /\ current' = cur
               /\ UNCHANGED <<sending, rest, notifying, fresh, lost>>
      BY <1>1, <1>2, <2>1, <3>2, InProgress, StaysInRun DEF Step
    <3> QED BY <2>1, <3>1, <3>2
  <2>4. ExactlyOnce'
    BY <1>1, <1>2, <2>1, <2>2 DEF Inv, ExactlyOnce, Surroundings, TypeOK
  <2> QED BY <2>3, <2>4 DEF Inv
<1> QED BY <1>3, <1>4

LEMMA MessageStepKeeps ==
  ASSUME Inv, NEW m \in Message, MessageStep(m)
  PROVE  Inv'
BY ReadEndsKeeps, SubmittedKeeps, SubmitFailsKeeps, AlertDismissedKeeps,
   CopyEndsKeeps DEF MessageStep, Surroundings
(***************************************************************************)
(* What starts a run.                                                      *)
(***************************************************************************)
(* What TypeOK says of the timer.                                          *)
TimerMarked ==
    /\ timer \in BOOLEAN /\ timerSet \in BOOLEAN /\ cancelled \in BOOLEAN
    /\ timer => timerSet
    /\ timerSet => timer \/ cancelled

(* Whoever calls InternalSendMessages, and whatever has become of the      *)
(* timer and of the reparse.                                               *)
LEMMA InternalSendMessagesKeeps ==
  ASSUME Inv, NEW user \in BOOLEAN, NEW s \in {"valid", "stale", "parsing"},
         NEW listener \in BOOLEAN, InternalSendMessages(user, s, listener),
         UNCHANGED <<outbox, known, quitVars, online, serverVars, doubtful>>,
         unparsed' \in {{}, unparsed}, TimerMarked'
  PROVE  Inv'
<1> USE DEF quitVars, serverVars, runVars, TimerMarked
<1>1. ExactlyOnce'
  BY DEF Inv, ExactlyOnce
<1>2. CASE UNCHANGED <<runVars, userInitiated, lost>> /\ Refused
  <2>1. /\ summary' = s /\ reparseListener' = listener
        /\ fresh' \subseteq fresh
        /\ \A m \in fresh' :
             timer' \/ (summary' = "parsing" /\ reparseListener')
                    \/ (sending /\ m \in rest)
    BY <1>2 DEF InternalSendMessages, Waiting, Refused, Inv, NothingForgotten
  <2> QED BY <1>1, <1>2, <2>1 DEF Inv, TypeOK, NothingForgotten, Accounted
<1>3. CASE /\ ~Refused /\ s # "valid"
           /\ summary' = "parsing" /\ reparseListener' = TRUE
           /\ userInitiated' = user
           /\ UNCHANGED <<runVars, fresh, lost>>
  BY <1>1, <1>3 DEF Inv, TypeOK, NothingForgotten, Accounted
<1>4. CASE /\ ~Refused /\ s = "valid"
           /\ summary' = s /\ reparseListener' = listener
           /\ userInitiated' = user
           /\ StartRun(user)
  <2> DEFINE snap == SnapshotOf(user)
  <2>1. /\ ~sending /\ step = AllIdle /\ rest = {}
        /\ snap \subseteq outbox /\ fresh \subseteq snap /\ snap \subseteq Message
    BY <1>4 DEF Refused, SnapshotOf, Inv, TypeOK
  <2>2. CASE snap = {} /\ EndSendMessages(step, current) /\ UNCHANGED <<fresh, lost>>
    BY <1>1, <1>4, <2>1, <2>2
    DEF EndSendMessages, Inv, TypeOK, NothingForgotten, Accounted
  <2>3. CASE \E n \in snap : StartMessage(step, n, snap) /\ UNCHANGED lost
    <3>1. PICK n \in snap : StartMessage(step, n, snap) /\ UNCHANGED lost
      BY <2>3
    <3>2. /\ sending' /\ rest' = snap \ {n} /\ current' = n
          /\ step' = [step EXCEPT ![n] = "reading"]
          /\ notifying' = notifying /\ fresh' = fresh \ {n} /\ n \in Message
      BY <2>1, <3>1 DEF StartMessage
    <3>3. /\ step' \in [Message -> Step] /\ step'[n] = "reading"
          /\ \A k \in Message \ {n} : step'[k] = "idle"
      BY <2>1, <3>2 DEF AllIdle, Step
    <3>4. TypeOK'
      BY <1>4, <2>1, <3>1, <3>2, <3>3 DEF Inv, TypeOK
    <3>5. NothingForgotten'
      BY <2>1, <3>2 DEF NothingForgotten
    <3>6. Accounted'
      BY <2>1, <3>2, <3>3 DEF Inv, Accounted, TypeOK, AllIdle
    <3> QED BY <1>1, <3>4, <3>5, <3>6 DEF Inv
  <2>4. CASE \E n \in snap :
               /\ sending' = TRUE /\ rest' = snap \ {n} /\ current' = n
               /\ UNCHANGED <<step, notifying>>
               /\ fresh' = fresh \ snap /\ lost' = lost \cup {"run"}
    <3>1. PICK n \in snap :
               /\ sending' = TRUE /\ rest' = snap \ {n} /\ current' = n
               /\ UNCHANGED <<step, notifying>>
               /\ fresh' = fresh \ snap /\ lost' = lost \cup {"run"}
      BY <2>4
    <3>2. \A k \in Message : step[k] = "idle"
      BY <2>1 DEF AllIdle
    <3>3. TypeOK'
      BY <1>4, <2>1, <3>1, <3>2 DEF Inv, TypeOK
    <3>4. NothingForgotten'
      BY <2>1, <3>1 DEF NothingForgotten
    <3>5. Accounted'
      BY <2>1, <3>1, <3>2 DEF Inv, Accounted
    <3> QED BY <1>1, <3>3, <3>4, <3>5 DEF Inv
  <2> QED BY <1>4, <2>2, <2>3, <2>4 DEF StartRun
<1> QED BY <1>2, <1>3, <1>4 DEF InternalSendMessages

LEMMA TimerFiresKeeps ==
  ASSUME Inv, TimerFires
  PROVE  Inv'
<1>1. /\ summary \in {"valid", "stale", "parsing"} /\ reparseListener \in BOOLEAN
      /\ TimerMarked' /\ unparsed' = unparsed
  BY DEF Inv, TypeOK, TimerFires, TimerOff, TimerMarked
<1> QED BY <1>1, InternalSendMessagesKeeps DEF TimerFires

LEMMA UserSendsKeeps ==
  ASSUME Inv, UserSends \/ ListenerSends
  PROVE  Inv'
<1>1. /\ UNCHANGED <<outbox, known, quitVars, online, serverVars, doubtful>>
      /\ UNCHANGED timerVars /\ UNCHANGED unparsed
      /\ InternalSendMessages(TRUE, summary, reparseListener)
  BY DEF UserSends, ListenerSends
<1>2. UNCHANGED timerVars
  BY <1>1
<1>3. /\ summary \in {"valid", "stale", "parsing"} /\ reparseListener \in BOOLEAN
      /\ TimerMarked'
  BY <1>2 DEF Inv, TypeOK, timerVars, TimerMarked
<1>4. PICK user \in BOOLEAN : InternalSendMessages(user, summary, reparseListener)
  BY <1>1, Zenon
<1> QED BY <1>1, <1>3, <1>4, InternalSendMessagesKeeps

LEMMA ParseEndsKeeps ==
  ASSUME Inv, ParseEnds
  PROVE  Inv'
<1>1. /\ UNCHANGED <<outbox, known, quitVars, online, serverVars, doubtful>>
      /\ UNCHANGED timerVars /\ summary = "parsing"
  BY DEF ParseEnds
<1>2. UNCHANGED timerVars
  BY <1>1
<1>3. /\ userInitiated \in BOOLEAN
      /\ TimerMarked'
  BY <1>2 DEF Inv, TypeOK, timerVars, TimerMarked
<1>4. CASE /\ unparsed' = {} /\ reparseListener
           /\ InternalSendMessages(userInitiated, "valid", FALSE)
  <2>1. PICK listener \in BOOLEAN, v \in {"valid", "stale", "parsing"} :
            InternalSendMessages(userInitiated, v, listener)
    BY <1>4, Zenon
  <2> QED BY <1>1, <1>3, <1>4, <2>1, InternalSendMessagesKeeps
<1>5. ASSUME UNCHANGED <<runVars, userInitiated, lost>>, summary' = "valid",
             reparseListener' \in BOOLEAN, unparsed' \subseteq known,
             fresh' \subseteq fresh \ unparsed',
             \A m \in fresh' : timer \/ (sending /\ m \in rest)
      PROVE  Inv'
  <2> USE <1>1, <1>2, <1>5 DEF timerVars, runVars, quitVars, serverVars
  <2>1. TypeOK'
    BY DEF Inv, TypeOK
  <2>2. ExactlyOnce'
    BY DEF Inv, ExactlyOnce
  <2>3. NothingForgotten'
    BY DEF NothingForgotten
  <2>4. Accounted'
    BY DEF Inv, Accounted
  <2> QED BY <2>1, <2>2, <2>3, <2>4 DEF Inv
<1>6. CASE /\ unparsed' = {} /\ ~reparseListener /\ summary' = "valid"
           /\ UNCHANGED <<runVars, reparseListener, userInitiated, fresh, lost>>
  <2>1. \A m \in fresh' : timer \/ (sending /\ m \in rest)
    BY <1>6 DEF Inv, NothingForgotten
  <2> QED BY <1>5, <1>6, <2>1 DEF Inv, TypeOK
<1>7. CASE /\ unparsed' \in SUBSET outbox
           /\ summary' = "valid" /\ reparseListener' = FALSE
           /\ fresh' = IF timer THEN fresh \ unparsed' ELSE {}
           /\ UNCHANGED <<runVars, userInitiated, lost>>
  BY <1>5, <1>7 DEF Inv, TypeOK
<1> QED BY <1>4, <1>6, <1>7 DEF ParseEnds

LEMMA AddMessageKeeps ==
  ASSUME Inv, NEW m \in Message, AddMessage(m)
  PROVE  Inv'
<1> USE DEF runVars, parseVars, quitVars, serverVars
<1>1. /\ m \notin known /\ m \notin outbox /\ m \notin fresh /\ m \notin rest
      /\ known' = known \cup {m} /\ outbox' = outbox \cup {m}
      /\ step[m] = "idle" /\ delivered[m] = {}
  <2>1. m \notin known /\ known' = known \cup {m} /\ outbox' = outbox \cup {m}
    BY DEF AddMessage
  <2>2. m \notin outbox /\ m \notin fresh /\ m \notin rest
    BY <2>1 DEF Inv, TypeOK, Accounted
  <2>3. step[m] = "idle" /\ delivered[m] = {}
    BY <2>1 DEF Inv, Accounted
  <2> QED BY <2>1, <2>2, <2>3
<1>2. TypeOK'
  <2>1. /\ timer' \in BOOLEAN /\ timerSet' \in BOOLEAN
        /\ timer' => timerSet'
        /\ timerSet' => timer' \/ cancelled
        /\ UNCHANGED <<cancelled, runVars, parseVars, quitVars, online, serverVars,
                       doubtful, lost>>
    BY DEF Inv, TypeOK, AddMessage
  <2>2. fresh' \subseteq fresh \cup ({m} \ Later)
    BY DEF AddMessage
  <2>3. /\ known' \subseteq Message /\ outbox' \subseteq known'
        /\ unparsed' = unparsed /\ unparsed \subseteq known'
        /\ fresh' \subseteq outbox' \ (Later \cup unparsed)
    BY <1>1, <2>2 DEF Inv, TypeOK, AddMessage
  <2>4. UNCHANGED <<cancelled, sending, rest, current, step, notifying, summary,
                    reparseListener, userInitiated, shutdownListener, tasks, taskIndex,
                    quit, online, delivered, repeated, doubtful, lost>>
    BY <2>1
  <2> QED BY <2>1, <2>3, <2>4 DEF Inv, TypeOK
<1>3. ExactlyOnce'
  BY <1>1 DEF Inv, ExactlyOnce, AddMessage
<1>4. NothingForgotten'
  BY DEF Inv, TypeOK, NothingForgotten, AddMessage
<1>5. Accounted'
  BY <1>1 DEF Inv, Accounted, AddMessage
<1> QED BY <1>2, <1>3, <1>4, <1>5 DEF Inv

LEMMA FolderKeeps ==
  ASSUME Inv, HasUnsentMessages \/ SummaryOutdated \/ SwitchOnline
  PROVE  Inv'
<1>1. /\ UNCHANGED <<outbox, known, sending, rest, current, step, notifying,
                    timer, timerSet, cancelled, userInitiated, quitVars,
                    serverVars, doubtful, lost>>
      /\ summary' \in {summary, "stale", "parsing"} /\ reparseListener' \in BOOLEAN
      /\ online' \in BOOLEAN /\ fresh' \subseteq fresh
      /\ unparsed' \in {{}, unparsed}
  BY DEF HasUnsentMessages, SummaryOutdated, SwitchOnline, Inv, TypeOK, runVars,
     timerVars, parseVars
<1>2. TypeOK'
  BY <1>1 DEF Inv, TypeOK, quitVars, serverVars
<1>3. ExactlyOnce'
  BY <1>1 DEF Inv, ExactlyOnce, serverVars
<1>4. NothingForgotten'
  <2>1. CASE HasUnsentMessages
    BY <1>1, <2>1 DEF Inv, NothingForgotten, HasUnsentMessages
  <2>2. CASE SummaryOutdated
    BY <1>1, <2>2 DEF Inv, NothingForgotten, SummaryOutdated
  <2>3. CASE SwitchOnline
    BY <1>1, <2>3 DEF Inv, NothingForgotten, SwitchOnline, parseVars
  <2> QED BY <2>1, <2>2, <2>3
<1>5. Accounted'
  BY <1>1 DEF Inv, Accounted, serverVars
<1> QED BY <1>2, <1>3, <1>4, <1>5 DEF Inv
(***************************************************************************)
(* Quits, crashes and restarts.                                            *)
(***************************************************************************)
LEMMA NewSessionKeeps ==
  ASSUME Inv, NewSession
  PROVE  Inv'
<1>1. PICK acc \in SUBSET {m \in Message : Submitting(m)} :
        /\ delivered' = [m \in Message |->
              IF m \in acc THEN delivered[m] \cup {ServerFor(m)} ELSE delivered[m]]
        /\ repeated' = repeated \cup {m \in acc : ServerFor(m) \in delivered[m]}
  BY DEF NewSession
<1>2. \A m \in Message :
        /\ delivered'[m] \subseteq ServersOf(m) /\ delivered'[m] \subseteq Server
        /\ delivered[m] \subseteq delivered'[m]
        /\ m \notin outbox => delivered'[m] = delivered[m]
        /\ delivered'[m] # {} => m \in known
        /\ m \in acc => m \in outbox
  BY <1>1 DEF Inv, TypeOK, Accounted, Submitting, ServerFor, ServersOf, Server
<1>3. /\ outbox' = outbox /\ known' = known /\ online' = online
      /\ doubtful' = doubtful \cup {m \in outbox : delivered'[m] # {}}
      /\ sending' = FALSE /\ rest' = {} /\ current' = None /\ step' = AllIdle
      /\ fresh' = {} /\ lost' = {}
  BY DEF NewSession
<1>4. delivered' \in [Message -> SUBSET Server]
  BY <1>1, <1>2 DEF Inv, TypeOK
<1>5. TypeOK'
  <2>1. /\ repeated' \subseteq Message /\ doubtful' \subseteq Message
        /\ step' \in [Message -> Step] /\ \A m \in Message : step'[m] = "idle"
    BY <1>1, <1>3 DEF Inv, TypeOK, AllIdle, Step
  <2> QED BY <1>3, <1>4, <2>1 DEF Inv, TypeOK, NewSession
<1>6. ExactlyOnce'
  BY <1>1, <1>2, <1>3 DEF Inv, TypeOK, ExactlyOnce
<1>7. NothingForgotten'
  BY <1>3 DEF NothingForgotten
<1>8. Accounted'
  BY <1>2, <1>3 DEF Inv, TypeOK, Accounted, AllIdle
<1> QED BY <1>5, <1>6, <1>7, <1>8 DEF Inv

(* What a quit is about.                                                   *)
QuitTyped ==
    /\ notifying \in BOOLEAN /\ shutdownListener \in BOOLEAN
    /\ tasks \in Nat /\ taskIndex \in Nat
    /\ quit \in {"no", "dialog", "waiting"} /\ lost \subseteq {"run", "quit"}

(* What it leaves alone, but for the timer.                                *)
quietVars == <<outbox, known, sending, rest, current, step, parseVars, online,
               serverVars, doubtful>>

(* Every step that leaves the messages and the timer alone.                *)
LEMMA QuietKeeps ==
  ASSUME Inv, UNCHANGED quietVars, UNCHANGED <<timerVars, fresh>>, QuitTyped'
  PROVE  Inv'
<1> USE DEF parseVars, serverVars, timerVars, quietVars
<1>1. TypeOK'
  BY DEF Inv, TypeOK, QuitTyped
<1>2. ExactlyOnce'
  BY DEF Inv, ExactlyOnce
<1>3. NothingForgotten'
  BY DEF Inv, NothingForgotten
<1>4. Accounted'
  BY DEF Inv, Accounted
<1> QED BY <1>1, <1>2, <1>3, <1>4 DEF Inv

(* The timer is cancelled.                                                 *)
LEMMA DoShutdownTaskKeeps ==
  ASSUME Inv, UNCHANGED quietVars, DoShutdownTask, QuitTyped'
  PROVE  Inv'
<1> USE DEF parseVars, serverVars, quietVars
<1>1. TimerMarked' /\ fresh' \subseteq fresh
  BY DEF Inv, TypeOK, DoShutdownTask, TimerMarked
<1>2. TypeOK'
  BY <1>1 DEF Inv, TypeOK, TimerMarked, QuitTyped
<1>3. ExactlyOnce'
  BY DEF Inv, ExactlyOnce
<1>4. NothingForgotten'
  BY DEF Inv, TypeOK, NothingForgotten, DoShutdownTask
<1>5. Accounted'
  BY <1>1 DEF Inv, Accounted
<1> QED BY <1>2, <1>3, <1>4, <1>5 DEF Inv

LEMMA ProcessNextTaskKeeps ==
  ASSUME Inv, NEW i \in Nat, NEW who \in {"run", "dialog"}, ProcessNextTask(i, who)
  PROVE  Inv'
<1>1. CASE NewSession
  BY <1>1, NewSessionKeeps
<1>2. CASE ~NewSession
  <2>1. UNCHANGED quietVars
    BY <1>2 DEF ProcessNextTask, quietVars
  <2>2. /\ tasks' = tasks /\ notifying' = FALSE
        /\ taskIndex' \in {i, tasks}
        /\ quit' \in {"no", "waiting", quit}
        /\ shutdownListener' \in {who = "dialog", who = "dialog" /\ shutdownListener}
        /\ lost' = lost \/ lost' = lost \cup {"quit"}
    BY <1>2 DEF ProcessNextTask
  <2>3. QuitTyped'
    BY <2>2 DEF Inv, TypeOK, QuitTyped
  <2>4. CASE i < tasks
    <3>1. DoShutdownTask
      BY <1>2, <2>4 DEF ProcessNextTask
    <3> QED BY <2>1, <2>3, <3>1, DoShutdownTaskKeeps
  <2>5. CASE ~(i < tasks)
    <3>1. UNCHANGED <<timerVars, fresh>>
      BY <1>2, <2>5 DEF ProcessNextTask
    <3> QED BY <2>1, <2>3, <3>1, QuietKeeps
  <2> QED BY <2>4, <2>5
<1> QED BY <1>1, <1>2

LEMMA QuitsKeep ==
  ASSUME Inv, ListenersReturn \/ QuitRequested \/ StartShutdownTasks
              \/ CancelShutdownTasks \/ Crash
  PROVE  Inv'
<1>0. tasks \in Nat /\ taskIndex \in Nat /\ taskIndex + 1 \in Nat
  BY DEF Inv, TypeOK
<1>1. CASE ListenersReturn
  <2>1. CASE shutdownListener /\ ProcessNextTask(taskIndex + 1, "run")
    BY <1>0, <2>1, ProcessNextTaskKeeps
  <2>2. CASE ~shutdownListener
    <3>1. /\ UNCHANGED quietVars
          /\ UNCHANGED <<timerVars, fresh>>
          /\ notifying' = FALSE /\ UNCHANGED <<quitVars, lost>>
      BY <1>1, <2>2 DEF ListenersReturn, quietVars
    <3>2. QuitTyped'
      BY <3>1 DEF Inv, TypeOK, QuitTyped, quitVars
    <3> QED BY <3>1, <3>2, QuietKeeps
  <2> QED BY <1>1, <2>1, <2>2 DEF ListenersReturn
<1>2. CASE QuitRequested
  <2>1. CASE NewSession
    BY <2>1, NewSessionKeeps
  <2>2. CASE ~NewSession
    <3>1. /\ UNCHANGED quietVars
          /\ UNCHANGED <<timerVars, fresh>>
          /\ tasks' \in {tasks, tasks + 1} /\ taskIndex' = 0 /\ quit' = "dialog"
          /\ UNCHANGED <<notifying, shutdownListener, lost>>
      BY <1>2, <2>2 DEF QuitRequested, quietVars, runVars
    <3>2. QuitTyped'
      BY <1>0, <3>1 DEF Inv, TypeOK, QuitTyped
    <3> QED BY <3>1, <3>2, QuietKeeps
  <2> QED BY <2>1, <2>2
<1>3. CASE StartShutdownTasks
  BY <1>0, <1>3, ProcessNextTaskKeeps DEF StartShutdownTasks
<1>4. CASE CancelShutdownTasks
  <2>1. CASE NewSession
    BY <2>1, NewSessionKeeps
  <2>2. CASE ~NewSession
    <3>1. /\ UNCHANGED quietVars
          /\ UNCHANGED <<timerVars, fresh>>
          /\ quit' = "no"
          /\ UNCHANGED <<notifying, shutdownListener, tasks, taskIndex, lost>>
      BY <1>4, <2>2 DEF CancelShutdownTasks, quietVars, runVars
    <3>2. QuitTyped'
      BY <3>1 DEF Inv, TypeOK, QuitTyped
    <3> QED BY <3>1, <3>2, QuietKeeps
  <2> QED BY <2>1, <2>2
<1>5. CASE Crash
  BY <1>5, NewSessionKeeps DEF Crash
<1> QED BY <1>1, <1>2, <1>3, <1>4, <1>5

(***************************************************************************)
(* The theorems.                                                           *)
(***************************************************************************)
LEMMA InitInv == Init => Inv
<1> SUFFICES ASSUME Init PROVE Inv
  OBVIOUS
<1>1. step = AllIdle /\ \A m \in Message : step[m] = "idle"
  BY DEF Init, AllIdle
<1>2. step \in [Message -> Step] /\ delivered \in [Message -> SUBSET Server]
  BY DEF Init, AllIdle, Step
<1>3. TypeOK
  BY <1>1, <1>2 DEF Init, TypeOK
<1>4. ExactlyOnce /\ NothingForgotten /\ Accounted
  BY <1>1 DEF Init, ExactlyOnce, NothingForgotten, Accounted
<1> QED BY <1>3, <1>4 DEF Inv

LEMMA NextInv == Inv /\ [Next]_vars => Inv'
<1> SUFFICES ASSUME Inv, [Next]_vars PROVE Inv'
  OBVIOUS
<1>1. CASE \E m \in Message : MessageStep(m) \/ AddMessage(m)
  BY <1>1, MessageStepKeeps, AddMessageKeeps
<1>2. CASE TimerFires
  BY <1>2, TimerFiresKeeps
<1>3. CASE UserSends \/ ListenerSends
  BY <1>3, UserSendsKeeps
<1>4. CASE ParseEnds
  BY <1>4, ParseEndsKeeps
<1>5. CASE HasUnsentMessages \/ SummaryOutdated \/ SwitchOnline
  BY <1>5, FolderKeeps
<1>6. CASE ListenersReturn \/ QuitRequested \/ StartShutdownTasks
           \/ CancelShutdownTasks \/ Crash
  BY <1>6, QuitsKeep
<1>7. CASE UNCHANGED vars
  <2> USE <1>7 DEF vars, runVars, timerVars, parseVars, quitVars, serverVars
  <2>1. TypeOK'
    BY DEF Inv, TypeOK
  <2>2. ExactlyOnce' /\ NothingForgotten'
    BY DEF Inv, ExactlyOnce, NothingForgotten
  <2>3. Accounted'
    BY DEF Inv, Accounted
  <2> QED BY <2>1, <2>2, <2>3 DEF Inv
<1> QED BY <1>1, <1>2, <1>3, <1>4, <1>5, <1>6, <1>7 DEF Next

(* The invariant holds in every state of the service.                      *)
THEOREM Inductive == Spec => []Inv
BY InitInv, NextInv, PTL DEF Spec

(* One message at a time is in progress, none outside a run, and it is the *)
(* one that DeleteCurrentMessage would delete; mTimerSet is true of the    *)
(* timer unless a quit has cancelled it.                                   *)
THEOREM OneInProgress == Spec => []TypeOK
<1>1. Inv => TypeOK
  BY DEF Inv
<1> QED BY Inductive, <1>1, PTL

(* Nothing leaves the Outbox unsent, and nothing is sent twice without an  *)
(* error, a crash or a failed deletion of that message: nsMsgSendLater's   *)
(* OnSendStepFinished and InternalSendMessages.                            *)
THEOREM SentOnce == Spec => []ExactlyOnce
<1>1. Inv => ExactlyOnce
  BY DEF Inv
<1> QED BY Inductive, <1>1, PTL

(* A background message waits for the timer, a reparse or the run under    *)
(* way: OnItemAdded, Observe and OnStopRunningUrl.                         *)
THEOREM WaitedFor == Spec => []NothingForgotten
<1>1. Inv => NothingForgotten
  BY DEF Inv
<1> QED BY Inductive, <1>1, PTL

=============================================================================
