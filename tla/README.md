# Models of the mail, calendar and chat back ends of SeaMonkey and Thunderbird

This directory holds TLA+ models of parts of this repository, the TLC
configurations that check them on small instances, and proofs for every size.
The repository is a suite of applications (browser, mail and news, calendar,
chat). Most of its code is user interface, parsing and storage. The parts that
are modelled here are the services in which several activities meet: they keep a
queue or a table of requests, hand work to something asynchronous (a folder, a
server, a modal dialogue, a timer), and are called back while they are working.

## Inventory

| Component | State | Operations | Interacts with | What is hard |
|---|---|---|---|---|
| Mail copy service, `nsMsgCopyService.cpp` | `m_copyRequests`, with sources and processed marks | `CopyMessages`, `CopyFolders`, `CopyFileMessage`, `NotifyCompletion` | destination folders (local, IMAP), listeners, the undo manager, compose windows | completions find their request by a pair of pointers; listeners call back in the loop; several sources |
| Send-later service, `nsMsgSendLater.cpp` | `mSendingMessages`, `mEnumerator`, `mMessage`, `mTimer`, `mTimerSet`, `mShutdownListener` | `SendUnsentMessages`, the timer, `OnItemAdded`, callbacks of each step, the shutdown task | `nsMsgSend.cpp`, the Outbox and its reparse, servers, the shutdown service, the offline manager | one flag guards a chain of callbacks; a message is sent before it is removed; quits wait for runs |
| Authentication prompter, `msgAsyncPrompter.js` | `_pendingPrompts`, `_asyncPromptInProgress` | `queueAsyncAuthPrompt`, runs of `runnablePrompter` | servers and calendars that need a password, the login manager, the event loop | modal dialogues nest; retries jump the queue; a counter guards the queue |
| ICS calendar provider, `calICSCalendar.js` | `queue`, `locked`, `mModificationActions`, `mMemoryCalendar`, `readOnly`, the hooks' `mEtag` | items added, modified, deleted, read; refresh; download, backup, upload | an HTTP server that other clients write to, the memory calendar, listeners | optimistic updates, failures after the fact, races with other clients |
| Offline calendar cache, `calCachedCalendar.js` | the cache with its offline flags, `mSyncQueue`, the snapshot of a synchronisation | items changed online and offline, `synchronize`, `playbackOfflineItems` | a provider, the storage calendar | a synchronisation that overlaps changes; flags that are read and written in separate events; crashes |
| Chat accounts, `imAccounts.js` with `imCore.js` | connection state, reconnection timer, auto-login flags and counter, preferences in memory and on disk | connect, disconnect, automatic login, reconnect, startup, quit | IRC connections (`irc.js`), the user's status, timers | timers against user actions; marks that must be on disk before a crash |
| IMAP, POP3, NNTP, SMTP, LDAP, other chat protocols | connections, URL queues, automatic synchronisation | protocol commands | servers, folders | state of the remote side; `nsAutoSyncManager` schedules downloads |
| Message stores and databases (`mork`, `nsMsgDatabase`, address book) | files | reading, writing, compaction | folders, views | storage formats |
| MIME, iCalendar and other parsers; import, MAPI | none to speak of | conversion | - | data only |
| Views, search, filters, biff, purge, alarms, transactions | lists and timers | sequential updates | folders, calendars | little that overlaps |
| User interface, themes, locales, build | - | - | - | - |

The parts call each other through XPCOM interfaces on the main thread. Calls
are synchronous, completions come from the event loop or from inside the call,
and any listener may call back or spin the event loop in a dialogue. There is no
shared memory between threads in the modelled parts: what interleaves are
callbacks, nested event loops, timers, messages of remote servers, and crashes of
the process, which leave what is on disk.

What makes the components correct:

* copy service: one copy at a time per destination and in order; every listener
  hears once, of its own copy, when it is over; nothing is stranded;
* send-later: a message leaves the Outbox when all its servers have it, and is sent
  once; what is to be sent in the background is waited for; every run ends, and a quit
  that waits for it is answered;
* prompter: one question at a time, in turn; every caller hears once; the counter
  agrees with what is going on;
* ICS calendar: success means that the change reached the file; changes of
  others are not overwritten; reads see earlier writes; the calendar is never left
  locked;
* cache: an offline change is kept until the server has it, the cache follows the
  server, what is known to be there is not replaced by something older, every
  synchronisation ends;
* accounts: a crash during a login is recognised by the next start, a disconnection
  lasts, and an account that should be connected is not left behind.

`PROJECT.json` lists all components, and the hazards at the lines where they bite.

## Modules

| Module | Content |
|---|---|
| `MsgCopyService` | the copy service with its clients, destinations and listeners |
| `MsgCopyLines` | what a copy service promises: one line of requests per destination; `MsgCopyService` implements it (`Lines`) |
| `MsgSendLater` | the send-later service with delivery, the Outbox, the timer and quits |
| `MsgAsyncPrompter` | the prompter |
| `ICSCalendar` | the ICS provider with its HTTP server |
| `CalCachedCalendar` | the offline cache with its storage and a provider |
| `ImAccounts` | the chat accounts with the user's status and IRC connections |
| `...Proofs` | proofs about the module of that name |
| `MC...` | instances for TLC |

Definitions named in a comment as "mutant" are wrong versions of the definition
that follows: each property is also run with one of them in its place and has to fail.
The modules share no state: a message that is sent later is copied through the copy
service, but of that copy only its end matters to `MsgSendLater`, and the ICS provider
appears in `CalCachedCalendar` as any provider does, by its answers.

### MsgCopyService

Requests are numbered in order of arrival, so the array is the set `queue` read in
ascending order. `todo` of a request is the set of its sources whose `m_processed`
is false; `processed` is its own mark. `ops` has the copies that destination
folders have been told to do. `stack` has the calls of `NotifyCompletion` in
progress: a call is at its loop (`"find"`) or inside `OnStopCopy` (`"listener"`), and
a listener may ask for copies there. The loop is split in two actions, one that clears
the request found (`ClearFound`) and one that leaves the loop and calls `DoNextCopy`
(`NothingOver`); between them only a listener runs. `starts`, `stopped` and
`outcome` are history.

`Reports` says with which pair a local folder reports the end of a folder copy.
`FolderEnds` chooses among the ways the code has: the name asked for, another name
(a move onto an existing name), an empty folder from another server, and refusal.
`NestedLoop` allows copies to end while a listener is running; it stands both for
listeners that spin the event loop and for destinations that are done before
`CopyMessages` returns. `SamePair` allows a pair to be asked for while it is in
the array, and `Aborts` lets a compose window abort a message that is being
copied. Left out are `NotifyFolderMoveCopyCompleted`, move flags, message headers
and failures to allocate. A destination other than "refused" reports in the end.

The orderly run restricts the clients to one source, distinct pairs and no nesting.
Those are the conditions under which the service keeps its promises; see the proofs for
what happens without them. What holds without them is in `Copy_reentrant`.

### MsgSendLater

`outbox` is the folder, `rest` what `mEnumerator` still has of the snapshot, `current`
is `mMessage`. `step` of a message is what it waits for: its stream (`"reading"`), an
alert that is on the screen (`"alert"`), the news or the mail server, or its copy. Each
callback is one action that ends the step and starts the next message or ends the run
(`GoOn`). `EndSendMessages` leaves `notifying` set while the listeners of
`onStopSending` are called, where `ListenerSends` may start the next run;
`ListenersReturn` then tells the shutdown service, which is told last.

`InternalSendMessages` has the three ways of the code: refused (offline, or a run is
going on), put off until the Outbox is parsed, or started. The reparse has one listener
at a time; `HasUnsentMessages`, which menus call, replaces it by none. A reparse may fail
(`ParseEnds`): its listener has been cleared by then, `OnStopRunningUrl` starts no run, and the
database that is left may lack messages of the file, `unparsed`, which no snapshot has until
the file is parsed again. `tasks`,
`taskIndex` and `quit` are those of the shutdown service: `QuitRequested` opens the
progress dialogue, `StartShutdownTasks` is its loading, `CancelShutdownTasks` its
button. A quit that is carried out, and a crash, is `NewSession`: the Outbox survives
and its summary may be stale.

`delivered` and `repeated` record what the servers accepted. `doubtful` are the messages
that an attempt left in the Outbox although some server may have them: the protocol
cannot tell, and such messages may be sent again. `fresh` are the messages that are to be
sent in the background by themselves; those that the service forgets are taken out
where it forgets them, with a comment there. `lost` names callbacks that nobody will make.
Left out: messages that the user deletes from the Outbox during a run, the flags of
the message that was answered, folders too busy to be parsed, forced quits.

### MsgAsyncPrompter

Calls are numbered; an entry of `_pendingPrompts` is named by its `first` caller,
so insertion order is numeric order. `runnables` are the prompts in the event queue,
`stack` the runs that have called a listener. Runs nest, because a dialogue spins the
event loop, and they end innermost first. `RunFails` is the rejection of the login
manager's promise, which `run` does not catch: the counter stays up for good.

### ICSCalendar

A modification is the number of its call, an edit of another client is a model
value, and a version of the file is the set of those it contains. `processQueue` is
the operator `ProcessQueue`; `unlock` is `Unlock`, which answers the callers and
processes the queue; every end of a request (`RequestEnds`) is one action that
includes them. The server applies an upload if its `If` header matches
(`PutArrives`), and the client learns of that afterwards or never (`WriteFails`
may follow an upload that was done). The three kinds of server send ETags with
uploads and downloads, with downloads only, or never.

`FileUnreadable` has the three things that can happen to a bad file: it is not
UTF-8, an item is refused, or it does not parse. In the last case `readOnly` is not
set. `EtagArrives` sets no ETag: the path it looks for is not that of a PROPFIND answer.
`EtagLost` is the exception for an answer that is not UTF-8; the calendar then
stays locked, and `EventuallyAnswered` says so. Local-file hooks,
`Last-Modified`, the disabling of a calendar on errors (folded into `NothingToLoad`),
throwing listeners and calls made from within `processQueue` are left out.
The model starts with a calendar that has been loaded.

### CalCachedCalendar

The contents of an item are the stamp of the change that made them, and stamps grow, so
that they stand for `lastModifiedTime` as well. `phase` follows `synchronize`: the
offline items are listed by kind (`ListOffline`), the provider fetches everything
(`ItemsFetched` or `FetchFails`), the cache is emptied (`SetupCachedCalendar`), the fetched
items are added one by one (`AddFetched`; `cal.forEach` gives way to other events), the loop over the
snapshot follows (`AllReconciled`), and what has an offline flag is played back.
`op` has the calls of the user in progress; the stages of a call are the asynchronous
readings of an offline flag and the provider's answer. `play` has two playbacks, because
`synchronize` starts one when it fails and does not wait for it (line 438).

The loop over the snapshot (lines 390-431) is meant to bring the offline changes back after
the cache was emptied, and to ask the user when the server has something newer.
`offlineCachedItems` is a plain object, and `cal.forEach` walks the entries of such an object:
its body gets pairs of a key and an item, `item.hashId` is undefined, and no case of the
`switch` is ever taken. So `Reconcile` changes nothing, and a synchronisation that succeeds
drops every offline change (`Cal_offline_lost`). What brings offline changes to the
server is the playback after a synchronisation that failed, or one of items that were changed
after the cache was renewed. `NothingLost` and the other properties are about these: an offline
change is kept until it is played back, withdrawn, or dropped with the cache (`owed` is
cleared in `ItemsFetched`).

`raced` are the items whose changes overlapped something that loses changes in this code:
a change that begins while a synchronisation fetches or adds, a change during the
item's playback, items being played back while the cache is renewed, an answer that was lost after the
server had done an addition, a crash before a fetched item is added or during a call
(`Crash`). The properties speak of all other items, and after an overlap only what is
under way is brought to its end (`Begin`). Left out: providers with a change log,
disabled calendars, unregistering, invitations, metadata, recurring items, observers.

### ImAccounts

A handler is an operator from the record of an account to its new record
(`AccountConnecting`, `AccountDisconnected`, `Connect`, ...), as the handlers of
`imAccount` call each other within one event; an action applies them to an account and
writes the preferences. Preferences are kept twice, in memory and in the file, `disk`;
`SaveFirst` and `Prefs` are the calls of `SavePrefTimer.saveNow`. `count` is the counter
of automatic logins, `pending` of an account its `_autoLoginPending`. `running` goes
through startup, the use, and a quit or a crash, any number of times.

`wanted` are the accounts that the user or an automatic login has connected and nobody
has disconnected; `haunted` those that were disconnected while an older timer had lost its
handle; `suspect` those whose first connection was interrupted by a crash. Of the
protocols the IRC connection is modelled: opening, registration, `QUIT` with its answer
and its timer, loss. Left out: passwords, creation and removal of accounts, missing
protocols, automatic login switched off.

## Runs

| Run | Bounds | Shows |
|---|---|---|
| `Copy_orderly` | 3 requests of all kinds, folder tree, 1 file, 1 source, weak fairness | one copy at a time and in order, listeners hear of their own copy and in the end; refinement of `MsgCopyLines` |
| `Copy_reentrant` | 2 requests, 2 sources, everything allowed | batches are closed, a stopped request stays stopped |
| `Copy_sources_overlap` | 3 requests, 2 sources | violation of `OneCopyPerDestination` |
| `Copy_folder_stall` | 2 folder requests | violation of `NoStall` |
| `Send_later` | 2 messages (one for a newsgroup and recipients, one put off), 2 shutdown tasks, weak fairness | the four properties of the send-later service |
| `Prompt_queue` | 4 calls, 3 keys, weak fairness | the seven properties of the prompter |
| `Ics_file` | 3 calls, 2 edits (one bad), 3 kinds of server, weak fairness | the six properties of the calendar |
| `Ics_unreadable` | 2 calls, 1 bad edit | violation of `InvalidFileKept` |
| `Ics_etag` | 2 calls, 1 edit | violation of `EtagKnown` |
| `Cal_cache` | 2 items, one edited by the user and by another client, 3 changes, weak fairness | the seven properties of the cache |
| `Cal_offline_lost` | 2 items, one edited by the user, 2 changes | violation of `CreatedAreAdopted` |
| `Chat_accounts` | 2 accounts, one that the user connects, edits and loses, any number of sessions, weak fairness | the seven properties of the accounts |

Bounds. Three folders let two requests wait for one destination while another one
completes elsewhere. Two sources are enough for one to be started and one not. In the
prompter four calls with three keys give a prompt on the screen, one that waits, one that
jumps the queue and one that shares a key. In the ICS calendar three calls give a
modification under way, one that is queued and a read or refresh between them. In the
cache three changes are one of the user's, one of another client, and one that overlaps
them; the second item is what a loop gives way to (`Edited`, `Shared` and `Lossy` name
the items that the user changes, another client changes, and whose answers may be lost).
With the accounts `Touched`, `Lossy`, `LastSecond` and `LateWelcome` name the accounts that
the user touches, whose connection may fail, that may be connected in the last second
before their timer, and whose welcome may arrive after `QUIT`; the other account is there
for the counter and for the order in which logins finish. Two messages are one in progress
and one that is left in the snapshot, waits for the timer or is added during a run, and a
second shutdown task is what a refused quit leaves in the list.

Larger instances that are not part of the runs because of their time, each checked once
to the end without an error: `Copy_orderly` with four requests of messages and files
(576,944 states); the safety properties of `Cal_cache` with `Edited = {i1, i2}` (8.2 million); `Chat_accounts`
with `LateWelcome = {a2}` (624,512); the invariants of `Send_later` with three messages and one shutdown task
(776,282).

The symmetry of folders is used only by a run that checks no liveness. Deadlock is not
checked: all the systems stop when their clients have nothing more to ask for.

Fairness is weak fairness of the steps that the event loop, a destination folder, the
network, a timer or the user at a dialogue takes in the end: `ServiceSteps`,
`PrompterSteps`, `RequestEnds`, `Served`, `Timeout`, `MessageStep`. Clients are never
forced to call, and another client or a server never to succeed (a request that is not
answered fails by its timeout, and failure is always among the steps). Nothing is assumed
of going online, of quits and crashes.

### Disagreements with the code's own words

* `Copy_sources_overlap`: `DoNextCopy` (lines 284-307) counts a destination as active
  only when all sources of its request are started. A scan made for another destination
  starts the second source while the first is copying. The local folder asserts that
  this does not happen.
* `Copy_folder_stall`: `CopyFolderAcrossServer` reports an empty folder as its own source.
* `Ics_unreadable`: a file that does not parse does not make the calendar read only,
  and what is in the queue already is applied even when it is. The next upload
  overwrites the file.
* `Ics_etag`: the fetched ETag is never found.
* `Cal_offline_lost`: a synchronisation that succeeds drops the offline changes, although the
  comments at `calCachedCalendar.js:393` and 405 say that they are adopted or modified again.

Seen while modelling, without a run of their own (the properties name the exception where
one is concerned):

* copy service: with equal pairs, and a third request in the array, the loop of
  `NotifyCompletion` may answer a request whose copy is going on: its listener asks for a copy
  into another folder, that call starts an older equal request which waits in the array, and
  the loop finds that one and takes it for done, since its sources are all started (the comment at
  678-679 says "processed"). A request that the listener adds is always behind
  `numOrigRequests` (694-695) and is ignored, as the comment at 671-675 promises. `OnStartCopy` is called once per source, where its interface says once; a
  failed copy clears an equal request that was never started; a request of several sources
  stays in the array when the source that completes last is not the one it was asked with;
  after a refused folder (line 333) the next request for that destination is not started;
  the report of a renamed folder (`nsLocalMailFolder.cpp:1868`) is found only when its
  request is last in the array; `nsImapMailFolder.cpp:5468` may report nothing.
* send-later: a reparse that fails leaves what was waiting for it where it is
  (`nsMsgSendLater.cpp:388`); the timer that fires during a run leaves what was added since then where it
  is; when the first message cannot be started `mSendingMessages` stays true until the
  restart (line 836); the result of `DeliverFileAsMail` is ignored
  (`nsMsgSend.cpp:3584`) and a failed copy may go unreported (`nsMsgSend.cpp:3868`), with
  the same effect; a message that was posted and could not be mailed is posted again;
  `DoShutdownTask` cancels the timer and leaves `mTimerSet`, so that after a refused quit
  nothing is sent in the background; the shutdown listener set by a quit that is tried
  again within `OnStopRunningUrl` is set to null afterwards. `nsMsgOfflineManager` adds
  itself as a listener at each use and never removes itself; its state machine is not
  modelled.
* cache: a change during a full synchronisation is lost with the old cache (line 361);
  the answer to a playback takes the flag off a newer change (529); an addition whose
  answer was lost is refused for ever (668); the playback of a failed synchronisation
  overlaps the next one (438); a crash before all fetched items are added leaves the others
  out of the cache until the next synchronisation (366).
* ICS calendar: an upload that was done but whose response is lost, or one that failed before
  the next one succeeds, puts into the file what was reported as failed (426, 434):
  `SuccessIsPublished` is the other direction; after an answer to PROPFIND that is not UTF-8 the
  calendar stays locked.
* accounts: a welcome that is handled after `QUIT` connects the account again
  (`ircBase.jsm:387`); a connection in the last second before the reconnection timer
  keeps that timer (221), and its handle may be overwritten.

## Proofs

All theorems hold for any values of the constants that satisfy the modules'
assumptions (folders and files are disjoint, no ETag is "no tag", sets of items and
accounts are finite, bounds are positive).

`MsgCopyServiceProofs`
* `TypeCorrect`: type correctness, and `CountsArePositive`: the unsigned
  `numOrigRequests` of a call whose listener is running is positive, so decrementing
  it cannot wrap around. It is inductive together with `TypeOK`: a listener runs
  only after a request with an index below the count was found.
* `StartedInOrder`: the action property `FifoPerDestination`. The argument is about
  the scan: the first eligible request has no earlier one for its folder, because
  that would be exhausted, and then block it, or be eligible itself.
* `BatchesMatch`: `BatchesClosed`, by following the set of batched requests in the array
  (`BatchedIn`) through what queues and what clears a request.
* `AnsweredForGood`: the action property `StopIsFinal`, from `Unanswered`: a request in the
  array has not been answered.
* `OneCopyAtATime`, `StoppedWhenOver`, `OwnAnswer`: the three invariants of the copies, for clients and
  destinations that are `Orderly`: no pair of source and destination is queued twice
  (`SamePair`), no copy completes while a listener is called (`NestedLoop`), none is aborted, a
  request has one source, and `CopyFolder` does not fail at once ("refused"). Each condition
  is needed: the run `Copy_sources_overlap` breaks the first property without the fourth, and TLC finds
  counterexamples without each of the others with three or four requests. The invariant is `OrderlyInv`: a started request is the first of the array for its
  destination, each copy is that of a request in the array that has no source left, and
  `FindRequest`, which compares folders and not requests, can find none but the request whose
  copy has ended. The hardest part is `Cleared`: what `NotifyCompletion` still looks at after it has
  cleared that request holds nothing that it would take for another match.
* `ImplementsLines`: with orderly clients each step maps to a step of `MsgCopyLines` or a
  stutter: `LinesSafe` is the specification of the lines without its fairness. The step that
  needs an argument is the scan, which starts the head of an idle line.

`MsgSendLaterProofs`: the invariant `Inv` is `TypeOK`, `ExactlyOnce`, `NothingForgotten` and
`Accounted`. `ExactlyOnce` is not inductive: that a message may be removed when a
server accepts it depends on its earlier acceptance by the other one, and that nothing is
accepted twice on which messages have been accepted at all; `Accounted` says, of each
message in the Outbox, which server it can have been accepted by in its present step, and
that all others are in doubt. There is a lemma for the ends of a run and one per
callback; the steps of a quit go through two lemmas, with and without the timer. For a
reparse that fails there is nothing to show but that what is still `fresh` has its timer.
`OneInProgress`, `SentOnce` and `WaitedFor` follow.

`MsgAsyncPrompterProofs`: the invariant `PrompterInv` is type correctness,
`CounterExact`, `IdleIsEmpty` (nothing pending while the counter is zero, which is
what `_doAsyncAuthPrompt` maintains) and that dialogues are open only when the
login manager is ready. `PrompterTypeCorrect`, `CountsPrompts` and `NeverStalls` follow.
`EveryoneToldOnce`, `OneQuestion` and `PromptsInTurn` need `TurnsInv` as well: a hash key has one
entry; a key on its way to the screen is that of an entry nobody was asked for, and one
that waited is the oldest; the consumers still to be told in a frame of the stack are those
bound to its entry; and the prompts in progress beside one that waited all jumped the
queue. `AtLeast` carries it past the failure of the login manager, after which the counter is
too high and never too low.

`ICSCalendarProofs`: the invariant `CalInv` follows the modifications whose callers
wait: they are in the memory calendar during the backup, in the upload during the
upload, and in the file once it was done (`ActingOK`); a queue holds modifications that
are recorded and reads that are none (`QueueOK`); calls not made have no answer. All ends
of requests go through one lemma about `unlock`, and that through one about
`processQueue`. `CalendarTypeCorrect`, `StaysLive` and `SuccessesArePublished` follow. `ReadsAreCurrent` adds
`KeptInv`: as long as all files can be read, a modification that succeeded is in the memory
calendar and in the file, one whose caller waits is queued or being uploaded, and in the queue
the modifications that are older than a read come before it. `EtagsProtect` adds
`TagsInv`: an ETag in the calendar's hands is that of a version whose changes the
calendar has, so an upload that matches it replaces nothing unknown.

`CalCachedCalendarProofs`: `CacheInv` is `TypeOK`, `QueueIsLock` and `PlayOK` (playbacks have
their type, and one that is idle has nothing in hand). `LockIsFreed` needs them together: the
queue is emptied by the end of a playback or of a reading that failed, and a playback that
is answered, listed or aborted must be one that is under way. `CacheTypeCorrect` includes that
an offline flag stands on an item that is there, through every way a flag is set.
`OfflineChangesAreKept`, `MirrorsWhenQuiet`, `FlagsFit` and `SeenIsNotReplaced` need to know of every item that
is not in `raced` where it stands, which is `ItemsInv`. An item that was fetched and is not
added yet is absent, and nothing is owed of it (`Renewed`); of any other one the cache has the
offline change, with a flag that fits what the server has told (`Settled`). Besides, what a call of the user
has read of the item still holds (`Offered`), and no such call is in progress while the item is being
added or played back; what a playback carries is in the cache (`Played`); and contents are older than the changes
to come, those of an offline change not older than what the server has told (`Dated`), which is
why a playback that compares nothing still puts nothing older there. None of the parts is
inductive without the others. TLC checked `ItemsInv` on the reachable states of an instance
before it was proved. There is a lemma for the call of one item, one per action, and one that
the other items do not notice. That the loop over the snapshot changes nothing is part of the
model, not a hypothesis: with a loop that worked, the invariant would need the snapshot as well.

`ImAccountsProofs`: `AccountsInv` is `TypeOK`, `LoginsCounted` (the counter is the number of
accounts with `_autoLoginPending`), the marks on disk (`Marked`), `AllFresh` (accounts
between sessions), `QuitIsClean` and `Suspected`. There is a lemma per handler about the
record that it returns, and per action one that it keeps each part. `LoginIsOnDisk`,
`NoFalseAlarm` and `CrashersLeftAlone` follow. `UserIsObeyed` and `NobodyStranded` add `TiedInv`, about each account:
it has a socket exactly while it is not disconnected, and one that is disconnecting waits for
the answer to `QUIT` (`Linked`); one that is wanted observes the status and has a timer if it cannot be
connected now (`Looked`); one that is neither wanted nor haunted has no observer, no timer and no lost timer
(`Parted`). The last part, and `UserIsObeyed`, assume that no account the user touches is in
`LateWelcome`: the welcome that is handled after `QUIT` does connect an account that the user
has disconnected. `NobodyStranded` assumes nothing of the kind.

Every invariant and every action property of the passing runs is proved. Only model-checked:
liveness, since fairness and ENABLED are out of the prover's reach (`EventuallyStopped`, `EventuallyTold`,
`EventuallyAnswered`, `SyncEnds`, `KeepsTrying`, `RunEnds`), and with it the fairness of the refinement `Lines`,
of which `ImplementsLines` proves the rest. `OneCopyPerDestination`, `StoppedIsOver` and `AnswersOwnCopy` are proved of
`Orderly` clients and `StaysDisconnected` without late welcomes for `Touched` accounts, which are the
hypotheses of their runs.

## Not modelled, and what could come next

1. `nsAutoSyncManager` and the state machine of `nsMsgOfflineManager`, which goes through
   `MsgSendLater`'s `onStopSending`: schedulers of their own. Of IMAP beyond that the
   state is mostly the server's and the parser's.
2. `ICSCalendar`: a stack of calls for listeners and observers that call back from
   `processQueue` (line 548), listeners that throw in `unlock` (587), and a first download
   that fails, after which an upload carries no ETag (222).
3. The prompter's login manager that fails before the try block (23, 25) is modelled, its
   recovery is not in the code; the counter `_count` of chat accounts that are disconnecting
   while they are pending again is followed by `LoginsCounted`.
4. Proofs: an abstract specification of the cache (a set of changes that the client owes the
   server) and of the Outbox, and their refinements step by step.
5. Parsers, converters, storage formats, views, user interface, themes and build files are
   data or sequential code and are left to tests.
