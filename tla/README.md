# gommail in TLA+

gommail is a desktop mail client written in Go: IMAP and SMTP clients, a message
cache, and a Fyne user interface. This directory holds TLA+ models of the parts
whose correctness depends on the order in which goroutines, servers and users
act, the TLC configurations that check them, and proofs checked by TLAPS.

## The system

| Component | State it keeps | Operations | Hard behaviour |
|---|---|---|---|
| command pipeline (`pkg/imap/worker.go`, `client_wrapper.go`) | `commandCh`, `fetchCh`, `stopCh`, `ctx`; per command a context and a response channel | `SendCommand`, the event loop, the fetch loop, `Stop`, `StopFast` | callers that give up, a stop at any moment, transfers that stall |
| connection (`connection.go`, `health.go`, `worker.go`) | three clients, `state`, `reconnecting`, the attempt counter | connect, disconnect, reconnect, health check, automatic reconnection | attempts started from everywhere, timeouts, retry timers |
| IDLE monitoring (`idle.go`) | `idleActive`, `idleFolder`, the monitor goroutines | start, stop, restart after each IDLE | monitors that outlive their connection |
| new-mail detection (`idle.go`) | watermarks per folder, retry counts, the persisted tracking state | check, fetch, retry, save, load | mail announced before it can be fetched, unordered saves |
| bulk fetch (`fetch.go`) | the fetch client and a note of its selected folder | fetch, abort, cache | a client shared with reconnection and, without one of its own, with the event loop; partial transfers |
| message operations (`flags.go`, `ui/message_ops.go`) | a note of the selected folder; optimistic changes of lists | mark, move, delete, store | commands that name a UID only; some steps of several failing |
| folders, search (`folders.go`, `search.go`) | folder lists, cached for 24 hours | list, create, delete, subscribe, search | old lists, background refreshes |
| message cache (`pkg/cache`) | a file per key, the bytes written since the last check | set, get, delete, clear, cleanup, eviction | expiry, the size limit, crashes between and in calls |
| composing and SMTP (`compose_window.go`, `pkg/smtp`) | the form, a draft file, a goroutine per press of Send | edit, save a draft, send, file a copy | exchanges that end half-way, edits and a second press meanwhile |
| folder dialog (`folder_subscription_dialog.go`) | its folder lists, its own client or the window's | subscribe, create, delete with or without moving the mail | a deletion of many steps over cached answers |
| address book (`internal/addressbook`, `addressbook_dialog.go`) | a list of contact objects, saved in the preferences | add, edit, remove, collect, import | dialogs with pointers into the list |
| accounts, sessions (`account_session.go`, `controllers/account_controller.go`) | a client per account, the current account | select an account, the unified inbox, clear the cache | clients made and stopped by several goroutines |
| message list (`main_window.go`, `controllers`) | an array, a selection by index and one by pointer | load, select, sort, remove | answers that arrive after the selection has moved on |
| reading (`main_window.go`) | the viewer, a five-second timer | fetch and show a body, mark as read | answers and timers that are late |
| unified inbox (`unified_inbox*.go`) | one merged list | merge, filter, sort, remove | cached and fresh lists in any order |
| configuration, settings, wizard | preferences, a form | load, edit, save, migrate | pointers into the list of accounts |
| MIME, notification, validation, logging, tracing | none | | none |

The user interface talks to one `ClientWrapper` per account. Each of its calls
becomes an `IMAPCommand`, and the caller blocks in `SendCommand` until the
worker's event loop has run the handler. The worker calls back for changes of the
connection and for new mail. Reconnection goroutines and IDLE monitors send
commands through the same queue, so that only the event loop uses the command
client; bulk transfers have a queue, a loop and, as a rule, a connection of their own. The
main window owns the clients; its dialogs borrow them. Work is done on goroutines, which
leave closures for the one thread of the user interface.

What makes each part correct: a command is handled at most once and its caller is
told nothing false; every call returns; one reconnection at a time, and never
none when one is needed; a folder that was monitored is monitored again; every new
message is announced once; the cache stays within its limits and never serves what
it has deleted; a command acts on the folder it names; a list is that of the folder
selected, without duplicates; an operation applies to the messages that were picked;
no message is lost by the deletion of its folder, filed as sent without being delivered,
or shown in place of another; no worker runs on unowned.

## Modules

| Module | Models | State and code |
|---|---|---|
| `RequestReply` | what a caller may rely on | `call` is how far a `SendCommand` has come, `handled` counts runs of the handler |
| `WorkerCommands` | the command pipeline | channels are sequences of at most `QueueCap` commands; `caller` is a caller's place in `SendCommand`; `eventLoop`, `fetchLoop` and `stopper` are the places of these goroutines in their code; `cancelled` holds the commands whose context is done, `respCh` the content of each one-slot response channel |
| `IdleReconnect` | connection, reconnection, IDLE | `state`, `idleActive`, `idleFolder`, `reconnecting` are the worker's fields; a client is nil, up, or down without anybody having noticed; `attempt` is the place of each goroutine in `attemptAutomaticReconnection` with the folder it saved, `monitor` that of each one in `idleMonitorLoop`; `loop` is the server call the event loop is in, and the attempt that waits for its outcome |
| `NewMail` | new-mail detection in one folder | `lastCount`, `lastUID`, `synced`, `retryCount`, `retryPending` are the worker's maps at that folder; a check is two server calls, `Select` and `Fetch`, each with what the worker does after it; `snapshots` are the tracking states that saving goroutines hold, `saved` is the cache; `hidden` are messages that the server has announced and does not let anybody fetch yet; `announced` and `settled` are history |
| `PartialMap` | what a user of the cache may rely on | `map` is what the cache holds, `answer` what the last call returned |
| `Cache` | the message cache | `file` is what is in the file of each key, `older` the order of the `CreatedAt` fields, `written` and `pending` are `writtenSinceCleanup` and `cleanupPending`; sizes belong to values: `RawSize` is the `Size` field of an entry, `DiskSize` the size of its file |
| `Mailboxes` | commands that depend on the selected folder, folder commands, bulk fetch | `sel` and `fetchSel` are what the two sessions on the server have selected, `selectedFolder` and `fetchSelectedFolder` the worker's notes; `op` is the command between its `SELECT` and its action, `job` the bulk fetch; `cachedFrom` says where the cached messages of a folder come from |
| `Selection`, `UnifiedMerge` | the selection manager; merging into the message list | operators, no state: marks by index, a pointer to the message shown; lists of items with an account, a UID and an identity, which is a Message-ID unless it is in `Unnamed` |
| `MailWindow` | the message list of the main window | `list` is an array, the length shown and the length the controller sorts; `picked` is a pointer into it, `sm` the manager; `tasks` are the goroutines at their places, `ui` the closures that wait for the thread of the user interface |
| `Sessions` | who makes and stops the clients of the accounts | `clients` in the order of creation, `managed` is `accountClients`, `ui` the thread inside `selectAccount`, `jobs` the loaders of the unified inbox |
| `Reading` | showing and marking the message selected | `list` is the array behind the list; `ptrs` are the pointers into it that selections made, which the selection, the goroutines of `fetchAndDisplayMessage` (`fetches`) and the timers share; `timer` is `readTimer`, `armed` and `marking` its timers before and after they have fired |
| `Compose` | a compose window and its SMTP exchanges | `form` is the window, `arrays` what attachment slices share, `sends` the goroutines of `sendMessage` with the step of the exchange |
| `Subscriptions` | the folder dialog and what the main window makes of its reports | `deletion` is the deletion at its step, with what it listed and what is left to move; `keptMail` and `keptLists` are the worker's cache |
| `AddressBook` | the contact list, its dialogs, import and collection | `live` and `label` are the objects in the list, `dialogs` what each dialog shows and points to, `saved` the preferences |
| `Desk` | `Mailboxes`, `Sessions`, `Reading`, `Compose`, `Subscriptions` and `AddressBook` in one | `part` is the one that runs |
| `WorkerCommandsProofs`, `IdleReconnectProofs`, `NewMailProofs`, `CacheProofs`, `SubscriptionsProofs`, `AddressBookProofs`, `DeskProofs`, `MailWindowProofs` | the theorems; `DeskProofs` has those of `Mailboxes`, `Sessions`, `Reading` and `Compose` | |
| `MCIdleReconnect`, `MCCache`, `MCMailWindow`, `MCDesk` | instances for TLC | |

`WorkerCommands` and `IdleReconnect` share the event loop and divide it: the first
says how a command travels and leaves the outcome of the connection check open; the
second says what the outcome is and what the handlers do to the connection, and
takes the queue from the first with callers that do not wait.

`NewMail` takes from the queue that checks are run one at a time; requests for checks
come from a server push, the end of an IDLE or a reconnection, and are arbitrary.

In all, the body of a handler between two server calls is one action: only the
event loop reads and writes what it touches there, except for fields under
`w.mu`, whose accesses by other goroutines are actions of their own. In
`IdleReconnect` the event loop's reply and the reaction of the reconnection goroutine
that waits for it are one step: until the goroutine runs, its flag is set and its
command is gone, so what others can do in between they could also do just before
the reply. A connection error of any handler starts a reconnection; the health
check stands for these, being the handler that runs in every state. Delays
are arbitrary.

In `Cache` a call is one step, since it holds the cache's lock from its first line to its
last. Its state is the directory, so a crash keeps it, with at most one call cut short: a
file written in part, which is no valid JSON, or some of the files of a `Clear` or
`Cleanup` removed. Two caches whose directories lie in one another, as those of
messages and attachments do, are not modelled.

`Mailboxes`, `Sessions`, `Reading`, `Compose`, `Subscriptions` and `AddressBook` share no
variable: where one needs another (the dialog reads through the worker's cache, a loader
connects a client) it abstracts what the other may answer into its own steps, so that each
covers every behaviour of its surroundings. `Desk` runs one of them, with the others
at rest; to let them move in turn would multiply states and add no behaviour to any. It extends
the two parts that have theorems and instantiates the others.

`MailWindow` has the list of a folder, the unified inbox, and all that goes on around them.
Pointers are what its code has: a selected message is a place in the array behind the list,
which stays when the list is sorted or shortened, and is left behind when it is replaced. The
user waits for nothing but the answer to a question: any button may be used at any time, also
during a removal. An item is taken at its word: a removal asks the account that the item names
for the UID that it names (`Named`), whichever message the row shows.

`Reading` has the same array with less around it: what it needs of the list is that it is
sorted, merged into, shortened or replaced at any moment. What a body or a timer is for is read
through its pointer again at each step, where the code reads it: the account and the folder
before a fetch, the UID at each attempt, all of them when a timer fires.

Histories record that the code has got into a place where a property of its part is known not to
hold; each property names its exception, and says nothing of what comes after it.

* `shared`: a bulk fetch met a command on the command connection, each of which may then act on
  the folder of the other. `ActsOnNamedFolder` and `CachedUnderItsFolder` cover late notes, refused
  selections and reconnections, not this.
* `overwritten`: `selectAccount` stored a client over another, since looking up, making and storing
  one are not atomic. `NoWorkerLeaked` does not cover the client that is lost so.
* `undercut`: a loader, the clearing of the cache or a `Disconnect` that timed out has stopped the
  client that a session uses. `SelectedClientLives` covers what sessions do to each other.
* `missed`: a load was dropped, has failed or came after that of a folder selected later. `ListIsOfFolder`
  covers merges, refreshes, deletions and late closures, not the list that such a load leaves.
* `list.resorted`: a list that an item was taken out of was sorted (`NoDuplicates`); `shaken`: the
  array, or what is selected for a question, changed while messages were being removed
  (`RemovesOnlyPicked`); `stuck`: the unified inbox was left before a removal ended, or the removal's
  pointer led to an item of another account by then (`SuppressIsOwned`).
* `loose`: a timer had fired when the view changed, was not cancelled by a search, lost its
  handle, or was started in a list that was not of the folder selected (`MarksTimedMessage`). `still`
  is false of a pointer whose array was sorted or shortened since, and `opened` of a selection that
  opened nothing, by Ctrl or Ctrl+A (`BodyIsOfSelected`, `MarksTimedMessage`).

What happens in the last two groups is told below, under what disagrees with the code's own words;
the run `WindowRemoval` shows it for removals. In the other cases no text in the repository promises
anything.

Definitions whose name has an underscore after the name of an action, such as
`Begin_LateFlag`, are faults: what the action would be with a plausible mistake. They
are used to see that a property notices the mistake, and are no part of the model.

## Runs

| Run | Bounds | Shows |
|---|---|---|
| `CommandsLive` | a quick caller, a bulk caller, one stopper, queues of one | `ReplyNeverBlocks`, `CommandTracking`, refinement of `RequestReply`; under fairness every call and the stop return |
| `CommandsStalled` | a quick caller, two bulk callers, queues of one | with transfers that never end, a queued command still reaches the event loop |
| `ReconnectLive` | two attempts, two monitors, two folders, queue of two, two faults, one command of a caller | `OneAttempt`, `FlagIsOwned`, `ConnectedHasClients`, `NeverWedged`; under fairness `Recovers` |
| `ReconnectFolder` | the same, safety only | `RestartsMonitoredFolder` is violated |
| `NewMailLive` | two messages, one announced at a time, two retries, a flood from two messages on, one request at a time next to the retries, one failed call or crash | `AnnouncedOnce`, `NothingSkipped`; under fairness `RetriesUntilFound` |
| `NewMailPartial` | the same without failures | `NothingSkipped` is violated |
| `CacheLive` | three keys, values of size one and two, files as large as the values, a limit of three and a check after more than two | refinement of `PartialMap`, `EvictsOldest`, `EvictionSuffices`; under fairness `CleanupTakesPlace` |
| `CacheLimit` | files one larger than the values | `EvictionSuffices` is violated |
| `WindowSafe` | two accounts, one with a second folder; all lists cached or none; four messages and one that arrives, two of them without a Message-ID; three commands, one failed call | `SelectionInList`, `NoDuplicates`, `ListIsOfFolder`, `FetchIsOwned`, `SuppressIsOwned`, `RemovesOnlyPicked` |
| `WindowRemoval` | the same | `RemovesCaptured` is violated |
| `DeskSafe` | see below | `ActsOnNamedFolder`, `CachedUnderItsFolder`, `NoWorkerLeaked`, `SelectedClientLives`, `BodyIsOfSelected`, `MarksTimedMessage`, `CopyMeansDelivered`, `DraftOutlivesFailure`, `ListedMailSurvives`, `ContactsSaved`, `KeepsContacts` |
| `FolderDeletion` | the folders and messages of `DeskSafe` | `ChosenMailSurvives` is violated |

The bounds of `DeskSafe`, part by part. Mailboxes: two folders, three commands or bulk fetches.
Sessions: two accounts, four clients, three choices of the user. Reading: three
messages of two accounts with two UIDs, one in a second folder, two selections or changes of the view or
the list, two bodies under way. Compose: three people, one original, two presses of Send, one edit. The folder
dialog: three folders, two
messages, three requests or arrivals. The address book: two addresses, two dialogs, three edits.

Why the bounds suffice. A command has no content, so two callers and a tick show
every way in which two commands can meet in a queue of one: full, empty, and
overtaken. In `CommandsStalled` the two bulk fetches fill the fetch loop and
`fetchCh`; with one more the event loop would rightly wait, as the code does when
100 fetches are queued. Two attempts are one in progress and one that starts or
waits in a timer; further ones are copies of the second. Two faults are a loss and
a failed retry. A fault is anything the network does wrong: a connection lost, a
login refused, an answer after its timeout. In `NewMail` two messages are the one a check
is about and one that arrives during it; a count of two is beyond both the limit of
announcements and that of a flood, so both guards act. No number of retries
depends on another, so two stand for five.

In `Cache` three keys can hold twice the limit, so that an eviction removes none, one or
two of them, and one may be torn or not go; one goroutine waits while another cleans.

In `WindowSafe` the second account has the UIDs of the first, and so has the second folder;
three commands are enough to go somewhere, pick a message and remove it while the list of
where one was is still loading, or to sort or go elsewhere during a removal. In `Reading` two
events open a message, and move another one to its place or open a second one, while the body is
fetched and the timer runs. In `DeskSafe` two accounts or two folders share UIDs, which
is what late answers confuse; three commands are a bulk fetch, a reconnection and a command,
and four clients are those of two accounts and their successors. A message to answer names one
of the user's own addresses, and one whose display name holds a comma, for which nothing is sent;
the two others make a message that may reach one of its recipients only. Two presses of Send are
the double one that the window allows; their exchanges fail at any step. One deletion is followed
at a time, with what other windows and the server do meanwhile; two messages are one that is
moved and one that fails or is not listed.

`NewMailLive` assumes of the server that the messages above the watermark can
all be fetched or none of them can, and all of them once the process has started again.
`NewMailPartial` is what happens otherwise.

Fairness. Go runs every goroutine that can run and fires every timer: weak fairness
on their steps. A `select` picks at random among its ready cases, so one
that is ready again and again is taken: strong fairness on the exit of the loops.
A server call of a quick handler ends, at the latest with the read timeout of the
IMAP library; a bulk transfer need not end before its caller gives up, and then
does because the watcher closes its connection. Callers need not call and stoppers
need not stop. `CommandsStalled` has the fairness of the event loop only. In
`IdleReconnect` the number of faults is bounded, so the network is eventually good;
without this, nothing recovers. In `NewMail` the event loop and the retry timer are fair and
nobody need ask for a check: an IDLE may last for 29 minutes. In `Cache` the cleanup
goroutines are fair and nobody need call; a restart ends them. `MailWindow`, `Desk` and
its parts state no fairness: their properties are of safety.

## What disagrees with the code's own words

* `ReconnectFolder`. `worker.go:646` saves the IDLE state "before any other
  reconnection attempt can clear it". The attempt itself clears it: `handleReconnect`
  sets `idleActive` to false, and if dialling then fails, the retry finds it false
  and monitors INBOX, whatever folder the user has open.
* `NewMailPartial`. `idle.go:437` advances the watermark "now that we have confirmed the
  messages exist". A fetch that returned any message confirms only that one: the
  watermark goes to the highest UID of the server, and a message in between
  that could not be fetched yet is not looked for again.
* `CacheLimit`. `cache.go:442` evicts "until size is under limit", but adds up the sizes
  of the values where `Cleanup` compares those of the files. Files larger than their
  values, as base64 makes them without compression, stay above the limit. The other
  way round, with lists that compress well, an eviction removes far more than
  a fifth of what is there.
* `FolderDeletion`. Before a folder is deleted "all messages" are to be moved
  (`folder_subscription_dialog.go:964`). The dialog has just fetched one message to see whether
  there are any, the worker has cached that list, and the cache answers the second
  fetch. One message is moved, the rest is destroyed with the folder.
* `WindowRemoval`. `message_ops.go:464` and 613 capture the selected message "to avoid race conditions
  in the goroutine". It is a pointer into the list that is captured: a sort, a merge of new mail or
  another removal moves another message to that place, and that one is removed.

Five more are of the same kind. The properties except them or do not
reach them, and no run shows them.

* `CHANGELOG.md:18` has reconnections "event-loop-serialized and deduplicated". An attempt whose
  `CmdReconnect` is answered after 30 seconds has scheduled another one meanwhile (`worker.go:717`),
  which closes the two connections that the late answer opened. `OneAttempt` says only that the two
  are not at work together.
* "Check for duplicate UIDs within the same account", says `main_window.go:1164`, and calls a list
  that has them inconsistent. A removal in the unified inbox shortens the window's slice in place
  (`message_ops.go:536`) and not the controller's; the next click on a sort button sorts the longer
  one, and the message that was left beyond the end is listed twice (`list.resorted`).
* `message_ops.go:495` and 639 clear the flag "after the operation completes", if the unified inbox
  is still selected. Who selects an account meanwhile leaves new mail of the other one out of the
  unified inbox for good (`stuck`).
* An item has "all necessary context" (`message.go:83`). It gets its account when its list is shown, and
  that is the account selected by then (`main_window.go:1046`): the list of one account may become items of
  another, whose messages with these UIDs are then opened or removed. No folder is selected then,
  and `ListIsOfFolder` speaks of lists of a folder.
* An opened message is a pointer into the list. `main_window.go:1400` shows a body "only if it's
  still the selected message", but compares UIDs: in the unified inbox two accounts share them, and
  `BodyIsOfSelected` speaks of UIDs. After a sort another message is selected than the one shown.
  `main_window.go:2735` starts a timer "to mark the message as read", which reads the UID when it
  fires, and marks the message that was sorted into the place (`still`).

## Proofs

`WorkerCommandsProofs` proves for any callers, stoppers and queue capacity:
`TypeCorrect`; `CommandsTracked`, that `CommandTracking` is an invariant;
`RepliesNeverBlock`; and `ImplementsRequestReply`. `CommandTracking` is the inductive
invariant: that a reply finds its channel empty follows only from knowing that a
command is in one place, which place it is in, whether its handler has run there,
and what its caller was told. The refinement maps a caller's place and outcome to the
abstract call state; each step of the two loops handles, or stutters.

`IdleReconnectProofs` proves for any numbers of goroutines, timers, monitors and
folders: `TypeCorrect`, and `ReconnectionIsSound`, the conjunction of `OneAttempt`,
`FlagIsOwned`, `ConnectedHasClients` and `NeverWedged`. They are not inductive. What is
missing is who waits for what (`CommandsOwned`: a queued command of an attempt, or the
one the event loop works for, belongs to an attempt that is waiting for exactly
that, and no other command belongs to it) and what the state says of an attempt
that has gone on (`ConnectedStage`).

`NewMailProofs` proves for any bounds: `TypeCorrect`; `AnnouncesOnce`, whatever the server
does; and `SkipsNothing`, that `NothingSkipped` holds if `Partial` is false. What makes them
inductive: a check that fetches started from the watermark as it is now
(`CheckCurrent`), what was announced lies below it (`AnnouncedBelow`), no watermark is ahead
of the server (`Known`), and the messages above it are hidden all or not at all
(`Together`), so that a fetch that finds any finds all. That the types hold needs a bound
on the checks that wait: a retry takes the place of the check that asked for it
(`QueueBounded`).

`CacheProofs` proves for any keys, values, sizes and limits: `TypeCorrect`, with which
`writtenSinceCleanup` stays within the size that starts a cleanup; and
`ImplementsPartialMap`. The refinement maps to each key the value of a file that is
valid and has not expired. No invariant beyond the types is needed: each step
either writes one file or removes some.

It proves of evictions `EvictsInOrder`, that `EvictsOldest` holds, and `EvictionsSuffice`, that
`EvictionSuffices` holds if there is a limit and no file is more than a quarter larger than its
value (`SmallFiles`): the target is four fifths of the limit, but is compared with the sizes of
the values, and the limit with those of the files. Base64 makes a file a third larger than what
it encodes, so beyond what compression saves the property fails, as the run `CacheLimit` shows.
The invariant is that the files are finitely many and in a strict total order by the time they
were written (`OrderOK`). What is evicted are then the entries whose own size and that of all
newer ones exceed the target (`EvictedAreOldest`), and what is left is the oldest entry left and
the newer ones (`KeptFits`). For this, a part of a set of files must add up to no more than the
set. The sums are folds of the community modules, recursive functions that pick the elements in
an order of their own; that the function exists, that it does not depend on that order and that
it grows with the set (`AddsExist`, `AddsAny`, `AddsMore`) is proved without an induction
theorem, from a least set for which it would be false (`LeastSet`).

`SubscriptionsProofs` proves for any folders and messages: `SparesListedMail`, that
`ListedMailSurvives` is an invariant. The strengthening follows the deletion: as long as no move
has failed, a listed message that is still in the folder is still to be moved (`RestToMove`), so
that none is there when the folder goes (`NothingLeft`), and a deletion that the user
confirms a second time has forgotten its list (`NotListedAgain`). That the folder cannot get a
listed message back needs that whatever is cached or listed has been on the server
(`KeptIsSeen`, `ListedIsSeen`) and that mail is moved to another folder (`Placed`).

`AddressBookProofs` proves for any addresses, labels and dialogs: `ListIsSaved`, that
`ContactsSaved` is an invariant, and `ContactsAreKept`, that `KeepsContacts` holds. Both go
operation by operation: a call that changes the list saves it, also where a dialog writes
through a pointer to a contact that is no longer in it, and that contact is the only one whose text
changes: what a step may change is named by the dialog that adds, saves or deletes it, or by the import. The second rests on the first, for a
restart, and on the variables being functions (`Functional`).

`DeskProofs` proves the properties of four parts of the desk, for any constants. Its
invariant, `DeskInv`, is the conjunction of one for each part; in a step of the desk each part
makes a step of its own or rests.

* `Mailboxes` (`CachedFromItsFolder`, `CommandsActWhereTold`). Neither property is inductive: both
  rest on the worker's notes. What a session has selected is what the note says, or nothing, since
  a failed `SELECT` leaves nothing selected; while a bulk fetch is between its `SELECT` and
  the note, it is that fetch that knows (`FetchNoteRight`, `CommandNoteRight`). A bulk
  fetch on the command connection keeps commands from it (`FallbackAlone`) until both loops have met
  there, which is the exception that the properties name.
* `Sessions` (`WorkersAreOwned`, `WindowIsServed`). A worker that runs can be reached
  (`RunningIsReachable`); between its look-up and its store `selectAccount` finds only what a
  loader left meanwhile (`Between`); the client being made, stored, connected and used is one of the
  account selected and runs, unless somebody else stopped it (`NewServes`, `ConnectedRuns`).
* `Reading` (`BodiesAreOfTheSelected`, `TimersMarkTheirMessage`). A pointer whose slot has kept its item
  points to the message it was made for (`Points`), and stays so until the array is sorted or shortened in
  place; a list that is replaced leaves the item with it. On this rests what is known of a body that was
  fetched (`FetchOK`), of the viewer (`ShownOK`), and of a timer: one that has its handle is for the message
  opened last, in a list of the folder shown (`ArmedOK`), and one that has fired and is not loose asks
  for the folder of its message (`MarkOK`); since a folder holds a UID once (`MailAssumption`), looking it
  up by its UID finds that message.
* `Compose` (`CopiesAreOfDelivered`, `DraftsOutliveFailures`). A goroutine that is sending data has had
  all its recipients accepted, one that is beyond it has delivered (`SendsOK`), and no
  two goroutines are the same press of Send.

`MailWindowProofs` proves its theorems for any accounts, folders and messages, with no condition on
what the user does. `WindowIsTyped` and `SelectionFollowsList` (`SelectionInList`) rest on an
invariant that says of every place that holds pointers (the manager, the
selected message, tasks, closures, the question) that each points into the array, or
holds an item that the array was left behind with (`HoldersOK`, `SelectionOK`), and of the
manager and the selected message that they lie within the part of it that is shown (`SelectionIn`). That the
array keeps its length when it is sorted, and that its entries remain items, also where one is there
twice, is about `Listed` and `Sorted`: a finite set under a strict total order has one element for each
number of elements before it (`RanksDiffer`, `RankTaken`). For this, messages are finitely many, and
differ in their dates; an account, a folder and a UID name one message (`MessagesAssumption`).

`NoMessageTwice` (`NoDuplicates`), `RemovalsArePicked` (`RemovesOnlyPicked`), and `FetchesAreOwned` and
`SuppressionsAreOwned` (`FetchIsOwned`, `SuppressIsOwned`) need three invariants.

* `ListedOnce`: unless a list that an item was taken out of was sorted, the shown part of the array has
  no account and UID twice. What is merged into it replaces what has its account and UID, or is new
  (`MergedApart`), whether or not it has a Message-ID; what is taken out leaves its last
  item beyond the end (`WithoutApart`), where no other sort goes.
* `PickedOK`: unless items have changed their places during a removal, the pointers of every removal,
  and of the question with the message selected for it, lead to items that name only what was named when
  it was given. A step either keeps every pointer's target (`Follow`), takes the array away
  from the pointers, which keep their items (`LeavingStep`), or shakes the array (`ShakingStep`);
  a removal begins with what is picked, and when the last one ends nothing is left to be shaken.
  Any number of removals may be at work at a time.
* `FlagsHeld`: each flag is held by a goroutine, and what ends clears the flag or hands it on, a removal to
  its timer. A timer may clear the mark of another removal from its account, whose new mail then comes in
  early; what is proved is that no mark is left without one. That a removal
  hands the mark of its own account on needs its pointer to lead to an item of that account
  still, or else it is `stuck`. The types say that a removal with an account has started.

`ListFollowsFolder`, that `ListIsOfFolder` is an invariant, needs two more, which are about
every state and not only those in which nothing is at work.

* `OneLoad`: at most one load is beyond its start, and while one is, `freshFetchInProgress` is set.
  So no load can end and leave another one fetching.
* `FollowsOK`: the list is that of the folder selected, or will be. Either a load has still to start;
  or the one that fetches is of that folder; or the closures left for the thread end in one
  that shows its list and no merge that comes after is of another folder, the list itself
  counting as shown already (`EndsWith`). Mail that is merged may be sorted back in from beyond the
  end of the list, so what is said of a list is said of its whole array (`InBox`). A load that starts
  for another folder than the one selected sets `missed`; one that starts for that folder passes from the
  first case to the second, and its answer, appended behind all others, from the second to the third.

The assumptions are those of the modules: bulk callers are callers, the tick is not
one, the capacity is positive; INBOX is a folder, `None` is neither a folder nor an
attempt, bounds and sizes are natural numbers, `None` is no value.

Every safety property that a passing run checks is proved, with the exceptions that it names; two
of those of `Cache` and `NewMail` under the conditions named above. Only model-checked are the liveness
properties (`EveryCallReturns`, `StopReturns`, `StaysResponsive`, `Recovers`,
`RetriesUntilFound`, `CleanupTakesPlace`), which are beyond the prover.

## Not modelled

Of the mail engine: pausing and resuming IDLE, which the user interface never does; recovery of
an IDLE that was silent for an hour; the folder that the IDLE connection has selected; back-off
lengths; the worker's shutdown in `IdleReconnect` (it is in `WorkerCommands`); search criteria
and the conversion of messages between the library's types and the program's, which keep no
state; two caches in one directory tree, as those of messages and of attachments are; how far
the cache's directory may grow over many sessions, of which no text says anything.

Of the window: a change of flags that the user interface writes into a cached list, by reading
it and writing it back (`main_window.go:2962`), which can undo what a fetch cached in between;
several deletions of folders that cross one another; several compose windows, which share
nothing but draft files with the same second in their names; the HTML view, attachments,
autocompletion, export; layout. The search window shows what its last answer was, also when an
older query answers last, and promises nothing else.

The settings window edits accounts through pointers into a slice that it shares with the
configuration. Its form and its selected account can part: choosing an account for its personas
or removing one selects an account without loading it, and Save then writes the form of another
account, or an emptied one, into it (hazard `settings_window.go:355`). No text in the repository
says what Save must leave alone, and nothing in it runs concurrently; what is wrong shows in reading
it. The wizard for a new account and the checks of its servers (`first_run_wizard.go`,
`pkg/validation`) are a sequence of forms and dials. Preferences are getters and setters over the
toolkit's. MIME processing is a translation of texts; notification, logging and tracing are output.

## Plan

1. The folder that a monitor's restart leaves selected, in `IdleReconnect`.
2. The settings window, with the slices it shares.
