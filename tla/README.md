# Moires in TLA+

Moires is a multi-user planning board for Azure DevOps (ADO). A browser edits a
ticket; the server applies the edit to a copy of the ticket in Redis, logs it in
Postgres, queues it in BullMQ, tells the other browsers, and a worker writes it
back to ADO, while polls keep reading ADO to pick up what was changed there.
Four copies of each ticket (ADO, Redis, the memory of a handler or of the
worker, each browser) are kept together by messages and polls only, without
locks; a fifth one, the items of the planning board, is computed from the
browser's. This directory models that machinery, checks it with TLC and proves
the core of it with TLAPS.

## The system

| Component | State it keeps | Operations | What makes it hard | What makes it correct |
|---|---|---|---|---|
| Operation pipeline (`sessions.service`, `operations.handler`) | tickets in a Redis hash, `operations_log` | `operation:submit` | read, await, write of the whole ticket; three stores updated one after the other; operations handled before their socket is identified | a ticket's revision and contents belong together; an edit is logged and queued, or rejected |
| Write-back worker (`writeback.processor`, `writeback.service`) | BullMQ queue, the job's copy of the ticket | process a job, retry, give up | copy held across the PATCH; retries; dead workers; failures inside the catch block | every accepted edit is settled, 'synced' and 'failed' tell the truth |
| ADO client and mapper (`ado.service`, `ado.mapper`) | none | query, epics of a batch, team, capacities, boards and states; patch with a `/rev` test | replies lost after the patch; parents missing from the query or unreadable | the test refuses a write over a revision that was not read; the nearest epic is found |
| Ticket sync (`sync.service`, `redis.service`) | the Redis hash, a 10 s slot | sync, poll, rehydration | replaces the whole hash by what was read earlier; a slot held by a failed sync | Redis ends equal to ADO |
| Browser (`tickets.store`, `operations.client`, `GanttBoard` effects) | its own tickets and their status | submit, four listeners, poll | optimistic edits, echoes, lost messages, answers computed earlier | own edits stay until settled, browsers agree, views converge |
| Session lifecycle (`sessions.service`, `session-access`, lobby) | `planning_sessions`, Redis keys that expire after 24 h | create or join, snapshot, restore, duplicate a ticket | check then create; keys that expire one by one and come back half | one session per project, no empty board without a cause, nobody stuck |
| Presence (`presence.handler`, `realtime.gateway`, presence store) | presences and participants in Redis, peers in each browser | join, leave, update | two sockets of a user, disconnection during the handshake's awaits, process restart | each browser ends with the users really there |
| Authentication (`auth.controller`, `auth.guard`) | encrypted PAT with a TTL, signed cookies | login, logout, refusal | a PAT deleted or expired under a browser that is logged in | the browser comes back through the login |
| Annotations, capacities, member data (`annotations.service`, repositories, stores) | milestones, pins, capacities and roles per project | create, move, delete, set, seed | a place kept by path with a fallback by index; seed and polls against edits; requests that overtake each other | an annotation stays on its sprint and is gone once deleted; a seed never replaces an edit |
| Board model (`ganttModel`, `adapter`) | none (pure) | dataset, tree, ranges, loads, cards, metrics | missing parents, the backlog, hidden rows, filters, one sprint only | each story in one row, loads that add up, bars on the grid |
| Board user interface (`GanttBoard`) | React's state and a copy of it at the last render | load, look, drag, resize, drop, edit | handlers read the last render while updates are queued; effects that send operations while state is set | what a gesture changes is written, what is written is read back, the board follows ADO |

Requests and socket messages are handled by one Node process; every `await` lets
the others run. The worker runs in the same process, one job at a time (BullMQ's
default concurrency). Redis and Postgres survive its restart; sockets, handlers
and requests under way do not. Production runs a single API container that
Docker restarts (`docker-compose.prod.yml`). In the browser everything runs on
one thread; what interleaves is the order of gestures, renders, answers and
messages.

The full list of hazards, with the properties aimed at each one, is in
`PROJECT.json`.

## Modules

| Module | What it is |
|---|---|
| `EditContract` | what the server promises about an edit: the abstract specification of the pipeline |
| `Writeback` | the server side of an operation, with ADO, Redis, the log, the queue, syncs and restarts; it implements `EditContract` |
| `Collab` | the browsers around `Writeback`: its actions with the messages they send, the browsers' listeners, polls and connections |
| `Presence` | who is on the board: sockets, presence handlers, Redis presences, the peers each tab shows |
| `Sessions` | how a browser gets a board: login, creation, joining, restoring, the syncs that fill Redis, keys that expire |
| `SharedData` | an annotation, a capacity and a role shared by two browsers through Postgres |
| `Grid` | the columns of a board: dates, ranges of columns, drags of a bar |
| `AdoRead` | what a session reads from ADO: the query, the epics, the team and its days, the columns of the boards |
| `Plan` | what the board computes from the tickets: items, tree, loads, metrics, cards |
| `Board` | the board of one browser: loading, rendering, gestures, what they send, polls |
| `WritebackProofs`, `ContractProofs`, `SessionsProofs`, `SharedDataProofs`, `GridProofs`, `BoardProofs`, `CollabProofs`, `PresenceProofs` | the theorems |
| `MC*` | instances for TLC |

`Collab` composes `Writeback` with the browsers. `Board` composes `Plan` with
`AdoRead` and `Grid`, and with a server reduced to the order in which it handles,
writes and answers the operations of this board. The others stand alone: they share
with these nothing but the socket or the keys they name.

### Writeback

*Data.* The value written by an operation is the operation itself, so that a
field tells who wrote it; `Original` and `External` stand for the values nobody
here wrote. ADO keeps every revision of a work item: `ado[t]` is the sequence of
them and the revision number is its length. A ticket in Redis, or in the hands
of a handler or the worker, is `[rev, val, status]`. The fields a ticket has
besides (title, dates, HTML, ...) behave alike, and `Field` names only those a
configuration edits. Two fields are tied: a move to a board column makes ADO
change the state, and a new state may make it recompute the column (`Recorded`,
from the comment at `writeback.processor.ts:60-64`). The worker knows of the first
and writes both in its copy; of the second it knows nothing (`Written`), and stores
the column it had read under the revision that has another one.

*Actions.* One per stretch of code between two awaits:

| Code | Actions |
|---|---|
| `applyOperation` and `OperationsHandler.handle` | `OpGetTicket`, `OpTicketMissing`, `OpUnidentified`, `OpUpdateTicket`, `OpCreateLog`, `OpEnqueue`, `OpApplied`, `OpFails` |
| `WritebackProcessor.process`, the try block | `JobTake`, `JobGetTicket`, `JobPatch`, `JobPatchFails`, `JobPatchReplyLost`, `JobUpdateTicket`, `JobLogSynced`, `JobStoreFails` |
| its catch block | `JobRetry`, `JobLogFailed`, `JobRereadTicket`, `JobMarkError`, `JobCatchFails`, `JobEnd` |
| `syncTickets` | `SyncFetch`, `SyncSetTickets` |
| BullMQ, ADO and the process (external) | `Promote`, `StalledCheck`, `Revise`, `AdoEdit`, `AdoMoveOut`, `Crash` |

`opCopy`, `jobCopy` and `fetched` are the local variables that survive an await.
`accepted` is a history variable: the order in which the queue accepted jobs.
BullMQ is modelled from how `src/` uses it: jobs are taken from the head of the
wait list, and a delayed job is promoted to its tail. A job whose worker died stays
active (`abandoned`) until its lock has expired and a stalled check finds it, while
the worker that restarted takes the jobs that wait; then it is put in front of them
once (`MaxStalled`, BullMQ's default) and failed without running any code of the
application after that. Failures and lost replies of Redis and Postgres, and lost
replies of ADO, spend the budget `MaxFaults`: a handler may so report an error for
a job that is queued (`OpFails`). A refusal by ADO or a transient error before the
patch reaches it is always possible. An operation whose socket has no identity yet
finds no ticket (`OpUnidentified`).

Some definitions are preceded by a *faulty variant*: a plausible mistake in the
same code. `PROJECT.json` pairs each checked property with a variant that TLC
must find violating it; they are used by nothing else.

### EditContract

Three variables: what the log says of each edit, the edits ADO has recorded, and
whether anything failed. An edit is accepted once, reaches ADO only while it is
open, and is answered for truthfully and once; when a call failed or the process
restarted the answer may change and 'failed' may be said of an edit that ADO
has, but 'synced' never of one it has not, and nothing reaches ADO before it is
logged. `Writeback` implements it under the mapping `fate <- opLog`,
`landed <-` the operations some revision of ADO has, `trouble <-` a fault or a
crash happened. `KeepsContract` is its specification under that mapping; TLC
checks it in `writeback_faults`, and `ContractProofs` proves it.

### Collab

The module extends `Writeback` and conjoins its actions with what the code sends
at the same point. A browser's ticket is `[val, status]`: no code of `apps/web`
reads `adoRev`. `inbox[c]` and `room[c]` are the two directions of a socket, in
order. `Submit` is `submitOperation`; `OnApplied`, `OnRejected`, `OnSyncStatus`
and `OnUpdated` are the listeners of `operations.client`; `PollFetch`,
`PollSetTickets`, `PollCached` and `PollAnswer` are a poll that found the sync
slot free, or taken, and the effect of `GanttBoard` that applies the answer. A
call `s \in Sync` belongs to the browser `Caller[s]`, and a browser has as many
polls in flight as it has calls. `Disconnect` loses the messages to the browser
and a suffix of what it sent; `Restart` is `Crash` with every socket and request
under way, except what a browser without connection has buffered (`Buffered`). A socket
is `checking` from `Reconnect` until `isSessionMember` has answered (`Identify`): it
is not in the room (`Joined`) and its operations are rejected (`HandleUnidentified`).
`polled` is a history variable.

### Presence

A module of its own: presences share nothing with tickets but the socket. `cur[t]` is
the socket a tab believes in, `up` the sockets the server holds: `Cut` and `Close` are
the two moments at which each side notices that a connection is gone, and in between a
new socket may join. `JoinRoom` starts `handleJoin` when the membership check of
`handleConnection` answers, `Update` and `Close` start `handleUpdate` and
`handleLeave`. An update that comes before is handled all the same: its calls take
their turn on keys of no session (`Stray`). The handlers advance one Redis call at a
time (`JoinSet`, `JoinGoesOn`, `JoinFetch`, `JoinEnds`, `UpdateSet`, `UpdateEnds`,
`LeaveRemove`, `LeaveEnds`). All calls go through the one `ioredis` connection of the
process, which answers in order: `pipe` is that queue, and its order is what keeps a
leave from being overtaken by the update before it. `presence` is the Redis hash,
`peers[t]` the store of a tab. Left out: colour, name and cursor, the set of
participants (nothing reads it, but its two calls take their turn in `pipe`), and the
presences in the REST snapshot, which `presence:sync` replaces.

`blurred` is a history variable: the users one of whose sockets was closed while
another one of theirs had joined, or before its own join ended. In the first
case `handleLeave` removes a user who is still there, in the second `handleJoin`
announces one who is gone; both are repaired only by the user's next message or
the viewer's next connection. `PeersSettle` holds for everybody else.

### Sessions

A browser is on a screen (`login`, `lobby`, `board`, the page of an empty
project) or waits at a step of a request, whose purpose is to create, to join, to
restore after a reload, or to poll. The steps are the awaits whose order matters:
`Iterate` (iterations from Redis or ADO), `Insert` (findFirst was in `Enter`: the
window of two creations), `Look` (the snapshot), `Take` (the slot), `Fetch`,
`SetTickets`/`Store`, `Fill` (iterations, team, states after an initial sync),
`Answer`. Any step may `Fail`; a call without a PAT, or one ADO refuses, goes
through `Refused`, which deletes the PAT and sends the browser to the login.
`MetaExpires`, `TicketsExpire`, `SlotExpires` and `PatExpires` are the keys'
lives; `timed` keeps apart a hash without expiry, which a write-back or a
duplication (`DupCreate`, `DupUpdate`) recreates after the real one expired.
`req[b].calm` and `overlap` are history variables, for the two things that do
explain an empty answer or a second session.

### SharedData

One annotation, one capacity and one role. `requests` are the writes under way:
they may overtake each other or be lost, and a page that loads again forgets its
own. The browser places the annotation by index and the server stores the path it
finds there in *its* list (`ReadPath`, then `CreateNote` or `UpdateNote`), read
one await before; `IndexOf` is the way back. A row keeps two history fields: the
sprint its author saw, and whether the two lists were the same. Polls
(`PollRead`, `PollAnswer`) bring capacities only; annotations and roles of the
others come with the next load.

### Grid, AdoRead, Plan

Operators only. Days are integers, a sprint is an index; `NITER` is the backlog's
column, as in the code. `AdoRead` takes what ADO answers as constants (teams,
days off, boards, states, categories) and computes what the session keeps of it;
`resolveEpics` is a recursive function over the levels climbed. `Plan` follows
`adapter.ts` and `ganttModel.ts` function by function, on `items`, a function
from ids to records, and `view`, what the user chose to see. Everything of an
item that no condition reads (title, tags, colours, HTML, custom fields) is left
out, and so are pixels: a layout is the set of the cards of a cell.

### Board

`items` is React's state with the updates queued by effects, `rendered` the copy
(`stateRef`) every handler reads, refreshed by a render. A gesture computes from
`rendered` and is rendered at once, over whatever was queued; a change of the
ticket store queues a reconciliation (`Store`), which `Render` shows. `Poll` brings
what ADO holds for the tickets that are synced, `Outside` is an edit in ADO. A page
whose render throws is `blank`.

An operation goes from `sent` to `jobs` and `echoes` when it is handled (`Handle`), or
to `answers` when it is rejected (`Reject`); the worker writes the oldest job
(`WriteJob`) or gives it up (`GiveUp`), with an answer: a status, or the whole ticket
Redis holds (`cache`). `Echo` and `Answer` are the browser's listeners; the two queues
are apart because the worker may answer before the handler emits
`operation:applied`. What each of these steps is made of, and one socket's order, are
left to `Writeback` and `Collab`.

A gesture whose operations are emitted inside the update of the state changes the
ticket store before its items are set, hence the reconciliation in `Echoed`; a
drop emits them before and is not reconciled at once. `resized` is a history
variable: the range last given to a bar, unless one of its operations was lost.

## What is checked

| Run | Shows |
|---|---|
| `writeback_faults` | Types; Redis never pairs a revision with the contents of another one, but for a column ADO recomputed (`CacheCoherent`), the fact the `/rev` test rests on; the log says 'synced' only of what ADO has (`SyncedLogLands`); the inductive invariant of the proofs (`IInv`); every step keeps the contract (`KeepsContract`) |
| `writeback_restart` | An accepted edit whose log entry is pending always has a job (`PendingHasJob`); 'failed' edits left no trace in ADO (`FailedLogNeverLands`); a retry never replays what landed (`NoResurrection`); an older edit overwrites a younger one of the field only if its own job was retried or lost its worker (`FifoUnlessRerun`); every accepted edit is settled (`JobsSettle`); Redis ends equal to ADO (`CacheConverges`) |
| `collab_edits` | An unsettled edit stays on its author's screen (`EditStaysUntilSettled`); messages alone bring browsers together (`EchoesAgree`) |
| `collab_lost` | An edit stays visible across failures, a lost connection and a restart; others see as saved only what is (`SavedForOthersIsSaved`) |
| `collab_converges` | What a polling browser shows as synced ends equal to ADO (`SyncedViewsConverge`) |
| `presence_peers` | Types; once all is quiet, every tab shows exactly the other users who have the board open (`PeersSettle`), with lost connections, ghosts a restart left in Redis, and updates that cross joins and leaves |
| `sessions` | A second session of a project comes only from two creations that overlapped (`OneSession`); a board is empty only for a cause: an empty query or another's slot (`EmptyIsExplained`); a browser whose user goes on always lands on a board or on the page of an empty project (`EveryoneLands`); a session somebody keeps open ends with the iterations and exactly ADO's tickets in Redis (`CacheHeals`) |
| `shared` | Annotations stay on the sprint they were put on when ADO's sprints change (`NotesFollowTheirSprint`), and are gone once deleted (`GoneStaysGone`); what a user entered survives the seed (`EditedStays`); polls bring every board to the stored capacity (`CapacitiesAgree`) |
| `board` | The nearest epic is found, whatever the query left out (`EpicsAreNearest`); each story is in one row (`StoriesOnce`) and hidden with it (`HiddenWithTheirRow`); the load band is the sum of the bars under every filter (`BandIsTheBars`); the waterline is where the effort passes the capacity (`WaterlineSplits`); bars keep to the grid (`BarsStayOnGrid`) and the dates written for one are read back as its range (`DropsAreReadBack`); gestures write what they change (`EditsAreWritten`); however renders, polls, echoes, answers and edits in ADO cross them, the page ends up rendering what the store holds, and what ADO holds of the tickets that are synced (`BoardFollows`) |
| `collab_outside` | *violated:* `OutsideEditsArrive`, `operation:applied` comes after `ticket:sync-status` and freezes the ticket as pending |
| `board_click` | *violated:* `ClicksOnlySelect`, a click on the bar of an epic without dates replans it |
| `board_unassigned` | *violated:* `UnassignedHasARow`, a ticket that becomes unassigned on a board without that row blanks the page |

The violated ones state what a comment or a plan of the repository says; the
findings in `PROJECT.json` quote the lines.

### Bounds

*Pipeline.* One ticket is enough for the properties on a ticket: tickets share only
the queue, the sync's replacement of the whole hash (which treats each one alike) and
the worker. Two operations are enough for lost updates, overtaking and a stale
revision, all of which need a pair; they edit one field (`writeback_restart`), or the
state and the column, each of which may change the other (`writeback_faults`), or the
two dates of a Feature (`collab_edits`). Two attempts show a first failure, a retry
and a last failure; the code's five add repetitions of the middle one. One sync call
suffices for its interleavings with handlers and worker. Budgets of one edit in ADO,
one fault, one restart and one lost connection keep each run within minutes; deadlock
is checked, as the polls keep the system running. `collab_edits` and `collab_lost`
give one attempt per job, `collab_lost` and `collab_converges` have one operation: the
product of two browsers and the pipeline is large. In `collab_lost` a job runs again
after a restart; `collab_converges` retries one that failed. A retry changes nothing
in what browsers receive.

*Presence.* Two users with a tab each, two sockets for the first and one for the
second, so that one tab comes back while the other looks on. At most two handlers
run together (`MaxCalls`), which is what a race takes, and one event is a restart
or a change of visibility (`MaxEvents`). The sockets run out, so `CHECK_DEADLOCK`
is off there. The sockets of one tab are interchangeable (`SocketSymmetry`).

*Sessions.* Two browsers of two users, two sessions (one more than there should
be), two work items of which one is the copy a duplication creates, and two of
the events that are not part of going on: an expiry, a failure, a reload, a
logout, a change in ADO. Pairs of those are what empties a cache in one place
only. The slot's expiry is free, as it happens every 10 s.

*Shared data.* Two browsers, lists of two and three sprints that ADO may return in
turn (a sprint added before the others moves their indexes), two requests under
way, two edits, two events. The edits of a behaviour are all of the annotation or
all of the data: the two share no state. One poll is under way at a time.

*Board.* Three sprints, one of them over and one in the future, which puts every
boundary of an index next to another; six work items, one of each type and a second
epic, and all 144 ways of hanging them together and dating them that the conditions
tell apart (a parent that is missing, unreadable, not an epic, two levels up; dates in
order, reversed, outside of the grid, half). Those are looked at through two controls
of the view. Two more are edited by two gestures: an epic with dates, in a column of
another team's board (`MCEpicEdited`); and a feature without dates with its story
(`MCFeatureEdited`). The violated runs edit those two under an epic that has neither
dates nor a sprint (`MCTreeEdited`). On these the user chooses what to see before the
first gesture that edits (`Look`), which changes nothing of what a gesture does: it
depends on the view when it is made. One mishap (`MaxMishaps`) is an operation
rejected or given up, or an edit in ADO of a work item of `Touched`, to the sprint
under way, to no sprint, or to nobody (`Outside`): those change the row, the column
and the load of an item. A gesture begins with at most one operation or message under
way (`MaxUnderWay`); one gesture sends up to three, and so does the next on top of a
late echo or answer. `MaxLevels` is 2 instead of 10: the chains are two long, so both
the limit and the end of the chain are met. The members' capacity is a day per sprint,
so that the waterline falls on a row, between two, and exactly at one; the epics have
one priority, so the rows are ordered by their first sprint and name as well. The
project is loaded once and gestures run out: `CHECK_DEADLOCK` is off. A last
assumption of `MCBoard` (`MCAssumption`) makes TLC evaluate what the theorem on dates
supposes of the sprints.

### Fairness

*Pipeline and browsers.* Weak fairness of each handler, of the worker, of the
promotion of each delayed job, of the stalled check of each abandoned one and of
each socket's delivery, reconnection and membership check: the
event loop, BullMQ and Socket.IO run what they started, and no guard of theirs
waits for a user. Weak fairness of a sync that runs alone (`Writeback`): polls
come every 5 s. In `Collab` polls answered from the cache come in between, so
that a poll finding the slot free is only enabled again and again: strong
fairness, justified by the slot's expiry after 10 s. Nothing is assumed of users,
of ADO edits, of failures or of restarts.

*Sessions.* Weak fairness of each request, of the polls of an open board and of
the slot's expiry. `EveryoneLands` is about a user who goes on, so logging in and
entering the project are fair as well; leaving, reloading and failing are not.

*SharedData.* Weak fairness of requests and of the seed, strong fairness of each
browser's poll: the model lets one poll run at a time, the code does not, so a
poll that waits here runs there.

*Board.* Weak fairness of one action, the disjunction of the render React owes, of
what the server does and sends (`Serve`: `JobsSettle` of `Writeback` says that every
operation is written or given up) and of the poll's interval. Each of the first two
can only be taken so many times between two gestures, and a poll that changes nothing
is a stutter, so none of them starves another. Nothing of gestures or edits in ADO.

## What is proved

All theorems hold for any values of the constants allowed by the named
assumptions: any number of operations, tickets, sprints, users and browsers, any
budget of failures, edits and restarts.

*The pipeline* (`WritebackProofs`, from `OpAssumption` and `BoundAssumption`):
`TypeCorrect`, `Invariant`, `CacheIsCoherent`, `SyncedIsRecorded`. `CacheCoherent` is
not inductive. A handler, the worker or a sync may store a copy it took long before,
so the copies have to be coherent as well (`CopiesCoherent`). When the handler puts
operation o in a field, the field differs from the history legitimately only if o is
not in ADO up to that revision: true because the worker writes only operations the
queue has accepted, and a handler between its read and its write has not queued its
own (`JobsAccepted`, `UnqueuedUnrecorded`). The column ADO recomputes when a state is
written is exempted (`Recomputed`), as the worker never reads it. `PatchLands` carries
the fact that ADO has the operation from the patch to the log entry. `IInv` is the
conjunction. The proof has a lemma per step of the code; those that touch ADO rest on
`Coherent`'s stability: appending a revision changes none that a copy refers to.

*The contract and the queue* (`ContractProofs`): `ContractIsKept`, that every step of `Writeback`
maps to a step of `EditContract` or to a stutter, and on the way the invariants
the runs check: `PendingHaveJobs`, `FailuresLeaveNoTrace`, `NothingComesBack`. It
rests on one more inductive invariant (`LogInvariant`): the log follows the
handler (`LogFollows`); the worker leaves a job's last step only once the log has
an answer (`EndsAnswered`); jobs that were stalled are bounded by the restarts
(`StalledByCrashes`); and, as long as nothing but ADO failed, each operation has
one job, in one place of the queue, and that job is pending and not in ADO until
its patch (`JobsOnce`, `JobsOpen`). The last two are conditional because the code
does lose them: a call that fails after the job was queued lets a handler report
an error for a job that runs. The steps that do not touch the log are dealt with
in bulk: which variables each changes is shown once (`OpLogEffect`,
`JobLogEffect`, `Stretches`). `FieldsAreFifo` is about the order in which ADO sees
the edits of a field. What makes it inductive (`QueueInv`) is to say where the
younger operation is meanwhile: as long as the older one has a job that was neither
retried nor abandoned, the younger is not in ADO and its job waits behind
(`InOrder`). A stalled check puts its job in front of the others and promotion puts
one behind them, which changes the order of other pairs only; a job is behind itself
nowhere because an operation is accepted once (`AcceptedOnce`).

*Sessions* (`SessionsProofs`): `SessionsTypes`, `SessionsOne` and
`SessionsExplained`. The types carry the content of the first two: only a request
of the lobby inserts (`CreatorsOK`), and no key, no duplication and no browser
refers to a session that was not inserted (`KeysOK`, `PlacesOK`). For the third,
`ReadInv` follows what a calm request has read: from the moment it holds tickets,
the hash it stores and answers from is not empty.

*Shared data* (`SharedDataProofs`): `SharedTypes`, `EnteredValuesStay`,
`DeletedStaysDeleted`, `AnnotationsFollow`. That a deleted annotation does not come
back needs that no creation is under way once it existed, in turn that nothing of
it is on a board or under way before (`NoteInv`); `DoneKeeps` says what removing a
request from the sequence keeps. That an annotation follows its sprint rests on
what is stored carrying the path its author meant (`PathsMeant`), for the rows stored from
the list the author saw.

*The browsers* (`CollabProofs`): `CollabTypes`, `OwnEditsStay`,
`OthersSeeSavedEdits`, from `CollabInv` (`CollabInvariant`), and
`EchoesBringTogether`, from `EchoesComing`. Three facts carry the first invariant.
A message says nothing untrue at any time it may be read: one that takes a ticket
out of `pending` is sent because an operation was settled, and settled operations
stay settled (`MessagesTruthful`). As long as none of its operations is settled the
author's ticket is `pending` (`PendingUntilSettled`), which is what keeps polls away
from it, in both places where the code tests it. And a copy of a ticket that says
`synced` of its only edit is a copy ADO vouches for, in Redis, in a sync and in a
poll's answer alike (`CopiesVouched`). The pipeline's invariants are used as they
are: each step of `Collab` is a step of `Writeback` or leaves its variables alone.
The second invariant is about cells, a field or the status of a ticket: a cell of a
browser will show what the last message under way that touches it gives, else what
it shows now (`WillShow`), and two browsers will show the same in each, unless one
of their users has changed it and the server has not sent that edit yet
(`Unechoed`). A broadcast decides the cells it touches everywhere at once
(`AfterSent`), its arrival changes nothing of what will be shown (`AfterArrived`),
and the echo of an operation touches exactly what its author had changed.

*Presence* (`PresenceProofs`, from `PresenceAssumption`): `PresenceTypes`,
`PresenceInvariant`, `PeersAreRight`. That all is well when nothing is under way
follows from the order of the calls in `pipe` while things are. Unless the user is
`blurred`, each call of a leave is ahead of the same step of that user's next join
(`JoinsBehindLeaves`), and the last update of a socket is ahead of its leave
(`LeavesBehindUpdates`); so a user in the room has a presence in Redis or is about
to store one (`PresenceKept`), and what `fetchSockets` returned is wrong only about
users whose calls are still behind the newcomer's (`FetchesInOrder`). `TabsInStep`
says what a tab shows at any moment. The proof describes each step by what it does
to the queue, the calls answered and the calls sent (`Pipeline`), and needs the
actions themselves only to show that they are such steps.

*The grid* (`GridProofs`, from `GridAssumption`): whatever the dates, the range
they make has its ends on the grid and in order (`DatesStayOnGrid`); a drag by
either end or whole stays on it and keeps its length when whole
(`DragsStayOnGrid`); the dates written for a range are read back as that range if
sprints follow one another and share no day (`DatesKeepTheRange`; TLC shows that
they need to).

*The board* (`BoardProofs`). Two theorems need no induction, as the tree is computed
from the items at each render: it puts each story in one row (`TreeHoldsStoriesOnce`)
and the rows hidden hide exactly their stories (`HiddenAreUnderHiddenRows`), for any
items and parents; the three places where the code decides where a story hangs agree.
The others rest on `BoardInv`, which is `BoardTypeOK` made inductive: the items, those
rendered and the tickets are those of one set of work items, at the same levels, and a
drag, the operations and the messages under way refer to them (`ServerOK`). The range
a drag starts from is on the grid for a feature; that of an epic may begin or end in
the backlog's column (`Wide`, `DragOK`), which is why `ItemType` asks a range of the
grid of the other levels only. From it:

* `BoardTyped`, `BarsOnGrid`: types, and every bar on the grid.
* `EpicsNearest`: as long as nobody acted, the tickets are what a sync reads
  (`OpenedInv`), and the climb of the sync, a recursive function over the levels,
  finds the end of a chain of readable parents (`ClimbFinds`) and misses none. The
  function is shown to exist (`RepeatsExists`) and to do what its equation says.
* `DropsReadBack`, for sprints in order (`Ordered`): as long as a bar's operations
  are sent or queued and not written, the last one of each date has the date of the
  range dropped (`DatesKept`, `Due`), then ADO has it, and `DatesKeepTheRange` reads it
  back. A bar one of whose operations was lost is not expected any more.
* `GesturesAreWritten`: what a gesture changes on the board is what the store's
  ticket, reconciled, gives back. A state is read from the column first, and
  `emitOp` writes the column only at a level whose board has columns: a work item that
  sits in a column of another team's board, at a level for which the session has
  none, shows that column again after a drop, until the next poll. `EditsAreWritten`
  leaves those work items out and no others; `NamesAssumption` says that no column
  and no state is without a name, and `NamesInv` that the session's list keeps it.
* `BandIsBars`: the band of a column is what the bars of the tree show there, less
  the hidden stories. The sums are folds of the community modules, of which the
  library proves nothing: that the recursive function they are defined by exists on
  finite sets (`AddsExists`), that it does not matter which element is taken first
  (`TotalLast`), and that sums add up over disjoint sets (`TotalUnion`,
  `TotalNested`) are shown here.
* `WaterlineSplitsRows`: counting the nodes before each numbers those of any order
  of the rows (`OrderNumbers`, `RowsAreOrdered`), so the rows are the nodes of the
  tree, each once (`RowsAreNodes`). The efforts added up row by row are then those
  of the rows above (`CumulatedIs`), which only grow, from zero to the effort of the
  release (`AboveIs`), and pass the capacity at one row (`CrossesOnce`).

They assume of the constants (`AdoReadAssumption`, `DaysAssumption`,
`PlanAssumption`, `BoardAssumption`, `NamesAssumption`) that there are finitely many work items and
members, that a day off is a range of days, that a parent is a work item or none,
that an effort is a natural number, and that rank, which stands for the name and
then the place in the list, tells any two nodes apart, as JavaScript's stable sort
does.

*Only model-checked.* Everything about liveness is out of the prover's reach:
`JobsSettle`, `CacheConverges`, `SyncedViewsConverge`, `EveryoneLands`,
`CacheHeals`, `CapacitiesAgree`, `BoardFollows`. Every invariant and action property
of the runs has a theorem.

## Met on the way

What the code does that no document contradicts, or that no run of its own is
kept for. Each was seen in a counterexample of a property tried on the way, or in
a guard a property needed to hold.

*Pipeline and browsers.*
* A retry puts a job behind those queued after it, so a retried write overwrites
  a younger one of the same field; so does the job of a worker that died, found by
  the stalled check after the new worker took the younger ones. `FifoUnlessRerun` is
  what is left.
* The write of a state makes ADO recompute the board column, of which the worker
  tells nobody: Redis has the old column under the new revision until the next sync,
  and a `/rev` test passes on it.
* After a reply lost between the patch and the log, 'failed' is said of a write that
  landed (its retry conflicts with itself), and the replay may undo a younger one:
  `FailedLogNeverLands` and `NoResurrection` are stated without failures.
* Operations a browser buffered while it was away are sent as soon as its new socket
  is up, and rejected if the membership check has not answered yet.
* A handler can put an old revision back in Redis between the worker's patch and
  its store; our own next write then fails the `/rev` test and is refused for
  good.
* The ticket broadcast after a failed write is whatever Redis holds, usually the
  refused value; polls skip tickets in error, so it stays on the screen until a
  reload. An operation the handler rejects after it stored the value comes back
  with the next poll.
* Two handlers that read one ticket together lose a field in Redis (a Feature's
  drag sends two operations on one ticket); the worker writes ADO field by field,
  so the next sync repairs it.
* A browser that reconnects gets the presences and no tickets; a hidden tab that
  reconnects is shown as active.

*Sessions.*
* The snapshot is synced again only when its tickets are missing. Iterations, team
  and states are written once and expire 24 h later whatever the syncs do: a board
  may open without sprints. A hash recreated by a late write-back holds one
  ticket, so the board opens with it alone until the first poll, and tickets that
  enter the query later are never shown before a reload.
* A refusal by ADO in one tab deletes the PAT that another tab's fresh login has
  just stored; a later login with a shorter life shortens the PAT of an older one.
* A browser whose polls are all served by another's slot never meets the refusal
  of its own PAT.

*Shared data.*
* A board opened on an older list of sprints stores the path its index has in the
  server's list, and no path once the list expired: `NotesFollowTheirSprint`
  speaks of rows stored from the list their author saw.
* A role whose request is lost is shown until the page is loaded again; a day off
  of the team and of a member counts twice (`GetCapacityDays`).

*Board.*
* The rows are drawn from `rendered`: a gesture made before a queued
  reconciliation is rendered overwrites it, until the store changes again.
* A card dragged on the release board is written the assignee remembered when it
  was taken; if that person has no row the drop throws: nothing is written, and
  the card is drawn as dragged until the next drag.
* Dates, dragged ranges, parent and level of an item are never reconciled. A
  change of sprint in the panel moves the bar of a dated epic or feature without
  writing its dates; a drop in the backlog is not written at all.
* A feature with only a target date is drawn from today to it; an epic's bar
  leaves loose stories where they are.
* When rows fill the capacity exactly and the next passes it, no waterline is
  drawn.
* Without any sprint, or with sprints that share a day, dates and ranges do not
  agree (`GridAssumption`, `Ordered`).

## Not modelled

* The validation of a socket payload (`isValidOperation`) and authorisation:
  operations are valid and browsers are members. The PAT appears in `Sessions`;
  in `Writeback` a missing one is a transient error.
* `WRITEBACK_ENABLED=false`, the switch of test environments.
* The text of log entries, `serverTimestamp`, toasts, colours, labels, pixel
  layout, translations, themes, the export.
* JWT signing, encryption of the PAT, the login rate limit: no state the others
  read.
* The "my board" view and the detail panels: they show the same items; an edit
  of theirs is `SetField`.
* Sorting rows by name, effort or custom field, and grouping loads by role: orders
  and partitions of what `Plan` computes. The mock data of a board without session.
* Release bars and feature flags: their requests run the code of milestones.
* The 24 h expiry of the presence hash, which needs a clock.
* `Board` has one browser, and each of the server's steps there is atomic: the races
  between handlers, cache and worker are `Collab`'s, over tickets instead of items.
* The other fields an operation may carry with a rule of ADO behind them (a change of
  parent or of type, say): ADO is taken to change what is written, and the state and
  the column with each other.

## What is left

* A third tab of one user in `Presence`, and two work items in `Collab`.
* `Board` with two browsers on one `Writeback`.
