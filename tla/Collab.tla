------------------------------- MODULE Collab -------------------------------
(***************************************************************************)
(* The browsers of a session around the pipeline of Writeback: each one    *)
(* holds its own copy of the tickets, changes it at once when its user     *)
(* edits, and then repairs it from what the server sends over the socket   *)
(* and from the answers to its polls.                                      *)
(*                                                                         *)
(* A ticket in a browser is its fields and its sync status: nothing in     *)
(* apps/web reads adoRev.  Socket.IO keeps the order of the messages of    *)
(* one connection; a connection that drops loses what was under way.  The  *)
(* actions of Writeback are reused as they are: an action here adds what   *)
(* the same code sends, and the browsers' own steps.                       *)
(***************************************************************************)
EXTENDS Writeback, FiniteSets

CONSTANTS
  Client,   \* browsers in the session
  Author,   \* the browser that submits an operation
  Caller,   \* the browser that issues a sync call
  MaxDrops  \* bound: connections that drop

ASSUME CollabAssumption ==
  /\ Author \in [Op -> Client]
  /\ Caller \in [Sync -> Client]
  /\ MaxDrops \in Nat

View == [val : [Field -> Value], status : Status]

\* What the server sends over a socket: "status" is ticket:sync-status 'synced'.
Message ==
  [kind : {"applied", "rejected", "status"}, op : Op] \cup
  [kind : {"updated"}, ticket : Ticket, view : View]

VARIABLES
  store,      \* tickets.store of each browser
  link,       \* its socket is connected
  checking,   \* browsers whose handleConnection waits for isSessionMember
  inbox,      \* operations it emitted and the server has not handled
  room,       \* messages under way to it
  reply,      \* answer under way to a sync call
  submitted,  \* operations their author has submitted
  orphans,    \* operations that came over a socket that is gone
  polled,     \* history: browsers a poll answered while nothing was lost
  drops

clientVars == <<store, link, checking, inbox, room, reply, submitted, orphans,
                polled, drops>>
collabVars == <<vars, clientVars>>

ViewOf(entry) == [val |-> entry.val, status |-> entry.status]

SetStatus(c, t, status) == store' = [store EXCEPT ![c][t].status = status]

-----------------------------------------------------------------------------
(* The browser: submitOperation and tickets.store.applyOperation           *)

\* Faulty variant: the edit keeps the status the ticket had.
ApplyOperationKeepsStatus(c, o) ==
  store' = [store EXCEPT ![c][OpTicket[o]].val = Put(@, {OpField[o]}, o)]

ApplyOperation(c, o) ==
  store' = [store EXCEPT ![c][OpTicket[o]] =
              [val    |-> Put(@.val, {OpField[o]}, o),
               status |-> "pending"]]

\* Optimistic: the browser changes its ticket, then emits.  Socket.IO buffers
\* what is emitted while disconnected.
Submit(o) ==
  /\ o \notin submitted
  /\ submitted' = submitted \cup {o}
  /\ ApplyOperation(Author[o], o)
  /\ inbox' = [inbox EXCEPT ![Author[o]] = Append(@, o)]
  /\ UNCHANGED <<vars, link, checking, room, reply, orphans, polled, drops>>

-----------------------------------------------------------------------------
(* The server: the handlers and the worker, with what they send            *)

\* Faulty variant: messages go to lost sockets too.
BroadcastToAll(m) == room' = [c \in Client |-> Append(room[c], m)]

\* The socket of the browser is in the session's room.
Joined(c) == link[c] /\ c \notin checking

\* To every socket of the room, the author's included.
Broadcast(m) ==
  room' = [c \in Client |-> IF Joined(c) THEN Append(room[c], m) ELSE room[c]]

\* To the socket the operation came from, if it still exists.
Reject(o) ==
  room' = IF link[Author[o]] /\ o \notin orphans
          THEN [room EXCEPT ![Author[o]] =
                  Append(@, [kind |-> "rejected", op |-> o])]
          ELSE room

\* The next operation of its author's socket reaches its handler.
Receive(o) ==
  LET c == Author[o] IN
  /\ inbox[c] # <<>> /\ Head(inbox[c]) = o
  /\ link[c] \/ o \in orphans
  /\ inbox' = [inbox EXCEPT ![c] = Tail(@)]

\* client.data of that socket is set.
Identified(o) == Author[o] \notin checking

ServerStays ==
  UNCHANGED <<store, link, checking, reply, submitted, orphans, polled, drops>>

HandleOperation(o) ==
  /\ Identified(o) /\ Receive(o) /\ OpGetTicket(o)
  /\ UNCHANGED room /\ ServerStays

HandleMissing(o) ==
  /\ Identified(o) /\ Receive(o) /\ OpTicketMissing(o)
  /\ Reject(o) /\ ServerStays

HandleUnidentified(o) ==
  /\ ~Identified(o) /\ Receive(o) /\ OpUnidentified(o)
  /\ Reject(o) /\ ServerStays

HandleFails(o) ==
  /\ IF opPc[o] = "new" THEN Receive(o) ELSE UNCHANGED inbox
  /\ OpFails(o)
  /\ Reject(o) /\ ServerStays

HandleGoesOn(o) ==
  /\ OpUpdateTicket(o) \/ OpCreateLog(o) \/ OpEnqueue(o)
  /\ UNCHANGED <<inbox, room>> /\ ServerStays

\* Faulty variant: the author's socket is left out of the echo.
HandleAppliedToOthers(o) ==
  /\ OpApplied(o)
  /\ room' = [c \in Client |->
       IF Joined(c) /\ c # Author[o]
       THEN Append(room[c], [kind |-> "applied", op |-> o]) ELSE room[c]]
  /\ UNCHANGED inbox /\ ServerStays

HandleApplied(o) ==
  /\ OpApplied(o)
  /\ Broadcast([kind |-> "applied", op |-> o])
  /\ UNCHANGED inbox /\ ServerStays

HandlerStep(o) ==
  \/ HandleOperation(o) \/ HandleMissing(o) \/ HandleUnidentified(o)
  \/ HandleFails(o) \/ HandleGoesOn(o) \/ HandleApplied(o)

ProcessSynced ==
  /\ JobLogSynced
  /\ Broadcast([kind |-> "status", op |-> jobOp])
  /\ UNCHANGED inbox /\ ServerStays

ProcessError ==
  /\ JobMarkError
  /\ Broadcast([kind |-> "updated", ticket |-> OpTicket[jobOp],
                view |-> ViewOf(jobCopy)])
  /\ UNCHANGED inbox /\ ServerStays

ProcessGoesOn ==
  /\ \/ JobTake \/ JobGetTicket \/ JobPatch \/ JobPatchFails
     \/ JobPatchReplyLost \/ JobUpdateTicket \/ JobStoreFails \/ JobRetry
     \/ JobLogFailed \/ JobRereadTicket \/ JobCatchFails \/ JobEnd
  /\ UNCHANGED <<inbox, room>> /\ ServerStays

ProcessStep == ProcessSynced \/ ProcessError \/ ProcessGoesOn

PromoteJob(o) == Promote(o) /\ UNCHANGED clientVars
RescueJob(o)  == StalledCheck(o) /\ UNCHANGED clientVars

-----------------------------------------------------------------------------
(* The polls: SyncService.syncIncremental and the poll effect of GanttBoard *)

PollStays ==
  UNCHANGED <<store, link, checking, inbox, room, submitted, orphans, polled, drops>>

\* The call takes the session's sync slot and reads ADO.
PollFetch(s) ==
  /\ reply[s] = None
  /\ SyncFetch(s)
  /\ UNCHANGED reply /\ PollStays

PollSetTickets(s) ==
  /\ SyncSetTickets(s)
  /\ reply' = [reply EXCEPT ![s] = fetched[s]]
  /\ PollStays

\* The slot is taken: the answer is the Redis copy.
PollCached(s) ==
  /\ reply[s] = None /\ syncPc[s] = "idle"
  /\ reply' = [reply EXCEPT ![s] = cache]
  /\ UNCHANGED vars /\ PollStays

\* The history of the polls is kept as long as nothing was lost.
RecordPoll(c) ==
  polled' = IF drops = 0 /\ crashes = 0 THEN polled \cup {c} ELSE polled

\* Faulty variant: the answer replaces every ticket.
PollAnswerAll(s) ==
  /\ reply[s] # None
  /\ store' = [store EXCEPT ![Caller[s]] = [t \in Ticket |->
       IF reply[s][t] # None THEN ViewOf(reply[s][t]) ELSE @[t]]]
  /\ reply' = [reply EXCEPT ![s] = None]
  /\ RecordPoll(Caller[s])
  /\ UNCHANGED <<vars, link, checking, inbox, room, submitted, orphans, drops>>

\* Faulty variant: the answer refreshes the status and forgets the fields.
PollAnswerStatus(s) ==
  /\ reply[s] # None
  /\ store' = [store EXCEPT ![Caller[s]] = [t \in Ticket |->
       IF reply[s][t] # None /\ @[t].status = "synced"
       THEN [@[t] EXCEPT !.status = reply[s][t].status] ELSE @[t]]]
  /\ reply' = [reply EXCEPT ![s] = None]
  /\ RecordPoll(Caller[s])
  /\ UNCHANGED <<vars, link, checking, inbox, room, submitted, orphans, drops>>

\* The answer replaces the tickets that are 'synced' at that time.
PollAnswer(s) ==
  LET c == Caller[s] fresh == reply[s] IN
  /\ fresh # None
  /\ store' = [store EXCEPT ![c] = [t \in Ticket |->
       IF fresh[t] # None /\ store[c][t].status = "synced"
       THEN ViewOf(fresh[t]) ELSE store[c][t]]]
  /\ reply' = [reply EXCEPT ![s] = None]
  /\ RecordPoll(Caller[s])
  /\ UNCHANGED <<vars, link, checking, inbox, room, submitted, orphans, drops>>

-----------------------------------------------------------------------------
(* The browser: the socket listeners of operations.client                  *)

Listen(c, kind) ==
  /\ room[c] # <<>> /\ Head(room[c]).kind = kind
  /\ room' = [room EXCEPT ![c] = Tail(@)]
  /\ UNCHANGED <<vars, link, checking, inbox, reply, submitted, orphans, polled, drops>>

OnApplied(c) ==
  Listen(c, "applied") /\ ApplyOperation(c, Head(room[c]).op)

\* The refused value stays; 'synced' lets the next poll replace it.
OnRejected(c) ==
  Listen(c, "rejected") /\ SetStatus(c, OpTicket[Head(room[c]).op], "synced")

OnSyncStatus(c) ==
  Listen(c, "status") /\ SetStatus(c, OpTicket[Head(room[c]).op], "synced")

OnUpdated(c) ==
  LET m == Head(room[c]) IN
  /\ Listen(c, "updated")
  /\ store' = [store EXCEPT ![c][m.ticket] = m.view]

ListenStep(c) == OnApplied(c) \/ OnRejected(c) \/ OnSyncStatus(c) \/ OnUpdated(c)

-----------------------------------------------------------------------------
(* The network *)

\* A connection drops: the messages to the browser are lost, and so are the last
\* operations it emitted.  A handleConnection that still waits goes on.
Disconnect(c) ==
  /\ link[c] /\ drops < MaxDrops
  /\ drops' = drops + 1
  /\ link' = [link EXCEPT ![c] = FALSE]
  /\ room' = [room EXCEPT ![c] = <<>>]
  /\ \E n \in 0 .. Len(inbox[c]) :
       inbox' = [inbox EXCEPT ![c] = SubSeq(@, 1, n)]
  /\ orphans' = orphans \cup {o \in submitted : Author[o] = c}
  /\ polled' = {}
  /\ UNCHANGED <<vars, store, checking, reply, submitted>>

\* A new socket; what the browser emitted meanwhile goes out at once.  (What the old
\* connection still delivered is handled before the new one is up.)
Reconnect(c) ==
  /\ ~link[c]
  /\ \A i \in 1 .. Len(inbox[c]) : inbox[c][i] \notin orphans
  /\ link' = [link EXCEPT ![c] = TRUE]
  /\ checking' = checking \cup {c}
  /\ UNCHANGED <<vars, store, inbox, room, reply, submitted, orphans, polled, drops>>

\* isSessionMember answered: handleConnection sets client.data, joins the room and
\* sends the presences, nothing else.
Identify(c) ==
  /\ c \in checking
  /\ checking' = checking \ {c}
  /\ UNCHANGED <<vars, store, link, inbox, room, reply, submitted, orphans, polled,
                 drops>>

\* What a browser without a connection has emitted since it lost it: it follows
\* what the lost socket still delivers.
Buffered(c) ==
  LET delivering == {i \in 1 .. Len(inbox[c]) : inbox[c][i] \in orphans} IN
  SubSeq(inbox[c], Cardinality(delivering) + 1, Len(inbox[c]))

\* The process dies with its sockets and the requests under way.
Restart ==
  /\ Crash
  /\ link' = [c \in Client |-> FALSE]
  /\ checking' = {}
  /\ room' = [c \in Client |-> <<>>]
  /\ inbox' = [c \in Client |-> IF link[c] THEN <<>> ELSE Buffered(c)]
  /\ orphans' = orphans \cup {o \in submitted : link[Author[o]]}
  /\ reply' = [s \in Sync |-> None]
  /\ polled' = {}
  /\ UNCHANGED <<store, submitted, drops>>

OutsideEdit(t) == (AdoEdit(t) \/ AdoMoveOut(t)) /\ UNCHANGED clientVars

-----------------------------------------------------------------------------

CollabInit ==
  /\ Init
  /\ store = [c \in Client |-> [t \in Ticket |-> ViewOf(cache[t])]]
  /\ link = [c \in Client |-> TRUE]
  /\ inbox = [c \in Client |-> <<>>]
  /\ room = [c \in Client |-> <<>>]
  /\ reply = [s \in Sync |-> None]
  /\ checking = {} /\ submitted = {} /\ orphans = {} /\ polled = {} /\ drops = 0

CollabNext ==
  \/ \E o \in Op : Submit(o) \/ HandlerStep(o) \/ PromoteJob(o) \/ RescueJob(o)
  \/ ProcessStep
  \/ \E s \in Sync : \/ PollFetch(s) \/ PollSetTickets(s)
                     \/ PollCached(s) \/ PollAnswer(s)
  \/ \E c \in Client : \/ ListenStep(c) \/ Disconnect(c)
                       \/ Reconnect(c) \/ Identify(c)
  \/ \E t \in Ticket : OutsideEdit(t)
  \/ Restart

CollabSpec == CollabInit /\ [][CollabNext]_collabVars

\* Beyond the fairness of the server: sockets deliver and reconnect, polls are
\* answered, and among them one keeps finding the sync slot free, since the slot
\* expires after 10 s (SF: the polls answered from the cache come in between).
CollabFairness ==
  /\ \A o \in Op : /\ WF_collabVars(HandlerStep(o))
                   /\ WF_collabVars(PromoteJob(o))
                   /\ WF_collabVars(RescueJob(o))
  /\ WF_collabVars(ProcessStep)
  /\ \A c \in Client : /\ WF_collabVars(ListenStep(c))
                       /\ WF_collabVars(Reconnect(c))
                       /\ WF_collabVars(Identify(c))
  /\ \A s \in Sync : /\ SF_collabVars(PollFetch(s))
                     /\ WF_collabVars(PollSetTickets(s))
                     /\ WF_collabVars(PollAnswer(s))

CollabFairSpec == CollabSpec /\ CollabFairness

-----------------------------------------------------------------------------
(* Types *)

\* Every variable keeps its type, operations are sent and handled only once they
\* were submitted, and nothing is under way to a browser without a connection.
CollabTypeOK ==
  /\ TypeOK
  /\ store \in [Client -> [Ticket -> View]]
  /\ link \in [Client -> BOOLEAN] /\ checking \subseteq Client
  /\ inbox \in [Client -> Seq(Op)]
  /\ \A c \in Client : \A i \in 1 .. Len(inbox[c]) : inbox[c][i] \in submitted
  /\ room \in [Client -> Seq(Message)]
  /\ \A c \in Client : ~link[c] => room[c] = <<>>
  /\ reply \in [Sync -> [Ticket -> Entry \cup {None}] \cup {None}]
  /\ submitted \subseteq Op /\ orphans \subseteq submitted
  /\ \A o \in Op : opPc[o] # "new" => o \in submitted
  /\ polled \subseteq Client /\ drops \in Nat

-----------------------------------------------------------------------------
(* What the browsers see *)

Settled(o) == opLog[o] \in {"synced", "failed"} \/ opPc[o] = "rejected"

\* A user's own edit stays on the screen, whatever polls, echoes, lost
\* connections and restarts come in between, until an operation on its ticket
\* is settled or somebody else edits the same field.
EditStaysUntilSettled ==
  \A o \in submitted :
    LET t == OpTicket[o] IN
    (\A p \in submitted : OpTicket[p] = t =>
       ~Settled(p) /\ (p = o \/ OpField[p] # OpField[o]))
    => store[Author[o]][t].val[OpField[o]] = o

\* What colleagues see as saved is saved: a browser that did not submit the only
\* edit of a ticket shows it as 'synced' only when ADO has it, across failures,
\* lost connections and restarts.
SavedForOthersIsSaved ==
  \A o \in Op : \A c \in Client \ {Author[o]} :
    LET view == store[c][OpTicket[o]] IN
    /\ \A p \in Op : OpTicket[p] = OpTicket[o] => p = o
    /\ view.val[OpField[o]] = o
    /\ view.status = "synced"
    => Lands(o)

\* Nothing is left to be sent, handled or processed.
Quiescent ==
  /\ \A c \in Client : inbox[c] = <<>> /\ room[c] = <<>>
  /\ \A o \in submitted : opPc[o] \in {"applied", "rejected"}
  /\ wait = <<>> /\ delayed = {} /\ abandoned = {} /\ jobPc = "idle"

\* The socket messages alone bring the browsers together: when no operation was
\* rejected and no connection was lost, the browsers no poll has answered show
\* the same tickets and statuses once everything under way has arrived, whoever
\* edited what and whatever failed.
EchoesAgree ==
  drops = 0 /\ crashes = 0 /\ Quiescent /\ (\A o \in Op : opPc[o] # "rejected")
    => \A c, d \in Client \ polled : store[c] = store[d]

Current(c, t) == store[c][t].val = Latest(t)

\* A browser that polls does not show a stale ticket as 'synced' for ever: once
\* edits stop, every ticket of the query it shows as 'synced' has ADO's values.
SyncedViewsConverge ==
  <>[](\A s \in Sync, t \in inQuery :
         store[Caller[s]][t].status = "synced" => Current(Caller[s], t))

-----------------------------------------------------------------------------
(* What the comments say, and the code does not do *)

\* sync.service.ts: an edit made directly in ADO shows up within 10 s or so:
\* once edits stop, every browser ends with ADO's values (no write has failed).
OutsideEditsArrive ==
  <>[]((\A o \in Op : opLog[o] # "failed") =>
         \A c \in Client, t \in inQuery : Current(c, t))

-----------------------------------------------------------------------------
(* Why they hold: the invariants the proofs carry along *)

\* The ticket the worker broadcasts after a failure is in error.
RereadInError == jobPc = "reread" => jobCopy.status = "error"

UnderWay(c) == {room[c][i] : i \in 1 .. Len(room[c])}

\* A message under way to c is about an operation that was submitted; one that
\* takes the ticket out of 'pending' is sent because an operation was settled.
Truthful(c, m) ==
  CASE m.kind = "applied"  -> m.op \in submitted
    [] m.kind = "rejected" -> m.op \in submitted /\ Settled(m.op) /\ c = Author[m.op]
    [] m.kind = "status"   -> m.op \in submitted /\ Settled(m.op) /\ Lands(m.op)
    [] m.kind = "updated"  ->
         /\ m.view.status = "error"
         /\ \E o \in submitted : OpTicket[o] = m.ticket /\ Settled(o)

MessagesTruthful == \A c \in Client : \A m \in UnderWay(c) : Truthful(c, m)

\* The only operation of its ticket.
Alone(o) == \A p \in Op : OpTicket[p] = OpTicket[o] => p = o

\* A copy of ticket t that says 'synced' of the only edit of t says it of an edit
\* ADO has.
Vouched(copy, t) ==
  \A o \in Op :
    Alone(o) /\ OpTicket[o] = t /\ copy.val[OpField[o]] = o /\ copy.status = "synced"
      => Lands(o)

CopiesVouched ==
  /\ \A t \in Ticket : cache[t] # None => Vouched(cache[t], t)
  /\ \A s \in Sync, t \in Ticket :
       /\ fetched[s][t] # None => Vouched(fetched[s][t], t)
       /\ reply[s] # None /\ reply[s][t] # None => Vouched(reply[s][t], t)

\* The ticket of an author stays 'pending', out of the polls' reach, until one of
\* its operations is settled.
PendingUntilSettled ==
  \A o \in submitted :
    (\A p \in submitted : OpTicket[p] = OpTicket[o] => ~Settled(p))
    => store[Author[o]][OpTicket[o]].status = "pending"

CollabInv ==
  /\ RereadInError /\ MessagesTruthful /\ CopiesVouched
  /\ PendingUntilSettled /\ EditStaysUntilSettled /\ SavedForOthersIsSaved

-----------------------------------------------------------------------------
(* Why EchoesAgree holds: what each cell will show in the end *)

\* The cells of a ticket: its fields, and its status.
Cells == {<<f>> : f \in Field} \cup {<<>>}
Shown(ticket, cell) == IF cell = <<>> THEN ticket.status ELSE ticket.val[cell[1]]

\* The cells a message changes when it arrives, and what they show then.
Touches(m, t, cell) ==
  IF m.kind = "updated" THEN m.ticket = t
  ELSE /\ OpTicket[m.op] = t
       /\ cell = <<>> \/ (m.kind = "applied" /\ cell = <<OpField[m.op]>>)
Gives(m, cell) ==
  CASE m.kind = "updated" -> Shown(m.view, cell)
    [] m.kind = "applied" -> IF cell = <<>> THEN "pending" ELSE m.op
    [] OTHER -> "synced"

\* What a cell of a ticket shows once the messages of a queue have arrived.
ShowsAfter(queue, ticket, t, cell, v) ==
  \/ \E i \in 1 .. Len(queue) :
       /\ Touches(queue[i], t, cell) /\ v = Gives(queue[i], cell)
       /\ \A j \in i + 1 .. Len(queue) : ~Touches(queue[j], t, cell)
  \/ /\ \A i \in 1 .. Len(queue) : ~Touches(queue[i], t, cell)
     /\ v = Shown(ticket, cell)

WillShow(c, t, cell, v) == ShowsAfter(room[c], store[c][t], t, cell, v)

\* The user of a browser has changed a cell, and the server has not sent it yet.
Unechoed(c, t, cell) ==
  \E o \in submitted : /\ Author[o] = c /\ OpTicket[o] = t
                       /\ cell \in {<<>>, <<OpField[o]>>}
                       /\ opPc[o] # "applied"

NothingLost == drops = 0 /\ crashes = 0 /\ \A o \in Op : opPc[o] # "rejected"

\* Two browsers will show the same in a cell, unless an edit of theirs is on its way.
WillAgree(c, d, t, cell) ==
  \/ \E v \in Value \cup Status : WillShow(c, t, cell, v) /\ WillShow(d, t, cell, v)
  \/ Unechoed(c, t, cell) \/ Unechoed(d, t, cell)

EchoesComing ==
  NothingLost =>
    /\ \A c \in Client : Joined(c)
    /\ \A c, d \in Client \ polled : \A t \in Ticket : \A cell \in Cells :
         WillAgree(c, d, t, cell)
=============================================================================
