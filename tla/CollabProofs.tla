---------------------------- MODULE CollabProofs ----------------------------
(***************************************************************************)
(* Proofs about Collab: what each browser shows of its own user's edits    *)
(* and of the others', for any browsers, operations, tickets and polls and *)
(* any number of failures, restarts and lost connections.                  *)
(***************************************************************************)
EXTENDS Collab, ContractProofs, SequenceTheorems, FiniteSetTheorems

-----------------------------------------------------------------------------
(* The pipeline underneath *)

\* Every step of the composition is a step of the pipeline or leaves it alone.
LEMMA PipelineStep ==
  ASSUME [CollabNext]_collabVars
  PROVE  [Next]_vars
<1>1. ASSUME NEW o \in Op, HandlerStep(o) PROVE OpStep(o)
  BY <1>1 DEF HandlerStep, HandleOperation, HandleMissing, HandleUnidentified, HandleFails, HandleGoesOn,
              HandleApplied, OpStep
<1>2. ProcessStep => JobStep
  BY DEF ProcessStep, ProcessSynced, ProcessError, ProcessGoesOn, JobStep
<1>3. ASSUME NEW s \in Sync, PollFetch(s) \/ PollSetTickets(s) PROVE SyncStep(s)
  BY <1>3 DEF PollFetch, PollSetTickets, SyncStep
<1>4. ASSUME NEW s \in Sync, PollCached(s) \/ PollAnswer(s) PROVE UNCHANGED vars
  BY <1>4 DEF PollCached, PollAnswer
<1>5. ASSUME NEW c \in Client, ListenStep(c) \/ Disconnect(c) \/ Reconnect(c) \/ Identify(c)
      PROVE  UNCHANGED vars
  BY <1>5 DEF ListenStep, OnApplied, OnRejected, OnSyncStatus, OnUpdated, Listen,
              Disconnect, Reconnect, Identify
<1>6. ASSUME NEW o \in Op, Submit(o) PROVE UNCHANGED vars
  BY <1>6 DEF Submit
<1>7. UNCHANGED collabVars => UNCHANGED vars
  BY DEF collabVars
<1>. QED
  BY <1>1, <1>2, <1>3, <1>4, <1>5, <1>6, <1>7
     DEF CollabNext, Next, PromoteJob, RescueJob, OutsideEdit, Restart

\* The composition is the pipeline with browsers added: what holds of Writeback
\* holds of it.
LEMMA PipelineHolds == CollabSpec => [](TypeOK /\ IInv /\ LogInv)
<1>1. CollabInit => Init
  BY DEF CollabInit
<1>. QED
  BY <1>1, PipelineStep, TypeCorrect, Invariant, LogInvariant, PTL DEF CollabSpec, Spec

\* What ADO has recorded stays recorded.
LEMMA LandsStays ==
  ASSUME TypeOK, [Next]_vars, NEW o \in Op, Lands(o)
  PROVE  Lands(o)'
<1>1. \/ ado' = ado
      \/ \E t \in Ticket, v \in Value : \E fields : Revise(t, fields, v)
  <2>1. ASSUME NEW p \in Op, OpStep(p) \/ Promote(p) \/ StalledCheck(p) PROVE ado' = ado
    BY <2>1, OpEffect DEF Promote, StalledCheck, StalledCheck
  <2>2. ASSUME JobStep
        PROVE  \/ ado' = ado
               \/ /\ jobPc = "read"
                  /\ \E fields : Revise(OpTicket[jobOp], fields, jobOp)
    BY <2>2 DEF Record, JobStep, JobTake, JobGetTicket, JobPatch, JobPatchFails, JobPatchReplyLost,
                JobUpdateTicket, JobLogSynced, JobStoreFails, JobRetry, JobLogFailed,
                JobRereadTicket, JobMarkError, JobCatchFails, JobEnd
  <2>3. jobPc = "read" => jobOp \in Value /\ OpTicket[jobOp] \in Ticket
    BY OpAssumption DEF TypeOK, Value
  <2>4. ASSUME NEW t \in Ticket, AdoEdit(t) \/ AdoMoveOut(t)
        PROVE  \E fields : Revise(t, fields, External)
    BY <2>4 DEF AdoEdit, AdoMoveOut, Record
  <2>5. External \in Value
    BY DEF Value
  <2>6. Crash \/ UNCHANGED vars \/ (\E s \in Sync : SyncStep(s)) => ado' = ado
    BY DEF Crash, vars, adoVars, SyncStep, SyncFetch, SyncSetTickets
  <2>. QED  BY <2>1, <2>2, <2>3, <2>4, <2>5, <2>6 DEF Next
<1>2. CASE ado' = ado
  BY <1>2, AdoStays
<1>3. ASSUME NEW t \in Ticket, NEW v \in Value, NEW fields, Revise(t, fields, v)
      PROVE  Lands(o)'
  BY <1>3, LandsRevise
<1>. QED  BY <1>1, <1>2, <1>3

\* What was settled stays settled.
LEMMA SettledStays ==
  ASSUME TypeOK, LogInv, [Next]_vars, NEW o \in Op, Settled(o)
  PROVE  Settled(o)'
<1>. DEFINE Answered == {"synced", "failed"}
<1>1. ASSUME NEW p \in Op, OpStep(p) PROVE Settled(o)'
  <2>1. opPc \in [Op -> OpProgress] /\ opLog \in [Op -> LogStatus]
    BY DEF TypeOK
  <2>2. opPc[p] # "rejected" /\ (OpCreateLog(p) => opPc[p] = "cached" /\ opLog[p] = "none")
    BY <1>1, <2>1 DEF OpStep, OpGetTicket, OpTicketMissing, OpUnidentified, OpUpdateTicket, OpCreateLog,
                      OpEnqueue, OpApplied, OpFails, LogInv, LogFollows
  <2>3. opPc[o] = "rejected" => opPc'[o] = "rejected"
    BY <1>1, <2>1, <2>2, OpEffect
  <2>4. opLog[o] \in Answered => opLog'[o] = opLog[o]
    <3>1. CASE opLog' = opLog
      BY <3>1
    <3>2. CASE OpCreateLog(p)
      <4>1. opLog' = [opLog EXCEPT ![p] = "pending"] /\ opLog[p] = "none"
        BY <2>2, <3>2 DEF OpCreateLog
      <4>. QED  BY <2>1, <4>1
    <3>. QED  BY <1>1, <3>1, <3>2, OpLogEffect
  <2>. QED  BY <2>3, <2>4 DEF Settled
<1>2. CASE JobStep
  <2>1. opPc' = opPc /\ opLog \in [Op -> LogStatus]
    BY <1>2, JobLogEffect DEF TypeOK
  <2>2. opLog' = opLog \/ \E answer \in Answered : opLog' = [opLog EXCEPT ![jobOp] = answer]
    BY <1>2 DEF JobStep, JobTake, JobGetTicket, JobPatch, JobPatchFails, JobPatchReplyLost,
                JobUpdateTicket, JobLogSynced, JobStoreFails, JobRetry, JobLogFailed,
                JobRereadTicket, JobMarkError, JobCatchFails, JobEnd
  <2>. QED  BY <2>1, <2>2 DEF Settled
<1>3. CASE Crash
  <2>1. opLog' = opLog /\ (opPc[o] = "rejected" => opPc'[o] = "rejected")
    BY <1>3 DEF Crash
  <2>. QED  BY <2>1 DEF Settled
<1>4. CASE UNCHANGED vars \/ (\E p \in Op : Promote(p) \/ StalledCheck(p)) \/ (\E s \in Sync : SyncStep(s))
           \/ (\E t \in Ticket : AdoEdit(t) \/ AdoMoveOut(t))
  <2>1. opLog' = opLog /\ opPc' = opPc
    BY <1>4 DEF vars, opVars, Promote, StalledCheck, JobStays, SyncStep, SyncFetch, SyncSetTickets,
                AdoEdit, AdoMoveOut
  <2>. QED  BY <2>1 DEF Settled
<1>. QED  BY <1>1, <1>2, <1>3, <1>4 DEF Next

-----------------------------------------------------------------------------
(* Types *)

\* A ticket the server sends is one a browser can hold.
LEMMA ViewType ==
  ASSUME NEW entry \in Entry
  PROVE  ViewOf(entry) \in View
  BY DEF ViewOf, View, Entry

\* The optimistic edit keeps the browser's tickets well typed.
LEMMA ApplyType ==
  ASSUME CollabTypeOK, NEW c \in Client, NEW o \in Op, ApplyOperation(c, o)
  PROVE  store' \in [Client -> [Ticket -> View]]
<1>1. store[c][OpTicket[o]] \in View /\ o \in Value /\ OpTicket[o] \in Ticket
  BY OpAssumption DEF CollabTypeOK, Value
<1>2. Put(store[c][OpTicket[o]].val, {OpField[o]}, o) \in [Field -> Value]
  BY <1>1, PutType DEF View
<1>3. [val |-> Put(store[c][OpTicket[o]].val, {OpField[o]}, o), status |-> "pending"] \in View
  BY <1>2 DEF View, Status
<1>. QED  BY <1>1, <1>3 DEF ApplyOperation, CollabTypeOK

\* So does a change of status.
LEMMA StatusType ==
  ASSUME CollabTypeOK, NEW c \in Client, NEW t \in Ticket, SetStatus(c, t, "synced")
  PROVE  store' \in [Client -> [Ticket -> View]]
<1>1. store[c][t] \in View
  BY DEF CollabTypeOK
<1>2. \A v \in View : [v EXCEPT !.status = "synced"] \in View
  BY DEF View, Status
<1>. QED  BY <1>1, <1>2 DEF SetStatus, CollabTypeOK

\* The handler takes operations its author has submitted.
LEMMA ReceiveType ==
  ASSUME CollabTypeOK, NEW o \in Op, Receive(o)
  PROVE  /\ o \in submitted
         /\ inbox' \in [Client -> Seq(Op)]
         /\ \A c \in Client : \A i \in 1 .. Len(inbox'[c]) : inbox'[c][i] \in submitted
<1>. DEFINE a == Author[o]
<1>1. a \in Client /\ inbox[a] \in Seq(Op) /\ inbox[a] # <<>>
  BY CollabAssumption DEF CollabTypeOK, Receive
<1>2. o = inbox[a][1] /\ 1 \in 1 .. Len(inbox[a])
  BY <1>1 DEF Receive
<1>3. /\ Tail(inbox[a]) \in Seq(Op)
      /\ \A i \in 1 .. Len(Tail(inbox[a])) :
           Tail(inbox[a])[i] = inbox[a][i + 1] /\ i + 1 \in 1 .. Len(inbox[a])
  BY <1>1
<1>. QED  BY <1>1, <1>2, <1>3 DEF Receive, CollabTypeOK

\* What is sent to the browsers is well typed and goes to none without connection.
RoomType ==
  /\ room \in [Client -> Seq(Message)]
  /\ \A c \in Client : ~link[c] => room[c] = <<>>

LEMMA BroadcastType ==
  ASSUME CollabTypeOK, NEW m \in Message, Broadcast(m), link' = link
  PROVE  RoomType'
<1>1. \A c \in Client : Append(room[c], m) \in Seq(Message)
  BY DEF CollabTypeOK
<1>. QED  BY <1>1 DEF Broadcast, Joined, CollabTypeOK, RoomType

LEMMA RejectType ==
  ASSUME CollabTypeOK, NEW o \in Op, Reject(o), link' = link
  PROVE  RoomType'
<1>. DEFINE m == [kind |-> "rejected", op |-> o]
<1>1. m \in Message /\ Author[o] \in Client
  BY CollabAssumption DEF Message
<1>2. Append(room[Author[o]], m) \in Seq(Message)
  BY <1>1 DEF CollabTypeOK
<1>. QED  BY <1>1, <1>2 DEF Reject, CollabTypeOK, RoomType

\* A browser takes the oldest message.
LEMMA ListenType ==
  ASSUME CollabTypeOK, NEW c \in Client, NEW kind, Listen(c, kind)
  PROVE  RoomType' /\ Head(room[c]) \in Message
<1>1. room[c] \in Seq(Message) /\ room[c] # <<>>
  BY DEF CollabTypeOK, Listen
<1>2. Head(room[c]) \in Message /\ Tail(room[c]) \in Seq(Message)
  BY <1>1
<1>. QED  BY <1>1, <1>2 DEF Listen, CollabTypeOK, RoomType

\* The steps of a handler keep the types.
LEMMA TypeHandler ==
  ASSUME CollabTypeOK, TypeOK', NEW o \in Op, HandlerStep(o)
  PROVE  CollabTypeOK'
<1>1. ServerStays /\ OpStep(o)
  BY DEF HandlerStep, HandleOperation, HandleMissing, HandleUnidentified, HandleFails, HandleGoesOn,
         HandleApplied, OpStep
<1>2. /\ o \in submitted
      /\ inbox' \in [Client -> Seq(Op)]
      /\ \A c \in Client : \A i \in 1 .. Len(inbox'[c]) : inbox'[c][i] \in submitted
  <2>1. CASE Receive(o)
    BY <2>1, ReceiveType
  <2>2. CASE inbox' = inbox /\ opPc[o] # "new"
    BY <2>2 DEF CollabTypeOK
  <2>3. Receive(o) \/ (inbox' = inbox /\ opPc[o] # "new")
    BY DEF HandlerStep, HandleOperation, HandleMissing, HandleUnidentified, HandleFails, HandleGoesOn,
           HandleApplied, OpUpdateTicket, OpCreateLog, OpEnqueue, OpApplied
  <2>. QED  BY <2>1, <2>2, <2>3
<1>3. RoomType'
  <2>1. CASE Reject(o)
    BY <1>1, <2>1, RejectType DEF ServerStays
  <2>2. CASE Broadcast([kind |-> "applied", op |-> o])
    BY <1>1, <2>2, BroadcastType DEF ServerStays, Message
  <2>3. CASE room' = room
    BY <1>1, <2>3 DEF ServerStays, CollabTypeOK, RoomType
  <2>. QED
    BY <2>1, <2>2, <2>3 DEF HandlerStep, HandleOperation, HandleMissing, HandleUnidentified, HandleFails,
                            HandleGoesOn, HandleApplied
<1>4. \A p \in Op : opPc'[p] # "new" => p \in submitted
  <2>1. \E pc : opPc' = [opPc EXCEPT ![o] = pc]
    BY <1>1, OpEffect DEF CollabTypeOK
  <2>. QED  BY <1>2, <2>1 DEF CollabTypeOK, TypeOK
<1>. QED  BY <1>1, <1>2, <1>3, <1>4 DEF ServerStays, CollabTypeOK, RoomType

\* So do those of the worker and of the queue.
LEMMA TypeWorker ==
  ASSUME CollabTypeOK, TypeOK', ProcessStep \/ \E o \in Op : PromoteJob(o) \/ RescueJob(o)
  PROVE  CollabTypeOK'
<1>1. /\ UNCHANGED <<store, link, checking, inbox, reply, submitted, orphans, polled, drops>>
      /\ opPc' = opPc
  <2>1. ProcessStep => JobStep
    BY DEF ProcessStep, ProcessSynced, ProcessError, ProcessGoesOn, JobStep
  <2>2. JobStep => opPc' = opPc
    BY JobLogEffect DEF CollabTypeOK
  <2>. QED
    BY <2>1, <2>2 DEF ProcessStep, ProcessSynced, ProcessError, ProcessGoesOn, ServerStays,
                      PromoteJob, RescueJob, clientVars, Promote, StalledCheck, JobStays, opVars
<1>2. RoomType'
  <2>1. CASE ProcessSynced
    <3>1. jobOp \in Op /\ [kind |-> "status", op |-> jobOp] \in Message
      BY <2>1 DEF ProcessSynced, JobLogSynced, CollabTypeOK, TypeOK, Message
    <3>. QED  BY <1>1, <2>1, <3>1, BroadcastType DEF ProcessSynced
  <2>2. CASE ProcessError
    <3>1. jobOp \in Op /\ jobCopy \in Entry /\ OpTicket[jobOp] \in Ticket
      BY <2>2, OpAssumption DEF ProcessError, JobMarkError, CollabTypeOK, TypeOK
    <3>2. [kind |-> "updated", ticket |-> OpTicket[jobOp], view |-> ViewOf(jobCopy)] \in Message
      BY <3>1, ViewType DEF Message
    <3>. QED  BY <1>1, <2>2, <3>2, BroadcastType DEF ProcessError
  <2>3. CASE room' = room
    BY <1>1, <2>3 DEF CollabTypeOK, RoomType
  <2>. QED
    BY <2>1, <2>2, <2>3 DEF ProcessStep, ProcessGoesOn, PromoteJob, RescueJob, clientVars
<1>. QED  BY <1>1, <1>2 DEF CollabTypeOK, RoomType

\* So do the polls.
LEMMA TypePolls ==
  ASSUME CollabTypeOK, TypeOK', NEW s \in Sync,
         PollFetch(s) \/ PollSetTickets(s) \/ PollCached(s) \/ PollAnswer(s)
  PROVE  CollabTypeOK'
<1>. DEFINE Replies == [Sync -> [Ticket -> Entry \cup {None}] \cup {None}]
<1>1. /\ UNCHANGED <<opPc, link, checking, inbox, room, submitted, orphans, drops>>
      /\ PollAnswer(s) \/ (reply' \in Replies /\ UNCHANGED <<store, polled>>)
  <2>1. CASE PollFetch(s)
    BY <2>1 DEF PollFetch, SyncFetch, PollStays, opVars, CollabTypeOK
  <2>2. CASE PollSetTickets(s)
    <3>1. fetched[s] \in [Ticket -> Entry \cup {None}]
      BY DEF CollabTypeOK, TypeOK
    <3>2. reply' = [reply EXCEPT ![s] = fetched[s]] /\ reply \in Replies
      BY <2>2 DEF PollSetTickets, CollabTypeOK
    <3>. QED  BY <2>2, <3>1, <3>2 DEF PollSetTickets, SyncSetTickets, PollStays, opVars
  <2>3. CASE PollCached(s)
    <3>1. cache \in [Ticket -> Entry \cup {None}]
      BY DEF CollabTypeOK, TypeOK
    <3>2. reply' = [reply EXCEPT ![s] = cache] /\ reply \in Replies
      BY <2>3 DEF PollCached, CollabTypeOK
    <3>. QED  BY <2>3, <3>1, <3>2 DEF PollCached, PollStays, vars, opVars
  <2>4. CASE PollAnswer(s)
    BY <2>4 DEF PollAnswer, vars, opVars
  <2>. QED  BY <2>1, <2>2, <2>3, <2>4
<1>2. CASE PollAnswer(s)
  <2>. DEFINE c == Caller[s]
              fresh == reply[s]
              shown == [t \in Ticket |->
                          IF fresh[t] # None /\ store[c][t].status = "synced"
                          THEN ViewOf(fresh[t]) ELSE store[c][t]]
  <2>1. c \in Client /\ fresh \in [Ticket -> Entry \cup {None}] /\ reply \in Replies
    BY <1>2, CollabAssumption DEF PollAnswer, CollabTypeOK
  <2>2. \A t \in Ticket : store[c][t] \in View /\ (fresh[t] # None => ViewOf(fresh[t]) \in View)
    BY <2>1, ViewType DEF CollabTypeOK
  <2>3. shown \in [Ticket -> View]
    BY <2>2
  <2>4. store' = [store EXCEPT ![c] = shown]
    BY <1>2 DEF PollAnswer
  <2>5. store' \in [Client -> [Ticket -> View]]
    BY <2>1, <2>3, <2>4 DEF CollabTypeOK
  <2>6. reply' \in Replies /\ polled' \subseteq Client
    BY <1>2, <2>1 DEF PollAnswer, RecordPoll, CollabTypeOK
  <2>. QED  BY <1>1, <2>5, <2>6 DEF CollabTypeOK
<1>. QED  BY <1>1, <1>2 DEF CollabTypeOK

\* So do the browser's edits and listeners.
LEMMA TypeBrowser ==
  ASSUME CollabTypeOK, TypeOK',
         (\E o \in Op : Submit(o)) \/ (\E c \in Client : ListenStep(c))
  PROVE  CollabTypeOK'
<1>1. ASSUME NEW o \in Op, Submit(o) PROVE CollabTypeOK'
  <2>. DEFINE a == Author[o]
  <2>1. a \in Client /\ inbox[a] \in Seq(Op)
    BY CollabAssumption DEF CollabTypeOK
  <2>2. store' \in [Client -> [Ticket -> View]]
    BY <1>1, <2>1, ApplyType DEF Submit
  <2>3. /\ Append(inbox[a], o) \in Seq(Op)
        /\ \A i \in 1 .. Len(Append(inbox[a], o)) :
             Append(inbox[a], o)[i] = o
             \/ (i \in 1 .. Len(inbox[a]) /\ Append(inbox[a], o)[i] = inbox[a][i])
    BY <2>1
  <2>4. /\ inbox' \in [Client -> Seq(Op)]
        /\ \A c \in Client : \A i \in 1 .. Len(inbox'[c]) : inbox'[c][i] \in submitted'
    BY <1>1, <2>1, <2>3 DEF Submit, CollabTypeOK
  <2>. QED  BY <1>1, <2>2, <2>4 DEF Submit, vars, opVars, CollabTypeOK
<1>2. ASSUME NEW c \in Client, ListenStep(c) PROVE CollabTypeOK'
  <2>. DEFINE m == Head(room[c])
  <2>1. \E kind : Listen(c, kind) /\ m.kind = kind
    BY <1>2 DEF ListenStep, OnApplied, OnRejected, OnSyncStatus, OnUpdated, Listen
  <2>2. /\ RoomType' /\ m \in Message
        /\ UNCHANGED <<vars, link, checking, inbox, reply, submitted, orphans, polled, drops>>
    BY <2>1, ListenType DEF Listen
  <2>3. /\ m.kind # "updated" => m.op \in Op /\ OpTicket[m.op] \in Ticket
        /\ m.kind = "updated" => m.ticket \in Ticket /\ m.view \in View
    BY <2>2, OpAssumption DEF Message
  <2>4. store' \in [Client -> [Ticket -> View]]
    <3>1. CASE OnApplied(c)
      BY <2>3, <3>1, ApplyType DEF OnApplied, Listen
    <3>2. CASE OnRejected(c) \/ OnSyncStatus(c)
      BY <2>3, <3>2, StatusType DEF OnRejected, OnSyncStatus, Listen
    <3>3. CASE OnUpdated(c)
      BY <2>3, <3>3 DEF OnUpdated, Listen, CollabTypeOK
    <3>. QED  BY <1>2, <3>1, <3>2, <3>3 DEF ListenStep
  <2>. QED  BY <2>2, <2>4 DEF vars, opVars, CollabTypeOK, RoomType
<1>. QED  BY <1>1, <1>2

\* So do the network and the restart.
LEMMA TypeNetwork ==
  ASSUME CollabTypeOK, TypeOK',
         (\E c \in Client : Disconnect(c) \/ Reconnect(c) \/ Identify(c)) \/ Restart
  PROVE  CollabTypeOK'
<1>1. ASSUME NEW c \in Client, Disconnect(c) PROVE CollabTypeOK'
  <2>1. PICK n \in 0 .. Len(inbox[c]) : inbox' = [inbox EXCEPT ![c] = SubSeq(@, 1, n)]
    BY <1>1 DEF Disconnect
  <2>2. inbox[c] \in Seq(Op)
    BY DEF CollabTypeOK
  <2>3. /\ SubSeq(inbox[c], 1, n) \in Seq(Op)
        /\ Len(SubSeq(inbox[c], 1, n)) = n
        /\ \A i \in 1 .. n : SubSeq(inbox[c], 1, n)[i] = inbox[c][i] /\ i \in 1 .. Len(inbox[c])
    <3>1. n \in Int /\ n <= Len(inbox[c]) /\ \A i \in 1 .. n : inbox[c][i] \in Op
      BY <2>2
    <3>. QED  BY <2>2, <3>1, SubSeqProperties
  <2>4. /\ inbox' \in [Client -> Seq(Op)]
        /\ \A d \in Client : \A i \in 1 .. Len(inbox'[d]) : inbox'[d][i] \in submitted
    BY <2>1, <2>3 DEF CollabTypeOK
  <2>5. RoomType'
    BY <1>1 DEF Disconnect, CollabTypeOK, RoomType
  <2>. QED  BY <1>1, <2>4, <2>5 DEF Disconnect, vars, opVars, CollabTypeOK, RoomType
<1>2. ASSUME NEW c \in Client, Reconnect(c) \/ Identify(c) PROVE CollabTypeOK'
  BY <1>2 DEF Reconnect, Identify, vars, opVars, CollabTypeOK
<1>3. CASE Restart
  <2>1. ASSUME NEW c \in Client
        PROVE  /\ Buffered(c) \in Seq(Op)
               /\ \A i \in 1 .. Len(Buffered(c)) : Buffered(c)[i] \in submitted
    <3>. DEFINE q == inbox[c]
                delivering == {i \in 1 .. Len(q) : q[i] \in orphans}
                k == Cardinality(delivering)
    <3>1. q \in Seq(Op) /\ Len(q) \in Nat /\ \A i \in 1 .. Len(q) : q[i] \in submitted
      BY DEF CollabTypeOK
    <3>2. IsFiniteSet(1 .. Len(q)) /\ delivering \in SUBSET (1 .. Len(q))
      BY <3>1, FS_Interval
    <3>3. k \in Nat
      <4>1. IsFiniteSet(delivering)
        BY <3>2, FS_Subset
      <4>. QED  BY <4>1, FS_CardinalityType
    <3>. HIDE DEF k
    <3>4. \A i \in k + 1 .. Len(q) : q[i] \in submitted
      BY <3>1, <3>3
    <3>5. SubSeq(q, k + 1, Len(q)) \in Seq(submitted)
      BY <3>1, <3>3, <3>4, SubSeqProperties
    <3>6. submitted \subseteq Op
      BY DEF CollabTypeOK
    <3>7. Buffered(c) = SubSeq(q, k + 1, Len(q))
      BY DEF Buffered, k
    <3>. QED  BY <3>5, <3>6, <3>7
  <2>2. /\ inbox' \in [Client -> Seq(Op)]
        /\ \A c \in Client : \A i \in 1 .. Len(inbox'[c]) : inbox'[c][i] \in submitted
    <3>1. inbox' = [c \in Client |-> IF link[c] THEN <<>> ELSE Buffered(c)]
      BY <1>3 DEF Restart
    <3>2. <<>> \in Seq(Op) /\ \A i \in 1 .. Len(<<>>) : FALSE
      OBVIOUS
    <3>. QED  BY <2>1, <3>1, <3>2
  <2>3. \A p \in Op : opPc'[p] # "new" => opPc[p] # "new"
    BY <1>3 DEF Restart, Crash
  <2>4. RoomType' /\ reply' \in [Sync -> [Ticket -> Entry \cup {None}] \cup {None}]
    BY <1>3 DEF Restart, RoomType
  <2>. QED  BY <1>3, <2>2, <2>3, <2>4 DEF Restart, CollabTypeOK, RoomType
<1>. QED  BY <1>1, <1>2, <1>3

\* A fresh session is well typed.
LEMMA TypeStart == CollabInit /\ TypeOK => CollabTypeOK
<1>. SUFFICES ASSUME CollabInit, TypeOK PROVE CollabTypeOK
  OBVIOUS
<1>1. \A t \in Ticket : ViewOf(cache[t]) \in View
  BY ToTicketType, ViewType DEF CollabInit, Init
<1>2. store \in [Client -> [Ticket -> View]]
  BY <1>1 DEF CollabInit
<1>3. \A o \in Op : opPc[o] = "new"
  BY DEF CollabInit, Init
<1>. QED  BY <1>2, <1>3 DEF CollabInit, CollabTypeOK

\* Every variable keeps its type, operations are sent and handled only once they were
\* submitted, and nothing is under way to a browser without a connection.
THEOREM CollabTypes == CollabSpec => []CollabTypeOK
<1>1. CollabTypeOK /\ TypeOK' /\ [CollabNext]_collabVars => CollabTypeOK'
  <2>. SUFFICES ASSUME CollabTypeOK, TypeOK', [CollabNext]_collabVars PROVE CollabTypeOK'
    OBVIOUS
  <2>1. ASSUME NEW t \in Ticket, OutsideEdit(t) PROVE CollabTypeOK'
    BY <2>1 DEF OutsideEdit, AdoEdit, AdoMoveOut, opVars, clientVars, CollabTypeOK
  <2>2. CASE UNCHANGED collabVars
    BY <2>2 DEF collabVars, clientVars, vars, opVars, CollabTypeOK
  <2>. QED
    BY <2>1, <2>2, TypeHandler, TypeWorker, TypePolls, TypeBrowser, TypeNetwork
       DEF CollabNext
<1>. QED  BY <1>1, TypeStart, PipelineHolds, PTL DEF CollabSpec

-----------------------------------------------------------------------------
(* Messages *)

\* What is under way to a browser after a message was sent to it.
LEMMA UnderWaySent ==
  ASSUME CollabTypeOK, NEW c \in Client, NEW m,
         room'[c] = room[c] \/ room'[c] = Append(room[c], m)
  PROVE  \A x \in UnderWay(c)' : x \in UnderWay(c) \/ x = m
<1>1. room[c] \in Seq(Message)
  BY DEF CollabTypeOK
<1>2. \A i \in 1 .. Len(room'[c]) :
        room'[c][i] = m \/ (i \in 1 .. Len(room[c]) /\ room'[c][i] = room[c][i])
  BY <1>1
<1>. QED  BY <1>2 DEF UnderWay

\* Which messages each step sends.
LEMMA MessagesSent ==
  ASSUME CollabTypeOK, [CollabNext]_collabVars, NEW c \in Client,
         NEW m \in UnderWay(c)'
  PROVE  \/ m \in UnderWay(c)
         \/ \E o \in Op : m = [kind |-> "applied", op |-> o] /\ opPc[o] = "queued"
         \/ \E o \in Op : /\ m = [kind |-> "rejected", op |-> o]
                          /\ opPc'[o] = "rejected" /\ c = Author[o]
         \/ m = [kind |-> "status", op |-> jobOp] /\ JobLogSynced
         \/ /\ m = [kind |-> "updated", ticket |-> OpTicket[jobOp],
                    view |-> ViewOf(jobCopy)]
            /\ JobMarkError
<1>0. room \in [Client -> Seq(Message)] /\ opPc \in [Op -> OpProgress]
  BY DEF CollabTypeOK, TypeOK
<1>1. ASSUME NEW o \in Op, HandlerStep(o)
      PROVE  \/ m \in UnderWay(c)
             \/ m = [kind |-> "applied", op |-> o] /\ opPc[o] = "queued"
             \/ /\ m = [kind |-> "rejected", op |-> o]
                /\ opPc'[o] = "rejected" /\ c = Author[o]
  <2>1. CASE HandleApplied(o)
    <3>1. /\ \/ room'[c] = room[c]
             \/ room'[c] = Append(room[c], [kind |-> "applied", op |-> o])
          /\ opPc[o] = "queued"
      BY <1>0, <2>1 DEF HandleApplied, OpApplied, Broadcast
    <3>. QED  BY <3>1, UnderWaySent
  <2>2. CASE HandleMissing(o) \/ HandleUnidentified(o) \/ HandleFails(o)
    <3>1. Reject(o) /\ opPc'[o] = "rejected"
      BY <1>0, <2>2 DEF HandleMissing, HandleUnidentified, HandleFails, OpTicketMissing, OpUnidentified, OpFails
    <3>2. \/ room'[c] = room[c]
          \/ /\ c = Author[o]
             /\ room'[c] = Append(room[c], [kind |-> "rejected", op |-> o])
      BY <1>0, <3>1 DEF Reject
    <3>. QED  BY <3>1, <3>2, UnderWaySent
  <2>3. CASE HandleOperation(o) \/ HandleGoesOn(o)
    BY <2>3 DEF HandleOperation, HandleGoesOn, UnderWay
  <2>. QED  BY <1>1, <2>1, <2>2, <2>3 DEF HandlerStep
<1>2. CASE ProcessSynced
  <2>1. \/ room'[c] = room[c]
        \/ room'[c] = Append(room[c], [kind |-> "status", op |-> jobOp])
    BY <1>0, <1>2 DEF ProcessSynced, Broadcast
  <2>. QED  BY <1>2, <2>1, UnderWaySent DEF ProcessSynced
<1>3. CASE ProcessError
  <2>1. \/ room'[c] = room[c]
        \/ room'[c] = Append(room[c], [kind |-> "updated", ticket |-> OpTicket[jobOp],
                                       view |-> ViewOf(jobCopy)])
    BY <1>0, <1>3 DEF ProcessError, Broadcast
  <2>. QED  BY <1>3, <2>1, UnderWaySent DEF ProcessError
<1>4. ASSUME NEW d \in Client, ListenStep(d) PROVE m \in UnderWay(c)
  <2>1. room[d] # <<>> /\ room' = [room EXCEPT ![d] = Tail(@)]
    BY <1>4 DEF ListenStep, OnApplied, OnRejected, OnSyncStatus, OnUpdated, Listen
  <2>2. room'[c] = room[c] \/ (room[c] # <<>> /\ room'[c] = Tail(room[c]))
    BY <1>0, <2>1
  <2>3. CASE room'[c] = room[c]
    BY <2>3 DEF UnderWay
  <2>4. CASE room[c] # <<>> /\ room'[c] = Tail(room[c])
    <3>1. \A i \in 1 .. Len(room'[c]) :
            i + 1 \in 1 .. Len(room[c]) /\ room'[c][i] = room[c][i + 1]
      BY <1>0, <2>4
    <3>. QED  BY <3>1 DEF UnderWay
  <2>. QED  BY <2>2, <2>3, <2>4
<1>5. CASE (\E d \in Client : Disconnect(d)) \/ Restart
  <2>1. room'[c] = room[c] \/ room'[c] = <<>>
    BY <1>0, <1>5 DEF Disconnect, Restart
  <2>. QED  BY <2>1 DEF UnderWay
<1>6. CASE room' = room
  BY <1>6 DEF UnderWay
<1>. QED
  BY <1>1, <1>2, <1>3, <1>4, <1>5, <1>6
     DEF CollabNext, collabVars, clientVars, Submit, PromoteJob, RescueJob, ProcessStep, ProcessGoesOn,
         PollFetch, PollSetTickets, PollCached, PollStays, PollAnswer, Reconnect, Identify, OutsideEdit

\* Browsers never take back what they submitted.
LEMMA SubmittedStays ==
  ASSUME [CollabNext]_collabVars
  PROVE  submitted \subseteq submitted'
<1>1. (\E o \in Op : Submit(o)) => submitted \subseteq submitted'
  BY DEF Submit
<1>2. (\E o \in Op : HandlerStep(o)) \/ ProcessStep => submitted' = submitted
  BY DEF HandlerStep, HandleOperation, HandleMissing, HandleUnidentified, HandleFails, HandleGoesOn, HandleApplied,
         ProcessStep, ProcessSynced, ProcessError, ProcessGoesOn, ServerStays
<1>3. (\E c \in Client : ListenStep(c) \/ Disconnect(c) \/ Reconnect(c) \/ Identify(c)) => submitted' = submitted
  BY DEF ListenStep, OnApplied, OnRejected, OnSyncStatus, OnUpdated, Listen, Disconnect, Reconnect, Identify
<1>. QED
  BY <1>1, <1>2, <1>3
     DEF CollabNext, collabVars, clientVars, PromoteJob, RescueJob, PollFetch, PollSetTickets, PollCached,
         PollStays, PollAnswer, OutsideEdit, Restart

\* The worker broadcasts a ticket in error.
LEMMA RereadStep ==
  ASSUME TypeOK, RereadInError, [Next]_vars
  PROVE  RereadInError'
<1>1. CASE JobRereadTicket
  <2>1. CASE cache[OpTicket[jobOp]] = None
    BY <1>1, <2>1 DEF JobRereadTicket, JobGoes, RereadInError
  <2>2. CASE cache[OpTicket[jobOp]] # None
    <3>1. cache[OpTicket[jobOp]] \in Entry
      BY <1>1, <2>2, OpAssumption DEF JobRereadTicket, TypeOK
    <3>2. \A e \in Entry : [e EXCEPT !.status = "error"].status = "error"
      BY DEF Entry
    <3>3. jobCopy' = [cache[OpTicket[jobOp]] EXCEPT !.status = "error"]
      BY <1>1, <2>2 DEF JobRereadTicket, JobGoes
    <3>. QED  BY <3>1, <3>2, <3>3 DEF RereadInError
  <2>. QED  BY <2>1, <2>2
<1>2. CASE JobStep /\ ~JobRereadTicket
  <2>1. jobPc' # "reread"
    BY <1>2 DEF JobStep, JobTake, JobGetTicket, JobPatch, JobPatchFails, JobPatchReplyLost,
                JobUpdateTicket, JobLogSynced, JobStoreFails, JobRetry, JobLogFailed,
                JobMarkError, JobCatchFails, JobEnd, Throw, JobGoes, Requeue, WorkerIdle
  <2>. QED  BY <2>1 DEF RereadInError
<1>3. CASE Crash
  BY <1>3 DEF Crash, WorkerIdle, RereadInError
<1>4. ASSUME NEW o \in Op, OpStep(o) PROVE jobPc' = jobPc /\ jobCopy' = jobCopy
  BY <1>4, OpEffect
<1>5. CASE UNCHANGED vars \/ (\E p \in Op : Promote(p) \/ StalledCheck(p)) \/ (\E s \in Sync : SyncStep(s))
           \/ (\E t \in Ticket : AdoEdit(t) \/ AdoMoveOut(t))
  <2>1. jobPc' = jobPc /\ jobCopy' = jobCopy
    BY <1>5 DEF vars, jobVars, Promote, StalledCheck, SyncStep, SyncFetch, SyncSetTickets, AdoEdit, AdoMoveOut
  <2>. QED  BY <2>1 DEF RereadInError
<1>. QED  BY <1>1, <1>2, <1>3, <1>4, <1>5 DEF Next, RereadInError

\* What a message says when it is sent stays true until it arrives.
LEMMA MessagesStep ==
  ASSUME CollabTypeOK, CollabTypeOK', IInv, IInv', LogInv, LogInv', CollabInv,
         [CollabNext]_collabVars
  PROVE  MessagesTruthful'
<1>1. [Next]_vars /\ TypeOK
  BY PipelineStep DEF CollabTypeOK
<1>2. submitted \subseteq submitted' /\ submitted \subseteq Op
  BY SubmittedStays DEF CollabTypeOK
<1>3. \A o \in Op : (Lands(o) => Lands(o)') /\ (Settled(o) => Settled(o)')
  BY <1>1, LandsStays, SettledStays
<1>. SUFFICES ASSUME NEW c \in Client, NEW m \in UnderWay(c)' PROVE Truthful(c, m)'
  BY DEF MessagesTruthful
<1>4. CASE m \in UnderWay(c)
  <2>1. Truthful(c, m)
    BY <1>4 DEF CollabInv, MessagesTruthful
  <2>2. m \in Message
    <3>1. room[c] \in Seq(Message)
      BY DEF CollabTypeOK
    <3>. QED  BY <1>4, <3>1 DEF UnderWay
  <2>3. CASE m.kind = "applied"
    BY <1>2, <2>1, <2>3 DEF Truthful
  <2>4. CASE m.kind = "rejected"
    BY <1>2, <1>3, <2>1, <2>4 DEF Truthful
  <2>5. CASE m.kind = "status"
    BY <1>2, <1>3, <2>1, <2>5 DEF Truthful
  <2>6. CASE m.kind = "updated"
    BY <1>2, <1>3, <2>1, <2>6 DEF Truthful
  <2>. QED  BY <2>2, <2>3, <2>4, <2>5, <2>6 DEF Message
<1>5. ASSUME NEW o \in Op, m = [kind |-> "applied", op |-> o], opPc[o] = "queued"
      PROVE  Truthful(c, m)'
  BY <1>2, <1>5 DEF CollabTypeOK, Truthful
<1>6. ASSUME NEW o \in Op, m = [kind |-> "rejected", op |-> o], opPc'[o] = "rejected",
             c = Author[o]
      PROVE  Truthful(c, m)'
  BY <1>6 DEF CollabTypeOK, Truthful, Settled
<1>7. CASE m = [kind |-> "status", op |-> jobOp] /\ JobLogSynced
  <2>1. jobOp \in Op /\ HasJob(jobOp) /\ opLog'[jobOp] = "synced" /\ Lands(jobOp)
    BY <1>1, <1>7 DEF JobLogSynced, TypeOK, HasJob, IInv, PatchLands
  <2>2. opPc[jobOp] # "new"
    BY <2>1 DEF IInv, JobsAccepted, Unqueued
  <2>3. jobOp \in submitted
    BY <2>1, <2>2 DEF CollabTypeOK
  <2>. DEFINE o == jobOp
  <2>4. o \in submitted' /\ Lands(o)' /\ Settled(o)' /\ m.op = jobOp /\ jobOp' = jobOp
    BY <1>2, <1>3, <1>7, <2>1, <2>3 DEF Settled, JobLogSynced, JobGoes, Lands, Rev
  <2>. QED  BY <1>7, <2>4 DEF Truthful, Lands, Rev, Settled
<1>8. CASE /\ m = [kind |-> "updated", ticket |-> OpTicket[jobOp], view |-> ViewOf(jobCopy)]
           /\ JobMarkError
  <2>1. jobOp \in Op /\ HasJob(jobOp) /\ jobPc = "reread" /\ jobOp' = jobOp /\ opLog' = opLog
    BY <1>1, <1>8 DEF JobMarkError, JobGoes, TypeOK, HasJob
  <2>2. jobCopy.status = "error" /\ opLog[jobOp] \in {"synced", "failed"}
    BY <2>1 DEF CollabInv, RereadInError, LogInv, EndsAnswered, Ending
  <2>3. opPc[jobOp] # "new"
    BY <2>1 DEF IInv, JobsAccepted, Unqueued
  <2>4. jobOp \in submitted
    BY <2>1, <2>3 DEF CollabTypeOK
  <2>5. m.kind = "updated" /\ m.view.status = "error" /\ m.ticket = OpTicket[jobOp]
    BY <1>8, <2>2 DEF ViewOf
  <2>6. \E o \in submitted' : OpTicket[o] = m.ticket /\ Settled(o)'
    BY <1>2, <2>1, <2>2, <2>4, <2>5 DEF Settled
  <2>. QED  BY <2>5, <2>6 DEF Truthful
<1>. QED  BY <1>4, <1>5, <1>6, <1>7, <1>8, MessagesSent

-----------------------------------------------------------------------------
(* What the tickets say *)

\* The shapes a ticket in a browser can take after a step: as it was; edited by an
\* operation; 'synced' or replaced because an operation was settled; or replaced by
\* the answer to a poll, if it was 'synced'.
Edited(c, t, o) ==
  /\ o \in submitted' /\ OpTicket[o] = t
  /\ store'[c][t] = [val |-> Put(store[c][t].val, {OpField[o]}, o), status |-> "pending"]

MarkedSynced(c, t, o) ==
  /\ o \in submitted /\ OpTicket[o] = t /\ Settled(o)
  /\ c = Author[o] \/ Lands(o)
  /\ store'[c][t].val = store[c][t].val

ReplacedByError(c, t, o) ==
  /\ o \in submitted /\ OpTicket[o] = t /\ Settled(o)
  /\ store'[c][t].status = "error"

Polled(c, t, s) ==
  /\ store[c][t].status = "synced"
  /\ reply[s] # None /\ reply[s][t] # None
  /\ store'[c][t] = ViewOf(reply[s][t])

LEMMA StoreEffect ==
  ASSUME CollabTypeOK, CollabInv, [CollabNext]_collabVars, NEW c \in Client, NEW t \in Ticket
  PROVE  \/ store'[c][t] = store[c][t]
         \/ \E o \in Op : \/ Edited(c, t, o) \/ MarkedSynced(c, t, o)
                          \/ ReplacedByError(c, t, o)
         \/ \E s \in Sync : Polled(c, t, s)
<1>0. store \in [Client -> [Ticket -> View]] /\ submitted \subseteq Op
  BY DEF CollabTypeOK
<1>1. ASSUME NEW d \in Client, NEW o \in Op, ApplyOperation(d, o), o \in submitted'
      PROVE  store'[c][t] = store[c][t] \/ Edited(c, t, o)
  <2>1. CASE c = d /\ t = OpTicket[o]
    BY <1>0, <1>1, <2>1 DEF ApplyOperation, Edited
  <2>2. CASE c # d \/ t # OpTicket[o]
    BY <1>0, <1>1, <2>2 DEF ApplyOperation
  <2>. QED  BY <2>1, <2>2
<1>2. ASSUME NEW o \in Op, Submit(o)
      PROVE  store'[c][t] = store[c][t] \/ Edited(c, t, o)
  BY <1>1, <1>2, CollabAssumption DEF Submit
<1>3. ASSUME NEW d \in Client, ListenStep(d)
      PROVE  store'[c][t] = store[c][t]
             \/ \E o \in Op : \/ Edited(c, t, o) \/ MarkedSynced(c, t, o)
                              \/ ReplacedByError(c, t, o)
  <2>. DEFINE m == Head(room[d])
  <2>1. room[d] # <<>> /\ submitted' = submitted
    BY <1>3 DEF ListenStep, OnApplied, OnRejected, OnSyncStatus, OnUpdated, Listen
  <2>2. room[d] \in Seq(Message) /\ 1 \in 1 .. Len(room[d]) /\ m = room[d][1]
    BY <2>1 DEF CollabTypeOK
  <2>3. m \in Message /\ Truthful(d, m)
    BY <2>2 DEF UnderWay, CollabInv, MessagesTruthful
  <2>4. CASE OnApplied(d)
    <3>1. m.kind = "applied" /\ ApplyOperation(d, m.op)
      BY <2>4 DEF OnApplied, Listen
    <3>2. m.op \in submitted
      BY <2>3, <3>1 DEF Truthful
    <3>. QED  BY <1>0, <1>1, <2>1, <3>1, <3>2
  <2>5. CASE OnRejected(d) \/ OnSyncStatus(d)
    <3>. DEFINE o == m.op
    <3>1. m.kind \in {"rejected", "status"} /\ SetStatus(d, OpTicket[o], "synced")
      BY <2>5 DEF OnRejected, OnSyncStatus, Listen
    <3>2. o \in submitted /\ Settled(o) /\ (d = Author[o] \/ Lands(o))
      BY <2>3, <3>1 DEF Truthful
    <3>3. OpTicket[o] \in Ticket /\ o \in Op
      BY <1>0, <3>2, OpAssumption
    <3>. HIDE DEF o
    <3>4. \A v \in View : [v EXCEPT !.status = "synced"].val = v.val
      BY DEF View
    <3>5. CASE c = d /\ t = OpTicket[o]
      <4>1. store'[c][t] = [store[c][t] EXCEPT !.status = "synced"] /\ store[c][t] \in View
        BY <1>0, <3>1, <3>3, <3>5 DEF SetStatus
      <4>2. store'[c][t].val = store[c][t].val
        BY <3>4, <4>1
      <4>. QED  BY <3>2, <3>3, <3>5, <4>2 DEF MarkedSynced
    <3>6. CASE c # d \/ t # OpTicket[o]
      BY <1>0, <3>1, <3>6 DEF SetStatus
    <3>. QED  BY <3>5, <3>6
  <2>6. CASE OnUpdated(d)
    <3>1. m.kind = "updated" /\ store' = [store EXCEPT ![d][m.ticket] = m.view]
      BY <2>6 DEF OnUpdated, Listen
    <3>2. /\ m.view.status = "error"
          /\ \E o \in submitted : OpTicket[o] = m.ticket /\ Settled(o)
      BY <2>3, <3>1 DEF Truthful
    <3>3. CASE c = d /\ t = m.ticket
      BY <1>0, <3>1, <3>2, <3>3 DEF ReplacedByError
    <3>4. CASE c # d \/ t # m.ticket
      BY <1>0, <3>1, <3>4
    <3>. QED  BY <3>3, <3>4
  <2>. QED  BY <1>3, <2>4, <2>5, <2>6 DEF ListenStep
<1>4. ASSUME NEW s \in Sync, PollAnswer(s)
      PROVE  store'[c][t] = store[c][t] \/ Polled(c, t, s)
  <2>1. CASE c = Caller[s] /\ reply[s][t] # None /\ store[c][t].status = "synced"
    BY <1>0, <1>4, <2>1 DEF PollAnswer, Polled
  <2>2. CASE ~(c = Caller[s] /\ reply[s][t] # None /\ store[c][t].status = "synced")
    BY <1>0, <1>4, <2>2 DEF PollAnswer
  <2>. QED  BY <2>1, <2>2
<1>5. CASE store' = store
  BY <1>5
<1>. QED
  BY <1>2, <1>3, <1>4, <1>5
     DEF CollabNext, collabVars, clientVars, HandlerStep, HandleOperation, HandleMissing, HandleUnidentified,
         HandleFails, HandleGoesOn, HandleApplied, ServerStays, PromoteJob, RescueJob, ProcessStep,
         ProcessSynced, ProcessError, ProcessGoesOn, PollFetch, PollSetTickets, PollCached,
         PollStays, Disconnect, Reconnect, Identify, OutsideEdit, Restart

\* A submission applies the operation in its author's browser.
LEMMA SubmitEffect ==
  ASSUME CollabTypeOK, [CollabNext]_collabVars, NEW o \in submitted', o \notin submitted
  PROVE  Submit(o)
<1>1. (\E p \in Op : HandlerStep(p)) \/ ProcessStep => submitted' = submitted
  BY DEF HandlerStep, HandleOperation, HandleMissing, HandleUnidentified, HandleFails, HandleGoesOn, HandleApplied,
         ProcessStep, ProcessSynced, ProcessError, ProcessGoesOn, ServerStays
<1>2. (\E c \in Client : ListenStep(c) \/ Disconnect(c) \/ Reconnect(c) \/ Identify(c)) => submitted' = submitted
  BY DEF ListenStep, OnApplied, OnRejected, OnSyncStatus, OnUpdated, Listen, Disconnect, Reconnect, Identify
<1>3. \E p \in Op : Submit(p)
  BY <1>1, <1>2
     DEF CollabNext, collabVars, clientVars, PromoteJob, RescueJob, PollFetch, PollSetTickets, PollCached,
         PollStays, PollAnswer, OutsideEdit, Restart
<1>. QED  BY <1>3 DEF Submit

\* The ticket of an author stays 'pending' until one of its operations is settled.
LEMMA PendingStep ==
  ASSUME CollabTypeOK, CollabTypeOK', LogInv, CollabInv, [CollabNext]_collabVars
  PROVE  PendingUntilSettled'
<1>. SUFFICES ASSUME NEW o \in submitted',
                     \A p \in submitted' : OpTicket[p] = OpTicket[o] => ~Settled(p)'
              PROVE  store'[Author[o]][OpTicket[o]].status = "pending"
  BY DEF PendingUntilSettled
<1>. DEFINE c == Author[o]
            t == OpTicket[o]
<1>1. o \in Op /\ c \in Client /\ t \in Ticket
  BY OpAssumption, CollabAssumption DEF CollabTypeOK
<1>2. \A p \in submitted : OpTicket[p] = t => ~Settled(p)
  BY SubmittedStays, SettledStays, PipelineStep DEF CollabTypeOK
<1>3. CASE o \notin submitted
  <2>1. ApplyOperation(c, o) /\ store \in [Client -> [Ticket -> View]]
    BY <1>3, SubmitEffect DEF Submit, CollabTypeOK
  <2>. QED  BY <1>1, <2>1 DEF ApplyOperation
<1>4. CASE o \in submitted
  <2>1. store[c][t].status = "pending"
    BY <1>2, <1>4 DEF CollabInv, PendingUntilSettled
  <2>2. store'[c][t] = store[c][t] \/ \E p \in Op : Edited(c, t, p)
    BY <1>1, <1>2, <2>1, StoreEffect DEF MarkedSynced, ReplacedByError, Polled
  <2>3. ASSUME NEW p \in Op, Edited(c, t, p) PROVE store'[c][t].status = "pending"
    BY <2>3 DEF Edited
  <2>. QED  BY <2>1, <2>2, <2>3
<1>. QED  BY <1>3, <1>4

\* A user's own edit stays on the screen.
LEMMA EditStep ==
  ASSUME CollabTypeOK, CollabTypeOK', LogInv, CollabInv, [CollabNext]_collabVars
  PROVE  EditStaysUntilSettled'
<1>. SUFFICES ASSUME NEW o \in submitted',
                     \A p \in submitted' : OpTicket[p] = OpTicket[o] =>
                       ~Settled(p)' /\ (p = o \/ OpField[p] # OpField[o])
              PROVE  store'[Author[o]][OpTicket[o]].val[OpField[o]] = o
  BY DEF EditStaysUntilSettled
<1>. DEFINE c == Author[o]
            t == OpTicket[o]
            f == OpField[o]
<1>1. o \in Op /\ c \in Client /\ t \in Ticket /\ f \in Field
      /\ store \in [Client -> [Ticket -> View]]
  BY OpAssumption, CollabAssumption DEF CollabTypeOK
<1>2. submitted \subseteq submitted'
      /\ \A p \in submitted : OpTicket[p] = t => ~Settled(p)
  BY SubmittedStays, SettledStays, PipelineStep DEF CollabTypeOK
<1>3. CASE o \notin submitted
  <2>1. ApplyOperation(c, o)
    BY <1>3, SubmitEffect DEF Submit
  <2>2. store'[c][t].val = Put(store[c][t].val, {f}, o)
    BY <1>1, <2>1 DEF ApplyOperation
  <2>. QED  BY <1>1, <2>2 DEF Put
<1>4. CASE o \in submitted
  <2>1. store[c][t].status = "pending" /\ store[c][t].val[f] = o
    BY <1>2, <1>4 DEF CollabInv, PendingUntilSettled, EditStaysUntilSettled
  <2>2. store'[c][t] = store[c][t] \/ \E p \in Op : Edited(c, t, p)
    BY <1>1, <1>2, <2>1, StoreEffect DEF MarkedSynced, ReplacedByError, Polled
  <2>3. ASSUME NEW p \in Op, Edited(c, t, p) PROVE store'[c][t].val[f] = o
    <3>1. p = o \/ OpField[p] # f
      BY <2>3 DEF Edited
    <3>2. store'[c][t].val = Put(store[c][t].val, {OpField[p]}, p)
      BY <2>3 DEF Edited
    <3>. QED  BY <1>1, <2>1, <3>1, <3>2 DEF Put
  <2>. QED  BY <2>1, <2>2, <2>3
<1>. QED  BY <1>3, <1>4

\* What the cache becomes, entry by entry.
LEMMA CacheEffect ==
  ASSUME TypeOK, RereadInError, [Next]_vars, NEW t \in Ticket, cache'[t] # None
  PROVE  \/ cache'[t] = cache[t]
         \/ cache'[t].status \in {"pending", "error"}
         \/ cache'[t] = jobCopy /\ jobPc = "patched" /\ t = OpTicket[jobOp]
         \/ \E s \in Sync : cache'[t] = fetched[s][t]
<1>0. cache \in [Ticket -> Entry \cup {None}]
  BY DEF TypeOK
<1>1. ASSUME NEW o \in Op, OpStep(o)
      PROVE  cache'[t] = cache[t] \/ cache'[t].status = "pending"
  <2>1. CASE OpUpdateTicket(o)
    BY <1>0, <2>1 DEF OpUpdateTicket
  <2>2. CASE ~OpUpdateTicket(o)
    BY <1>1, <2>2 DEF OpStep, OpGetTicket, OpTicketMissing, OpUnidentified, OpCreateLog, OpEnqueue, OpApplied,
                      OpFails
  <2>. QED  BY <2>1, <2>2
<1>2. CASE JobStep
  <2>1. CASE JobUpdateTicket
    BY <1>0, <2>1 DEF JobUpdateTicket
  <2>2. CASE JobMarkError
    BY <1>0, <2>2 DEF JobMarkError, RereadInError
  <2>3. CASE ~JobUpdateTicket /\ ~JobMarkError
    BY <1>2, <2>3 DEF JobStep, JobTake, JobGetTicket, JobPatch, JobPatchFails, JobPatchReplyLost,
                      JobLogSynced, JobStoreFails, JobRetry, JobLogFailed, JobRereadTicket,
                      JobCatchFails, JobEnd
  <2>. QED  BY <2>1, <2>2, <2>3
<1>3. ASSUME NEW s \in Sync, SyncStep(s)
      PROVE  cache'[t] = cache[t] \/ cache'[t] = fetched[s][t]
  BY <1>3 DEF SyncStep, SyncFetch, SyncSetTickets
<1>4. CASE UNCHANGED vars \/ Crash \/ (\E o \in Op : Promote(o) \/ StalledCheck(o))
           \/ (\E u \in Ticket : AdoEdit(u) \/ AdoMoveOut(u))
  BY <1>4 DEF vars, Crash, Promote, StalledCheck, AdoEdit, AdoMoveOut
<1>. QED  BY <1>1, <1>2, <1>3, <1>4 DEF Next

\* What a sync call has read, entry by entry.
LEMMA FetchedEffect ==
  ASSUME TypeOK, [Next]_vars, NEW s \in Sync, NEW t \in Ticket, fetched'[s][t] # None
  PROVE  fetched'[s][t] \in {fetched[s][t], ToTicket(t)}
<1>0. fetched \in [Sync -> [Ticket -> Entry \cup {None}]]
  BY DEF TypeOK
<1>1. ASSUME NEW r \in Sync, SyncFetch(r) PROVE fetched'[s][t] \in {fetched[s][t], ToTicket(t)}
  <2>1. fetched' = [fetched EXCEPT ![r] =
          [u \in Ticket |-> IF u \in inQuery THEN ToTicket(u) ELSE None]]
    BY <1>1 DEF SyncFetch
  <2>. QED  BY <1>0, <2>1
<1>2. ASSUME NEW r \in Sync, SyncSetTickets(r) PROVE fetched'[s][t] = fetched[s][t]
  BY <1>0, <1>2 DEF SyncSetTickets, NoTickets
<1>3. CASE Crash
  BY <1>3 DEF Crash, NoTickets
<1>4. CASE JobStep \/ UNCHANGED vars \/ (\E o \in Op : Promote(o) \/ StalledCheck(o))
           \/ (\E u \in Ticket : AdoEdit(u) \/ AdoMoveOut(u))
  <2>1. JobStep => fetched' = fetched
    BY DEF JobStep, JobStays, syncVars, JobTake, JobGetTicket, JobPatch, JobPatchFails,
           JobPatchReplyLost, JobUpdateTicket, JobLogSynced, JobStoreFails, JobRetry,
           JobLogFailed, JobRereadTicket, JobMarkError, JobCatchFails, JobEnd
  <2>. QED  BY <1>4, <2>1 DEF vars, syncVars, Promote, StalledCheck, JobStays, AdoEdit, AdoMoveOut
<1>5. ASSUME NEW o \in Op, OpStep(o) PROVE fetched' = fetched
  BY <1>5, OpEffect
<1>. QED  BY <1>1, <1>2, <1>3, <1>4, <1>5 DEF Next, SyncStep

\* The copies of the server, and the answers it sends, stay vouched.
LEMMA VouchedStep ==
  ASSUME CollabTypeOK, IInv, CollabInv, [CollabNext]_collabVars
  PROVE  CopiesVouched'
<1>1. TypeOK /\ [Next]_vars /\ RereadInError /\ CopiesVouched
  BY PipelineStep DEF CollabTypeOK, CollabInv
<1>0. \A o \in Op : Lands(o) => Lands(o)'
  BY <1>1, LandsStays
<1>2. ASSUME NEW t \in Ticket, cache'[t] # None PROVE Vouched(cache[t], t)'
  <2>1. CASE cache'[t] = cache[t]
    <3>1. Vouched(cache[t], t)
      BY <1>1, <1>2, <2>1 DEF CopiesVouched
    <3>. QED  BY <1>0, <2>1, <3>1 DEF Vouched
  <2>2. CASE cache'[t].status \in {"pending", "error"}
    BY <2>2 DEF Vouched
  <2>3. CASE cache'[t] = jobCopy /\ jobPc = "patched" /\ t = OpTicket[jobOp]
    <3>1. jobOp \in Op /\ Lands(jobOp)
      BY <1>1, <2>3 DEF TypeOK, IInv, PatchLands
    <3>2. \A o \in Op : Alone(o) /\ OpTicket[o] = t => Lands(o)'
      BY <1>0, <2>3, <3>1 DEF Alone
    <3>. QED  BY <3>2 DEF Vouched, Alone
  <2>4. ASSUME NEW s \in Sync, cache'[t] = fetched[s][t] PROVE Vouched(cache[t], t)'
    <3>1. Vouched(fetched[s][t], t)
      BY <1>1, <1>2, <2>4 DEF CopiesVouched
    <3>. QED  BY <1>0, <2>4, <3>1 DEF Vouched
  <2>. QED  BY <1>1, <1>2, <2>1, <2>2, <2>3, <2>4, CacheEffect
<1>3. ASSUME NEW s \in Sync, NEW t \in Ticket, fetched'[s][t] # None
      PROVE  Vouched(fetched[s][t], t)'
  <2>1. CASE fetched'[s][t] = fetched[s][t]
    <3>1. Vouched(fetched[s][t], t)
      BY <1>1, <1>3, <2>1 DEF CopiesVouched
    <3>. QED  BY <1>0, <2>1, <3>1 DEF Vouched
  <2>2. CASE fetched'[s][t] = ToTicket(t)
    <3>1. Rev(t) \in 1 .. Rev(t)
      BY <1>1 DEF TypeOK, Rev
    <3>2. ToTicket(t).val = ado[t][Rev(t)]
      BY DEF ToTicket, Latest
    <3>3. \A o \in Op : OpTicket[o] = t /\ fetched'[s][t].val[OpField[o]] = o => Lands(o)
      BY <2>2, <3>1, <3>2 DEF Lands
    <3>. QED  BY <1>0, <3>3 DEF Vouched
  <2>. QED  BY <1>1, <1>3, <2>1, <2>2, FetchedEffect
<1>4. ASSUME NEW s \in Sync, NEW t \in Ticket, reply'[s] # None, reply'[s][t] # None
      PROVE  Vouched(reply[s][t], t)'
  <2>0. reply \in [Sync -> [Ticket -> Entry \cup {None}] \cup {None}]
    BY DEF CollabTypeOK
  <2>1. CASE reply'[s] = reply[s]
    <3>1. Vouched(reply[s][t], t)
      BY <1>1, <1>4, <2>1 DEF CopiesVouched
    <3>. QED  BY <1>0, <2>1, <3>1 DEF Vouched
  <2>2. CASE reply'[s] = fetched[s]
    <3>1. Vouched(fetched[s][t], t)
      BY <1>1, <1>4, <2>2 DEF CopiesVouched
    <3>. QED  BY <1>0, <2>2, <3>1 DEF Vouched
  <2>3. CASE reply'[s] = cache
    <3>1. Vouched(cache[t], t)
      BY <1>1, <1>4, <2>3 DEF CopiesVouched
    <3>. QED  BY <1>0, <2>3, <3>1 DEF Vouched
  <2>4. reply'[s] \in {reply[s], fetched[s], cache, None}
    <3>1. ASSUME NEW r \in Sync, PollFetch(r) \/ PollSetTickets(r) \/ PollCached(r) \/ PollAnswer(r)
          PROVE  reply'[s] \in {reply[s], fetched[s], cache, None}
      BY <2>0, <3>1 DEF PollFetch, PollSetTickets, PollCached, PollAnswer
    <3>2. Restart => reply'[s] = None
      BY DEF Restart
    <3>3. ASSUME NEW c \in Client, ListenStep(c) \/ Disconnect(c) \/ Reconnect(c) \/ Identify(c)
          PROVE  reply' = reply
      BY <3>3 DEF ListenStep, OnApplied, OnRejected, OnSyncStatus, OnUpdated, Listen,
                  Disconnect, Reconnect, Identify
    <3>4. ASSUME (\E o \in Op : HandlerStep(o)) \/ ProcessStep PROVE reply' = reply
      BY <3>4 DEF HandlerStep, HandleOperation, HandleMissing, HandleUnidentified, HandleFails, HandleGoesOn,
                  HandleApplied, ProcessStep, ProcessSynced, ProcessError, ProcessGoesOn,
                  ServerStays
    <3>. QED
      BY <3>1, <3>2, <3>3, <3>4
         DEF CollabNext, collabVars, clientVars, Submit, PromoteJob, RescueJob, OutsideEdit
  <2>. QED  BY <1>4, <2>1, <2>2, <2>3, <2>4
<1>. QED  BY <1>2, <1>3, <1>4 DEF CopiesVouched

\* What colleagues see as saved is saved.
LEMMA SavedStep ==
  ASSUME CollabTypeOK, CollabInv, [CollabNext]_collabVars
  PROVE  SavedForOthersIsSaved'
<1>1. TypeOK /\ [Next]_vars
  BY PipelineStep DEF CollabTypeOK
<1>0. \A o \in Op : Lands(o) => Lands(o)'
  BY <1>1, LandsStays
<1>. SUFFICES ASSUME NEW o \in Op, NEW c \in Client \ {Author[o]}, Alone(o),
                     store'[c][OpTicket[o]].val[OpField[o]] = o,
                     store'[c][OpTicket[o]].status = "synced"
              PROVE  Lands(o)
  BY <1>0 DEF SavedForOthersIsSaved, Alone
<1>. DEFINE t == OpTicket[o]
<1>2. t \in Ticket
  BY OpAssumption
<1>3. CASE store'[c][t] = store[c][t]
  BY <1>3 DEF CollabInv, SavedForOthersIsSaved, Alone
<1>4. ASSUME NEW p \in Op, Edited(c, t, p) PROVE FALSE
  <2>1. store'[c][t].status = "pending"
    BY <1>4 DEF Edited
  <2>. QED  BY <2>1
<1>5. ASSUME NEW p \in Op, MarkedSynced(c, t, p) PROVE Lands(o)
  BY <1>5 DEF MarkedSynced, Alone
<1>6. ASSUME NEW p \in Op, ReplacedByError(c, t, p) PROVE FALSE
  BY <1>6 DEF ReplacedByError
<1>7. ASSUME NEW s \in Sync, Polled(c, t, s) PROVE Lands(o)
  <2>1. reply[s] # None /\ reply[s][t] # None /\ store'[c][t] = ViewOf(reply[s][t])
    BY <1>7 DEF Polled
  <2>2. Vouched(reply[s][t], t)
    BY <1>2, <2>1 DEF CollabInv, CopiesVouched
  <2>3. reply[s][t].val[OpField[o]] = o /\ reply[s][t].status = "synced"
    BY <2>1 DEF ViewOf
  <2>. QED  BY <2>2, <2>3 DEF Vouched
<1>. QED  BY <1>2, <1>3, <1>4, <1>5, <1>6, <1>7, StoreEffect

-----------------------------------------------------------------------------
(* Theorems *)

\* The invariant holds when the boards are opened.
LEMMA CollabStart == CollabInit => CollabInv
<1>. SUFFICES ASSUME CollabInit PROVE CollabInv
  OBVIOUS
<1>1. \A o \in Op : \A x : x = Original => x # o
  BY OpAssumption
<1>2. RereadInError
  BY DEF CollabInit, Init, RereadInError
<1>3. MessagesTruthful
  <2>1. \A c \in Client : room[c] = <<>>
    BY DEF CollabInit
  <2>2. Len(<<>>) = 0
    OBVIOUS
  <2>. QED  BY <2>1, <2>2 DEF MessagesTruthful, UnderWay
<1>4. \A t \in Ticket : \A f \in Field : cache[t].val[f] = Original
  BY DEF CollabInit, Init, ToTicket, Latest, Rev
<1>5. \A o \in Op : OpTicket[o] \in Ticket /\ OpField[o] \in Field
  BY OpAssumption
<1>6. CopiesVouched
  BY <1>1, <1>4, <1>5 DEF CollabInit, Init, NoTickets, CopiesVouched, Vouched
<1>7. PendingUntilSettled /\ EditStaysUntilSettled
  BY DEF CollabInit, PendingUntilSettled, EditStaysUntilSettled
<1>8. \A c \in Client : \A t \in Ticket : store[c][t].val = cache[t].val
  BY DEF CollabInit, ViewOf
<1>9. SavedForOthersIsSaved
  BY <1>1, <1>4, <1>5, <1>8 DEF SavedForOthersIsSaved
<1>. QED  BY <1>2, <1>3, <1>6, <1>7, <1>9 DEF CollabInv

\* Messages, copies and tickets of the browsers say what CollabInv lists, in every
\* reachable state of the composition.
THEOREM CollabInvariant == CollabSpec => []CollabInv
<1>. DEFINE Base == CollabTypeOK /\ IInv /\ LogInv
<1>1. Base /\ Base' /\ CollabInv /\ [CollabNext]_collabVars => CollabInv'
  <2>. SUFFICES ASSUME Base, Base', CollabInv, [CollabNext]_collabVars PROVE CollabInv'
    OBVIOUS
  <2>1. RereadInError'
    BY RereadStep, PipelineStep DEF CollabInv, CollabTypeOK
  <2>. QED
    BY <2>1, MessagesStep, VouchedStep, PendingStep, EditStep, SavedStep DEF CollabInv
<1>2. CollabSpec => []Base
  BY CollabTypes, PipelineHolds, PTL
<1>. QED  BY <1>1, <1>2, CollabStart, PTL DEF CollabSpec

\* A user's own edit stays on the screen until an operation on its ticket is settled or
\* somebody else edits the same field, whatever polls, echoes, lost connections and
\* restarts come in between.
THEOREM OwnEditsStay == CollabSpec => []EditStaysUntilSettled
<1>1. CollabInv => EditStaysUntilSettled
  BY DEF CollabInv
<1>. QED  BY <1>1, CollabInvariant, PTL

\* A browser shows the only edit of a ticket, by somebody else, as 'synced' only when
\* ADO has it.
THEOREM OthersSeeSavedEdits == CollabSpec => []SavedForOthersIsSaved
<1>1. CollabInv => SavedForOthersIsSaved
  BY DEF CollabInv
<1>. QED  BY <1>1, CollabInvariant, PTL
-----------------------------------------------------------------------------
(* The socket messages alone bring the browsers together *)

LEMMA ShownType ==
  ASSUME NEW ticket \in View, NEW cell \in Cells
  PROVE  Shown(ticket, cell) \in Value \cup Status
<1>1. CASE cell = <<>>
  BY <1>1 DEF Shown, View
<1>2. ASSUME NEW f \in Field, cell = <<f>> PROVE Shown(ticket, cell) \in Value \cup Status
  <2>1. cell # <<>> /\ cell[1] = f
    BY <1>2
  <2>. QED  BY <2>1 DEF Shown, View
<1>. QED  BY <1>1, <1>2 DEF Cells

LEMMA GivesType ==
  ASSUME NEW m \in Message, NEW cell \in Cells
  PROVE  Gives(m, cell) \in Value \cup Status
<1>1. CASE m.kind = "updated"
  <2>1. m.view \in View
    BY <1>1 DEF Message
  <2>. QED  BY <1>1, <2>1, ShownType DEF Gives
<1>2. CASE m.kind # "updated"
  <2>1. m.op \in Value
    BY <1>2 DEF Message, Value
  <2>. QED  BY <1>2, <2>1 DEF Gives, Status
<1>. QED  BY <1>1, <1>2

\* A message that is sent decides what the cells it touches will show, and no other.
LEMMA AfterSent ==
  ASSUME NEW q \in Seq(Message), NEW m \in Message, NEW ticket, NEW t, NEW cell
  PROVE  /\ Touches(m, t, cell) =>
              ShowsAfter(Append(q, m), ticket, t, cell, Gives(m, cell))
         /\ ~Touches(m, t, cell) =>
              \A v : ShowsAfter(q, ticket, t, cell, v)
                       => ShowsAfter(Append(q, m), ticket, t, cell, v)
<1>. DEFINE w == Append(q, m)
            n == Len(q)
<1>1. n \in Nat /\ Len(w) = n + 1 /\ w[n + 1] = m /\ \A i \in 1 .. n : w[i] = q[i]
  OBVIOUS
<1>. HIDE DEF w, n
<1>2. ASSUME Touches(m, t, cell) PROVE ShowsAfter(w, ticket, t, cell, Gives(m, cell))
  <2>1. n + 1 \in 1 .. Len(w) /\ \A j \in (n + 1) + 1 .. Len(w) : FALSE
    BY <1>1
  <2>. QED  BY <1>1, <1>2, <2>1 DEF ShowsAfter
<1>3. ASSUME ~Touches(m, t, cell), NEW v, ShowsAfter(q, ticket, t, cell, v)
      PROVE  ShowsAfter(w, ticket, t, cell, v)
  <2>1. CASE /\ \A i \in 1 .. n : ~Touches(q[i], t, cell)
             /\ v = Shown(ticket, cell)
    <3>1. \A i \in 1 .. Len(w) : i = n + 1 \/ i \in 1 .. n
      BY <1>1
    <3>2. \A i \in 1 .. Len(w) : ~Touches(w[i], t, cell)
      BY <1>1, <1>3, <2>1, <3>1
    <3>. QED  BY <2>1, <3>2 DEF ShowsAfter
  <2>2. ASSUME NEW i \in 1 .. n, Touches(q[i], t, cell), v = Gives(q[i], cell),
               \A j \in i + 1 .. n : ~Touches(q[j], t, cell)
        PROVE  ShowsAfter(w, ticket, t, cell, v)
    <3>1. i \in 1 .. Len(w) /\ w[i] = q[i]
      BY <1>1
    <3>2. \A j \in i + 1 .. Len(w) : j = n + 1 \/ (j \in i + 1 .. n /\ j \in 1 .. n)
      BY <1>1
    <3>3. \A j \in i + 1 .. Len(w) : ~Touches(w[j], t, cell)
      BY <1>1, <1>3, <2>2, <3>2
    <3>. QED  BY <2>2, <3>1, <3>3 DEF ShowsAfter
  <2>. QED  BY <1>3, <2>1, <2>2 DEF ShowsAfter, n
<1>. QED  BY <1>2, <1>3 DEF w

\* A message that arrives changes nothing of what the cells will show in the end.
LEMMA AfterArrived ==
  ASSUME NEW q \in Seq(Message), q # <<>>, NEW ticket, NEW next, NEW t, NEW cell,
         Shown(next, cell) = IF Touches(Head(q), t, cell) THEN Gives(Head(q), cell)
                             ELSE Shown(ticket, cell),
         NEW v, ShowsAfter(q, ticket, t, cell, v)
  PROVE  ShowsAfter(Tail(q), next, t, cell, v)
<1>. DEFINE w == Tail(q)
            n == Len(q)
<1>1. /\ n \in Nat /\ n >= 1 /\ Len(w) = n - 1 /\ Head(q) = q[1]
      /\ \A i \in 1 .. n - 1 : w[i] = q[i + 1]
  OBVIOUS
<1>. HIDE DEF w, n
<1>2. ASSUME \A i \in 2 .. n : ~Touches(q[i], t, cell), v = Shown(next, cell)
      PROVE  ShowsAfter(w, next, t, cell, v)
  <2>1. \A i \in 1 .. Len(w) : i \in 1 .. n - 1 /\ i + 1 \in 2 .. n
    BY <1>1
  <2>2. \A i \in 1 .. Len(w) : ~Touches(w[i], t, cell)
    BY <1>1, <1>2, <2>1
  <2>. QED  BY <1>2, <2>2 DEF ShowsAfter
<1>3. CASE (\A i \in 1 .. n : ~Touches(q[i], t, cell)) /\ v = Shown(ticket, cell)
  <2>1. 1 \in 1 .. n /\ \A i \in 2 .. n : i \in 1 .. n
    BY <1>1
  <2>2. v = Shown(next, cell)
    BY <1>1, <1>3, <2>1
  <2>3. \A i \in 2 .. n : ~Touches(q[i], t, cell)
    BY <1>3, <2>1
  <2>. QED  BY <1>2, <2>2, <2>3 DEF w
<1>4. ASSUME NEW i \in 1 .. n, Touches(q[i], t, cell), v = Gives(q[i], cell),
             \A j \in i + 1 .. n : ~Touches(q[j], t, cell)
      PROVE  ShowsAfter(w, next, t, cell, v)
  <2>1. CASE i = 1
    <3>1. v = Shown(next, cell)
      BY <1>1, <1>4, <2>1
    <3>. QED  BY <1>2, <1>4, <2>1, <3>1
  <2>2. CASE i # 1
    <3>. DEFINE k == i - 1
    <3>1. k \in 1 .. Len(w) /\ k \in 1 .. n - 1 /\ k + 1 = i
      BY <1>1, <2>2
    <3>2. \A j \in k + 1 .. Len(w) : j \in 1 .. n - 1 /\ j + 1 \in i + 1 .. n
      BY <1>1, <3>1
    <3>3. w[k] = q[i] /\ \A j \in k + 1 .. Len(w) : ~Touches(w[j], t, cell)
      BY <1>1, <1>4, <3>1, <3>2
    <3>. QED  BY <1>4, <3>1, <3>3 DEF ShowsAfter
  <2>. QED  BY <2>1, <2>2
<1>. QED  BY <1>3, <1>4 DEF ShowsAfter, w, n

\* What arrives shows in the cells it touches, and no other cell changes.
LEMMA Arrives ==
  ASSUME CollabTypeOK, NEW c \in Client, ListenStep(c), NEW t \in Ticket, NEW cell \in Cells
  PROVE  Shown(store'[c][t], cell) = IF Touches(Head(room[c]), t, cell)
                                     THEN Gives(Head(room[c]), cell)
                                     ELSE Shown(store[c][t], cell)
<1>. DEFINE m == Head(room[c])
            old == store[c][t]
            new == store'[c][t]
<1>1. store \in [Client -> [Ticket -> View]] /\ room[c] \in Seq(Message) /\ room[c] # <<>>
  BY DEF CollabTypeOK, ListenStep, OnApplied, OnRejected, OnSyncStatus, OnUpdated, Listen
<1>2. m \in Message /\ old \in View
  BY <1>1
<1>3. cell = <<>> \/ \E f \in Field : cell = <<f>> /\ cell # <<>> /\ cell[1] = f
  BY DEF Cells
<1>4. CASE OnApplied(c)
  <2>. DEFINE o == m.op
  <2>1. m.kind = "applied" /\ ApplyOperation(c, o)
    BY <1>4 DEF OnApplied, Listen
  <2>2. o \in Op /\ OpTicket[o] \in Ticket
    BY <1>2, <2>1, OpAssumption DEF Message
  <2>3. CASE OpTicket[o] = t
    <3>1. new = [val |-> Put(old.val, {OpField[o]}, o), status |-> "pending"]
      BY <1>1, <2>1, <2>3 DEF ApplyOperation
    <3>2. \A f \in Field : new.val[f] = IF f = OpField[o] THEN o ELSE old.val[f]
      BY <3>1 DEF Put
    <3>. HIDE DEF o
    <3>3. CASE cell = <<>>
      BY <2>1, <2>3, <3>1, <3>3 DEF Touches, Gives, Shown, o
    <3>4. ASSUME NEW f \in Field, cell = <<f>>, cell # <<>>, cell[1] = f
          PROVE  Shown(new, cell) = IF Touches(m, t, cell) THEN Gives(m, cell)
                                    ELSE Shown(old, cell)
      <4>1. cell = <<OpField[o]>> <=> f = OpField[o]
        BY <3>4
      <4>2. Touches(m, t, cell) <=> f = OpField[o]
        BY <2>1, <2>3, <3>4, <4>1 DEF Touches, o
      <4>3. Gives(m, cell) = o
        BY <2>1, <3>4 DEF Gives, o
      <4>. QED  BY <3>2, <3>4, <4>2, <4>3 DEF Shown
    <3>. QED  BY <1>3, <3>3, <3>4
  <2>4. CASE OpTicket[o] # t
    <3>1. new = old
      BY <1>1, <2>1, <2>4 DEF ApplyOperation
    <3>2. ~Touches(m, t, cell)
      BY <2>1, <2>4 DEF Touches
    <3>. QED  BY <3>1, <3>2
  <2>. QED  BY <2>3, <2>4
<1>5. CASE OnRejected(c) \/ OnSyncStatus(c)
  <2>. DEFINE o == m.op
  <2>1. m.kind \in {"rejected", "status"} /\ SetStatus(c, OpTicket[o], "synced")
    BY <1>5 DEF OnRejected, OnSyncStatus, Listen
  <2>2. o \in Op /\ OpTicket[o] \in Ticket
    BY <1>2, <2>1, OpAssumption DEF Message
  <2>3. Touches(m, t, cell) <=> OpTicket[o] = t /\ cell = <<>>
    BY <2>1 DEF Touches
  <2>4. CASE OpTicket[o] = t
    <3>1. new = [old EXCEPT !.status = "synced"]
      BY <1>1, <2>1, <2>4 DEF SetStatus
    <3>2. new.status = "synced" /\ new.val = old.val
      BY <1>2, <3>1 DEF View
    <3>3. Gives(m, cell) = "synced"
      BY <2>1 DEF Gives
    <3>. QED  BY <1>3, <2>3, <2>4, <3>2, <3>3 DEF Shown
  <2>5. CASE OpTicket[o] # t
    <3>1. new = old
      BY <1>1, <2>1, <2>5 DEF SetStatus
    <3>. QED  BY <2>3, <2>5, <3>1
  <2>. QED  BY <2>4, <2>5
<1>6. CASE OnUpdated(c)
  <2>1. m.kind = "updated" /\ store' = [store EXCEPT ![c][m.ticket] = m.view]
    BY <1>6 DEF OnUpdated, Listen
  <2>2. Touches(m, t, cell) <=> m.ticket = t
    BY <2>1 DEF Touches
  <2>3. Gives(m, cell) = Shown(m.view, cell)
    BY <2>1 DEF Gives
  <2>4. new = IF m.ticket = t THEN m.view ELSE old
    BY <1>1, <2>1
  <2>. QED  BY <2>2, <2>3, <2>4
<1>. QED  BY <1>4, <1>5, <1>6 DEF ListenStep

\* What keeps two browsers in agreement: what each will show, and what is unechoed.
LEMMA AgreeStays ==
  ASSUME NEW c \in Client, NEW d \in Client, NEW t \in Ticket, NEW cell \in Cells,
         WillAgree(c, d, t, cell),
         \A v : WillShow(c, t, cell, v) => WillShow(c, t, cell, v)',
         \A v : WillShow(d, t, cell, v) => WillShow(d, t, cell, v)',
         Unechoed(c, t, cell) => Unechoed(c, t, cell)',
         Unechoed(d, t, cell) => Unechoed(d, t, cell)'
  PROVE  WillAgree(c, d, t, cell)'
BY DEF WillAgree

\* A message sent to every browser keeps them in agreement, if what its operation had
\* changed is what it touches.
LEMMA AgreeSent ==
  ASSUME CollabTypeOK, NEW m \in Message,
         room' = [e \in Client |-> Append(room[e], m)], store' = store,
         NEW c \in Client, NEW d \in Client, NEW t \in Ticket, NEW cell \in Cells,
         WillAgree(c, d, t, cell),
         ~Touches(m, t, cell) => /\ Unechoed(c, t, cell) => Unechoed(c, t, cell)'
                                 /\ Unechoed(d, t, cell) => Unechoed(d, t, cell)'
  PROVE  WillAgree(c, d, t, cell)'
<1>1. \A e \in Client : room[e] \in Seq(Message) /\ room'[e] = Append(room[e], m)
  BY DEF CollabTypeOK
<1>2. CASE Touches(m, t, cell)
  <2>1. ASSUME NEW e \in Client PROVE WillShow(e, t, cell, Gives(m, cell))'
    <3>1. ShowsAfter(room'[e], store'[e][t], t, cell, Gives(m, cell))
      BY <1>1, <1>2, AfterSent
    <3>. QED  BY <3>1 DEF WillShow
  <2>2. Gives(m, cell) \in Value \cup Status
    BY GivesType
  <2>. QED  BY <2>1, <2>2 DEF WillAgree
<1>3. CASE ~Touches(m, t, cell)
  <2>1. ASSUME NEW e \in Client, NEW v, WillShow(e, t, cell, v) PROVE WillShow(e, t, cell, v)'
    <3>1. ShowsAfter(room'[e], store'[e][t], t, cell, v)
      BY <1>1, <1>3, <2>1, AfterSent DEF WillShow
    <3>. QED  BY <3>1 DEF WillShow
  <2>. QED  BY <1>3, <2>1, AgreeStays
<1>. QED  BY <1>2, <1>3

\* Nothing that was lost, or refused, is found again.
LEMMA NothingLostBefore ==
  ASSUME CollabTypeOK, [CollabNext]_collabVars, NothingLost'
  PROVE  /\ NothingLost
         /\ ~(\E c \in Client : Disconnect(c)) /\ ~Restart
         /\ ~(\E o \in Op : HandleMissing(o) \/ HandleUnidentified(o) \/ HandleFails(o))
<1>1. [Next]_vars /\ TypeOK /\ drops \in Nat /\ crashes \in Nat
  BY PipelineStep DEF CollabTypeOK, TypeOK
<1>2. ~(\E c \in Client : Disconnect(c)) /\ ~Restart
  BY <1>1 DEF NothingLost, Disconnect, Restart, Crash
<1>3. ~(\E o \in Op : HandleMissing(o) \/ HandleUnidentified(o) \/ HandleFails(o))
  BY <1>1 DEF NothingLost, HandleMissing, HandleUnidentified, HandleFails, OpTicketMissing, OpUnidentified, OpFails, TypeOK
<1>4. drops = 0
  <2>1. (\E o \in Op : HandlerStep(o)) \/ ProcessStep => drops' = drops
    BY DEF HandlerStep, HandleOperation, HandleMissing, HandleUnidentified, HandleFails, HandleGoesOn,
           HandleApplied, ProcessStep, ProcessSynced, ProcessError, ProcessGoesOn, ServerStays
  <2>2. (\E c \in Client : ListenStep(c) \/ Reconnect(c) \/ Identify(c)) => drops' = drops
    BY DEF ListenStep, OnApplied, OnRejected, OnSyncStatus, OnUpdated, Listen, Reconnect, Identify
  <2>3. drops' = drops
    BY <1>2, <2>1, <2>2
       DEF CollabNext, collabVars, clientVars, Submit, PromoteJob, RescueJob, PollFetch, PollSetTickets,
           PollCached, PollStays, PollAnswer, OutsideEdit
  <2>. QED  BY <2>3 DEF NothingLost
<1>5. crashes = 0
  <2>1. ~Crash
    BY <1>1 DEF NothingLost, Crash
  <2>2. JobStep => crashes' = crashes
    BY DEF JobStep, JobStays, JobTake, JobGetTicket, JobPatch, JobPatchFails,
           JobPatchReplyLost, JobUpdateTicket, JobLogSynced, JobStoreFails, JobRetry,
           JobLogFailed, JobRereadTicket, JobMarkError, JobCatchFails, JobEnd
  <2>3. (\E o \in Op : OpStep(o)) => crashes' = crashes
    BY DEF OpStep, OpStays, OpGetTicket, OpTicketMissing, OpUnidentified, OpUpdateTicket, OpCreateLog,
           OpEnqueue, OpApplied, OpFails, budgets
  <2>4. crashes' = crashes
    BY <1>1, <2>1, <2>2, <2>3
       DEF Next, vars, budgets, Promote, StalledCheck, JobStays, SyncStep, SyncFetch, SyncSetTickets,
           AdoEdit, AdoMoveOut
  <2>. QED  BY <2>4 DEF NothingLost
<1>6. ASSUME NEW p \in Op, opPc[p] = "rejected" PROVE FALSE
  <2>1. opPc' = opPc \/ Crash \/ \E o \in Op : OpStep(o)
    BY <1>1, JobLogEffect
       DEF Next, vars, opVars, Promote, StalledCheck, JobStays, SyncStep, SyncFetch, SyncSetTickets,
           AdoEdit, AdoMoveOut
  <2>2. ASSUME NEW o \in Op, OpStep(o) PROVE opPc'[p] = "rejected"
    <3>1. opPc \in [Op -> OpProgress] /\ opPc[o] # "rejected"
      BY <1>1, <2>2 DEF TypeOK, OpStep, OpGetTicket, OpTicketMissing, OpUnidentified, OpUpdateTicket,
                        OpCreateLog, OpEnqueue, OpApplied, OpFails
    <3>. QED  BY <1>1, <1>6, <2>2, <3>1, OpEffect
  <2>3. Crash => opPc'[p] = "rejected"
    BY <1>6 DEF Crash
  <2>. QED  BY <1>6, <2>1, <2>2, <2>3 DEF NothingLost
<1>. QED  BY <1>2, <1>3, <1>4, <1>5, <1>6 DEF NothingLost

\* The steps of a handler keep the browsers in agreement: its echo touches what its author
\* has changed.
LEMMA AgreeHandler ==
  ASSUME CollabTypeOK, NEW o \in Op, HandleOperation(o) \/ HandleGoesOn(o) \/ HandleApplied(o),
         \A e \in Client : Joined(e),
         NEW c \in Client, NEW d \in Client, NEW t \in Ticket, NEW cell \in Cells,
         WillAgree(c, d, t, cell)
  PROVE  WillAgree(c, d, t, cell)'
<1>1. opPc \in [Op -> OpProgress] /\ submitted \subseteq Op
  BY DEF CollabTypeOK, TypeOK
<1>2. store' = store /\ submitted' = submitted
  BY DEF HandleOperation, HandleGoesOn, HandleApplied, ServerStays
<1>3. CASE HandleApplied(o)
  <2>. DEFINE m == [kind |-> "applied", op |-> o]
  <2>1. m \in Message /\ m.kind = "applied" /\ m.op = o
    BY DEF Message
  <2>2. room' = [e \in Client |-> Append(room[e], m)]
    BY <1>3 DEF HandleApplied, Broadcast
  <2>3. opPc' = [opPc EXCEPT ![o] = "applied"]
    BY <1>3 DEF HandleApplied, OpApplied
  <2>4. ASSUME NEW e \in Client, ~Touches(m, t, cell), Unechoed(e, t, cell)
        PROVE  Unechoed(e, t, cell)'
    <3>1. PICK p \in submitted : /\ Author[p] = e /\ OpTicket[p] = t
                                 /\ cell \in {<<>>, <<OpField[p]>>} /\ opPc[p] # "applied"
      BY <2>4 DEF Unechoed
    <3>2. p # o
      BY <2>1, <2>4, <3>1 DEF Touches
    <3>3. opPc'[p] # "applied" /\ p \in submitted'
      BY <1>1, <1>2, <2>3, <3>1, <3>2
    <3>. QED  BY <3>1, <3>3 DEF Unechoed
  <2>. HIDE DEF m
  <2>. QED  BY <1>2, <2>1, <2>2, <2>4, AgreeSent
<1>4. CASE HandleOperation(o) \/ HandleGoesOn(o)
  <2>1. room' = room
    BY <1>4 DEF HandleOperation, HandleGoesOn
  <2>2. \E pc \in OpProgress : pc # "applied" /\ opPc' = [opPc EXCEPT ![o] = pc]
    BY <1>4 DEF HandleOperation, HandleGoesOn, OpGetTicket, OpUpdateTicket, OpCreateLog,
                OpEnqueue, OpProgress
  <2>3. \A p \in submitted : opPc[p] # "applied" => opPc'[p] # "applied"
    BY <1>1, <2>2
  <2>4. \A e \in Client : Unechoed(e, t, cell) => Unechoed(e, t, cell)'
    BY <1>2, <2>3 DEF Unechoed
  <2>5. \A e \in Client : \A v : WillShow(e, t, cell, v) => WillShow(e, t, cell, v)'
    BY <1>2, <2>1 DEF WillShow
  <2>. QED  BY <2>4, <2>5, AgreeStays
<1>. QED  BY <1>3, <1>4

\* So do those of the worker: its messages change the same cells everywhere.
LEMMA AgreeWorker ==
  ASSUME CollabTypeOK, ProcessStep, \A e \in Client : Joined(e),
         NEW c \in Client, NEW d \in Client, NEW t \in Ticket, NEW cell \in Cells,
         WillAgree(c, d, t, cell)
  PROVE  WillAgree(c, d, t, cell)'
<1>1. store' = store /\ submitted' = submitted /\ opPc' = opPc
  <2>1. JobStep
    BY DEF ProcessStep, ProcessSynced, ProcessError, ProcessGoesOn, JobStep
  <2>. QED
    BY <2>1, JobLogEffect DEF CollabTypeOK, ProcessStep, ProcessSynced, ProcessError,
                              ProcessGoesOn, ServerStays
<1>2. \A e \in Client : Unechoed(e, t, cell) => Unechoed(e, t, cell)'
  BY <1>1 DEF Unechoed
<1>3. ASSUME NEW m \in Message, Broadcast(m) PROVE WillAgree(c, d, t, cell)'
  <2>1. room' = [e \in Client |-> Append(room[e], m)]
    BY <1>3 DEF Broadcast
  <2>. QED  BY <1>1, <1>2, <2>1, AgreeSent
<1>4. CASE ProcessSynced
  <2>1. jobOp \in Op /\ [kind |-> "status", op |-> jobOp] \in Message
    BY <1>4 DEF ProcessSynced, JobLogSynced, CollabTypeOK, TypeOK, Message
  <2>. QED  BY <1>3, <1>4, <2>1 DEF ProcessSynced
<1>5. CASE ProcessError
  <2>1. jobOp \in Op /\ jobCopy \in Entry /\ OpTicket[jobOp] \in Ticket
    BY <1>5, OpAssumption DEF ProcessError, JobMarkError, CollabTypeOK, TypeOK
  <2>2. [kind |-> "updated", ticket |-> OpTicket[jobOp], view |-> ViewOf(jobCopy)] \in Message
    BY <2>1, ViewType DEF Message
  <2>. QED  BY <1>3, <1>5, <2>2 DEF ProcessError
<1>6. CASE ProcessGoesOn
  <2>1. room' = room
    BY <1>6 DEF ProcessGoesOn
  <2>2. \A e \in Client : \A v : WillShow(e, t, cell, v) => WillShow(e, t, cell, v)'
    BY <1>1, <2>1 DEF WillShow
  <2>. QED  BY <1>2, <2>2, AgreeStays
<1>. QED  BY <1>4, <1>5, <1>6 DEF ProcessStep

\* An edit changes the cells its author has not been echoed.
LEMMA AgreeSubmit ==
  ASSUME CollabTypeOK, NEW o \in Op, Submit(o), \A p \in Op : opPc[p] # "new" => p \in submitted,
         NEW c \in Client, NEW d \in Client, NEW t \in Ticket, NEW cell \in Cells,
         WillAgree(c, d, t, cell)
  PROVE  WillAgree(c, d, t, cell)'
<1>. DEFINE a == Author[o]
<1>1. /\ store \in [Client -> [Ticket -> View]] /\ a \in Client /\ OpTicket[o] \in Ticket
      /\ room' = room /\ opPc' = opPc /\ submitted' = submitted \cup {o}
      /\ ApplyOperation(a, o) /\ opPc[o] # "applied"
  BY OpAssumption, CollabAssumption DEF CollabTypeOK, Submit, vars, opVars
<1>2. \A e \in Client : Unechoed(e, t, cell) => Unechoed(e, t, cell)'
  BY <1>1 DEF Unechoed
<1>3. ASSUME NEW e \in Client, ~Unechoed(e, t, cell)', NEW v, WillShow(e, t, cell, v)
      PROVE  WillShow(e, t, cell, v)'
  <2>1. ~(e = a /\ OpTicket[o] = t /\ cell \in {<<>>, <<OpField[o]>>})
    BY <1>1, <1>3 DEF Unechoed
  <2>2. Shown(store'[e][t], cell) = Shown(store[e][t], cell)
    <3>1. CASE e # a \/ OpTicket[o] # t
      BY <1>1, <3>1 DEF ApplyOperation
    <3>2. CASE e = a /\ OpTicket[o] = t
      <4>1. store'[e][t].val = Put(store[e][t].val, {OpField[o]}, o)
        BY <1>1, <3>2 DEF ApplyOperation
      <4>2. PICK f \in Field : cell = <<f>>
        BY <2>1, <3>2 DEF Cells
      <4>3. cell # <<>> /\ cell[1] = f /\ f # OpField[o]
        BY <2>1, <3>2, <4>2
      <4>. QED  BY <4>1, <4>3 DEF Put, Shown
    <3>. QED  BY <3>1, <3>2
  <2>3. ShowsAfter(room[e], store[e][t], t, cell, v)
    BY <1>3 DEF WillShow
  <2>4. ShowsAfter(room'[e], store'[e][t], t, cell, v)
    BY <1>1, <2>2, <2>3 DEF ShowsAfter
  <2>. QED  BY <2>4 DEF WillShow
<1>. QED  BY <1>2, <1>3, AgreeStays DEF WillAgree

\* A message that arrives leaves what will be shown as it was.
LEMMA AgreeListen ==
  ASSUME CollabTypeOK, NEW b \in Client, ListenStep(b),
         NEW c \in Client, NEW d \in Client, NEW t \in Ticket, NEW cell \in Cells,
         WillAgree(c, d, t, cell)
  PROVE  WillAgree(c, d, t, cell)'
<1>1. /\ room \in [Client -> Seq(Message)] /\ store \in [Client -> [Ticket -> View]]
      /\ room[b] # <<>> /\ room' = [room EXCEPT ![b] = Tail(@)]
      /\ submitted' = submitted /\ opPc' = opPc
  BY DEF CollabTypeOK, ListenStep, OnApplied, OnRejected, OnSyncStatus, OnUpdated, Listen,
         vars, opVars
<1>2. \A e \in Client : Unechoed(e, t, cell) => Unechoed(e, t, cell)'
  BY <1>1 DEF Unechoed
<1>3. ASSUME NEW e \in Client, NEW v, WillShow(e, t, cell, v)
      PROVE  WillShow(e, t, cell, v)'
  <2>1. ShowsAfter(room[e], store[e][t], t, cell, v)
    BY <1>3 DEF WillShow
  <2>2. CASE e = b
    <3>1. ShowsAfter(Tail(room[e]), store'[e][t], t, cell, v)
      BY <1>1, <2>1, <2>2, Arrives, AfterArrived
    <3>. QED  BY <1>1, <2>2, <3>1 DEF WillShow
  <2>3. CASE e # b
    <3>1. store'[e] = store[e]
      BY <1>1, <2>3 DEF ListenStep, OnApplied, OnRejected, OnSyncStatus, OnUpdated,
                        ApplyOperation, SetStatus
    <3>. QED  BY <1>1, <2>1, <2>3, <3>1 DEF WillShow
  <2>. QED  BY <2>2, <2>3
<1>. QED  BY <1>2, <1>3, AgreeStays

\* The answer to a poll leaves the other browsers alone.
LEMMA AgreePoll ==
  ASSUME CollabTypeOK, NEW s \in Sync, PollAnswer(s), NothingLost,
         NEW c \in Client \ polled', NEW d \in Client \ polled',
         NEW t \in Ticket, NEW cell \in Cells, WillAgree(c, d, t, cell)
  PROVE  WillAgree(c, d, t, cell)'
<1>1. /\ store \in [Client -> [Ticket -> View]] /\ room' = room
      /\ submitted' = submitted /\ opPc' = opPc /\ c # Caller[s] /\ d # Caller[s]
  BY DEF CollabTypeOK, PollAnswer, RecordPoll, NothingLost, vars, opVars
<1>2. store'[c] = store[c] /\ store'[d] = store[d]
  BY <1>1 DEF PollAnswer
<1>3. Unechoed(c, t, cell) \/ Unechoed(d, t, cell)
        => (Unechoed(c, t, cell) \/ Unechoed(d, t, cell))'
  BY <1>1 DEF Unechoed
<1>4. \A v : /\ WillShow(c, t, cell, v) => WillShow(c, t, cell, v)'
             /\ WillShow(d, t, cell, v) => WillShow(d, t, cell, v)'
  BY <1>1, <1>2 DEF WillShow
<1>. QED  BY <1>3, <1>4 DEF WillAgree

LEMMA EchoesStep ==
  ASSUME CollabTypeOK, [CollabNext]_collabVars, EchoesComing
  PROVE  EchoesComing'
<1>. SUFFICES ASSUME NothingLost'
              PROVE  /\ \A c \in Client : Joined(c)'
                     /\ \A c, d \in Client \ polled' : \A t \in Ticket : \A cell \in Cells :
                          WillAgree(c, d, t, cell)'
  BY DEF EchoesComing
<1>1. /\ NothingLost /\ \A c \in Client : Joined(c)
      /\ \A c, d \in Client \ polled : \A t \in Ticket : \A cell \in Cells :
           WillAgree(c, d, t, cell)
      /\ ~(\E c \in Client : Disconnect(c)) /\ ~Restart
      /\ ~(\E o \in Op : HandleMissing(o) \/ HandleUnidentified(o) \/ HandleFails(o))
  BY NothingLostBefore DEF EchoesComing
<1>2. ~(\E c \in Client : Reconnect(c) \/ Identify(c))
  BY <1>1 DEF Reconnect, Identify, Joined
<1>3. CASE \E o \in Op : HandlerStep(o)
  <2>1. PICK o \in Op : HandleOperation(o) \/ HandleGoesOn(o) \/ HandleApplied(o)
    BY <1>1, <1>3 DEF HandlerStep
  <2>2. link' = link /\ checking' = checking /\ polled' = polled
    BY <2>1 DEF HandleOperation, HandleGoesOn, HandleApplied, ServerStays
  <2>. QED  BY <1>1, <2>1, <2>2, AgreeHandler DEF Joined
<1>4. CASE ProcessStep
  <2>1. link' = link /\ checking' = checking /\ polled' = polled
    BY <1>4 DEF ProcessStep, ProcessSynced, ProcessError, ProcessGoesOn, ServerStays
  <2>. QED  BY <1>1, <1>4, <2>1, AgreeWorker DEF Joined
<1>5. CASE \E o \in Op : Submit(o)
  <2>1. PICK o \in Op : Submit(o)
    BY <1>5
  <2>2. link' = link /\ checking' = checking /\ polled' = polled /\ \A p \in Op : opPc[p] # "new" => p \in submitted
    BY <2>1 DEF Submit, CollabTypeOK
  <2>. QED  BY <1>1, <2>1, <2>2, AgreeSubmit DEF Joined
<1>6. CASE \E b \in Client : ListenStep(b)
  <2>1. PICK b \in Client : ListenStep(b)
    BY <1>6
  <2>2. link' = link /\ checking' = checking /\ polled' = polled
    BY <2>1 DEF ListenStep, OnApplied, OnRejected, OnSyncStatus, OnUpdated, Listen
  <2>. QED  BY <1>1, <2>1, <2>2, AgreeListen DEF Joined
<1>7. CASE \E s \in Sync : PollAnswer(s)
  <2>1. PICK s \in Sync : PollAnswer(s)
    BY <1>7
  <2>2. link' = link /\ checking' = checking /\ polled' = polled \cup {Caller[s]}
    BY <1>1, <2>1 DEF PollAnswer, RecordPoll, NothingLost
  <2>. QED  BY <1>1, <2>1, <2>2, AgreePoll DEF Joined
<1>8. CASE UNCHANGED <<store, link, checking, room, submitted, polled, opPc>>
  <2>1. \A e \in Client : \A t, cell : Unechoed(e, t, cell) => Unechoed(e, t, cell)'
    BY <1>8 DEF Unechoed
  <2>2. \A e \in Client : \A t, cell, v : WillShow(e, t, cell, v) => WillShow(e, t, cell, v)'
    BY <1>8 DEF WillShow
  <2>. QED  BY <1>1, <1>8, <2>1, <2>2, AgreeStays DEF Joined
<1>9. (\E s \in Sync : PollFetch(s) \/ PollSetTickets(s) \/ PollCached(s))
        => UNCHANGED <<store, link, checking, room, submitted, polled, opPc>>
  BY DEF PollFetch, PollSetTickets, PollCached, PollStays, SyncFetch, SyncSetTickets, vars,
         opVars
<1>10. \/ \E o \in Op : PromoteJob(o) \/ RescueJob(o)
       \/ \E t \in Ticket : OutsideEdit(t)
       \/ UNCHANGED collabVars
       => UNCHANGED <<store, link, checking, room, submitted, polled, opPc>>
  BY DEF PromoteJob, RescueJob, OutsideEdit, collabVars, clientVars, Promote, StalledCheck, JobStays, AdoEdit,
         AdoMoveOut, vars, opVars
<1>. QED
  BY <1>1, <1>2, <1>3, <1>4, <1>5, <1>6, <1>7, <1>8, <1>9, <1>10 DEF CollabNext

\* The boards are opened on the same tickets.
LEMMA EchoesStart == CollabInit /\ CollabTypeOK => EchoesComing
<1>. SUFFICES ASSUME CollabInit, CollabTypeOK PROVE EchoesComing
  OBVIOUS
<1>1. \A c \in Client : Joined(c)
  BY DEF CollabInit, Joined
<1>. SUFFICES ASSUME NEW c \in Client, NEW d \in Client, NEW t \in Ticket, NEW cell \in Cells
              PROVE  WillAgree(c, d, t, cell)
  BY <1>1 DEF EchoesComing
<1>2. room[c] = <<>> /\ room[d] = <<>> /\ store[c][t] = store[d][t]
  BY DEF CollabInit
<1>3. store[c][t] \in View
  BY DEF CollabTypeOK
<1>. DEFINE v == Shown(store[c][t], cell)
<1>4. v \in Value \cup Status
  BY <1>3, ShownType
<1>5. ShowsAfter(<<>>, store[c][t], t, cell, v)
  <2>1. Len(<<>>) = 0
    OBVIOUS
  <2>. QED  BY <2>1 DEF ShowsAfter
<1>. HIDE DEF v
<1>6. WillShow(c, t, cell, v) /\ WillShow(d, t, cell, v)
  BY <1>2, <1>5 DEF WillShow
<1>. QED  BY <1>4, <1>6 DEF WillAgree

\* The socket messages alone bring the browsers together: when no operation was rejected
\* and nothing was lost, the browsers no poll has answered show the same tickets and
\* statuses once everything under way has arrived.
THEOREM EchoesBringTogether == CollabSpec => []EchoesAgree
<1>1. CollabTypeOK /\ EchoesComing => EchoesAgree
  <2>. SUFFICES ASSUME CollabTypeOK, EchoesComing, NothingLost, Quiescent,
                       NEW c \in Client \ polled, NEW d \in Client \ polled
                PROVE  store[c] = store[d]
    BY DEF EchoesAgree, NothingLost
  <2>1. store[c] \in [Ticket -> View] /\ store[d] \in [Ticket -> View]
    BY DEF CollabTypeOK
  <2>2. ASSUME NEW t \in Ticket, NEW cell \in Cells
        PROVE  Shown(store[c][t], cell) = Shown(store[d][t], cell)
    <3>1. WillAgree(c, d, t, cell)
      BY DEF EchoesComing
    <3>2. ~Unechoed(c, t, cell) /\ ~Unechoed(d, t, cell)
      BY DEF Quiescent, NothingLost, Unechoed, CollabTypeOK
    <3>3. PICK v : WillShow(c, t, cell, v) /\ WillShow(d, t, cell, v)
      BY <3>1, <3>2 DEF WillAgree
    <3>4. room[c] = <<>> /\ room[d] = <<>> /\ Len(<<>>) = 0
      BY DEF Quiescent
    <3>5. ASSUME NEW ticket, ShowsAfter(<<>>, ticket, t, cell, v) PROVE v = Shown(ticket, cell)
      BY <3>4, <3>5 DEF ShowsAfter
    <3>. QED  BY <3>3, <3>4, <3>5 DEF WillShow
  <2>3. ASSUME NEW t \in Ticket PROVE store[c][t] = store[d][t]
    <3>1. store[c][t] \in View /\ store[d][t] \in View
      BY <2>1
    <3>2. store[c][t].status = store[d][t].status
      <4>1. <<>> \in Cells
        BY DEF Cells
      <4>. QED  BY <2>2, <4>1 DEF Shown
    <3>3. ASSUME NEW f \in Field PROVE store[c][t].val[f] = store[d][t].val[f]
      <4>1. <<f>> \in Cells /\ <<f>> # <<>> /\ <<f>>[1] = f
        BY DEF Cells
      <4>. QED  BY <2>2, <4>1 DEF Shown
    <3>4. store[c][t].val = store[d][t].val
      BY <3>1, <3>3 DEF View
    <3>. QED  BY <3>1, <3>2, <3>4 DEF View
  <2>. QED  BY <2>1, <2>3
<1>2. CollabTypeOK /\ EchoesComing /\ [CollabNext]_collabVars => EchoesComing'
  BY EchoesStep
<1>. QED  BY <1>1, <1>2, EchoesStart, CollabTypes, PTL DEF CollabSpec

=============================================================================
