-------------------------- MODULE WritebackProofs --------------------------
(***************************************************************************)
(* Proofs about Writeback, for any operations, tickets, fields, budgets    *)
(* and number of attempts.                                                 *)
(***************************************************************************)
EXTENDS Writeback, TLAPS

-----------------------------------------------------------------------------
(* Lemmas about tickets and histories *)

\* Overwriting fields with a value keeps a ticket's contents well typed.
LEMMA PutType ==
  ASSUME NEW val \in [Field -> Value], NEW fields, NEW v \in Value
  PROVE  Put(val, fields, v) \in [Field -> Value]
  BY DEF Put

\* A new revision keeps every history well typed.
LEMMA ReviseType ==
  ASSUME TypeOK, NEW t \in Ticket, NEW fields, NEW v \in Value,
         Revise(t, fields, v)
  PROVE  /\ ado' \in [Ticket -> Seq([Field -> Value]) \ {<<>>}]
         /\ Rev(t) \in Nat \ {0}
         /\ Latest(t) \in [Field -> Value]
<1>1. Rev(t) \in Nat \ {0} /\ Latest(t) \in [Field -> Value]
  BY DEF TypeOK, Rev, Latest
<1>2. Put(Latest(t), fields, v) \in [Field -> Value]
  BY <1>1, PutType
<1>3. ado[t] \in Seq([Field -> Value])
  BY DEF TypeOK
<1>4. Append(ado[t], Put(Latest(t), fields, v)) \in Seq([Field -> Value]) \ {<<>>}
  BY <1>2, <1>3
<1>. QED  BY <1>1, <1>4 DEF Revise, TypeOK

\* What the sync reads of a work item is a well-typed ticket.
LEMMA ToTicketType ==
  ASSUME TypeOK, NEW t \in Ticket
  PROVE  ToTicket(t) \in Entry
  BY DEF TypeOK, ToTicket, Rev, Latest, Entry, Status

-----------------------------------------------------------------------------
(* Type correctness *)

\* A fresh session is well typed.
LEMMA TypeInit == Init => TypeOK
<1>. SUFFICES ASSUME Init PROVE TypeOK
  OBVIOUS
<1>. USE OpAssumption DEF Init
<1>1. ado \in [Ticket -> Seq([Field -> Value]) \ {<<>>}]
  BY DEF Value
<1>2. cache \in [Ticket -> Entry \cup {None}]
  BY DEF ToTicket, Rev, Latest, Entry, Status, Value
<1>. QED  BY <1>1, <1>2 DEF TypeOK, NoTickets, OpProgress, LogStatus

\* Each step of a handler keeps the types.
LEMMA TypeOp ==
  ASSUME TypeOK, NEW o \in Op, OpStep(o)
  PROVE  TypeOK'
<1>. USE OpAssumption DEF TypeOK, OpProgress, LogStatus, OpStays, adoVars, queueVars, jobVars, syncVars
<1>1. CASE OpGetTicket(o)
  BY <1>1 DEF OpGetTicket
<1>2. CASE OpTicketMissing(o) \/ OpUnidentified(o)
  BY <1>2 DEF OpTicketMissing, OpUnidentified
<1>3. CASE OpUpdateTicket(o)
  <2>1. Put(opCopy[o].val, {OpField[o]}, o) \in [Field -> Value]
    BY <1>3, PutType DEF OpUpdateTicket, Entry, Value
  <2>2. [rev |-> opCopy[o].rev, val |-> Put(opCopy[o].val, {OpField[o]}, o),
         status |-> "pending"] \in Entry
    BY <1>3, <2>1 DEF OpUpdateTicket, Entry, Status
  <2>. QED  BY <1>3, <2>2 DEF OpUpdateTicket
<1>4. CASE OpCreateLog(o)
  BY <1>4 DEF OpCreateLog
<1>5. CASE OpEnqueue(o)
  BY <1>5 DEF OpEnqueue, budgets
<1>6. CASE OpApplied(o)
  <2>1. opPc' \in [Op -> OpProgress]
    BY <1>6 DEF OpApplied
  <2>. QED  BY <1>6, <2>1 DEF OpApplied
<1>7. CASE OpFails(o)
  BY <1>7 DEF OpFails, SpendFault
<1>. QED  BY <1>1, <1>2, <1>3, <1>4, <1>5, <1>6, <1>7 DEF OpStep

\* Giving a job back to BullMQ keeps the queue well typed and frees the worker.
LEMMA RequeueType ==
  ASSUME TypeOK, jobPc # "idle", Requeue
  PROVE  /\ delayed' \in SUBSET Op /\ attempts' \in [Op -> Nat]
         /\ wait' = wait /\ abandoned' = abandoned /\ stalled' = stalled
         /\ jobPc' = "idle" /\ jobOp' = None /\ jobCopy' = None /\ jobError' = None
<1>1. jobOp \in Op
  BY DEF TypeOK
<1>2. delayed \in SUBSET Op /\ attempts \in [Op -> Nat]
  BY DEF TypeOK
<1>3. delayed' \in SUBSET Op /\ attempts' \in [Op -> Nat]
  <2>1. CASE LastAttempt
    BY <1>2, <2>1 DEF Requeue
  <2>2. CASE ~LastAttempt
    BY <1>1, <1>2, <2>2 DEF Requeue
  <2>. QED  BY <2>1, <2>2
<1>. QED  BY <1>3 DEF Requeue, WorkerIdle

\* Each step of the worker keeps the types.
LEMMA TypeJob ==
  ASSUME TypeOK, JobStep
  PROVE  TypeOK'
<1>. USE OpAssumption DEF TypeOK, LogStatus, JobStays, opVars, syncVars, queueVars
<1>1. CASE JobTake
  BY <1>1 DEF JobTake
<1>2. CASE JobGetTicket
  BY <1>2 DEF JobGetTicket, Throw, JobGoes
<1>3. CASE JobPatch
  <2>. DEFINE t == OpTicket[jobOp]
  <2>1. jobOp \in Op /\ t \in Ticket /\ jobCopy \in Entry
    BY <1>3 DEF JobPatch
  <2>2. CASE jobCopy.rev = Rev(t)
    <3>1. PICK fields \in Recorded(OpField[jobOp]) : Revise(t, fields, jobOp)
      BY <1>3, <2>2 DEF JobPatch, Record
    <3>2. /\ ado' \in [Ticket -> Seq([Field -> Value]) \ {<<>>}]
          /\ Rev(t) \in Nat \ {0}
      BY <2>1, <3>1, ReviseType DEF Value
    <3>3. Put(jobCopy.val, Written(jobOp), jobOp) \in [Field -> Value]
      BY <2>1, PutType DEF Entry, Value
    <3>4. [rev |-> Rev(t) + 1, val |-> Put(jobCopy.val, Written(jobOp), jobOp),
           status |-> "synced"] \in Entry
      BY <3>2, <3>3 DEF Entry, Status
    <3>. QED  BY <1>3, <2>1, <2>2, <3>2, <3>4 DEF JobPatch, JobGoes
  <2>3. CASE jobCopy.rev # Rev(t)
    BY <1>3, <2>3 DEF JobPatch, Throw, JobGoes
  <2>. QED  BY <2>2, <2>3
<1>4. CASE JobPatchFails
  BY <1>4 DEF JobPatchFails, Throw, JobGoes
<1>5. CASE JobPatchReplyLost
  <2>1. jobOp \in Op /\ OpTicket[jobOp] \in Ticket
    BY <1>5 DEF JobPatchReplyLost
  <2>2. ado' \in [Ticket -> Seq([Field -> Value]) \ {<<>>}]
    BY <1>5, <2>1, ReviseType DEF JobPatchReplyLost, Record, Value
  <2>. QED  BY <1>5, <2>2 DEF JobPatchReplyLost, Throw, JobGoes, SpendFault
<1>6. CASE JobUpdateTicket
  BY <1>6 DEF JobUpdateTicket, JobGoes
<1>7. CASE JobLogSynced
  BY <1>7 DEF JobLogSynced, JobGoes
<1>8. CASE JobStoreFails
  BY <1>8 DEF JobStoreFails, Throw, JobGoes, SpendFault
<1>9. CASE JobRetry
  BY <1>9, RequeueType DEF JobRetry
<1>10. CASE JobLogFailed
  BY <1>10 DEF JobLogFailed, JobGoes
<1>11. CASE JobRereadTicket
  <2>1. jobOp \in Op /\ OpTicket[jobOp] \in Ticket
    BY <1>11 DEF JobRereadTicket
  <2>2. CASE cache[OpTicket[jobOp]] = None
    BY <1>11, <2>2 DEF JobRereadTicket, JobGoes
  <2>3. CASE cache[OpTicket[jobOp]] # None
    <3>1. cache[OpTicket[jobOp]] \in Entry
      BY <2>1, <2>3
    <3>2. [cache[OpTicket[jobOp]] EXCEPT !.status = "error"] \in Entry
      BY <3>1 DEF Entry, Status
    <3>. QED  BY <1>11, <2>3, <3>2 DEF JobRereadTicket, JobGoes
  <2>. QED  BY <2>2, <2>3
<1>12. CASE JobMarkError
  BY <1>12 DEF JobMarkError, JobGoes
<1>13. CASE JobCatchFails
  BY <1>13, RequeueType DEF JobCatchFails, SpendFault
<1>14. CASE JobEnd
  BY <1>14 DEF JobEnd, WorkerIdle
<1>. QED
  BY <1>1, <1>2, <1>3, <1>4, <1>5, <1>6, <1>7, <1>8, <1>9, <1>10, <1>11,
     <1>12, <1>13, <1>14 DEF JobStep

\* The queue, the syncs, ADO and a restart keep the types.
LEMMA TypeEnvironment ==
  ASSUME TypeOK,
         \/ \E o \in Op : Promote(o) \/ StalledCheck(o)
         \/ \E s \in Sync : SyncStep(s)
         \/ \E t \in Ticket : AdoEdit(t) \/ AdoMoveOut(t)
         \/ Crash
  PROVE  TypeOK'
<1>. USE OpAssumption DEF TypeOK
<1>1. ASSUME NEW o \in Op, Promote(o) PROVE TypeOK'
  BY <1>1 DEF Promote, JobStays, opVars, syncVars, jobVars
<1>2. ASSUME NEW s \in Sync, SyncFetch(s) PROVE TypeOK'
  <2>1. \A t \in Ticket : ToTicket(t) \in Entry
    BY ToTicketType
  <2>. QED
    BY <1>2, <2>1 DEF SyncFetch, adoVars, opVars, queueVars, jobVars, budgets
<1>3. ASSUME NEW s \in Sync, SyncSetTickets(s) PROVE TypeOK'
  BY <1>3 DEF SyncSetTickets, NoTickets, adoVars, opVars, queueVars, jobVars,
              budgets
<1>4. ASSUME NEW t \in Ticket, AdoEdit(t) PROVE TypeOK'
  <2>1. ado' \in [Ticket -> Seq([Field -> Value]) \ {<<>>}]
    <3>1. PICK fields : Revise(t, fields, External)
      BY <1>4 DEF AdoEdit, Record
    <3>2. External \in Value
      BY DEF Value
    <3>. QED  BY <3>1, <3>2, ReviseType
  <2>2. edits' \in Nat
    BY <1>4 DEF AdoEdit
  <2>3. UNCHANGED <<inQuery, cache, opVars, opLog, accepted, queueVars, jobVars, syncVars,
                    faults, crashes>>
    BY <1>4 DEF AdoEdit
  <2>. QED  BY <2>1, <2>2, <2>3 DEF opVars, queueVars, jobVars, syncVars
<1>5. ASSUME NEW t \in Ticket, AdoMoveOut(t) PROVE TypeOK'
  <2>1. ado' \in [Ticket -> Seq([Field -> Value]) \ {<<>>}]
    <3>1. External \in Value /\ Revise(t, {}, External)
      BY <1>5 DEF AdoMoveOut, Value
    <3>. QED  BY <3>1, ReviseType
  <2>. QED  BY <1>5, <2>1 DEF AdoMoveOut, opVars, queueVars, jobVars, syncVars
<1>6. ASSUME Crash PROVE TypeOK'
  <2>1. abandoned' \in SUBSET Op
    BY <1>6 DEF Crash
  <2>2. opPc' \in [Op -> OpProgress]
    BY <1>6 DEF Crash, OpProgress
  <2>. QED
    BY <1>6, <2>1, <2>2 DEF Crash, NoTickets, WorkerIdle, adoVars
<1>7. ASSUME NEW o \in Op, StalledCheck(o) PROVE TypeOK'
  <2>1. <<o>> \o wait \in Seq(Op)
    OBVIOUS
  <2>2. wait' \in Seq(Op)
    BY <1>7, <2>1 DEF StalledCheck
  <2>. QED
    BY <1>7, <2>2 DEF StalledCheck, JobStays, opVars, syncVars, jobVars
<1>. QED  BY <1>1, <1>2, <1>3, <1>4, <1>5, <1>6, <1>7 DEF SyncStep

\* So does a step that changes nothing.
LEMMA TypeStutter == TypeOK /\ UNCHANGED vars => TypeOK'
  BY DEF TypeOK, vars, adoVars, opVars, queueVars, jobVars, syncVars, budgets

\* Every variable keeps its type in every behaviour.
THEOREM TypeCorrect == Spec => []TypeOK
<1>1. TypeOK /\ [Next]_vars => TypeOK'
  BY TypeOp, TypeJob, TypeEnvironment, TypeStutter DEF Next
<1>. QED  BY <1>1, TypeInit, PTL DEF Spec

-----------------------------------------------------------------------------
(* Coherence is a fact about a copy and a history, and survives revisions *)

History == Seq([Field -> Value]) \ {<<>>}

\* Values read from a well-typed history.
LEMMA HistoryValue ==
  ASSUME NEW h \in History, NEW i \in 1 .. Len(h)
  PROVE  h[i] \in [Field -> Value]
  BY DEF History

\* A copy coherent with a history stays so when a revision is appended.
LEMMA CoherentAppend ==
  ASSUME NEW h \in History, NEW x \in [Field -> Value], NEW copy,
         Coherent(copy, h)
  PROVE  Coherent(copy, Append(h, x))
  BY DEF Coherent, History

\* Every copy held anywhere survives any new revision of any work item.
LEMMA CoherentRevise ==
  ASSUME TypeOK, NEW t \in Ticket, NEW fields, NEW v \in Value,
         Revise(t, fields, v),
         NEW u \in Ticket, NEW copy, Coherent(copy, ado[u])
  PROVE  Coherent(copy, ado'[u])
<1>1. ado[t] \in History /\ ado[u] \in History
  BY DEF TypeOK, History
<1>2. Put(Latest(t), fields, v) \in [Field -> Value]
  BY ReviseType, PutType
<1>3. ado'[u] = IF u = t THEN Append(ado[t], Put(Latest(t), fields, v)) ELSE ado[u]
  BY DEF Revise, TypeOK
<1>. QED  BY <1>1, <1>2, <1>3, CoherentAppend

\* An operation ADO has recorded stays recorded.
LEMMA LandsRevise ==
  ASSUME TypeOK, NEW t \in Ticket, NEW fields, NEW v \in Value,
         Revise(t, fields, v), NEW o \in Op, Lands(o)
  PROVE  Lands(o)'
<1>. DEFINE u == OpTicket[o]
<1>1. u \in Ticket /\ ado[u] \in History /\ ado[t] \in History
  BY OpAssumption DEF TypeOK, History
<1>2. PICK i \in 1 .. Len(ado[u]) : ado[u][i][OpField[o]] = o
  BY DEF Lands, Rev
<1>3. Put(Latest(t), fields, v) \in [Field -> Value]
  BY ReviseType, PutType
<1>4. ado'[u] = IF u = t THEN Append(ado[t], Put(Latest(t), fields, v)) ELSE ado[u]
  BY <1>1 DEF Revise, TypeOK
<1>5. i \in 1 .. Len(ado'[u]) /\ ado'[u][i] = ado[u][i]
  BY <1>1, <1>2, <1>3, <1>4 DEF History
<1>. QED  BY <1>2, <1>5 DEF Lands, Rev

\* Writing v adds no trace of another operation.
LEMMA UnrecordedRevise ==
  ASSUME TypeOK, NEW t \in Ticket, NEW fields, NEW v \in Value,
         Revise(t, fields, v), NEW o \in Op, o # v, Unrecorded(o)
  PROVE  Unrecorded(o)'
<1>. SUFFICES ASSUME NEW u \in Ticket, NEW i \in 1 .. Len(ado'[u]), NEW f \in Field
              PROVE  ado'[u][i][f] # o
  BY DEF Unrecorded, Rev
<1>1. ado[t] \in History /\ ado[u] \in History
  BY DEF TypeOK, History
<1>2. Latest(t) \in [Field -> Value] /\ Len(ado[t]) \in 1 .. Len(ado[t])
  BY <1>1, ReviseType DEF Rev
<1>3. Put(Latest(t), fields, v) \in [Field -> Value]
  BY <1>2, PutType
<1>4. Put(Latest(t), fields, v)[f] # o
  BY <1>2 DEF Put, Latest, Unrecorded, Rev
<1>5. ado'[u] = IF u = t THEN Append(ado[t], Put(Latest(t), fields, v)) ELSE ado[u]
  BY DEF Revise, TypeOK
<1>. QED  BY <1>1, <1>3, <1>4, <1>5 DEF Unrecorded, Rev, History

\* A successful patch lands, and the copy the worker then stores is coherent
\* with the new history: the fields it did not write were those of the revision
\* the /rev test compared, operations ADO still has not recorded, or a board
\* column ADO recomputed, before or in this very revision.
LEMMA PatchCoherent ==
  ASSUME TypeOK, NEW o \in Op, NEW copy \in Entry,
         Coherent(copy, ado[OpTicket[o]]), copy.rev = Rev(OpTicket[o]),
         NEW fields \in Recorded(OpField[o]), Revise(OpTicket[o], fields, o)
  PROVE  /\ Lands(o)'
         /\ Coherent([rev    |-> Rev(OpTicket[o]) + 1,
                      val    |-> Put(copy.val, Written(o), o),
                      status |-> "synced"], ado'[OpTicket[o]])
<1>. DEFINE t == OpTicket[o]
            h == ado[t]
            n == Len(h)
            new == Put(Latest(t), fields, o)
            stored == Put(copy.val, Written(o), o)
<1>1. t \in Ticket /\ OpField[o] \in Field /\ o \in Value
  BY OpAssumption DEF Value
<1>2. h \in History /\ n \in Nat \ {0}
  BY <1>1 DEF TypeOK, History
<1>3. new \in [Field -> Value] /\ Latest(t) = h[n]
  BY <1>1, ReviseType, PutType DEF Rev, Latest
<1>4. ado'[t] = Append(h, new)
  BY <1>1 DEF Revise, TypeOK
<1>5. /\ Len(ado'[t]) = n + 1 /\ ado'[t][n + 1] = new
      /\ \A i \in 1 .. n : ado'[t][i] = h[i]
  BY <1>2, <1>3, <1>4 DEF History
<1>6. /\ OpField[o] \in fields /\ Written(o) \cap Field \subseteq fields
      /\ \A f \in fields : f \in Written(o) \/ (f = "boardColumn" /\ OpField[o] = "state")
  BY <1>1 DEF Written, Recorded
<1>7. Lands(o)'
  BY <1>1, <1>2, <1>5, <1>6 DEF Lands, Rev, Put
<1>8. ASSUME NEW f \in Field
      PROVE  \/ stored[f] = new[f]
             \/ stored[f] \in Op /\ \A i \in 1 .. n + 1 : ado'[t][i][f] # stored[f]
             \/ Recomputed(f, new[f])
  <2>1. CASE f \in Written(o)
    BY <1>6, <2>1 DEF Put
  <2>2. CASE f \in fields \ Written(o)
    <3>1. new[f] = o
      BY <2>2 DEF Put
    <3>. QED  BY <1>6, <2>2, <3>1 DEF Recomputed
  <2>3. CASE f \notin fields
    <3>1. stored[f] = copy.val[f] /\ new[f] = h[n][f]
      BY <1>6, <2>3, <1>3 DEF Put
    <3>2. \/ copy.val[f] = h[n][f]
          \/ copy.val[f] \in Op /\ \A i \in 1 .. n : h[i][f] # copy.val[f]
          \/ Recomputed(f, h[n][f])
      BY DEF Coherent, Rev
    <3>. QED  BY <1>2, <1>5, <3>1, <3>2
  <2>. QED  BY <2>1, <2>2, <2>3
<1>. QED  BY <1>2, <1>5, <1>7, <1>8 DEF Coherent, Rev

-----------------------------------------------------------------------------
(* The inductive invariant *)

\* A fresh session satisfies the inductive invariant.
LEMMA InvInit == Init => IInv
<1>. SUFFICES ASSUME Init PROVE IInv
  OBVIOUS
<1>. USE OpAssumption DEF Init
<1>1. JobsAccepted
  BY DEF JobsAccepted, HasJob
<1>2. UnqueuedUnrecorded
  BY DEF UnqueuedUnrecorded, Unrecorded, Rev
<1>3. CacheCoherent
  BY DEF CacheCoherent, Coherent, ToTicket, Rev, Latest
<1>4. CopiesCoherent /\ PatchLands /\ SyncedLogLands
  BY DEF CopiesCoherent, NoTickets, PatchLands, SyncedLogLands
<1>. QED  BY <1>1, <1>2, <1>3, <1>4 DEF IInv

\* What a step of the handler of o may change.
LEMMA OpEffect ==
  ASSUME TypeOK, NEW o \in Op, OpStep(o)
  PROVE  /\ ado' = ado /\ jobPc' = jobPc /\ jobOp' = jobOp
         /\ jobCopy' = jobCopy /\ fetched' = fetched
         /\ delayed' = delayed /\ abandoned' = abandoned
         /\ \E pc : /\ opPc' = [opPc EXCEPT ![o] = pc]
                    /\ opPc[o] \notin Unqueued => pc \notin Unqueued
         /\ \E copy \in {opCopy[o], None, cache[OpTicket[o]]} :
              opCopy' = [opCopy EXCEPT ![o] = copy]
         /\ \A p \in Op : opLog'[p] = "synced" => opLog[p] = "synced"
<1>. USE DEF OpStays, adoVars, queueVars, jobVars, syncVars, budgets
<1>1. opPc \in [Op -> OpProgress] /\ opCopy = [opCopy EXCEPT ![o] = opCopy[o]]
      /\ opLog \in [Op -> LogStatus]
  BY DEF TypeOK
<1>2. CASE OpGetTicket(o)
  BY <1>1, <1>2 DEF OpGetTicket, Unqueued
<1>3. CASE OpTicketMissing(o) \/ OpUnidentified(o)
  BY <1>1, <1>3 DEF OpTicketMissing, OpUnidentified, Unqueued
<1>4. CASE OpUpdateTicket(o)
  BY <1>1, <1>4 DEF OpUpdateTicket, Unqueued
<1>5. CASE OpCreateLog(o)
  BY <1>1, <1>5 DEF OpCreateLog, Unqueued
<1>6. CASE OpEnqueue(o)
  BY <1>1, <1>6 DEF OpEnqueue, Unqueued
<1>7. CASE OpApplied(o)
  <2>1. opPc' = [opPc EXCEPT ![o] = "applied"] /\ "applied" \notin Unqueued
    BY <1>7 DEF OpApplied, Unqueued
  <2>2. opCopy' = [opCopy EXCEPT ![o] = opCopy[o]] /\ opLog' = opLog
    BY <1>1, <1>7 DEF OpApplied
  <2>. QED  BY <1>7, <2>1, <2>2 DEF OpApplied
<1>8. CASE OpFails(o)
  <2>1. opPc' = [opPc EXCEPT ![o] = "rejected"] /\ "rejected" \notin Unqueued
    BY <1>8 DEF OpFails, Unqueued
  <2>2. opCopy' = [opCopy EXCEPT ![o] = None] /\ opLog' = opLog
    BY <1>8 DEF OpFails
  <2>. QED  BY <1>8, <2>1, <2>2 DEF OpFails
<1>. QED  BY <1>2, <1>3, <1>4, <1>5, <1>6, <1>7, <1>8 DEF OpStep

\* Appending a job adds that job only.
LEMMA HasJobAppend ==
  ASSUME wait \in Seq(Op), NEW o \in Op, wait' = Append(wait, o),
         delayed' \subseteq delayed, abandoned' \subseteq abandoned, jobOp' = jobOp,
         NEW p \in Op, HasJob(p)'
  PROVE  p = o \/ HasJob(p)
  BY DEF HasJob

\* So does adding one in front of it, if it is added at all.
LEMMA HasJobPrepend ==
  ASSUME wait \in Seq(Op), NEW o \in Op, wait' = wait \/ wait' = <<o>> \o wait,
         delayed' \subseteq delayed, abandoned' \subseteq abandoned, jobOp' = jobOp,
         NEW p \in Op, HasJob(p)'
  PROVE  p = o \/ HasJob(p)
<1>1. CASE wait' = wait
  BY <1>1 DEF HasJob
<1>2. CASE wait' = <<o>> \o wait
  <2>1. \A i \in 1 .. Len(wait') :
          wait'[i] = o \/ (i - 1 \in 1 .. Len(wait) /\ wait'[i] = wait[i - 1])
    BY <1>2
  <2>. QED  BY <2>1 DEF HasJob
<1>. QED  BY <1>1, <1>2

\* A copy stays coherent when a field takes an operation ADO has not recorded.
LEMMA OptimisticCoherent ==
  ASSUME NEW h \in History, NEW copy \in Entry, Coherent(copy, h),
         NEW o \in Op, NEW g \in Field,
         \A i \in 1 .. Len(h) : \A f \in Field : h[i][f] # o
  PROVE  Coherent([rev |-> copy.rev, val |-> Put(copy.val, {g}, o),
                   status |-> "pending"], h)
  BY DEF Coherent, Put, History

\* Each step of a handler preserves the invariant: it reads the cached ticket,
\* adds an operation ADO has not seen, or hands the operation to the queue.
LEMMA InvOp ==
  ASSUME TypeOK, IInv, NEW o \in Op, OpStep(o)
  PROVE  IInv'
<1>1. JobsAccepted'
  <2>1. CASE OpEnqueue(o)
    <3>1. \A p \in Op : HasJob(p)' => p = o \/ HasJob(p)
      BY <2>1, HasJobAppend DEF OpEnqueue, TypeOK, jobVars
    <3>2. opPc' = [opPc EXCEPT ![o] = "queued"] /\ opPc \in [Op -> OpProgress]
      BY <2>1 DEF OpEnqueue, TypeOK
    <3>. QED  BY <3>1, <3>2 DEF IInv, JobsAccepted, Unqueued
  <2>2. CASE ~OpEnqueue(o)
    <3>1. wait' = wait
      BY <2>2 DEF OpStep, OpStays, queueVars, OpGetTicket, OpTicketMissing, OpUnidentified,
                  OpUpdateTicket, OpCreateLog, OpApplied, OpFails
    <3>2. \A p \in Op : HasJob(p)' => HasJob(p)
      BY <3>1, OpEffect DEF HasJob
    <3>3. \A p \in Op : opPc[p] \notin Unqueued => opPc'[p] \notin Unqueued
      BY OpEffect DEF TypeOK
    <3>. QED  BY <3>2, <3>3 DEF IInv, JobsAccepted
  <2>. QED  BY <2>1, <2>2
<1>2. UnqueuedUnrecorded'
  <2>1. \A p \in Op : opPc'[p] \in Unqueued => opPc[p] \in Unqueued
    BY OpEffect DEF TypeOK
  <2>. QED
    BY <2>1, OpEffect DEF IInv, UnqueuedUnrecorded, Unrecorded, Rev
<1>3. CacheCoherent'
  <2>1. CASE OpUpdateTicket(o)
    <3>. DEFINE t == OpTicket[o]
                stored == [rev    |-> opCopy[o].rev,
                           val    |-> Put(opCopy[o].val, {OpField[o]}, o),
                           status |-> "pending"]
    <3>1. /\ opPc[o] = "read" /\ opCopy[o] # None /\ opCopy[o] \in Entry
          /\ t \in Ticket /\ OpField[o] \in Field /\ ado[t] \in History
      BY <2>1, OpAssumption DEF OpUpdateTicket, TypeOK, History
    <3>2. Coherent(opCopy[o], ado[t])
      BY <3>1 DEF IInv, CopiesCoherent
    <3>3. \A i \in 1 .. Len(ado[t]) : \A f \in Field : ado[t][i][f] # o
      BY <3>1 DEF IInv, UnqueuedUnrecorded, Unqueued, Unrecorded, Rev
    <3>4. Coherent(stored, ado[t])
      BY <3>1, <3>2, <3>3, OptimisticCoherent
    <3>5. cache' = [cache EXCEPT ![t] = stored] /\ cache \in [Ticket -> Entry \cup {None}]
      BY <2>1 DEF OpUpdateTicket, TypeOK
    <3>. QED  BY <3>4, <3>5, OpEffect DEF IInv, CacheCoherent
  <2>2. CASE ~OpUpdateTicket(o)
    <3>1. cache' = cache
      BY <2>2 DEF OpStep, OpGetTicket, OpTicketMissing, OpUnidentified, OpCreateLog, OpEnqueue,
                  OpApplied, OpFails
    <3>. QED  BY <3>1, OpEffect DEF IInv, CacheCoherent
  <2>. QED  BY <2>1, <2>2
<1>4. CopiesCoherent'
  <2>1. PICK copy \in {opCopy[o], None, cache[OpTicket[o]]} :
          opCopy' = [opCopy EXCEPT ![o] = copy]
    BY OpEffect
  <2>2. OpTicket[o] \in Ticket /\ opCopy \in [Op -> Entry \cup {None}]
    BY OpAssumption DEF TypeOK
  <2>3. \A p \in Op : opCopy'[p] # None => Coherent(opCopy'[p], ado[OpTicket[p]])
    BY <2>1, <2>2 DEF IInv, CopiesCoherent, CacheCoherent
  <2>. QED  BY <2>3, OpEffect DEF IInv, CopiesCoherent
<1>5. PatchLands' /\ SyncedLogLands'
  BY OpEffect DEF IInv, PatchLands, SyncedLogLands, Lands, Rev
<1>. QED  BY <1>1, <1>2, <1>3, <1>4, <1>5 DEF IInv

\* A new revision that writes v preserves coherence everywhere, what ADO has
\* recorded, and the absence of every operation other than v.
LEMMA InvRevise ==
  ASSUME TypeOK, IInv, NEW t \in Ticket, NEW fields, NEW v \in Value,
         Revise(t, fields, v)
  PROVE  /\ \A u \in Ticket : cache[u] # None => Coherent(cache[u], ado'[u])
         /\ \A o \in Op : opCopy[o] # None => Coherent(opCopy[o], ado'[OpTicket[o]])
         /\ jobCopy # None => Coherent(jobCopy, ado'[OpTicket[jobOp]])
         /\ \A s \in Sync : \A u \in Ticket :
              fetched[s][u] # None => Coherent(fetched[s][u], ado'[u])
         /\ \A o \in Op : Lands(o) => Lands(o)'
         /\ \A o \in Op : o # v /\ Unrecorded(o) => Unrecorded(o)'
<1>1. \A o \in Op : OpTicket[o] \in Ticket
  BY OpAssumption
<1>2. jobCopy # None => jobOp \in Op
  BY DEF TypeOK
<1>3. \A u \in Ticket : \A copy : Coherent(copy, ado[u]) => Coherent(copy, ado'[u])
  BY CoherentRevise
<1>. QED
  BY <1>1, <1>2, <1>3, LandsRevise, UnrecordedRevise
     DEF IInv, CacheCoherent, CopiesCoherent

\* Each step of the worker preserves the invariant.
LEMMA InvJob ==
  ASSUME TypeOK, IInv, JobStep
  PROVE  IInv'
<1>. USE OpAssumption
<1>1. /\ opPc' = opPc /\ opCopy' = opCopy /\ fetched' = fetched
  BY DEF JobStep, JobStays, opVars, syncVars, JobTake, JobGetTicket, JobPatch,
         JobPatchFails, JobPatchReplyLost, JobUpdateTicket, JobLogSynced,
         JobStoreFails, JobRetry, JobLogFailed, JobRereadTicket, JobMarkError,
         JobCatchFails, JobEnd
<1>2. JobsAccepted'
  <2>1. ASSUME NEW p \in Op, HasJob(p)' PROVE HasJob(p)
    <3>1. CASE JobTake
      <4>1. wait \in Seq(Op) /\ wait # <<>>
        BY <3>1 DEF JobTake, TypeOK
      <4>2. jobOp' = wait[1] /\ 1 \in 1 .. Len(wait)
        BY <3>1, <4>1 DEF JobTake
      <4>3. \A i \in 1 .. Len(wait') : wait'[i] = wait[i + 1] /\ i + 1 \in 1 .. Len(wait)
        BY <3>1, <4>1 DEF JobTake
      <4>. QED  BY <2>1, <3>1, <4>2, <4>3 DEF HasJob, JobTake
    <3>2. CASE JobRetry \/ JobCatchFails
      BY <2>1, <3>2 DEF JobRetry, JobCatchFails, Requeue, WorkerIdle, HasJob
    <3>3. CASE JobEnd
      BY <2>1, <3>3 DEF JobEnd, WorkerIdle, HasJob, queueVars
    <3>4. CASE ~(JobTake \/ JobRetry \/ JobCatchFails \/ JobEnd)
      <4>1. UNCHANGED <<delayed, abandoned, wait, jobOp>>
        BY <3>4 DEF JobStep, JobGoes, Throw, queueVars, JobGetTicket, JobPatch,
                    JobPatchFails, JobPatchReplyLost, JobUpdateTicket,
                    JobLogSynced, JobStoreFails, JobLogFailed, JobRereadTicket,
                    JobMarkError
      <4>. QED  BY <2>1, <4>1 DEF HasJob
    <3>. QED  BY <3>1, <3>2, <3>3, <3>4
  <2>. QED  BY <1>1, <2>1 DEF IInv, JobsAccepted
<1>3. CASE JobPatch /\ jobCopy.rev = Rev(OpTicket[jobOp])
  <2>. DEFINE t == OpTicket[jobOp]
              stored == [rev    |-> Rev(t) + 1,
                         val    |-> Put(jobCopy.val, Written(jobOp), jobOp),
                         status |-> "synced"]
  <2>1. /\ jobOp \in Op /\ jobOp \in Value /\ t \in Ticket
        /\ jobCopy \in Entry /\ jobCopy # None
    BY <1>3 DEF JobPatch, TypeOK, Value
  <2>2. /\ Record(t, OpField[jobOp], jobOp) /\ jobCopy' = stored
        /\ jobPc' = "patched" /\ jobOp' = jobOp
        /\ cache' = cache /\ opLog' = opLog
    BY <1>3 DEF JobPatch, JobGoes
  <2>. PICK fields \in Recorded(OpField[jobOp]) : Revise(t, fields, jobOp)
    BY <2>2 DEF Record
  <2>3. Lands(jobOp)' /\ Coherent(stored, ado'[t])
    BY <1>3, <2>1, <2>2, PatchCoherent DEF IInv, CopiesCoherent
  <2>4. opPc[jobOp] \notin Unqueued
    BY <2>1 DEF IInv, JobsAccepted, HasJob
  <2>5. UnqueuedUnrecorded'
    BY <1>1, <2>1, <2>2, <2>4, InvRevise DEF IInv, UnqueuedUnrecorded
  <2>6. CacheCoherent' /\ CopiesCoherent'
    BY <1>1, <2>1, <2>2, <2>3, InvRevise DEF CacheCoherent, CopiesCoherent
  <2>7. PatchLands' /\ SyncedLogLands'
    <3>1. PatchLands'
      BY <2>3 DEF PatchLands
    <3>2. SyncedLogLands'
      BY <2>1, <2>2, InvRevise DEF IInv, SyncedLogLands
    <3>. QED  BY <3>1, <3>2
  <2>. QED  BY <1>2, <2>5, <2>6, <2>7 DEF IInv
<1>4. CASE JobPatchReplyLost
  <2>. DEFINE t == OpTicket[jobOp]
  <2>1. /\ jobOp \in Op /\ jobOp \in Value /\ t \in Ticket
    BY <1>4 DEF JobPatchReplyLost, TypeOK, Value
  <2>2. /\ Record(t, OpField[jobOp], jobOp) /\ jobCopy' = None
        /\ jobPc' = "caught" /\ cache' = cache /\ opLog' = opLog
    BY <1>4 DEF JobPatchReplyLost, Throw, JobGoes
  <2>. PICK fields \in Recorded(OpField[jobOp]) : Revise(t, fields, jobOp)
    BY <2>2 DEF Record
  <2>3. opPc[jobOp] \notin Unqueued
    BY <2>1 DEF IInv, JobsAccepted, HasJob
  <2>4. UnqueuedUnrecorded'
    BY <1>1, <2>1, <2>2, <2>3, InvRevise DEF IInv, UnqueuedUnrecorded
  <2>5. CacheCoherent' /\ CopiesCoherent'
    BY <1>1, <2>1, <2>2, InvRevise DEF CacheCoherent, CopiesCoherent
  <2>6. PatchLands' /\ SyncedLogLands'
    BY <2>1, <2>2, InvRevise DEF IInv, PatchLands, SyncedLogLands
  <2>. QED  BY <1>2, <2>4, <2>5, <2>6 DEF IInv
<1>5. CASE ~JobPatchReplyLost /\ ~(JobPatch /\ jobCopy.rev = Rev(OpTicket[jobOp]))
  <2>1. ado' = ado
    BY <1>5 DEF JobStep, JobTake, JobGetTicket, JobPatch, JobPatchFails,
                JobUpdateTicket, JobLogSynced, JobStoreFails, JobRetry,
                JobLogFailed, JobRereadTicket, JobMarkError, JobCatchFails, JobEnd
  <2>2. UnqueuedUnrecorded'
    BY <1>1, <2>1 DEF IInv, UnqueuedUnrecorded, Unrecorded, Rev
  <2>3. CacheCoherent'
    <3>1. CASE JobUpdateTicket \/ JobMarkError
      <4>1. /\ jobCopy # None /\ OpTicket[jobOp] \in Ticket
            /\ cache \in [Ticket -> Entry \cup {None}]
            /\ cache' = [cache EXCEPT ![OpTicket[jobOp]] = jobCopy]
        BY <3>1 DEF JobUpdateTicket, JobMarkError, TypeOK
      <4>. QED  BY <2>1, <4>1 DEF IInv, CacheCoherent, CopiesCoherent
    <3>2. CASE ~(JobUpdateTicket \/ JobMarkError)
      <4>1. cache' = cache
        BY <3>2 DEF JobStep, JobTake, JobGetTicket, JobPatch, JobPatchFails,
                    JobPatchReplyLost, JobLogSynced, JobStoreFails, JobRetry,
                    JobLogFailed, JobRereadTicket, JobCatchFails, JobEnd
      <4>. QED  BY <2>1, <4>1 DEF IInv, CacheCoherent
    <3>. QED  BY <3>1, <3>2
  <2>4. CopiesCoherent'
    <3>1. CASE JobGetTicket \/ JobRereadTicket
      <4>1. jobOp \in Op /\ OpTicket[jobOp] \in Ticket /\ jobOp' = jobOp
        BY <3>1 DEF JobGetTicket, JobRereadTicket, Throw, JobGoes, TypeOK
      <4>2. \/ jobCopy' = None
            \/ /\ cache[OpTicket[jobOp]] # None
               /\ jobCopy' \in {cache[OpTicket[jobOp]],
                                [cache[OpTicket[jobOp]] EXCEPT !.status = "error"]}
        BY <3>1 DEF JobGetTicket, JobRereadTicket, Throw, JobGoes
      <4>3. \A c \in Entry : \A h : Coherent(c, h) => Coherent([c EXCEPT !.status = "error"], h)
        BY DEF Coherent, Entry
      <4>4. cache[OpTicket[jobOp]] # None => cache[OpTicket[jobOp]] \in Entry
        BY <4>1 DEF TypeOK
      <4>5. jobCopy' # None => Coherent(jobCopy', ado[OpTicket[jobOp]])
        BY <4>1, <4>2, <4>3, <4>4 DEF IInv, CacheCoherent
      <4>. QED  BY <1>1, <2>1, <4>1, <4>5 DEF IInv, CopiesCoherent
    <3>2. CASE ~(JobGetTicket \/ JobRereadTicket)
      <4>1. jobCopy' = None \/ UNCHANGED <<jobCopy, jobOp>>
        BY <1>5, <3>2 DEF JobStep, JobTake, JobPatch, JobPatchFails,
             JobUpdateTicket, JobLogSynced, JobStoreFails, JobRetry, JobLogFailed,
             JobMarkError, JobCatchFails, JobEnd, Requeue, WorkerIdle, Throw,
             JobGoes, TypeOK
      <4>. QED  BY <1>1, <2>1, <4>1 DEF IInv, CopiesCoherent
    <3>. QED  BY <3>1, <3>2
  <2>5. PatchLands'
    <3>1. jobPc' \in {"patched", "stored"} => jobPc = "patched" /\ jobOp' = jobOp
      BY <1>5 DEF JobStep, JobTake, JobGetTicket, JobPatch, JobPatchFails,
           JobUpdateTicket, JobLogSynced, JobStoreFails, JobRetry, JobLogFailed,
           JobRereadTicket, JobMarkError, JobCatchFails, JobEnd, Requeue,
           WorkerIdle, Throw, JobGoes
    <3>. QED  BY <2>1, <3>1 DEF IInv, PatchLands, Lands, Rev
  <2>6. SyncedLogLands'
    <3>1. CASE JobLogSynced
      <4>1. /\ jobPc = "stored" /\ opLog \in [Op -> LogStatus]
            /\ opLog' = [opLog EXCEPT ![jobOp] = "synced"]
        BY <3>1 DEF JobLogSynced, TypeOK
      <4>. QED  BY <2>1, <4>1 DEF IInv, PatchLands, SyncedLogLands, Lands, Rev
    <3>2. CASE ~JobLogSynced
      <4>1. \A o \in Op : opLog'[o] = "synced" => opLog[o] = "synced"
        BY <3>2 DEF JobStep, JobTake, JobGetTicket, JobPatch, JobPatchFails,
             JobPatchReplyLost, JobUpdateTicket, JobStoreFails, JobRetry,
             JobLogFailed, JobRereadTicket, JobMarkError, JobCatchFails, JobEnd,
             TypeOK
      <4>. QED  BY <2>1, <4>1 DEF IInv, SyncedLogLands, Lands, Rev
    <3>. QED  BY <3>1, <3>2
  <2>. QED  BY <1>2, <2>2, <2>3, <2>4, <2>5, <2>6 DEF IInv
<1>. QED  BY <1>3, <1>4, <1>5

\* Syncs, promotions, edits made in ADO and restarts preserve the invariant.
LEMMA InvEnvironment ==
  ASSUME TypeOK, IInv,
         \/ \E o \in Op : Promote(o) \/ StalledCheck(o)
         \/ \E s \in Sync : SyncStep(s)
         \/ \E t \in Ticket : AdoEdit(t) \/ AdoMoveOut(t)
         \/ Crash
  PROVE  IInv'
<1>. USE OpAssumption
<1>1. ASSUME NEW o \in Op, Promote(o) PROVE IInv'
  <2>1. UNCHANGED <<ado, cache, opPc, opCopy, opLog, abandoned, jobPc, jobOp, jobCopy,
                    fetched>>
    BY <1>1 DEF Promote, JobStays, opVars, jobVars, syncVars
  <2>2. ASSUME NEW p \in Op, HasJob(p)' PROVE HasJob(p)
    <3>1. o \in delayed /\ delayed' \subseteq delayed /\ wait' = Append(wait, o)
          /\ wait \in Seq(Op)
      BY <1>1 DEF Promote, TypeOK
    <3>2. p = o \/ HasJob(p)
      BY <2>1, <2>2, <3>1, HasJobAppend
    <3>. QED  BY <3>1, <3>2 DEF HasJob
  <2>. QED
    BY <2>1, <2>2 DEF IInv, JobsAccepted, UnqueuedUnrecorded, CacheCoherent,
       CopiesCoherent, PatchLands, SyncedLogLands, Lands, Unrecorded, Rev
<1>2. ASSUME NEW s \in Sync, SyncFetch(s) PROVE IInv'
  <2>1. UNCHANGED <<ado, cache, opPc, opCopy, opLog, wait, delayed, abandoned,
                    jobPc, jobOp, jobCopy>>
    BY <1>2 DEF SyncFetch, adoVars, opVars, queueVars, jobVars
  <2>2. \A t \in Ticket : Coherent(ToTicket(t), ado[t])
    BY DEF TypeOK, Coherent, ToTicket, Rev, Latest
  <2>3. \A r \in Sync : \A t \in Ticket :
          fetched'[r][t] # None => Coherent(fetched'[r][t], ado[t])
    BY <1>2, <2>2 DEF SyncFetch, IInv, CopiesCoherent, TypeOK
  <2>. QED
    BY <2>1, <2>3 DEF IInv, JobsAccepted, HasJob, UnqueuedUnrecorded,
       CacheCoherent, CopiesCoherent, PatchLands, SyncedLogLands, Lands,
       Unrecorded, Rev
<1>3. ASSUME NEW s \in Sync, SyncSetTickets(s) PROVE IInv'
  <2>1. UNCHANGED <<ado, opPc, opCopy, opLog, wait, delayed, abandoned,
                    jobPc, jobOp, jobCopy>>
    BY <1>3 DEF SyncSetTickets, adoVars, opVars, queueVars, jobVars
  <2>2. CacheCoherent'
    BY <1>3, <2>1 DEF SyncSetTickets, IInv, CacheCoherent, CopiesCoherent
  <2>3. \A r \in Sync : \A t \in Ticket :
          fetched'[r][t] # None => Coherent(fetched'[r][t], ado[t])
    BY <1>3 DEF SyncSetTickets, NoTickets, IInv, CopiesCoherent, TypeOK
  <2>. QED
    BY <2>1, <2>2, <2>3 DEF IInv, JobsAccepted, HasJob, UnqueuedUnrecorded,
       CopiesCoherent, PatchLands, SyncedLogLands, Lands, Unrecorded, Rev
<1>4. ASSUME NEW t \in Ticket, AdoEdit(t) \/ AdoMoveOut(t) PROVE IInv'
  <2>1. UNCHANGED <<cache, opPc, opCopy, opLog, wait, delayed, abandoned, jobPc,
                    jobOp, jobCopy, fetched>>
    BY <1>4 DEF AdoEdit, AdoMoveOut, opVars, queueVars, jobVars, syncVars
  <2>2. External \in Value /\ \E fields : Revise(t, fields, External)
    BY <1>4 DEF AdoEdit, AdoMoveOut, Record, Value
  <2>3. CacheCoherent' /\ CopiesCoherent'
    BY <2>1, <2>2, InvRevise DEF CacheCoherent, CopiesCoherent
  <2>4. \A o \in Op : Unrecorded(o) => Unrecorded(o)'
    BY <2>2, InvRevise
  <2>5. \A o \in Op : Lands(o) => Lands(o)'
    BY <2>2, InvRevise
  <2>6. PatchLands'
    <3>1. jobPc \in {"patched", "stored"} => jobOp \in Op
      BY DEF TypeOK
    <3>. QED  BY <2>1, <2>5, <3>1 DEF IInv, PatchLands
  <2>. QED
    BY <2>1, <2>3, <2>4, <2>5, <2>6 DEF IInv, JobsAccepted, HasJob,
       UnqueuedUnrecorded, SyncedLogLands
<1>5. ASSUME Crash PROVE IInv'
  <2>1. /\ UNCHANGED <<ado, cache, opLog, wait, delayed>>
        /\ jobPc' = "idle" /\ jobOp' = None /\ jobCopy' = None
        /\ abandoned' \subseteq abandoned \cup {jobOp}
        /\ \A o \in Op : opCopy'[o] = None
        /\ \A s \in Sync : \A t \in Ticket : fetched'[s][t] = None
    BY <1>5 DEF Crash, WorkerIdle, adoVars, NoTickets
  <2>2. \A o \in Op : opPc'[o] \in Unqueued => opPc[o] \in Unqueued
    BY <1>5 DEF Crash, Unqueued
  <2>3. ASSUME NEW o \in Op, HasJob(o)' PROVE HasJob(o)
    BY <2>1, <2>3 DEF HasJob
  <2>. QED
    BY <2>1, <2>2, <2>3 DEF IInv, JobsAccepted, UnqueuedUnrecorded,
       CacheCoherent, CopiesCoherent, PatchLands, SyncedLogLands, Lands,
       Unrecorded, Rev
<1>6. ASSUME NEW o \in Op, StalledCheck(o) PROVE IInv'
  <2>1. UNCHANGED <<ado, cache, opPc, opCopy, opLog, delayed, jobPc, jobOp, jobCopy, fetched>>
    BY <1>6 DEF StalledCheck, JobStays, opVars, jobVars, syncVars
  <2>2. ASSUME NEW p \in Op, HasJob(p)' PROVE HasJob(p)
    <3>1. /\ o \in abandoned /\ abandoned' \subseteq abandoned /\ wait \in Seq(Op)
          /\ wait' = wait \/ wait' = <<o>> \o wait
      BY <1>6 DEF StalledCheck, TypeOK
    <3>2. p = o \/ HasJob(p)
      BY <2>1, <2>2, <3>1, HasJobPrepend
    <3>. QED  BY <3>1, <3>2 DEF HasJob
  <2>. QED
    BY <2>1, <2>2 DEF IInv, JobsAccepted, UnqueuedUnrecorded, CacheCoherent,
       CopiesCoherent, PatchLands, SyncedLogLands, Lands, Unrecorded, Rev
<1>. QED  BY <1>1, <1>2, <1>3, <1>4, <1>5, <1>6 DEF SyncStep

\* A step that changes nothing keeps the inductive invariant.
LEMMA InvStutter == IInv /\ UNCHANGED vars => IInv'
  BY DEF vars, adoVars, opVars, queueVars, jobVars, syncVars, budgets, IInv,
     JobsAccepted, HasJob, UnqueuedUnrecorded, CacheCoherent, CopiesCoherent,
     PatchLands, SyncedLogLands, Lands, Unrecorded, Rev

\* The invariant holds in every reachable state.
THEOREM Invariant == Spec => []IInv
<1>1. TypeOK /\ IInv /\ [Next]_vars => IInv'
  BY InvOp, InvJob, InvEnvironment, InvStutter DEF Next
<1>. QED  BY <1>1, InvInit, TypeCorrect, PTL DEF Spec

\* The Redis copy never pairs a revision number with another revision's contents.
THEOREM CacheIsCoherent == Spec => []CacheCoherent
<1>1. IInv => CacheCoherent
  BY DEF IInv
<1>. QED  BY <1>1, Invariant, PTL

\* The audit log claims 'synced' only of operations ADO has recorded.
THEOREM SyncedIsRecorded == Spec => []SyncedLogLands
<1>1. IInv => SyncedLogLands
  BY DEF IInv
<1>. QED  BY <1>1, Invariant, PTL
=============================================================================
