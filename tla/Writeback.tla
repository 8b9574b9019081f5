----------------------------- MODULE Writeback -----------------------------
(***************************************************************************)
(* The life of an operation on the server: an edit of one field of one     *)
(* ticket is applied to the Redis copy of the ticket, logged in Postgres,  *)
(* queued in BullMQ and written back to Azure DevOps (ADO) by a worker,    *)
(* while the periodic sync overwrites the Redis copy with what it read in  *)
(* ADO a moment before.                                                    *)
(*                                                                         *)
(* Every await of the source is a step boundary: the copy of the ticket a  *)
(* handler or the worker took before an await is state of its own.  The    *)
(* value an operation writes is identified with the operation itself, so   *)
(* that a field tells who wrote it last.  An ADO work item is the sequence *)
(* of its revisions; its rev is the length of that sequence.               *)
(***************************************************************************)
EXTENDS Naturals, Sequences

CONSTANTS
  Op,           \* operations the clients submit
  Ticket,       \* work items of the session
  Field,        \* fields of a ticket
  OpTicket,     \* the ticket an operation edits
  OpField,      \* the field it edits
  Sync,         \* sync calls that may be in flight together
  Original,     \* value of a field nobody edited
  External,     \* value written by somebody directly in ADO
  None,         \* absent ticket, no operation, no error
  MaxAttempts,  \* attempts of a write-back job
  MaxStalled,   \* times BullMQ runs a job again whose worker died
  MaxEdits,     \* bound: changes made directly in ADO
  MaxFaults,    \* bound: failed calls to Redis, Postgres, or lost ADO replies
  MaxCrashes    \* bound: restarts of the API process

Value  == Op \cup {Original, External}
Status == {"synced", "pending", "error"}
Entry  == [rev : Nat, val : [Field -> Value], status : Status]

\* Progress of a handler; "lost" when the process died under it.
OpProgress == {"new", "read", "cached", "logged", "queued", "applied",
               "rejected", "lost"}

\* adoSyncStatus of a log entry; "none" before the entry exists.
LogStatus == {"none", "pending", "synced", "failed"}

ASSUME OpAssumption ==
  /\ OpTicket \in [Op -> Ticket]
  /\ OpField \in [Op -> Field]
  /\ Original \notin Op
  /\ External \notin Op
  /\ None \notin Op \cup Entry

ASSUME BoundAssumption ==
  /\ MaxAttempts \in Nat \ {0}
  /\ {MaxStalled, MaxEdits, MaxFaults, MaxCrashes} \subseteq Nat

VARIABLES
  ado,       \* ado[t]: the revisions of work item t, oldest first
  inQuery,   \* work items the session's WIQL query returns
  cache,     \* Redis hash of the session's tickets
  opPc,      \* progress of the handler of each operation
  opCopy,    \* the ticket that handler read from Redis
  opLog,     \* adoSyncStatus of the operation's log entry
  accepted,  \* operations in the order the queue accepted their jobs
  wait,      \* BullMQ wait list
  delayed,   \* jobs waiting for their backoff delay
  abandoned, \* active jobs whose worker died, until a stalled check finds them
  attempts,  \* job.attemptsMade
  stalled,   \* BullMQ's count of lost workers per job
  jobPc,     \* progress of the worker (concurrency 1)
  jobOp,     \* the job it processes
  jobCopy,   \* the ticket it read, then the one it stores
  jobError,  \* what it caught
  syncPc,    \* progress of each sync call
  fetched,   \* what that call read in ADO
  edits, faults, crashes

opVars    == <<opPc, opCopy>>
queueVars == <<wait, delayed, abandoned, attempts, stalled>>
jobVars   == <<jobPc, jobOp, jobCopy, jobError>>
syncVars  == <<syncPc, fetched>>
adoVars   == <<ado, inQuery>>
budgets   == <<edits, faults, crashes>>
vars == <<adoVars, cache, opVars, opLog, accepted, queueVars, jobVars,
          syncVars, budgets>>

-----------------------------------------------------------------------------
(* Tickets *)

Rev(t)    == Len(ado[t])
Latest(t) == ado[t][Rev(t)]

\* AdoMapper.toTicket of the work item's current revision.
ToTicket(t) == [rev |-> Rev(t), val |-> Latest(t), status |-> "synced"]

NoTickets == [t \in Ticket |-> None]

\* The fields an operation changes in the ticket the worker stores: for a board
\* column, the state of its mapping too.
Written(o) ==
  IF OpField[o] = "boardColumn"
  THEN {"boardColumn", "state"} \cap Field
  ELSE {OpField[o]}

\* The fields ADO may change when f is written: moving a card to a board column
\* moves its state, and a new state may make ADO recompute the column.
Recorded(f) ==
  CASE f = "boardColumn" -> {{"boardColumn", "state"} \cap Field}
    [] f = "state" -> {{"state"}, {"state", "boardColumn"} \cap Field}
    [] OTHER -> {{f}}

Put(val, fields, v) == [f \in Field |-> IF f \in fields THEN v ELSE val[f]]

Revise(t, fields, v) ==
  ado' = [ado EXCEPT ![t] = Append(@, Put(Latest(t), fields, v))]

\* ADO records a field written with v.
Record(t, f, v) == \E fields \in Recorded(f) : Revise(t, fields, v)

SpendFault == faults < MaxFaults /\ faults' = faults + 1

-----------------------------------------------------------------------------
(* The handler of an operation: OperationsHandler.handle and               *)
(* SessionsService.applyOperation.                                         *)

OpStays == UNCHANGED <<adoVars, queueVars, accepted, jobVars, syncVars,
                       edits, crashes>>

\* Faulty variant: the missing ticket is not tested for.
OpGetTicketUnchecked(o) ==
  /\ opPc[o] = "new"
  /\ opPc' = [opPc EXCEPT ![o] = "read"]
  /\ opCopy' = [opCopy EXCEPT ![o] = cache[OpTicket[o]]]
  /\ UNCHANGED <<cache, opLog, faults>> /\ OpStays

OpGetTicket(o) ==
  /\ opPc[o] = "new"
  /\ cache[OpTicket[o]] # None
  /\ opPc' = [opPc EXCEPT ![o] = "read"]
  /\ opCopy' = [opCopy EXCEPT ![o] = cache[OpTicket[o]]]
  /\ UNCHANGED <<cache, opLog, faults>> /\ OpStays

OpTicketMissing(o) ==
  /\ opPc[o] = "new"
  /\ cache[OpTicket[o]] = None
  /\ opPc' = [opPc EXCEPT ![o] = "rejected"]
  /\ UNCHANGED <<cache, opCopy, opLog, faults>> /\ OpStays

\* The socket has no session yet (client.data is empty until isSessionMember has
\* answered), and no ticket is found under it.
OpUnidentified(o) ==
  /\ opPc[o] = "new"
  /\ opPc' = [opPc EXCEPT ![o] = "rejected"]
  /\ UNCHANGED <<cache, opCopy, opLog, faults>> /\ OpStays

\* The whole ticket is written back, not the one field.
OpUpdateTicket(o) ==
  /\ opPc[o] = "read"
  /\ cache' = [cache EXCEPT ![OpTicket[o]] =
                 [rev    |-> opCopy[o].rev,
                  val    |-> Put(opCopy[o].val, {OpField[o]}, o),
                  status |-> "pending"]]
  /\ opPc' = [opPc EXCEPT ![o] = "cached"]
  /\ opCopy' = [opCopy EXCEPT ![o] = None]
  /\ UNCHANGED <<opLog, faults>> /\ OpStays

OpCreateLog(o) ==
  /\ opPc[o] = "cached"
  /\ opLog' = [opLog EXCEPT ![o] = "pending"]
  /\ opPc' = [opPc EXCEPT ![o] = "logged"]
  /\ UNCHANGED <<cache, opCopy, faults>> /\ OpStays

\* Faulty variant: the job does not wait for the log entry.
OpEnqueueUnlogged(o) ==
  /\ opPc[o] \in {"cached", "logged"}
  /\ wait' = Append(wait, o)
  /\ accepted' = Append(accepted, o)
  /\ opPc' = [opPc EXCEPT ![o] = "queued"]
  /\ UNCHANGED <<adoVars, cache, opCopy, opLog, delayed, abandoned, attempts,
                 stalled, jobVars, syncVars, budgets>>

\* Faulty variant: the newest job is processed first.
OpEnqueueFirst(o) ==
  /\ opPc[o] = "logged"
  /\ wait' = <<o>> \o wait
  /\ accepted' = Append(accepted, o)
  /\ opPc' = [opPc EXCEPT ![o] = "queued"]
  /\ UNCHANGED <<adoVars, cache, opCopy, opLog, delayed, abandoned, attempts,
                 stalled, jobVars, syncVars, budgets>>

OpEnqueue(o) ==
  /\ opPc[o] = "logged"
  /\ wait' = Append(wait, o)
  /\ accepted' = Append(accepted, o)
  /\ opPc' = [opPc EXCEPT ![o] = "queued"]
  /\ UNCHANGED <<adoVars, cache, opCopy, opLog, delayed, abandoned, attempts,
                 stalled, jobVars, syncVars, budgets>>

\* operation:applied goes to the room once the enqueue has been awaited.
OpApplied(o) ==
  /\ opPc[o] = "queued"
  /\ opPc' = [opPc EXCEPT ![o] = "applied"]
  /\ UNCHANGED <<cache, opCopy, opLog, faults>> /\ OpStays

\* A call of the handler throws, or did its work and its reply is lost:
\* operation:rejected goes to the sender, and what the calls stored stays, a job
\* included.
OpFails(o) ==
  /\ opPc[o] \in {"new", "read", "cached", "logged", "queued"}
  /\ SpendFault
  /\ opPc' = [opPc EXCEPT ![o] = "rejected"]
  /\ opCopy' = [opCopy EXCEPT ![o] = None]
  /\ UNCHANGED <<cache, opLog>> /\ OpStays

OpStep(o) ==
  \/ OpGetTicket(o) \/ OpTicketMissing(o) \/ OpUnidentified(o)
  \/ OpUpdateTicket(o) \/ OpCreateLog(o) \/ OpEnqueue(o) \/ OpApplied(o)
  \/ OpFails(o)

-----------------------------------------------------------------------------
(* The worker: WritebackProcessor.process, one job at a time.              *)

JobStays == UNCHANGED <<opVars, accepted, syncVars, inQuery, edits, crashes>>

JobGoes(pc, copy, error) ==
  /\ jobPc' = pc
  /\ jobCopy' = copy
  /\ jobError' = error
  /\ UNCHANGED jobOp

Throw(error) == JobGoes("caught", None, error)

WorkerIdle ==
  jobPc' = "idle" /\ jobOp' = None /\ jobCopy' = None /\ jobError' = None

JobTake ==
  /\ jobPc = "idle"
  /\ wait # <<>>
  /\ jobPc' = "taken"
  /\ jobOp' = Head(wait)
  /\ wait' = Tail(wait)
  /\ UNCHANGED <<ado, cache, opLog, delayed, abandoned, attempts, stalled,
                 jobCopy, jobError, faults>> /\ JobStays

JobGetTicket ==
  /\ jobPc = "taken"
  /\ IF cache[OpTicket[jobOp]] = None
     THEN Throw("transient")
     ELSE JobGoes("read", cache[OpTicket[jobOp]], None)
  /\ UNCHANGED <<ado, cache, opLog, queueVars, faults>> /\ JobStays

\* Faulty variant: the patch carries no /rev test.
JobPatchUntested ==
  LET t == OpTicket[jobOp] IN
  /\ jobPc = "read"
  /\ Record(t, OpField[jobOp], jobOp)
  /\ JobGoes("patched", [rev    |-> Rev(t) + 1,
                         val    |-> Put(jobCopy.val, Written(jobOp), jobOp),
                         status |-> "synced"], None)
  /\ UNCHANGED <<cache, opLog, queueVars, faults>> /\ JobStays

\* ADO accepts the patch when the revision the job read is the current one.
\* On success the ticket the job will store is the copy it read before.
JobPatch ==
  LET t == OpTicket[jobOp] IN
  /\ jobPc = "read"
  /\ IF jobCopy.rev = Rev(t)
     THEN /\ Record(t, OpField[jobOp], jobOp)
          /\ JobGoes("patched",
                     [rev    |-> Rev(t) + 1,
                      val    |-> Put(jobCopy.val, Written(jobOp), jobOp),
                      status |-> "synced"], None)
     ELSE UNCHANGED ado /\ Throw("conflict")
  /\ UNCHANGED <<cache, opLog, queueVars, faults>> /\ JobStays

\* Faulty variant: a refusal by ADO is taken for a success.
JobPatchRefusalIgnored ==
  /\ jobPc = "read"
  /\ JobGoes("patched", [jobCopy EXCEPT !.status = "synced"], None)
  /\ UNCHANGED <<ado, cache, opLog, queueVars, faults>> /\ JobStays

\* ADO refuses the value (400), or the call never reached it (network, 5xx, no
\* PAT, no column mapping).
JobPatchFails ==
  /\ jobPc = "read"
  /\ \E error \in {"refused", "transient"} : Throw(error)
  /\ UNCHANGED <<ado, cache, opLog, queueVars, faults>> /\ JobStays

\* ADO applied the patch but the reply is lost.
JobPatchReplyLost ==
  /\ jobPc = "read"
  /\ jobCopy.rev = Rev(OpTicket[jobOp])
  /\ SpendFault
  /\ Record(OpTicket[jobOp], OpField[jobOp], jobOp)
  /\ Throw("transient")
  /\ UNCHANGED <<cache, opLog, queueVars>> /\ JobStays

\* Faulty variant: the job starts over when the ticket has left the cache, or is
\* not pending any more.
JobUpdateTicketRetried ==
  LET cached == cache[OpTicket[jobOp]] IN
  /\ jobPc = "patched"
  /\ IF cached # None /\ cached.status = "pending"
     THEN /\ cache' = [cache EXCEPT ![OpTicket[jobOp]] = jobCopy]
          /\ JobGoes("stored", None, None)
     ELSE UNCHANGED cache /\ Throw("transient")
  /\ UNCHANGED <<ado, opLog, queueVars, faults>> /\ JobStays

JobUpdateTicket ==
  /\ jobPc = "patched"
  /\ cache' = [cache EXCEPT ![OpTicket[jobOp]] = jobCopy]
  /\ JobGoes("stored", None, None)
  /\ UNCHANGED <<ado, opLog, queueVars, faults>> /\ JobStays

\* The log entry becomes 'synced' and ticket:sync-status goes to the room.
JobLogSynced ==
  /\ jobPc = "stored"
  /\ opLog' = [opLog EXCEPT ![jobOp] = "synced"]
  /\ JobGoes("done", None, None)
  /\ UNCHANGED <<ado, cache, queueVars, faults>> /\ JobStays

\* Redis or Postgres fails after the patch.
JobStoreFails ==
  /\ jobPc \in {"patched", "stored"}
  /\ SpendFault
  /\ Throw("transient")
  /\ UNCHANGED <<ado, cache, opLog, queueVars>> /\ JobStays

Permanent == jobError \in {"refused", "conflict"}
LastAttempt == attempts[jobOp] >= MaxAttempts - 1

\* BullMQ delays the job for another attempt, or gives it up.
Requeue ==
  /\ IF LastAttempt
     THEN UNCHANGED <<delayed, attempts>>
     ELSE /\ delayed' = delayed \cup {jobOp}
          /\ attempts' = [attempts EXCEPT ![jobOp] = @ + 1]
  /\ WorkerIdle
  /\ UNCHANGED <<wait, abandoned, stalled>>

\* Faulty variant: off by one, the last attempt is not seen as the last.
JobRetryForgotten ==
  /\ jobPc = "caught"
  /\ ~Permanent /\ attempts[jobOp] < MaxAttempts
  /\ Requeue
  /\ UNCHANGED <<ado, cache, opLog, faults>> /\ JobStays

JobRetry ==
  /\ jobPc = "caught"
  /\ ~Permanent /\ ~LastAttempt
  /\ Requeue
  /\ UNCHANGED <<ado, cache, opLog, faults>> /\ JobStays

JobLogFailed ==
  /\ jobPc = "caught"
  /\ Permanent \/ LastAttempt
  /\ opLog' = [opLog EXCEPT ![jobOp] = "failed"]
  /\ JobGoes("failing", None, jobError)
  /\ UNCHANGED <<ado, cache, queueVars, faults>> /\ JobStays

JobRereadTicket ==
  /\ jobPc = "failing"
  /\ IF cache[OpTicket[jobOp]] = None
     THEN JobGoes("done", None, None)
     ELSE JobGoes("reread", [cache[OpTicket[jobOp]] EXCEPT !.status = "error"],
                  jobError)
  /\ UNCHANGED <<ado, cache, opLog, queueVars, faults>> /\ JobStays

\* The ticket in error is stored, then sent to the room as ticket:updated.
JobMarkError ==
  /\ jobPc = "reread"
  /\ cache' = [cache EXCEPT ![OpTicket[jobOp]] = jobCopy]
  /\ JobGoes("done", None, None)
  /\ UNCHANGED <<ado, opLog, queueVars, faults>> /\ JobStays

\* A call inside the catch block throws in turn: its error is not the
\* UnrecoverableError that stops BullMQ from retrying.
JobCatchFails ==
  /\ jobPc \in {"caught", "failing", "reread"}
  /\ Permanent \/ LastAttempt
  /\ SpendFault
  /\ Requeue
  /\ UNCHANGED <<ado, cache, opLog>> /\ JobStays

\* BullMQ records the job as completed, or as failed for good.
JobEnd ==
  /\ jobPc = "done"
  /\ WorkerIdle
  /\ UNCHANGED <<ado, cache, opLog, queueVars, faults>> /\ JobStays

JobStep ==
  \/ JobTake \/ JobGetTicket \/ JobPatch \/ JobPatchFails \/ JobPatchReplyLost
  \/ JobUpdateTicket \/ JobLogSynced \/ JobStoreFails \/ JobRetry
  \/ JobLogFailed \/ JobRereadTicket \/ JobMarkError \/ JobCatchFails
  \/ JobEnd

\* A backoff delay elapses: the job goes behind those that wait.
Promote(o) ==
  /\ o \in delayed
  /\ delayed' = delayed \ {o}
  /\ wait' = Append(wait, o)
  /\ UNCHANGED <<ado, cache, opLog, abandoned, attempts, stalled, jobVars,
                 faults>> /\ JobStays

\* BullMQ finds an active job whose lock expired: it goes in front of those that
\* wait, or fails without running if it lost a worker too often.
StalledCheck(o) ==
  /\ o \in abandoned
  /\ abandoned' = abandoned \ {o}
  /\ stalled' = [stalled EXCEPT ![o] = @ + 1]
  /\ wait' = IF stalled[o] < MaxStalled THEN <<o>> \o wait ELSE wait
  /\ UNCHANGED <<ado, cache, opLog, delayed, attempts, jobVars, faults>>
  /\ JobStays

-----------------------------------------------------------------------------
(* The sync of the tickets: SyncService.syncTickets.                       *)

SyncFetch(s) ==
  /\ syncPc[s] = "idle"
  /\ syncPc' = [syncPc EXCEPT ![s] = "fetched"]
  /\ fetched' = [fetched EXCEPT ![s] =
       [t \in Ticket |-> IF t \in inQuery THEN ToTicket(t) ELSE None]]
  /\ UNCHANGED <<adoVars, cache, opVars, opLog, accepted, queueVars, jobVars,
                 budgets>>

\* Faulty variant: an edited ticket keeps its fields and takes the new rev.
SyncSetTicketsMerged(s) ==
  /\ syncPc[s] = "fetched"
  /\ cache' = [t \in Ticket |->
       IF cache[t] # None /\ fetched[s][t] # None /\ cache[t].status # "synced"
       THEN [cache[t] EXCEPT !.rev = fetched[s][t].rev] ELSE fetched[s][t]]
  /\ syncPc' = [syncPc EXCEPT ![s] = "idle"]
  /\ fetched' = [fetched EXCEPT ![s] = NoTickets]
  /\ UNCHANGED <<adoVars, opVars, opLog, accepted, queueVars, jobVars, budgets>>

\* Faulty variant: tickets that are not 'synced' are left alone.
SyncSetTicketsSkipping(s) ==
  /\ syncPc[s] = "fetched"
  /\ cache' = [t \in Ticket |->
       IF cache[t] # None /\ cache[t].status # "synced" THEN cache[t] ELSE fetched[s][t]]
  /\ syncPc' = [syncPc EXCEPT ![s] = "idle"]
  /\ fetched' = [fetched EXCEPT ![s] = NoTickets]
  /\ UNCHANGED <<adoVars, opVars, opLog, accepted, queueVars, jobVars, budgets>>

\* The whole hash is replaced by what was fetched.
SyncSetTickets(s) ==
  /\ syncPc[s] = "fetched"
  /\ cache' = fetched[s]
  /\ syncPc' = [syncPc EXCEPT ![s] = "idle"]
  /\ fetched' = [fetched EXCEPT ![s] = NoTickets]
  /\ UNCHANGED <<adoVars, opVars, opLog, accepted, queueVars, jobVars, budgets>>

SyncStep(s) == SyncFetch(s) \/ SyncSetTickets(s)

-----------------------------------------------------------------------------
(* The environment *)

\* Somebody edits a field of the work item directly in ADO.
AdoEdit(t) ==
  /\ edits < MaxEdits
  /\ edits' = edits + 1
  /\ \E f \in Field : Record(t, f, External)
  /\ UNCHANGED <<inQuery, cache, opVars, opLog, accepted, queueVars, jobVars,
                 syncVars, faults, crashes>>

\* Somebody moves the work item out of the query in ADO: a new revision too.
AdoMoveOut(t) ==
  /\ edits < MaxEdits
  /\ edits' = edits + 1
  /\ inQuery' = inQuery \ {t}
  /\ Revise(t, {}, External)
  /\ UNCHANGED <<cache, opVars, opLog, accepted, queueVars, jobVars, syncVars,
                 faults, crashes>>

\* The API process dies and restarts: handlers and sync calls are gone, and the
\* active job stays in BullMQ's active list under the lock of the dead worker.
Crash ==
  /\ crashes < MaxCrashes
  /\ crashes' = crashes + 1
  /\ opPc' = [o \in Op |-> IF opPc[o] \in {"read", "cached", "logged", "queued"}
                           THEN "lost" ELSE opPc[o]]
  /\ opCopy' = [o \in Op |-> None]
  /\ syncPc' = [s \in Sync |-> "idle"]
  /\ fetched' = [s \in Sync |-> NoTickets]
  /\ abandoned' = abandoned \cup ({jobOp} \ {None})
  /\ WorkerIdle
  /\ UNCHANGED <<adoVars, cache, opLog, accepted, wait, delayed, attempts,
                 stalled, edits, faults>>

-----------------------------------------------------------------------------

Init ==
  /\ ado = [t \in Ticket |-> << [f \in Field |-> Original] >>]
  /\ inQuery = Ticket
  /\ cache = [t \in Ticket |-> ToTicket(t)]
  /\ opPc = [o \in Op |-> "new"]
  /\ opCopy = [o \in Op |-> None]
  /\ opLog = [o \in Op |-> "none"]
  /\ accepted = <<>>
  /\ wait = <<>>
  /\ delayed = {} /\ abandoned = {}
  /\ attempts = [o \in Op |-> 0]
  /\ stalled = [o \in Op |-> 0]
  /\ jobPc = "idle" /\ jobOp = None /\ jobCopy = None /\ jobError = None
  /\ syncPc = [s \in Sync |-> "idle"]
  /\ fetched = [s \in Sync |-> NoTickets]
  /\ edits = 0 /\ faults = 0 /\ crashes = 0

Next ==
  \/ \E o \in Op : OpStep(o) \/ Promote(o) \/ StalledCheck(o)
  \/ JobStep
  \/ \E s \in Sync : SyncStep(s)
  \/ \E t \in Ticket : AdoEdit(t) \/ AdoMoveOut(t)
  \/ Crash

Spec == Init /\ [][Next]_vars

\* The event loop runs every handler it started, the worker its job, BullMQ
\* promotes delayed jobs and looks for stalled ones, and the clients' polls keep
\* calling the sync.
Fairness ==
  /\ \A o \in Op : /\ WF_vars(OpStep(o))
                   /\ WF_vars(Promote(o)) /\ WF_vars(StalledCheck(o))
  /\ WF_vars(JobStep)
  /\ \A s \in Sync : WF_vars(SyncStep(s))

FairSpec == Spec /\ Fairness

-----------------------------------------------------------------------------
(* Types *)

\* Every variable keeps its type; a handler or the worker holds a copy of the
\* ticket exactly between the await that read it and the one that stores it.
TypeOK ==
  /\ ado \in [Ticket -> Seq([Field -> Value]) \ {<<>>}]
  /\ inQuery \in SUBSET Ticket
  /\ cache \in [Ticket -> Entry \cup {None}]
  /\ opPc \in [Op -> OpProgress]
  /\ opCopy \in [Op -> Entry \cup {None}]
  /\ \A o \in Op : opPc[o] = "read" <=> opCopy[o] # None
  /\ opLog \in [Op -> LogStatus]
  /\ accepted \in Seq(Op) /\ wait \in Seq(Op)
  /\ delayed \in SUBSET Op /\ abandoned \in SUBSET Op
  /\ attempts \in [Op -> Nat] /\ stalled \in [Op -> Nat]
  /\ jobPc \in {"idle", "taken", "read", "patched", "stored", "caught",
                "failing", "reread", "done"}
  /\ jobOp \in Op \cup {None} /\ (jobPc = "idle" <=> jobOp = None)
  /\ jobCopy \in Entry \cup {None}
  /\ jobPc \in {"read", "patched", "reread"} <=> jobCopy # None
  /\ jobError \in {None, "refused", "conflict", "transient"}
  /\ syncPc \in [Sync -> {"idle", "fetched"}]
  /\ fetched \in [Sync -> [Ticket -> Entry \cup {None}]]
  /\ edits \in Nat /\ faults \in Nat /\ crashes \in Nat

-----------------------------------------------------------------------------
(* What the pipeline guarantees *)

\* A value ADO put in field f when it recomputed the board column of a ticket
\* whose state an operation changed; the worker does not read it back.
Recomputed(f, v) == f = "boardColumn" /\ v \in Op /\ OpField[v] = "state"

\* A copy of a ticket agrees with the revision of the same number in the history
\* of the work item, except for fields that hold an operation ADO had not
\* recorded up to that revision, and for a column ADO recomputed.
Coherent(copy, history) ==
  /\ copy.rev \in 1 .. Len(history)
  /\ \A f \in Field :
       \/ copy.val[f] = history[copy.rev][f]
       \/ /\ copy.val[f] \in Op
          /\ \A i \in 1 .. copy.rev : history[i][f] # copy.val[f]
       \/ Recomputed(f, history[copy.rev][f])

\* The Redis copy of a ticket never pairs a revision number with the contents of
\* another revision, whatever the races between handlers, worker and sync, save
\* the board column an edit of the state made ADO recompute: the /rev test of the
\* write-back therefore vouches for every other field it carries.
CacheCoherent ==
  \A t \in Ticket : cache[t] # None => Coherent(cache[t], ado[t])

\* Operation o is in ADO's history of its ticket.
Lands(o) ==
  \E i \in 1 .. Rev(OpTicket[o]) : ado[OpTicket[o]][i][OpField[o]] = o

\* The audit log says 'synced' only of operations ADO has recorded.
SyncedLogLands == \A o \in Op : opLog[o] = "synced" => Lands(o)

\* No call of Redis, Postgres or ADO was lost, and the process did not restart.
Calm == faults = 0 /\ crashes = 0

\* What the server promises about each edit.
Contract == INSTANCE EditContract WITH
  fate <- opLog, landed <- {o \in Op : Lands(o)}, trouble <- ~Calm

\* The pipeline keeps the contract: an edit is written only once it is in the log and as
\* long as it is not answered for, 'synced' is never said of an edit ADO has not, and
\* without failures the answer is the truth and stays.
KeepsContract == Contract!Spec

HasJob(o) ==
  \/ o \in delayed \cup abandoned
  \/ jobOp = o
  \/ \E i \in 1 .. Len(wait) : wait[i] = o

\* No accepted operation is forgotten: as long as nothing but ADO failed, and
\* the process did not die more often than BullMQ forgives, an operation whose
\* log entry is still 'pending' has a job that will settle it.
PendingHasJob ==
  faults = 0 /\ crashes <= MaxStalled =>
    \A o \in Op :
      opLog[o] = "pending" /\ opPc[o] \in {"queued", "applied"} => HasJob(o)

\* Without infrastructure failures the log says 'failed' only of operations that
\* never reached ADO: a refused or abandoned write left no trace there.
FailedLogNeverLands ==
  Calm =>
    \A o \in Op : opLog[o] = "failed" => ~Lands(o)

\* Without infrastructure failures a value that was overwritten in ADO does not
\* come back: the retries of a job never replay a write that already landed.
NoResurrection ==
  Calm =>
    \A o \in Op : LET history == ado[OpTicket[o]] f == OpField[o] IN
      \A i, j \in 1 .. Len(history) : \A k \in i .. j :
        history[i][f] = o /\ history[j][f] = o => history[k][f] = o

Before(o, p) ==
  \E i, j \in 1 .. Len(accepted) : i < j /\ accepted[i] = o /\ accepted[j] = p

SameField(o, p) == OpTicket[o] = OpTicket[p] /\ OpField[o] = OpField[p]

\* p was overwritten in ADO by the older operation o.
Overtakes(p, o) ==
  LET history == ado[OpTicket[o]] f == OpField[o] IN
  \E i, j \in 1 .. Len(history) : i < j /\ history[i][f] = p /\ history[j][f] = o

\* Its job was not delayed for another attempt, and did not lose a worker.
RunOnce(o) == attempts[o] = 0 /\ stalled[o] = 0 /\ o \notin abandoned

\* Two operations on one field reach ADO in the order the queue accepted them,
\* unless the older one was retried or lost its worker: retries and restarts
\* that hit other jobs do not reorder them.
FifoUnlessRerun ==
  \A o, p \in Op : Before(o, p) /\ SameField(o, p) /\ RunOnce(o)
                     => ~Overtakes(p, o)

\* Every accepted operation ends with a log entry 'synced' or 'failed', across
\* retries and a restart of the process.
JobsSettle ==
  \A o \in Op : opPc[o] = "queued" ~> opLog[o] \in {"synced", "failed"}

\* When edits stop, the Redis copy of every ticket of the query ends equal to
\* the work item, with no edit left marked pending or in error.
CacheConverges == <>[](\A t \in inQuery : cache[t] = ToTicket(t))

-----------------------------------------------------------------------------
(* Why they hold: the invariants the proofs carry along *)

\* The values of o are nowhere in ADO.
Unrecorded(o) ==
  \A t \in Ticket : \A i \in 1 .. Rev(t) : \A f \in Field : ado[t][i][f] # o

Unqueued == {"new", "read", "cached", "logged"}

\* Only operations the queue accepted have jobs.
JobsAccepted == \A o \in Op : HasJob(o) => opPc[o] \notin Unqueued

\* An operation the queue has not accepted is not in ADO.
UnqueuedUnrecorded == \A o \in Op : opPc[o] \in Unqueued => Unrecorded(o)

\* The copies held across an await are coherent as well.
CopiesCoherent ==
  /\ \A o \in Op : opCopy[o] # None => Coherent(opCopy[o], ado[OpTicket[o]])
  /\ jobCopy # None => Coherent(jobCopy, ado[OpTicket[jobOp]])
  /\ \A s \in Sync : \A t \in Ticket :
       fetched[s][t] # None => Coherent(fetched[s][t], ado[t])

\* After the patch and before the log entry is updated, ADO has the operation.
PatchLands == jobPc \in {"patched", "stored"} => Lands(jobOp)

IInv ==
  /\ JobsAccepted /\ UnqueuedUnrecorded
  /\ CacheCoherent /\ CopiesCoherent
  /\ PatchLands /\ SyncedLogLands

\* The log follows the handler: no entry before it creates one, and one for each job.
LogFollows ==
  \A o \in Op : /\ opPc[o] \in {"new", "read", "cached"} => opLog[o] = "none"
                /\ opPc[o] = "logged" => opLog[o] = "pending"
                /\ HasJob(o) => opLog[o] # "none"

Ending == {"failing", "reread", "done"}

\* The worker leaves a job for good once the log has an answer.
EndsAnswered == jobPc \in Ending => opLog[jobOp] \in {"synced", "failed"}

\* A job loses its worker by restarts only.
StalledByCrashes ==
  \A o \in Op : stalled[o] + (IF o \in abandoned THEN 1 ELSE 0) <= crashes

\* An operation has one job.
JobsOnce ==
  /\ \A i, j \in 1 .. Len(wait) : wait[i] = wait[j] => i = j
  /\ \A i \in 1 .. Len(wait) : wait[i] \notin delayed \cup abandoned \cup {jobOp}
  /\ jobOp \notin delayed \cup abandoned
  /\ delayed \cap abandoned = {}

\* A job that was not answered for is pending, and ADO has its operation only between its
\* patch and the answer.
JobsOpen ==
  \A o \in Op : HasJob(o) =>
    \/ o = jobOp /\ jobPc \in Ending
    \/ opLog[o] = "pending" /\ (Lands(o) => o = jobOp /\ jobPc \in {"patched", "stored"})

LogInv ==
  /\ LogFollows /\ EndsAnswered /\ StalledByCrashes /\ PendingHasJob
  /\ Calm => JobsOnce /\ JobsOpen
  /\ FailedLogNeverLands /\ NoResurrection
=============================================================================
