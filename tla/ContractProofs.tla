--------------------------- MODULE ContractProofs ---------------------------
(***************************************************************************)
(* Proofs that the pipeline of Writeback keeps the contract of EditContract*)
(* and what the contract rests on: a job for every pending operation, one  *)
(* at most, none that replays what Azure DevOps already recorded; and that *)
(* the edits of a field reach Azure DevOps in the order they were made,    *)
(* unless one was run again.  For any operations, tickets, fields, budgets   *)
(* and number of attempts.                                                 *)
(***************************************************************************)
EXTENDS WritebackProofs

-----------------------------------------------------------------------------
(* Lemmas about what Azure DevOps has recorded *)

\* Writing v changes nothing to which other operations are recorded.
LEMMA LandsOther ==
  ASSUME TypeOK, NEW t \in Ticket, NEW fields, NEW v \in Value,
         Revise(t, fields, v), NEW o \in Op, o # v
  PROVE  Lands(o)' <=> Lands(o)
<1>. DEFINE u == OpTicket[o]
            new == Put(Latest(t), fields, v)
<1>1. u \in Ticket /\ OpField[o] \in Field /\ ado[u] \in History /\ ado[t] \in History
  BY OpAssumption DEF TypeOK, History
<1>2. Latest(t) \in [Field -> Value] /\ Len(ado[t]) \in 1 .. Len(ado[t])
  BY <1>1, ReviseType DEF Rev
<1>3. new \in [Field -> Value]
  BY <1>2, PutType
<1>4. ado'[u] = IF u = t THEN Append(ado[t], new) ELSE ado[u]
  BY <1>1 DEF Revise, TypeOK
<1>5. SUFFICES ASSUME Lands(o)' PROVE Lands(o)
  BY LandsRevise
<1>6. PICK i \in 1 .. Len(ado'[u]) : ado'[u][i][OpField[o]] = o
  BY <1>5 DEF Lands, Rev
<1>7. CASE u # t \/ i # Len(ado[t]) + 1
  <2>1. i \in 1 .. Len(ado[u]) /\ ado'[u][i] = ado[u][i]
    BY <1>1, <1>3, <1>4, <1>6, <1>7 DEF History
  <2>. QED  BY <1>6, <2>1 DEF Lands, Rev
<1>8. CASE u = t /\ i = Len(ado[t]) + 1
  <2>1. new[OpField[o]] = o
    BY <1>1, <1>3, <1>4, <1>6, <1>8 DEF History
  <2>2. Latest(t)[OpField[o]] = o
    BY <1>1, <1>2, <2>1 DEF Put
  <2>. QED  BY <1>1, <1>2, <1>8, <2>2 DEF Lands, Rev, Latest
<1>. QED  BY <1>7, <1>8

\* An operation that nobody recorded does not land.
LEMMA UnrecordedNotLanded ==
  ASSUME NEW o \in Op, Unrecorded(o)
  PROVE  ~Lands(o)
  BY OpAssumption DEF Unrecorded, Lands, Rev

\* The revisions in which o holds its field follow one another.
OneStretch(o) ==
  LET history == ado[OpTicket[o]] f == OpField[o] IN
  \A i, j \in 1 .. Len(history) : \A k \in i .. j :
    history[i][f] = o /\ history[j][f] = o => history[k][f] = o

\* A new revision keeps them so, unless it writes an operation already recorded.
LEMMA StretchRevise ==
  ASSUME TypeOK, NEW t \in Ticket, NEW fields, NEW v \in Value,
         Revise(t, fields, v), NEW o \in Op, OneStretch(o), o = v => ~Lands(o)
  PROVE  OneStretch(o)'
<1>. DEFINE u == OpTicket[o]
            g == OpField[o]
            h == ado[u]
            n == Len(ado[t])
            new == Put(Latest(t), fields, v)
<1>1. u \in Ticket /\ g \in Field /\ h \in History /\ ado[t] \in History
  BY OpAssumption DEF TypeOK, History
<1>2. Latest(t) \in [Field -> Value] /\ n \in 1 .. n /\ Latest(t) = ado[t][n]
  BY <1>1, ReviseType DEF Rev, Latest
<1>3. new \in [Field -> Value]
  BY <1>2, PutType
<1>4. ado'[u] = IF u = t THEN Append(ado[t], new) ELSE ado[u]
  BY <1>1 DEF Revise, TypeOK
<1>5. CASE u # t
  BY <1>4, <1>5 DEF OneStretch
<1>6. CASE u = t
  <2>1. /\ Len(ado'[u]) = n + 1 /\ ado'[u][n + 1] = new
        /\ \A i \in 1 .. n : ado'[u][i] = h[i]
    BY <1>1, <1>3, <1>4, <1>6 DEF History
  <2>2. new[g] = o => o = v \/ h[n][g] = o
    BY <1>1, <1>2, <1>6 DEF Put
  <2>. SUFFICES ASSUME NEW i \in 1 .. n + 1, NEW j \in 1 .. n + 1, NEW k \in i .. j,
                       ado'[u][i][g] = o, ado'[u][j][g] = o
                PROVE  ado'[u][k][g] = o
    BY <2>1 DEF OneStretch
  <2>3. n \in Nat /\ i \in Nat /\ j \in Nat /\ k \in Nat /\ i <= k /\ k <= j
    BY <1>2
  <2>4. CASE k = n + 1 \/ i = n + 1
    <3>1. k = j \/ k = i
      BY <2>3, <2>4
    <3>. QED  BY <3>1
  <2>5. CASE k # n + 1 /\ i # n + 1
    <3>1. i \in 1 .. n /\ k \in 1 .. n /\ h[i][g] = o
      BY <2>1, <2>3, <2>5
    <3>2. Lands(o)
      BY <1>6, <3>1 DEF Lands, Rev
    <3>3. CASE j = n + 1
      <4>1. h[n][g] = o /\ n \in 1 .. n /\ k \in i .. n
        BY <1>2, <2>1, <2>2, <2>3, <3>1, <3>2, <3>3
      <4>. QED  BY <1>6, <2>1, <3>1, <4>1 DEF OneStretch
    <3>4. CASE j # n + 1
      <4>1. j \in 1 .. n /\ h[j][g] = o
        BY <2>1, <2>3, <3>4
      <4>. QED  BY <1>6, <2>1, <3>1, <4>1 DEF OneStretch
    <3>. QED  BY <3>3, <3>4
  <2>. QED  BY <2>4, <2>5
<1>. QED  BY <1>5, <1>6

-----------------------------------------------------------------------------
(* The invariant of the log *)

\* A fresh session satisfies it.
LEMMA LogInit == Init => LogInv
<1>. SUFFICES ASSUME Init PROVE LogInv
  OBVIOUS
<1>. USE OpAssumption DEF Init
<1>1. ASSUME NEW o \in Op PROVE ~HasJob(o)
  <2>1. /\ delayed = {} /\ abandoned = {}
        /\ jobOp = None /\ Len(wait) = 0 /\ jobOp # o
    OBVIOUS
  <2>. HIDE DEF Init
  <2>. QED  BY <2>1 DEF HasJob
<1>2. LogFollows /\ EndsAnswered /\ StalledByCrashes /\ PendingHasJob
  BY <1>1 DEF LogFollows, EndsAnswered, Ending, StalledByCrashes, PendingHasJob
<1>3. JobsOnce /\ JobsOpen
  BY <1>1 DEF JobsOnce, JobsOpen
<1>4. FailedLogNeverLands
  BY DEF FailedLogNeverLands
<1>5. NoResurrection
  <2>1. \A o \in Op : Len(ado[OpTicket[o]]) = 1
    BY OpAssumption
  <2>2. \A o \in Op : \A i, j \in 1 .. Len(ado[OpTicket[o]]) : \A k \in i .. j : k = i
    BY <2>1
  <2>. QED  BY <2>2 DEF NoResurrection
<1>. QED  BY <1>2, <1>3, <1>4, <1>5 DEF LogInv

\* While ADO is left alone, what is recorded and in which order stays.
LEMMA AdoStays ==
  ASSUME ado' = ado
  PROVE  /\ \A o \in Op : Lands(o)' = Lands(o)
         /\ \A o \in Op : OneStretch(o)' = OneStretch(o)
  BY DEF Lands, Rev, OneStretch

\* NoResurrection in terms of stretches.
LEMMA Stretches ==
  /\ NoResurrection <=> (Calm => \A o \in Op : OneStretch(o))
  /\ NoResurrection' <=> (Calm' => \A o \in Op : OneStretch(o)')
  BY DEF NoResurrection, OneStretch

\* A step of a handler restarts nothing, and gives the queue a job only to enqueue it.
LEMMA OpLogEffect ==
  ASSUME TypeOK, NEW o \in Op, OpStep(o)
  PROVE  /\ crashes' = crashes /\ stalled' = stalled /\ abandoned' = abandoned
         /\ faults' = faults \/ (OpFails(o) /\ faults' = faults + 1)
         /\ OpEnqueue(o) \/ wait' = wait
         /\ OpCreateLog(o) \/ opLog' = opLog
  BY DEF OpStep, OpStays, queueVars, budgets, OpGetTicket, OpTicketMissing, OpUnidentified, OpUpdateTicket,
         OpCreateLog, OpEnqueue, OpApplied, OpFails, SpendFault, TypeOK

\* Enqueueing an operation gives it its only job.
LEMMA LogEnqueue ==
  ASSUME TypeOK, IInv, LogInv, NEW o \in Op, OpEnqueue(o)
  PROVE  LogInv'
<1>1. /\ opPc[o] = "logged" /\ opLog' = opLog /\ wait' = Append(wait, o)
      /\ opPc' = [opPc EXCEPT ![o] = "queued"] /\ opPc \in [Op -> OpProgress]
      /\ UNCHANGED <<ado, delayed, abandoned, stalled, jobPc, jobOp, faults, crashes>>
      /\ wait \in Seq(Op) /\ jobOp \in Op \cup {None} /\ delayed \subseteq Op
  BY DEF OpEnqueue, TypeOK, adoVars, jobVars, budgets
<1>2. ~HasJob(o) /\ ~Lands(o) /\ opLog[o] = "pending"
  BY <1>1, UnrecordedNotLanded
     DEF IInv, JobsAccepted, UnqueuedUnrecorded, Unqueued, LogInv, LogFollows
<1>3. Calm' = Calm /\ \A p \in Op : Lands(p)' = Lands(p) /\ OneStretch(p)' = OneStretch(p)
  BY <1>1, AdoStays DEF Calm
<1>4. /\ Len(wait') = Len(wait) + 1 /\ wait'[Len(wait) + 1] = o /\ Len(wait) \in Nat
      /\ \A i \in 1 .. Len(wait) : wait'[i] = wait[i] /\ i \in 1 .. Len(wait')
  BY <1>1
<1>5. \A p \in Op : HasJob(p)' <=> p = o \/ HasJob(p)
  <2>1. \A p \in Op : HasJob(p)' => p = o \/ HasJob(p)
    BY <1>1, HasJobAppend
  <2>2. \A p \in Op : HasJob(p) => HasJob(p)'
    BY <1>1, <1>4 DEF HasJob
  <2>3. HasJob(o)'
    BY <1>4 DEF HasJob
  <2>. QED  BY <2>1, <2>2, <2>3
<1>6. LogFollows'
  BY <1>1, <1>2, <1>5 DEF LogInv, LogFollows
<1>7. EndsAnswered' /\ StalledByCrashes'
  BY <1>1 DEF LogInv, EndsAnswered, StalledByCrashes
<1>8. PendingHasJob'
  BY <1>1, <1>5 DEF LogInv, PendingHasJob
<1>9. ASSUME Calm PROVE JobsOnce'
  <2>1. JobsOnce
    BY <1>9 DEF LogInv
  <2>2. \A i \in 1 .. Len(wait) : wait[i] # o
    BY <1>2 DEF HasJob
  <2>3. o \notin delayed \cup abandoned \cup {jobOp}
    BY <1>2 DEF HasJob
  <2>4. \A i \in 1 .. Len(wait') : i \in 1 .. Len(wait) \/ i = Len(wait) + 1
    BY <1>4
  <2>. QED  BY <1>1, <1>4, <2>1, <2>2, <2>3, <2>4 DEF JobsOnce
<1>10. ASSUME Calm PROVE JobsOpen'
  BY <1>1, <1>2, <1>3, <1>5, <1>10 DEF LogInv, JobsOpen
<1>11. FailedLogNeverLands' /\ NoResurrection'
  <2>1. FailedLogNeverLands'
    BY <1>1, <1>3 DEF LogInv, FailedLogNeverLands
  <2>2. NoResurrection'
    BY <1>3, Stretches DEF LogInv
  <2>. QED  BY <2>1, <2>2
<1>. QED  BY <1>3, <1>6, <1>7, <1>8, <1>9, <1>10, <1>11 DEF LogInv

\* As long as the jobs stay where they are, what is said of them stays.
LEMMA JobsStay ==
  ASSUME UNCHANGED <<wait, delayed, abandoned, jobOp, jobPc>>
  PROVE  /\ \A o \in Op : HasJob(o)' = HasJob(o)
         /\ JobsOnce' = JobsOnce
  BY DEF HasJob, JobsOnce

\* The other steps of a handler keep the invariant of the log.
LEMMA LogHandle ==
  ASSUME TypeOK, IInv, LogInv, NEW o \in Op, OpStep(o), ~OpEnqueue(o)
  PROVE  LogInv'
<1>1. UNCHANGED <<ado, wait, delayed, abandoned, stalled, jobPc, jobOp, crashes>>
  BY OpEffect, OpLogEffect
<1>2. faults \in Nat /\ (faults' = faults \/ faults' = faults + 1)
  BY OpLogEffect DEF TypeOK
<1>3. Calm' => Calm
  BY <1>1, <1>2 DEF Calm
<1>4. /\ \A p \in Op : Lands(p)' = Lands(p) /\ OneStretch(p)' = OneStretch(p)
      /\ \A p \in Op : HasJob(p)' = HasJob(p)
      /\ JobsOnce' = JobsOnce
  BY <1>1, AdoStays, JobsStay
<1>5. opPc \in [Op -> OpProgress] /\ opLog \in [Op -> LogStatus]
  BY DEF TypeOK
<1>6. CASE OpCreateLog(o)
  <2>1. /\ opPc[o] = "cached" /\ opLog[o] = "none"
        /\ opPc' = [opPc EXCEPT ![o] = "logged"] /\ opLog' = [opLog EXCEPT ![o] = "pending"]
    BY <1>6 DEF OpCreateLog, LogInv, LogFollows
  <2>2. ~HasJob(o)
    BY <2>1 DEF IInv, JobsAccepted, Unqueued
  <2>3. LogFollows'
    BY <1>4, <1>5, <2>1 DEF LogInv, LogFollows
  <2>4. EndsAnswered'
    <3>1. jobPc \in Ending => jobOp # o
      BY <2>2 DEF HasJob
    <3>. QED  BY <1>1, <1>5, <2>1, <3>1 DEF LogInv, EndsAnswered
  <2>5. StalledByCrashes'
    BY <1>1 DEF LogInv, StalledByCrashes
  <2>6. PendingHasJob'
    BY <1>1, <1>2, <1>4, <1>5, <2>1 DEF LogInv, PendingHasJob
  <2>7. ASSUME Calm' PROVE JobsOnce' /\ JobsOpen'
    BY <1>1, <1>3, <1>4, <1>5, <2>1, <2>2, <2>7 DEF LogInv, JobsOpen
  <2>8. FailedLogNeverLands'
    BY <1>3, <1>4, <1>5, <2>1 DEF LogInv, FailedLogNeverLands
  <2>9. NoResurrection'
    BY <1>3, <1>4, Stretches DEF LogInv
  <2>. QED  BY <2>3, <2>4, <2>5, <2>6, <2>7, <2>8, <2>9 DEF LogInv
<1>7. CASE ~OpCreateLog(o)
  <2>1. opLog' = opLog
    BY <1>7, OpLogEffect
  <2>2. PICK pc : /\ opPc' = [opPc EXCEPT ![o] = pc]
                  /\ pc \in {"new", "read", "cached"} => opPc[o] \in {"new", "read"}
                  /\ pc # "logged"
                  /\ pc \in {"queued", "applied"} => opPc[o] \in {"queued", "applied"}
    BY <1>7, <1>5 DEF OpStep, OpGetTicket, OpTicketMissing, OpUnidentified, OpUpdateTicket, OpEnqueue, OpApplied,
                OpFails
  <2>3. LogFollows'
    BY <1>4, <1>5, <2>1, <2>2 DEF LogInv, LogFollows
  <2>4. EndsAnswered' /\ StalledByCrashes'
    BY <1>1, <2>1 DEF LogInv, EndsAnswered, StalledByCrashes
  <2>5. PendingHasJob'
    BY <1>1, <1>2, <1>4, <1>5, <2>1, <2>2 DEF LogInv, PendingHasJob
  <2>6. ASSUME Calm' PROVE JobsOnce' /\ JobsOpen'
    BY <1>1, <1>3, <1>4, <2>1, <2>6 DEF LogInv, JobsOpen
  <2>7. FailedLogNeverLands'
    BY <1>3, <1>4, <2>1 DEF LogInv, FailedLogNeverLands
  <2>8. NoResurrection'
    BY <1>3, <1>4, Stretches DEF LogInv
  <2>. QED  BY <2>3, <2>4, <2>5, <2>6, <2>7, <2>8 DEF LogInv
<1>. QED  BY <1>6, <1>7

\* What the steps of the worker have in common: a job that goes is the worker's own, and
\* goes with the end of its processing or with a fault.
LEMMA JobLogEffect ==
  ASSUME TypeOK, JobStep
  PROVE  /\ UNCHANGED <<opPc, crashes, stalled, abandoned>>
         /\ faults' = faults \/ faults' = faults + 1
         /\ \A p \in Op : HasJob(p)' => HasJob(p)
         /\ \A p \in Op : HasJob(p) =>
              HasJob(p)' \/ (p = jobOp /\ (JobEnd \/ faults' = faults + 1))
<1>1. UNCHANGED <<opPc, crashes, stalled, abandoned>> /\ (faults' = faults \/ faults' = faults + 1)
  BY DEF JobStep, JobStays, opVars, queueVars, JobTake, JobGetTicket, JobPatch,
         JobPatchFails, JobPatchReplyLost, JobUpdateTicket, JobLogSynced,
         JobStoreFails, JobRetry, JobLogFailed, JobRereadTicket, JobMarkError,
         JobCatchFails, JobEnd, SpendFault, Requeue
<1>2. CASE JobTake
  <2>1. wait \in Seq(Op) /\ wait # <<>> /\ jobOp = None
    BY <1>2 DEF JobTake, TypeOK
  <2>2. jobOp' = wait[1] /\ 1 \in 1 .. Len(wait) /\ delayed' = delayed
    BY <1>2, <2>1 DEF JobTake
  <2>3. /\ \A i \in 1 .. Len(wait') : wait'[i] = wait[i + 1] /\ i + 1 \in 1 .. Len(wait)
        /\ \A i \in 1 .. Len(wait) : i = 1 \/ (i - 1 \in 1 .. Len(wait') /\ wait'[i - 1] = wait[i])
    BY <1>2, <2>1 DEF JobTake
  <2>4. \A p \in Op : p # None
    BY OpAssumption
  <2>5. \A p \in Op : HasJob(p)' => HasJob(p)
    BY <1>1, <2>2, <2>3 DEF HasJob
  <2>6. \A p \in Op : HasJob(p) => HasJob(p)'
    BY <1>1, <2>1, <2>2, <2>3, <2>4 DEF HasJob
  <2>. QED  BY <1>1, <2>5, <2>6
<1>3. CASE JobRetry \/ JobCatchFails
  <2>1. /\ wait' = wait /\ jobOp' = None
        /\ (delayed' = delayed /\ JobCatchFails) \/ delayed' = delayed \cup {jobOp}
    BY <1>3 DEF JobRetry, JobCatchFails, Requeue, WorkerIdle
  <2>2. JobCatchFails => faults' = faults + 1
    BY DEF JobCatchFails, SpendFault
  <2>3. \A p \in Op : p # None
    BY OpAssumption
  <2>. QED  BY <1>1, <2>1, <2>2, <2>3 DEF HasJob
<1>4. CASE JobEnd
  <2>1. wait' = wait /\ delayed' = delayed /\ jobOp' = None
    BY <1>4 DEF JobEnd, WorkerIdle, queueVars
  <2>2. \A p \in Op : p # None
    BY OpAssumption
  <2>. QED  BY <1>1, <1>4, <2>1, <2>2 DEF HasJob
<1>5. CASE ~(JobTake \/ JobRetry \/ JobCatchFails \/ JobEnd)
  <2>1. UNCHANGED <<delayed, abandoned, wait, jobOp>>
    BY <1>5 DEF JobStep, JobGoes, Throw, queueVars, JobGetTicket, JobPatch,
                JobPatchFails, JobPatchReplyLost, JobUpdateTicket,
                JobLogSynced, JobStoreFails, JobLogFailed, JobRereadTicket,
                JobMarkError
  <2>. QED  BY <1>1, <2>1 DEF HasJob
<1>. QED  BY <1>2, <1>3, <1>4, <1>5

\* A step of the worker that spends a fault has only the log to keep.
LEMMA LogJobFault ==
  ASSUME TypeOK, IInv, LogInv, JobPatchReplyLost \/ JobStoreFails \/ JobCatchFails
  PROVE  LogInv'
<1>1. /\ faults' = faults + 1 /\ faults \in Nat /\ opLog' = opLog /\ jobPc' \notin Ending
  BY DEF JobPatchReplyLost, JobStoreFails, JobCatchFails, SpendFault, Throw, JobGoes,
         Requeue, WorkerIdle, TypeOK, Ending
<1>2. faults' # 0 /\ ~Calm'
  BY <1>1 DEF Calm
<1>3. LogFollows' /\ EndsAnswered' /\ StalledByCrashes'
  BY <1>1, JobLogEffect DEF JobStep, LogInv, LogFollows, EndsAnswered, StalledByCrashes
<1>. QED  BY <1>2, <1>3 DEF LogInv, PendingHasJob, FailedLogNeverLands, NoResurrection

\* The worker answers for its job: the log tells what ADO has.
LEMMA LogJobAnswer ==
  ASSUME TypeOK, IInv, LogInv, JobLogSynced \/ JobLogFailed
  PROVE  LogInv'
<1>1. /\ UNCHANGED <<ado, wait, delayed, abandoned, jobOp, faults>>
      /\ jobOp \in Op /\ opLog \in [Op -> LogStatus]
      /\ jobPc' \in Ending /\ jobPc \in {"stored", "caught"}
      /\ \E answer \in {"synced", "failed"} :
           opLog' = [opLog EXCEPT ![jobOp] = answer] /\ (answer = "failed" => jobPc = "caught")
  BY DEF JobLogSynced, JobLogFailed, JobGoes, queueVars, TypeOK, Ending
<1>2. UNCHANGED <<opPc, crashes, stalled, abandoned>>
  BY JobLogEffect DEF JobStep
<1>3. /\ \A p \in Op : Lands(p)' = Lands(p) /\ OneStretch(p)' = OneStretch(p)
      /\ \A p \in Op : HasJob(p)' = HasJob(p)
  BY <1>1, AdoStays DEF HasJob
<1>4. PICK answer \in {"synced", "failed"} :
        opLog' = [opLog EXCEPT ![jobOp] = answer] /\ (answer = "failed" => jobPc = "caught")
  BY <1>1
<1>5. Calm' = Calm /\ HasJob(jobOp)
  BY <1>1, <1>2 DEF Calm, HasJob
<1>6. opPc[jobOp] \notin Unqueued
  BY <1>1, <1>5 DEF IInv, JobsAccepted
<1>7. LogFollows'
  BY <1>1, <1>2, <1>3, <1>4, <1>6 DEF LogInv, LogFollows, Unqueued
<1>8. EndsAnswered' /\ StalledByCrashes'
  BY <1>1, <1>2, <1>4 DEF LogInv, EndsAnswered, StalledByCrashes
<1>9. PendingHasJob'
  BY <1>1, <1>2, <1>3, <1>4 DEF LogInv, PendingHasJob
<1>10. ASSUME Calm PROVE JobsOnce' /\ JobsOpen'
  <2>1. JobsOnce'
    BY <1>1, <1>10 DEF LogInv, JobsOnce
  <2>2. JobsOpen'
    BY <1>1, <1>3, <1>4, <1>10 DEF LogInv, JobsOpen
  <2>. QED  BY <2>1, <2>2
<1>11. FailedLogNeverLands'
  <2>1. ASSUME Calm PROVE jobPc = "caught" => ~Lands(jobOp)
    BY <1>1, <1>5, <2>1 DEF LogInv, JobsOpen, Ending
  <2>. QED  BY <1>1, <1>3, <1>4, <1>5, <2>1 DEF LogInv, FailedLogNeverLands
<1>12. NoResurrection'
  BY <1>3, <1>5, Stretches DEF LogInv
<1>. QED  BY <1>5, <1>7, <1>8, <1>9, <1>10, <1>11, <1>12 DEF LogInv

\* A patch ADO accepts is the first of its operation, while all is calm.
LEMMA LogJobPatch ==
  ASSUME TypeOK, IInv, LogInv, JobPatch, jobCopy.rev = Rev(OpTicket[jobOp])
  PROVE  LogInv'
<1>1. /\ Record(OpTicket[jobOp], OpField[jobOp], jobOp)
      /\ UNCHANGED <<opLog, wait, delayed, abandoned, jobOp, faults>>
      /\ jobPc = "read" /\ jobPc' = "patched"
      /\ jobOp \in Op /\ jobOp \in Value /\ OpTicket[jobOp] \in Ticket
      /\ jobCopy \in Entry /\ jobCopy # None
  BY OpAssumption DEF JobPatch, JobGoes, queueVars, TypeOK, Value
<1>. PICK fields \in Recorded(OpField[jobOp]) : Revise(OpTicket[jobOp], fields, jobOp)
  BY <1>1 DEF Record
<1>2. UNCHANGED <<opPc, crashes, stalled, abandoned>> /\ \A p \in Op : HasJob(p)' = HasJob(p)
  BY <1>1, JobLogEffect DEF JobStep, HasJob
<1>3. Calm' = Calm /\ HasJob(jobOp)
  BY <1>1, <1>2 DEF Calm, HasJob
<1>4. \A p \in Op : p # jobOp => (Lands(p)' <=> Lands(p))
  BY <1>1, LandsOther
<1>5. LogFollows' /\ EndsAnswered' /\ StalledByCrashes' /\ PendingHasJob'
  BY <1>1, <1>2 DEF LogInv, LogFollows, EndsAnswered, Ending, StalledByCrashes, PendingHasJob
<1>6. ASSUME Calm PROVE opLog[jobOp] = "pending" /\ ~Lands(jobOp)
  BY <1>1, <1>3, <1>6 DEF LogInv, JobsOpen, Ending
<1>7. ASSUME Calm PROVE JobsOnce' /\ JobsOpen'
  <2>1. JobsOnce'
    BY <1>1, <1>7 DEF LogInv, JobsOnce
  <2>2. JobsOpen'
    BY <1>1, <1>2, <1>4, <1>6, <1>7 DEF LogInv, JobsOpen, Ending
  <2>. QED  BY <2>1, <2>2
<1>8. FailedLogNeverLands'
  BY <1>1, <1>3, <1>4, <1>6 DEF LogInv, FailedLogNeverLands
<1>9. NoResurrection'
  <2>1. ASSUME NEW o \in Op, Calm PROVE OneStretch(o)'
    <3>1. OneStretch(o)
      BY <2>1, Stretches DEF LogInv
    <3>. QED  BY <1>1, <1>6, <2>1, <3>1, StretchRevise
  <2>. QED  BY <1>3, <2>1, Stretches
<1>. QED  BY <1>3, <1>5, <1>7, <1>8, <1>9 DEF LogInv

\* The worker takes a job, gives it back for another attempt, or ends it.
LEMMA LogJobMove ==
  ASSUME TypeOK, IInv, LogInv, JobTake \/ JobRetry \/ JobEnd
  PROVE  LogInv'
<1>1. /\ UNCHANGED <<ado, opLog, faults>>
      /\ jobPc' \in {"idle", "taken"} /\ jobPc \notin {"patched", "stored"}
      /\ jobPc \in Ending => JobEnd
      /\ jobOp \in Op \cup {None} /\ delayed \subseteq Op /\ abandoned \subseteq Op
      /\ wait \in Seq(Op) /\ abandoned' = abandoned
  BY DEF JobTake, JobRetry, JobEnd, Requeue, WorkerIdle, queueVars, TypeOK, Ending
<1>2. /\ UNCHANGED <<opPc, crashes, stalled, abandoned>>
      /\ \A p \in Op : HasJob(p)' => HasJob(p)
      /\ \A p \in Op : HasJob(p) => HasJob(p)' \/ (p = jobOp /\ JobEnd)
  BY <1>1, JobLogEffect DEF JobStep, TypeOK
<1>3. Calm' = Calm /\ \A p \in Op : Lands(p)' = Lands(p) /\ OneStretch(p)' = OneStretch(p)
  BY <1>1, <1>2, AdoStays DEF Calm
<1>4. LogFollows' /\ EndsAnswered' /\ StalledByCrashes'
  BY <1>1, <1>2 DEF LogInv, LogFollows, EndsAnswered, Ending, StalledByCrashes
<1>5. PendingHasJob'
  <2>1. JobEnd => opLog[jobOp] # "pending"
    BY DEF JobEnd, LogInv, EndsAnswered, Ending
  <2>. QED  BY <1>1, <1>2, <2>1 DEF LogInv, PendingHasJob
<1>6. ASSUME Calm PROVE JobsOnce'
  <2>1. JobsOnce
    BY <1>6 DEF LogInv
  <2>2. CASE JobTake
    <3>1. /\ wait # <<>> /\ jobOp' = wait[1] /\ 1 \in 1 .. Len(wait) /\ UNCHANGED <<delayed, abandoned>>
          /\ \A i \in 1 .. Len(wait') :
               wait'[i] = wait[i + 1] /\ i + 1 \in 1 .. Len(wait) /\ i + 1 # 1
      BY <1>1, <2>2 DEF JobTake
    <3>2. \A i, j \in 1 .. Len(wait') : i + 1 = j + 1 => i = j
      OBVIOUS
    <3>. QED  BY <2>1, <3>1, <3>2 DEF JobsOnce
  <2>3. CASE JobRetry
    <3>1. /\ jobPc = "caught" /\ wait' = wait /\ jobOp' = None /\ delayed' = delayed \cup {jobOp}
      BY <2>3 DEF JobRetry, Requeue, WorkerIdle
    <3>2. jobOp # None /\ \A i \in 1 .. Len(wait) : wait[i] # None
      BY <1>1, <3>1, OpAssumption DEF TypeOK
    <3>3. None \notin delayed \cup abandoned
      BY <1>1, OpAssumption
    <3>. QED  BY <1>1, <2>1, <3>1, <3>2, <3>3 DEF JobsOnce
  <2>4. CASE JobEnd
    <3>1. wait' = wait /\ jobOp' = None /\ delayed' = delayed
      BY <2>4 DEF JobEnd, WorkerIdle, queueVars
    <3>2. None \notin delayed \cup abandoned /\ \A i \in 1 .. Len(wait) : wait[i] # None
      BY <1>1, OpAssumption
    <3>. QED  BY <1>1, <2>1, <3>1, <3>2 DEF JobsOnce
  <2>. QED  BY <2>2, <2>3, <2>4
<1>7. ASSUME Calm PROVE JobsOpen'
  <2>1. ASSUME NEW o \in Op, HasJob(o)', JobEnd PROVE o # jobOp
    <3>1. wait' = wait /\ jobOp' = None /\ delayed' = delayed /\ o # None
      BY <2>1, OpAssumption DEF JobEnd, WorkerIdle, queueVars
    <3>2. o \in delayed \cup abandoned \/ \E i \in 1 .. Len(wait) : wait[i] = o
      BY <1>1, <2>1, <3>1 DEF HasJob
    <3>. QED  BY <1>7, <3>2 DEF LogInv, JobsOnce
  <2>2. ASSUME NEW o \in Op, HasJob(o)' PROVE opLog[o] = "pending" /\ ~Lands(o)
    <3>1. ~(o = jobOp /\ jobPc \in Ending)
      BY <1>1, <2>1, <2>2
    <3>. QED  BY <1>1, <1>2, <1>7, <2>2, <3>1 DEF LogInv, JobsOpen
  <2>. QED  BY <1>1, <1>3, <2>2 DEF JobsOpen
<1>8. FailedLogNeverLands' /\ NoResurrection'
  <2>1. FailedLogNeverLands'
    BY <1>1, <1>3 DEF LogInv, FailedLogNeverLands
  <2>. QED  BY <1>3, <2>1, Stretches DEF LogInv
<1>. QED  BY <1>3, <1>4, <1>5, <1>6, <1>7, <1>8 DEF LogInv

\* The steps of the worker that leave the log, the queue and ADO alone.
LEMMA LogJobQuiet ==
  ASSUME TypeOK, IInv, LogInv,
         \/ JobGetTicket \/ JobPatchFails \/ JobUpdateTicket \/ JobRereadTicket \/ JobMarkError
         \/ JobPatch /\ jobCopy.rev # Rev(OpTicket[jobOp])
  PROVE  LogInv'
<1>1. /\ UNCHANGED <<ado, opLog, wait, delayed, abandoned, jobOp, faults>>
      /\ jobPc' \in Ending <=> jobPc \in Ending
      /\ jobPc \in {"patched", "stored"} => jobPc' \in {"patched", "stored"}
  BY DEF JobGetTicket, JobPatchFails, JobUpdateTicket, JobRereadTicket, JobMarkError, JobPatch,
         Throw, JobGoes, queueVars, Ending
<1>2. UNCHANGED <<opPc, crashes, stalled, abandoned>> /\ \A p \in Op : HasJob(p)' = HasJob(p)
  BY <1>1, JobLogEffect DEF JobStep, HasJob
<1>3. Calm' = Calm /\ \A p \in Op : Lands(p)' = Lands(p) /\ OneStretch(p)' = OneStretch(p)
  BY <1>1, <1>2, AdoStays DEF Calm
<1>4. LogFollows' /\ EndsAnswered' /\ StalledByCrashes' /\ PendingHasJob'
  BY <1>1, <1>2 DEF LogInv, LogFollows, EndsAnswered, StalledByCrashes, PendingHasJob
<1>5. ASSUME Calm PROVE JobsOnce' /\ JobsOpen'
  BY <1>1, <1>2, <1>3, <1>5 DEF LogInv, JobsOnce, JobsOpen
<1>6. FailedLogNeverLands' /\ NoResurrection'
  <2>1. FailedLogNeverLands'
    BY <1>1, <1>3 DEF LogInv, FailedLogNeverLands
  <2>. QED  BY <1>3, <2>1, Stretches DEF LogInv
<1>. QED  BY <1>3, <1>4, <1>5, <1>6 DEF LogInv

\* Each step of the worker keeps the invariant of the log.
LEMMA LogJob ==
  ASSUME TypeOK, IInv, LogInv, JobStep
  PROVE  LogInv'
  BY LogJobFault, LogJobAnswer, LogJobPatch, LogJobMove, LogJobQuiet DEF JobStep

\* So do the queue and the syncs, which leave the log and ADO alone.
LEMMA LogPromote ==
  ASSUME TypeOK, LogInv,
         \/ \E o \in Op : Promote(o)
         \/ \E s \in Sync : SyncStep(s)
         \/ UNCHANGED vars
  PROVE  LogInv'
<1>1. UNCHANGED <<ado, opLog, opPc, jobPc, jobOp, abandoned, stalled, faults, crashes>>
  BY DEF Promote, SyncStep, SyncFetch, SyncSetTickets, JobStays, adoVars, opVars, queueVars,
         jobVars, syncVars, budgets, vars
<1>2. wait \in Seq(Op) /\ delayed \subseteq Op
  BY DEF TypeOK
<1>3. \A p \in Op : HasJob(p)' <=> HasJob(p)
  <2>1. ASSUME NEW o \in Op, Promote(o), NEW p \in Op PROVE HasJob(p)' <=> HasJob(p)
    <3>1. /\ o \in delayed /\ delayed' = delayed \ {o} /\ wait' = Append(wait, o)
          /\ jobOp' = jobOp /\ abandoned' = abandoned
      BY <1>1, <2>1 DEF Promote
    <3>2. HasJob(p)' => HasJob(p)
      <4>1. HasJob(p)' => p = o \/ HasJob(p)
        BY <1>2, <3>1, HasJobAppend
      <4>. QED  BY <3>1, <4>1 DEF HasJob
    <3>3. HasJob(p) => HasJob(p)'
      <4>1. /\ Len(wait) + 1 \in 1 .. Len(wait') /\ wait'[Len(wait) + 1] = o
            /\ \A i \in 1 .. Len(wait) : i \in 1 .. Len(wait') /\ wait'[i] = wait[i]
        BY <1>2, <3>1
      <4>. QED  BY <3>1, <4>1 DEF HasJob
    <3>. QED  BY <3>2, <3>3
  <2>2. CASE ~(\E o \in Op : Promote(o))
    BY <2>2 DEF SyncStep, SyncFetch, SyncSetTickets, queueVars, jobVars, vars, HasJob
  <2>. QED  BY <2>1, <2>2
<1>4. Calm' = Calm /\ \A p \in Op : Lands(p)' = Lands(p) /\ OneStretch(p)' = OneStretch(p)
  BY <1>1, AdoStays DEF Calm
<1>5. LogFollows' /\ EndsAnswered' /\ StalledByCrashes' /\ PendingHasJob'
  BY <1>1, <1>3 DEF LogInv, LogFollows, EndsAnswered, StalledByCrashes, PendingHasJob
<1>6. ASSUME Calm PROVE JobsOnce'
  <2>1. JobsOnce
    BY <1>6 DEF LogInv
  <2>2. ASSUME NEW o \in Op, Promote(o) PROVE JobsOnce'
    <3>1. /\ o \in delayed /\ delayed' = delayed \ {o} /\ wait' = Append(wait, o)
          /\ jobOp' = jobOp /\ abandoned' = abandoned
      BY <1>1, <2>2 DEF Promote
    <3>2. /\ Len(wait') = Len(wait) + 1 /\ wait'[Len(wait) + 1] = o /\ Len(wait) \in Nat
          /\ \A i \in 1 .. Len(wait) : wait'[i] = wait[i]
          /\ \A i \in 1 .. Len(wait') : i \in 1 .. Len(wait) \/ i = Len(wait) + 1
      BY <1>2, <3>1
    <3>. QED  BY <2>1, <3>1, <3>2 DEF JobsOnce
  <2>3. CASE ~(\E o \in Op : Promote(o))
    BY <2>1, <2>3 DEF SyncStep, SyncFetch, SyncSetTickets, queueVars, jobVars, vars, JobsOnce
  <2>. QED  BY <2>2, <2>3
<1>7. ASSUME Calm PROVE JobsOpen'
  BY <1>1, <1>3, <1>4, <1>7 DEF LogInv, JobsOpen
<1>8. FailedLogNeverLands' /\ NoResurrection'
  <2>1. FailedLogNeverLands'
    BY <1>1, <1>4 DEF LogInv, FailedLogNeverLands
  <2>. QED  BY <1>4, <2>1, Stretches DEF LogInv
<1>. QED  BY <1>4, <1>5, <1>6, <1>7, <1>8 DEF LogInv

\* And the edits made in ADO, which write no operation.
LEMMA LogAdo ==
  ASSUME TypeOK, LogInv, NEW t \in Ticket, AdoEdit(t) \/ AdoMoveOut(t)
  PROVE  LogInv'
<1>1. /\ UNCHANGED <<opLog, opPc, wait, delayed, abandoned, jobPc, jobOp, stalled, faults, crashes>>
      /\ \E fields : Revise(t, fields, External)
      /\ External \in Value /\ External \notin Op
  BY OpAssumption DEF AdoEdit, AdoMoveOut, Record, opVars, queueVars, jobVars, Value
<1>2. \A o \in Op : Lands(o)' <=> Lands(o)
  BY <1>1, LandsOther
<1>3. \A o \in Op : OneStretch(o) => OneStretch(o)'
  BY <1>1, StretchRevise
<1>4. Calm' = Calm /\ JobsOnce' = JobsOnce /\ \A o \in Op : HasJob(o)' = HasJob(o)
  BY <1>1, JobsStay DEF Calm
<1>5. LogFollows' /\ EndsAnswered' /\ StalledByCrashes' /\ PendingHasJob'
  BY <1>1, <1>4 DEF LogInv, LogFollows, EndsAnswered, StalledByCrashes, PendingHasJob
<1>6. Calm => JobsOpen'
  BY <1>1, <1>2, <1>4 DEF LogInv, JobsOpen
<1>7. FailedLogNeverLands' /\ NoResurrection'
  <2>1. FailedLogNeverLands'
    BY <1>1, <1>2, <1>4 DEF LogInv, FailedLogNeverLands
  <2>. QED  BY <1>3, <1>4, <2>1, Stretches DEF LogInv
<1>. QED  BY <1>4, <1>5, <1>6, <1>7 DEF LogInv

\* A restart leaves the active job to the stalled checks.
LEMMA LogCrash ==
  ASSUME TypeOK, LogInv, Crash
  PROVE  LogInv'
<1>1. /\ crashes' = crashes + 1 /\ crashes \in Nat /\ stalled \in [Op -> Nat]
      /\ abandoned' = abandoned \cup ({jobOp} \ {None})
      /\ UNCHANGED <<opLog, wait, delayed, stalled, faults>> /\ jobPc' = "idle" /\ jobOp' = None
  BY DEF Crash, WorkerIdle, TypeOK
<1>2. ~Calm'
  BY <1>1 DEF Calm
<1>3. /\ \A o \in Op : opPc'[o] \in {"new", "read", "cached", "logged"} => opPc[o] = "new" /\ opPc'[o] = "new"
      /\ \A o \in Op : opPc'[o] \in {"queued", "applied"} => opPc[o] \in {"queued", "applied"}
  BY DEF Crash
<1>4. \A o \in Op : HasJob(o)' <=> HasJob(o)
  BY <1>1, OpAssumption DEF HasJob
<1>5. LogFollows' /\ EndsAnswered'
  BY <1>1, <1>3, <1>4 DEF LogInv, LogFollows, EndsAnswered, Ending
<1>6. StalledByCrashes'
  BY <1>1 DEF LogInv, StalledByCrashes
<1>7. PendingHasJob'
  BY <1>1, <1>3, <1>4, BoundAssumption DEF LogInv, PendingHasJob
<1>. QED  BY <1>2, <1>5, <1>6, <1>7 DEF LogInv, FailedLogNeverLands, NoResurrection

\* A stalled check loses no job BullMQ still forgives.
LEMMA LogStalled ==
  ASSUME TypeOK, LogInv, NEW o \in Op, StalledCheck(o)
  PROVE  LogInv'
<1>1. /\ crashes \in Nat /\ stalled \in [Op -> Nat] /\ wait \in Seq(Op)
      /\ o \in abandoned /\ abandoned' = abandoned \ {o}
      /\ stalled' = [stalled EXCEPT ![o] = @ + 1]
      /\ wait' = wait \/ wait' = <<o>> \o wait
      /\ UNCHANGED <<opLog, opPc, delayed, jobPc, jobOp, faults, crashes>>
  BY DEF StalledCheck, JobStays, opVars, jobVars, TypeOK
<1>2. ~Calm'
  BY <1>1 DEF Calm, LogInv, StalledByCrashes
<1>3. \A p \in Op : HasJob(p)' => HasJob(p)
  <2>1. \A p \in Op : HasJob(p)' => p = o \/ HasJob(p)
    BY <1>1, HasJobPrepend
  <2>. QED  BY <1>1, <2>1 DEF HasJob
<1>4. LogFollows' /\ EndsAnswered'
  BY <1>1, <1>3 DEF LogInv, LogFollows, EndsAnswered
<1>5. StalledByCrashes'
  BY <1>1 DEF LogInv, StalledByCrashes
<1>6. PendingHasJob'
  <2>. SUFFICES ASSUME faults = 0, crashes <= MaxStalled, NEW p \in Op,
                       opLog[p] = "pending", opPc[p] \in {"queued", "applied"}
                PROVE  HasJob(p)'
    BY <1>1 DEF PendingHasJob
  <2>1. HasJob(p)
    BY DEF LogInv, PendingHasJob
  <2>2. stalled[o] < MaxStalled
    BY <1>1, BoundAssumption DEF LogInv, StalledByCrashes
  <2>3. wait' = <<o>> \o wait
    BY <2>2 DEF StalledCheck
  <2>4. /\ 1 \in 1 .. Len(wait') /\ wait'[1] = o
        /\ \A i \in 1 .. Len(wait) : i + 1 \in 1 .. Len(wait') /\ wait'[i + 1] = wait[i]
    BY <1>1, <2>3
  <2>. QED  BY <1>1, <2>1, <2>4 DEF HasJob
<1>. QED  BY <1>2, <1>4, <1>5, <1>6 DEF LogInv, FailedLogNeverLands, NoResurrection

\* The invariant of the log holds in every reachable state.
THEOREM LogInvariant == Spec => []LogInv
<1>1. TypeOK /\ IInv /\ LogInv /\ [Next]_vars => LogInv'
  BY LogEnqueue, LogHandle, LogJob, LogPromote, LogAdo, LogCrash, LogStalled DEF Next
<1>. QED  BY <1>1, LogInit, TypeCorrect, Invariant, PTL DEF Spec

\* No accepted operation is forgotten.
THEOREM PendingHaveJobs == Spec => []PendingHasJob
<1>1. LogInv => PendingHasJob
  BY DEF LogInv
<1>. QED  BY <1>1, LogInvariant, PTL

\* Without failures, the log says 'failed' only of operations ADO never had.
THEOREM FailuresLeaveNoTrace == Spec => []FailedLogNeverLands
<1>1. LogInv => FailedLogNeverLands
  BY DEF LogInv
<1>. QED  BY <1>1, LogInvariant, PTL

\* Without failures, an overwritten operation does not come back.
THEOREM NothingComesBack == Spec => []NoResurrection
<1>1. LogInv => NoResurrection
  BY DEF LogInv
<1>. QED  BY <1>1, LogInvariant, PTL

-----------------------------------------------------------------------------
(* The contract *)

\* Trouble never ends.
LEMMA TroubleStays ==
  ASSUME TypeOK, [Next]_vars
  PROVE  ~Calm => ~Calm'
<1>1. /\ faults \in Nat /\ crashes \in Nat
      /\ faults' = faults \/ faults' = faults + 1
      /\ crashes' = crashes \/ crashes' = crashes + 1
  <2>1. ASSUME NEW o \in Op, OpStep(o)
        PROVE  crashes' = crashes /\ (faults' = faults \/ faults' = faults + 1)
    BY <2>1, OpLogEffect
  <2>2. JobStep => crashes' = crashes /\ (faults' = faults \/ faults' = faults + 1)
    BY JobLogEffect
  <2>3. Crash => crashes' = crashes + 1 /\ faults' = faults
    BY DEF Crash
  <2>4. ASSUME NEW o \in Op, Promote(o) \/ StalledCheck(o) PROVE UNCHANGED <<faults, crashes>>
    BY <2>4 DEF Promote, StalledCheck, JobStays
  <2>5. ASSUME NEW s \in Sync, SyncStep(s) PROVE UNCHANGED <<faults, crashes>>
    BY <2>5 DEF SyncStep, SyncFetch, SyncSetTickets, budgets
  <2>6. ASSUME NEW t \in Ticket, AdoEdit(t) \/ AdoMoveOut(t) PROVE UNCHANGED <<faults, crashes>>
    BY <2>6 DEF AdoEdit, AdoMoveOut
  <2>7. UNCHANGED vars => UNCHANGED <<faults, crashes>>
    BY DEF vars, budgets
  <2>. QED  BY <2>1, <2>2, <2>3, <2>4, <2>5, <2>6, <2>7 DEF TypeOK, Next
<1>. QED  BY <1>1 DEF Calm

\* What is recorded, as a set.
Landed == {o \in Op : Lands(o)}

\* A patch that reaches ADO, answered or not, writes an edit that is open.
LEMMA ContractPatch ==
  ASSUME TypeOK, IInv, LogInv, ~Calm => ~Calm',
         JobPatchReplyLost \/ (JobPatch /\ jobCopy.rev = Rev(OpTicket[jobOp]))
  PROVE  Contract!Land(jobOp) /\ jobOp \in Op
<1>1. /\ Record(OpTicket[jobOp], OpField[jobOp], jobOp)
      /\ jobCopy.rev = Rev(OpTicket[jobOp]) /\ opLog' = opLog /\ jobPc = "read"
      /\ jobOp \in Op /\ jobOp \in Value /\ OpTicket[jobOp] \in Ticket
      /\ jobCopy \in Entry /\ jobCopy # None
  BY OpAssumption DEF JobPatch, JobPatchReplyLost, Throw, JobGoes, TypeOK, Value
<1>. PICK fields \in Recorded(OpField[jobOp]) : Revise(OpTicket[jobOp], fields, jobOp)
  BY <1>1 DEF Record
<1>2. \A o \in Op : o # jobOp => (Lands(o)' <=> Lands(o))
  BY <1>1, LandsOther
<1>3. \A o \in Op : o = jobOp => Lands(o)'
  BY <1>1, PatchCoherent DEF IInv, CopiesCoherent
<1>4. Landed' = Landed \cup {jobOp}
  BY <1>1, <1>2, <1>3 DEF Landed
<1>5. HasJob(jobOp) /\ opLog[jobOp] # "none"
  BY <1>1 DEF LogInv, LogFollows, HasJob
<1>6. Calm => opLog[jobOp] = "pending"
  BY <1>1, <1>5 DEF LogInv, JobsOpen, Ending
<1>. QED
  BY <1>1, <1>4, <1>5, <1>6 DEF Contract!Land, Contract!Open, Contract!Unsettled, Landed

\* The worker answers for an edit that is open, and says what ADO has.
LEMMA ContractAnswer ==
  ASSUME TypeOK, IInv, LogInv, ~Calm => ~Calm', JobLogSynced \/ JobLogFailed
  PROVE  \E o \in Op : \E answer \in Contract!Answers : Contract!Answer(o, answer)
<1>1. /\ ado' = ado /\ jobOp \in Op /\ jobPc \in {"stored", "caught"}
      /\ HasJob(jobOp) /\ opLog[jobOp] # "none"
  BY DEF JobLogSynced, JobLogFailed, TypeOK, HasJob, LogInv, LogFollows
<1>2. Calm => opLog[jobOp] = "pending" /\ (Lands(jobOp) => jobPc = "stored")
  BY <1>1 DEF LogInv, JobsOpen, Ending
<1>3. Landed' = Landed
  BY <1>1, AdoStays DEF Landed
<1>4. CASE JobLogSynced
  <2>1. Lands(jobOp) /\ opLog' = [opLog EXCEPT ![jobOp] = "synced"]
    BY <1>4 DEF JobLogSynced, IInv, PatchLands
  <2>2. Contract!Answer(jobOp, "synced")
    BY <1>1, <1>2, <1>3, <2>1
       DEF Contract!Answer, Contract!Open, Contract!Unsettled, Landed
  <2>. QED  BY <1>1, <2>2 DEF Contract!Answers
<1>5. CASE JobLogFailed
  <2>1. jobPc = "caught" /\ opLog' = [opLog EXCEPT ![jobOp] = "failed"]
    BY <1>5 DEF JobLogFailed
  <2>2. Contract!Answer(jobOp, "failed")
    BY <1>1, <1>2, <1>3, <2>1
       DEF Contract!Answer, Contract!Open, Contract!Unsettled, Landed
  <2>. QED  BY <1>1, <2>2 DEF Contract!Answers
<1>. QED  BY <1>4, <1>5

\* Every other step leaves the log and what ADO has recorded alone, but for the log entry
\* of an accepted operation.
LEMMA ContractRest ==
  ASSUME TypeOK, IInv, LogInv, [Next]_vars,
         ~JobPatchReplyLost, ~(JobPatch /\ jobCopy.rev = Rev(OpTicket[jobOp])),
         ~JobLogSynced, ~JobLogFailed
  PROVE  /\ Landed' = Landed
         /\ opLog' = opLog \/ \E o \in Op : OpCreateLog(o)
<1>1. CASE JobStep \/ UNCHANGED vars \/ Crash \/ (\E o \in Op : Promote(o) \/ StalledCheck(o))
           \/ (\E s \in Sync : SyncStep(s))
  <2>1. ado' = ado /\ opLog' = opLog
    BY <1>1 DEF JobStep, JobTake, JobGetTicket, JobPatch, JobPatchFails, JobUpdateTicket,
                JobStoreFails, JobRetry, JobRereadTicket, JobMarkError, JobCatchFails, JobEnd,
                vars, adoVars, Crash, Promote, StalledCheck, SyncStep, SyncFetch, SyncSetTickets
  <2>. QED  BY <2>1, AdoStays DEF Landed
<1>2. ASSUME NEW o \in Op, OpStep(o)
      PROVE  Landed' = Landed /\ (opLog' = opLog \/ OpCreateLog(o))
  BY <1>2, OpEffect, OpLogEffect, AdoStays DEF Landed
<1>3. ASSUME NEW t \in Ticket, AdoEdit(t) \/ AdoMoveOut(t)
      PROVE  Landed' = Landed /\ opLog' = opLog
  <2>1. /\ opLog' = opLog /\ External \in Value /\ External \notin Op
        /\ \E fields : Revise(t, fields, External)
    BY <1>3, OpAssumption DEF AdoEdit, AdoMoveOut, Record, Value
  <2>2. \A o \in Op : Lands(o)' <=> Lands(o)
    BY <2>1, LandsOther
  <2>. QED  BY <2>1, <2>2 DEF Landed
<1>. QED  BY <1>1, <1>2, <1>3 DEF Next

\* The pipeline keeps the contract: each of its steps is a step of the contract, or
\* changes nothing the contract speaks of.
THEOREM ContractIsKept == Spec => KeepsContract
<1>1. Init => Contract!Init
  <2>. SUFFICES ASSUME Init PROVE Contract!Init
    OBVIOUS
  <2>1. opLog = [o \in Op |-> "none"] /\ Calm
    BY DEF Init, Calm
  <2>2. \A o \in Op : Unrecorded(o)
    BY InvInit DEF Init, IInv, UnqueuedUnrecorded, Unqueued
  <2>3. Landed = {}
    BY <2>2, UnrecordedNotLanded DEF Landed
  <2>. QED  BY <2>1, <2>3 DEF Contract!Init, Landed
<1>2. TypeOK /\ IInv /\ LogInv /\ [Next]_vars
        => [Contract!Next]_<<opLog, {o \in Op : Lands(o)}, ~Calm>>
  <2>. SUFFICES ASSUME TypeOK, IInv, LogInv, [Next]_vars
                PROVE  [Contract!Next]_<<opLog, Landed, ~Calm>>
    BY DEF Landed
  <2>1. ~Calm => ~Calm'
    BY TroubleStays
  <2>2. CASE JobPatchReplyLost \/ (JobPatch /\ jobCopy.rev = Rev(OpTicket[jobOp]))
    BY <2>1, <2>2, ContractPatch DEF Contract!Next
  <2>3. CASE JobLogSynced \/ JobLogFailed
    BY <2>1, <2>3, ContractAnswer DEF Contract!Next
  <2>4. CASE ~JobPatchReplyLost /\ ~(JobPatch /\ jobCopy.rev = Rev(OpTicket[jobOp]))
             /\ ~JobLogSynced /\ ~JobLogFailed
    <3>1. Landed' = Landed /\ (opLog' = opLog \/ \E o \in Op : OpCreateLog(o))
      BY <2>4, ContractRest
    <3>2. ASSUME NEW o \in Op, OpCreateLog(o) PROVE Contract!Accept(o)
      <4>1. opLog[o] = "none" /\ opLog' = [opLog EXCEPT ![o] = "pending"]
        BY <3>2 DEF OpCreateLog, LogInv, LogFollows
      <4>. QED  BY <2>1, <3>1, <4>1 DEF Contract!Accept, Contract!Unsettled, Landed
    <3>3. CASE opLog' = opLog
      <4>1. CASE Calm' = Calm
        BY <3>1, <3>3, <4>1
      <4>2. CASE Calm' # Calm
        <5>1. ~Calm'
          BY <2>1, <4>2 DEF Calm
        <5>. QED  BY <3>1, <3>3, <5>1 DEF Contract!Next, Contract!Trouble, Landed
      <4>. QED  BY <4>1, <4>2
    <3>. QED  BY <3>1, <3>2, <3>3 DEF Contract!Next
  <2>. QED  BY <2>2, <2>3, <2>4
<1>. QED
  BY <1>1, <1>2, TypeCorrect, Invariant, LogInvariant, PTL
     DEF Spec, KeepsContract, Contract!Spec

-----------------------------------------------------------------------------
(* The order of the queue *)

\* An operation is accepted once, and its handler has then handed it over.
AcceptedOnce ==
  /\ \A i, j \in 1 .. Len(accepted) : accepted[i] = accepted[j] => i = j
  /\ \A i \in 1 .. Len(accepted) : opPc[accepted[i]] \notin Unqueued

\* Only a job that is tried again is delayed.
DelayedRetried == \A o \in delayed : attempts[o] > 0

\* The job of p waits behind that of o.
Behind(o, p) ==
  \E k \in 1 .. Len(wait) :
    wait[k] = p /\ (o = jobOp \/ \E n \in 1 .. k - 1 : wait[n] = o)

\* As long as an operation has a job that nothing disturbed, those accepted after it on the
\* same field wait behind it, and are not in ADO.
InOrder(o, p) ==
  Before(o, p) /\ SameField(o, p) /\ RunOnce(o) =>
    /\ HasJob(o) => Unrecorded(p) /\ Behind(o, p)
    /\ ~Overtakes(p, o)

QueueInv ==
  /\ JobsOnce /\ AcceptedOnce /\ DelayedRetried
  /\ \A o, p \in Op : InOrder(o, p)

\* What the steps do to the queue.
QueueStays == UNCHANGED <<accepted, wait, delayed, abandoned, jobOp, attempts, stalled>>

Revises ==
  /\ QueueStays
  /\ \E t \in Ticket, v \in Value : /\ \E fields : Revise(t, fields, v)
                                    /\ v = External \/ v = jobOp

Enqueues(o) ==
  /\ opPc[o] = "logged" /\ opPc' = [opPc EXCEPT ![o] = "queued"]
  /\ wait' = Append(wait, o) /\ accepted' = Append(accepted, o)
  /\ UNCHANGED <<delayed, abandoned, jobOp, attempts, stalled, ado>>

Takes ==
  /\ wait # <<>> /\ jobOp = None /\ jobOp' = Head(wait) /\ wait' = Tail(wait)
  /\ UNCHANGED <<accepted, delayed, abandoned, attempts, stalled, ado>>

Leaves ==
  /\ jobOp' = None
  /\ \/ UNCHANGED <<delayed, attempts>>
     \/ /\ jobOp \in Op /\ delayed' = delayed \cup {jobOp}
        /\ attempts' = [attempts EXCEPT ![jobOp] = @ + 1]
  /\ UNCHANGED <<accepted, wait, abandoned, stalled, ado>>

Promotes(o) ==
  /\ o \in delayed /\ delayed' = delayed \ {o} /\ wait' = Append(wait, o)
  /\ UNCHANGED <<accepted, abandoned, jobOp, attempts, stalled, ado>>

Restarts ==
  /\ jobOp' = None /\ abandoned' = abandoned \cup ({jobOp} \ {None})
  /\ UNCHANGED <<accepted, wait, delayed, attempts, stalled, ado>>

Rescues(o) ==
  /\ o \in abandoned /\ abandoned' = abandoned \ {o}
  /\ stalled' = [stalled EXCEPT ![o] = @ + 1]
  /\ wait' = wait \/ wait' = <<o>> \o wait
  /\ UNCHANGED <<accepted, delayed, jobOp, attempts, ado>>

QueueSteps ==
  \/ QueueStays /\ ado' = ado
  \/ Revises
  \/ \E o \in Op : Enqueues(o) \/ Promotes(o) \/ Rescues(o)
  \/ Takes
  \/ Leaves
  \/ Restarts

LEMMA QueueOpStep ==
  ASSUME TypeOK, NEW o \in Op, OpStep(o)
  PROVE  QueueSteps
<1>. USE DEF OpStays, adoVars, queueVars, jobVars, QueueStays, QueueSteps
<1>1. CASE OpEnqueue(o)
  BY <1>1 DEF OpEnqueue, Enqueues
<1>2. CASE ~OpEnqueue(o)
  BY <1>2 DEF OpStep, OpGetTicket, OpTicketMissing, OpUnidentified, OpUpdateTicket, OpCreateLog, OpApplied, OpFails
<1>. QED  BY <1>1, <1>2

LEMMA QueueJobStep ==
  ASSUME TypeOK, JobStep
  PROVE  QueueSteps
<1>. USE DEF JobStays, QueueSteps
<1>1. CASE JobTake
  <2>1. jobOp = None
    BY <1>1 DEF JobTake, TypeOK
  <2>. QED  BY <1>1, <2>1 DEF JobTake, Takes
<1>2. CASE JobPatch \/ JobPatchReplyLost
  <2>1. jobOp \in Op /\ OpTicket[jobOp] \in Ticket /\ jobOp \in Value
    BY <1>2, OpAssumption DEF JobPatch, JobPatchReplyLost, TypeOK, Value
  <2>2. QueueStays
    BY <1>2 DEF JobPatch, JobPatchReplyLost, Throw, JobGoes, queueVars, QueueStays
  <2>3. ado' = ado \/ \E fields : Revise(OpTicket[jobOp], fields, jobOp)
    BY <1>2 DEF JobPatch, JobPatchReplyLost, Record
  <2>. QED  BY <2>1, <2>2, <2>3 DEF Revises
<1>3. CASE JobRetry \/ JobCatchFails
  <2>1. jobOp \in Op /\ ado' = ado /\ accepted' = accepted /\ Requeue
    BY <1>3 DEF JobRetry, JobCatchFails, TypeOK
  <2>. QED  BY <2>1 DEF Requeue, WorkerIdle, Leaves
<1>4. CASE JobEnd
  BY <1>4 DEF JobEnd, WorkerIdle, queueVars, Leaves
<1>5. CASE JobGetTicket \/ JobPatchFails \/ JobUpdateTicket \/ JobLogSynced \/ JobStoreFails
           \/ JobLogFailed \/ JobRereadTicket \/ JobMarkError
  BY <1>5 DEF JobGetTicket, JobPatchFails, JobUpdateTicket, JobLogSynced, JobStoreFails,
              JobLogFailed, JobRereadTicket, JobMarkError, Throw, JobGoes, queueVars, QueueStays
<1>. QED  BY <1>1, <1>2, <1>3, <1>4, <1>5 DEF JobStep

LEMMA QueueStep ==
  ASSUME TypeOK, [Next]_vars
  PROVE  QueueSteps
<1>. USE DEF QueueSteps
<1>1. ASSUME NEW o \in Op, Promote(o) PROVE QueueSteps
  BY <1>1 DEF Promote, JobStays, jobVars, Promotes
<1>2. ASSUME NEW s \in Sync, SyncStep(s) PROVE QueueSteps
  BY <1>2 DEF SyncStep, SyncFetch, SyncSetTickets, adoVars, queueVars, jobVars, QueueStays
<1>3. ASSUME NEW t \in Ticket, AdoEdit(t) \/ AdoMoveOut(t) PROVE QueueSteps
  <2>1. External \in Value /\ \E fields : Revise(t, fields, External)
    BY <1>3 DEF AdoEdit, AdoMoveOut, Record, Value
  <2>. QED  BY <1>3, <2>1 DEF AdoEdit, AdoMoveOut, queueVars, jobVars, QueueStays, Revises
<1>4. ASSUME Crash PROVE QueueSteps
  BY <1>4 DEF Crash, WorkerIdle, adoVars, Restarts
<1>5. ASSUME UNCHANGED vars PROVE QueueSteps
  BY <1>5 DEF vars, adoVars, queueVars, jobVars, QueueStays
<1>6. ASSUME NEW o \in Op, StalledCheck(o) PROVE QueueSteps
  BY <1>6 DEF StalledCheck, JobStays, jobVars, Rescues
<1>. QED  BY <1>1, <1>2, <1>3, <1>4, <1>5, <1>6, QueueOpStep, QueueJobStep DEF Next

LEMMA JobStaysOp == JobStep => opPc' = opPc
BY DEF JobStep, JobStays, opVars, JobTake, JobGetTicket, JobPatch, JobPatchFails,
       JobPatchReplyLost, JobUpdateTicket, JobLogSynced, JobStoreFails, JobRetry, JobLogFailed,
       JobRereadTicket, JobMarkError, JobCatchFails, JobEnd

\* A handler that has handed its operation over does not come back to it.
LEMMA HandedOver ==
  ASSUME TypeOK, [Next]_vars, NEW o \in Op, opPc[o] \notin Unqueued
  PROVE  opPc'[o] \notin Unqueued
<1>1. opPc \in [Op -> OpProgress]
  BY DEF TypeOK
<1>2. ASSUME NEW p \in Op, OpStep(p) PROVE opPc'[o] \notin Unqueued
  BY <1>1, <1>2, OpEffect
<1>3. CASE Crash
  BY <1>1, <1>3 DEF Crash, Unqueued
<1>4. CASE ~Crash /\ ~\E p \in Op : OpStep(p)
  BY <1>1, <1>4, JobStaysOp DEF Next, SyncStep, SyncFetch, SyncSetTickets, AdoEdit,
      AdoMoveOut, Promote, StalledCheck, JobStays, opVars, vars
<1>. QED  BY <1>2, <1>3, <1>4

LEMMA AcceptedStays ==
  ASSUME TypeOK, [Next]_vars, AcceptedOnce, accepted' = accepted
  PROVE  AcceptedOnce'
<1>1. \A i \in 1 .. Len(accepted) : accepted[i] \in Op
  BY DEF TypeOK
<1>. QED  BY <1>1, HandedOver DEF AcceptedOnce

\* The order says something of two operations only.
LEMMA BeforeIs ==
  ASSUME AcceptedOnce, NEW o, NEW p, Before(o, p)
  PROVE  o # p /\ \E i \in 1 .. Len(accepted) : accepted[i] = o
BY DEF Before, AcceptedOnce

LEMMA OvertakesRevise ==
  ASSUME TypeOK, NEW t \in Ticket, NEW fields, NEW v \in Value, Revise(t, fields, v),
         NEW o \in Op, NEW p \in Op, o # v, o # p, ~Overtakes(p, o)
  PROVE  ~Overtakes(p, o)'
<1>. DEFINE u == OpTicket[o]
            f == OpField[o]
            new == Put(Latest(t), fields, v)
<1>1. u \in Ticket /\ f \in Field /\ ado[u] \in History /\ ado[t] \in History
  BY OpAssumption DEF TypeOK, History
<1>2. Latest(t) \in [Field -> Value] /\ Len(ado[t]) \in 1 .. Len(ado[t])
  BY <1>1, ReviseType DEF Rev
<1>3. new \in [Field -> Value]
  BY <1>2, PutType
<1>4. ado'[u] = IF u = t THEN Append(ado[t], new) ELSE ado[u]
  BY <1>1 DEF Revise, TypeOK
<1>5. SUFFICES ASSUME Overtakes(p, o)' PROVE FALSE
  OBVIOUS
<1>6. PICK i, j \in 1 .. Len(ado'[u]) : i < j /\ ado'[u][i][f] = p /\ ado'[u][j][f] = o
  BY <1>5 DEF Overtakes
<1>. HIDE DEF new
<1>7. CASE u # t \/ j # Len(ado[t]) + 1
  <2>1. i \in 1 .. Len(ado[u]) /\ j \in 1 .. Len(ado[u])
        /\ ado'[u][i] = ado[u][i] /\ ado'[u][j] = ado[u][j]
    BY <1>1, <1>3, <1>4, <1>6, <1>7 DEF History
  <2>. QED  BY <1>6, <2>1 DEF Overtakes
<1>8. CASE u = t /\ j = Len(ado[t]) + 1
  <2>1. new[f] = o /\ i \in 1 .. Len(ado[t]) /\ ado[t][i][f] = p
    BY <1>1, <1>3, <1>4, <1>6, <1>8 DEF History
  <2>2. Latest(t)[f] = o
    BY <1>1, <1>2, <2>1 DEF Put, new
  <2>3. ado[t][Len(ado[t])][f] = o /\ i # Len(ado[t])
    BY <2>1, <2>2 DEF Latest, Rev
  <2>. QED  BY <1>1, <1>2, <1>8, <2>1, <2>3 DEF Overtakes
<1>. QED  BY <1>7, <1>8

\* What ADO never saw overwrites nothing, and is not overwritten.
LEMMA UnrecordedOvertakes ==
  ASSUME NEW o \in Op, NEW p \in Op, Unrecorded(p)
  PROVE  ~Overtakes(p, o)
BY OpAssumption DEF Unrecorded, Overtakes, Rev

LEMMA QueueStaysOK ==
  ASSUME TypeOK, [Next]_vars, QueueInv, QueueStays, ado' = ado
  PROVE  QueueInv'
<1>1. AcceptedOnce'
  BY AcceptedStays DEF QueueInv, QueueStays
<1>2. JobsOnce' /\ DelayedRetried'
  BY DEF QueueInv, QueueStays, JobsOnce, DelayedRetried
<1>3. ASSUME NEW a \in Op, NEW b \in Op PROVE InOrder(a, b)'
  <2>1. /\ Before(a, b)' = Before(a, b) /\ RunOnce(a)' = RunOnce(a) /\ HasJob(a)' = HasJob(a)
        /\ Behind(a, b)' = Behind(a, b)
    BY DEF QueueStays, Before, RunOnce, HasJob, Behind
  <2>2. Unrecorded(b)' = Unrecorded(b) /\ Overtakes(b, a)' = Overtakes(b, a)
    BY DEF Unrecorded, Rev, Overtakes
  <2>3. InOrder(a, b)
    BY DEF QueueInv
  <2>. QED  BY <2>1, <2>2, <2>3 DEF InOrder, SameField
<1>. QED  BY <1>1, <1>2, <1>3 DEF QueueInv

LEMMA RevisesOK ==
  ASSUME TypeOK, [Next]_vars, QueueInv, Revises
  PROVE  QueueInv'
<1>1. AcceptedOnce'
  BY AcceptedStays DEF QueueInv, QueueStays, Revises
<1>2. JobsOnce' /\ DelayedRetried'
  BY DEF QueueInv, Revises, QueueStays, JobsOnce, DelayedRetried
<1>3. PICK t \in Ticket, v \in Value : (\E fields : Revise(t, fields, v))
                                       /\ (v = External \/ v = jobOp)
  BY DEF Revises
<1>4. PICK fields : Revise(t, fields, v)
  BY <1>3
<1>5. \A o, p \in Op : /\ (Before(o, p))' = Before(o, p) /\ (SameField(o, p))' = SameField(o, p)
                       /\ HasJob(o)' = HasJob(o) /\ (Behind(o, p))' = Behind(o, p)
                       /\ RunOnce(o)' = RunOnce(o)
  BY DEF Revises, QueueStays, Before, SameField, HasJob, Behind, RunOnce
<1>6. ASSUME NEW o \in Op, NEW p \in Op, Before(o, p), SameField(o, p), RunOnce(o)
      PROVE  (HasJob(o) => Unrecorded(p)' /\ Behind(o, p)) /\ ~Overtakes(p, o)'
  <2>1. (HasJob(o) => Unrecorded(p) /\ Behind(o, p)) /\ ~Overtakes(p, o)
    BY <1>6 DEF QueueInv, InOrder
  <2>2. CASE HasJob(o)
    <3>1. p # v
      BY <1>3, <2>1, <2>2, OpAssumption DEF Behind, QueueInv, JobsOnce
    <3>2. Unrecorded(p)'
      BY <1>4, <2>1, <2>2, <3>1, UnrecordedRevise
    <3>3. ~Overtakes(p, o)'
      BY <3>2, OpAssumption DEF Unrecorded, Overtakes, Rev
    <3>. QED  BY <2>1, <3>2, <3>3
  <2>3. CASE ~HasJob(o)
    <3>1. o # v /\ o # p
      BY <1>3, <1>6, <2>3, OpAssumption, BeforeIs DEF HasJob, QueueInv
    <3>. QED  BY <1>4, <2>1, <2>3, <3>1, OvertakesRevise
  <2>. QED  BY <2>2, <2>3
<1>. QED  BY <1>1, <1>2, <1>5, <1>6 DEF QueueInv, InOrder

LEMMA EnqueuesOK ==
  ASSUME TypeOK, IInv, [Next]_vars, QueueInv, NEW o \in Op, Enqueues(o)
  PROVE  QueueInv'
<1>1. /\ wait \in Seq(Op) /\ accepted \in Seq(Op) /\ wait' = Append(wait, o)
      /\ accepted' = Append(accepted, o)
      /\ opPc[o] \in Unqueued /\ opPc'[o] \notin Unqueued
      /\ UNCHANGED <<delayed, abandoned, jobOp, attempts, stalled, ado>>
  BY DEF TypeOK, Enqueues, Unqueued
<1>2. ~HasJob(o) /\ Unrecorded(o)
  BY <1>1 DEF IInv, JobsAccepted, UnqueuedUnrecorded
<1>3. /\ Len(wait) \in Nat /\ Len(wait') = Len(wait) + 1 /\ wait'[Len(wait) + 1] = o
      /\ \A i \in 1 .. Len(wait) : wait'[i] = wait[i] /\ wait[i] \in Op
      /\ Len(accepted) \in Nat /\ Len(accepted') = Len(accepted) + 1
      /\ accepted'[Len(accepted) + 1] = o
      /\ \A i \in 1 .. Len(accepted) : accepted'[i] = accepted[i] /\ accepted[i] \in Op
  BY <1>1
<1>4. \A i \in 1 .. Len(accepted) : accepted[i] # o
  BY <1>1 DEF QueueInv, AcceptedOnce
<1>5. AcceptedOnce'
  <2>1. \A i \in 1 .. Len(accepted') : i \in 1 .. Len(accepted) \/ i = Len(accepted) + 1
    BY <1>3
  <2>2. \A i \in 1 .. Len(accepted') : opPc'[accepted'[i]] \notin Unqueued
    BY <1>1, <1>3, <2>1, HandedOver DEF QueueInv, AcceptedOnce
  <2>3. \A i, j \in 1 .. Len(accepted') : accepted'[i] = accepted'[j] => i = j
    BY <1>3, <1>4, <2>1 DEF QueueInv, AcceptedOnce
  <2>. QED  BY <2>2, <2>3 DEF AcceptedOnce
<1>6. JobsOnce'
  <2>1. \A i \in 1 .. Len(wait') : i \in 1 .. Len(wait) \/ i = Len(wait) + 1
    BY <1>3
  <2>2. o # jobOp /\ o \notin delayed \cup abandoned /\ \A i \in 1 .. Len(wait) : wait[i] # o
    BY <1>2 DEF HasJob
  <2>. QED  BY <1>1, <1>3, <2>1, <2>2 DEF QueueInv, JobsOnce
<1>7. DelayedRetried'
  BY <1>1 DEF QueueInv, DelayedRetried
<1>8. ASSUME NEW a \in Op, NEW b \in Op, (Before(a, b))', SameField(a, b), RunOnce(a)
      PROVE  (HasJob(a)' => Unrecorded(b) /\ (Behind(a, b))') /\ ~Overtakes(b, a)
  <2>1. PICK i, j \in 1 .. Len(accepted') : i < j /\ accepted'[i] = a /\ accepted'[j] = b
    BY <1>8 DEF Before
  <2>2. i \in 1 .. Len(accepted) /\ a = accepted[i] /\ a # o
    BY <1>3, <1>4, <2>1
  <2>3. HasJob(a)' => HasJob(a)
    BY <1>1, <2>2, HasJobAppend
  <2>4. CASE b = o
    <3>1. HasJob(a) => (Behind(a, b))'
      <4>. SUFFICES ASSUME HasJob(a) PROVE (Behind(a, b))'
        OBVIOUS
      <4>1. a \notin delayed \cup abandoned
        BY <1>8 DEF QueueInv, DelayedRetried, RunOnce
      <4>2. a = jobOp \/ \E n \in 1 .. Len(wait) : wait[n] = a
        BY <4>1 DEF HasJob
      <4>3. Len(wait) + 1 \in 1 .. Len(wait') /\ (Len(wait) + 1) - 1 = Len(wait)
        BY <1>3
      <4>. QED  BY <1>1, <1>3, <2>4, <4>2, <4>3 DEF Behind
    <3>. QED  BY <1>2, <2>3, <2>4, <3>1, UnrecordedOvertakes
  <2>5. CASE b # o
    <3>1. j \in 1 .. Len(accepted) /\ accepted[j] = b
      BY <1>3, <2>1, <2>5
    <3>2. Before(a, b)
      BY <2>1, <2>2, <3>1 DEF Before
    <3>3. (HasJob(a) => Unrecorded(b) /\ Behind(a, b)) /\ ~Overtakes(b, a)
      BY <1>8, <3>2 DEF QueueInv, InOrder
    <3>4. Behind(a, b) => (Behind(a, b))'
      <4>1. \A k \in 1 .. Len(wait) : k \in 1 .. Len(wait')
            /\ \A n \in 1 .. k - 1 : n \in 1 .. Len(wait)
        BY <1>3
      <4>. QED  BY <1>1, <1>3, <4>1 DEF Behind
    <3>. QED  BY <2>3, <3>3, <3>4
  <2>. QED  BY <2>4, <2>5
<1>9. \A a, b \in Op : /\ Unrecorded(b)' = Unrecorded(b) /\ (Overtakes(b, a))' = Overtakes(b, a)
                       /\ (SameField(a, b))' = SameField(a, b) /\ RunOnce(a)' = RunOnce(a)
  BY <1>1 DEF Unrecorded, Rev, Overtakes, SameField, RunOnce
<1>. QED  BY <1>1, <1>5, <1>6, <1>7, <1>8, <1>9 DEF QueueInv, InOrder

\* Steps that accept nothing, and leave ADO as it is.
LEMMA OrderStays ==
  ASSUME accepted' = accepted, ado' = ado, QueueInv, NEW a \in Op, NEW b \in Op,
         RunOnce(a)' => RunOnce(a),
         RunOnce(a)' /\ HasJob(a)' => HasJob(a),
         RunOnce(a)' /\ HasJob(a)' /\ Behind(a, b) => (Behind(a, b))'
  PROVE  InOrder(a, b)'
<1>1. /\ (Before(a, b))' = Before(a, b) /\ (SameField(a, b))' = SameField(a, b)
      /\ Unrecorded(b)' = Unrecorded(b) /\ (Overtakes(b, a))' = Overtakes(b, a)
  BY DEF Before, SameField, Unrecorded, Rev, Overtakes
<1>2. InOrder(a, b)
  BY DEF QueueInv
<1>. QED  BY <1>1, <1>2 DEF InOrder

LEMMA TakesOK ==
  ASSUME TypeOK, [Next]_vars, QueueInv, Takes
  PROVE  QueueInv'
<1>1. /\ wait \in Seq(Op) /\ wait # <<>> /\ wait' = Tail(wait) /\ jobOp = None /\ jobOp' = Head(wait)
      /\ UNCHANGED <<accepted, delayed, abandoned, attempts, stalled, ado>>
  BY DEF TypeOK, Takes
<1>2. /\ Len(wait) \in Nat \ {0} /\ Len(wait') = Len(wait) - 1 /\ jobOp' = wait[1]
      /\ \A i \in 1 .. Len(wait') : wait'[i] = wait[i + 1] /\ i + 1 \in 1 .. Len(wait)
      /\ \A i \in 2 .. Len(wait) : wait'[i - 1] = wait[i] /\ i - 1 \in 1 .. Len(wait')
      /\ \A i \in 1 .. Len(wait) : wait[i] \in Op
  BY <1>1
<1>3. AcceptedOnce'
  BY <1>1, AcceptedStays DEF QueueInv
<1>4. JobsOnce'
  <2>1. \A i, j \in 1 .. Len(wait') : wait'[i] = wait'[j] => i = j
    <3>. SUFFICES ASSUME NEW i \in 1 .. Len(wait'), NEW j \in 1 .. Len(wait'), wait'[i] = wait'[j]
                  PROVE  i = j
      OBVIOUS
    <3>1. i + 1 = j + 1
      BY <1>2 DEF QueueInv, JobsOnce
    <3>. QED  BY <3>1
  <2>2. 1 \in 1 .. Len(wait) /\ \A i \in 1 .. Len(wait') : i + 1 # 1
    BY <1>2
  <2>3. /\ jobOp' \notin delayed \cup abandoned
        /\ \A i \in 1 .. Len(wait') : wait'[i] \notin delayed \cup abandoned \cup {jobOp'}
    BY <1>2, <2>2 DEF QueueInv, JobsOnce
  <2>. QED  BY <1>1, <2>1, <2>3 DEF QueueInv, JobsOnce
<1>5. DelayedRetried'
  BY <1>1 DEF QueueInv, DelayedRetried
<1>6. ASSUME NEW a \in Op, NEW b \in Op PROVE InOrder(a, b)'
  <2>1. HasJob(a)' => HasJob(a)
    <3>1. 1 \in 1 .. Len(wait)
      BY <1>2
    <3>. QED  BY <1>1, <1>2, <3>1 DEF HasJob
  <2>2. Behind(a, b) => (Behind(a, b))'
    <3>. SUFFICES ASSUME Behind(a, b) PROVE (Behind(a, b))'
      OBVIOUS
    <3>1. PICK k \in 1 .. Len(wait), n \in 1 .. Len(wait) : n < k /\ wait[k] = b /\ wait[n] = a
      <4>1. \A k \in 1 .. Len(wait) : \A n \in 1 .. k - 1 : n \in 1 .. Len(wait) /\ n < k
        BY <1>2
      <4>2. a # jobOp
        BY <1>1, OpAssumption
      <4>. QED  BY <4>1, <4>2 DEF Behind
    <3>2. k - 1 \in 1 .. Len(wait') /\ wait'[k - 1] = b
      BY <1>2, <3>1
    <3>3. CASE n = 1
      BY <1>2, <3>1, <3>2, <3>3 DEF Behind
    <3>4. CASE n # 1
      <4>1. n - 1 \in 1 .. (k - 1) - 1 /\ wait'[n - 1] = a
        BY <1>2, <3>1, <3>4
      <4>. QED  BY <3>2, <4>1 DEF Behind
    <3>. QED  BY <3>3, <3>4
  <2>3. RunOnce(a)' => RunOnce(a)
    BY <1>1 DEF RunOnce
  <2>. QED  BY <1>1, <2>1, <2>2, <2>3, OrderStays
<1>. QED  BY <1>3, <1>4, <1>5, <1>6 DEF QueueInv

LEMMA LeavesOK ==
  ASSUME TypeOK, [Next]_vars, QueueInv, Leaves
  PROVE  QueueInv'
<1>1. /\ jobOp' = None /\ UNCHANGED <<accepted, wait, abandoned, stalled, ado>>
      /\ wait \in Seq(Op) /\ attempts \in [Op -> Nat]
      /\ delayed \in SUBSET Op /\ abandoned \in SUBSET Op
  BY DEF TypeOK, Leaves
<1>2. /\ delayed \subseteq delayed' /\ delayed' \subseteq delayed \cup {jobOp} /\ delayed' \subseteq Op
      /\ \A o \in Op : attempts'[o] \in Nat /\ (attempts'[o] = 0 => attempts[o] = 0)
      /\ \A o \in delayed' \ delayed : attempts'[o] > 0
      /\ \A o \in Op : attempts[o] > 0 => attempts'[o] > 0
  <2>1. CASE UNCHANGED <<delayed, attempts>>
    BY <1>1, <2>1
  <2>2. CASE /\ jobOp \in Op /\ delayed' = delayed \cup {jobOp}
             /\ attempts' = [attempts EXCEPT ![jobOp] = @ + 1]
    BY <1>1, <2>2
  <2>. QED  BY <2>1, <2>2 DEF Leaves
<1>3. AcceptedOnce'
  BY <1>1, AcceptedStays DEF QueueInv
<1>4. JobsOnce'
  <2>1. \A i \in 1 .. Len(wait) : wait[i] \in Op
    BY <1>1
  <2>. QED  BY <1>1, <1>2, <2>1, OpAssumption DEF QueueInv, JobsOnce
<1>5. DelayedRetried'
  BY <1>1, <1>2 DEF QueueInv, DelayedRetried
<1>6. ASSUME NEW a \in Op, NEW b \in Op PROVE InOrder(a, b)'
  <2>1. ASSUME HasJob(a)', RunOnce(a)' PROVE HasJob(a) /\ a # jobOp
    <3>1. a \notin delayed' \cup abandoned'
      BY <1>5, <2>1, <1>2 DEF DelayedRetried, RunOnce
    <3>2. a # jobOp'
      BY <1>1, OpAssumption
    <3>3. PICK i \in 1 .. Len(wait) : wait[i] = a
      BY <1>1, <2>1, <3>1, <3>2 DEF HasJob
    <3>. QED  BY <3>3 DEF HasJob, QueueInv, JobsOnce
  <2>2. Behind(a, b) /\ a # jobOp => (Behind(a, b))'
    BY <1>1 DEF Behind
  <2>3. RunOnce(a)' => RunOnce(a)
    BY <1>1, <1>2 DEF RunOnce
  <2>. QED  BY <1>1, <2>1, <2>2, <2>3, OrderStays
<1>. QED  BY <1>3, <1>4, <1>5, <1>6 DEF QueueInv

LEMMA PromotesOK ==
  ASSUME TypeOK, [Next]_vars, QueueInv, NEW o \in Op, Promotes(o)
  PROVE  QueueInv'
<1>1. /\ wait \in Seq(Op) /\ wait' = Append(wait, o) /\ o \in delayed /\ delayed' = delayed \ {o}
      /\ UNCHANGED <<accepted, abandoned, jobOp, attempts, stalled, ado>>
  BY DEF TypeOK, Promotes
<1>2. /\ Len(wait) \in Nat /\ Len(wait') = Len(wait) + 1 /\ wait'[Len(wait) + 1] = o
      /\ \A i \in 1 .. Len(wait) : wait'[i] = wait[i] /\ i \in 1 .. Len(wait')
  BY <1>1
<1>3. AcceptedOnce'
  BY <1>1, AcceptedStays DEF QueueInv
<1>4. JobsOnce'
  <2>1. \A i \in 1 .. Len(wait') : i \in 1 .. Len(wait) \/ i = Len(wait) + 1
    BY <1>2
  <2>2. o # jobOp /\ \A i \in 1 .. Len(wait) : wait[i] # o
    BY <1>1 DEF QueueInv, JobsOnce
  <2>. QED  BY <1>1, <1>2, <2>1, <2>2 DEF QueueInv, JobsOnce
<1>5. DelayedRetried'
  BY <1>1 DEF QueueInv, DelayedRetried
<1>6. ASSUME NEW a \in Op, NEW b \in Op PROVE InOrder(a, b)'
  <2>1. HasJob(a)' => HasJob(a)
    <3>1. HasJob(o)
      BY <1>1 DEF HasJob
    <3>. QED  BY <1>1, <3>1, HasJobAppend
  <2>2. Behind(a, b) => (Behind(a, b))'
    <3>1. \A k \in 1 .. Len(wait) : \A n \in 1 .. k - 1 : n \in 1 .. Len(wait)
      BY <1>2
    <3>. QED  BY <1>1, <1>2, <3>1 DEF Behind
  <2>3. RunOnce(a)' => RunOnce(a)
    BY <1>1 DEF RunOnce
  <2>. QED  BY <1>1, <2>1, <2>2, <2>3, OrderStays
<1>. QED  BY <1>3, <1>4, <1>5, <1>6 DEF QueueInv

LEMMA RestartsOK ==
  ASSUME TypeOK, [Next]_vars, QueueInv, Restarts
  PROVE  QueueInv'
<1>1. /\ jobOp' = None /\ abandoned' = abandoned \cup ({jobOp} \ {None})
      /\ UNCHANGED <<accepted, wait, delayed, attempts, stalled, ado>>
      /\ wait \in Seq(Op) /\ delayed \subseteq Op /\ abandoned \subseteq Op
      /\ jobOp \in Op \cup {None}
  BY DEF TypeOK, Restarts
<1>2. AcceptedOnce'
  BY <1>1, AcceptedStays DEF QueueInv
<1>3. JobsOnce'
  <2>1. None \notin delayed \cup abandoned' /\ \A i \in 1 .. Len(wait) : wait[i] # None
    BY <1>1, OpAssumption
  <2>. QED  BY <1>1, <2>1 DEF QueueInv, JobsOnce
<1>4. DelayedRetried'
  BY <1>1 DEF QueueInv, DelayedRetried
<1>5. ASSUME NEW a \in Op, NEW b \in Op PROVE InOrder(a, b)'
  <2>1. a # None
    BY OpAssumption
  <2>2. RunOnce(a)' => RunOnce(a) /\ a # jobOp
    BY <1>1, <2>1 DEF RunOnce
  <2>3. HasJob(a)' => HasJob(a)
    BY <1>1, <2>1 DEF HasJob
  <2>4. Behind(a, b) /\ a # jobOp => (Behind(a, b))'
    BY <1>1 DEF Behind
  <2>. QED  BY <1>1, <2>2, <2>3, <2>4, OrderStays
<1>. QED  BY <1>2, <1>3, <1>4, <1>5 DEF QueueInv

LEMMA RescuesOK ==
  ASSUME TypeOK, [Next]_vars, QueueInv, NEW o \in Op, Rescues(o)
  PROVE  QueueInv'
<1>1. /\ wait \in Seq(Op) /\ stalled \in [Op -> Nat] /\ o \in abandoned /\ abandoned' = abandoned \ {o}
      /\ stalled' = [stalled EXCEPT ![o] = @ + 1]
      /\ wait' = wait \/ wait' = <<o>> \o wait
      /\ UNCHANGED <<accepted, delayed, jobOp, attempts, ado>>
  BY DEF TypeOK, Rescues
<1>2. AcceptedOnce'
  BY <1>1, AcceptedStays DEF QueueInv
<1>3. DelayedRetried'
  BY <1>1 DEF QueueInv, DelayedRetried
<1>4. ASSUME wait' = <<o>> \o wait
      PROVE  /\ Len(wait) \in Nat /\ Len(wait') = Len(wait) + 1 /\ wait'[1] = o
             /\ \A i \in 1 .. Len(wait) : wait'[i + 1] = wait[i] /\ i + 1 \in 1 .. Len(wait')
             /\ \A i \in 1 .. Len(wait') :
                  i = 1 \/ (i - 1 \in 1 .. Len(wait) /\ wait'[i] = wait[i - 1])
  BY <1>1, <1>4
<1>5. JobsOnce'
  <2>1. CASE wait' = wait
    BY <1>1, <2>1 DEF QueueInv, JobsOnce
  <2>2. CASE wait' = <<o>> \o wait
    <3>1. \A i \in 1 .. Len(wait) : wait[i] # o /\ wait[i] \notin delayed \cup abandoned \cup {jobOp}
      BY <1>1 DEF QueueInv, JobsOnce
    <3>2. ASSUME NEW i \in 1 .. Len(wait'), NEW j \in 1 .. Len(wait'), wait'[i] = wait'[j]
          PROVE  i = j
      <4>1. CASE i = 1 \/ j = 1
        BY <1>4, <2>2, <3>1, <3>2, <4>1
      <4>2. CASE i # 1 /\ j # 1
        <5>1. i - 1 \in 1 .. Len(wait) /\ j - 1 \in 1 .. Len(wait) /\ wait[i - 1] = wait[j - 1]
          BY <1>4, <2>2, <3>2, <4>2
        <5>2. i - 1 = j - 1
          BY <5>1 DEF QueueInv, JobsOnce
        <5>. QED  BY <5>2
      <4>. QED  BY <4>1, <4>2
    <3>3. o \notin delayed /\ o # jobOp /\ o \notin abandoned'
      BY <1>1 DEF QueueInv, JobsOnce
    <3>4. \A i \in 1 .. Len(wait') : wait'[i] \notin delayed \cup abandoned' \cup {jobOp}
      BY <1>1, <1>4, <2>2, <3>1, <3>3
    <3>. QED  BY <1>1, <3>2, <3>4 DEF QueueInv, JobsOnce
  <2>. QED  BY <1>1, <2>1, <2>2
<1>6. ASSUME NEW a \in Op, NEW b \in Op PROVE InOrder(a, b)'
  <2>1. RunOnce(a)' => RunOnce(a)
    BY <1>1 DEF RunOnce
  <2>2. HasJob(a)' => HasJob(a)
    <3>1. HasJob(a)' => a = o \/ HasJob(a)
      BY <1>1, HasJobPrepend
    <3>. QED  BY <1>1, <3>1 DEF HasJob
  <2>3. Behind(a, b) => (Behind(a, b))'
    <3>1. CASE wait' = wait
      BY <1>1, <3>1 DEF Behind
    <3>2. CASE wait' = <<o>> \o wait
      <4>. SUFFICES ASSUME NEW k \in 1 .. Len(wait), wait[k] = b,
                           a = jobOp \/ \E n \in 1 .. k - 1 : wait[n] = a
                    PROVE  (Behind(a, b))'
        BY DEF Behind
      <4>1. k + 1 \in 1 .. Len(wait') /\ wait'[k + 1] = b
        BY <1>4, <3>2
      <4>2. CASE a = jobOp
        BY <1>1, <4>1, <4>2 DEF Behind
      <4>3. ASSUME NEW n \in 1 .. k - 1, wait[n] = a PROVE (Behind(a, b))'
        <5>1. n + 1 \in 1 .. (k + 1) - 1 /\ wait'[n + 1] = a
          BY <1>4, <3>2, <4>3
        <5>. QED  BY <4>1, <5>1 DEF Behind
      <4>. QED  BY <4>2, <4>3
    <3>. QED  BY <1>1, <3>1, <3>2
  <2>. QED  BY <1>1, <2>1, <2>2, <2>3, OrderStays
<1>. QED  BY <1>2, <1>3, <1>5, <1>6 DEF QueueInv

LEMMA QueueInit == Init => QueueInv
<1>. SUFFICES ASSUME Init PROVE QueueInv
  OBVIOUS
<1>1. wait = <<>> /\ accepted = <<>> /\ delayed = {} /\ abandoned = {} /\ Len(<<>>) = 0
  BY DEF Init
<1>. QED  BY <1>1 DEF QueueInv, JobsOnce, AcceptedOnce, DelayedRetried, InOrder, Before

LEMMA QueueNext == TypeOK /\ IInv /\ QueueInv /\ [Next]_vars => QueueInv'
BY QueueStep, QueueStaysOK, RevisesOK, EnqueuesOK, TakesOK, LeavesOK, PromotesOK, RestartsOK,
   RescuesOK
   DEF QueueSteps

\* add, process: whatever restarts, retries and failures happen to others, and to the second
\* one, two edits of a field are written to Azure DevOps in the order they were accepted,
\* unless the job of the first one was delayed for another attempt or lost its worker.
THEOREM FieldsAreFifo == Spec => []FifoUnlessRerun
<1>1. QueueInv => FifoUnlessRerun
  BY DEF QueueInv, InOrder, FifoUnlessRerun
<1>. QED  BY <1>1, QueueInit, QueueNext, TypeCorrect, Invariant, PTL DEF Spec
=============================================================================
