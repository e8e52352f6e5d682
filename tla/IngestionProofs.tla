--------------------------- MODULE IngestionProofs ---------------------------
(***************************************************************************)
(* Proofs about IngestionPipeline, for every set of requests, workers and  *)
(* customers, every number of attempts and every number of failures.       *)
(***************************************************************************)
EXTENDS IngestionPipeline, FiniteSetTheorems, SequenceTheorems, TLAPS

Running(w) == worker[w].pc \in PCs \ {"idle", "listener"}

\* A worker runs a job that is active, and no two workers run one job: what a
\* run reads of its job's data cannot change under it.
RunsAreActive ==
  /\ \A w \in Workers : Running(w) =>
       worker[w].job \in Job /\ jobs[worker[w].job].state = "active"
  /\ \A w \in Workers : At(w, "listener") =>
       worker[w].job \in Job /\ Exhausted(jobs[worker[w].job])
  /\ \A v, w \in Workers : Running(v) /\ Running(w) /\ worker[v].job = worker[w].job => v = w

\* A job that is not settled has attempts left.
UnsettledHaveAttempts ==
  \A i \in Job : ~Settled(jobs[i]) => jobs[i].attempts < MaxAttempts

Inv == TypeOK /\ RunsAreActive /\ UnsettledHaveAttempts

\* The lock of the customer is set while a run is between acquiring and
\* releasing it.
HoldersAreLocked ==
  \A w \in Workers : InCritical(w) => LockKey(DataOf(w)) \in lock

LockInv == Inv /\ HoldersAreLocked /\ OneRunPerCustomer

-----------------------------------------------------------------------------
(* Operators.                                                              *)

\* Every operation of the queue returns a job.
LEMMA JobTypes ==
  ASSUME NEW D, NEW j \in JobOf(D), NEW d \in D
  PROVE  /\ NoJob(d) \in JobOf(D) /\ Queued(d) \in JobOf(D) /\ Added(j, d) \in JobOf(D)
         /\ Started(j) \in JobOf(D) /\ Completed(j) \in JobOf(D) /\ Stalled(j) \in JobOf(D)
         /\ j.attempts < MaxAttempts => AttemptFailed(j) \in JobOf(D)
<1>1. /\ NoJob(d) \in JobOf(D) /\ Queued(d) \in JobOf(D) /\ Added(j, d) \in JobOf(D)
      /\ Started(j) \in JobOf(D) /\ Completed(j) \in JobOf(D)
  BY BullAssumption DEF NoJob, Queued, Added, Started, Completed, JobOf, JobStates
<1>2. /\ j.stalls < MaxStalls => j.stalls + 1 \in 0..MaxStalls
      /\ j.attempts < MaxAttempts => j.attempts + 1 \in 0..MaxAttempts
  BY BullAssumption DEF JobOf
<1>3. Stalled(j) \in JobOf(D)
  BY <1>2 DEF Stalled, JobOf, JobStates
<1>4. j.attempts < MaxAttempts => AttemptFailed(j) \in JobOf(D)
  BY <1>2 DEF AttemptFailed, JobOf, JobStates
<1>5. QED
  BY <1>1, <1>3, <1>4

\* What a request enqueues, and what redaction leaves of it, is job data.
LEMMA DataType ==
  /\ \A r \in Requests : JobData(r) \in Data
  /\ \A d \in Data : Sanitized(d) \in Data
BY IngestionAssumption DEF JobData, Sanitized, Data, Body, ExternalIds

-----------------------------------------------------------------------------
(* The initial state and the handlers of the HTTP requests.                *)

\* The queue starts empty, and nobody holds a job.
LEMMA InitInv == Init => Inv
<1> SUFFICES ASSUME Init PROVE Inv
  OBVIOUS
<1>1. JobData(CHOOSE r \in Requests : TRUE) \in Data
  BY IngestionAssumption, DataType
<1>2. jobs \in [Job -> JobOf(Data)]
  BY <1>1, BullAssumption DEF Init, NoJob, JobOf, JobStates
<1>3. TypeOK
  BY <1>2, IngestionAssumption DEF Init, TypeOK, Idle, Run, PCs
<1>4. RunsAreActive
  BY DEF Init, RunsAreActive, Running, At, Idle
<1>5. UnsettledHaveAttempts
  BY BullAssumption DEF Init, UnsettledHaveAttempts, NoJob
<1>6. QED
  BY <1>3, <1>4, <1>5 DEF Inv

\* An HTTP handler adds a job or writes the rows of its own request.
LEMMA HandlerInv ==
  ASSUME Inv, NEW r \in Requests, Handler(r) \/ HandlerFails(r)
  PROVE  Inv'
<1> USE DEF Inv
<1>1. CASE CheckDuplicate(r)
  BY <1>1 DEF CheckDuplicate, TypeOK, RunsAreActive, UnsettledHaveAttempts, Running, At, rows, dlq
<1>2. CASE CreateInboundEvent(r)
  BY <1>2 DEF CreateInboundEvent, TypeOK, RunsAreActive, UnsettledHaveAttempts, Running, At, rows, dlq
<1>3. CASE AddIngestionJob(r)
  <2>1. JobId(r) \in Job /\ JobData(r) \in Data
    BY IngestionAssumption, DataType DEF JobId, Job, Body
  <2>2. Added(jobs[JobId(r)], JobData(r)) \in JobOf(Data)
    BY <2>1, JobTypes DEF TypeOK
  <2>3. TypeOK'
    BY <1>3, <2>1, <2>2 DEF AddIngestionJob, TypeOK, rows, dlq
  <2>4. \A i \in Job : jobs[i].state # "absent" => jobs'[i] = jobs[i]
    BY <1>3 DEF AddIngestionJob, Added, TypeOK
  <2>5. RunsAreActive'
    BY <1>3, <2>4 DEF AddIngestionJob, RunsAreActive, Running, At, Exhausted
  <2>6. UnsettledHaveAttempts'
    BY <1>3, <2>1, BullAssumption
    DEF AddIngestionJob, Added, Queued, UnsettledHaveAttempts, Settled, TypeOK
  <2>7. QED
    BY <2>3, <2>5, <2>6
<1>4. CASE HandlerFails(r)
  BY <1>4, IngestionAssumption DEF HandlerFails, TypeOK, RunsAreActive, UnsettledHaveAttempts, Running, At, rows, dlq
<1>5. QED
  BY <1>1, <1>2, <1>3, <1>4 DEF Handler
-----------------------------------------------------------------------------
(* The steps of a run that leave its job and the other runs alone.         *)

\* What they have in common: the queue is untouched, and only worker w moves,
\* from one place inside process() to another.
RunGoesOn(w) ==
  /\ Running(w) /\ Running(w)'
  /\ worker' \in [Workers -> Run]
  /\ worker'[w].job = worker[w].job
  /\ \A v \in Workers \ {w} : worker'[v] = worker[v]
  /\ UNCHANGED jobs

\* A worker that goes on with its job keeps the bookkeeping of the queue.
LEMMA RunStaysActive ==
  ASSUME Inv, NEW w \in Workers, RunGoesOn(w)
  PROVE  RunsAreActive' /\ UnsettledHaveAttempts'
<1>1. \A v \in Workers : (Running(v)' <=> Running(v)) /\ worker'[v].job = worker[v].job
  BY DEF RunGoesOn, Running
<1>2. \A v \in Workers : At(v, "listener")' <=> At(v, "listener")
  BY DEF RunGoesOn, Running, At
<1>3. RunsAreActive'
  BY <1>1, <1>2 DEF RunGoesOn, Inv, RunsAreActive, Exhausted
<1>4. UnsettledHaveAttempts'
  BY DEF RunGoesOn, Inv, UnsettledHaveAttempts, Settled
<1>5. QED
  BY <1>3, <1>4

\* How a worker moves on.
LEMMA Moves ==
  ASSUME Inv, NEW w \in Workers, Running(w), NEW run \in Run,
         run.job = worker[w].job, run.pc \in PCs \ {"idle", "listener"},
         Becomes(w, run), UNCHANGED jobs
  PROVE  RunGoesOn(w)
BY DEF Becomes, RunGoesOn, Running, Inv, TypeOK

\* Moving on to another place of the handler, or failing there, is going on.
LEMMA GoesTo ==
  ASSUME Inv, NEW w \in Workers, Running(w), NEW pc \in PCs \ {"idle", "listener"},
         Goto(w, pc) \/ Fails(w, pc), UNCHANGED jobs
  PROVE  RunGoesOn(w)
<1>1. worker[w] \in Run
  BY DEF Inv, TypeOK
<1>2. CASE Goto(w, pc)
  BY <1>1, <1>2, Moves DEF Goto, Run
<1>3. CASE Fails(w, pc)
  BY <1>1, <1>3, Moves DEF Fails, Run
<1>4. QED
  BY <1>2, <1>3

\* A worker that runs a job has its data.
LEMMA DataTypeOfRun ==
  ASSUME Inv, NEW w \in Workers, Running(w)
  PROVE  /\ worker[w].job \in Job /\ DataOf(w) \in Data /\ worker[w] \in Run
         /\ LockKey(DataOf(w)) \in Clients \X ExternalIds
<1>1. worker[w].job \in Job /\ DataOf(w) \in Data /\ worker[w] \in Run
  BY DEF Inv, RunsAreActive, DataOf, TypeOK, JobOf
<1>2. QED
  BY <1>1 DEF LockKey, Data

\* acquireLock: taken or not, the run goes on.
LEMMA AcquireLockInv ==
  ASSUME Inv, NEW w \in Workers, AcquireLock(w)
  PROVE  TypeOK' /\ RunGoesOn(w)
<1>1. Running(w) /\ UNCHANGED jobs
  BY DEF AcquireLock, At, Running, PCs, Locked, rows
<1>2. RunGoesOn(w)
  BY <1>1, GoesTo DEF AcquireLock, PCs, Locked
<1>3. TypeOK'
  BY <1>1, <1>2, DataTypeOfRun DEF AcquireLock, http, rows, dlq, RunGoesOn, Inv, TypeOK
<1>4. QED
  BY <1>2, <1>3

\* The identity that was found names an end user.
LEMMA FindIdentityInv ==
  ASSUME Inv, NEW w \in Workers, FindIdentity(w)
  PROVE  TypeOK' /\ RunGoesOn(w)
<1>1. Running(w) /\ UNCHANGED jobs
  BY DEF FindIdentity, At, Running, PCs, Locked, rows
<1>2. RunGoesOn(w)
  <2> DEFINE found == identity[LockKey(DataOf(w))]
         run == [worker[w] EXCEPT !.endUser = found,
                                  !.pc = IF found = 0 THEN "endUser" ELSE "conversation"]
  <2>1. worker[w] \in Run /\ found \in Nat
    BY <1>1, DataTypeOfRun DEF Inv, TypeOK
  <2>2. run \in Run /\ run.job = worker[w].job /\ run.pc \in PCs \ {"idle", "listener"}
    BY <2>1 DEF Run, PCs, Locked
  <2>3. Becomes(w, run)
    BY DEF FindIdentity
  <2>4. QED
    BY <1>1, <2>2, <2>3, Moves
<1>3. TypeOK'
  BY <1>1, <1>2, DataTypeOfRun DEF FindIdentity, http, rows, dlq, RunGoesOn, Inv, TypeOK
<1>4. QED
  BY <1>2, <1>3

\* The new end user is numbered after the existing ones.
LEMMA CreateEndUserInv ==
  ASSUME Inv, NEW w \in Workers, CreateEndUser(w)
  PROVE  TypeOK' /\ RunGoesOn(w)
<1>1. Running(w) /\ UNCHANGED jobs
  BY DEF CreateEndUser, At, Running, PCs, Locked, rows
<1>2. RunGoesOn(w)
  <2> DEFINE run == [worker[w] EXCEPT !.endUser = endUsers + 1, !.pc = "link"]
  <2>1. worker[w] \in Run /\ endUsers + 1 \in Nat
    BY DEF Inv, TypeOK
  <2>2. run \in Run /\ run.job = worker[w].job /\ run.pc \in PCs \ {"idle", "listener"}
    BY <2>1 DEF Run, PCs, Locked
  <2>3. Becomes(w, run)
    BY DEF CreateEndUser
  <2>4. QED
    BY <1>1, <2>2, <2>3, Moves
<1>3. TypeOK'
  BY <1>1, <1>2, DataTypeOfRun DEF CreateEndUser, http, dlq, RunGoesOn, Inv, TypeOK
<1>4. QED
  BY <1>2, <1>3

\* The new identity names the end user of the run.
LEMMA CreateIdentityInv ==
  ASSUME Inv, NEW w \in Workers, CreateIdentity(w)
  PROVE  TypeOK' /\ RunGoesOn(w)
<1>1. Running(w) /\ UNCHANGED jobs
  BY DEF CreateIdentity, At, Running, PCs, Locked, rows
<1>2. RunGoesOn(w)
  BY <1>1, GoesTo DEF CreateIdentity, PCs, Locked
<1>3. TypeOK'
  BY <1>1, <1>2, DataTypeOfRun DEF CreateIdentity, Run, http, dlq, RunGoesOn, Inv, TypeOK
<1>4. QED
  BY <1>2, <1>3

\* A reused conversation is an existing one.
LEMMA FindConversationInv ==
  ASSUME Inv, NEW w \in Workers, FindConversation(w)
  PROVE  TypeOK' /\ RunGoesOn(w)
<1>1. Running(w) /\ UNCHANGED jobs
  BY DEF FindConversation, At, Running, PCs, Locked, rows
<1>2. RunGoesOn(w)
  <2>1. CASE Goto(w, "open")
    BY <1>1, <2>1, GoesTo DEF PCs, Locked
  <2>2. ASSUME NEW c \in Reusable(DataOf(w)),
               Becomes(w, [worker[w] EXCEPT !.conv = c, !.pc = "message"])
        PROVE  RunGoesOn(w)
    <3>1. worker[w] \in Run /\ c \in Nat
      BY DEF Inv, TypeOK, Reusable
    <3>2. QED
      BY <1>1, <2>2, <3>1, Moves DEF Run, PCs, Locked
  <2>3. QED
    BY <2>1, <2>2 DEF FindConversation
<1>3. TypeOK'
  BY <1>1, <1>2, DataTypeOfRun DEF FindConversation, http, rows, dlq, RunGoesOn, Inv, TypeOK
<1>4. QED
  BY <1>2, <1>3

\* The new conversation is the last of the list.
LEMMA CreateConversationInv ==
  ASSUME Inv, NEW w \in Workers, CreateConversation(w)
  PROVE  TypeOK' /\ RunGoesOn(w)
<1>1. Running(w) /\ UNCHANGED jobs
  BY DEF CreateConversation, At, Running, PCs, Locked, rows
<1>2. RunGoesOn(w)
  <2>1. worker[w] \in Run /\ Len(conversations) + 1 \in Nat
    BY DEF Inv, TypeOK
  <2>2. QED
    BY <1>1, <2>1, Moves DEF CreateConversation, Run, PCs, Locked
<1>3. TypeOK'
  <2> DEFINE row == [client |-> DataOf(w).client, endUser |-> worker[w].endUser,
                     key |-> DataOf(w).convKey, status |-> "active"]
  <2>1. row \in Conversation
    BY <1>1, DataTypeOfRun DEF Conversation, Data, Run
  <2>2. conversations' \in Seq(Conversation)
    BY <2>1, AppendProperties DEF CreateConversation, Inv, TypeOK
  <2>3. QED
    BY <1>2, <2>2 DEF CreateConversation, http, dlq, RunGoesOn, Inv, TypeOK
<1>4. QED
  BY <1>2, <1>3

\* The new message belongs to the conversation of the run.
LEMMA StoreMessageInv ==
  ASSUME Inv, NEW w \in Workers, StoreMessage(w)
  PROVE  TypeOK' /\ RunGoesOn(w)
<1>1. Running(w) /\ UNCHANGED jobs
  BY DEF StoreMessage, At, Running, PCs, Locked, rows
<1>2. RunGoesOn(w)
  <2>1. worker[w] \in Run /\ Len(messages) + 1 \in Nat
    BY DEF Inv, TypeOK
  <2>2. QED
    BY <1>1, <2>1, Moves DEF StoreMessage, Run, PCs, Locked
<1>3. TypeOK'
  <2> DEFINE row == [conv |-> worker[w].conv, job |-> worker[w].job]
  <2>1. row \in Message
    BY <1>1, DataTypeOfRun DEF Message, Run
  <2>2. messages' \in Seq(Message)
    BY <2>1, AppendProperties DEF StoreMessage, Inv, TypeOK
  <2>3. QED
    BY <1>2, <2>2 DEF StoreMessage, http, dlq, RunGoesOn, Inv, TypeOK
<1>4. QED
  BY <1>2, <1>3

\* The parts are attached to the message of the run.
LEMMA StorePartsInv ==
  ASSUME Inv, NEW w \in Workers, StoreParts(w)
  PROVE  TypeOK' /\ RunGoesOn(w)
<1>1. Running(w) /\ UNCHANGED jobs
  BY DEF StoreParts, At, Running, PCs, Locked, rows
<1>2. RunGoesOn(w)
  BY <1>1, GoesTo DEF StoreParts, PCs, Locked
<1>3. TypeOK'
  BY <1>1, <1>2, DataTypeOfRun DEF StoreParts, Run, http, dlq, RunGoesOn, Inv, TypeOK
<1>4. QED
  BY <1>2, <1>3

\* The inbound event of the run is marked.
LEMMA MarkNormalizedInv ==
  ASSUME Inv, NEW w \in Workers, MarkNormalized(w)
  PROVE  TypeOK' /\ RunGoesOn(w)
<1>1. Running(w) /\ UNCHANGED jobs
  BY DEF MarkNormalized, At, Running, PCs, Locked, rows
<1>2. RunGoesOn(w)
  BY <1>1, GoesTo DEF MarkNormalized, PCs, Locked
<1>3. TypeOK'
  BY <1>1, <1>2, DataTypeOfRun DEF MarkNormalized, Data, http, rows, dlq, RunGoesOn, Inv, TypeOK
<1>4. QED
  BY <1>2, <1>3

\* The agent queue receives a job of the run's conversation.
LEMMA AddAgentJobInv ==
  ASSUME Inv, NEW w \in Workers, AddAgentJob(w)
  PROVE  TypeOK' /\ RunGoesOn(w)
<1>1. Running(w) /\ UNCHANGED jobs
  BY DEF AddAgentJob, At, Running, PCs, Locked, rows
<1>2. RunGoesOn(w)
  BY <1>1, GoesTo DEF AddAgentJob, PCs, Locked
<1>3. TypeOK'
  <2>1. [conv |-> worker[w].conv, msg |-> worker[w].msg] \in AgentJob
    BY <1>1, DataTypeOfRun DEF AgentJob, Run
  <2>2. QED
    BY <1>2, <2>1 DEF AddAgentJob, http, dlq, RunGoesOn, Inv, TypeOK
<1>4. QED
  BY <1>2, <1>3

\* The lock of the run's customer is deleted.
LEMMA ReleaseLockInv ==
  ASSUME Inv, NEW w \in Workers, ReleaseLock(w)
  PROVE  TypeOK' /\ RunGoesOn(w)
<1>1. Running(w) /\ UNCHANGED jobs
  BY DEF ReleaseLock, At, Running, PCs, Locked, rows
<1>2. RunGoesOn(w)
  BY <1>1, GoesTo DEF ReleaseLock, PCs, Locked
<1>3. TypeOK'
  BY <1>1, <1>2, DataTypeOfRun DEF ReleaseLock, http, rows, dlq, RunGoesOn, Inv, TypeOK
<1>4. QED
  BY <1>2, <1>3

-----------------------------------------------------------------------------
(* Steps that take, settle and lose jobs.                                  *)

\* A job is started by a worker that has none.
LEMMA StartJobInv ==
  ASSUME Inv, NEW w \in Workers, NEW i \in Job, StartJob(w, i)
  PROVE  Inv'
<1> DEFINE run == [Idle EXCEPT !.pc = "lock", !.job = i]
<1>1. run \in Run /\ run.job = i /\ run.pc = "lock"
  BY DEF Idle, Run, PCs
<1>2. worker' = [worker EXCEPT ![w] = run] /\ jobs' = [jobs EXCEPT ![i] = Started(jobs[i])]
  BY DEF StartJob, Becomes
<1>3. jobs[i] \in JobOf(Data) /\ Started(jobs[i]) \in JobOf(Data)
  BY IngestionAssumption, DataType, JobTypes DEF Inv, TypeOK
<1>4. TypeOK'
  BY <1>1, <1>2, <1>3 DEF StartJob, http, rows, dlq, Inv, TypeOK
<1>5. \A v \in Workers : Running(v) \/ At(v, "listener") => v # w /\ worker[v].job # i
  BY DEF StartJob, Runnable, Exhausted, Inv, RunsAreActive, At, Running
<1>6. jobs'[i].state = "active" /\ \A k \in Job \ {i} : jobs'[k] = jobs[k]
  BY <1>2, <1>3 DEF Started, JobOf, Inv, TypeOK
<1>7. \A v \in Workers \ {w} : worker'[v] = worker[v]
  BY <1>2 DEF Inv, TypeOK
<1>8. worker'[w] = run
  BY <1>2 DEF Inv, TypeOK
<1>9. RunsAreActive'
  <2>1. Running(w)' /\ ~At(w, "listener")' /\ worker'[w].job = i
    BY <1>1, <1>8 DEF Running, At, PCs
  <2>2. \A v \in Workers \ {w} :
          /\ Running(v)' <=> Running(v)
          /\ At(v, "listener")' <=> At(v, "listener")
          /\ worker'[v].job = worker[v].job
    BY <1>7 DEF Running, At
  <2>3. \A v \in Workers : Running(v)' =>
          worker'[v].job \in Job /\ jobs'[worker'[v].job].state = "active"
    BY <1>5, <1>6, <2>1, <2>2 DEF Inv, RunsAreActive
  <2>4. \A v \in Workers : At(v, "listener")' =>
          worker'[v].job \in Job /\ Exhausted(jobs'[worker'[v].job])
    BY <1>5, <1>6, <2>1, <2>2 DEF Inv, RunsAreActive, Exhausted
  <2>5. \A u, v \in Workers :
          Running(u)' /\ Running(v)' /\ worker'[u].job = worker'[v].job => u = v
    BY <1>5, <2>1, <2>2 DEF Inv, RunsAreActive
  <2>6. QED
    BY <2>3, <2>4, <2>5 DEF RunsAreActive
<1>10. UnsettledHaveAttempts'
  BY <1>2, <1>3 DEF StartJob, Runnable, Started, UnsettledHaveAttempts, Settled, JobOf, Inv, TypeOK
<1>11. QED
  BY <1>4, <1>9, <1>10 DEF Inv

\* The attempt is completed or counted as failed.
LEMMA SettleJobInv ==
  ASSUME Inv, NEW w \in Workers, SettleJob(w)
  PROVE  Inv'
<1> DEFINE i == worker[w].job
           done == IF worker[w].ok THEN Completed(jobs[i]) ELSE AttemptFailed(jobs[i])
           run == IF Exhausted(done) THEN [Idle EXCEPT !.pc = "listener", !.job = i] ELSE Idle
<1>1. Running(w) /\ i \in Job /\ jobs[i].state = "active"
  BY DEF SettleJob, At, Running, PCs, Inv, RunsAreActive
<1>2. jobs[i] \in JobOf(Data) /\ jobs[i].attempts < MaxAttempts
  BY <1>1 DEF Inv, TypeOK, UnsettledHaveAttempts, Settled
<1>3. done \in JobOf(Data)
  BY <1>2, JobTypes DEF JobOf
<1>4. run \in Run
  BY <1>1 DEF Idle, Run, PCs
<1>5. jobs' = [jobs EXCEPT ![i] = done] /\ worker' = [worker EXCEPT ![w] = run]
  BY DEF SettleJob, Becomes
<1>6. TypeOK'
  BY <1>1, <1>3, <1>4, <1>5 DEF SettleJob, http, rows, dlq, Inv, TypeOK
<1>7. jobs'[i] = done /\ \A k \in Job \ {i} : jobs'[k] = jobs[k]
  BY <1>1, <1>5 DEF Inv, TypeOK
<1>8. worker'[w] = run /\ \A v \in Workers \ {w} : worker'[v] = worker[v]
  BY <1>5 DEF Inv, TypeOK
<1>9. \A v \in Workers \ {w} : Running(v) \/ At(v, "listener") => worker[v].job # i
  BY <1>1 DEF Exhausted, Inv, RunsAreActive, At, Running
<1>10. RunsAreActive'
  <2>1. ~Running(w)' /\ (At(w, "listener")' => worker'[w].job = i /\ Exhausted(done))
    BY <1>8 DEF Idle, Running, At
  <2>2. \A v \in Workers \ {w} :
          /\ Running(v)' <=> Running(v)
          /\ At(v, "listener")' <=> At(v, "listener")
          /\ worker'[v].job = worker[v].job
    BY <1>8 DEF Running, At
  <2>3. \A v \in Workers : Running(v)' =>
          worker'[v].job \in Job /\ jobs'[worker'[v].job].state = "active"
    BY <1>7, <1>9, <2>1, <2>2 DEF Inv, RunsAreActive
  <2>4. \A v \in Workers : At(v, "listener")' =>
          worker'[v].job \in Job /\ Exhausted(jobs'[worker'[v].job])
    <3>1. \A v \in Workers \ {w} : At(v, "listener") =>
            /\ worker[v].job \in Job /\ Exhausted(jobs[worker[v].job])
            /\ jobs'[worker[v].job] = jobs[worker[v].job]
      BY <1>7, <1>9 DEF Inv, RunsAreActive
    <3>2. QED
      BY <1>1, <1>7, <2>1, <2>2, <3>1 DEF Exhausted
  <2>5. \A u, v \in Workers :
          Running(u)' /\ Running(v)' /\ worker'[u].job = worker'[v].job => u = v
    BY <2>1, <2>2 DEF Inv, RunsAreActive
  <2>6. QED
    BY <2>3, <2>4, <2>5 DEF RunsAreActive
<1>11. UnsettledHaveAttempts'
  <2>1. ~Settled(done) => done.attempts < MaxAttempts
    BY <1>2, BullAssumption DEF Completed, AttemptFailed, Settled, JobOf
  <2>2. QED
    BY <1>7, <2>1 DEF Inv, UnsettledHaveAttempts
<1>12. QED
  BY <1>6, <1>10, <1>11 DEF Inv

\* A stalled job goes back to the queue or fails for good.
LEMMA StalledCheckInv ==
  ASSUME Inv, NEW i \in Job, StalledCheck(i)
  PROVE  Inv'
<1>1. jobs[i] \in JobOf(Data) /\ jobs[i].state = "active" /\ jobs[i].attempts < MaxAttempts
  BY DEF StalledCheck, Settled, Inv, TypeOK, UnsettledHaveAttempts
<1>2. Stalled(jobs[i]) \in JobOf(Data)
  BY <1>1, JobTypes DEF JobOf
<1>3. Stalled(jobs[i]).attempts = jobs[i].attempts
  BY <1>1 DEF Stalled, JobOf
<1>4. TypeOK'
  BY <1>2 DEF StalledCheck, http, rows, dlq, Inv, TypeOK
<1>5. jobs'[i] = Stalled(jobs[i]) /\ \A k \in Job \ {i} : jobs'[k] = jobs[k]
  BY DEF StalledCheck, Inv, TypeOK
<1>6. RunsAreActive'
  BY <1>5 DEF StalledCheck, Inv, RunsAreActive, Running, At, Exhausted
<1>7. UnsettledHaveAttempts'
  BY <1>1, <1>3, <1>5 DEF Inv, UnsettledHaveAttempts
<1>8. QED
  BY <1>4, <1>6, <1>7 DEF Inv

\* A replayed dead letter is a new job with redacted data.
LEMMA ReplayInv ==
  ASSUME Inv, NEW i \in Job, NEW id \in ReplayIds, ReplayDeadLetter(i, id)
  PROVE  Inv'
<1> DEFINE d == Sanitized(jobs[i].data)
<1>1. id \in Job /\ d \in Data
  BY DataType DEF Job, Inv, TypeOK, JobOf
<1>2. Queued(d) \in JobOf(Data) /\ Queued(d).attempts = 0
  BY <1>1, BullAssumption DEF Queued, JobOf, JobStates
<1>3. TypeOK'
  BY <1>1, <1>2 DEF ReplayDeadLetter, http, rows, Inv, TypeOK
<1>4. jobs'[id] = Queued(d) /\ jobs[id].state = "absent"
  BY <1>1 DEF ReplayDeadLetter, Inv, TypeOK
<1>5. \A k \in Job \ {id} : jobs'[k] = jobs[k]
  BY DEF ReplayDeadLetter, Inv, TypeOK
<1>6. RunsAreActive'
  BY <1>4, <1>5 DEF ReplayDeadLetter, Inv, RunsAreActive, Running, At, Exhausted
<1>7. UnsettledHaveAttempts'
  BY <1>2, <1>4, <1>5, BullAssumption DEF Inv, UnsettledHaveAttempts
<1>8. QED
  BY <1>3, <1>6, <1>7 DEF Inv
-----------------------------------------------------------------------------
(* Failures and the remaining steps.                                       *)

\* A worker that lets go of its job keeps the bookkeeping of the queue.
LEMMA BecomesIdle ==
  ASSUME Inv, NEW w \in Workers, Becomes(w, Idle), UNCHANGED jobs
  PROVE  /\ worker' \in [Workers -> Run]
         /\ RunsAreActive' /\ UnsettledHaveAttempts'
<1>1. Idle \in Run /\ Idle.pc = "idle"
  BY DEF Idle, Run, PCs
<1>2. worker'[w].pc = "idle" /\ \A v \in Workers \ {w} : worker'[v] = worker[v]
  BY <1>1 DEF Becomes, Inv, TypeOK
<1>3. RunsAreActive'
  BY <1>2 DEF Inv, RunsAreActive, Running, At, Exhausted
<1>4. worker' \in [Workers -> Run]
  BY <1>1 DEF Becomes, Inv, TypeOK
<1>5. UnsettledHaveAttempts'
  BY DEF Inv, UnsettledHaveAttempts, Settled
<1>6. QED
  BY <1>3, <1>4, <1>5

\* The listener of a job that is exhausted ends the run.
LEMMA AddDeadLetterInv ==
  ASSUME Inv, NEW w \in Workers, AddDeadLetter(w)
  PROVE  Inv'
<1>1. RunsAreActive' /\ UnsettledHaveAttempts' /\ worker' \in [Workers -> Run]
  BY BecomesIdle DEF AddDeadLetter
<1>2. TypeOK'
  BY <1>1 DEF AddDeadLetter, http, rows, Inv, TypeOK
<1>3. QED
  BY <1>1, <1>2 DEF Inv

\* A worker that dies leaves its job active for the stalled check.
LEMMA CrashInv ==
  ASSUME Inv, NEW w \in Workers, Crash(w)
  PROVE  Inv'
<1>1. RunsAreActive' /\ UnsettledHaveAttempts' /\ worker' \in [Workers -> Run]
  BY BecomesIdle DEF Crash
<1>2. TypeOK'
  BY <1>1, IngestionAssumption DEF Crash, http, rows, dlq, Inv, TypeOK
<1>3. QED
  BY <1>1, <1>2 DEF Inv

\* A failing call ends the attempt where its handler says.
LEMMA CallFailsInv ==
  ASSUME Inv, NEW w \in Workers, CallFails(w)
  PROVE  Inv' /\ (RunGoesOn(w) \/ Becomes(w, Idle))
<1>1. RunGoesOn(w) \/ Becomes(w, Idle)
  BY GoesTo DEF CallFails, Running, PCs, Locked
<1>2. RunsAreActive' /\ UnsettledHaveAttempts' /\ worker' \in [Workers -> Run]
  BY <1>1, RunStaysActive, BecomesIdle DEF CallFails, RunGoesOn
<1>3. TypeOK'
  BY <1>2, IngestionAssumption DEF CallFails, http, rows, dlq, Inv, TypeOK
<1>4. QED
  BY <1>1, <1>2, <1>3 DEF Inv

\* Steps of nobody's run.
Outside ==
  \/ \E k \in Clients \X ExternalIds : LockExpires(k)
  \/ \E i \in Job : StoreDeadLetter(i)
  \/ RemoveDeadLetter \/ ReplayFails
  \/ \E c \in DOMAIN conversations, s \in StatusInputs : UpdateStatus(c, s)

\* Locks that expire and edits of the panel touch no job and no worker.
LEMMA OutsideInv ==
  ASSUME Inv, Outside
  PROVE  Inv' /\ UNCHANGED <<jobs, worker>>
<1>1. UNCHANGED <<jobs, worker>>
  BY DEF Outside, LockExpires, StoreDeadLetter, RemoveDeadLetter, ReplayFails, UpdateStatus
<1>2. RunsAreActive' /\ UnsettledHaveAttempts'
  BY <1>1 DEF Inv, RunsAreActive, UnsettledHaveAttempts, Running, At, Exhausted, Settled
<1>3. TypeOK'
  <2>1. CASE \E k \in Clients \X ExternalIds : LockExpires(k)
    BY <2>1 DEF LockExpires, http, rows, dlq, Inv, TypeOK
  <2>2. CASE \E i \in Job : StoreDeadLetter(i)
    BY <2>2 DEF StoreDeadLetter, http, rows, Inv, TypeOK
  <2>3. CASE RemoveDeadLetter
    BY <2>3 DEF RemoveDeadLetter, http, rows, Inv, TypeOK
  <2>4. CASE ReplayFails
    BY <2>4, IngestionAssumption DEF ReplayFails, http, rows, Inv, TypeOK
  <2>5. CASE \E c \in DOMAIN conversations, s \in StatusInputs : UpdateStatus(c, s)
    <3>1. PICK c \in DOMAIN conversations, s \in StatusInputs : UpdateStatus(c, s)
      BY <2>5
    <3>2. conversations[c] \in Conversation /\ s \in {"active", "closed"}
      BY <3>1, IngestionAssumption DEF Inv, TypeOK
    <3>3. [conversations[c] EXCEPT !.status = s] \in Conversation
      BY <3>2 DEF Conversation
    <3>4. conversations' \in Seq(Conversation)
      BY <3>1, <3>3, ExceptSeq DEF UpdateStatus, Inv, TypeOK
    <3>5. QED
      BY <3>1, <3>4 DEF UpdateStatus, http, dlq, Inv, TypeOK
  <2>6. QED
    BY <2>1, <2>2, <2>3, <2>4, <2>5 DEF Outside
<1>4. QED
  BY <1>1, <1>2, <1>3 DEF Inv
-----------------------------------------------------------------------------
(* Type correctness, with one run per active job.                          *)

\* The steps of a run between its start and SettleJob, without failures.
RunStep(w) ==
  \/ AcquireLock(w) \/ FindIdentity(w) \/ CreateEndUser(w) \/ CreateIdentity(w)
  \/ FindConversation(w) \/ CreateConversation(w) \/ StoreMessage(w)
  \/ StoreParts(w) \/ MarkNormalized(w) \/ AddAgentJob(w) \/ ReleaseLock(w)

\* Every step of the handler keeps the invariant.
LEMMA RunStepInv ==
  ASSUME Inv, NEW w \in Workers, RunStep(w)
  PROVE  Inv' /\ RunGoesOn(w)
<1>1. TypeOK' /\ RunGoesOn(w)
  BY AcquireLockInv, FindIdentityInv, CreateEndUserInv, CreateIdentityInv,
     FindConversationInv, CreateConversationInv, StoreMessageInv, StorePartsInv,
     MarkNormalizedInv, AddAgentJobInv, ReleaseLockInv
  DEF RunStep
<1>2. QED
  BY <1>1, RunStaysActive DEF Inv

\* Next, grouped the way the lemmas are.
LEMMA NextCases ==
  ASSUME Next
  PROVE  \/ \E r \in Requests : Handler(r) \/ HandlerFails(r)
         \/ \E w \in Workers : RunStep(w)
         \/ \E w \in Workers : SettleJob(w) \/ AddDeadLetter(w) \/ CallFails(w) \/ Crash(w)
         \/ \E w \in Workers, i \in Job : StartJob(w, i)
         \/ \E i \in Job : StalledCheck(i)
         \/ \E i \in Job, id \in ReplayIds : ReplayDeadLetter(i, id)
         \/ Outside
BY DEF Next, Step, RunStep, Outside

\* The invariant of the types is inductive.
LEMMA NextInv == Inv /\ [Next]_vars => Inv'
<1> SUFFICES ASSUME Inv, [Next]_vars PROVE Inv'
  OBVIOUS
<1>1. CASE UNCHANGED vars
  BY <1>1 DEF vars, Inv, TypeOK, RunsAreActive, UnsettledHaveAttempts, Running, At,
              Exhausted, Settled
<1>2. CASE Next
  BY <1>2, NextCases, HandlerInv, RunStepInv, SettleJobInv, AddDeadLetterInv,
     CallFailsInv, CrashInv, StartJobInv, StalledCheckInv, ReplayInv, OutsideInv
<1>3. QED
  BY <1>1, <1>2

\* TypeOK holds for every set of requests, workers and customers.
THEOREM TypeCorrect == Spec => []TypeOK
<1>1. Inv => TypeOK
  BY DEF Inv
<1>2. QED
  BY InitInv, NextInv, <1>1, PTL DEF Spec

-----------------------------------------------------------------------------
(* Mutual exclusion.                                                       *)

\* The data of a job never changes while the queue knows the job.
LEMMA DataIsStable ==
  ASSUME Inv, Next, NEW i \in Job, jobs[i].state # "absent"
  PROVE  jobs'[i].data = jobs[i].data
<1>1. \A k \in Job : jobs[k] \in JobOf(Data)
  BY DEF Inv, TypeOK
<1>2. ASSUME NEW k \in Job, NEW j, jobs' = [jobs EXCEPT ![k] = j],
             jobs[k].state # "absent" => j.data = jobs[k].data
      PROVE  jobs'[i].data = jobs[i].data
  BY <1>2 DEF Inv, TypeOK
<1>3. ASSUME NEW r \in Requests, AddIngestionJob(r) PROVE jobs'[i].data = jobs[i].data
  <2>1. JobId(r) \in Job
    BY IngestionAssumption DEF JobId, Job, Body
  <2>2. QED
    BY <1>2, <1>3, <2>1 DEF AddIngestionJob, Added
<1>4. ASSUME NEW w \in Workers, NEW k \in Job, StartJob(w, k) PROVE jobs'[i].data = jobs[i].data
  BY <1>1, <1>2, <1>4 DEF StartJob, Started, JobOf
<1>5. ASSUME NEW w \in Workers, SettleJob(w) PROVE jobs'[i].data = jobs[i].data
  <2>1. worker[w].job \in Job
    BY <1>5 DEF SettleJob, At, Running, PCs, Inv, RunsAreActive
  <2>2. Completed(jobs[worker[w].job]).data = jobs[worker[w].job].data
    BY <1>1, <2>1 DEF Completed, JobOf
  <2>3. AttemptFailed(jobs[worker[w].job]).data = jobs[worker[w].job].data
    BY <1>1, <2>1 DEF AttemptFailed, JobOf
  <2>4. QED
    BY <1>2, <1>5, <2>1, <2>2, <2>3 DEF SettleJob
<1>6. ASSUME NEW k \in Job, StalledCheck(k) PROVE jobs'[i].data = jobs[i].data
  <2>1. Stalled(jobs[k]).data = jobs[k].data
    BY <1>1 DEF Stalled, JobOf
  <2>2. QED
    BY <1>2, <1>6, <2>1 DEF StalledCheck
<1>7. ASSUME NEW k \in Job, NEW id \in ReplayIds, ReplayDeadLetter(k, id)
      PROVE  jobs'[i].data = jobs[i].data
  BY <1>2, <1>7 DEF ReplayDeadLetter, Job
<1>8. ASSUME NEW r \in Requests, Handler(r) \/ HandlerFails(r) PROVE jobs'[i].data = jobs[i].data
  BY <1>3, <1>8 DEF Handler, CheckDuplicate, CreateInboundEvent, HandlerFails
<1>9. ASSUME NEW w \in Workers, AddDeadLetter(w) \/ CallFails(w) \/ Crash(w)
      PROVE  jobs'[i].data = jobs[i].data
  BY <1>9 DEF AddDeadLetter, CallFails, Crash
<1>10. ASSUME NEW w \in Workers, RunStep(w) PROVE jobs'[i].data = jobs[i].data
  BY <1>10, RunStepInv DEF RunGoesOn
<1>11. ASSUME Outside PROVE jobs'[i].data = jobs[i].data
  BY <1>11, OutsideInv
<1>12. QED
  BY <1>4, <1>5, <1>6, <1>7, <1>8, <1>9, <1>10, <1>11, NextCases

\* A worker inside the critical section holds an active job.
LEMMA CriticalIsActive ==
  ASSUME Inv, NEW w \in Workers, InCritical(w)
  PROVE  Running(w) /\ worker[w].job \in Job /\ jobs[worker[w].job].state = "active"
BY DEF InCritical, Running, PCs, Locked, Inv, RunsAreActive

\* Runs only enter the critical section through AcquireLock.
LEMMA NobodyEnters ==
  ASSUME Inv, Next, \A w \in Workers : ~AcquireLock(w),
         NEW v \in Workers, InCritical(v)'
  PROVE  InCritical(v) /\ worker'[v].job = worker[v].job
<1> DEFINE Goal == InCritical(v) /\ worker'[v].job = worker[v].job
<1>0. ASSUME worker'[v] = worker[v] PROVE Goal
  BY <1>0 DEF InCritical
<1>1. ASSUME NEW w \in Workers, RunStep(w) PROVE Goal
  <2>1. CASE v # w
    BY <1>0, <1>1, <2>1, RunStepInv DEF RunGoesOn
  <2>2. CASE v = w
    <3>1. worker'[v].job = worker[v].job
      BY <1>1, <2>2, RunStepInv DEF RunGoesOn
    <3>2. worker[v].pc \in Locked
      BY <1>1, <2>2
      DEF RunStep, FindIdentity, CreateEndUser, CreateIdentity, FindConversation,
          CreateConversation, StoreMessage, StoreParts, MarkNormalized, AddAgentJob,
          ReleaseLock, At, Locked
    <3>3. QED
      BY <3>1, <3>2 DEF InCritical
  <2>3. QED
    BY <2>1, <2>2
<1>2. ASSUME NEW w \in Workers, NEW run, Becomes(w, run), run.pc \notin Locked PROVE Goal
  BY <1>0, <1>2 DEF Becomes, InCritical, Inv, TypeOK
<1>3. Idle.pc \notin Locked
  BY DEF Idle, Locked
<1>4. ASSUME NEW w \in Workers, SettleJob(w) PROVE Goal
  <2> DEFINE i == worker[w].job
             run == [Idle EXCEPT !.pc = "listener", !.job = i]
  <2>1. run.pc \notin Locked
    BY DEF Idle, Locked
  <2>2. Becomes(w, run) \/ Becomes(w, Idle)
    BY <1>4 DEF SettleJob
  <2>3. QED
    BY <1>2, <1>3, <2>1, <2>2
<1>5. ASSUME NEW w \in Workers, AddDeadLetter(w) \/ Crash(w) PROVE Goal
  BY <1>2, <1>3, <1>5 DEF AddDeadLetter, Crash
<1>6. ASSUME NEW w \in Workers, CallFails(w) PROVE Goal
  <2>1. CASE Becomes(w, Idle)
    BY <1>2, <1>3, <2>1
  <2>2. CASE worker[w].pc \in {"lock", "release"} /\ Fails(w, "settle")
    <3>1. [worker[w] EXCEPT !.pc = "settle", !.ok = FALSE].pc = "settle"
      BY DEF Inv, TypeOK, Run
    <3>2. QED
      BY <1>2, <2>2, <3>1 DEF Fails, Locked
  <2>3. CASE worker[w].pc \in Locked \ {"release"} /\ Fails(w, "release")
    <3>1. CASE v # w
      BY <1>0, <2>3, <3>1 DEF Fails, Becomes, Inv, TypeOK
    <3>2. CASE v = w
      BY <2>3, <3>2 DEF Fails, Becomes, Inv, TypeOK, Run, InCritical
    <3>3. QED
      BY <3>1, <3>2
  <2>4. QED
    BY <1>6, <2>1, <2>2, <2>3 DEF CallFails
<1>7. ASSUME NEW w \in Workers, NEW i \in Job, StartJob(w, i) PROVE Goal
  <2>1. [Idle EXCEPT !.pc = "lock", !.job = i].pc = "lock"
    BY DEF Idle
  <2>2. QED
    BY <1>2, <1>7, <2>1 DEF StartJob, Locked
<1>8. ASSUME UNCHANGED worker PROVE Goal
  BY <1>0, <1>8
<1>9. ASSUME NEW r \in Requests, Handler(r) \/ HandlerFails(r) PROVE Goal
  BY <1>8, <1>9 DEF Handler, CheckDuplicate, CreateInboundEvent, AddIngestionJob, HandlerFails
<1>10. ASSUME NEW i \in Job, StalledCheck(i) PROVE Goal
  BY <1>8, <1>10 DEF StalledCheck
<1>11. ASSUME NEW i \in Job, NEW id \in ReplayIds, ReplayDeadLetter(i, id) PROVE Goal
  BY <1>8, <1>11 DEF ReplayDeadLetter
<1>12. ASSUME Outside PROVE Goal
  BY <1>8, <1>12, OutsideInv
<1>13. QED
  BY <1>1, <1>4, <1>5, <1>6, <1>7, <1>9, <1>10, <1>11, <1>12, NextCases
\* As long as the lock is not touched, mutual exclusion carries over.
LEMMA LockUntouched ==
  ASSUME LockInv, Next, UNCHANGED lock, \A w \in Workers : ~AcquireLock(w)
  PROVE  HoldersAreLocked' /\ OneRunPerCustomer'
<1>1. \A w \in Workers : InCritical(w)' => InCritical(w) /\ LockKey(DataOf(w))' = LockKey(DataOf(w))
  <2>1. SUFFICES ASSUME NEW w \in Workers, InCritical(w)'
                 PROVE  InCritical(w) /\ LockKey(DataOf(w))' = LockKey(DataOf(w))
    OBVIOUS
  <2>2. InCritical(w) /\ worker'[w].job = worker[w].job
    BY <2>1, NobodyEnters DEF LockInv
  <2>3. worker[w].job \in Job /\ jobs[worker[w].job].state = "active"
    BY <2>2, CriticalIsActive DEF LockInv
  <2>4. jobs'[worker[w].job].data = jobs[worker[w].job].data
    BY <2>3, DataIsStable DEF LockInv
  <2>5. QED
    BY <2>2, <2>4 DEF LockKey, DataOf
<1>2. QED
  BY <1>1 DEF LockInv, HoldersAreLocked, OneRunPerCustomer

\* A step of worker w leaves the lock keys of the runs it does not touch alone.
LEMMA KeysStay ==
  ASSUME Inv, NEW w \in Workers, RunGoesOn(w), NEW v \in Workers
  PROVE  /\ LockKey(DataOf(v))' = LockKey(DataOf(v))
         /\ v # w => (InCritical(v)' <=> InCritical(v))
BY DEF RunGoesOn, LockKey, DataOf, InCritical

\* The invariant of the locks is inductive.
LEMMA LockNext ==
  ASSUME LockOutlivesJob, LockInv, Next
  PROVE  LockInv'
<1>1. Inv'
  BY NextInv DEF LockInv
<1>2. ASSUME NEW w \in Workers, AcquireLock(w) PROVE HoldersAreLocked' /\ OneRunPerCustomer'
  <2>1. RunGoesOn(w)
    BY <1>2, AcquireLockInv DEF LockInv
  <2>2. CASE LockKey(DataOf(w)) \notin lock
    <3>1. lock' = lock \cup {LockKey(DataOf(w))}
      BY <1>2, <2>2 DEF AcquireLock
    <3>2. \A v \in Workers : InCritical(v) => LockKey(DataOf(v)) # LockKey(DataOf(w))
      BY <2>2 DEF LockInv, HoldersAreLocked
    <3>3. QED
      BY <2>1, <3>1, <3>2, KeysStay DEF LockInv, HoldersAreLocked, OneRunPerCustomer
  <2>3. CASE LockKey(DataOf(w)) \in lock
    <3>1. Fails(w, "settle") /\ UNCHANGED lock
      BY <1>2, <2>3 DEF AcquireLock
    <3>2. worker'[w].pc = "settle"
      BY <3>1 DEF Fails, Becomes, LockInv, Inv, TypeOK, Run
    <3>3. ~InCritical(w)'
      BY <3>2 DEF InCritical, Locked
    <3>4. QED
      BY <2>1, <3>1, <3>3, KeysStay DEF LockInv, HoldersAreLocked, OneRunPerCustomer
  <2>4. QED
    BY <2>2, <2>3
<1>3. ASSUME NEW w \in Workers, ReleaseLock(w) PROVE HoldersAreLocked' /\ OneRunPerCustomer'
  <2>1. RunGoesOn(w)
    BY <1>3, ReleaseLockInv DEF LockInv
  <2>2. lock' = lock \ {LockKey(DataOf(w))} /\ InCritical(w)
    BY <1>3 DEF ReleaseLock, At, InCritical, Locked
  <2>3. ~InCritical(w)'
    BY <1>3 DEF ReleaseLock, Goto, Becomes, InCritical, Locked, LockInv, Inv, TypeOK, Run
  <2>4. QED
    BY <2>1, <2>2, <2>3, KeysStay DEF LockInv, HoldersAreLocked, OneRunPerCustomer
<1>4. ASSUME NEW k \in Clients \X ExternalIds, LockExpires(k)
      PROVE  HoldersAreLocked' /\ OneRunPerCustomer'
  <2>1. UNCHANGED <<worker, jobs>> /\ lock' = lock \ {k}
    BY <1>4 DEF LockExpires
  <2>2. \A w \in Workers : InCritical(w) => LockKey(DataOf(w)) # k
    BY <1>4 DEF LockExpires
  <2>3. QED
    BY <2>1, <2>2 DEF LockInv, HoldersAreLocked, OneRunPerCustomer, InCritical, LockKey, DataOf
<1>5. CASE UNCHANGED lock /\ \A w \in Workers : ~AcquireLock(w)
  BY <1>1, <1>5, LockUntouched DEF LockInv
<1>6. \/ \E w \in Workers : AcquireLock(w) \/ ReleaseLock(w)
      \/ \E k \in Clients \X ExternalIds : LockExpires(k)
      \/ UNCHANGED lock
  BY NextCases
  DEF Handler, CheckDuplicate, CreateInboundEvent, AddIngestionJob, HandlerFails,
      RunStep, FindIdentity, CreateEndUser, CreateIdentity, FindConversation,
      CreateConversation, StoreMessage, StoreParts, MarkNormalized, AddAgentJob,
      SettleJob, AddDeadLetter, CallFails, Crash, StartJob, StalledCheck,
      ReplayDeadLetter, Outside, StoreDeadLetter, RemoveDeadLetter, ReplayFails,
      UpdateStatus
<1>7. QED
  BY <1>1, <1>2, <1>3, <1>4, <1>5, <1>6 DEF LockInv

\* If no run outlives the 30 seconds of its lock, the lock of a customer gives
\* mutual exclusion: for any number of workers, crashes and failed calls.
THEOREM MutualExclusion == LockOutlivesJob /\ Spec => []OneRunPerCustomer
<1> SUFFICES ASSUME LockOutlivesJob PROVE Spec => []OneRunPerCustomer
  OBVIOUS
<1>1. Init => LockInv
  BY InitInv DEF LockInv, HoldersAreLocked, OneRunPerCustomer, Init, InCritical, Locked, Idle
<1>2. LockInv /\ [Next]_vars => LockInv'
  <2>1. ASSUME LockInv, UNCHANGED vars PROVE LockInv'
    <3>1. Inv'
      BY <2>1, NextInv DEF LockInv
    <3>2. QED
      BY <2>1, <3>1
      DEF vars, LockInv, HoldersAreLocked, OneRunPerCustomer, InCritical, LockKey, DataOf
  <2>2. QED
    BY <2>1, LockNext
<1>3. LockInv => OneRunPerCustomer
  BY DEF LockInv
<1>4. QED
  BY <1>1, <1>2, <1>3, PTL DEF Spec

-----------------------------------------------------------------------------
(* Customers and their conversations.                                      *)

\* Where a run relies on what it read or created about its customer.
Resolving == {"link", "conversation", "open"}

\* An end user has one identity at most.
IdentitiesAreDistinct ==
  /\ \A k \in Clients \X ExternalIds : identity[k] <= endUsers
  /\ \A k, l \in Clients \X ExternalIds : identity[k] # 0 /\ identity[k] = identity[l] => k = l

\* An end user about to be linked belongs to that run alone.
LinksAreFresh ==
  /\ \A w \in Workers : At(w, "link") =>
       /\ worker[w].endUser \in 1..endUsers
       /\ \A k \in Clients \X ExternalIds : identity[k] # worker[w].endUser
  /\ \A v, w \in Workers :
       At(v, "link") /\ At(w, "link") /\ worker[v].endUser = worker[w].endUser => v = w

\* A run looks for a conversation of the customer who wrote.
CustomersAreKnown ==
  \A w \in Workers : worker[w].pc \in {"conversation", "open"} =>
    /\ worker[w].endUser # 0
    /\ identity[LockKey(DataOf(w))] = worker[w].endUser

\* What a run is about to create is still missing.
StillMissing ==
  \A w \in Workers : At(w, "open") =>
    \A c \in DOMAIN conversations :
      IsOpen(c) /\ conversations[c].endUser = worker[w].endUser
      => conversations[c].key # DataOf(w).convKey

\* The end user of a conversation has an identity at its client.
OwnersAreLinked ==
  \A c \in DOMAIN conversations :
    /\ conversations[c].endUser # 0
    /\ \E u \in ExternalIds :
         identity[<<conversations[c].client, u>>] = conversations[c].endUser

CustomerInv ==
  /\ LockInv
  /\ IdentitiesAreDistinct /\ LinksAreFresh /\ CustomersAreKnown
  /\ StillMissing /\ OwnersAreLinked /\ OneOpenConversation

\* A run reads the same data as long as it stays with its job.
LEMMA DataStays ==
  ASSUME Inv, Next, NEW w \in Workers, InCritical(w), worker'[w].job = worker[w].job
  PROVE  DataOf(w)' = DataOf(w) /\ LockKey(DataOf(w))' = LockKey(DataOf(w))
<1>1. worker[w].job \in Job /\ jobs[worker[w].job].state = "active"
  BY CriticalIsActive
<1>2. jobs'[worker[w].job].data = jobs[worker[w].job].data
  BY <1>1, DataIsStable
<1>3. QED
  BY <1>2 DEF DataOf, LockKey

\* Steps that write none of the rows of customers, and after which nobody has
\* newly come to rely on them.
LEMMA QuietSteps ==
  ASSUME CustomerInv, LockInv', Next, UNCHANGED <<identity, endUsers, conversations>>,
         \A v \in Workers : worker'[v].pc \in Resolving => worker'[v] = worker[v]
  PROVE  CustomerInv'
<1>1. ASSUME NEW v \in Workers, worker'[v].pc \in Resolving
      PROVE  /\ worker'[v] = worker[v]
             /\ DataOf(v)' = DataOf(v) /\ LockKey(DataOf(v))' = LockKey(DataOf(v))
  <2>1. worker'[v] = worker[v] /\ InCritical(v)
    BY <1>1 DEF Resolving, InCritical, Locked
  <2>2. QED
    BY <2>1, DataStays DEF CustomerInv, LockInv
<1>2. IdentitiesAreDistinct'
  BY DEF CustomerInv, IdentitiesAreDistinct
<1>3. LinksAreFresh'
  BY <1>1 DEF CustomerInv, LinksAreFresh, At, Resolving
<1>4. CustomersAreKnown'
  BY <1>1 DEF CustomerInv, CustomersAreKnown, Resolving
<1>5. StillMissing'
  BY <1>1 DEF CustomerInv, StillMissing, At, Resolving, IsOpen
<1>6. OwnersAreLinked' /\ OneOpenConversation'
  BY DEF CustomerInv, OwnersAreLinked, OneOpenConversation, IsOpen
<1>7. QED
  BY <1>2, <1>3, <1>4, <1>5, <1>6 DEF CustomerInv

\* A step of one worker inside the critical section: its own customer is not
\* the customer of any other worker there, and the others read what they read.
LEMMA OthersStay ==
  ASSUME CustomerInv, Next, NEW w \in Workers, RunStep(w), InCritical(w)
  PROVE  /\ Inv /\ Inv' /\ DataOf(w)' = DataOf(w) /\ DataOf(w) \in Data
         /\ LockKey(DataOf(w))' = LockKey(DataOf(w))
         /\ LockKey(DataOf(w)) \in Clients \X ExternalIds
         /\ worker[w] \in Run /\ worker' \in [Workers -> Run]
         /\ \A v \in Workers \ {w} :
              /\ worker'[v] = worker[v]
              /\ InCritical(v) =>
                   /\ DataOf(v)' = DataOf(v) /\ LockKey(DataOf(v))' = LockKey(DataOf(v))
                   /\ LockKey(DataOf(v)) \in Clients \X ExternalIds
                   /\ LockKey(DataOf(v)) # LockKey(DataOf(w))
<1>1. Inv /\ OneRunPerCustomer
  BY DEF CustomerInv, LockInv
<1>2. Inv' /\ RunGoesOn(w)
  BY <1>1, RunStepInv
<1>3. DataOf(w)' = DataOf(w) /\ LockKey(DataOf(w))' = LockKey(DataOf(w))
  BY <1>1, <1>2, DataStays DEF RunGoesOn
<1>4. ASSUME NEW v \in Workers, InCritical(v)
      PROVE  DataOf(v) \in Data /\ worker[v] \in Run /\ LockKey(DataOf(v)) \in Clients \X ExternalIds
  BY <1>1, <1>4, CriticalIsActive, DataTypeOfRun
<1>5. ASSUME NEW v \in Workers \ {w}
      PROVE  /\ worker'[v] = worker[v]
             /\ InCritical(v) =>
                  /\ DataOf(v)' = DataOf(v) /\ LockKey(DataOf(v))' = LockKey(DataOf(v))
                  /\ LockKey(DataOf(v)) \in Clients \X ExternalIds
                  /\ LockKey(DataOf(v)) # LockKey(DataOf(w))
  <2>1. worker'[v] = worker[v]
    BY <1>2 DEF RunGoesOn
  <2>2. ASSUME InCritical(v)
        PROVE  /\ DataOf(v)' = DataOf(v) /\ LockKey(DataOf(v))' = LockKey(DataOf(v))
               /\ LockKey(DataOf(v)) \in Clients \X ExternalIds
    BY <1>1, <1>4, <2>1, <2>2, DataStays
  <2>3. InCritical(v) => LockKey(DataOf(v)) # LockKey(DataOf(w))
    BY <1>1 DEF OneRunPerCustomer
  <2>4. QED
    BY <2>1, <2>2, <2>3
<1>6. worker' \in [Workers -> Run]
  BY <1>2 DEF RunGoesOn
<1>7. QED
  BY <1>1, <1>2, <1>3, <1>4, <1>5, <1>6

\* Looking up the identity: what is found belongs to the customer.
LEMMA FindIdentityKeeps ==
  ASSUME CustomerInv, LockInv', Next, NEW w \in Workers, FindIdentity(w)
  PROVE  CustomerInv'
<1> DEFINE found == identity[LockKey(DataOf(w))]
<1>1. RunStep(w) /\ InCritical(w)
  BY DEF FindIdentity, RunStep, At, InCritical, Locked
<1>2. UNCHANGED <<identity, endUsers, conversations>>
  BY DEF FindIdentity, rows
<1>3. /\ worker'[w].endUser = found
      /\ worker'[w].pc = IF found = 0 THEN "endUser" ELSE "conversation"
  BY <1>1, OthersStay DEF FindIdentity, Becomes, Inv, TypeOK, Run
<1> HIDE DEF found
<1>4. CASE found = 0
  <2>1. worker'[w].pc \notin Resolving
    BY <1>3, <1>4 DEF Resolving
  <2>2. QED
    BY <1>1, <1>2, <2>1, OthersStay, QuietSteps
<1>5. CASE found # 0
  <2>1. worker'[w].pc = "conversation"
    BY <1>3, <1>5
  <2>2. IdentitiesAreDistinct' /\ OwnersAreLinked' /\ OneOpenConversation'
    BY <1>2 DEF CustomerInv, IdentitiesAreDistinct, OwnersAreLinked, OneOpenConversation, IsOpen
  <2>3. LinksAreFresh'
    BY <1>1, <1>2, <2>1, OthersStay DEF CustomerInv, LinksAreFresh, At
  <2>4. CustomersAreKnown'
    <3>1. ASSUME NEW v \in Workers \ {w}, worker'[v].pc \in {"conversation", "open"}
          PROVE  worker'[v].endUser # 0 /\ identity'[LockKey(DataOf(v))'] = worker'[v].endUser
      <4>1. worker'[v] = worker[v]
        BY <1>1, OthersStay
      <4>2. InCritical(v)
        BY <3>1, <4>1 DEF InCritical, Locked
      <4>3. LockKey(DataOf(v))' = LockKey(DataOf(v))
        BY <1>1, <4>2, OthersStay
      <4>4. QED
        BY <1>2, <3>1, <4>1, <4>3 DEF CustomerInv, CustomersAreKnown
    <3>2. worker'[w].endUser # 0 /\ identity'[LockKey(DataOf(w))'] = worker'[w].endUser
      <4>1. LockKey(DataOf(w))' = LockKey(DataOf(w))
        BY <1>1, OthersStay
      <4>2. QED
        BY <1>2, <1>3, <1>5, <4>1 DEF found
    <3>3. QED
      BY <3>1, <3>2 DEF CustomersAreKnown
  <2>5. StillMissing'
    <3>1. ASSUME NEW v \in Workers, worker'[v].pc = "open"
          PROVE  worker'[v] = worker[v] /\ DataOf(v)' = DataOf(v)
      <4>1. v # w /\ worker'[v] = worker[v]
        BY <1>1, <2>1, <3>1, OthersStay
      <4>2. InCritical(v)
        BY <3>1, <4>1 DEF InCritical, Locked
      <4>3. QED
        BY <1>1, <4>1, <4>2, OthersStay
    <3>2. QED
      BY <1>2, <3>1 DEF CustomerInv, StillMissing, At, IsOpen
  <2>6. QED
    BY <2>2, <2>3, <2>4, <2>5 DEF CustomerInv
<1>6. QED
  BY <1>4, <1>5

\* A new end user belongs to nobody yet.
LEMMA CreateEndUserKeeps ==
  ASSUME CustomerInv, LockInv', Next, NEW w \in Workers, CreateEndUser(w)
  PROVE  CustomerInv'
<1>1. RunStep(w) /\ InCritical(w)
  BY DEF CreateEndUser, RunStep, At, InCritical, Locked
<1>2. UNCHANGED <<identity, conversations>> /\ endUsers' = endUsers + 1 /\ endUsers \in Nat
  BY DEF CreateEndUser, CustomerInv, LockInv, Inv, TypeOK
<1>3. worker'[w].endUser = endUsers + 1 /\ worker'[w].pc = "link"
  BY <1>1, OthersStay DEF CreateEndUser, Becomes, Inv, TypeOK, Run
<1>4. identity \in [Clients \X ExternalIds -> Nat]
  BY DEF CustomerInv, LockInv, Inv, TypeOK
<1>5. ASSUME NEW v \in Workers \ {w}, worker'[v].pc \in Resolving
      PROVE  /\ worker'[v] = worker[v]
             /\ DataOf(v)' = DataOf(v) /\ LockKey(DataOf(v))' = LockKey(DataOf(v))
  <2>1. worker'[v] = worker[v]
    BY <1>1, OthersStay
  <2>2. InCritical(v)
    BY <1>5, <2>1 DEF InCritical, Locked, Resolving
  <2>3. QED
    BY <1>1, <2>1, <2>2, OthersStay
<1>6. IdentitiesAreDistinct'
  BY <1>2, <1>4 DEF CustomerInv, IdentitiesAreDistinct
<1>7. LinksAreFresh'
  <2>1. \A k \in Clients \X ExternalIds : identity[k] # endUsers + 1
    BY <1>2, <1>4 DEF CustomerInv, IdentitiesAreDistinct
  <2>2. ASSUME NEW v \in Workers \ {w}, worker'[v].pc = "link"
        PROVE  worker'[v] = worker[v] /\ worker[v].pc = "link" /\ worker[v].endUser \in 1..endUsers
    BY <1>5, <2>2 DEF Resolving, CustomerInv, LinksAreFresh, At
  <2>3. QED
    BY <1>2, <1>3, <2>1, <2>2 DEF CustomerInv, LinksAreFresh, At
<1>8. CustomersAreKnown'
  BY <1>2, <1>3, <1>5 DEF CustomerInv, CustomersAreKnown, Resolving
<1>9. StillMissing'
  BY <1>2, <1>3, <1>5 DEF CustomerInv, StillMissing, At, Resolving, IsOpen
<1>10. OwnersAreLinked' /\ OneOpenConversation'
  BY <1>2 DEF CustomerInv, OwnersAreLinked, OneOpenConversation, IsOpen
<1>11. QED
  BY <1>6, <1>7, <1>8, <1>9, <1>10 DEF CustomerInv

\* Linking it makes it the customer's, unless there is an identity already.
LEMMA CreateIdentityKeeps ==
  ASSUME CustomerInv, LockInv', Next, NEW w \in Workers, CreateIdentity(w)
  PROVE  CustomerInv'
<1>1. RunStep(w) /\ InCritical(w) /\ worker[w].pc = "link"
  BY DEF CreateIdentity, RunStep, At, InCritical, Locked
<1>2. UNCHANGED <<endUsers, conversations>> /\ endUsers \in Nat
  BY DEF CreateIdentity, CustomerInv, LockInv, Inv, TypeOK
<1>3. identity \in [Clients \X ExternalIds -> Nat]
  BY DEF CustomerInv, LockInv, Inv, TypeOK
<1>4. ASSUME NEW v \in Workers \ {w}, worker'[v].pc \in Resolving
      PROVE  /\ worker'[v] = worker[v]
             /\ DataOf(v)' = DataOf(v) /\ LockKey(DataOf(v))' = LockKey(DataOf(v))
             /\ LockKey(DataOf(v)) \in Clients \X ExternalIds
  <2>1. worker'[v] = worker[v]
    BY <1>1, OthersStay
  <2>2. InCritical(v)
    BY <1>4, <2>1 DEF InCritical, Locked, Resolving
  <2>3. QED
    BY <1>1, <2>1, <2>2, OthersStay
<1>5. CASE identity[LockKey(DataOf(w))] # 0
  <2>1. UNCHANGED identity /\ Fails(w, "release")
    BY <1>5 DEF CreateIdentity
  <2>2. worker'[w].pc = "release"
    BY <1>1, <2>1, OthersStay DEF Fails, Becomes, Inv, TypeOK, Run
  <2>3. QED
    BY <1>1, <1>2, <2>1, <2>2, OthersStay, QuietSteps DEF Resolving
<1>6. CASE identity[LockKey(DataOf(w))] = 0
  <2> DEFINE k == LockKey(DataOf(w))
             e == worker[w].endUser
  <2>1. k \in Clients \X ExternalIds /\ identity' = [identity EXCEPT ![k] = e]
    BY <1>1, <1>6, OthersStay DEF CreateIdentity
  <2>2. worker'[w].pc = "conversation" /\ worker'[w].endUser = e /\ LockKey(DataOf(w))' = k
    <3>1. Goto(w, "conversation")
      BY <1>6 DEF CreateIdentity
    <3>2. QED
      BY <1>1, <3>1, OthersStay DEF Goto, Becomes, Inv, TypeOK, Run
  <2>3. e \in 1..endUsers /\ \A l \in Clients \X ExternalIds : identity[l] # e
    BY <1>1 DEF CustomerInv, LinksAreFresh, At
  <2>4. identity[k] = 0
    BY <1>6
  <2> HIDE DEF k, e
  <2>5. identity'[k] = e /\ \A l \in Clients \X ExternalIds : l # k => identity'[l] = identity[l]
    BY <1>3, <2>1
  <2>6. IdentitiesAreDistinct'
    BY <1>2, <2>1, <2>3, <2>5 DEF CustomerInv, IdentitiesAreDistinct
  <2>7. LinksAreFresh'
    <3>1. ASSUME NEW v \in Workers, worker'[v].pc = "link"
          PROVE  /\ worker'[v] = worker[v] /\ worker[v].pc = "link" /\ worker[v].endUser # e
      BY <1>1, <1>4, <2>2, <3>1 DEF Resolving, CustomerInv, LinksAreFresh, At, e
    <3>2. QED
      BY <1>2, <2>5, <3>1 DEF CustomerInv, LinksAreFresh, At
  <2>8. CustomersAreKnown'
    <3>1. ASSUME NEW v \in Workers \ {w}, worker'[v].pc \in {"conversation", "open"}
          PROVE  worker'[v].endUser # 0 /\ identity'[LockKey(DataOf(v))'] = worker'[v].endUser
      <4>1. /\ worker'[v] = worker[v] /\ LockKey(DataOf(v))' = LockKey(DataOf(v))
            /\ LockKey(DataOf(v)) \in Clients \X ExternalIds
        BY <1>4, <3>1 DEF Resolving
      <4>2. worker[v].endUser # 0 /\ identity[LockKey(DataOf(v))] = worker[v].endUser
        BY <3>1, <4>1 DEF CustomerInv, CustomersAreKnown
      <4>3. QED
        BY <2>4, <2>5, <4>1, <4>2
    <3>2. worker'[w].endUser # 0 /\ identity'[LockKey(DataOf(w))'] = worker'[w].endUser
      BY <2>2, <2>3, <2>5
    <3>3. QED
      BY <3>1, <3>2 DEF CustomersAreKnown
  <2>9. StillMissing'
    <3>1. ASSUME NEW v \in Workers, worker'[v].pc = "open"
          PROVE  worker'[v] = worker[v] /\ DataOf(v)' = DataOf(v)
      BY <1>4, <2>2, <3>1 DEF Resolving
    <3>2. QED
      BY <1>2, <3>1 DEF CustomerInv, StillMissing, At, IsOpen
  <2>10. OwnersAreLinked'
    <3>1. ASSUME NEW c \in DOMAIN conversations
          PROVE  /\ conversations[c].endUser # 0
                 /\ \E u \in ExternalIds :
                      identity'[<<conversations[c].client, u>>] = conversations[c].endUser
      <4>1. PICK u \in ExternalIds :
              identity[<<conversations[c].client, u>>] = conversations[c].endUser
        BY DEF CustomerInv, OwnersAreLinked
      <4>2. conversations[c].endUser # 0 /\ conversations[c].client \in Clients
        <5>1. conversations[c] \in Conversation
          BY DEF CustomerInv, LockInv, Inv, TypeOK
        <5>2. QED
          BY <5>1 DEF Conversation, CustomerInv, OwnersAreLinked
      <4>3. identity'[<<conversations[c].client, u>>] = conversations[c].endUser
        BY <2>4, <2>5, <4>1, <4>2
      <4>4. QED
        BY <4>2, <4>3
    <3>2. QED
      BY <1>2, <3>1 DEF OwnersAreLinked
  <2>11. OneOpenConversation'
    BY <1>2 DEF CustomerInv, OneOpenConversation, IsOpen
  <2>12. QED
    BY <2>6, <2>7, <2>8, <2>9, <2>10, <2>11 DEF CustomerInv
<1>7. QED
  BY <1>5, <1>6

\* An empty answer means that this customer has no open conversation under the
\* key: end users belong to one client, and the lock keeps others out.
LEMMA FindConversationKeeps ==
  ASSUME CustomerInv, LockInv', Next, NEW w \in Workers, FindConversation(w)
  PROVE  CustomerInv'
<1>1. RunStep(w) /\ InCritical(w) /\ worker[w].pc = "conversation"
  BY DEF FindConversation, RunStep, At, InCritical, Locked
<1>2. UNCHANGED <<identity, endUsers, conversations>>
  BY DEF FindConversation, rows
<1>3. CASE \E c \in Reusable(DataOf(w)) :
             Becomes(w, [worker[w] EXCEPT !.conv = c, !.pc = "message"])
  <2>1. worker'[w].pc = "message"
    BY <1>1, <1>3, OthersStay DEF Becomes, Inv, TypeOK, Run
  <2>2. QED
    BY <1>1, <1>2, <2>1, OthersStay, QuietSteps DEF Resolving
<1>4. CASE Reusable(DataOf(w)) = {} /\ Goto(w, "open")
  <2>1. worker'[w].pc = "open" /\ worker'[w].endUser = worker[w].endUser
    BY <1>1, <1>4, OthersStay DEF Goto, Becomes, Inv, TypeOK, Run
  <2>2. IdentitiesAreDistinct' /\ OwnersAreLinked' /\ OneOpenConversation'
    BY <1>2 DEF CustomerInv, IdentitiesAreDistinct, OwnersAreLinked, OneOpenConversation, IsOpen
  <2>3. ASSUME NEW v \in Workers \ {w}, worker'[v].pc \in Resolving
        PROVE  /\ worker'[v] = worker[v]
               /\ DataOf(v)' = DataOf(v) /\ LockKey(DataOf(v))' = LockKey(DataOf(v))
    <3>1. worker'[v] = worker[v]
      BY <1>1, OthersStay
    <3>2. InCritical(v)
      BY <2>3, <3>1 DEF InCritical, Locked, Resolving
    <3>3. QED
      BY <1>1, <3>1, <3>2, OthersStay
  <2>4. /\ DataOf(w)' = DataOf(w) /\ LockKey(DataOf(w))' = LockKey(DataOf(w))
        /\ LockKey(DataOf(w)) \in Clients \X ExternalIds /\ DataOf(w) \in Data
    BY <1>1, OthersStay
  <2>5. worker[w].endUser # 0 /\ identity[LockKey(DataOf(w))] = worker[w].endUser
    BY <1>1 DEF CustomerInv, CustomersAreKnown
  <2>6. LinksAreFresh'
    BY <1>2, <2>1, <2>3 DEF CustomerInv, LinksAreFresh, At, Resolving
  <2>7. CustomersAreKnown'
    BY <1>2, <2>1, <2>3, <2>4, <2>5 DEF CustomerInv, CustomersAreKnown, Resolving
  <2>8. ASSUME NEW c \in DOMAIN conversations, IsOpen(c),
               conversations[c].endUser = worker[w].endUser
        PROVE  conversations[c].key # DataOf(w).convKey
    <3> DEFINE d == DataOf(w)
    <3>1. PICK u \in ExternalIds :
            identity[<<conversations[c].client, u>>] = conversations[c].endUser
      BY DEF CustomerInv, OwnersAreLinked
    <3>2. conversations[c] \in Conversation
      BY DEF CustomerInv, LockInv, Inv, TypeOK
    <3>3. <<conversations[c].client, u>> \in Clients \X ExternalIds
      BY <3>2 DEF Conversation
    <3>4. <<conversations[c].client, u>> = LockKey(d)
      BY <2>4, <2>5, <2>8, <3>1, <3>3 DEF CustomerInv, IdentitiesAreDistinct
    <3>5. conversations[c].client = d.client /\ u = d.user
      BY <3>4 DEF LockKey
    <3>6. c \notin Reusable(d)
      BY <1>4
    <3>7. CASE d.convKey = None
      <4>1. d.client \in Clients /\ identity[<<d.client, d.user>>] = conversations[c].endUser
        BY <2>4, <3>1, <3>5 DEF Data
      <4>2. c \in Reusable(d)
        BY <2>8, <3>5, <3>7, <4>1 DEF Reusable
      <4>3. QED
        BY <3>6, <4>2
    <3>8. CASE d.convKey # None
      BY <2>8, <3>5, <3>6, <3>8 DEF Reusable
    <3>9. QED
      BY <3>7, <3>8
  <2>9. StillMissing'
    <3>1. ASSUME NEW v \in Workers, worker'[v].pc = "open", NEW c \in DOMAIN conversations,
                 IsOpen(c), conversations[c].endUser = worker'[v].endUser
          PROVE  conversations[c].key # DataOf(v)'.convKey
      <4>1. CASE v = w
        BY <2>1, <2>4, <2>8, <3>1, <4>1
      <4>2. CASE v # w
        BY <2>3, <3>1, <4>2 DEF Resolving, CustomerInv, StillMissing, At
      <4>3. QED
        BY <4>1, <4>2
    <3>2. QED
      BY <1>2, <3>1 DEF StillMissing, At, IsOpen
  <2>10. QED
    BY <2>2, <2>6, <2>7, <2>9 DEF CustomerInv
<1>5. QED
  BY <1>3, <1>4 DEF FindConversation

\* A conversation that was missing is created for a customer nobody else
\* works for.
LEMMA CreateConversationKeeps ==
  ASSUME CustomerInv, LockInv', Next, NEW w \in Workers, CreateConversation(w)
  PROVE  CustomerInv'
<1> DEFINE d == DataOf(w)
           e == worker[w].endUser
           n == Len(conversations) + 1
           new == [client |-> d.client, endUser |-> e, key |-> d.convKey, status |-> "active"]
<1>1. RunStep(w) /\ InCritical(w) /\ worker[w].pc = "open"
  BY DEF CreateConversation, RunStep, At, InCritical, Locked
<1>2. UNCHANGED <<identity, endUsers>> /\ conversations' = Append(conversations, new)
  BY DEF CreateConversation
<1>3. worker'[w].pc = "message"
  <2>1. Becomes(w, [worker[w] EXCEPT !.conv = Len(conversations) + 1, !.pc = "message"])
    BY DEF CreateConversation
  <2>2. QED
    BY <1>1, <2>1, OthersStay DEF Becomes, Inv, TypeOK, Run
<1>4. ASSUME NEW v \in Workers, worker'[v].pc \in Resolving
      PROVE  /\ v # w /\ worker'[v] = worker[v] /\ InCritical(v)
             /\ DataOf(v)' = DataOf(v) /\ LockKey(DataOf(v))' = LockKey(DataOf(v))
             /\ LockKey(DataOf(v)) # LockKey(DataOf(w))
  <2>1. v # w /\ worker'[v] = worker[v]
    BY <1>1, <1>3, <1>4, OthersStay DEF Resolving
  <2>2. InCritical(v)
    BY <1>4, <2>1 DEF InCritical, Locked, Resolving
  <2>3. QED
    BY <1>1, <2>1, <2>2, OthersStay
<1>5. /\ e # 0 /\ identity[LockKey(d)] = e /\ d \in Data
      /\ LockKey(d) \in Clients \X ExternalIds /\ LockKey(d) = <<d.client, d.user>>
  BY <1>1, OthersStay DEF CustomerInv, CustomersAreKnown, LockKey
<1>6. \A c \in DOMAIN conversations :
        IsOpen(c) /\ conversations[c].endUser = e => conversations[c].key # d.convKey
  BY <1>1 DEF CustomerInv, StillMissing, At
<1>7. conversations \in Seq(Conversation)
  BY DEF CustomerInv, LockInv, Inv, TypeOK
<1>8. ASSUME NEW v \in Workers, v # w, worker[v].pc = "open", LockKey(DataOf(v)) # LockKey(d)
      PROVE  worker[v].endUser # e
  <2>1. worker[v].endUser # 0 /\ identity[LockKey(DataOf(v))] = worker[v].endUser
    BY <1>8 DEF CustomerInv, CustomersAreKnown
  <2>2. LockKey(DataOf(v)) \in Clients \X ExternalIds
    BY <1>1, <1>8, OthersStay DEF InCritical, Locked
  <2>3. QED
    BY <1>5, <1>8, <2>1, <2>2 DEF CustomerInv, IdentitiesAreDistinct
<1> HIDE DEF d, e
<1>9. /\ n \notin DOMAIN conversations /\ DOMAIN conversations' = DOMAIN conversations \cup {n}
      /\ conversations'[n] = new
      /\ \A c \in DOMAIN conversations : conversations'[c] = conversations[c]
  <2>1. Len(conversations) \in Nat /\ DOMAIN conversations = 1..Len(conversations)
    BY <1>7
  <2>2. DOMAIN conversations' = 1..n
    BY <1>2, <1>7
  <2>3. conversations'[n] = new /\ \A c \in 1..Len(conversations) : conversations'[c] = conversations[c]
    BY <1>2, <1>7
  <2>4. QED
    BY <2>1, <2>2, <2>3
<1> HIDE DEF n
<1>10. IdentitiesAreDistinct'
  BY <1>2 DEF CustomerInv, IdentitiesAreDistinct
<1>11. LinksAreFresh'
  BY <1>2, <1>4 DEF CustomerInv, LinksAreFresh, At, Resolving
<1>12. CustomersAreKnown'
  BY <1>2, <1>4 DEF CustomerInv, CustomersAreKnown, Resolving
<1>13. StillMissing'
  <2>1. ASSUME NEW v \in Workers, worker'[v].pc = "open", NEW c \in DOMAIN conversations',
               conversations'[c].status # "closed",
               conversations'[c].endUser = worker'[v].endUser
        PROVE  conversations'[c].key # DataOf(v)'.convKey
    <3>1. v # w /\ worker'[v] = worker[v] /\ DataOf(v)' = DataOf(v) /\ worker[v].endUser # e
      BY <1>4, <1>8, <2>1 DEF Resolving, d
    <3>2. c # n
      BY <1>9, <2>1, <3>1
    <3>3. c \in DOMAIN conversations /\ conversations'[c] = conversations[c]
      BY <1>9, <3>2
    <3>4. QED
      BY <2>1, <3>1, <3>3 DEF CustomerInv, StillMissing, At, IsOpen
  <2>2. QED
    BY <2>1 DEF StillMissing, At, IsOpen
<1>14. OwnersAreLinked'
  <2>1. new.endUser = e /\ new.client = d.client /\ d.user \in ExternalIds
    BY <1>5 DEF Data
  <2>2. \E u \in ExternalIds : identity[<<new.client, u>>] = new.endUser
    BY <1>5, <2>1
  <2>3. ASSUME NEW c \in DOMAIN conversations'
        PROVE  /\ conversations'[c].endUser # 0
               /\ \E u \in ExternalIds :
                    identity[<<conversations'[c].client, u>>] = conversations'[c].endUser
    <3>1. CASE c = n
      BY <1>5, <1>9, <2>1, <2>2, <3>1
    <3>2. CASE c \in DOMAIN conversations
      BY <1>9, <3>2 DEF CustomerInv, OwnersAreLinked
    <3>3. QED
      BY <1>9, <3>1, <3>2
  <2>4. QED
    BY <1>2, <2>3 DEF OwnersAreLinked
<1>15. OneOpenConversation'
  <2>1. ASSUME NEW c \in DOMAIN conversations, conversations[c].status # "closed",
               conversations[c].endUser = new.endUser
        PROVE  conversations[c].key # new.key
    BY <1>6, <2>1 DEF IsOpen
  <2>2. QED
    BY <1>9, <2>1 DEF CustomerInv, OneOpenConversation, IsOpen
<1>16. QED
  BY <1>10, <1>11, <1>12, <1>13, <1>14, <1>15 DEF CustomerInv

\* Operators who only close conversations do not bring a second one back.
LEMMA UpdateStatusKeeps ==
  ASSUME CustomerInv, LockInv', Next, StatusInputs \subseteq {"closed"},
         NEW b \in DOMAIN conversations, NEW s \in StatusInputs, UpdateStatus(b, s)
  PROVE  CustomerInv'
<1>1. UNCHANGED <<jobs, worker, identity, endUsers>> /\ s = "closed"
  BY DEF UpdateStatus
<1>2. conversations \in Seq(Conversation)
  BY DEF CustomerInv, LockInv, Inv, TypeOK
<1>3. /\ DOMAIN conversations' = DOMAIN conversations
      /\ \A c \in DOMAIN conversations :
           /\ conversations'[c].client = conversations[c].client
           /\ conversations'[c].endUser = conversations[c].endUser
           /\ conversations'[c].key = conversations[c].key
           /\ IsOpen(c)' => IsOpen(c)
  <2>1. conversations' = [conversations EXCEPT ![b].status = s] /\ conversations[b] \in Conversation
    BY <1>2 DEF UpdateStatus
  <2>2. DOMAIN conversations' = DOMAIN conversations
    BY <1>2, <2>1
  <2>3. /\ conversations'[b] = [conversations[b] EXCEPT !.status = s]
        /\ \A c \in DOMAIN conversations \ {b} : conversations'[c] = conversations[c]
    BY <1>2, <2>1
  <2>4. QED
    BY <1>1, <2>1, <2>2, <2>3 DEF Conversation, IsOpen
<1>4. IdentitiesAreDistinct' /\ LinksAreFresh' /\ CustomersAreKnown'
  BY <1>1 DEF CustomerInv, IdentitiesAreDistinct, LinksAreFresh, CustomersAreKnown, At,
              LockKey, DataOf
<1>5. StillMissing'
  <2>1. ASSUME NEW v \in Workers, NEW c \in DOMAIN conversations
        PROVE  /\ At(v, "open")' <=> At(v, "open")
               /\ DataOf(v)'.convKey = DataOf(v).convKey
               /\ worker'[v].endUser = worker[v].endUser
    BY <1>1 DEF At, DataOf
  <2>2. QED
    BY <1>3, <2>1 DEF CustomerInv, StillMissing
<1>6. OwnersAreLinked'
  <2>1. ASSUME NEW c \in DOMAIN conversations
        PROVE  /\ conversations'[c].endUser # 0
               /\ \E u \in ExternalIds :
                    identity[<<conversations'[c].client, u>>] = conversations'[c].endUser
    BY <1>3 DEF CustomerInv, OwnersAreLinked
  <2>2. QED
    BY <1>1, <1>3, <2>1 DEF OwnersAreLinked
<1>7. OneOpenConversation'
  BY <1>3 DEF CustomerInv, OneOpenConversation
<1>8. QED
  BY <1>4, <1>5, <1>6, <1>7 DEF CustomerInv

\* The other steps leave the rows of customers alone.
LEMMA OtherStepsAreQuiet ==
  ASSUME CustomerInv, Next,
         \A w \in Workers : ~FindIdentity(w) /\ ~CreateEndUser(w) /\ ~CreateIdentity(w)
                            /\ ~FindConversation(w) /\ ~CreateConversation(w),
         \A c \in DOMAIN conversations, s \in StatusInputs : ~UpdateStatus(c, s)
  PROVE  /\ UNCHANGED <<identity, endUsers, conversations>>
         /\ \A v \in Workers : worker'[v].pc \in Resolving => worker'[v] = worker[v]
<1> DEFINE Quiet == /\ UNCHANGED <<identity, endUsers, conversations>>
                    /\ \A v \in Workers : worker'[v].pc \in Resolving => worker'[v] = worker[v]
<1>1. worker \in [Workers -> Run]
  BY DEF CustomerInv, LockInv, Inv, TypeOK
<1>2. ASSUME UNCHANGED worker, UNCHANGED <<identity, endUsers, conversations>> PROVE Quiet
  BY <1>2
<1>3. ASSUME NEW w \in Workers, NEW run, Becomes(w, run), run.pc \notin Resolving,
             UNCHANGED <<identity, endUsers, conversations>>
      PROVE  Quiet
  BY <1>1, <1>3 DEF Becomes
<1>4. ASSUME NEW w \in Workers, NEW pc, pc \notin Resolving, Goto(w, pc) \/ Fails(w, pc),
             UNCHANGED <<identity, endUsers, conversations>>
      PROVE  Quiet
  <2>1. [worker[w] EXCEPT !.pc = pc].pc = pc /\ [worker[w] EXCEPT !.pc = pc, !.ok = FALSE].pc = pc
    BY <1>1 DEF Run
  <2>2. QED
    BY <1>3, <1>4, <2>1 DEF Goto, Fails
<1>5. ASSUME NEW r \in Requests, Handler(r) \/ HandlerFails(r) PROVE Quiet
  BY <1>2, <1>5
  DEF Handler, CheckDuplicate, CreateInboundEvent, AddIngestionJob, HandlerFails, rows
<1>6. ASSUME NEW w \in Workers, RunStep(w) PROVE Quiet
  <2>1. CASE AcquireLock(w)
    BY <1>4, <2>1 DEF AcquireLock, rows, Resolving
  <2>2. CASE StoreMessage(w)
    <3>1. [worker[w] EXCEPT !.msg = Len(messages) + 1, !.pc = "parts"].pc = "parts"
      BY <1>1 DEF Run
    <3>2. QED
      BY <1>3, <2>2, <3>1 DEF StoreMessage, Resolving
  <2>3. CASE StoreParts(w) \/ AddAgentJob(w)
    BY <1>4, <2>3 DEF StoreParts, AddAgentJob, Resolving
  <2>4. CASE MarkNormalized(w) \/ ReleaseLock(w)
    BY <1>4, <2>4 DEF MarkNormalized, ReleaseLock, rows, Resolving
  <2>5. QED
    BY <1>6, <2>1, <2>2, <2>3, <2>4 DEF RunStep
<1>7. Idle.pc \notin Resolving
  BY DEF Idle, Resolving
<1>8. ASSUME NEW w \in Workers, SettleJob(w) PROVE Quiet
  <2> DEFINE run == [Idle EXCEPT !.pc = "listener", !.job = worker[w].job]
  <2>1. run.pc \notin Resolving
    BY DEF Idle, Resolving
  <2>2. Becomes(w, run) \/ Becomes(w, Idle)
    BY <1>8 DEF SettleJob
  <2>3. UNCHANGED <<identity, endUsers, conversations>>
    BY <1>8 DEF SettleJob, rows
  <2> HIDE DEF run
  <2>4. QED
    BY <1>3, <1>7, <2>1, <2>2, <2>3
<1>9. ASSUME NEW w \in Workers, AddDeadLetter(w) \/ Crash(w) PROVE Quiet
  BY <1>3, <1>7, <1>9 DEF AddDeadLetter, Crash, rows
<1>10. ASSUME NEW w \in Workers, CallFails(w) PROVE Quiet
  BY <1>3, <1>4, <1>7, <1>10 DEF CallFails, rows, Resolving
<1>11. ASSUME NEW w \in Workers, NEW i \in Job, StartJob(w, i) PROVE Quiet
  <2>1. [Idle EXCEPT !.pc = "lock", !.job = i].pc \notin Resolving
    BY DEF Idle, Resolving
  <2>2. QED
    BY <1>3, <1>11, <2>1 DEF StartJob, rows
<1>12. ASSUME NEW i \in Job, StalledCheck(i) PROVE Quiet
  BY <1>2, <1>12 DEF StalledCheck, rows
<1>13. ASSUME NEW i \in Job, NEW id \in ReplayIds, ReplayDeadLetter(i, id) PROVE Quiet
  BY <1>2, <1>13 DEF ReplayDeadLetter, rows
<1>14. ASSUME Outside PROVE Quiet
  BY <1>2, <1>14 DEF Outside, LockExpires, StoreDeadLetter, RemoveDeadLetter, ReplayFails, rows
<1>15. QED
  BY <1>5, <1>6, <1>8, <1>9, <1>10, <1>11, <1>12, <1>13, <1>14, NextCases

\* If no run outlives its lock and operators only ever close conversations, a
\* customer has one open conversation under a key and every conversation has a
\* customer with an identity: the lock around findOrCreate is what the missing
\* unique index would be, for any number of workers, retries and crashes.
THEOREM WholeCustomers ==
  LockOutlivesJob /\ StatusInputs \subseteq {"closed"} /\ Spec => []CustomersAreWhole
<1> SUFFICES ASSUME LockOutlivesJob, StatusInputs \subseteq {"closed"}
             PROVE  Spec => []CustomersAreWhole
  OBVIOUS
<1>1. Init => CustomerInv
  <2> SUFFICES ASSUME Init PROVE CustomerInv
    OBVIOUS
  <2>1. LockInv
    BY InitInv DEF LockInv, HoldersAreLocked, OneRunPerCustomer, Init, InCritical, Locked, Idle
  <2>2. DOMAIN conversations = {}
    BY DEF Init
  <2>3. QED
    BY <2>1, <2>2
    DEF CustomerInv, IdentitiesAreDistinct, LinksAreFresh, CustomersAreKnown, StillMissing,
        OwnersAreLinked, OneOpenConversation, Init, At, Idle
<1>2. CustomerInv /\ [Next]_vars => CustomerInv'
  <2>1. ASSUME CustomerInv, UNCHANGED vars PROVE CustomerInv'
    <3>1. LockInv'
      <4>1. Inv'
        BY <2>1, NextInv DEF CustomerInv, LockInv
      <4>2. QED
        BY <2>1, <4>1
        DEF CustomerInv, vars, LockInv, HoldersAreLocked, OneRunPerCustomer, InCritical,
            LockKey, DataOf
    <3>2. QED
      BY <2>1, <3>1
      DEF CustomerInv, vars, IdentitiesAreDistinct, LinksAreFresh, CustomersAreKnown,
          StillMissing, OwnersAreLinked, OneOpenConversation, At, IsOpen, LockKey, DataOf
  <2>2. ASSUME CustomerInv, Next PROVE CustomerInv'
    <3>1. LockInv'
      BY <2>2, LockNext DEF CustomerInv
    <3>2. QED
      BY <2>2, <3>1, FindIdentityKeeps, CreateEndUserKeeps, CreateIdentityKeeps,
         FindConversationKeeps, CreateConversationKeeps, UpdateStatusKeeps,
         OtherStepsAreQuiet, QuietSteps
  <2>3. QED
    BY <2>1, <2>2
<1>3. CustomerInv => CustomersAreWhole
  BY DEF CustomerInv, CustomersAreWhole, OwnersAreLinked, ConversationsHaveAnIdentity
<1>4. QED
  BY <1>1, <1>2, <1>3, PTL DEF Spec

-----------------------------------------------------------------------------
(* Dead letters.                                                           *)

\* Only a run or its listener holds a job.
IdleHoldsNothing == \A w \in Workers : At(w, "idle") => worker[w].job = None

\* The last attempt of a job has one listener, and the dead letter comes after.
ListenersComeFirst ==
  /\ \A w \in Workers : At(w, "listener") => deadLetter[worker[w].job] = "none"
  /\ \A v, w \in Workers :
       At(v, "listener") /\ At(w, "listener") /\ worker[v].job = worker[w].job => v = w

\* An administrator retries what is a dead letter.
RetriedIsDead == retrying # None => deadLetter[retrying] # "none"

DeadLetterInv ==
  Inv /\ IdleHoldsNothing /\ ListenersComeFirst /\ RetriedIsDead /\ DeadLettersAreFinal

\* A settled job is never touched again.
LEMMA SettledIsFinal ==
  ASSUME Inv, Next, NEW i \in Job, Settled(jobs[i])
  PROVE  jobs'[i] = jobs[i]
<1>1. jobs \in [Job -> JobOf(Data)] /\ jobs[i].state \in {"completed", "failed"}
  BY DEF Inv, TypeOK, Settled
<1>2. ASSUME NEW k \in Job, NEW j, jobs' = [jobs EXCEPT ![k] = j],
             k = i => j = jobs[i]
      PROVE  jobs'[i] = jobs[i]
  BY <1>1, <1>2
<1>3. ASSUME NEW r \in Requests, AddIngestionJob(r) PROVE jobs'[i] = jobs[i]
  <2>1. JobId(r) \in Job
    BY IngestionAssumption DEF JobId, Job, Body
  <2>2. QED
    BY <1>1, <1>2, <1>3, <2>1 DEF AddIngestionJob, Added
<1>4. ASSUME NEW w \in Workers, NEW k \in Job, StartJob(w, k) PROVE jobs'[i] = jobs[i]
  BY <1>1, <1>2, <1>4 DEF StartJob, Runnable
<1>5. ASSUME NEW w \in Workers, SettleJob(w) PROVE jobs'[i] = jobs[i]
  <2>1. worker[w].job \in Job /\ jobs[worker[w].job].state = "active"
    BY <1>5 DEF SettleJob, At, Running, PCs, Inv, RunsAreActive
  <2>2. QED
    BY <1>1, <1>2, <1>5, <2>1 DEF SettleJob
<1>6. ASSUME NEW k \in Job, StalledCheck(k) PROVE jobs'[i] = jobs[i]
  BY <1>1, <1>2, <1>6 DEF StalledCheck
<1>7. ASSUME NEW k \in Job, NEW id \in ReplayIds, ReplayDeadLetter(k, id)
      PROVE  jobs'[i] = jobs[i]
  BY <1>1, <1>2, <1>7 DEF ReplayDeadLetter, Job
<1>8. ASSUME NEW r \in Requests, Handler(r) \/ HandlerFails(r) PROVE jobs'[i] = jobs[i]
  BY <1>3, <1>8 DEF Handler, CheckDuplicate, CreateInboundEvent, HandlerFails
<1>9. ASSUME NEW w \in Workers, AddDeadLetter(w) \/ CallFails(w) \/ Crash(w)
      PROVE  jobs'[i] = jobs[i]
  BY <1>9 DEF AddDeadLetter, CallFails, Crash
<1>10. ASSUME NEW w \in Workers, RunStep(w) PROVE jobs'[i] = jobs[i]
  BY <1>10, RunStepInv DEF RunGoesOn
<1>11. ASSUME Outside PROVE jobs'[i] = jobs[i]
  BY <1>11, OutsideInv
<1>12. QED
  BY <1>4, <1>5, <1>6, <1>7, <1>8, <1>9, <1>10, <1>11, NextCases

\* What one step does to the workers: it starts a run, ends one, carries one on,
\* or leaves them all alone.
LEMMA WorkersMove ==
  ASSUME Inv, Next
  PROVE  \/ UNCHANGED worker
         \/ \E w \in Workers : RunGoesOn(w)
         \/ \E w \in Workers, i \in Job :
              StartJob(w, i) /\ Becomes(w, [Idle EXCEPT !.pc = "lock", !.job = i])
         \/ \E w \in Workers :
              /\ SettleJob(w)
              /\ Becomes(w, [Idle EXCEPT !.pc = "listener", !.job = worker[w].job])
         \/ \E w \in Workers : Becomes(w, Idle)
<1>1. ASSUME NEW r \in Requests, Handler(r) \/ HandlerFails(r) PROVE UNCHANGED worker
  BY <1>1 DEF Handler, CheckDuplicate, CreateInboundEvent, AddIngestionJob, HandlerFails
<1>2. ASSUME NEW w \in Workers, SettleJob(w)
      PROVE  \/ Becomes(w, [Idle EXCEPT !.pc = "listener", !.job = worker[w].job])
             \/ Becomes(w, Idle)
  BY <1>2 DEF SettleJob
<1>3. ASSUME NEW i \in Job, StalledCheck(i) PROVE UNCHANGED worker
  BY <1>3 DEF StalledCheck
<1>4. ASSUME NEW i \in Job, NEW id \in ReplayIds, ReplayDeadLetter(i, id)
      PROVE  UNCHANGED worker
  BY <1>4 DEF ReplayDeadLetter
<1>5. QED
  BY <1>1, <1>2, <1>3, <1>4, NextCases, RunStepInv, CallFailsInv, OutsideInv
  DEF StartJob, AddDeadLetter, Crash

\* Where a worker got its job and where a listener comes from.
LEMMA HoldersMove ==
  ASSUME Inv, Next, NEW v \in Workers
  PROVE  /\ \/ worker'[v].job = worker[v].job
            \/ worker'[v].job = None
            \/ \E i \in Job : Runnable(jobs[i]) /\ worker'[v].job = i
         /\ worker'[v].pc = "idle" => worker'[v] = worker[v] \/ worker'[v].job = None
         /\ worker'[v].pc = "listener" =>
              \/ worker'[v] = worker[v]
              \/ /\ SettleJob(v) /\ worker'[v].job = worker[v].job
                 /\ \A w \in Workers \ {v} : worker'[w] = worker[w]
<1> DEFINE Goal == /\ \/ worker'[v].job = worker[v].job
                      \/ worker'[v].job = None
                      \/ \E i \in Job : Runnable(jobs[i]) /\ worker'[v].job = i
                   /\ worker'[v].pc = "idle" => worker'[v] = worker[v] \/ worker'[v].job = None
                   /\ worker'[v].pc = "listener" =>
                        \/ worker'[v] = worker[v]
                        \/ /\ SettleJob(v) /\ worker'[v].job = worker[v].job
                           /\ \A w \in Workers \ {v} : worker'[w] = worker[w]
<1>1. worker \in [Workers -> Run]
  BY DEF Inv, TypeOK
<1>2. CASE UNCHANGED worker
  BY <1>2
<1>3. ASSUME NEW w \in Workers, RunGoesOn(w) PROVE Goal
  BY <1>3 DEF RunGoesOn, Running
<1>4. ASSUME NEW w \in Workers, NEW i \in Job,
             StartJob(w, i), Becomes(w, [Idle EXCEPT !.pc = "lock", !.job = i])
      PROVE  Goal
  <2>1. [Idle EXCEPT !.pc = "lock", !.job = i].pc = "lock"
        /\ [Idle EXCEPT !.pc = "lock", !.job = i].job = i
    BY DEF Idle
  <2>2. Runnable(jobs[i])
    BY <1>4 DEF StartJob
  <2>3. QED
    BY <1>1, <1>4, <2>1, <2>2 DEF Becomes
<1>5. ASSUME NEW w \in Workers, SettleJob(w),
             Becomes(w, [Idle EXCEPT !.pc = "listener", !.job = worker[w].job])
      PROVE  Goal
  <2> DEFINE run == [Idle EXCEPT !.pc = "listener", !.job = worker[w].job]
  <2>1. run.pc = "listener" /\ run.job = worker[w].job
    BY DEF Idle
  <2> HIDE DEF run
  <2>2. worker'[w] = run /\ \A u \in Workers \ {w} : worker'[u] = worker[u]
    BY <1>1, <1>5 DEF Becomes, run
  <2>3. QED
    BY <1>5, <2>1, <2>2
<1>6. ASSUME NEW w \in Workers, Becomes(w, Idle) PROVE Goal
  BY <1>1, <1>6 DEF Becomes, Idle
<1>7. QED
  BY <1>2, <1>3, <1>4, <1>5, <1>6, WorkersMove

\* A dead letter is made by a listener and never unmade.
LEMMA DeadLettersMove ==
  ASSUME Inv, RetriedIsDead, Next
  PROVE  /\ \A i \in Job : deadLetter[i] # "none" => deadLetter'[i] # "none"
         /\ \A i \in Job : deadLetter'[i] # "none" =>
              \/ deadLetter[i] # "none"
              \/ \E w \in Workers : AddDeadLetter(w) /\ i = worker[w].job
<1>1. deadLetter \in [Job -> {"none", "waiting", "stored", "failed", "removed"}]
  BY DEF Inv, TypeOK
<1>2. \/ \E w \in Workers : AddDeadLetter(w)
      \/ \E i \in Job : StoreDeadLetter(i)
      \/ RemoveDeadLetter
      \/ UNCHANGED deadLetter
  BY NextCases
  DEF Handler, CheckDuplicate, CreateInboundEvent, AddIngestionJob, HandlerFails, RunStep,
      AcquireLock, FindIdentity, CreateEndUser, CreateIdentity, FindConversation,
      CreateConversation, StoreMessage, StoreParts, MarkNormalized, AddAgentJob,
      ReleaseLock, SettleJob, CallFails, Crash, StartJob, StalledCheck, ReplayDeadLetter,
      Outside, LockExpires, ReplayFails, UpdateStatus, dlq
<1>3. CASE \E w \in Workers : AddDeadLetter(w)
  BY <1>1, <1>3 DEF AddDeadLetter
<1>4. CASE \E i \in Job : StoreDeadLetter(i)
  BY <1>1, <1>4 DEF StoreDeadLetter
<1>5. CASE RemoveDeadLetter
  BY <1>1, <1>5 DEF RemoveDeadLetter, RetriedIsDead
<1>6. QED
  BY <1>1, <1>2, <1>3, <1>4, <1>5

\* Nobody holds the job of a dead letter, and the invariant is inductive.
LEMMA DeadLetterNext ==
  ASSUME DeadLetterInv, Next
  PROVE  DeadLetterInv'
<1>1. Inv /\ Inv' /\ RetriedIsDead
  BY NextInv DEF DeadLetterInv
<1>2. \A i \in Job : i # None
  BY IngestionAssumption
<1>3. ASSUME NEW w \in Workers, At(w, "listener")
      PROVE  /\ worker[w].job \in Job /\ Exhausted(jobs[worker[w].job])
             /\ deadLetter[worker[w].job] = "none"
  BY <1>1, <1>3 DEF DeadLetterInv, ListenersComeFirst, Inv, RunsAreActive
<1>4. ASSUME NEW w \in Workers, SettleJob(w)
      PROVE  /\ worker[w].job \in Job /\ jobs[worker[w].job].state = "active"
             /\ deadLetter[worker[w].job] = "none" /\ UNCHANGED deadLetter
  <2>1. worker[w].job \in Job /\ jobs[worker[w].job].state = "active"
    BY <1>1, <1>4 DEF SettleJob, At, Running, PCs, Inv, RunsAreActive
  <2>2. QED
    BY <1>4, <2>1 DEF SettleJob, dlq, DeadLetterInv, DeadLettersAreFinal, Exhausted
<1>5. IdleHoldsNothing'
  BY <1>1, HoldersMove DEF DeadLetterInv, IdleHoldsNothing, At
<1>6. ListenersComeFirst'
  <2>1. ASSUME NEW w \in Workers, worker'[w].pc = "listener"
        PROVE  deadLetter'[worker'[w].job] = "none"
    <3>1. CASE SettleJob(w) /\ worker'[w].job = worker[w].job
      BY <1>4, <3>1
    <3>2. CASE worker'[w] = worker[w]
      <4>1. /\ At(w, "listener") /\ worker[w].job \in Job
            /\ deadLetter[worker[w].job] = "none"
        BY <1>3, <2>1, <3>2 DEF At
      <4>2. ASSUME NEW v \in Workers, AddDeadLetter(v), worker[v].job = worker[w].job
            PROVE  FALSE
        <5>1. v = w
          BY <4>1, <4>2 DEF AddDeadLetter, DeadLetterInv, ListenersComeFirst
        <5>2. worker'[v].pc = "idle"
          BY <1>1, <4>2 DEF AddDeadLetter, Becomes, Idle, Inv, TypeOK
        <5>3. QED
          BY <2>1, <5>1, <5>2
      <4>3. QED
        BY <1>1, <3>2, <4>1, <4>2, DeadLettersMove
    <3>3. QED
      BY <1>1, <2>1, <3>1, <3>2, HoldersMove
  <2>2. ASSUME NEW v \in Workers, NEW w \in Workers, v # w,
               worker'[v].pc = "listener", worker'[w].pc = "listener",
               worker'[v].job = worker'[w].job
        PROVE  FALSE
    <3>1. ASSUME NEW x \in Workers, NEW y \in Workers, x # y,
                 SettleJob(x), worker'[x].job = worker[x].job, worker'[y] = worker[y],
                 worker'[y].pc = "listener", worker'[x].job = worker'[y].job
          PROVE  FALSE
      BY <1>3, <1>4, <3>1 DEF At, Exhausted
    <3>2. CASE worker'[v] = worker[v] /\ worker'[w] = worker[w]
      BY <2>2, <3>2 DEF DeadLetterInv, ListenersComeFirst, At
    <3>3. CASE SettleJob(v) /\ worker'[v].job = worker[v].job
               /\ \A u \in Workers \ {v} : worker'[u] = worker[u]
      BY <2>2, <3>1, <3>3
    <3>4. CASE SettleJob(w) /\ worker'[w].job = worker[w].job
               /\ \A u \in Workers \ {w} : worker'[u] = worker[u]
      BY <2>2, <3>1, <3>4
    <3>5. QED
      BY <1>1, <2>2, <3>2, <3>3, <3>4, HoldersMove
  <2>3. QED
    BY <2>1, <2>2 DEF ListenersComeFirst, At
<1>7. RetriedIsDead'
  <2>1. retrying' # None => retrying' = retrying \/ deadLetter'[retrying'] # "none"
    BY NextCases
    DEF Handler, CheckDuplicate, CreateInboundEvent, AddIngestionJob, HandlerFails, RunStep,
        AcquireLock, FindIdentity, CreateEndUser, CreateIdentity, FindConversation,
        CreateConversation, StoreMessage, StoreParts, MarkNormalized, AddAgentJob,
        ReleaseLock, SettleJob, AddDeadLetter, CallFails, Crash, StartJob, StalledCheck,
        ReplayDeadLetter, Outside, LockExpires, StoreDeadLetter, RemoveDeadLetter,
        ReplayFails, UpdateStatus, dlq
  <2>2. retrying \in Job \cup {None}
    BY <1>1 DEF Inv, TypeOK
  <2>3. QED
    BY <1>1, <2>1, <2>2, DeadLettersMove DEF RetriedIsDead
<1>8. DeadLettersAreFinal'
  <2>1. ASSUME NEW i \in Job, deadLetter'[i] # "none"
        PROVE  Exhausted(jobs[i]) /\ \A v \in Workers : worker[v].job = i => AddDeadLetter(v)
    <3>1. CASE deadLetter[i] # "none"
      BY <3>1 DEF DeadLetterInv, DeadLettersAreFinal
    <3>2. ASSUME NEW w \in Workers, AddDeadLetter(w), i = worker[w].job
          PROVE  Exhausted(jobs[i]) /\ \A v \in Workers : worker[v].job = i => AddDeadLetter(v)
      <4>1. At(w, "listener") /\ Exhausted(jobs[i])
        BY <1>3, <3>2 DEF AddDeadLetter
      <4>2. ASSUME NEW v \in Workers, worker[v].job = i PROVE v = w
        <5>1. CASE At(v, "listener")
          BY <3>2, <4>1, <4>2, <5>1 DEF DeadLetterInv, ListenersComeFirst
        <5>2. CASE At(v, "idle")
          BY <1>2, <4>2, <5>2 DEF DeadLetterInv, IdleHoldsNothing
        <5>3. CASE Running(v)
          BY <1>1, <4>1, <4>2, <5>3 DEF Inv, RunsAreActive, Exhausted
        <5>4. worker[v].pc \in PCs
          BY <1>1 DEF Inv, TypeOK, Run
        <5>5. QED
          BY <5>1, <5>2, <5>3, <5>4 DEF At, Running
      <4>3. QED
        BY <3>2, <4>1, <4>2
    <3>3. QED
      BY <1>1, <2>1, <3>1, <3>2, DeadLettersMove
  <2>2. ASSUME NEW i \in Job, deadLetter'[i] # "none"
        PROVE  Exhausted(jobs[i])' /\ \A v \in Workers : worker'[v].job # i
    <3>1. Exhausted(jobs[i]) /\ jobs'[i] = jobs[i]
      BY <1>1, <2>1, <2>2, SettledIsFinal DEF Exhausted, Settled
    <3>2. ASSUME NEW v \in Workers, worker'[v].job = i PROVE FALSE
      <4>1. ~Runnable(jobs[i])
        BY <3>1 DEF Runnable, Exhausted
      <4>2. worker[v].job = i
        BY <1>1, <1>2, <3>2, <4>1, HoldersMove
      <4>3. AddDeadLetter(v)
        BY <2>1, <2>2, <4>2
      <4>4. worker'[v].job = None
        BY <1>1, <4>3 DEF AddDeadLetter, Becomes, Idle, Inv, TypeOK
      <4>5. QED
        BY <1>2, <3>2, <4>4
    <3>3. QED
      BY <3>1, <3>2 DEF Exhausted
  <2>3. QED
    BY <2>2 DEF DeadLettersAreFinal
<1>9. QED
  BY <1>1, <1>5, <1>6, <1>7, <1>8 DEF DeadLetterInv

-----------------------------------------------------------------------------
(* What a completed job leaves behind.                                     *)

\* The row of an event is there before its job, and a handler that has not
\* reached it has written none.
EventsComeFirst ==
  /\ \A r \in Requests : handler[r] \in {"new", "checked"} => inbound[r] = "absent"
  /\ \A r \in Requests : handler[r] = "recorded" => inbound[r] # "absent"
  /\ \A i \in Job : jobs[i].state # "absent" => inbound[jobs[i].data.req] # "absent"

\* What a run that has not failed has done so far.
HasStored(w) ==
  /\ worker[w].msg \in DOMAIN messages
  /\ messages[worker[w].msg].conv = worker[w].conv
  /\ messages[worker[w].msg].job = worker[w].job

HasMarked(w) == inbound[DataOf(w).req] = "normalized"

HasHandedOver(w) == [conv |-> worker[w].conv, msg |-> worker[w].msg] \in agentJobs

Stored == {"parts", "normalize", "agentJob", "release", "settle"}

RunsKeepTheirWord ==
  \A w \in Workers : worker[w].ok =>
    /\ worker[w].pc \in Stored => HasStored(w)
    /\ worker[w].pc \in {"agentJob", "release", "settle"} => HasMarked(w)
    /\ worker[w].pc \in {"release", "settle"} => HasHandedOver(w)

HandoverInv ==
  DeadLetterInv /\ EventsComeFirst /\ RunsKeepTheirWord /\ CompletedIsHandedOver

\* No step takes a row back.
LEMMA RowsOnlyGrow ==
  ASSUME Inv, EventsComeFirst, Next
  PROVE  /\ \A r \in Requests : inbound[r] # "absent" => inbound'[r] # "absent"
         /\ \A r \in Requests : inbound[r] = "normalized" => inbound'[r] = "normalized"
         /\ \A m \in DOMAIN messages : m \in DOMAIN messages' /\ messages'[m] = messages[m]
         /\ agentJobs \subseteq agentJobs'
<1> DEFINE Grows == /\ \A r \in Requests : inbound[r] # "absent" => inbound'[r] # "absent"
                    /\ \A r \in Requests : inbound[r] = "normalized" => inbound'[r] = "normalized"
                    /\ \A m \in DOMAIN messages : m \in DOMAIN messages' /\ messages'[m] = messages[m]
                    /\ agentJobs \subseteq agentJobs'
<1>1. inbound \in [Requests -> {"absent", "received", "normalized"}] /\ messages \in Seq(Message)
  BY DEF Inv, TypeOK
<1>2. ASSUME UNCHANGED <<inbound, messages, agentJobs>> PROVE Grows
  BY <1>2
<1>3. ASSUME NEW r \in Requests, CreateInboundEvent(r) PROVE Grows
  BY <1>1, <1>3 DEF CreateInboundEvent, rows, EventsComeFirst
<1>4. ASSUME NEW w \in Workers, StoreMessage(w) PROVE Grows
  <2>1. UNCHANGED <<inbound, agentJobs>> /\ \E m : messages' = Append(messages, m)
    BY <1>4 DEF StoreMessage, http
  <2>2. \A m \in DOMAIN messages : m \in DOMAIN messages' /\ messages'[m] = messages[m]
    BY <1>1, <2>1
  <2>3. QED
    BY <2>1, <2>2
<1>5. ASSUME NEW w \in Workers, MarkNormalized(w) PROVE Grows
  BY <1>1, <1>5 DEF MarkNormalized, rows
<1>6. ASSUME NEW w \in Workers, AddAgentJob(w) PROVE Grows
  BY <1>6 DEF AddAgentJob, http
<1>7. \/ \E r \in Requests : CreateInboundEvent(r)
      \/ \E w \in Workers : StoreMessage(w) \/ MarkNormalized(w) \/ AddAgentJob(w)
      \/ UNCHANGED <<inbound, messages, agentJobs>>
  BY NextCases
  DEF Handler, CheckDuplicate, AddIngestionJob, HandlerFails, RunStep, AcquireLock,
      FindIdentity, CreateEndUser, CreateIdentity, FindConversation, CreateConversation,
      StoreParts, ReleaseLock, SettleJob, AddDeadLetter, CallFails, Crash, StartJob,
      StalledCheck, ReplayDeadLetter, Outside, LockExpires, StoreDeadLetter,
      RemoveDeadLetter, ReplayFails, UpdateStatus, http, rows
<1>8. QED
  BY <1>2, <1>3, <1>4, <1>5, <1>6, <1>7

\* Jobs that are new to the queue.
LEMMA NewJobs ==
  ASSUME Inv, Next, NEW i \in Job, jobs[i].state = "absent", jobs'[i].state # "absent"
  PROVE  \/ \E r \in Requests : AddIngestionJob(r) /\ jobs'[i].data.req = r
         \/ \E k \in Job : /\ jobs[k].state # "absent" \/ deadLetter[k] # "none"
                           /\ jobs'[i].data.req = jobs[k].data.req
                           /\ UNCHANGED <<handler, inbound, deadLetter>>
<1> DEFINE Goal == \/ \E r \in Requests : AddIngestionJob(r) /\ jobs'[i].data.req = r
                   \/ \E k \in Job : /\ jobs[k].state # "absent" \/ deadLetter[k] # "none"
                                     /\ jobs'[i].data.req = jobs[k].data.req
                                     /\ UNCHANGED <<handler, inbound, deadLetter>>
<1>1. \A k \in Job : jobs[k] \in JobOf(Data)
  BY DEF Inv, TypeOK
<1>2. ASSUME NEW k \in Job, NEW j, jobs' = [jobs EXCEPT ![k] = j]
      PROVE  k = i /\ jobs'[i] = j
  BY <1>2 DEF Inv, TypeOK
<1>3. ASSUME NEW r \in Requests, AddIngestionJob(r) PROVE Goal
  <2>1. JobId(r) \in Job
    BY IngestionAssumption DEF JobId, Job, Body
  <2>2. JobId(r) = i /\ jobs'[i] = Added(jobs[i], JobData(r))
    BY <1>2, <1>3, <2>1 DEF AddIngestionJob
  <2>3. jobs'[i].data.req = r
    BY <2>2 DEF Added, Queued, JobData
  <2>4. QED
    BY <1>3, <2>3
<1>4. ASSUME NEW k \in Job, NEW id \in ReplayIds, ReplayDeadLetter(k, id) PROVE Goal
  <2>1. id = i /\ jobs'[i] = Queued(Sanitized(jobs[k].data))
    BY <1>2, <1>4 DEF ReplayDeadLetter, Job
  <2>2. Sanitized(jobs[k].data).req = jobs[k].data.req
    BY <1>1 DEF Sanitized, Data, JobOf
  <2>3. jobs'[i].data.req = jobs[k].data.req
    BY <2>1, <2>2 DEF Queued
  <2>4. deadLetter[k] # "none" /\ UNCHANGED <<handler, inbound, deadLetter>>
    BY <1>4 DEF ReplayDeadLetter, http
  <2>5. QED
    BY <2>3, <2>4
<1>5. ASSUME NEW w \in Workers, NEW k \in Job, StartJob(w, k) PROVE Goal
  BY <1>1, <1>2, <1>5 DEF StartJob, Runnable
<1>6. ASSUME NEW w \in Workers, SettleJob(w) PROVE Goal
  <2>1. worker[w].job \in Job /\ jobs[worker[w].job].state = "active"
    BY <1>6 DEF SettleJob, At, Running, PCs, Inv, RunsAreActive
  <2>2. QED
    BY <1>2, <1>6, <2>1 DEF SettleJob
<1>7. ASSUME NEW k \in Job, StalledCheck(k) PROVE Goal
  BY <1>2, <1>7 DEF StalledCheck
<1>8. ASSUME UNCHANGED jobs PROVE Goal
  BY <1>8
<1>9. ASSUME NEW r \in Requests, Handler(r) \/ HandlerFails(r) PROVE Goal
  BY <1>3, <1>8, <1>9 DEF Handler, CheckDuplicate, CreateInboundEvent, HandlerFails
<1>10. ASSUME NEW w \in Workers, AddDeadLetter(w) \/ CallFails(w) \/ Crash(w) PROVE Goal
  BY <1>8, <1>10 DEF AddDeadLetter, CallFails, Crash
<1>11. ASSUME NEW w \in Workers, RunStep(w) PROVE Goal
  BY <1>8, <1>11, RunStepInv DEF RunGoesOn
<1>12. ASSUME Outside PROVE Goal
  BY <1>8, <1>12, OutsideInv
<1>13. QED
  BY <1>4, <1>5, <1>6, <1>7, <1>9, <1>10, <1>11, <1>12, NextCases

\* The row of an event is written before its job, also by the administrator.
LEMMA EventsNext ==
  ASSUME HandoverInv, Next
  PROVE  EventsComeFirst'
<1>1. Inv /\ EventsComeFirst /\ DeadLettersAreFinal
  BY DEF HandoverInv, DeadLetterInv
<1>2. /\ handler \in [Requests -> {"new", "checked", "recorded", "queued", "rejected", "lost"}]
      /\ inbound \in [Requests -> {"absent", "received", "normalized"}]
      /\ jobs \in [Job -> JobOf(Data)]
  BY <1>1 DEF Inv, TypeOK
<1>3. /\ \A r \in Requests : handler'[r] \in {"new", "checked"} => inbound'[r] = "absent"
      /\ \A r \in Requests : handler'[r] = "recorded" => inbound'[r] # "absent"
  <2>1. ASSUME NEW r \in Requests, Handler(r) \/ HandlerFails(r)
        PROVE  /\ \A q \in Requests : handler'[q] \in {"new", "checked"} => inbound'[q] = "absent"
               /\ \A q \in Requests : handler'[q] = "recorded" => inbound'[q] # "absent"
    BY <1>1, <1>2, <2>1
    DEF Handler, CheckDuplicate, CreateInboundEvent, AddIngestionJob, HandlerFails, EventsComeFirst
  <2>2. ASSUME NEW w \in Workers, MarkNormalized(w)
        PROVE  /\ \A q \in Requests : handler'[q] \in {"new", "checked"} => inbound'[q] = "absent"
               /\ \A q \in Requests : handler'[q] = "recorded" => inbound'[q] # "absent"
    <3>1. /\ worker[w].job \in Job /\ jobs[worker[w].job].state = "active"
      BY <1>1, <2>2 DEF MarkNormalized, At, Running, PCs, Locked, Inv, RunsAreActive
    <3>2. inbound[DataOf(w).req] # "absent"
      BY <1>1, <3>1 DEF EventsComeFirst, DataOf
    <3>3. UNCHANGED handler /\ inbound' = [inbound EXCEPT ![DataOf(w).req] = "normalized"]
      BY <2>2 DEF MarkNormalized
    <3>4. QED
      BY <1>1, <1>2, <3>2, <3>3 DEF EventsComeFirst
  <2>3. CASE UNCHANGED <<handler, inbound>>
    BY <1>1, <2>3 DEF EventsComeFirst
  <2>4. \/ \E r \in Requests : Handler(r) \/ HandlerFails(r)
        \/ \E w \in Workers : MarkNormalized(w)
        \/ UNCHANGED <<handler, inbound>>
    BY NextCases
    DEF RunStep, AcquireLock, FindIdentity, CreateEndUser, CreateIdentity, FindConversation,
        CreateConversation, StoreMessage, StoreParts, AddAgentJob, ReleaseLock, SettleJob,
        AddDeadLetter, CallFails, Crash, StartJob, StalledCheck, ReplayDeadLetter, Outside,
        LockExpires, StoreDeadLetter, RemoveDeadLetter, ReplayFails, UpdateStatus, http
  <2>5. QED
    BY <2>1, <2>2, <2>3, <2>4
<1>4. ASSUME NEW i \in Job, jobs'[i].state # "absent" PROVE inbound'[jobs'[i].data.req] # "absent"
  <2>1. ASSUME NEW k \in Job PROVE jobs[k].data.req \in Requests
    BY <1>2 DEF JobOf, Data
  <2>2. CASE jobs[i].state # "absent"
    <3>1. jobs'[i].data = jobs[i].data /\ inbound[jobs[i].data.req] # "absent"
      BY <1>1, <2>2, DataIsStable DEF EventsComeFirst
    <3>2. QED
      BY <1>1, <2>1, <3>1, RowsOnlyGrow
  <2>3. ASSUME NEW r \in Requests, AddIngestionJob(r), jobs'[i].data.req = r
        PROVE  inbound'[jobs'[i].data.req] # "absent"
    BY <1>1, <2>3 DEF AddIngestionJob, EventsComeFirst
  <2>4. ASSUME NEW k \in Job, jobs[k].state # "absent" \/ deadLetter[k] # "none",
               jobs'[i].data.req = jobs[k].data.req, UNCHANGED inbound
        PROVE  inbound'[jobs'[i].data.req] # "absent"
    BY <1>1, <2>4 DEF EventsComeFirst, DeadLettersAreFinal, Exhausted
  <2>5. QED
    BY <1>1, <1>4, <2>2, <2>3, <2>4, NewJobs
<1>5. QED
  BY <1>3, <1>4 DEF EventsComeFirst

\* What a run has done stays done while the run stays where it is.
LEMMA WordsStay ==
  ASSUME HandoverInv, Next, NEW v \in Workers, worker'[v].ok, worker[v].ok,
         worker'[v].pc \in Stored, worker[v].pc \in Stored,
         worker'[v].job = worker[v].job, worker'[v].conv = worker[v].conv,
         worker'[v].msg = worker[v].msg
  PROVE  /\ HasStored(v)'
         /\ worker[v].pc \in {"agentJob", "release", "settle"} => HasMarked(v)'
         /\ worker[v].pc \in {"release", "settle"} => HasHandedOver(v)'
<1>1. Inv /\ EventsComeFirst /\ RunsKeepTheirWord
  BY DEF HandoverInv, DeadLetterInv
<1>2. Running(v) /\ worker[v].job \in Job /\ jobs[worker[v].job].state = "active"
  BY <1>1 DEF Running, Stored, PCs, Locked, Inv, RunsAreActive
<1>3. DataOf(v)' = DataOf(v) /\ DataOf(v).req \in Requests
  <2>1. jobs'[worker[v].job].data = jobs[worker[v].job].data
    BY <1>1, <1>2, DataIsStable
  <2>2. DataOf(v) \in Data
    BY <1>1, <1>2, DataTypeOfRun
  <2>3. QED
    BY <2>1, <2>2 DEF DataOf, Data
<1>4. HasStored(v)'
  <2>1. HasStored(v)
    BY <1>1 DEF RunsKeepTheirWord
  <2>2. QED
    BY <1>1, <2>1, RowsOnlyGrow DEF HasStored
<1>5. worker[v].pc \in {"agentJob", "release", "settle"} => HasMarked(v)'
  BY <1>1, <1>3, RowsOnlyGrow DEF RunsKeepTheirWord, HasMarked
<1>6. worker[v].pc \in {"release", "settle"} => HasHandedOver(v)'
  BY <1>1, RowsOnlyGrow DEF RunsKeepTheirWord, HasHandedOver
<1>7. QED
  BY <1>4, <1>5, <1>6

\* The promise of one worker.
Word(w) ==
  worker[w].ok =>
    /\ worker[w].pc \in Stored => HasStored(w)
    /\ worker[w].pc \in {"agentJob", "release", "settle"} => HasMarked(w)
    /\ worker[w].pc \in {"release", "settle"} => HasHandedOver(w)

\* Going on inside the handler after the message is stored.
LEMMA GoesOnWithWord ==
  ASSUME HandoverInv, Next, NEW v \in Workers, NEW pc \in Stored,
         worker[v].pc \in Stored, Goto(v, pc),
         pc \in {"agentJob", "release", "settle"} /\ worker[v].pc \notin {"agentJob", "release", "settle"}
           => MarkNormalized(v),
         pc \in {"release", "settle"} /\ worker[v].pc \notin {"release", "settle"}
           => AddAgentJob(v)
  PROVE  Word(v)'
<1>1. Inv /\ worker \in [Workers -> Run]
  BY DEF HandoverInv, DeadLetterInv, Inv, TypeOK
<1>2. worker'[v] = [worker[v] EXCEPT !.pc = pc] /\ worker[v] \in Run
  BY <1>1 DEF Goto, Becomes
<1>3. /\ worker'[v].pc = pc /\ worker'[v].job = worker[v].job
      /\ worker'[v].conv = worker[v].conv /\ worker'[v].msg = worker[v].msg
  BY <1>2 DEF Run
<1>4. worker'[v].ok = worker[v].ok
  BY <1>2 DEF Run
<1>5. SUFFICES ASSUME worker'[v].ok
               PROVE  /\ HasStored(v)'
                      /\ pc \in {"agentJob", "release", "settle"} => HasMarked(v)'
                      /\ pc \in {"release", "settle"} => HasHandedOver(v)'
  BY <1>3 DEF Word
<1>6. worker[v].ok
  BY <1>4, <1>5
<1>7. /\ HasStored(v)'
      /\ worker[v].pc \in {"agentJob", "release", "settle"} => HasMarked(v)'
      /\ worker[v].pc \in {"release", "settle"} => HasHandedOver(v)'
  BY <1>3, <1>5, <1>6, WordsStay
<1>8. ASSUME MarkNormalized(v) PROVE HasMarked(v)'
  <2>1. inbound' = [inbound EXCEPT ![DataOf(v).req] = "normalized"] /\ UNCHANGED jobs
    BY <1>8 DEF MarkNormalized
  <2>2. Running(v)
    BY <1>8 DEF MarkNormalized, At, Running, PCs, Locked
  <2>3. DataOf(v) \in Data /\ DataOf(v)' = DataOf(v)
    BY <1>1, <1>3, <2>1, <2>2, DataTypeOfRun DEF DataOf
  <2>4. DataOf(v).req \in Requests
    BY <2>3 DEF Data
  <2>5. QED
    BY <1>1, <2>1, <2>3, <2>4 DEF HasMarked, Inv, TypeOK
<1>9. ASSUME AddAgentJob(v) PROVE HasHandedOver(v)'
  BY <1>3, <1>9 DEF AddAgentJob, HasHandedOver
<1>10. QED
  BY <1>7, <1>8, <1>9

\* The message a run stores is the one it goes on with.
LEMMA StoresItsMessage ==
  ASSUME HandoverInv, NEW v \in Workers, StoreMessage(v)
  PROVE  Word(v)'
<1> DEFINE n == Len(messages) + 1
           m == [conv |-> worker[v].conv, job |-> worker[v].job]
<1>1. worker \in [Workers -> Run] /\ messages \in Seq(Message)
  BY DEF HandoverInv, DeadLetterInv, Inv, TypeOK
<1>2. worker'[v] = [worker[v] EXCEPT !.msg = n, !.pc = "parts"] /\ worker[v] \in Run
  BY <1>1 DEF StoreMessage, Becomes
<1>3. /\ worker'[v].pc = "parts" /\ worker'[v].msg = n
      /\ worker'[v].conv = worker[v].conv /\ worker'[v].job = worker[v].job
  BY <1>2 DEF Run
<1>4. messages' = Append(messages, m)
  BY DEF StoreMessage
<1>5. n \in DOMAIN messages' /\ messages'[n] = m
  BY <1>1, <1>4
<1>6. m.conv = worker[v].conv /\ m.job = worker[v].job
  OBVIOUS
<1> HIDE DEF m, n
<1>7. HasStored(v)'
  BY <1>3, <1>5, <1>6 DEF HasStored
<1>8. QED
  BY <1>3, <1>7 DEF Word

\* Every worker keeps its word.
LEMMA WordsNext ==
  ASSUME HandoverInv, Next
  PROVE  RunsKeepTheirWord'
<1>1. Inv /\ worker \in [Workers -> Run]
  BY DEF HandoverInv, DeadLetterInv, Inv, TypeOK
<1>2. ASSUME NEW v \in Workers, worker'[v] = worker[v] PROVE Word(v)'
  BY <1>2, WordsStay DEF Word, Stored
<1>3. ASSUME NEW v \in Workers, worker'[v].pc \notin Stored PROVE Word(v)'
  BY <1>3 DEF Word, Stored
<1>4. ASSUME NEW w \in Workers, NEW pc, Fails(w, pc), NEW v \in Workers PROVE Word(v)'
  <2>1. CASE v = w
    <3>1. worker'[v].ok = FALSE
      BY <1>1, <1>4, <2>1 DEF Fails, Becomes, Run
    <3>2. QED
      BY <3>1 DEF Word
  <2>2. CASE v # w
    BY <1>1, <1>2, <1>4, <2>2 DEF Fails, Becomes
  <2>3. QED
    BY <2>1, <2>2
<1>5. ASSUME NEW w \in Workers, NEW run, Becomes(w, run), run.pc \notin Stored, NEW v \in Workers
      PROVE  Word(v)'
  BY <1>1, <1>2, <1>3, <1>5 DEF Becomes
<1>6. ASSUME NEW w \in Workers, NEW pc, Goto(w, pc), pc \notin Stored, NEW v \in Workers
      PROVE  Word(v)'
  <2>1. [worker[w] EXCEPT !.pc = pc].pc = pc
    BY <1>1 DEF Run
  <2>2. QED
    BY <1>5, <1>6, <2>1 DEF Goto
<1>7. ASSUME NEW w \in Workers, RunStep(w), NEW v \in Workers PROVE Word(v)'
  <2>1. CASE v # w
    BY <1>1, <1>2, <1>7, <2>1, RunStepInv DEF RunGoesOn
  <2>2. CASE AcquireLock(w)
    BY <1>4, <1>6, <2>2 DEF AcquireLock, Stored
  <2>3. CASE FindIdentity(w)
    <3>1. \E run : Becomes(w, run) /\ run.pc \in {"endUser", "conversation"}
      <4> DEFINE found == identity[LockKey(DataOf(w))]
                 run == [worker[w] EXCEPT !.endUser = found,
                           !.pc = IF found = 0 THEN "endUser" ELSE "conversation"]
      <4>1. Becomes(w, run)
        BY <2>3 DEF FindIdentity
      <4> HIDE DEF found
      <4>2. run.pc \in {"endUser", "conversation"}
        BY <1>1 DEF Run
      <4>3. QED
        BY <4>1, <4>2
    <3>2. QED
      BY <1>5, <3>1 DEF Stored
  <2>4. CASE CreateEndUser(w)
    <3>1. [worker[w] EXCEPT !.endUser = endUsers + 1, !.pc = "link"].pc = "link"
      BY <1>1 DEF Run
    <3>2. QED
      BY <1>5, <2>4, <3>1 DEF CreateEndUser, Stored
  <2>5. CASE CreateIdentity(w)
    BY <1>4, <1>6, <2>5 DEF CreateIdentity, Stored
  <2>6. CASE v = w /\ FindConversation(w)
    <3>1. CASE Goto(w, "open")
      BY <1>6, <3>1 DEF Stored
    <3>2. CASE \E c \in Reusable(DataOf(w)) :
                 Becomes(w, [worker[w] EXCEPT !.conv = c, !.pc = "message"])
      <4>1. worker'[w].pc = "message"
        BY <1>1, <3>2 DEF Becomes, Run
      <4>2. QED
        BY <1>3, <2>6, <4>1 DEF Stored
    <3>3. QED
      BY <2>6, <3>1, <3>2 DEF FindConversation
  <2>7. CASE v = w /\ CreateConversation(w)
    <3>1. Becomes(w, [worker[w] EXCEPT !.conv = Len(conversations) + 1, !.pc = "message"])
      BY <2>7 DEF CreateConversation
    <3>2. worker'[w].pc = "message"
      BY <1>1, <3>1 DEF Becomes, Run
    <3>3. QED
      BY <1>3, <2>7, <3>2 DEF Stored
  <2>8. CASE v = w /\ StoreMessage(w)
    BY <2>8, StoresItsMessage
  <2>9. CASE v = w /\ StoreParts(w)
    BY <2>9, GoesOnWithWord DEF StoreParts, At, Stored
  <2>10. CASE v = w /\ MarkNormalized(w)
    <3>1. Goto(w, "agentJob") /\ worker[w].pc = "normalize"
      BY <2>10 DEF MarkNormalized, At
    <3>2. QED
      BY <2>10, <3>1, GoesOnWithWord DEF Stored
  <2>11. CASE v = w /\ AddAgentJob(w)
    <3>1. Goto(w, "release") /\ worker[w].pc = "agentJob"
      BY <2>11 DEF AddAgentJob, At
    <3>2. QED
      BY <2>11, <3>1, GoesOnWithWord DEF Stored
  <2>12. CASE v = w /\ ReleaseLock(w)
    <3>1. Goto(w, "settle") /\ worker[w].pc = "release"
      BY <2>12 DEF ReleaseLock, At
    <3>2. QED
      BY <2>12, <3>1, GoesOnWithWord DEF Stored
  <2>13. QED
    BY <1>7, <2>1, <2>2, <2>3, <2>4, <2>5, <2>6, <2>7, <2>8, <2>9, <2>10, <2>11, <2>12
    DEF RunStep
<1>8. Idle.pc \notin Stored
  BY DEF Idle, Stored
<1>9. ASSUME NEW w \in Workers, CallFails(w), NEW v \in Workers PROVE Word(v)'
  BY <1>4, <1>5, <1>8, <1>9 DEF CallFails
<1>10. ASSUME NEW w \in Workers, NEW i, NEW v \in Workers,
              \/ Becomes(w, [Idle EXCEPT !.pc = "lock", !.job = i])
              \/ Becomes(w, [Idle EXCEPT !.pc = "listener", !.job = i])
              \/ Becomes(w, Idle)
       PROVE  Word(v)'
  <2>1. /\ [Idle EXCEPT !.pc = "lock", !.job = i].pc \notin Stored
        /\ [Idle EXCEPT !.pc = "listener", !.job = i].pc \notin Stored
    BY DEF Idle, Stored
  <2>2. QED
    BY <1>5, <1>8, <1>10, <2>1
<1>11. ASSUME NEW v \in Workers PROVE Word(v)'
  <2>1. ASSUME NEW w \in Workers, SettleJob(w) \/ AddDeadLetter(w) \/ Crash(w) PROVE Word(v)'
    BY <1>10, <2>1 DEF SettleJob, AddDeadLetter, Crash
  <2>2. ASSUME NEW w \in Workers, NEW i \in Job, StartJob(w, i) PROVE Word(v)'
    BY <1>10, <2>2 DEF StartJob
  <2>3. ASSUME UNCHANGED worker PROVE Word(v)'
    BY <1>2, <2>3
  <2>4. ASSUME NEW r \in Requests, Handler(r) \/ HandlerFails(r) PROVE Word(v)'
    BY <2>3, <2>4
    DEF Handler, CheckDuplicate, CreateInboundEvent, AddIngestionJob, HandlerFails
  <2>5. ASSUME NEW i \in Job, StalledCheck(i) PROVE Word(v)'
    BY <2>3, <2>5 DEF StalledCheck
  <2>6. ASSUME NEW i \in Job, NEW id \in ReplayIds, ReplayDeadLetter(i, id) PROVE Word(v)'
    BY <2>3, <2>6 DEF ReplayDeadLetter
  <2>7. ASSUME Outside PROVE Word(v)'
    BY <1>1, <2>3, <2>7, OutsideInv
  <2>8. QED
    BY <1>7, <1>9, <2>1, <2>2, <2>4, <2>5, <2>6, <2>7, NextCases
<1>12. QED
  BY <1>11 DEF RunsKeepTheirWord, Word

\* A job completes only at the end of a run that has kept its word.
LEMMA HandoverNext ==
  ASSUME HandoverInv, Next
  PROVE  HandoverInv'
<1>1. Inv /\ EventsComeFirst
  BY DEF HandoverInv, DeadLetterInv
<1>2. jobs \in [Job -> JobOf(Data)] /\ jobs' \in [Job -> JobOf(Data)]
  BY <1>1, NextInv DEF Inv, TypeOK
<1>3. ASSUME NEW i \in Job, jobs'[i].state = "completed"
      PROVE  \/ jobs[i].state = "completed"
             \/ \E w \in Workers : SettleJob(w) /\ worker[w].job = i /\ worker[w].ok
  <2>1. ASSUME NEW k \in Job, NEW j, jobs' = [jobs EXCEPT ![k] = j],
               k = i /\ j.state = "completed" => jobs[i].state = "completed"
        PROVE  jobs[i].state = "completed"
    BY <1>2, <1>3, <2>1
  <2>2. ASSUME NEW r \in Requests, AddIngestionJob(r) PROVE jobs[i].state = "completed"
    <3>1. JobId(r) \in Job
      BY IngestionAssumption DEF JobId, Job, Body
    <3>2. QED
      BY <1>2, <2>1, <2>2, <3>1 DEF AddIngestionJob, Added, Queued
  <2>3. ASSUME NEW w \in Workers, NEW k \in Job, StartJob(w, k) PROVE jobs[i].state = "completed"
    BY <1>2, <2>1, <2>3 DEF StartJob, Started, JobOf
  <2>4. ASSUME NEW w \in Workers, SettleJob(w)
        PROVE  jobs[i].state = "completed" \/ (worker[w].job = i /\ worker[w].ok)
    <3>1. worker[w].job \in Job
      BY <1>1, <2>4 DEF SettleJob, At, Running, PCs, Inv, RunsAreActive
    <3>2. CASE worker[w].job # i
      BY <1>2, <1>3, <2>4, <3>1, <3>2 DEF SettleJob
    <3>3. CASE worker[w].job = i /\ ~worker[w].ok
      <4>1. jobs' = [jobs EXCEPT ![i] = AttemptFailed(jobs[i])]
        <5>1. (IF worker[w].ok THEN Completed(jobs[i]) ELSE AttemptFailed(jobs[i]))
              = AttemptFailed(jobs[i])
          BY <3>3
        <5>2. QED
          BY <2>4, <3>3, <5>1 DEF SettleJob
      <4>2. AttemptFailed(jobs[i]).state # "completed"
        BY <1>2 DEF AttemptFailed, JobOf
      <4>3. QED
        BY <2>1, <4>1, <4>2
    <3>4. QED
      BY <3>2, <3>3
  <2>5. ASSUME NEW k \in Job, StalledCheck(k) PROVE jobs[i].state = "completed"
    <3>1. Stalled(jobs[k]).state # "completed"
      BY <1>2 DEF Stalled, JobOf
    <3>2. QED
      BY <2>1, <2>5, <3>1 DEF StalledCheck
  <2>6. ASSUME NEW k \in Job, NEW id \in ReplayIds, ReplayDeadLetter(k, id)
        PROVE  jobs[i].state = "completed"
    BY <2>1, <2>6 DEF ReplayDeadLetter, Queued, Job
  <2>7. ASSUME UNCHANGED jobs PROVE jobs[i].state = "completed"
    BY <1>3, <2>7
  <2>8. ASSUME NEW r \in Requests, Handler(r) \/ HandlerFails(r) PROVE jobs[i].state = "completed"
    BY <2>2, <2>7, <2>8 DEF Handler, CheckDuplicate, CreateInboundEvent, HandlerFails
  <2>9. ASSUME NEW w \in Workers, AddDeadLetter(w) \/ CallFails(w) \/ Crash(w) \/ RunStep(w)
        PROVE  jobs[i].state = "completed"
    BY <1>1, <2>7, <2>9, RunStepInv DEF AddDeadLetter, CallFails, Crash, RunGoesOn
  <2>10. ASSUME Outside PROVE jobs[i].state = "completed"
    BY <1>1, <2>7, <2>10, OutsideInv
  <2>11. QED
    BY <2>3, <2>4, <2>5, <2>6, <2>8, <2>9, <2>10, NextCases
<1>4. ASSUME NEW i \in Job, jobs'[i].state = "completed"
      PROVE  /\ inbound'[jobs'[i].data.req] = "normalized"
             /\ \E m \in DOMAIN messages' :
                  /\ messages'[m].job = i
                  /\ [conv |-> messages'[m].conv, msg |-> m] \in agentJobs'
  <2>1. /\ jobs[i].state # "absent"
        /\ inbound[jobs[i].data.req] = "normalized"
        /\ \E m \in DOMAIN messages :
             /\ messages[m].job = i
             /\ [conv |-> messages[m].conv, msg |-> m] \in agentJobs
    <3>1. CASE jobs[i].state = "completed"
      BY <3>1 DEF HandoverInv, CompletedIsHandedOver
    <3>2. ASSUME NEW w \in Workers, SettleJob(w), worker[w].job = i, worker[w].ok
          PROVE  /\ jobs[i].state # "absent"
                 /\ inbound[jobs[i].data.req] = "normalized"
                 /\ \E m \in DOMAIN messages :
                      /\ messages[m].job = i
                      /\ [conv |-> messages[m].conv, msg |-> m] \in agentJobs
      <4>1. At(w, "settle") /\ jobs[i].state = "active"
        BY <1>1, <3>2 DEF SettleJob, At, Running, PCs, Inv, RunsAreActive
      <4>2. HasStored(w) /\ HasMarked(w) /\ HasHandedOver(w)
        BY <3>2, <4>1 DEF HandoverInv, RunsKeepTheirWord, At, Stored
      <4>3. QED
        BY <3>2, <4>1, <4>2 DEF HasStored, HasMarked, HasHandedOver, DataOf
    <3>3. QED
      BY <1>3, <1>4, <3>1, <3>2
  <2>2. jobs'[i].data = jobs[i].data /\ jobs[i].data.req \in Requests
    BY <1>1, <1>2, <2>1, DataIsStable DEF JobOf, Data
  <2>3. QED
    BY <1>1, <2>1, <2>2, RowsOnlyGrow
<1>5. CompletedIsHandedOver'
  BY <1>4 DEF CompletedIsHandedOver
<1>6. DeadLetterInv'
  BY DeadLetterNext DEF HandoverInv
<1>7. QED
  BY <1>5, <1>6, EventsNext, WordsNext DEF HandoverInv

-----------------------------------------------------------------------------
(* Nothing is lost without a failure.                                      *)

\* As long as nothing has failed, somebody runs each active job.
ActiveAreRun ==
  faults = 0 => \A i \in Job : jobs[i].state = "active" =>
    \E w \in Workers : Running(w) /\ worker[w].job = i

LossInv == HandoverInv /\ ActiveAreRun /\ NothingLostWithoutFaults

\* A run starts, settles or is given up: nothing else makes a job active or
\* failed.
LEMMA JobsMove ==
  ASSUME Inv, Next, NEW i \in Job
  PROVE  /\ jobs'[i].state = "active" =>
              jobs[i].state = "active" \/ \E w \in Workers : StartJob(w, i)
         /\ jobs'[i].state = "failed" =>
              \/ jobs[i].state = "failed"
              \/ StalledCheck(i)
              \/ \E w \in Workers : SettleJob(w) /\ worker[w].job = i
<1> DEFINE Goal == /\ jobs'[i].state = "active" =>
                        jobs[i].state = "active" \/ \E w \in Workers : StartJob(w, i)
                   /\ jobs'[i].state = "failed" =>
                        \/ jobs[i].state = "failed"
                        \/ StalledCheck(i)
                        \/ \E w \in Workers : SettleJob(w) /\ worker[w].job = i
<1>1. jobs \in [Job -> JobOf(Data)]
  BY DEF Inv, TypeOK
<1>2. ASSUME NEW k \in Job, NEW j, jobs' = [jobs EXCEPT ![k] = j], k # i PROVE Goal
  BY <1>1, <1>2
<1>3. ASSUME NEW r \in Requests, AddIngestionJob(r) PROVE Goal
  <2>1. JobId(r) \in Job
    BY IngestionAssumption DEF JobId, Job, Body
  <2>2. QED
    BY <1>1, <1>2, <1>3, <2>1 DEF AddIngestionJob, Added, Queued
<1>4. ASSUME NEW w \in Workers, NEW k \in Job, StartJob(w, k) PROVE Goal
  <2>1. CASE k = i
    <3>1. jobs'[i].state = "active"
      BY <1>1, <1>4, <2>1 DEF StartJob, Started, JobOf
    <3>2. QED
      BY <1>4, <2>1, <3>1
  <2>2. QED
    BY <1>2, <1>4, <2>1 DEF StartJob
<1>5. ASSUME NEW w \in Workers, SettleJob(w) PROVE Goal
  <2>1. worker[w].job \in Job /\ jobs[worker[w].job].state = "active"
    BY <1>5 DEF SettleJob, At, Running, PCs, Inv, RunsAreActive
  <2>2. CASE worker[w].job = i
    BY <1>5, <2>1, <2>2
  <2>3. CASE worker[w].job # i
    BY <1>2, <1>5, <2>1, <2>3 DEF SettleJob
  <2>4. QED
    BY <2>2, <2>3
<1>6. ASSUME NEW k \in Job, StalledCheck(k) PROVE Goal
  <2>1. CASE k = i
    BY <1>6, <2>1 DEF StalledCheck
  <2>2. QED
    BY <1>2, <1>6, <2>1 DEF StalledCheck
<1>7. ASSUME NEW k \in Job, NEW id \in ReplayIds, ReplayDeadLetter(k, id) PROVE Goal
  BY <1>1, <1>2, <1>7 DEF ReplayDeadLetter, Queued, Job
<1>8. ASSUME UNCHANGED jobs PROVE Goal
  BY <1>8
<1>9. ASSUME NEW r \in Requests, Handler(r) \/ HandlerFails(r) PROVE Goal
  BY <1>3, <1>8, <1>9 DEF Handler, CheckDuplicate, CreateInboundEvent, HandlerFails
<1>10. ASSUME NEW w \in Workers, AddDeadLetter(w) \/ CallFails(w) \/ Crash(w) \/ RunStep(w)
       PROVE  Goal
  BY <1>8, <1>10, RunStepInv DEF AddDeadLetter, CallFails, Crash, RunGoesOn
<1>11. ASSUME Outside PROVE Goal
  BY <1>8, <1>11, OutsideInv
<1>12. QED
  BY <1>4, <1>5, <1>6, <1>7, <1>9, <1>10, <1>11, NextCases

\* Failures are counted and never forgotten.
LEMMA NoFailureBefore ==
  ASSUME Inv, Next, faults' = 0
  PROVE  faults = 0
<1>1. faults \in Nat
  BY IngestionAssumption DEF Inv, TypeOK
<1>2. UNCHANGED faults \/ faults' = faults + 1
  BY NextCases
  DEF Handler, CheckDuplicate, CreateInboundEvent, AddIngestionJob, HandlerFails, RunStep,
      AcquireLock, FindIdentity, CreateEndUser, CreateIdentity, FindConversation,
      CreateConversation, StoreMessage, StoreParts, MarkNormalized, AddAgentJob,
      ReleaseLock, SettleJob, AddDeadLetter, CallFails, Crash, StartJob, StalledCheck,
      ReplayDeadLetter, Outside, LockExpires, StoreDeadLetter, RemoveDeadLetter,
      ReplayFails, UpdateStatus
<1>3. QED
  BY <1>1, <1>2

\* Without a failure, a worker only leaves a run by settling its job, and a
\* listener only by adding the dead letter.
LEMMA RunsEndBySettling ==
  ASSUME Inv, Next, faults' = 0, NEW w \in Workers
  PROVE  /\ Running(w) => (Running(w)' /\ worker'[w].job = worker[w].job) \/ SettleJob(w)
         /\ At(w, "listener") => worker'[w] = worker[w] \/ AddDeadLetter(w)
<1> DEFINE Goal == /\ Running(w) => (Running(w)' /\ worker'[w].job = worker[w].job) \/ SettleJob(w)
                   /\ At(w, "listener") => worker'[w] = worker[w] \/ AddDeadLetter(w)
<1>1. faults \in Nat /\ worker \in [Workers -> Run]
  BY IngestionAssumption DEF Inv, TypeOK
<1>2. ASSUME worker'[w] = worker[w] PROVE Goal
  BY <1>2 DEF Running
<1>3. ASSUME NEW r \in Requests, Handler(r) \/ HandlerFails(r) PROVE Goal
  BY <1>1, <1>2, <1>3
  DEF Handler, CheckDuplicate, CreateInboundEvent, AddIngestionJob, HandlerFails
<1>4. ASSUME NEW v \in Workers, RunStep(v) PROVE Goal
  <2>1. CASE v = w
    BY <1>4, <2>1, RunStepInv DEF RunGoesOn, Running, At
  <2>2. CASE v # w
    BY <1>2, <1>4, <2>2, RunStepInv DEF RunGoesOn
  <2>3. QED
    BY <2>1, <2>2
<1>5. ASSUME NEW v \in Workers, SettleJob(v) PROVE Goal
  <2>1. At(v, "settle") /\ \A u \in Workers \ {v} : worker'[u] = worker[u]
    BY <1>1, <1>5 DEF SettleJob, Becomes
  <2>2. QED
    BY <1>2, <1>5, <2>1 DEF At
<1>6. ASSUME NEW v \in Workers, AddDeadLetter(v) PROVE Goal
  <2>1. At(v, "listener") /\ \A u \in Workers \ {v} : worker'[u] = worker[u]
    BY <1>1, <1>6 DEF AddDeadLetter, Becomes
  <2>2. QED
    BY <1>2, <1>6, <2>1 DEF At, Running
<1>7. ASSUME NEW v \in Workers, CallFails(v) \/ Crash(v) PROVE Goal
  BY <1>1, <1>7 DEF CallFails, Crash
<1>8. ASSUME NEW v \in Workers, NEW i \in Job, StartJob(v, i) PROVE Goal
  <2>1. At(v, "idle") /\ \A u \in Workers \ {v} : worker'[u] = worker[u]
    BY <1>1, <1>8 DEF StartJob, Becomes
  <2>2. QED
    BY <1>2, <2>1 DEF At, Running
<1>9. ASSUME NEW i \in Job, StalledCheck(i) PROVE Goal
  BY <1>2, <1>9 DEF StalledCheck
<1>10. ASSUME NEW i \in Job, NEW id \in ReplayIds, ReplayDeadLetter(i, id) PROVE Goal
  BY <1>2, <1>10 DEF ReplayDeadLetter
<1>11. ASSUME Outside PROVE Goal
  BY <1>1, <1>2, <1>11
  DEF Outside, LockExpires, StoreDeadLetter, RemoveDeadLetter, ReplayFails, UpdateStatus
<1>12. QED
  BY <1>3, <1>4, <1>5, <1>6, <1>7, <1>8, <1>9, <1>10, <1>11, NextCases

\* The last attempt that fails leaves its worker at the listener, and a stall
\* needs a crash.
LEMMA LossNext ==
  ASSUME LossInv, Next
  PROVE  LossInv'
<1>1. Inv /\ Inv' /\ RetriedIsDead
  BY NextInv DEF LossInv, HandoverInv, DeadLetterInv
<1>2. jobs \in [Job -> JobOf(Data)] /\ worker \in [Workers -> Run]
  BY <1>1 DEF Inv, TypeOK
<1>3. ASSUME faults' = 0, NEW i \in Job, jobs'[i].state = "active"
      PROVE  \E w \in Workers : Running(w)' /\ worker'[w].job = i
  <2>1. ASSUME NEW w \in Workers, StartJob(w, i)
        PROVE  Running(w)' /\ worker'[w].job = i
    <3>1. worker'[w] = [Idle EXCEPT !.pc = "lock", !.job = i]
      BY <1>2, <2>1 DEF StartJob, Becomes
    <3>2. QED
      BY <3>1 DEF Idle, Running, PCs
  <2>2. CASE jobs[i].state = "active"
    <3>1. PICK w \in Workers : Running(w) /\ worker[w].job = i
      BY <1>1, <1>3, <2>2, NoFailureBefore DEF LossInv, ActiveAreRun
    <3>2. ~SettleJob(w)
      <4>1. Completed(jobs[i]).state # "active" /\ AttemptFailed(jobs[i]).state # "active"
        BY <1>2 DEF Completed, AttemptFailed, JobOf
      <4>2. QED
        BY <1>2, <1>3, <3>1, <4>1 DEF SettleJob
    <3>3. QED
      BY <1>1, <1>3, <3>1, <3>2, RunsEndBySettling
  <2>3. QED
    BY <1>1, <1>3, <2>1, <2>2, JobsMove
<1>4. ASSUME faults' = 0, NEW i \in Job, jobs'[i].state = "failed"
      PROVE  \/ deadLetter'[i] # "none"
             \/ \E w \in Workers : worker'[w].pc = "listener" /\ worker'[w].job = i
  <2>1. ASSUME StalledCheck(i) PROVE FALSE
    BY <1>1, <1>2, <1>4, <2>1, NoFailureBefore DEF StalledCheck, LossInv, ActiveAreRun
  <2>2. ASSUME NEW w \in Workers, SettleJob(w), worker[w].job = i
        PROVE  worker'[w].pc = "listener" /\ worker'[w].job = i
    <3>1. PICK done : /\ done = Completed(jobs[i]) \/ done = AttemptFailed(jobs[i])
                      /\ jobs' = [jobs EXCEPT ![i] = done]
                      /\ Becomes(w, IF Exhausted(done)
                                      THEN [Idle EXCEPT !.pc = "listener", !.job = i] ELSE Idle)
      BY <2>2 DEF SettleJob
    <3>2. jobs'[i] = done
      BY <1>2, <3>1
    <3>3. Completed(jobs[i]).state = "completed"
      BY <1>2 DEF Completed, JobOf
    <3>4. done = AttemptFailed(jobs[i])
      BY <1>4, <3>1, <3>2, <3>3
    <3>5. Exhausted(done)
      BY <1>2, <1>4, <3>2, <3>4, BullAssumption DEF AttemptFailed, Exhausted, JobOf
    <3>6. worker'[w] = [Idle EXCEPT !.pc = "listener", !.job = i]
      BY <1>2, <3>1, <3>5 DEF Becomes
    <3>7. QED
      BY <3>6 DEF Idle
  <2>3. CASE jobs[i].state = "failed"
    <3>1. CASE deadLetter[i] # "none"
      BY <1>1, <3>1, DeadLettersMove
    <3>2. ASSUME NEW w \in Workers, At(w, "listener"), worker[w].job = i
          PROVE  \/ deadLetter'[i] # "none"
                 \/ (worker'[w].pc = "listener" /\ worker'[w].job = i)
      <4>1. CASE AddDeadLetter(w)
        BY <1>1, <3>2, <4>1 DEF AddDeadLetter, Inv, TypeOK
      <4>2. CASE worker'[w] = worker[w]
        BY <3>2, <4>2 DEF At
      <4>3. QED
        BY <1>1, <1>4, <3>2, <4>1, <4>2, RunsEndBySettling
    <3>3. faults = 0
      BY <1>1, <1>4, NoFailureBefore
    <3>4. QED
      BY <2>3, <3>1, <3>2, <3>3 DEF LossInv, NothingLostWithoutFaults
  <2>4. QED
    BY <1>1, <1>4, <2>1, <2>2, <2>3, JobsMove
<1>5. ActiveAreRun'
  BY <1>3 DEF ActiveAreRun
<1>6. NothingLostWithoutFaults'
  BY <1>4 DEF NothingLostWithoutFaults, At
<1>7. HandoverInv'
  BY HandoverNext DEF LossInv
<1>8. QED
  BY <1>5, <1>6, <1>7 DEF LossInv

\* It holds at first, and nothing disturbs it.
LEMMA LossAlways == Spec => []LossInv
<1>1. Init => LossInv
  <2> SUFFICES ASSUME Init PROVE LossInv
    OBVIOUS
  <2>1. Inv
    BY InitInv
  <2>2. \A i \in Job : jobs[i].state = "absent"
    BY DEF Init, NoJob
  <2>3. DeadLetterInv
    BY <2>1
    DEF Init, DeadLetterInv, IdleHoldsNothing, ListenersComeFirst, RetriedIsDead,
        DeadLettersAreFinal, At, Idle
  <2>4. EventsComeFirst /\ RunsKeepTheirWord /\ CompletedIsHandedOver
    BY <2>2 DEF Init, EventsComeFirst, RunsKeepTheirWord, CompletedIsHandedOver, Idle, Stored
  <2>5. ActiveAreRun /\ NothingLostWithoutFaults
    BY <2>2 DEF ActiveAreRun, NothingLostWithoutFaults
  <2>6. QED
    BY <2>3, <2>4, <2>5 DEF LossInv, HandoverInv
<1>2. LossInv /\ [Next]_vars => LossInv'
  <2>1. ASSUME LossInv, UNCHANGED vars PROVE LossInv'
    <3>1. Inv'
      BY <2>1, NextInv DEF LossInv, HandoverInv, DeadLetterInv
    <3>2. DeadLetterInv'
      BY <2>1, <3>1
      DEF LossInv, HandoverInv, DeadLetterInv, vars, IdleHoldsNothing, ListenersComeFirst,
          RetriedIsDead, DeadLettersAreFinal, At, Exhausted
    <3>3. EventsComeFirst' /\ RunsKeepTheirWord' /\ CompletedIsHandedOver'
      BY <2>1
      DEF LossInv, HandoverInv, vars, EventsComeFirst, RunsKeepTheirWord, HasStored, HasMarked,
          HasHandedOver, DataOf, CompletedIsHandedOver
    <3>4. ActiveAreRun' /\ NothingLostWithoutFaults'
      BY <2>1 DEF LossInv, vars, ActiveAreRun, NothingLostWithoutFaults, Running, At
    <3>5. QED
      BY <3>2, <3>3, <3>4 DEF LossInv, HandoverInv
  <2>2. QED
    BY <2>1, LossNext
<1>3. QED
  BY <1>1, <1>2, PTL DEF Spec

\* What Bull says of a job is true of its message, for any number of requests,
\* workers, attempts and failures: a completed job is handed over, a dead letter
\* is made once of a job nobody holds, and without a failure none is missing.
THEOREM AccountsBalance == Spec => []NothingIsLost
<1>1. LossInv => NothingIsLost
  BY DEF LossInv, HandoverInv, DeadLetterInv, NothingIsLost
<1>2. QED
  BY LossAlways, <1>1, PTL
-----------------------------------------------------------------------------
(* Every copy of a message beyond the first is paid for by a failure.      *)

\* The run has stored its message and will hand it over.
HasDone(w) == worker[w].ok /\ worker[w].pc \in Stored

\* The job, or a replay of it, will store a message although nothing fails any
\* more.
MayStore(i) ==
  \/ jobs[i].state \in {"waiting", "delayed"}
  \/ jobs[i].state = "active" /\ \A w \in Workers : worker[w].job = i => ~HasDone(w)
  \/ \E w \in Workers : At(w, "listener") /\ worker[w].job = i
  \/ deadLetter[i] \in {"waiting", "failed"} /\ retrying # i

\* The job id under which the message of a job first came into the queue: the
\* same for requests with one key, and for all the replays.
Line(i) == JobId(jobs[i].data.req)

Pending(j) == {i \in Job : Line(i) = j /\ MayStore(i)}

Copies(j) == {m \in DOMAIN messages : Line(messages[m].job) = j}

\* The copies C and the jobs P that may add to them are paid for by f failures.
Paid(C, P, f) ==
  /\ IsFiniteSet(C) /\ IsFiniteSet(P)
  /\ Cardinality(C) + Cardinality(P) <= 1 + f

\* What is stored and what is still to come of one message.
CopiesArePaid == \A j \in Job : Paid(Copies(j), Pending(j), faults)

LinesHaveAHead == \A i \in Job : jobs[i].state # "absent" => jobs[Line(i)].state # "absent"

MessagesHaveJobs == \A m \in DOMAIN messages : jobs[messages[m].job].state # "absent"

OkUntilFailed == \A w \in Workers : worker[w].pc \notin {"release", "settle"} => worker[w].ok

LineInv == DeadLetterInv /\ LinesHaveAHead /\ MessagesHaveJobs /\ OkUntilFailed

\* Which worker has a job that is active or a job with a listener.
LEMMA HolderOfActive ==
  ASSUME DeadLetterInv, NEW i \in Job, jobs[i].state = "active",
         NEW v \in Workers, worker[v].job = i
  PROVE  Running(v)
<1>1. worker[v].pc \in PCs /\ i # None
  BY IngestionAssumption DEF DeadLetterInv, Inv, TypeOK, Run
<1>2. ~At(v, "listener")
  BY DEF DeadLetterInv, Inv, RunsAreActive, Exhausted
<1>3. ~At(v, "idle")
  BY <1>1 DEF DeadLetterInv, IdleHoldsNothing
<1>4. QED
  BY <1>1, <1>2, <1>3 DEF Running, At

\* What may store a message is in the queue.
LEMMA MayStoreKnown ==
  ASSUME DeadLetterInv, NEW i \in Job, MayStore(i)
  PROVE  jobs[i].state # "absent"
BY DEF MayStore, DeadLetterInv, DeadLettersAreFinal, Exhausted, Inv, RunsAreActive

\* The original request of a known job has an id of its own in the queue, which
\* stays the same.
LEMMA LineStays ==
  ASSUME Inv, Next, NEW i \in Job, jobs[i].state # "absent"
  PROVE  Line(i)' = Line(i) /\ Line(i) \in Job
<1>1. jobs'[i].data = jobs[i].data /\ jobs[i].data.req \in Requests
  BY DataIsStable DEF Inv, TypeOK, JobOf, Data
<1>2. QED
  BY <1>1, IngestionAssumption DEF Line, JobId, Job, Body

\* A job that the queue knows stays known.
LEMMA KnownStays ==
  ASSUME Inv, Next, NEW i \in Job, jobs[i].state # "absent"
  PROVE  jobs'[i].state # "absent"
<1>1. \A k \in Job : jobs[k] \in JobOf(Data)
  BY DEF Inv, TypeOK
<1>2. ASSUME NEW k \in Job, NEW j, jobs' = [jobs EXCEPT ![k] = j],
             jobs[k].state # "absent" => j.state # "absent"
      PROVE  jobs'[i].state # "absent"
  BY <1>2 DEF Inv, TypeOK
<1>3. ASSUME NEW r \in Requests, AddIngestionJob(r) PROVE jobs'[i].state # "absent"
  <2>1. JobId(r) \in Job
    BY IngestionAssumption DEF JobId, Job, Body
  <2>2. QED
    BY <1>2, <1>3, <2>1 DEF AddIngestionJob, Added
<1>4. ASSUME NEW w \in Workers, NEW k \in Job, StartJob(w, k) PROVE jobs'[i].state # "absent"
  BY <1>1, <1>2, <1>4 DEF StartJob, Started, JobOf
<1>5. ASSUME NEW w \in Workers, SettleJob(w) PROVE jobs'[i].state # "absent"
  <2>1. worker[w].job \in Job
    BY <1>5 DEF SettleJob, At, Running, PCs, Inv, RunsAreActive
  <2>2. Completed(jobs[worker[w].job]).state # "absent"
    BY <1>1, <2>1 DEF Completed, JobOf
  <2>3. AttemptFailed(jobs[worker[w].job]).state # "absent"
    BY <1>1, <2>1 DEF AttemptFailed, JobOf
  <2>4. QED
    BY <1>2, <1>5, <2>1, <2>2, <2>3 DEF SettleJob
<1>6. ASSUME NEW k \in Job, StalledCheck(k) PROVE jobs'[i].state # "absent"
  <2>1. Stalled(jobs[k]).state # "absent"
    BY <1>1 DEF Stalled, JobOf
  <2>2. QED
    BY <1>2, <1>6, <2>1 DEF StalledCheck
<1>7. ASSUME NEW k \in Job, NEW id \in ReplayIds, ReplayDeadLetter(k, id)
      PROVE  jobs'[i].state # "absent"
  BY <1>2, <1>7 DEF ReplayDeadLetter, Job
<1>8. ASSUME UNCHANGED jobs PROVE jobs'[i].state # "absent"
  BY <1>8
<1>9. ASSUME NEW r \in Requests, Handler(r) \/ HandlerFails(r) PROVE jobs'[i].state # "absent"
  BY <1>3, <1>8, <1>9 DEF Handler, CheckDuplicate, CreateInboundEvent, HandlerFails
<1>10. ASSUME NEW w \in Workers, AddDeadLetter(w) \/ CallFails(w) \/ Crash(w) \/ RunStep(w)
       PROVE  jobs'[i].state # "absent"
  BY <1>8, <1>10, RunStepInv DEF AddDeadLetter, CallFails, Crash, RunGoesOn
<1>11. ASSUME Outside PROVE jobs'[i].state # "absent"
  BY <1>8, <1>11, OutsideInv
<1>12. QED
  BY <1>4, <1>5, <1>6, <1>7, <1>9, <1>10, <1>11, NextCases

\* Messages are only added, by runs, and failures are only counted.
LEMMA CountersMove ==
  ASSUME Inv, Next
  PROVE  /\ UNCHANGED messages \/ \E w \in Workers : StoreMessage(w)
         /\ UNCHANGED faults \/ faults' = faults + 1
<1>1. UNCHANGED messages \/ \E w \in Workers : StoreMessage(w)
  BY NextCases
  DEF Handler, CheckDuplicate, CreateInboundEvent, AddIngestionJob, HandlerFails, RunStep,
      AcquireLock, FindIdentity, CreateEndUser, CreateIdentity, FindConversation,
      CreateConversation, StoreParts, MarkNormalized, AddAgentJob, ReleaseLock, SettleJob,
      AddDeadLetter, CallFails, Crash, StartJob, StalledCheck, ReplayDeadLetter, Outside,
      LockExpires, StoreDeadLetter, RemoveDeadLetter, ReplayFails, UpdateStatus, rows
<1>2. UNCHANGED faults \/ faults' = faults + 1
  BY NextCases
  DEF Handler, CheckDuplicate, CreateInboundEvent, AddIngestionJob, HandlerFails, RunStep,
      AcquireLock, FindIdentity, CreateEndUser, CreateIdentity, FindConversation,
      CreateConversation, StoreMessage, StoreParts, MarkNormalized, AddAgentJob,
      ReleaseLock, SettleJob, AddDeadLetter, CallFails, Crash, StartJob, StalledCheck,
      ReplayDeadLetter, Outside, LockExpires, StoreDeadLetter, RemoveDeadLetter,
      ReplayFails, UpdateStatus
<1>3. QED
  BY <1>1, <1>2

-----------------------------------------------------------------------------
(* The lines of jobs.                                                      *)

\* The new job of a request is the head of its line, a replay joins the line of
\* the job it replays.
LEMMA HeadsNext ==
  ASSUME LineInv, Next
  PROVE  LinesHaveAHead'
<1>1. Inv /\ DeadLettersAreFinal /\ LinesHaveAHead
  BY DEF LineInv, DeadLetterInv
<1>2. ASSUME NEW i \in Job, jobs[i].state # "absent" PROVE jobs'[Line(i)'].state # "absent"
  <2>1. Line(i)' = Line(i) /\ Line(i) \in Job /\ jobs[Line(i)].state # "absent"
    BY <1>1, <1>2, LineStays DEF LinesHaveAHead
  <2>2. PICK j \in Job : j = Line(i) /\ jobs[j].state # "absent"
    BY <2>1
  <2>3. jobs'[j].state # "absent"
    BY <1>1, <2>2, KnownStays
  <2>4. QED
    BY <2>1, <2>2, <2>3
<1>3. ASSUME NEW i \in Job, jobs[i].state = "absent", jobs'[i].state # "absent"
      PROVE  jobs'[Line(i)'].state # "absent"
  <2>1. CASE \E r \in Requests : AddIngestionJob(r) /\ jobs'[i].data.req = r
    <3>1. PICK r \in Requests : AddIngestionJob(r) /\ jobs'[i].data.req = r
      BY <2>1
    <3>2. JobId(r) \in Job
      BY IngestionAssumption DEF JobId, Job, Body
    <3>3. jobs'[JobId(r)] = Added(jobs[JobId(r)], JobData(r))
      BY <1>1, <3>1, <3>2 DEF AddIngestionJob, Inv, TypeOK
    <3>4. jobs'[JobId(r)].state # "absent"
      BY <3>3 DEF Added, Queued
    <3>5. QED
      BY <3>1, <3>4 DEF Line
  <2>2. ASSUME NEW k \in Job, jobs[k].state # "absent" \/ deadLetter[k] # "none",
               jobs'[i].data.req = jobs[k].data.req
        PROVE  jobs'[Line(i)'].state # "absent"
    <3>1. jobs[k].state # "absent"
      BY <1>1, <2>2 DEF DeadLettersAreFinal, Exhausted
    <3>2. Line(k)' = Line(k) /\ jobs'[Line(k)'].state # "absent"
      BY <1>1, <1>2, <3>1, LineStays
    <3>3. Line(i)' = Line(k)
      BY <2>2 DEF Line
    <3>4. QED
      BY <3>2, <3>3
  <2>3. QED
    BY <1>1, <1>3, <2>1, <2>2, NewJobs
<1>4. QED
  BY <1>2, <1>3 DEF LinesHaveAHead

\* A message is stored by a run, and a run has a job the queue knows.
LEMMA MessagesNext ==
  ASSUME LineInv, Next
  PROVE  MessagesHaveJobs'
<1>1. Inv /\ MessagesHaveJobs /\ messages \in Seq(Message)
  BY DEF LineInv, DeadLetterInv, Inv, TypeOK
<1>2. \A m \in DOMAIN messages : messages[m].job \in Job /\ jobs[messages[m].job].state # "absent"
  <2>1. \A m \in DOMAIN messages : messages[m] \in Message
    BY <1>1
  <2>2. QED
    BY <1>1, <2>1 DEF MessagesHaveJobs, Message
<1>3. \A m \in DOMAIN messages : jobs'[messages[m].job].state # "absent"
  BY <1>1, <1>2, KnownStays
<1>4. CASE UNCHANGED messages
  BY <1>3, <1>4 DEF MessagesHaveJobs
<1>5. ASSUME NEW w \in Workers, StoreMessage(w) PROVE MessagesHaveJobs'
  <2>1. Running(w) /\ UNCHANGED jobs
    BY <1>5 DEF StoreMessage, At, Running, PCs, Locked
  <2>2. jobs[worker[w].job].state = "active"
    BY <1>1, <2>1 DEF Inv, RunsAreActive
  <2>3. PICK row : row.job = worker[w].job /\ messages' = Append(messages, row)
    BY <1>5 DEF StoreMessage
  <2>4. /\ DOMAIN messages' = DOMAIN messages \cup {Len(messages) + 1}
        /\ messages'[Len(messages) + 1] = row
        /\ \A m \in DOMAIN messages : messages'[m] = messages[m]
    BY <1>1, <2>3
  <2>5. QED
    BY <1>2, <2>1, <2>2, <2>3, <2>4 DEF MessagesHaveJobs
<1>6. QED
  BY <1>1, <1>4, <1>5, CountersMove

\* A run begins without an error, and an error ends it.
LEMMA OkNext ==
  ASSUME LineInv, Next
  PROVE  OkUntilFailed'
<1>1. Inv /\ OkUntilFailed /\ worker \in [Workers -> Run]
  BY DEF LineInv, DeadLetterInv, Inv, TypeOK
<1> DEFINE Good(v) == worker'[v].pc \notin {"release", "settle"} => worker'[v].ok
<1>2. ASSUME NEW v \in Workers, worker'[v] = worker[v] PROVE Good(v)
  BY <1>1, <1>2 DEF OkUntilFailed
<1>3. ASSUME NEW w \in Workers, NEW v \in Workers, v # w, NEW run, Becomes(w, run) PROVE Good(v)
  BY <1>1, <1>2, <1>3 DEF Becomes
<1>4. ASSUME NEW w \in Workers, NEW run, Becomes(w, run),
             run.ok \/ run.pc \in {"release", "settle"}
      PROVE  OkUntilFailed'
  <2>1. Good(w)
    BY <1>1, <1>4 DEF Becomes
  <2>2. QED
    BY <1>3, <1>4, <2>1 DEF OkUntilFailed
<1>5. ASSUME NEW w \in Workers, RunStep(w) PROVE OkUntilFailed'
  <2>1. RunGoesOn(w)
    BY <1>1, <1>5, RunStepInv
  <2>2. \A v \in Workers \ {w} : worker'[v] = worker[v]
    BY <2>1 DEF RunGoesOn
  <2>3. Good(w)
    <3>1. ASSUME NEW pc, Goto(w, pc), worker[w].ok \/ pc \in {"release", "settle"} PROVE Good(w)
      BY <1>1, <3>1 DEF Goto, Becomes, Run
    <3>2. ASSUME NEW pc, Fails(w, pc), pc \in {"release", "settle"} PROVE Good(w)
      BY <1>1, <3>2 DEF Fails, Becomes, Run
    <3>3. ASSUME worker[w].ok, worker'[w].ok = worker[w].ok PROVE Good(w)
      BY <3>3
    <3>4. worker[w].pc \in {"release", "settle"} \/ worker[w].ok
      BY <1>1 DEF OkUntilFailed
    <3>5. CASE AcquireLock(w)
      BY <3>1, <3>2, <3>4, <3>5 DEF AcquireLock, At
    <3>6. CASE FindIdentity(w)
      BY <1>1, <3>3, <3>4, <3>6 DEF FindIdentity, At, Becomes, Run
    <3>7. CASE CreateEndUser(w)
      BY <1>1, <3>3, <3>4, <3>7 DEF CreateEndUser, At, Becomes, Run
    <3>8. CASE CreateIdentity(w)
      BY <3>1, <3>2, <3>4, <3>8 DEF CreateIdentity, At
    <3>9. CASE FindConversation(w)
      <4>1. CASE Goto(w, "open")
        BY <3>1, <3>4, <3>9, <4>1 DEF FindConversation, At
      <4>2. ASSUME NEW c, Becomes(w, [worker[w] EXCEPT !.conv = c, !.pc = "message"])
            PROVE  Good(w)
        BY <1>1, <3>3, <3>4, <3>9, <4>2 DEF FindConversation, At, Becomes, Run
      <4>3. QED
        BY <3>9, <4>1, <4>2 DEF FindConversation
    <3>10. CASE CreateConversation(w)
      BY <1>1, <3>3, <3>4, <3>10 DEF CreateConversation, At, Becomes, Run
    <3>11. CASE StoreMessage(w)
      BY <1>1, <3>3, <3>4, <3>11 DEF StoreMessage, At, Becomes, Run
    <3>12. CASE StoreParts(w) \/ MarkNormalized(w) \/ AddAgentJob(w) \/ ReleaseLock(w)
      BY <3>1, <3>4, <3>12 DEF StoreParts, MarkNormalized, AddAgentJob, ReleaseLock, At
    <3>13. QED
      BY <1>5, <3>5, <3>6, <3>7, <3>8, <3>9, <3>10, <3>11, <3>12 DEF RunStep
  <2>4. QED
    BY <1>2, <2>2, <2>3 DEF OkUntilFailed
<1>6. ASSUME NEW w \in Workers, CallFails(w) PROVE OkUntilFailed'
  <2>1. ASSUME NEW pc \in {"release", "settle"}, Fails(w, pc) PROVE OkUntilFailed'
    <3>1. Good(w)
      BY <1>1, <2>1 DEF Fails, Becomes, Run
    <3>2. QED
      BY <1>3, <2>1, <3>1 DEF OkUntilFailed, Fails
  <2>2. CASE Becomes(w, Idle)
    BY <1>4, <2>2 DEF Idle
  <2>3. QED
    BY <1>6, <2>1, <2>2 DEF CallFails
<1>7. CASE UNCHANGED worker
  BY <1>1, <1>7 DEF OkUntilFailed
<1>8. ASSUME NEW w \in Workers, SettleJob(w) \/ AddDeadLetter(w) \/ Crash(w) PROVE OkUntilFailed'
  <2>1. Idle.ok /\ \A i : [Idle EXCEPT !.pc = "listener", !.job = i].ok
    BY DEF Idle
  <2>2. \/ Becomes(w, Idle)
        \/ Becomes(w, [Idle EXCEPT !.pc = "listener", !.job = worker[w].job])
    BY <1>8 DEF SettleJob, AddDeadLetter, Crash
  <2>3. QED
    BY <1>4, <2>1, <2>2
<1>9. ASSUME NEW w \in Workers, NEW i \in Job, StartJob(w, i) PROVE OkUntilFailed'
  <2>1. [Idle EXCEPT !.pc = "lock", !.job = i].ok
    BY DEF Idle
  <2>2. QED
    BY <1>4, <1>9, <2>1 DEF StartJob
<1>10. QED
  BY <1>1, <1>5, <1>6, <1>7, <1>8, <1>9, NextCases, OutsideInv
  DEF Handler, CheckDuplicate, CreateInboundEvent, AddIngestionJob, HandlerFails,
      StalledCheck, ReplayDeadLetter

\* The lines of jobs are kept.
LEMMA LineInvNext ==
  ASSUME LineInv, [Next]_vars
  PROVE  LineInv'
<1>1. CASE Next
  BY <1>1, DeadLetterNext, HeadsNext, MessagesNext, OkNext DEF LineInv
<1>2. CASE UNCHANGED vars
  <2>1. Inv'
    BY <1>2, NextInv DEF LineInv, DeadLetterInv
  <2>2. DeadLetterInv'
    BY <1>2, <2>1
    DEF LineInv, DeadLetterInv, vars, IdleHoldsNothing, ListenersComeFirst, RetriedIsDead,
        DeadLettersAreFinal, At, Exhausted
  <2>3. LinesHaveAHead' /\ MessagesHaveJobs' /\ OkUntilFailed'
    BY <1>2 DEF LineInv, vars, LinesHaveAHead, Line, MessagesHaveJobs, OkUntilFailed
  <2>4. QED
    BY <2>2, <2>3 DEF LineInv
<1>3. QED
  BY <1>1, <1>2

-----------------------------------------------------------------------------
(* The copies of a message.                                                *)

\* A job whose worker, state and dead letter stay as they are.
LEMMA Untouched ==
  ASSUME NEW k \in Job, jobs'[k] = jobs[k],
         \A v \in Workers : worker'[v].job = k \/ worker[v].job = k => worker'[v] = worker[v],
         deadLetter'[k] \in {"waiting", "failed"} /\ retrying' # k =>
           deadLetter[k] \in {"waiting", "failed"} /\ retrying # k,
         MayStore(k)'
  PROVE  MayStore(k)
<1>1. \A v \in Workers : worker'[v] = worker[v] => (HasDone(v)' <=> HasDone(v))
  BY DEF HasDone
<1>2. CASE jobs'[k].state \in {"waiting", "delayed"}
  BY <1>2 DEF MayStore
<1>3. CASE jobs'[k].state = "active" /\ \A v \in Workers : worker'[v].job = k => ~HasDone(v)'
  BY <1>1, <1>3 DEF MayStore
<1>4. CASE \E v \in Workers : At(v, "listener")' /\ worker'[v].job = k
  BY <1>4 DEF MayStore, At
<1>5. CASE deadLetter'[k] \in {"waiting", "failed"} /\ retrying' # k
  BY <1>5 DEF MayStore
<1>6. QED
  BY <1>2, <1>3, <1>4, <1>5 DEF MayStore

\* A job that is run is not done before its run is.
LEMMA MayStoreRuns ==
  ASSUME LineInv, NEW w \in Workers, Running(w), NEW i \in Job, worker[w].job = i, ~HasDone(w)
  PROVE  MayStore(i)
<1>1. jobs[i].state = "active"
  BY DEF LineInv, DeadLetterInv, Inv, RunsAreActive
<1>2. \A v \in Workers : worker[v].job = i => v = w
  BY <1>1, HolderOfActive DEF LineInv, DeadLetterInv, Inv, RunsAreActive
<1>3. QED
  BY <1>1, <1>2 DEF MayStore

\* The run of an active job that is done makes nothing more of it.
LEMMA DoneIsDone ==
  ASSUME DeadLetterInv', NEW w \in Workers, NEW i \in Job,
         Running(w)', worker'[w].job = i, HasDone(w)'
  PROVE  ~MayStore(i)'
<1>1. jobs'[i].state = "active"
  BY DEF DeadLetterInv, Inv, RunsAreActive
<1>2. deadLetter'[i] \notin {"waiting", "failed"}
  BY <1>1 DEF DeadLetterInv, DeadLettersAreFinal, Exhausted
<1>3. \A v \in Workers : ~(At(v, "listener")' /\ worker'[v].job = i)
  BY <1>1 DEF DeadLetterInv, Inv, RunsAreActive, Exhausted, At
<1>4. QED
  BY <1>1, <1>2, <1>3 DEF MayStore

\* A step of a run leaves nothing to store that was not.
LEMMA RunMay ==
  ASSUME LineInv, LineInv', NEW w \in Workers, RunGoesOn(w), UNCHANGED dlq,
         HasDone(w) => HasDone(w)', NEW k \in Job, MayStore(k)'
  PROVE  MayStore(k)
<1>1. Running(w) /\ Running(w)' /\ worker'[w].job = worker[w].job /\ UNCHANGED jobs
  BY DEF RunGoesOn
<1>2. CASE worker[w].job = k
  <2>1. ~HasDone(w)
    BY <1>1, <1>2, DoneIsDone DEF LineInv
  <2>2. QED
    BY <1>1, <1>2, <2>1, MayStoreRuns
<1>3. CASE worker[w].job # k
  BY <1>1, <1>3, Untouched DEF RunGoesOn, dlq
<1>4. QED
  BY <1>2, <1>3

\* Until the message is stored the run is not done, and from there it stays so.
LEMMA RunStepMay ==
  ASSUME LineInv, LineInv', NEW w \in Workers, RunStep(w), NEW k \in Job, MayStore(k)'
  PROVE  MayStore(k)
<1>1. Inv /\ worker[w] \in Run /\ worker \in [Workers -> Run]
  BY DEF LineInv, DeadLetterInv, Inv, TypeOK
<1>2. RunGoesOn(w)
  BY <1>1, RunStepInv
<1>3. UNCHANGED dlq
  BY DEF RunStep, AcquireLock, FindIdentity, CreateEndUser, CreateIdentity, FindConversation,
         CreateConversation, StoreMessage, StoreParts, MarkNormalized, AddAgentJob, ReleaseLock
<1>4. HasDone(w) => HasDone(w)'
  <2>1. CASE StoreParts(w) \/ MarkNormalized(w) \/ AddAgentJob(w) \/ ReleaseLock(w)
    BY <1>1, <2>1
    DEF StoreParts, MarkNormalized, AddAgentJob, ReleaseLock, Goto, Becomes, HasDone, Stored, Run
  <2>2. CASE ~(StoreParts(w) \/ MarkNormalized(w) \/ AddAgentJob(w) \/ ReleaseLock(w))
    <3>1. worker[w].pc \notin Stored
      BY <2>2
      DEF RunStep, AcquireLock, FindIdentity, CreateEndUser, CreateIdentity, FindConversation,
          CreateConversation, StoreMessage, At, Stored
    <3>2. QED
      BY <3>1 DEF HasDone
  <2>3. QED
    BY <2>1, <2>2
<1>5. QED
  BY <1>2, <1>3, <1>4, RunMay

\* A job that completes stores nothing more, one that fails could before.
LEMMA SettleMay ==
  ASSUME LineInv, LineInv', Next, NEW w \in Workers, SettleJob(w), NEW k \in Job, MayStore(k)'
  PROVE  MayStore(k)
<1>1. Inv /\ Running(w) /\ worker[w].pc = "settle"
  BY DEF SettleJob, At, Running, PCs, LineInv, DeadLetterInv
<1>2. worker[w].job \in Job /\ jobs[worker[w].job] \in JobOf(Data) /\ jobs[worker[w].job].state = "active"
  BY <1>1 DEF Inv, RunsAreActive, TypeOK
<1>3. UNCHANGED dlq
  BY DEF SettleJob
<1>4. CASE worker[w].job # k
  <2>1. jobs'[k] = jobs[k]
    BY <1>1, <1>2, <1>4 DEF SettleJob, Inv, TypeOK
  <2>2. PICK run : worker' = [worker EXCEPT ![w] = run] /\ (run.job = None \/ run.job = worker[w].job)
    <3>1. \/ worker' = [worker EXCEPT ![w] = Idle]
          \/ worker' = [worker EXCEPT ![w] = [Idle EXCEPT !.pc = "listener", !.job = worker[w].job]]
      BY DEF SettleJob, Becomes
    <3>2. Idle.job = None /\ [Idle EXCEPT !.pc = "listener", !.job = worker[w].job].job = worker[w].job
      BY DEF Idle
    <3>3. QED
      BY <3>1, <3>2
  <2>3. \A v \in Workers : worker'[v].job = k \/ worker[v].job = k => worker'[v] = worker[v]
    <3>1. k # None
      BY IngestionAssumption
    <3>2. QED
      BY <1>1, <1>4, <2>2, <3>1 DEF Inv, TypeOK
  <2>4. QED
    BY <1>3, <2>1, <2>3, Untouched DEF dlq
<1>5. CASE worker[w].job = k /\ ~worker[w].ok
  BY <1>1, <1>5, MayStoreRuns DEF HasDone
<1>6. CASE worker[w].job = k /\ worker[w].ok
  <2>1. jobs'[k] = Completed(jobs[k]) /\ jobs'[k].state = "completed"
    BY <1>1, <1>2, <1>6 DEF SettleJob, Completed, JobOf, Inv, TypeOK
  <2>2. deadLetter'[k] = "none"
    BY <2>1 DEF LineInv, DeadLetterInv, DeadLettersAreFinal, Exhausted, Inv, TypeOK
  <2>3. \A v \in Workers : ~(At(v, "listener")' /\ worker'[v].job = k)
    BY <2>1 DEF LineInv, DeadLetterInv, Inv, RunsAreActive, Exhausted, At
  <2>4. QED
    BY <2>1, <2>2, <2>3 DEF MayStore
<1>7. QED
  BY <1>4, <1>5, <1>6

\* The dead letter takes over from its listener.
LEMMA AddDeadLetterMay ==
  ASSUME LineInv, NEW w \in Workers, AddDeadLetter(w), NEW k \in Job, MayStore(k)'
  PROVE  MayStore(k)
<1>1. Inv /\ At(w, "listener") /\ UNCHANGED <<jobs, retrying>>
  BY DEF AddDeadLetter, LineInv, DeadLetterInv
<1>2. worker[w].job \in Job /\ worker[w].job # None /\ k # None
  BY <1>1, IngestionAssumption DEF Inv, RunsAreActive
<1>3. CASE worker[w].job = k
  BY <1>1, <1>3 DEF MayStore
<1>4. CASE worker[w].job # k
  <2>1. deadLetter'[k] = deadLetter[k]
    BY <1>1, <1>4 DEF AddDeadLetter, Inv, TypeOK
  <2>2. \A v \in Workers : worker'[v].job = k \/ worker[v].job = k => worker'[v] = worker[v]
    BY <1>1, <1>2, <1>4 DEF AddDeadLetter, Becomes, Idle, Inv, TypeOK
  <2>3. QED
    BY <1>1, <2>1, <2>2, Untouched
<1>5. QED
  BY <1>3, <1>4

\* A job that is started was waiting.
LEMMA StartJobMay ==
  ASSUME LineInv, NEW w \in Workers, NEW i \in Job, StartJob(w, i), NEW k \in Job, MayStore(k)'
  PROVE  MayStore(k)
<1>1. Inv /\ worker[w].job = None /\ k # None
  BY IngestionAssumption DEF StartJob, LineInv, DeadLetterInv, IdleHoldsNothing
<1>2. CASE i = k
  BY <1>2 DEF StartJob, Runnable, MayStore
<1>3. CASE i # k
  <2>1. jobs'[k] = jobs[k] /\ UNCHANGED dlq
    BY <1>1, <1>3 DEF StartJob, Inv, TypeOK
  <2>2. \A v \in Workers : worker'[v].job = k \/ worker[v].job = k => worker'[v] = worker[v]
    BY <1>1, <1>3 DEF StartJob, Becomes, Idle, Inv, TypeOK
  <2>3. QED
    BY <2>1, <2>2, Untouched DEF dlq
<1>4. QED
  BY <1>2, <1>3

\* A job that stalled has nobody who is done with it.
LEMMA StalledMay ==
  ASSUME LineInv, NEW i \in Job, StalledCheck(i), NEW k \in Job, MayStore(k)'
  PROVE  MayStore(k)
<1>1. CASE i = k
  BY <1>1 DEF StalledCheck, MayStore
<1>2. CASE i # k
  <2>1. jobs'[k] = jobs[k] /\ UNCHANGED <<worker, dlq>>
    BY <1>2 DEF StalledCheck, LineInv, DeadLetterInv, Inv, TypeOK
  <2>2. QED
    BY <2>1, Untouched DEF dlq
<1>3. QED
  BY <1>1, <1>2

\* The store job and the administrator only take dead letters away.
LEMMA LettersMay ==
  ASSUME LineInv, NEW k \in Job, MayStore(k)',
         (\E i \in Job : StoreDeadLetter(i)) \/ RemoveDeadLetter
  PROVE  MayStore(k)
<1>1. UNCHANGED <<jobs, worker>>
  BY DEF StoreDeadLetter, RemoveDeadLetter
<1>2. deadLetter'[k] \in {"waiting", "failed"} /\ retrying' # k =>
        deadLetter[k] \in {"waiting", "failed"} /\ retrying # k
  BY DEF StoreDeadLetter, RemoveDeadLetter, LineInv, DeadLetterInv, Inv, TypeOK
<1>3. QED
  BY <1>1, <1>2, Untouched

\* A failure leaves one more job that may store its message.
LEMMA FailureMay ==
  ASSUME LineInv, (\E w \in Workers : CallFails(w) \/ Crash(w)) \/ ReplayFails
  PROVE  /\ \E x : \A k \in Job : MayStore(k)' => MayStore(k) \/ k = x
         /\ faults' = faults + 1 /\ UNCHANGED messages
<1>1. faults' = faults + 1 /\ UNCHANGED <<messages, jobs>>
  BY DEF CallFails, Crash, ReplayFails, rows
<1>2. ASSUME NEW w \in Workers, CallFails(w) \/ Crash(w)
      PROVE  \A k \in Job : MayStore(k)' => MayStore(k) \/ k = worker[w].job
  <2>1. UNCHANGED dlq
    BY <1>2 DEF CallFails, Crash
  <2>2. PICK run : worker' = [worker EXCEPT ![w] = run] /\ (run.job = None \/ run.job = worker[w].job)
    <3>1. worker[w] \in Run
      BY DEF LineInv, DeadLetterInv, Inv, TypeOK
    <3>2. CASE Becomes(w, Idle)
      <4>1. Idle.job = None
        BY DEF Idle
      <4>2. QED
        BY <3>2, <4>1 DEF Becomes
    <3>3. ASSUME NEW pc, Fails(w, pc) PROVE \E run : worker' = [worker EXCEPT ![w] = run] /\ run.job = worker[w].job
      <4>1. [worker[w] EXCEPT !.pc = pc, !.ok = FALSE].job = worker[w].job
        BY <3>1 DEF Run
      <4>2. QED
        BY <3>3, <4>1 DEF Fails, Becomes
    <3>4. QED
      BY <1>2, <3>2, <3>3 DEF CallFails, Crash
  <2>3. ASSUME NEW k \in Job, k # worker[w].job, MayStore(k)' PROVE MayStore(k)
    <3>1. k # None
      BY IngestionAssumption
    <3>2. \A v \in Workers : worker'[v].job = k \/ worker[v].job = k => worker'[v] = worker[v]
      BY <2>2, <2>3, <3>1 DEF LineInv, DeadLetterInv, Inv, TypeOK
    <3>3. QED
      BY <1>1, <2>1, <2>3, <3>2, Untouched DEF dlq
  <2>4. QED
    BY <2>3
<1>3. CASE ReplayFails
  <2>1. UNCHANGED <<worker, deadLetter>>
    BY <1>3 DEF ReplayFails
  <2>2. ASSUME NEW k \in Job, k # retrying, MayStore(k)' PROVE MayStore(k)
    BY <1>1, <2>1, <2>2, Untouched
  <2>3. \A k \in Job : MayStore(k)' => MayStore(k) \/ k = retrying
    BY <2>2
  <2>4. QED
    BY <1>1, <2>3
<1>4. QED
  BY <1>1, <1>2, <1>3

\* What a step makes of the jobs that may store a message.
LEMMA StepMay ==
  ASSUME LineInv, LineInv', Next
  PROVE  \/ (\A k \in Job : MayStore(k)' => MayStore(k)) /\ UNCHANGED messages
         \/ /\ \E x : \A k \in Job : MayStore(k)' => MayStore(k) \/ k = x
            /\ faults' = faults + 1 /\ UNCHANGED messages
         \/ \E w \in Workers : StoreMessage(w)
         \/ \E i \in Job, id \in ReplayIds : ReplayDeadLetter(i, id)
         \/ \E r \in Requests : AddIngestionJob(r)
<1> DEFINE Quiet == (\A k \in Job : MayStore(k)' => MayStore(k)) /\ UNCHANGED messages
<1>1. ASSUME UNCHANGED <<jobs, worker, dlq, messages>> PROVE Quiet
  BY <1>1, Untouched DEF dlq
<1>2. ASSUME NEW r \in Requests, CheckDuplicate(r) \/ CreateInboundEvent(r) \/ HandlerFails(r)
      PROVE  Quiet
  BY <1>1, <1>2 DEF CheckDuplicate, CreateInboundEvent, HandlerFails, rows
<1>3. ASSUME NEW w \in Workers, RunStep(w), ~StoreMessage(w) PROVE Quiet
  <2>1. UNCHANGED messages
    BY <1>3 DEF RunStep, AcquireLock, FindIdentity, CreateEndUser, CreateIdentity,
         FindConversation, CreateConversation, StoreParts, MarkNormalized, AddAgentJob,
         ReleaseLock, rows
  <2>2. QED
    BY <1>3, <2>1, RunStepMay
<1>4. ASSUME NEW w \in Workers, SettleJob(w) PROVE Quiet
  BY <1>4, SettleMay DEF SettleJob, rows
<1>5. ASSUME NEW w \in Workers, AddDeadLetter(w) PROVE Quiet
  BY <1>5, AddDeadLetterMay DEF AddDeadLetter, rows
<1>6. ASSUME NEW w \in Workers, NEW i \in Job, StartJob(w, i) PROVE Quiet
  BY <1>6, StartJobMay DEF StartJob, rows
<1>7. ASSUME NEW i \in Job, StalledCheck(i) PROVE Quiet
  BY <1>7, StalledMay DEF StalledCheck, rows
<1>8. ASSUME Outside, ~ReplayFails PROVE Quiet
  <2>1. CASE (\E i \in Job : StoreDeadLetter(i)) \/ RemoveDeadLetter
    BY <2>1, LettersMay DEF StoreDeadLetter, RemoveDeadLetter, rows
  <2>2. CASE ~((\E i \in Job : StoreDeadLetter(i)) \/ RemoveDeadLetter)
    BY <1>1, <1>8, <2>2 DEF Outside, LockExpires, UpdateStatus, rows
  <2>3. QED
    BY <2>1, <2>2
<1>9. CASE (\E w \in Workers : CallFails(w) \/ Crash(w)) \/ ReplayFails
  BY <1>9, FailureMay
<1>10. QED
  BY <1>2, <1>3, <1>4, <1>5, <1>6, <1>7, <1>8, <1>9, NextCases DEF Handler

\* The jobs of a line that a step leaves alone.
LEMMA PendingMoves ==
  ASSUME LineInv, Next, NEW X, \A k \in Job : MayStore(k)' => MayStore(k) \/ k \in X, NEW j
  PROVE  Pending(j)' \subseteq Pending(j) \cup X
<1>1. \A k \in Job : MayStore(k) => Line(k)' = Line(k)
  BY MayStoreKnown, LineStays DEF LineInv, DeadLetterInv
<1>2. QED
  BY <1>1 DEF Pending

\* No message changes its line.
LEMMA CopiesStay ==
  ASSUME LineInv, Next, NEW j
  PROVE  Copies(j) = {m \in DOMAIN messages : JobId(jobs'[messages[m].job].data.req) = j}
<1>1. \A m \in DOMAIN messages : messages[m] \in Message
  BY DEF LineInv, DeadLetterInv, Inv, TypeOK
<1>2. \A m \in DOMAIN messages : messages[m].job \in Job /\ jobs[messages[m].job].state # "absent"
  BY <1>1 DEF LineInv, MessagesHaveJobs, Message
<1>3. \A m \in DOMAIN messages : jobs'[messages[m].job].data = jobs[messages[m].job].data
  BY <1>2, DataIsStable DEF LineInv, DeadLetterInv
<1>4. QED
  BY <1>3 DEF Copies, Line

\* A new copy takes the place of a job, a new job the place of another one or of
\* a failure, or there was nothing yet.
PaysFor(C, P, f, D, Q, g) ==
  \/ D = C /\ Q \subseteq P /\ g >= f
  \/ D = C /\ g = f + 1 /\ \E x : Q \subseteq P \cup {x}
  \/ g = f /\ \E x \in P : \E n : D = C \cup {n} /\ Q \subseteq P \ {x}
  \/ D = C /\ g = f /\ \E x \in P : \E y : Q \subseteq (P \ {x}) \cup {y}
  \/ D = {} /\ \E y : Q \subseteq {y}

\* What is paid for stays so.
LEMMA Pays ==
  ASSUME NEW C, NEW P, NEW f \in Nat, NEW C2, NEW P2, NEW f2 \in Nat,
         Paid(C, P, f), PaysFor(C, P, f, C2, P2, f2)
  PROVE  Paid(C2, P2, f2)
<1> DEFINE Goal == /\ IsFiniteSet(C2) /\ IsFiniteSet(P2)
                   /\ Cardinality(C2) + Cardinality(P2) <= 1 + f2
<1> USE DEF Paid
<1>1. Cardinality(C) \in Nat /\ Cardinality(P) \in Nat
  BY FS_CardinalityType
<1>2. ASSUME NEW S, IsFiniteSet(S), NEW T, T \subseteq S
      PROVE  IsFiniteSet(T) /\ Cardinality(T) \in Nat /\ Cardinality(S) \in Nat
             /\ Cardinality(T) <= Cardinality(S)
  BY <1>2, FS_Subset, FS_CardinalityType
<1>3. ASSUME NEW S, IsFiniteSet(S), NEW x
      PROVE  IsFiniteSet(S \cup {x}) /\ Cardinality(S \cup {x}) <= Cardinality(S) + 1
             /\ Cardinality(S \cup {x}) \in Nat
  <2>1. /\ IsFiniteSet(S \cup {x})
        /\ Cardinality(S \cup {x}) = Cardinality(S) \/ Cardinality(S \cup {x}) = Cardinality(S) + 1
    <3>1. CASE x \in S
      <4>1. S \cup {x} = S
        BY <3>1
      <4>2. QED
        BY <1>3, <4>1
    <3>2. CASE x \notin S
      BY <1>3, <3>2, FS_AddElement
    <3>3. QED
      BY <3>1, <3>2
  <2>2. Cardinality(S) \in Nat
    BY <1>3, FS_CardinalityType
  <2>3. QED
    BY <2>1, <2>2
<1>4. ASSUME NEW x \in P PROVE IsFiniteSet(P \ {x}) /\ Cardinality(P \ {x}) = Cardinality(P) - 1
                               /\ Cardinality(P \ {x}) \in Nat
  BY <1>4, FS_RemoveElement, FS_CardinalityType
<1>5. CASE C2 = C /\ P2 \subseteq P /\ f2 >= f
  BY <1>1, <1>2, <1>5
<1>6. ASSUME C2 = C, f2 = f + 1, NEW x, P2 \subseteq P \cup {x} PROVE Goal
  <2>1. IsFiniteSet(P \cup {x}) /\ Cardinality(P \cup {x}) <= Cardinality(P) + 1
        /\ Cardinality(P \cup {x}) \in Nat
    BY <1>3
  <2>2. IsFiniteSet(P2) /\ Cardinality(P2) \in Nat /\ Cardinality(P2) <= Cardinality(P \cup {x})
    BY <1>2, <1>6, <2>1
  <2>3. QED
    BY <1>1, <1>6, <2>1, <2>2
<1>7. ASSUME f2 = f, NEW x \in P, NEW n, C2 = C \cup {n}, P2 \subseteq P \ {x} PROVE Goal
  <2>1. IsFiniteSet(C2) /\ Cardinality(C2) <= Cardinality(C) + 1 /\ Cardinality(C2) \in Nat
    BY <1>3, <1>7
  <2>2. IsFiniteSet(P \ {x}) /\ Cardinality(P \ {x}) = Cardinality(P) - 1
    BY <1>4
  <2>3. IsFiniteSet(P2) /\ Cardinality(P2) \in Nat /\ Cardinality(P2) <= Cardinality(P \ {x})
    BY <1>2, <1>7, <2>2
  <2>4. QED
    BY <1>1, <1>7, <2>1, <2>2, <2>3
<1>8. ASSUME C2 = C, f2 = f, NEW x \in P, NEW y, P2 \subseteq (P \ {x}) \cup {y} PROVE Goal
  <2>1. IsFiniteSet(P \ {x}) /\ Cardinality(P \ {x}) = Cardinality(P) - 1
    BY <1>4
  <2>2. /\ IsFiniteSet((P \ {x}) \cup {y}) /\ Cardinality((P \ {x}) \cup {y}) \in Nat
        /\ Cardinality((P \ {x}) \cup {y}) <= Cardinality(P \ {x}) + 1
    BY <1>3, <2>1
  <2>3. /\ IsFiniteSet(P2) /\ Cardinality(P2) \in Nat
        /\ Cardinality(P2) <= Cardinality((P \ {x}) \cup {y})
    BY <1>2, <1>8, <2>2
  <2>4. QED
    BY <1>1, <1>8, <2>1, <2>2, <2>3
<1>9. ASSUME C2 = {}, NEW y, P2 \subseteq {y} PROVE Goal
  <2>1. IsFiniteSet({y}) /\ Cardinality({y}) = 1
    BY FS_Singleton
  <2>2. IsFiniteSet(P2) /\ Cardinality(P2) \in Nat /\ Cardinality(P2) <= 1
    BY <1>2, <1>9, <2>1
  <2>3. IsFiniteSet(C2) /\ Cardinality(C2) = 0
    BY <1>9, FS_EmptySet
  <2>4. QED
    BY <2>2, <2>3
<1>10. QED
  BY <1>5, <1>6, <1>7, <1>8, <1>9 DEF PaysFor


\* The message that a run stores is no longer to come.
LEMMA StorePays ==
  ASSUME LineInv, LineInv', NEW w \in Workers, StoreMessage(w), Next, NEW j \in Job
  PROVE  \/ Copies(j)' = Copies(j) /\ Pending(j)' \subseteq Pending(j)
         \/ \E x \in Pending(j) : \E n : /\ Copies(j)' = Copies(j) \cup {n}
                                         /\ Pending(j)' \subseteq Pending(j) \ {x}
<1>1. Inv /\ worker \in [Workers -> Run] /\ messages \in Seq(Message) /\ UNCHANGED jobs
  BY DEF StoreMessage, LineInv, DeadLetterInv, Inv, TypeOK
<1>2. RunStep(w) /\ Running(w) /\ ~HasDone(w) /\ worker[w].ok
  BY DEF RunStep, StoreMessage, At, Running, PCs, Locked, HasDone, Stored, LineInv, OkUntilFailed
<1>3. PICK i \in Job : worker[w].job = i /\ jobs[i].state = "active"
  BY <1>1, <1>2 DEF Inv, RunsAreActive
<1>4. MayStore(i)
  BY <1>2, <1>3, MayStoreRuns
<1>5. RunGoesOn(w)
  BY <1>1, <1>2, RunStepInv
<1>6. ~MayStore(i)'
  <2>1. Running(w)' /\ worker'[w].job = i
    BY <1>3, <1>5 DEF RunGoesOn
  <2>2. HasDone(w)'
    BY <1>1, <1>2 DEF StoreMessage, Becomes, HasDone, Stored, Run
  <2>3. QED
    BY <2>1, <2>2, DoneIsDone DEF LineInv
<1>7. \A k \in Job : MayStore(k)' => MayStore(k) /\ k # i
  BY <1>2, <1>6, RunStepMay
<1>8. Pending(j)' \subseteq Pending(j) \ {i}
  BY <1>1, <1>7 DEF Pending, Line
<1>9. /\ DOMAIN messages' = DOMAIN messages \cup {Len(messages) + 1}
      /\ messages'[Len(messages) + 1].job = i
      /\ \A m \in DOMAIN messages : messages'[m] = messages[m]
  <2>1. PICK row : row.job = i /\ messages' = Append(messages, row)
    BY <1>3 DEF StoreMessage
  <2>2. QED
    BY <1>1, <2>1
<1>10. PICK n : /\ DOMAIN messages' = DOMAIN messages \cup {n} /\ messages'[n].job = i
                /\ \A m \in DOMAIN messages : messages'[m] = messages[m]
  BY <1>9
<1>11. Copies(j)' = {m \in DOMAIN messages' : Line(messages'[m].job) = j}
  BY <1>1 DEF Copies, Line
<1>12. CASE Line(i) = j
  <2>1. Copies(j)' = Copies(j) \cup {n}
    BY <1>10, <1>11, <1>12 DEF Copies
  <2>2. i \in Pending(j)
    BY <1>4, <1>12 DEF Pending
  <2>3. QED
    BY <1>8, <2>1, <2>2
<1>13. CASE Line(i) # j
  <2>1. n \notin DOMAIN messages \/ Line(messages[n].job) # j
    BY <1>10, <1>13
  <2>2. Copies(j)' = Copies(j)
    BY <1>10, <1>11, <1>13, <2>1 DEF Copies
  <2>3. QED
    BY <1>8, <2>2
<1>14. QED
  BY <1>12, <1>13

\* A replay stores the message in place of the job it replays.
LEMMA ReplayPays ==
  ASSUME LineInv, NEW i \in Job, NEW id \in ReplayIds, ReplayDeadLetter(i, id), Next,
         NEW j \in Job
  PROVE  \/ Pending(j)' \subseteq Pending(j)
         \/ \E x \in Pending(j) : \E y : Pending(j)' \subseteq (Pending(j) \ {x}) \cup {y}
<1>1. /\ Inv /\ DeadLettersAreFinal /\ id \in Job /\ retrying = None /\ deadLetter[i] = "failed"
      /\ jobs[id].state = "absent" /\ retrying' = i /\ UNCHANGED <<worker, deadLetter>>
  BY DEF ReplayDeadLetter, LineInv, DeadLetterInv, Job
<1>2. jobs[i].state = "failed" /\ i # id /\ \A v \in Workers : worker[v].job # i
  BY <1>1 DEF DeadLettersAreFinal, Exhausted
<1>3. /\ jobs'[id] = Queued(Sanitized(jobs[i].data))
      /\ \A k \in Job \ {id} : jobs'[k] = jobs[k]
  BY <1>1 DEF ReplayDeadLetter, Inv, TypeOK
<1>4. Line(id)' = Line(i)
  <2>1. jobs[i].data \in Data
    BY <1>1 DEF Inv, TypeOK, JobOf
  <2>2. Sanitized(jobs[i].data).req = jobs[i].data.req
    BY <2>1 DEF Sanitized, Data
  <2>3. QED
    BY <1>3, <2>2 DEF Line, Queued
<1>5. \A k \in Job \ {id} : Line(k)' = Line(k)
  BY <1>3 DEF Line
<1>6. MayStore(i)
  BY <1>1, IngestionAssumption DEF MayStore
<1>7. ~MayStore(i)'
  <2>1. jobs'[i].state = "failed"
    BY <1>2, <1>3
  <2>2. \A v \in Workers : worker'[v].job # i
    BY <1>1, <1>2
  <2>3. QED
    BY <1>1, <2>1, <2>2 DEF MayStore
<1>8. ASSUME NEW k \in Job \ {id}, MayStore(k)' PROVE MayStore(k) /\ k # i
  <2>1. k # None
    BY IngestionAssumption
  <2>2. QED
    BY <1>1, <1>3, <1>7, <1>8, <2>1, Untouched
<1>9. CASE Line(i) = j
  <2>1. i \in Pending(j)
    BY <1>6, <1>9 DEF Pending
  <2>2. Pending(j)' \subseteq (Pending(j) \ {i}) \cup {id}
    BY <1>5, <1>8 DEF Pending
  <2>3. QED
    BY <2>1, <2>2
<1>10. CASE Line(i) # j
  <2>1. Pending(j)' \subseteq Pending(j)
    BY <1>4, <1>5, <1>8, <1>10 DEF Pending
  <2>2. QED
    BY <2>1
<1>11. QED
  BY <1>9, <1>10

\* A request that the queue does not know is the first of its line.
LEMMA RequestPays ==
  ASSUME LineInv, NEW r \in Requests, AddIngestionJob(r), Next, NEW j \in Job
  PROVE  \/ Pending(j)' \subseteq Pending(j)
         \/ Copies(j) = {} /\ \E y : Pending(j)' \subseteq {y}
<1>1. Inv /\ LinesHaveAHead /\ MessagesHaveJobs /\ UNCHANGED <<worker, dlq>>
  BY DEF AddIngestionJob, LineInv, DeadLetterInv
<1>2. PICK h \in Job : h = JobId(r)
  BY IngestionAssumption DEF JobId, Job, Body
<1>3. /\ jobs'[h] = Added(jobs[h], JobData(r))
      /\ \A k \in Job \ {h} : jobs'[k] = jobs[k]
  BY <1>1, <1>2 DEF AddIngestionJob, Inv, TypeOK
<1>4. \A k \in Job : MayStore(k)' => MayStore(k) \/ k = h
  BY <1>1, <1>3, Untouched DEF dlq
<1>5. CASE jobs[h].state # "absent"
  <2>1. \A k \in Job : jobs'[k] = jobs[k]
    BY <1>3, <1>5 DEF Added
  <2>2. \A k \in Job : MayStore(k)' => MayStore(k)
    BY <1>1, <2>1, Untouched DEF dlq
  <2>3. QED
    BY <2>1, <2>2 DEF Pending, Line
<1>6. CASE jobs[h].state = "absent"
  <2>1. \A k \in Job : jobs[k].state # "absent" => Line(k) # h
    BY <1>1, <1>6 DEF LinesHaveAHead
  <2>2. Line(h)' = h
    BY <1>2, <1>3, <1>6 DEF Line, Added, Queued, JobData
  <2>3. \A k \in Job \ {h} : Line(k)' = Line(k)
    BY <1>3 DEF Line
  <2>4. \A k \in Job : MayStore(k) => jobs[k].state # "absent"
    BY MayStoreKnown DEF LineInv
  <2>5. CASE j = h
    <3>1. \A m \in DOMAIN messages : messages[m].job \in Job
      <4>1. \A m \in DOMAIN messages : messages[m] \in Message
        BY <1>1 DEF Inv, TypeOK
      <4>2. QED
        BY <4>1 DEF Message
    <3>2. Copies(j) = {}
      BY <1>1, <2>1, <2>5, <3>1 DEF Copies, MessagesHaveJobs
    <3>3. Pending(j)' \subseteq {h}
      BY <1>4, <2>1, <2>3, <2>4, <2>5 DEF Pending
    <3>4. QED
      BY <3>2, <3>3
  <2>6. CASE j # h
    BY <1>4, <2>2, <2>3, <2>6 DEF Pending
  <2>7. QED
    BY <2>5, <2>6
<1>7. QED
  BY <1>5, <1>6

\* Every step pays for the copies it makes.
LEMMA AccountsNext ==
  ASSUME LineInv, LineInv', CopiesArePaid, [Next]_vars
  PROVE  CopiesArePaid'
<1>1. Inv /\ faults \in Nat /\ faults' \in Nat
  BY IngestionAssumption DEF LineInv, DeadLetterInv, Inv, TypeOK
<1>2. SUFFICES ASSUME NEW j \in Job
               PROVE  Paid(Copies(j)', Pending(j)', faults')
  BY DEF CopiesArePaid
<1>3. Paid(Copies(j), Pending(j), faults)
  BY DEF CopiesArePaid
<1> DEFINE Goal == PaysFor(Copies(j), Pending(j), faults, Copies(j)', Pending(j)', faults')
<1>4. ASSUME Next, UNCHANGED messages PROVE Copies(j)' = Copies(j)
  <2>1. Copies(j)' = {m \in DOMAIN messages : JobId(jobs'[messages[m].job].data.req) = j}
    BY <1>4 DEF Copies, Line
  <2>2. QED
    BY <1>4, <2>1, CopiesStay
<1>5. Next => faults' >= faults
  <2>1. ASSUME Next PROVE faults' = faults \/ faults' = faults + 1
    BY <1>1, <2>1, CountersMove
  <2>2. QED
    BY <1>1, <2>1
<1>6. ASSUME Next, UNCHANGED messages, \A k \in Job : MayStore(k)' => MayStore(k) PROVE Goal
  <2>1. Pending(j)' \subseteq Pending(j) \cup {}
    BY <1>6, PendingMoves
  <2>2. QED
    BY <1>4, <1>5, <1>6, <2>1 DEF PaysFor
<1>7. ASSUME Next, UNCHANGED messages, faults' = faults + 1,
             NEW x, \A k \in Job : MayStore(k)' => MayStore(k) \/ k = x
      PROVE  Goal
  <2>1. \A k \in Job : MayStore(k)' => MayStore(k) \/ k \in {x}
    BY <1>7
  <2>2. Pending(j)' \subseteq Pending(j) \cup {x}
    BY <1>7, <2>1, PendingMoves
  <2>3. QED
    BY <1>4, <1>7, <2>2 DEF PaysFor
<1>8. ASSUME Next, NEW w \in Workers, StoreMessage(w) PROVE Goal
  <2>1. faults' = faults
    BY <1>8 DEF StoreMessage
  <2>2. QED
    BY <1>5, <1>8, <2>1, StorePays DEF PaysFor
<1>9. ASSUME Next, NEW i \in Job, NEW id \in ReplayIds, ReplayDeadLetter(i, id) PROVE Goal
  <2>1. faults' = faults /\ UNCHANGED messages
    BY <1>9 DEF ReplayDeadLetter, rows
  <2>2. Copies(j)' = Copies(j)
    BY <1>4, <1>9, <2>1
  <2>3. QED
    BY <1>5, <1>9, <2>1, <2>2, ReplayPays DEF PaysFor
<1>10. ASSUME Next, NEW r \in Requests, AddIngestionJob(r) PROVE Goal
  <2>1. UNCHANGED messages
    BY <1>10 DEF AddIngestionJob, rows
  <2>2. Copies(j)' = Copies(j)
    BY <1>4, <1>10, <2>1
  <2>3. QED
    BY <1>5, <1>10, <2>2, RequestPays DEF PaysFor
<1>11. CASE UNCHANGED vars
  <2>1. Copies(j)' = Copies(j) /\ Pending(j)' = Pending(j) /\ faults' = faults
    BY <1>11 DEF vars, Copies, Pending, Line, MayStore, HasDone, At
  <2>2. QED
    BY <1>3, <2>1
<1>12. CASE Next
  <2>1. Goal
    BY <1>6, <1>7, <1>8, <1>9, <1>10, <1>12, StepMay
  <2>2. PICK f \in Nat : f = faults
    BY <1>1
  <2>3. PICK g \in Nat : g = faults'
    BY <1>1
  <2>4. Paid(Copies(j), Pending(j), f) /\ PaysFor(Copies(j), Pending(j), f, Copies(j)', Pending(j)', g)
    BY <1>3, <2>1, <2>2, <2>3
  <2>5. Paid(Copies(j)', Pending(j)', g)
    BY <2>4, Pays
  <2>6. QED
    BY <2>3, <2>5
<1>13. QED
  BY <1>11, <1>12

\* The accounts of every behaviour are paid.
LEMMA AccountsAlways == Spec => [](LineInv /\ CopiesArePaid)
<1>1. Init => LineInv /\ CopiesArePaid
  <2> SUFFICES ASSUME Init PROVE LineInv /\ CopiesArePaid
    OBVIOUS
  <2>1. Inv
    BY InitInv
  <2>2. \A i \in Job : jobs[i].state = "absent" /\ deadLetter[i] = "none"
    BY DEF Init, NoJob
  <2>3. \A w \in Workers : worker[w].pc = "idle" /\ worker[w].job = None /\ worker[w].ok
    BY DEF Init, Idle
  <2>4. messages = <<>> /\ retrying = None
    BY DEF Init
  <2>5. DeadLetterInv
    BY <2>1, <2>2, <2>3, <2>4
    DEF DeadLetterInv, IdleHoldsNothing, ListenersComeFirst, RetriedIsDead,
        DeadLettersAreFinal, At
  <2>6. LinesHaveAHead /\ MessagesHaveJobs /\ OkUntilFailed
    BY <2>2, <2>3, <2>4 DEF LinesHaveAHead, MessagesHaveJobs, OkUntilFailed
  <2>7. ASSUME NEW j \in Job PROVE Pending(j) = {} /\ Copies(j) = {}
    <3>1. \A i \in Job : ~MayStore(i)
      BY <2>2, <2>3 DEF MayStore, At
    <3>2. QED
      BY <2>4, <3>1 DEF Pending, Copies
  <2>8. IsFiniteSet({}) /\ Cardinality({}) = 0
    BY FS_EmptySet
  <2>9. faults = 0
    BY DEF Init
  <2>10. CopiesArePaid
    BY <2>7, <2>8, <2>9 DEF CopiesArePaid, Paid
  <2>11. QED
    BY <2>5, <2>6, <2>10 DEF LineInv
<1>2. LineInv /\ CopiesArePaid /\ [Next]_vars => LineInv' /\ CopiesArePaid'
  BY LineInvNext, AccountsNext
<1>3. QED
  BY <1>1, <1>2, PTL DEF Spec

\* The copies of one line are no more than the failures and one.
LEMMA CopiesBounded ==
  ASSUME LineInv, CopiesArePaid, NEW j \in Job, NEW S \in SUBSET Copies(j)
  PROVE  Cardinality(S) <= 1 + faults
<1>1. /\ IsFiniteSet(Pending(j)) /\ IsFiniteSet(Copies(j))
      /\ Cardinality(Copies(j)) + Cardinality(Pending(j)) <= 1 + faults
  BY DEF CopiesArePaid, Paid
<1>2. faults \in Nat
  BY IngestionAssumption DEF LineInv, DeadLetterInv, Inv, TypeOK
<1>3. Cardinality(Pending(j)) \in Nat /\ Cardinality(Copies(j)) \in Nat
  BY <1>1, FS_CardinalityType
<1>4. IsFiniteSet(S) /\ Cardinality(S) <= Cardinality(Copies(j))
  BY <1>1, FS_Subset
<1>5. Cardinality(S) \in Nat
  BY <1>4, FS_CardinalityType
<1>6. QED
  BY <1>1, <1>2, <1>3, <1>4, <1>5

\* All the copies made for one request are of one line.
LEMMA CopiesOfRequest == LineInv /\ CopiesArePaid => OneMessagePerRequest
<1> SUFFICES ASSUME LineInv, CopiesArePaid, NEW r \in Requests
             PROVE  Cardinality(StoredFor({r})) <= 1 + faults
  BY DEF OneMessagePerRequest
<1>1. PICK j \in Job : j = JobId(r)
  BY IngestionAssumption DEF JobId, Job, Body
<1>2. StoredFor({r}) \subseteq Copies(j)
  BY <1>1 DEF StoredFor, Copies, Line
<1>3. QED
  BY <1>2, CopiesBounded

\* The same of all the requests with one idempotency key: their jobs are one.
LEMMA CopiesOfKey == LineInv /\ CopiesArePaid => OneMessagePerKey
<1> SUFFICES ASSUME LineInv, CopiesArePaid, NEW k \in Keys
             PROVE  Cardinality(StoredFor({r \in Requests : Payload[r].key = k})) <= 1 + faults
  BY DEF OneMessagePerKey
<1>1. k \in Job /\ k # None
  BY IngestionAssumption DEF Job
<1>2. StoredFor({r \in Requests : Payload[r].key = k}) \subseteq Copies(k)
  BY <1>1 DEF StoredFor, Copies, Line, JobId
<1>3. QED
  BY <1>1, <1>2, CopiesBounded

\* A message is stored once for its request and for its idempotency key, and
\* once more for a failed call, a crash or a replay that died: contention for
\* the lock of the customer, retries after it, requests that both pass the
\* duplicate check and replays of the dead-letter queue store nothing twice.
THEOREM FewCopies == Spec => []DuplicatesNeedFaults
<1>1. LineInv /\ CopiesArePaid => DuplicatesNeedFaults
  BY CopiesOfRequest, CopiesOfKey DEF DuplicatesNeedFaults
<1>2. QED
  BY AccountsAlways, <1>1, PTL

-----------------------------------------------------------------------------
(* What WorkItem promises of every ingestion job.                          *)

\* What the operations of the queue are to WorkItem.
LEMMA JobsAreWork ==
  ASSUME NEW D, NEW job \in JobOf(D)
  PROVE  /\ Tries(job) \in Nat /\ TryLimit \in Nat /\ FewestTries \in Nat
         /\ \A d \in D : /\ Status(NoJob(d)) = "none" /\ Tries(NoJob(d)) = 0
                         /\ Status(Queued(d)) = "waiting" /\ Tries(Queued(d)) = 0
         /\ Runnable(job) /\ job.attempts < MaxAttempts =>
              /\ Status(job) = "waiting" /\ Tries(job) < TryLimit
              /\ Status(Started(job)) = "trying" /\ Tries(Started(job)) = Tries(job) + 1
         /\ job.state = "active" => Status(job) = "trying"
         /\ job.state = "active" /\ job.attempts < MaxAttempts =>
              /\ Status(Completed(job)) = "completed" /\ Tries(Completed(job)) = Tries(job)
              /\ Tries(AttemptFailed(job)) = Tries(job) /\ Tries(Stalled(job)) = Tries(job)
              /\ \/ Status(AttemptFailed(job)) = "waiting"
                 \/ Status(AttemptFailed(job)) = "failed" /\ Tries(job) >= FewestTries
              /\ \/ Status(Stalled(job)) = "waiting"
                 \/ Status(Stalled(job)) = "failed" /\ Tries(job) >= FewestTries
<1> PICK a, s : a = job.attempts /\ s = job.stalls
  OBVIOUS
<1>1. /\ a \in 0..MaxAttempts /\ s \in 0..MaxStalls /\ job.state \in JobStates
      /\ MaxAttempts \in Nat \ {0} /\ MaxStalls \in Nat
  BY BullAssumption DEF JobOf
<1>2. Tries(job) \in Nat /\ TryLimit \in Nat /\ FewestTries \in Nat
  BY <1>1 DEF Tries, TryLimit, FewestTries
<1>3. \A d \in D : /\ Status(NoJob(d)) = "none" /\ Tries(NoJob(d)) = 0
                   /\ Status(Queued(d)) = "waiting" /\ Tries(Queued(d)) = 0
  BY DEF Status, Tries, NoJob, Queued
<1>4. ASSUME Runnable(job), a < MaxAttempts
      PROVE  /\ Status(job) = "waiting" /\ Tries(job) < TryLimit
             /\ Status(Started(job)) = "trying" /\ Tries(Started(job)) = Tries(job) + 1
  <2>1. /\ Started(job).state = "active" /\ Started(job).attempts = a
        /\ Started(job).stalls = s
    BY DEF Started, JobOf
  <2>2. Tries(job) = a + s /\ Tries(Started(job)) = a + s + 1
    BY <1>1, <1>4, <2>1 DEF Tries, Runnable
  <2>3. a + s < TryLimit
    BY <1>1, <1>4 DEF TryLimit
  <2>4. Status(job) = "waiting" /\ Status(Started(job)) = "trying"
    BY <1>4, <2>1 DEF Status, Runnable
  <2>5. QED
    BY <1>1, <2>2, <2>3, <2>4
<1>5. job.state = "active" => Status(job) = "trying"
  BY DEF Status
<1>6. ASSUME job.state = "active", a < MaxAttempts
      PROVE  /\ Status(Completed(job)) = "completed" /\ Tries(Completed(job)) = Tries(job)
             /\ Tries(AttemptFailed(job)) = Tries(job) /\ Tries(Stalled(job)) = Tries(job)
             /\ \/ Status(AttemptFailed(job)) = "waiting"
                \/ Status(AttemptFailed(job)) = "failed" /\ Tries(job) >= FewestTries
             /\ \/ Status(Stalled(job)) = "waiting"
                \/ Status(Stalled(job)) = "failed" /\ Tries(job) >= FewestTries
  <2>1. Tries(job) = a + s + 1
    BY <1>1, <1>6 DEF Tries
  <2>2. Status(Completed(job)) = "completed" /\ Tries(Completed(job)) = a + s + 1
    <3>1. /\ Completed(job).state = "completed" /\ Completed(job).attempts = a
          /\ Completed(job).stalls = s
      BY DEF Completed, JobOf
    <3>2. QED
      BY <1>1, <3>1 DEF Status, Tries
  <2>3. /\ Tries(AttemptFailed(job)) = a + s + 1
        /\ \/ Status(AttemptFailed(job)) = "waiting"
           \/ Status(AttemptFailed(job)) = "failed" /\ a + s + 1 >= FewestTries
    <3>1. /\ AttemptFailed(job).attempts = a + 1 /\ AttemptFailed(job).stalls = s
          /\ AttemptFailed(job).state = IF a + 1 < MaxAttempts THEN "delayed" ELSE "failed"
      BY DEF AttemptFailed, JobOf
    <3>2. CASE a + 1 < MaxAttempts
      BY <1>1, <3>1, <3>2 DEF Status, Tries
    <3>3. CASE a + 1 >= MaxAttempts
      <4>1. Status(AttemptFailed(job)) = "failed" /\ Tries(AttemptFailed(job)) = (a + 1) + s
        BY <1>1, <3>1, <3>3 DEF Status, Tries
      <4>2. a + s + 1 >= FewestTries
        BY <1>1, <3>3 DEF FewestTries
      <4>3. QED
        BY <1>1, <4>1, <4>2
    <3>4. QED
      BY <1>1, <3>2, <3>3
  <2>4. /\ Tries(Stalled(job)) = a + s + 1
        /\ \/ Status(Stalled(job)) = "waiting"
           \/ Status(Stalled(job)) = "failed" /\ a + s + 1 >= FewestTries
    <3>1. CASE s < MaxStalls
      <4>1. /\ Stalled(job).attempts = a /\ Stalled(job).stalls = s + 1
            /\ Stalled(job).state = "waiting"
        BY <3>1 DEF Stalled, JobOf
      <4>2. QED
        BY <1>1, <4>1 DEF Status, Tries
    <3>2. CASE s >= MaxStalls
      <4>1. /\ Stalled(job).attempts = a /\ Stalled(job).stalls = s
            /\ Stalled(job).state = "failed"
        BY <1>1, <3>2 DEF Stalled, JobOf
      <4>2. Status(Stalled(job)) = "failed" /\ Tries(Stalled(job)) = a + s + 1
        BY <1>1, <1>6, <4>1 DEF Status, Tries
      <4>3. a + s + 1 >= FewestTries
        BY <1>1, <3>2 DEF FewestTries
      <4>4. QED
        BY <4>2, <4>3
    <3>3. QED
      BY <1>1, <3>1, <3>2
  <2>5. QED
    BY <2>1, <2>2, <2>3, <2>4
<1>7. QED
  BY <1>2, <1>3, <1>4, <1>5, <1>6

\* Where a run has not stored its message yet.
BeforeStore == {"lock", "identity", "endUser", "link", "conversation", "open", "message"}

\* A job nobody added has not been tried.
AbsentAreNew == \A i \in Job : jobs[i].state = "absent" => Tries(jobs[i]) = 0

AgentJobsHaveMessages == \A a \in agentJobs : a.msg \in DOMAIN messages

\* A try stores one message, and has one to store until it has.
ResultsAreBounded ==
  /\ \A i \in Job : Cardinality(ResultsOf(i)) <= Tries(jobs[i])
  /\ \A w \in Workers : worker[w].pc \in BeforeStore =>
       Cardinality(ResultsOf(worker[w].job)) < Tries(jobs[worker[w].job])

Counted == AbsentAreNew /\ AgentJobsHaveMessages /\ ResultsAreBounded

Books == LineInv /\ HandoverInv

WorkSteps ==
  \A i \in Job :
    \/ Work(i)!Next
    \/ UNCHANGED <<Status(jobs[i]), Tries(jobs[i]), Cardinality(ResultsOf(i)),
                  Cardinality(PassedOn(i))>>

\* What a job has stored and passed on can be counted.
LEMMA ResultsAreFinite ==
  ASSUME Inv, NEW i
  PROVE  /\ IsFiniteSet(ResultsOf(i)) /\ Cardinality(ResultsOf(i)) \in Nat
         /\ IsFiniteSet(PassedOn(i)) /\ Cardinality(PassedOn(i)) \in Nat
         /\ PassedOn(i) \subseteq ResultsOf(i)
<1>1. messages \in Seq(Message)
  BY DEF Inv, TypeOK
<1>2. DOMAIN messages = 1..Len(messages) /\ Len(messages) \in Nat
  BY <1>1
<1>3. IsFiniteSet(DOMAIN messages)
  BY <1>2, FS_Interval
<1>4. ResultsOf(i) \subseteq DOMAIN messages /\ PassedOn(i) \subseteq ResultsOf(i)
  BY DEF ResultsOf, PassedOn
<1>5. IsFiniteSet(ResultsOf(i)) /\ IsFiniteSet(PassedOn(i))
  BY <1>3, <1>4, FS_Subset
<1>6. QED
  BY <1>4, <1>5, FS_CardinalityType

\* A job nothing happens to.
LEMMA SameWork ==
  ASSUME NEW i, jobs'[i] = jobs[i], ResultsOf(i)' = ResultsOf(i), PassedOn(i)' = PassedOn(i)
  PROVE  UNCHANGED <<Status(jobs[i]), Tries(jobs[i]), Cardinality(ResultsOf(i)),
                    Cardinality(PassedOn(i))>>
BY DEF Status, Tries

LEMMA RowsStay ==
  ASSUME UNCHANGED <<messages, agentJobs>>, NEW i
  PROVE  ResultsOf(i)' = ResultsOf(i) /\ PassedOn(i)' = PassedOn(i)
BY DEF ResultsOf, PassedOn

\* The books are empty at first.
LEMMA WorkStarts == Init => Counted /\ \A i \in Job : Work(i)!Init
<1> SUFFICES ASSUME Init PROVE Counted /\ \A i \in Job : Work(i)!Init
  OBVIOUS
<1>1. /\ \A i \in Job : Status(jobs[i]) = "none" /\ Tries(jobs[i]) = 0
      /\ messages = <<>> /\ agentJobs = {} /\ \A w \in Workers : worker[w].pc = "idle"
  BY DEF Init, NoJob, Status, Tries, Idle
<1>2. \A i : ResultsOf(i) = {} /\ PassedOn(i) = {}
  BY <1>1 DEF ResultsOf, PassedOn
<1>3. Cardinality({}) = 0
  BY FS_EmptySet
<1>4. \A i \in Job : Cardinality(ResultsOf(i)) = 0 /\ Cardinality(PassedOn(i)) = 0
  BY <1>2, <1>3
<1>5. Counted
  BY <1>1, <1>4 DEF Counted, AbsentAreNew, AgentJobsHaveMessages, ResultsAreBounded, BeforeStore
<1>6. \A i \in Job : Work(i)!Init
  BY <1>1, <1>4 DEF Work!Init
<1>7. QED
  BY <1>5, <1>6

\* Steps that touch no job and no row: the runs they move on from before the
\* message is stored go on with the same job.
LEMMA OtherWork ==
  ASSUME Books, Counted, UNCHANGED <<jobs, messages, agentJobs>>,
         \A v \in Workers : worker'[v].pc \in BeforeStore =>
           worker[v].pc \in BeforeStore /\ worker'[v].job = worker[v].job
  PROVE  Counted' /\ WorkSteps
<1>1. \A i : ResultsOf(i)' = ResultsOf(i) /\ PassedOn(i)' = PassedOn(i)
  BY RowsStay
<1>2. \A i : Cardinality(ResultsOf(i))' = Cardinality(ResultsOf(i)) /\ Tries(jobs[i])' = Tries(jobs[i])
  BY <1>1 DEF Tries
<1>3. \A i \in Job : Cardinality(ResultsOf(i))' <= Tries(jobs[i])'
  BY <1>2 DEF Counted, ResultsAreBounded
<1>4. ASSUME NEW v \in Workers, worker'[v].pc \in BeforeStore
      PROVE  Cardinality(ResultsOf(worker[v].job))' < Tries(jobs[worker[v].job])'
  <2>1. PICK i : i = worker[v].job
    OBVIOUS
  <2>2. worker[v].pc \in BeforeStore /\ worker'[v].job = i
    BY <1>4, <2>1
  <2>3. Cardinality(ResultsOf(i)) < Tries(jobs[i])
    BY <2>1, <2>2 DEF Counted, ResultsAreBounded
  <2>4. Cardinality(ResultsOf(i))' < Tries(jobs[i])'
    BY <1>2, <2>3
  <2>5. QED
    BY <2>2, <2>4
<1>5. BeforeStore' = BeforeStore
  BY DEF BeforeStore
<1>6. ResultsAreBounded'
  BY <1>3, <1>4, <1>5 DEF ResultsAreBounded
<1>7. AbsentAreNew' /\ AgentJobsHaveMessages'
  BY <1>2 DEF Counted, AbsentAreNew, AgentJobsHaveMessages
<1>8. WorkSteps
  BY <1>1, SameWork DEF WorkSteps
<1>9. QED
  BY <1>6, <1>7, <1>8 DEF Counted

\* Steps of the queue: job i changes, its tries do not become fewer, and a run
\* that has not stored its message is one of another job, or a new try of i.
LEMMA QueueWork ==
  ASSUME Books, Counted, UNCHANGED <<messages, agentJobs>>, NEW i \in Job, NEW job,
         jobs' = [jobs EXCEPT ![i] = job],
         job.state # "absent", Tries(job) \in Nat, Tries(job) >= Tries(jobs[i]),
         \/ Work(i)!Next
         \/ UNCHANGED <<Status(jobs[i]), Tries(jobs[i]), Cardinality(ResultsOf(i)),
                       Cardinality(PassedOn(i))>>,
         \A v \in Workers : worker'[v].pc \in BeforeStore =>
           \/ worker[v].pc \in BeforeStore /\ worker'[v] = worker[v] /\ worker[v].job # i
           \/ worker'[v].job = i /\ Tries(job) = Tries(jobs[i]) + 1
  PROVE  Counted' /\ WorkSteps
<1>1. Inv /\ jobs \in [Job -> JobOf(Data)]
  BY DEF Books, HandoverInv, DeadLetterInv, Inv, TypeOK
<1>2. jobs'[i] = job /\ \A k \in Job \ {i} : jobs'[k] = jobs[k]
  BY <1>1
<1>3. \A k : ResultsOf(k)' = ResultsOf(k) /\ PassedOn(k)' = PassedOn(k)
  BY RowsStay
<1>4. /\ \A k \in Job : Tries(jobs[k]) \in Nat
      /\ \A k : Cardinality(ResultsOf(k)) \in Nat /\ Cardinality(ResultsOf(k))' = Cardinality(ResultsOf(k))
  BY <1>1, <1>3, JobsAreWork, ResultsAreFinite
<1>5. /\ \A k \in Job : Cardinality(ResultsOf(k)) <= Tries(jobs[k])
      /\ \A w \in Workers : worker[w].pc \in BeforeStore =>
           Cardinality(ResultsOf(worker[w].job)) < Tries(jobs[worker[w].job])
  BY DEF Counted, ResultsAreBounded
<1>6. PICK n, t, u : n = Cardinality(ResultsOf(i)) /\ t = Tries(jobs[i]) /\ u = Tries(job)
  OBVIOUS
<1>7. n \in Nat /\ t \in Nat /\ u \in Nat /\ n <= t /\ t <= u
  BY <1>4, <1>5, <1>6
<1>8. n <= u /\ (u = t + 1 => n < u)
  BY <1>7
<1>9. ASSUME NEW k \in Job PROVE Cardinality(ResultsOf(k))' <= Tries(jobs'[k])
  <2>1. CASE k = i
    BY <1>2, <1>4, <1>6, <1>8, <2>1
  <2>2. CASE k # i
    BY <1>2, <1>4, <1>5, <2>2
  <2>3. QED
    BY <2>1, <2>2
<1>10. ASSUME NEW v \in Workers, worker'[v].pc \in BeforeStore
       PROVE  Cardinality(ResultsOf(worker[v].job))' < Tries(jobs'[worker'[v].job])
  <2>1. CASE worker[v].pc \in BeforeStore /\ worker'[v] = worker[v] /\ worker[v].job # i
    <3>1. PICK k : k = worker[v].job
      OBVIOUS
    <3>2. Running(v)
      BY <2>1 DEF Running, BeforeStore, PCs, Locked
    <3>3. k \in Job \ {i} /\ worker'[v].job = k
      BY <1>1, <2>1, <3>1, <3>2 DEF Inv, RunsAreActive
    <3>4. Cardinality(ResultsOf(k)) < Tries(jobs[k])
      BY <1>5, <2>1, <3>1
    <3>5. Cardinality(ResultsOf(k))' < Tries(jobs'[k])
      BY <1>2, <1>4, <3>3, <3>4
    <3>6. QED
      BY <3>3, <3>5
  <2>2. CASE worker'[v].job = i /\ Tries(job) = Tries(jobs[i]) + 1
    <3>1. Cardinality(ResultsOf(i))' < Tries(jobs'[i])
      BY <1>2, <1>4, <1>6, <1>8, <2>2
    <3>2. QED
      BY <2>2, <3>1
  <2>3. QED
    BY <1>10, <2>1, <2>2
<1>11. ResultsAreBounded'
  <2>1. BeforeStore' = BeforeStore
    BY DEF BeforeStore
  <2>2. QED
    BY <1>9, <1>10, <2>1 DEF ResultsAreBounded
<1>12. ASSUME NEW k \in Job, k # i
       PROVE  UNCHANGED <<Status(jobs[k]), Tries(jobs[k]), Cardinality(ResultsOf(k)),
                         Cardinality(PassedOn(k))>>
  BY <1>2, <1>3, <1>12, SameWork
<1>13. AbsentAreNew' /\ AgentJobsHaveMessages'
  BY <1>2 DEF Counted, AbsentAreNew, AgentJobsHaveMessages
<1>14. QED
  BY <1>11, <1>12, <1>13 DEF Counted, WorkSteps

\* Storing the message is the one result of the try.
LEMMA StoreMessageWork ==
  ASSUME Books, Counted, NEW w \in Workers, StoreMessage(w)
  PROVE  Counted' /\ WorkSteps
<1>1. Inv /\ messages \in Seq(Message) /\ UNCHANGED <<jobs, agentJobs>>
  BY DEF StoreMessage, Books, HandoverInv, DeadLetterInv, Inv, TypeOK
<1>2. RunStep(w) /\ Running(w) /\ worker[w].pc = "message" /\ worker[w].pc \in BeforeStore
  BY DEF RunStep, StoreMessage, At, Running, PCs, Locked, BeforeStore
<1>3. PICK i \in Job : i = worker[w].job /\ jobs[i].state = "active"
  BY <1>1, <1>2 DEF Inv, RunsAreActive
<1>4. RunGoesOn(w) /\ worker'[w].pc = "parts"
  <2>1. worker'[w] = [worker[w] EXCEPT !.msg = Len(messages) + 1, !.pc = "parts"] /\ worker[w] \in Run
    BY <1>1 DEF StoreMessage, Becomes, Inv, TypeOK
  <2>2. QED
    BY <1>1, <1>2, <2>1, RunStepInv DEF Run
<1>5. PICK n : /\ n \notin DOMAIN messages /\ DOMAIN messages' = DOMAIN messages \cup {n}
               /\ messages'[n].job = i
               /\ \A m \in DOMAIN messages : messages'[m] = messages[m]
  <2>1. PICK row : row.job = i /\ messages' = Append(messages, row)
    BY <1>3 DEF StoreMessage
  <2>2. QED
    BY <1>1, <2>1
<1>6. /\ ResultsOf(i)' = ResultsOf(i) \cup {n} /\ n \notin ResultsOf(i)
      /\ \A k \in Job \ {i} : ResultsOf(k)' = ResultsOf(k)
  BY <1>5 DEF ResultsOf
<1>7. \A k \in Job : PassedOn(k)' = PassedOn(k)
  <2>1. \A conv : [conv |-> conv, msg |-> n] \notin agentJobs
    BY <1>5 DEF Counted, AgentJobsHaveMessages
  <2>2. ASSUME NEW k \in Job PROVE PassedOn(k)' = PassedOn(k)
    <3>1. PassedOn(k)' = {m \in ResultsOf(k)' : [conv |-> messages'[m].conv, msg |-> m] \in agentJobs}
      BY <1>1 DEF PassedOn
    <3>2. /\ ResultsOf(k)' = ResultsOf(k) \/ ResultsOf(k)' = ResultsOf(k) \cup {n}
          /\ ResultsOf(k) \subseteq DOMAIN messages
      BY <1>6 DEF ResultsOf
    <3>3. QED
      BY <1>5, <2>1, <3>1, <3>2 DEF PassedOn
  <2>3. QED
    BY <2>2
<1>8. PICK c, t : c = Cardinality(ResultsOf(i)) /\ t = Tries(jobs[i])
  OBVIOUS
<1>9. /\ c \in Nat /\ t \in Nat /\ c < t /\ Cardinality(ResultsOf(i))' = c + 1
      /\ Tries(jobs[i])' = t
  <2>1. IsFiniteSet(ResultsOf(i)) /\ c \in Nat
    BY <1>1, <1>8, ResultsAreFinite
  <2>2. Cardinality(ResultsOf(i) \cup {n}) = c + 1
    BY <1>6, <1>8, <2>1, FS_AddElement
  <2>3. t \in Nat /\ Tries(jobs[i])' = t
    BY <1>1, <1>8, JobsAreWork DEF Inv, TypeOK, Tries
  <2>4. c < t
    BY <1>2, <1>3, <1>8 DEF Counted, ResultsAreBounded
  <2>5. QED
    BY <1>6, <2>1, <2>2, <2>3, <2>4
<1>10. Work(i)!Next
  <2>1. Status(jobs[i]) = "trying" /\ Status(jobs[i])' = Status(jobs[i])
    BY <1>1, <1>3 DEF Status
  <2>2. c < 1 * t
    BY <1>9
  <2>3. Cardinality(PassedOn(i))' = Cardinality(PassedOn(i))
    BY <1>7
  <2>4. Work(i)!Store
    BY <1>8, <1>9, <2>1, <2>2, <2>3 DEF Work!Store
  <2>5. QED
    BY <2>4 DEF Work!Next
<1>11. ASSUME NEW k \in Job, k # i
       PROVE  UNCHANGED <<Status(jobs[k]), Tries(jobs[k]), Cardinality(ResultsOf(k)),
                         Cardinality(PassedOn(k))>>
  BY <1>1, <1>6, <1>7, <1>11, SameWork
<1>12. ResultsAreBounded'
  <2>1. ASSUME NEW k \in Job PROVE Cardinality(ResultsOf(k))' <= Tries(jobs[k])'
    <3>1. CASE k = i
      <4>1. c + 1 <= t
        BY <1>9
      <4>2. QED
        BY <1>9, <3>1, <4>1
    <3>2. CASE k # i
      BY <1>11, <3>2 DEF Counted, ResultsAreBounded
    <3>3. QED
      BY <3>1, <3>2
  <2>2. ASSUME NEW v \in Workers, worker'[v].pc \in BeforeStore
        PROVE  Cardinality(ResultsOf(worker[v].job))' < Tries(jobs[worker[v].job])'
    <3>1. v # w /\ worker'[v] = worker[v]
      BY <1>4, <2>2 DEF RunGoesOn, BeforeStore
    <3>2. Running(v)
      BY <2>2, <3>1 DEF Running, BeforeStore, PCs, Locked
    <3>3. PICK k \in Job : k = worker[v].job /\ k # i
      BY <1>1, <1>2, <1>3, <3>1, <3>2 DEF Inv, RunsAreActive
    <3>4. Cardinality(ResultsOf(k)) < Tries(jobs[k])
      BY <2>2, <3>1, <3>3 DEF Counted, ResultsAreBounded
    <3>5. Cardinality(ResultsOf(k))' < Tries(jobs[k])'
      BY <1>11, <3>3, <3>4
    <3>6. QED
      BY <3>1, <3>3, <3>5
  <2>3. BeforeStore' = BeforeStore
    BY DEF BeforeStore
  <2>4. QED
    BY <2>1, <2>2, <2>3 DEF ResultsAreBounded
<1>13. AbsentAreNew' /\ AgentJobsHaveMessages'
  BY <1>1, <1>5 DEF Counted, AbsentAreNew, AgentJobsHaveMessages, Tries
<1>14. QED
  BY <1>10, <1>11, <1>12, <1>13 DEF Counted, WorkSteps

\* What is passed on is the message of the run, unless another try did it.
LEMMA AddAgentJobWork ==
  ASSUME Books, Counted, NEW w \in Workers, AddAgentJob(w)
  PROVE  Counted' /\ WorkSteps
<1>1. Inv /\ UNCHANGED <<jobs, messages>> /\ worker \in [Workers -> Run]
  BY DEF AddAgentJob, Books, HandoverInv, DeadLetterInv, Inv, TypeOK
<1>2. RunStep(w) /\ Running(w) /\ worker[w].pc = "agentJob"
  BY DEF RunStep, AddAgentJob, At, Running, PCs, Locked
<1>3. PICK i \in Job : i = worker[w].job /\ jobs[i].state = "active"
  BY <1>1, <1>2 DEF Inv, RunsAreActive
<1>4. RunGoesOn(w) /\ worker'[w].pc = "release"
  <2>1. worker'[w] = [worker[w] EXCEPT !.pc = "release"] /\ worker[w] \in Run
    BY <1>1 DEF AddAgentJob, Goto, Becomes
  <2>2. QED
    BY <1>1, <1>2, <2>1, RunStepInv DEF Run
<1>5. HasStored(w)
  <2>1. worker[w].ok
    BY <1>2 DEF Books, LineInv, OkUntilFailed
  <2>2. QED
    BY <1>2, <2>1 DEF Books, HandoverInv, RunsKeepTheirWord, Stored
<1>6. PICK m, a : /\ m = worker[w].msg /\ a = [conv |-> worker[w].conv, msg |-> worker[w].msg]
                  /\ agentJobs' = agentJobs \cup {a}
  BY DEF AddAgentJob
<1>7. /\ m \in DOMAIN messages /\ messages[m].job = i
      /\ a = [conv |-> messages[m].conv, msg |-> m]
  BY <1>3, <1>5, <1>6 DEF HasStored
<1>8. \A k : ResultsOf(k)' = ResultsOf(k)
  BY <1>1 DEF ResultsOf
<1>9. m \in ResultsOf(i) /\ \A k \in Job \ {i} : m \notin ResultsOf(k)
  BY <1>7 DEF ResultsOf
<1>10. /\ PassedOn(i)' = PassedOn(i) \cup {m}
       /\ \A k \in Job \ {i} : PassedOn(k)' = PassedOn(k)
  <2>1. \A k : PassedOn(k)' = {x \in ResultsOf(k) : [conv |-> messages[x].conv, msg |-> x] \in agentJobs \cup {a}}
    BY <1>1, <1>6, <1>8 DEF PassedOn
  <2>2. \A x : [conv |-> messages[x].conv, msg |-> x] = a <=> x = m
    <3>1. a.msg = m
      BY <1>7
    <3>2. \A x : [conv |-> messages[x].conv, msg |-> x].msg = x
      OBVIOUS
    <3>3. QED
      BY <1>7, <3>1, <3>2
  <2>3. QED
    BY <1>9, <2>1, <2>2 DEF PassedOn
<1>11. \/ Work(i)!Next
       \/ UNCHANGED <<Status(jobs[i]), Tries(jobs[i]), Cardinality(ResultsOf(i)),
                     Cardinality(PassedOn(i))>>
  <2>1. CASE m \in PassedOn(i)
    <3>1. PassedOn(i)' = PassedOn(i)
      BY <1>10, <2>1
    <3>2. QED
      BY <1>1, <1>8, <3>1, SameWork
  <2>2. CASE m \notin PassedOn(i)
    <3>1. /\ IsFiniteSet(ResultsOf(i)) /\ IsFiniteSet(PassedOn(i))
          /\ Cardinality(ResultsOf(i)) \in Nat /\ Cardinality(PassedOn(i)) \in Nat
          /\ PassedOn(i) \subseteq ResultsOf(i)
      BY <1>1, ResultsAreFinite
    <3>2. Cardinality(PassedOn(i) \cup {m}) = Cardinality(PassedOn(i)) + 1
      BY <2>2, <3>1, FS_AddElement
    <3>3. Cardinality(PassedOn(i) \cup {m}) <= Cardinality(ResultsOf(i))
      BY <1>9, <3>1, FS_Subset
    <3>4. Cardinality(PassedOn(i)) < Cardinality(ResultsOf(i))
      BY <3>1, <3>2, <3>3
    <3>5. Cardinality(PassedOn(i))' = Cardinality(PassedOn(i)) + 1
      BY <1>10, <3>2
    <3>6. /\ Status(jobs[i]) = "trying" /\ Status(jobs[i])' = Status(jobs[i])
          /\ Tries(jobs[i])' = Tries(jobs[i])
          /\ Cardinality(ResultsOf(i))' = Cardinality(ResultsOf(i))
      BY <1>1, <1>3, <1>8 DEF Status, Tries
    <3>7. Work(i)!PassOn
      BY <3>4, <3>5, <3>6 DEF Work!PassOn
    <3>8. QED
      BY <3>7 DEF Work!Next
  <2>3. QED
    BY <2>1, <2>2
<1>12. ASSUME NEW k \in Job, k # i
       PROVE  UNCHANGED <<Status(jobs[k]), Tries(jobs[k]), Cardinality(ResultsOf(k)),
                         Cardinality(PassedOn(k))>>
  BY <1>1, <1>8, <1>10, <1>12, SameWork
<1>13. ResultsAreBounded'
  <2>1. \A k : Cardinality(ResultsOf(k))' = Cardinality(ResultsOf(k)) /\ Tries(jobs[k])' = Tries(jobs[k])
    BY <1>1, <1>8 DEF Tries
  <2>2. \A v \in Workers : worker'[v].pc \in BeforeStore => worker'[v] = worker[v]
    BY <1>4 DEF RunGoesOn, BeforeStore
  <2>3. ASSUME NEW v \in Workers, worker'[v].pc \in BeforeStore
        PROVE  Cardinality(ResultsOf(worker[v].job))' < Tries(jobs[worker[v].job])'
    <3>1. PICK k : k = worker[v].job /\ worker'[v].job = k
      BY <2>2, <2>3
    <3>2. Cardinality(ResultsOf(k)) < Tries(jobs[k])
      BY <2>2, <2>3, <3>1 DEF Counted, ResultsAreBounded
    <3>3. Cardinality(ResultsOf(k))' < Tries(jobs[k])'
      BY <2>1, <3>2
    <3>4. QED
      BY <3>1, <3>3
  <2>4. \A k \in Job : Cardinality(ResultsOf(k))' <= Tries(jobs[k])'
    BY <2>1 DEF Counted, ResultsAreBounded
  <2>5. BeforeStore' = BeforeStore
    BY DEF BeforeStore
  <2>6. QED
    BY <2>3, <2>4, <2>5 DEF ResultsAreBounded
<1>14. AbsentAreNew' /\ AgentJobsHaveMessages'
  BY <1>1, <1>6, <1>7 DEF Counted, AbsentAreNew, AgentJobsHaveMessages, Tries
<1>15. QED
  BY <1>11, <1>12, <1>13, <1>14 DEF Counted, WorkSteps

\* Starting a job is another try.
LEMMA StartJobWork ==
  ASSUME Books, Counted, NEW w \in Workers, NEW i \in Job, StartJob(w, i)
  PROVE  Counted' /\ WorkSteps
<1>1. /\ Inv /\ Runnable(jobs[i]) /\ UNCHANGED <<messages, agentJobs>>
      /\ jobs' = [jobs EXCEPT ![i] = Started(jobs[i])]
  BY DEF StartJob, rows, Books, HandoverInv, DeadLetterInv
<1>2. /\ jobs[i] \in JobOf(Data) /\ jobs[i].attempts < MaxAttempts
      /\ jobs'[i] = Started(jobs[i])
  <2>1. jobs[i] \in JobOf(Data) /\ jobs'[i] = Started(jobs[i])
    BY <1>1 DEF Inv, TypeOK
  <2>2. jobs[i].attempts < MaxAttempts
    BY <1>1 DEF Inv, UnsettledHaveAttempts, Settled, Runnable
  <2>3. QED
    BY <2>1, <2>2
<1>3. /\ Tries(jobs[i]) \in Nat /\ Status(jobs[i]) = "waiting" /\ Tries(jobs[i]) < TryLimit
      /\ Status(Started(jobs[i])) = "trying" /\ Tries(Started(jobs[i])) = Tries(jobs[i]) + 1
  BY <1>1, <1>2, JobsAreWork
<1>4. Work(i)!Next
  <2>1. ResultsOf(i)' = ResultsOf(i) /\ PassedOn(i)' = PassedOn(i)
    BY <1>1, RowsStay
  <2>2. Work(i)!Try
    BY <1>2, <1>3, <2>1 DEF Work!Try
  <2>3. QED
    BY <2>2 DEF Work!Next
<1>5. /\ Tries(Started(jobs[i])) \in Nat /\ Tries(Started(jobs[i])) >= Tries(jobs[i])
      /\ Started(jobs[i]).state # "absent"
  BY <1>2, <1>3 DEF Started, JobOf
<1>6. ASSUME NEW v \in Workers, worker'[v].pc \in BeforeStore
      PROVE  \/ worker[v].pc \in BeforeStore /\ worker'[v] = worker[v] /\ worker[v].job # i
             \/ worker'[v].job = i /\ Tries(Started(jobs[i])) = Tries(jobs[i]) + 1
  <2>1. worker' = [worker EXCEPT ![w] = [Idle EXCEPT !.pc = "lock", !.job = i]]
        /\ worker \in [Workers -> Run]
    BY <1>1 DEF StartJob, Becomes, Inv, TypeOK
  <2>2. CASE v = w
    <3>1. worker'[v].job = i
      BY <2>1, <2>2 DEF Idle
    <3>2. QED
      BY <1>3, <3>1
  <2>3. CASE v # w
    <3>1. worker'[v] = worker[v] /\ worker[v].pc \in BeforeStore
      BY <1>6, <2>1, <2>3
    <3>2. Running(v)
      BY <3>1 DEF Running, BeforeStore, PCs, Locked
    <3>3. jobs[worker[v].job].state = "active"
      BY <1>1, <3>2 DEF Inv, RunsAreActive
    <3>4. QED
      BY <1>1, <3>1, <3>3 DEF Runnable
  <2>4. QED
    BY <2>2, <2>3
<1>7. PICK job : job = Started(jobs[i])
  OBVIOUS
<1>8. QED
  BY <1>1, <1>4, <1>5, <1>6, <1>7, QueueWork

\* A try that ends: the message was passed on, or it is not the last, or there
\* were enough of them.
LEMMA SettleJobWork ==
  ASSUME Books, Counted, NEW w \in Workers, SettleJob(w)
  PROVE  Counted' /\ WorkSteps
<1>1. /\ Inv /\ Running(w) /\ worker[w].pc = "settle"
      /\ UNCHANGED <<messages, agentJobs>> /\ worker \in [Workers -> Run]
  BY DEF SettleJob, At, Running, PCs, rows, Books, HandoverInv, DeadLetterInv, Inv, TypeOK
<1>2. PICK i \in Job : i = worker[w].job /\ jobs[i].state = "active"
  BY <1>1 DEF Inv, RunsAreActive
<1>3. PICK job, run :
        /\ job = IF worker[w].ok THEN Completed(jobs[i]) ELSE AttemptFailed(jobs[i])
        /\ jobs' = [jobs EXCEPT ![i] = job] /\ worker' = [worker EXCEPT ![w] = run]
        /\ run = Idle \/ run = [Idle EXCEPT !.pc = "listener", !.job = i]
  BY <1>2 DEF SettleJob, Becomes
<1>4. jobs[i] \in JobOf(Data) /\ jobs[i].attempts < MaxAttempts /\ jobs'[i] = job
  BY <1>1, <1>2, <1>3 DEF Inv, TypeOK, UnsettledHaveAttempts, Settled
<1>5. /\ Tries(jobs[i]) \in Nat /\ Status(jobs[i]) = "trying"
      /\ Status(Completed(jobs[i])) = "completed" /\ Tries(Completed(jobs[i])) = Tries(jobs[i])
      /\ Tries(AttemptFailed(jobs[i])) = Tries(jobs[i])
      /\ \/ Status(AttemptFailed(jobs[i])) = "waiting"
         \/ Status(AttemptFailed(jobs[i])) = "failed" /\ Tries(jobs[i]) >= FewestTries
  BY <1>2, <1>4, JobsAreWork
<1>6. ResultsOf(i)' = ResultsOf(i) /\ PassedOn(i)' = PassedOn(i)
  BY <1>1, RowsStay
<1>7. Tries(job) = Tries(jobs[i])
  BY <1>3, <1>5
<1>8. ASSUME worker[w].ok PROVE Cardinality(PassedOn(i)) > 0
  <2>1. HasStored(w) /\ HasHandedOver(w)
    BY <1>1, <1>8 DEF Books, HandoverInv, RunsKeepTheirWord, Stored
  <2>2. worker[w].msg \in PassedOn(i)
    BY <1>2, <2>1 DEF HasStored, HasHandedOver, PassedOn, ResultsOf
  <2>3. IsFiniteSet(PassedOn(i)) /\ Cardinality(PassedOn(i)) \in Nat
    BY <1>1, ResultsAreFinite
  <2>4. Cardinality(PassedOn(i)) # 0
    BY <2>2, <2>3, FS_EmptySet
  <2>5. QED
    BY <2>3, <2>4
<1>9. Work(i)!Next
  <2>1. CASE worker[w].ok
    <3>1. Status(jobs'[i]) = "completed" /\ Tries(jobs'[i]) = Tries(jobs[i])
      BY <1>3, <1>4, <1>5, <2>1
    <3>2. Work(i)!Complete
      BY <1>5, <1>6, <1>8, <2>1, <3>1 DEF Work!Complete
    <3>3. QED
      BY <3>2 DEF Work!Next
  <2>2. CASE ~worker[w].ok
    <3>1. /\ Tries(jobs'[i]) = Tries(jobs[i])
          /\ \/ Status(jobs'[i]) = "waiting"
             \/ Status(jobs'[i]) = "failed" /\ Tries(jobs[i]) >= FewestTries
      BY <1>3, <1>4, <1>5, <2>2
    <3>2. Work(i)!TryAgain \/ Work(i)!GiveUp
      BY <1>5, <1>6, <3>1 DEF Work!TryAgain, Work!GiveUp
    <3>3. QED
      BY <3>2 DEF Work!Next
  <2>3. QED
    BY <2>1, <2>2
<1>10. ASSUME NEW v \in Workers, worker'[v].pc \in BeforeStore
       PROVE  worker[v].pc \in BeforeStore /\ worker'[v] = worker[v] /\ worker[v].job # i
  <2>1. worker'[w].pc \in {"idle", "listener"}
    <3>1. run.pc \in {"idle", "listener"}
      <4>1. Idle.pc = "idle" /\ [Idle EXCEPT !.pc = "listener", !.job = i].pc = "listener"
        BY DEF Idle
      <4>2. QED
        BY <1>3, <4>1
    <3>2. worker'[w] = run
      BY <1>1, <1>3
    <3>3. QED
      BY <3>1, <3>2
  <2>2. v # w /\ worker'[v] = worker[v]
    BY <1>1, <1>3, <1>10, <2>1 DEF BeforeStore
  <2>3. Running(v)
    BY <1>10, <2>2 DEF Running, BeforeStore, PCs, Locked
  <2>4. QED
    BY <1>1, <1>2, <1>10, <2>2, <2>3 DEF Inv, RunsAreActive
<1>11. Tries(job) \in Nat /\ Tries(job) >= Tries(jobs[i])
  BY <1>5, <1>7
<1>12. job.state # "absent"
  BY <1>3, <1>4 DEF Completed, AttemptFailed, JobOf
<1>13. QED
  BY <1>1, <1>3, <1>9, <1>10, <1>11, <1>12, QueueWork

\* A try whose worker died.
LEMMA StalledCheckWork ==
  ASSUME Books, Counted, NEW i \in Job, StalledCheck(i)
  PROVE  Counted' /\ WorkSteps
<1>1. /\ Inv /\ UNCHANGED <<worker, messages, agentJobs>> /\ jobs[i].state = "active"
      /\ jobs' = [jobs EXCEPT ![i] = Stalled(jobs[i])] /\ \A v \in Workers : worker[v].job # i
  BY DEF StalledCheck, rows, Books, HandoverInv, DeadLetterInv
<1>2. jobs[i] \in JobOf(Data) /\ jobs[i].attempts < MaxAttempts /\ jobs'[i] = Stalled(jobs[i])
  BY <1>1 DEF Inv, TypeOK, UnsettledHaveAttempts, Settled
<1>3. /\ Tries(jobs[i]) \in Nat /\ Status(jobs[i]) = "trying"
      /\ Tries(Stalled(jobs[i])) = Tries(jobs[i])
      /\ \/ Status(Stalled(jobs[i])) = "waiting"
         \/ Status(Stalled(jobs[i])) = "failed" /\ Tries(jobs[i]) >= FewestTries
  BY <1>1, <1>2, JobsAreWork
<1>4. Work(i)!Next
  <2>1. ResultsOf(i)' = ResultsOf(i) /\ PassedOn(i)' = PassedOn(i)
    BY <1>1, RowsStay
  <2>2. Work(i)!TryAgain \/ Work(i)!GiveUp
    BY <1>2, <1>3, <2>1 DEF Work!TryAgain, Work!GiveUp
  <2>3. QED
    BY <2>2 DEF Work!Next
<1>5. /\ Tries(Stalled(jobs[i])) \in Nat /\ Tries(Stalled(jobs[i])) >= Tries(jobs[i])
      /\ Stalled(jobs[i]).state # "absent"
  BY <1>2, <1>3 DEF Stalled, JobOf
<1>6. PICK job : job = Stalled(jobs[i])
  OBVIOUS
<1>7. QED
  BY <1>1, <1>4, <1>5, <1>6, QueueWork

\* A job that is new to the queue is accepted work; one that is not is not
\* accepted again.
LEMMA AcceptWork ==
  ASSUME Books, Counted, UNCHANGED <<worker, messages, agentJobs>>, NEW i \in Job,
         NEW d, jobs' = [jobs EXCEPT ![i] = Added(jobs[i], d)]
  PROVE  Counted' /\ WorkSteps
<1>1. Inv /\ jobs \in [Job -> JobOf(Data)]
  BY DEF Books, HandoverInv, DeadLetterInv, Inv, TypeOK
<1>2. CASE jobs[i].state = "absent"
  <2>1. jobs' = [jobs EXCEPT ![i] = Queued(d)]
    BY <1>2 DEF Added
  <2>2. jobs'[i] = Queued(d)
    BY <1>1, <2>1
  <2>3. Status(jobs[i]) = "none" /\ Tries(jobs[i]) = 0
    BY <1>2 DEF Status, Counted, AbsentAreNew
  <2>4. Status(Queued(d)) = "waiting" /\ Tries(Queued(d)) = 0 /\ Queued(d).state # "absent"
    BY DEF Status, Tries, Queued
  <2>5. ResultsOf(i)' = ResultsOf(i) /\ PassedOn(i)' = PassedOn(i)
    BY RowsStay
  <2>6. Work(i)!Accept
    BY <2>2, <2>3, <2>4, <2>5 DEF Work!Accept
  <2>7. Work(i)!Next
    BY <2>6 DEF Work!Next
  <2>8. ASSUME NEW v \in Workers, worker'[v].pc \in BeforeStore
        PROVE  worker[v].pc \in BeforeStore /\ worker'[v] = worker[v] /\ worker[v].job # i
    <3>1. worker'[v] = worker[v] /\ Running(v)
      BY <2>8 DEF Running, BeforeStore, PCs, Locked
    <3>2. jobs[worker[v].job].state = "active"
      BY <1>1, <3>1 DEF Inv, RunsAreActive
    <3>3. QED
      BY <1>2, <2>8, <3>1, <3>2
  <2>9. PICK job : job = Queued(d)
    OBVIOUS
  <2>10. Tries(job) \in Nat /\ Tries(job) >= Tries(jobs[i]) /\ job.state # "absent"
    BY <2>3, <2>4, <2>9
  <2>11. QED
    BY <2>1, <2>7, <2>8, <2>9, <2>10, QueueWork
<1>3. CASE jobs[i].state # "absent"
  <2>1. UNCHANGED jobs
    BY <1>1, <1>3 DEF Added
  <2>2. QED
    BY <2>1, OtherWork
<1>4. QED
  BY <1>2, <1>3

\* The steps of a run that neither store nor pass on anything, and those that
\* end it without a word to Bull.
LEMMA RunWork ==
  ASSUME Books, Counted, NEW w \in Workers,
         RunStep(w) \/ AddDeadLetter(w) \/ CallFails(w) \/ Crash(w)
  PROVE  Counted' /\ WorkSteps
<1>1. Inv /\ worker \in [Workers -> Run]
  BY DEF Books, HandoverInv, DeadLetterInv, Inv, TypeOK
<1>2. CASE StoreMessage(w) \/ AddAgentJob(w)
  BY <1>2, StoreMessageWork, AddAgentJobWork
<1>3. CASE ~(StoreMessage(w) \/ AddAgentJob(w))
  <2>1. UNCHANGED <<jobs, messages, agentJobs>>
    BY <1>3
    DEF RunStep, AcquireLock, FindIdentity, CreateEndUser, CreateIdentity, FindConversation,
        CreateConversation, StoreParts, MarkNormalized, ReleaseLock, AddDeadLetter,
        CallFails, Crash, rows
  <2>2. \/ RunGoesOn(w)
        \/ worker' = [worker EXCEPT ![w] = Idle]
    BY <1>1, RunStepInv, CallFailsInv DEF AddDeadLetter, Crash, Becomes
  <2>3. \A v \in Workers \ {w} : worker'[v] = worker[v]
    BY <1>1, <2>2 DEF RunGoesOn
  <2>4. ASSUME worker'[w].pc \in BeforeStore
        PROVE  worker[w].pc \in BeforeStore /\ worker'[w].job = worker[w].job
    <3>1. RunGoesOn(w)
      BY <1>1, <2>2, <2>4 DEF Idle, BeforeStore
    <3>2. ASSUME worker[w].pc \notin BeforeStore, RunStep(w) PROVE FALSE
      <4>1. StoreParts(w) \/ MarkNormalized(w) \/ ReleaseLock(w)
        BY <1>3, <3>2
        DEF RunStep, AcquireLock, FindIdentity, CreateEndUser, CreateIdentity,
            FindConversation, CreateConversation, At, BeforeStore
      <4>2. PICK pc \in {"normalize", "agentJob", "settle"} : Goto(w, pc)
        BY <4>1 DEF StoreParts, MarkNormalized, ReleaseLock
      <4>3. worker'[w].pc = pc
        BY <1>1, <4>2 DEF Goto, Becomes, Run
      <4>4. QED
        BY <2>4, <4>3 DEF BeforeStore
    <3>3. ASSUME CallFails(w) \/ AddDeadLetter(w) \/ Crash(w) PROVE FALSE
      <4>1. Becomes(w, Idle) \/ Fails(w, "settle") \/ Fails(w, "release")
        BY <3>3 DEF CallFails, AddDeadLetter, Crash
      <4>2. worker'[w].pc \in {"idle", "settle", "release"}
        <5>1. CASE Becomes(w, Idle)
          BY <1>1, <5>1 DEF Becomes, Idle
        <5>2. ASSUME NEW pc \in {"settle", "release"}, Fails(w, pc) PROVE worker'[w].pc = pc
          BY <1>1, <5>2 DEF Fails, Becomes, Run
        <5>3. QED
          BY <4>1, <5>1, <5>2
      <4>3. QED
        BY <2>4, <4>2 DEF BeforeStore
    <3>4. QED
      BY <3>1, <3>2, <3>3 DEF RunGoesOn
  <2>5. \A v \in Workers : worker'[v].pc \in BeforeStore =>
          worker[v].pc \in BeforeStore /\ worker'[v].job = worker[v].job
    BY <2>3, <2>4
  <2>6. QED
    BY <2>1, <2>5, OtherWork
<1>4. QED
  BY <1>2, <1>3

\* Every step keeps the counts and is a step of each piece of work, or of none.
LEMMA WorkNext == Books /\ Counted /\ [Next]_vars => Counted' /\ WorkSteps
<1> SUFFICES ASSUME Books, Counted, [Next]_vars PROVE Counted' /\ WorkSteps
  OBVIOUS
<1>1. Inv
  BY DEF Books, HandoverInv, DeadLetterInv
<1>2. ASSUME UNCHANGED <<worker, jobs, messages, agentJobs>> PROVE Counted' /\ WorkSteps
  BY <1>2, OtherWork
<1>3. ASSUME NEW r \in Requests, Handler(r) \/ HandlerFails(r) PROVE Counted' /\ WorkSteps
  <2>1. CASE AddIngestionJob(r)
    <3>1. JobId(r) \in Job
      BY IngestionAssumption DEF JobId, Job, Body
    <3>2. QED
      BY <2>1, <3>1, AcceptWork DEF AddIngestionJob, rows
  <2>2. CASE ~AddIngestionJob(r)
    BY <1>2, <1>3, <2>2 DEF Handler, CheckDuplicate, CreateInboundEvent, HandlerFails, rows
  <2>3. QED
    BY <2>1, <2>2
<1>4. ASSUME NEW i \in Job, NEW id \in ReplayIds, ReplayDeadLetter(i, id)
      PROVE  Counted' /\ WorkSteps
  <2>1. id \in Job /\ UNCHANGED <<worker, messages, agentJobs>>
    BY <1>4 DEF Job, ReplayDeadLetter, rows
  <2>2. PICK d : jobs' = [jobs EXCEPT ![id] = Added(jobs[id], d)]
    BY <1>4 DEF ReplayDeadLetter, Added
  <2>3. QED
    BY <2>1, <2>2, AcceptWork
<1>5. CASE UNCHANGED vars
  BY <1>2, <1>5 DEF vars
<1>6. ASSUME Outside PROVE Counted' /\ WorkSteps
  <2>1. UNCHANGED <<worker, jobs, messages, agentJobs>>
    BY <1>6 DEF Outside, LockExpires, StoreDeadLetter, RemoveDeadLetter, ReplayFails, UpdateStatus, rows
  <2>2. QED
    BY <1>2, <2>1
<1>7. CASE Next
  <2>1. ASSUME NEW w \in Workers,
               RunStep(w) \/ SettleJob(w) \/ AddDeadLetter(w) \/ CallFails(w) \/ Crash(w)
        PROVE  Counted' /\ WorkSteps
    BY <2>1, RunWork, SettleJobWork
  <2>2. ASSUME NEW w \in Workers, NEW i \in Job, StartJob(w, i) PROVE Counted' /\ WorkSteps
    BY <2>2, StartJobWork
  <2>3. ASSUME NEW i \in Job, StalledCheck(i) PROVE Counted' /\ WorkSteps
    BY <2>3, StalledCheckWork
  <2>4. QED
    BY <1>3, <1>4, <1>6, <1>7, <2>1, <2>2, <2>3, NextCases
<1>8. QED
  BY <1>5, <1>7

\* Whatever crashes, stalls, fails, contends for a lock or is replayed, every
\* ingestion job is worked on as WorkItem promises: tried one run at a time, not
\* more often than its attempts and stalls allow, at most one message in a try,
\* none passed on before it is stored, completed only with a message passed on.
THEOREM WorkIsDone == Spec => ImplementsWork
<1>1. Books /\ Counted /\ [Next]_vars => Counted'
  BY WorkNext
<1>2. Books /\ Counted /\ [Next]_vars => [WorkSteps]_vars
  BY WorkNext
<1>3. WorkSteps <=> \A i \in Job :
        \/ Work(i)!Next
        \/ UNCHANGED <<Status(jobs[i]), Tries(jobs[i]), Cardinality(ResultsOf(i)),
                      Cardinality(PassedOn(i))>>
  BY DEF WorkSteps
<1>4. Books /\ Counted /\ [Next]_vars =>
        [\A i \in Job :
           \/ Work(i)!Next
           \/ UNCHANGED <<Status(jobs[i]), Tries(jobs[i]), Cardinality(ResultsOf(i)),
                         Cardinality(PassedOn(i))>>]_vars
  BY <1>2, <1>3
<1>5. LineInv /\ LossInv => Books
  BY DEF LossInv, Books
<1>6. QED
  BY <1>1, <1>4, <1>5, AccountsAlways, LossAlways, WorkStarts, PTL DEF Spec, ImplementsWork
=============================================================================
