------------------------------ MODULE AgentProofs ------------------------------
(***************************************************************************)
(* Proofs about AgentPipeline, for every set of conversations, jobs,       *)
(* workers and providers, and every number of attempts and failures.       *)
(***************************************************************************)
EXTENDS AgentPipeline, WellFoundedInduction, TLAPS

Running(w) == ~At(w, "idle")

\* A worker runs a job that is active, and no two workers run one job.
RunsAreActive ==
  /\ \A w \in Workers : Running(w) =>
       worker[w].job \in Job /\ jobs[worker[w].job].state = "active"
  /\ \A w \in Workers : At(w, "idle") => worker[w].job = None
  /\ \A v, w \in Workers : Running(v) /\ Running(w) /\ worker[v].job = worker[w].job => v = w

\* A job that is not settled has attempts left.
UnsettledHaveAttempts ==
  \A j \in Job : ~Settled(jobs[j]) => jobs[j].attempts < MaxAttempts

\* The run has created its agent_runs row and not ended it yet.
HasRow(w) == worker[w].pc \in {"context", "ask", "store", "complete", "recover", "failRun"}

\* The run has stored its reply, and nothing failed since.
Replied(w) ==
  worker[w].pc \in {"complete", "dispatch", "release", "settle"} /\ worker[w].outcome = "ok"

Answered(j) == dispatched[j] > 0 \/ j \in skipped

\* What the rows of job j say in any case.
RowsAgree(j) == dispatched[j] <= replies[j] /\ runs[j].success <= replies[j]

\* What the place of a run says about the rows of its job.
Progress(w, j) ==
  /\ RowsAgree(j)
  /\ HasRow(w) => runs[j].running > 0 /\ runs[j].running <= faults + 1
  /\ ~HasRow(w) => runs[j].running <= faults
  /\ At(w, "complete") => runs[j].success < replies[j]
  /\ worker[w].pc \in {"complete", "dispatch"} => dispatched[j] < replies[j]
  /\ worker[w].outcome # "ok" => worker[w].pc \in {"release", "settle"}
  /\ worker[w].pc \in {"release", "settle"} /\ worker[w].outcome = "ok" => Answered(j)
  /\ faults = 0 => replies[j] <= 1 /\ (replies[j] = 1 => Replied(w))

\* What holds of a job no worker runs: without faults it is not active, and a
\* reply was stored only if it is completed.
AtRest(j) ==
  /\ RowsAgree(j)
  /\ runs[j].running <= faults
  /\ jobs[j].state = "completed" => Answered(j)
  /\ faults = 0 => /\ jobs[j].state # "active"
                   /\ replies[j] <= 1
                   /\ replies[j] = 1 => jobs[j].state = "completed"

Held(j) == \E w \in Workers : worker[w].job = j

Inv ==
  /\ TypeOK /\ RunsAreActive /\ UnsettledHaveAttempts
  /\ \A w \in Workers : Running(w) => Progress(w, worker[w].job)
  /\ \A j \in Job : ~Held(j) => AtRest(j)

\* The lock of the conversation is set while a run is between acquiring and
\* releasing it.
HoldersAreLocked == \A w \in Workers : InCritical(w) => Conv(w) \in lock

LockInv == Inv /\ HoldersAreLocked /\ OneReplyAtATime

-----------------------------------------------------------------------------
(* Jobs.                                                                   *)

\* Every operation of the queue returns a job.
LEMMA JobTypes ==
  ASSUME NEW D, NEW j \in JobOf(D), NEW d \in D
  PROVE  /\ NoJob(d) \in JobOf(D) /\ Queued(d) \in JobOf(D) /\ Added(j, d) \in JobOf(D)
         /\ Started(j) \in JobOf(D) /\ Completed(j) \in JobOf(D) /\ Stalled(j) \in JobOf(D)
         /\ j.attempts < MaxAttempts => AttemptFailed(j) \in JobOf(D)
<1>1. /\ NoJob(d) \in JobOf(D) /\ Queued(d) \in JobOf(D) /\ Added(j, d) \in JobOf(D)
      /\ Started(j) \in JobOf(D) /\ Completed(j) \in JobOf(D)
  BY BullAssumption DEF NoJob, Queued, Added, Started, Completed, JobOf, JobStates
<1>2. /\ j.stalls < MaxStalls => j.stalls + 1 \in 0..MaxStalls
      /\ j.attempts < MaxAttempts => j.attempts + 1 \in 0..MaxAttempts
  BY BullAssumption DEF JobOf
<1>3. Stalled(j) \in JobOf(D)
  BY <1>2 DEF Stalled, JobOf, JobStates
<1>4. j.attempts < MaxAttempts => AttemptFailed(j) \in JobOf(D)
  BY <1>2 DEF AttemptFailed, JobOf, JobStates
<1>5. QED
  BY <1>1, <1>3, <1>4

\* A failed attempt leaves attempts to make, or the job has settled.
LEMMA AttemptsAreLeft ==
  ASSUME NEW D, NEW j \in JobOf(D), j.attempts < MaxAttempts
  PROVE  ~Settled(AttemptFailed(j)) => AttemptFailed(j).attempts < MaxAttempts
BY BullAssumption DEF AttemptFailed, Settled, JobOf

-----------------------------------------------------------------------------
(* Runs.                                                                   *)

\* The queue starts empty, and nobody holds a job.
LEMMA InitInv == Init => Inv
<1> SUFFICES ASSUME Init PROVE Inv
  OBVIOUS
<1>1. NoJob(0) \in JobOf({0})
  BY BullAssumption DEF NoJob, JobOf, JobStates
<1>2. Idle \in Run /\ NoRuns \in [running : Nat, success : Nat, failed : Nat]
  BY AgentAssumption DEF Idle, Run, PCs, NoRuns
<1>3. TypeOK
  BY <1>1, <1>2, AgentAssumption DEF Init, TypeOK
<1>4. RunsAreActive /\ \A w \in Workers : ~Running(w)
  BY DEF Init, RunsAreActive, Running, At, Idle
<1>5. UnsettledHaveAttempts
  BY BullAssumption DEF Init, UnsettledHaveAttempts, NoJob
<1>6. \A j \in Job : AtRest(j)
  BY AgentAssumption DEF Init, AtRest, RowsAgree, NoJob, NoRuns
<1>7. QED
  BY <1>3, <1>4, <1>5, <1>6 DEF Inv

\* What all steps inside process() have in common: only worker w moves, it
\* keeps its job, and the rows of the other jobs stay as they are.
RunGoesOn(w) ==
  /\ Running(w) /\ Running(w)'
  /\ worker' \in [Workers -> Run]
  /\ worker'[w].job = worker[w].job
  /\ \A v \in Workers \ {w} : worker'[v] = worker[v]
  /\ UNCHANGED jobs

RowsOfOthersStay(j) ==
  \A k \in Job \ {j} :
    /\ replies'[k] = replies[k] /\ dispatched'[k] = dispatched[k]
    /\ runs'[k] = runs[k] /\ (k \in skipped' <=> k \in skipped)

\* Failures are counted, one at a time.
FaultsGrow == faults' \in Nat /\ (faults' = faults \/ faults' = faults + 1)

\* What is known about a job does not depend on what happens to other jobs,
\* nor on further failures.
LEMMA OthersKeepProgress ==
  ASSUME Inv, FaultsGrow, NEW v \in Workers, Running(v), NEW j \in Job, worker[v].job = j,
         worker'[v] = worker[v],
         replies'[j] = replies[j], dispatched'[j] = dispatched[j], runs'[j] = runs[j],
         j \in skipped' <=> j \in skipped
  PROVE  Progress(v, j)'
<1>1. Progress(v, j) /\ faults \in Nat /\ runs[j].running \in Nat
  BY AgentAssumption DEF Inv, TypeOK
<1>2. RowsAgree(j)'
  BY <1>1 DEF Progress, RowsAgree
<1>3. Answered(j) => Answered(j)'
  BY DEF Answered
<1>4. QED
  BY <1>1, <1>2, <1>3 DEF FaultsGrow, Progress, HasRow, At, Replied

\* ... and nor does what is known about a job nobody runs.
LEMMA OthersKeepRest ==
  ASSUME Inv, FaultsGrow, NEW j \in Job, AtRest(j), jobs'[j] = jobs[j],
         replies'[j] = replies[j], dispatched'[j] = dispatched[j], runs'[j] = runs[j],
         j \in skipped' <=> j \in skipped
  PROVE  AtRest(j)'
<1>1. faults \in Nat /\ runs[j].running \in Nat
  BY AgentAssumption DEF Inv, TypeOK
<1>2. RowsAgree(j)' /\ (Answered(j) => Answered(j)')
  BY DEF AtRest, RowsAgree, Answered
<1>3. QED
  BY <1>1, <1>2 DEF FaultsGrow, AtRest

\* It is enough to look at the run that moved and at the rows of its job.
LEMMA RunGoesOnInv ==
  ASSUME Inv, NEW w \in Workers, RunGoesOn(w), RowsOfOthersStay(worker[w].job), FaultsGrow,
         TypeOK', Progress(w, worker[w].job)'
  PROVE  Inv'
<1> DEFINE i == worker[w].job
<1>1. i \in Job /\ worker'[w].job = i /\ UNCHANGED jobs
  BY DEF RunGoesOn, Inv, RunsAreActive
<1>2. \A v \in Workers : (Running(v)' <=> Running(v)) /\ worker'[v].job = worker[v].job
  BY DEF RunGoesOn, Running, At
<1>3. RunsAreActive' /\ UnsettledHaveAttempts'
  BY <1>1, <1>2 DEF Inv, RunsAreActive, UnsettledHaveAttempts, Running, Settled
<1>4. ASSUME NEW v \in Workers, Running(v)' PROVE Progress(v, worker[v].job)'
  <2>1. CASE v = w
    BY <2>1, <1>1
  <2>2. CASE v # w
    <3>1. Running(v) /\ worker'[v] = worker[v] /\ worker[v].job \in Job \ {i}
      BY <2>2, <1>2, <1>4 DEF RunGoesOn, Inv, RunsAreActive
    <3>2. QED
      BY <3>1, OthersKeepProgress DEF RowsOfOthersStay
  <2>3. QED
    BY <2>1, <2>2
<1>5. ASSUME NEW j \in Job, ~Held(j)' PROVE AtRest(j)'
  <2>1. ~Held(j) /\ j # i
    BY <1>2, <1>5 DEF Held
  <2>2. AtRest(j) /\ jobs'[j] = jobs[j]
    BY <1>1, <2>1 DEF Inv
  <2>3. QED
    BY <2>1, <2>2, OthersKeepRest DEF RowsOfOthersStay
<1>6. QED
  BY <1>3, <1>4, <1>5 DEF Inv

\* How a worker moves on.
LEMMA Moves ==
  ASSUME Inv, NEW w \in Workers, Running(w), NEW run \in Run,
         run.job = worker[w].job, run.pc \in PCs \ {"idle"},
         Becomes(w, run), UNCHANGED jobs
  PROVE  RunGoesOn(w) /\ worker'[w] = run
BY DEF Becomes, RunGoesOn, Running, At, Inv, TypeOK

\* Moving on to another place of the handler, or failing there, is going on.
LEMMA GoesTo ==
  ASSUME Inv, NEW w \in Workers, Running(w), NEW pc \in PCs \ {"idle"}, UNCHANGED jobs
  PROVE  /\ Goto(w, pc) => RunGoesOn(w) /\ worker'[w] = [worker[w] EXCEPT !.pc = pc]
         /\ Fails(w, pc) =>
              RunGoesOn(w) /\ worker'[w] = [worker[w] EXCEPT !.pc = pc, !.outcome = "error"]
<1>1. worker[w] \in Run
  BY DEF Inv, TypeOK
<1>2. ASSUME Goto(w, pc) PROVE RunGoesOn(w) /\ worker'[w] = [worker[w] EXCEPT !.pc = pc]
  BY <1>1, <1>2, Moves DEF Goto, Run
<1>3. ASSUME Fails(w, pc)
      PROVE  RunGoesOn(w) /\ worker'[w] = [worker[w] EXCEPT !.pc = pc, !.outcome = "error"]
  BY <1>1, <1>3, Moves DEF Fails, Run
<1>4. QED
  BY <1>2, <1>3

\* The same, field by field.
LEMMA Fields ==
  ASSUME Inv, NEW w \in Workers, Running(w), NEW pc \in PCs \ {"idle"}, UNCHANGED jobs
  PROVE  /\ Goto(w, pc) => /\ RunGoesOn(w) /\ worker'[w].job = worker[w].job
                           /\ worker'[w].pc = pc /\ worker'[w].outcome = worker[w].outcome
         /\ Fails(w, pc) => /\ RunGoesOn(w) /\ worker'[w].job = worker[w].job
                            /\ worker'[w].pc = pc /\ worker'[w].outcome = "error"
<1>1. worker[w] \in Run
  BY DEF Inv, TypeOK
<1>2. LET gone == [worker[w] EXCEPT !.pc = pc]
          failed == [worker[w] EXCEPT !.pc = pc, !.outcome = "error"]
      IN  /\ gone.job = worker[w].job /\ gone.pc = pc /\ gone.outcome = worker[w].outcome
          /\ failed.job = worker[w].job /\ failed.pc = pc /\ failed.outcome = "error"
  BY <1>1 DEF Run
<1>3. QED
  BY <1>2, GoesTo

\* What is known of a worker that runs.
LEMMA RunFacts ==
  ASSUME Inv, NEW w \in Workers, Running(w)
  PROVE  /\ worker[w] \in Run /\ worker[w].job \in Job /\ Conv(w) \in Conversations
         /\ Progress(w, worker[w].job)
         /\ replies[worker[w].job] \in Nat /\ dispatched[worker[w].job] \in Nat
         /\ runs[worker[w].job] \in [running : Nat, success : Nat, failed : Nat]
         /\ faults \in Nat
BY AgentAssumption DEF Inv, TypeOK, RunsAreActive, Conv

\* Steps that only move the worker: nothing is stored.
LEMMA MoveInv ==
  ASSUME Inv, NEW w \in Workers, RunGoesOn(w), UNCHANGED <<rows, underWay, faults>>,
         lock' \subseteq Conversations, UNCHANGED mode, Progress(w, worker[w].job)'
  PROVE  Inv'
<1>1. TypeOK'
  BY DEF Inv, TypeOK, RunGoesOn, rows
<1>2. RowsOfOthersStay(worker[w].job) /\ FaultsGrow
  BY RunFacts DEF RowsOfOthersStay, FaultsGrow, rows, RunGoesOn
<1>3. QED
  BY <1>1, <1>2, RunGoesOnInv

\* The mode is read: the run goes on, or the job is skipped.
LEMMA CheckModeInv ==
  ASSUME Inv, NEW w \in Workers, CheckMode(w)
  PROVE  Inv' /\ RunGoesOn(w)
<1> DEFINE i == worker[w].job
<1>1. Running(w) /\ UNCHANGED jobs
  BY DEF CheckMode, At, Running
<1>2. RunGoesOn(w) /\ worker'[w] \in {[worker[w] EXCEPT !.pc = "settle"], [worker[w] EXCEPT !.pc = "lock"]}
  BY <1>1, GoesTo DEF CheckMode, PCs
<1>3. Progress(w, i) /\ i \in Job /\ worker[w] \in Run
  BY <1>1, RunFacts
<1>4. At(w, "settle")' => i \in skipped'
  <2>1. CASE Goto(w, "lock")
    <3>1. worker'[w].pc = "lock"
      BY <1>1, <2>1, Fields DEF PCs
    <3>2. QED
      BY <3>1 DEF At
  <2>2. CASE skipped' = skipped \cup {i}
    BY <2>2
  <2>3. QED
    BY <2>1, <2>2 DEF CheckMode
<1>5. Progress(w, i)'
  BY <1>2, <1>3, <1>4 DEF CheckMode, Progress, RowsAgree, HasRow, Replied, Answered, At, Run
<1>6. TypeOK'
  BY <1>2, <1>3 DEF CheckMode, Inv, TypeOK, RunGoesOn
<1>7. RowsOfOthersStay(i) /\ FaultsGrow
  BY <1>1, RunFacts DEF CheckMode, RowsOfOthersStay, FaultsGrow
<1>8. QED
  BY <1>2, <1>5, <1>6, <1>7, RunGoesOnInv

\* The lock is taken, or found taken.
LEMMA AcquireLockInv ==
  ASSUME Inv, NEW w \in Workers, AcquireLock(w)
  PROVE  Inv' /\ RunGoesOn(w) /\ (Conv(w) \in lock => At(w, "settle")')
<1> DEFINE i == worker[w].job
           lost == [worker[w] EXCEPT !.pc = "settle", !.outcome = "locked"]
<1>1. Running(w) /\ UNCHANGED jobs
  BY DEF AcquireLock, At, Running
<1>2. Progress(w, i) /\ i \in Job /\ worker[w] \in Run /\ Conv(w) \in Conversations
  BY <1>1, RunFacts
<1>3. lost \in Run /\ lost.job = i /\ lost.pc = "settle" /\ lost.outcome = "locked"
  BY <1>2 DEF Run, PCs
<1> HIDE DEF lost
<1>4. CASE Conv(w) \notin lock
  <2>1. RunGoesOn(w) /\ worker'[w] = [worker[w] EXCEPT !.pc = "open"]
    BY <1>1, <1>4, GoesTo DEF AcquireLock, PCs, Locked
  <2>2. Progress(w, i)'
    BY <1>2, <2>1 DEF AcquireLock, Progress, RowsAgree, HasRow, Replied, Answered, At, Run, rows
  <2>3. QED
    BY <1>2, <1>4, <2>1, <2>2, MoveInv DEF AcquireLock, Inv, TypeOK
<1>5. CASE Conv(w) \in lock
  <2>1. Becomes(w, lost)
    BY <1>5 DEF AcquireLock, lost
  <2>2. RunGoesOn(w) /\ worker'[w] = lost
    BY <1>1, <1>3, <2>1, Moves DEF PCs
  <2>3. Progress(w, i)'
    BY <1>2, <1>3, <2>2 DEF AcquireLock, Progress, RowsAgree, HasRow, Replied, Answered, At, Run, rows
  <2>4. QED
    BY <1>3, <1>5, <2>2, <2>3, MoveInv DEF AcquireLock, Inv, TypeOK, At
<1>6. QED
  BY <1>4, <1>5

\* The dispatcher gets the reply that was stored.
LEMMA AddDispatchJobInv ==
  ASSUME Inv, NEW w \in Workers, AddDispatchJob(w)
  PROVE  Inv' /\ RunGoesOn(w)
<1> DEFINE i == worker[w].job
<1>1. Running(w) /\ UNCHANGED jobs
  BY DEF AddDispatchJob, At, Running
<1>2. RunGoesOn(w) /\ worker'[w] = [worker[w] EXCEPT !.pc = "release"]
  BY <1>1, GoesTo DEF AddDispatchJob, PCs, Locked
<1>3. Progress(w, i) /\ i \in Job /\ worker[w] \in Run /\ dispatched[i] \in Nat /\ replies[i] \in Nat
  BY <1>1, RunFacts
<1>4. dispatched'[i] = dispatched[i] + 1
  BY <1>3 DEF AddDispatchJob, Inv, TypeOK
<1>5. Progress(w, i)'
  BY <1>2, <1>3, <1>4 DEF AddDispatchJob, Progress, RowsAgree, HasRow, Replied, Answered, At, Run
<1>6. TypeOK'
  BY <1>2, <1>3 DEF AddDispatchJob, Inv, TypeOK, RunGoesOn
<1>7. RowsOfOthersStay(i) /\ FaultsGrow
  BY <1>1, RunFacts DEF AddDispatchJob, RowsOfOthersStay, FaultsGrow, Inv, TypeOK
<1>8. QED
  BY <1>2, <1>5, <1>6, <1>7, RunGoesOnInv

\* The lock of the run's conversation is deleted.
LEMMA ReleaseLockInv ==
  ASSUME Inv, NEW w \in Workers, ReleaseLock(w)
  PROVE  Inv' /\ RunGoesOn(w)
<1>1. Running(w) /\ UNCHANGED jobs
  BY DEF ReleaseLock, At, Running
<1>2. RunGoesOn(w) /\ worker'[w] = [worker[w] EXCEPT !.pc = "settle"]
  BY <1>1, GoesTo DEF ReleaseLock, PCs
<1>3. Progress(w, worker[w].job)'
  BY <1>1, <1>2, RunFacts
  DEF ReleaseLock, Progress, RowsAgree, HasRow, Replied, Answered, At, Run, rows, RunGoesOn
<1>4. QED
  BY <1>2, <1>3, MoveInv DEF ReleaseLock, Inv, TypeOK

\* The row of the run is created.
LEMMA OpenRunInv ==
  ASSUME Inv, NEW w \in Workers, OpenRun(w)
  PROVE  Inv' /\ RunGoesOn(w)
<1> DEFINE i == worker[w].job
<1>1. Running(w) /\ UNCHANGED jobs
  BY DEF OpenRun, At, Running
<1>2. RunGoesOn(w) /\ worker'[w] = [worker[w] EXCEPT !.pc = "context"]
  BY <1>1, GoesTo DEF OpenRun, PCs, Locked
<1>3. /\ Progress(w, i) /\ i \in Job /\ worker[w] \in Run /\ faults \in Nat
      /\ runs[i] \in [running : Nat, success : Nat, failed : Nat]
  BY <1>1, RunFacts
<1>4. runs'[i] = [runs[i] EXCEPT !.running = runs[i].running + 1]
  BY <1>3 DEF OpenRun, Inv, TypeOK
<1>5. runs'[i].running = runs[i].running + 1 /\ runs'[i].success = runs[i].success
  BY <1>3, <1>4
<1>6. Progress(w, i)'
  BY <1>2, <1>3, <1>5 DEF OpenRun, Progress, RowsAgree, HasRow, Replied, Answered, At, Run
<1>7. runs' \in [Job -> [running : Nat, success : Nat, failed : Nat]]
  BY <1>3 DEF OpenRun, Inv, TypeOK
<1>8. TypeOK'
  BY <1>2, <1>7 DEF OpenRun, Inv, TypeOK, RunGoesOn
<1>9. RowsOfOthersStay(i) /\ FaultsGrow
  BY <1>1, RunFacts DEF OpenRun, RowsOfOthersStay, FaultsGrow, Inv, TypeOK
<1>10. QED
  BY <1>2, <1>6, <1>8, <1>9, RunGoesOnInv

\* A fallback is a provider.
LEMMA FallbackType ==
  ASSUME NEW p \in Providers
  PROVE  Fallbacks(p) \subseteq Providers
<1>1. Candidates[p] \in Seq(Providers)
  BY AgentAssumption
<1>2. \A i \in DOMAIN Candidates[p] : Candidates[p][i] \in Providers
  BY <1>1
<1>3. QED
  BY <1>2 DEF Fallbacks

\* Asking, now or by way of a fallback, is another place of the run.
LEMMA AsksProvider ==
  ASSUME Inv, NEW w \in Workers, Running(w), NEW p \in Providers, NEW s \in {"early", "late"},
         UNCHANGED jobs, Becomes(w, [worker[w] EXCEPT !.pc = "ask", !.provider = p, !.stage = s])
  PROVE  RunGoesOn(w) /\ worker'[w].pc = "ask" /\ worker'[w].outcome = worker[w].outcome
<1> DEFINE run == [worker[w] EXCEPT !.pc = "ask", !.provider = p, !.stage = s]
<1>1. worker[w] \in Run
  BY RunFacts
<1>2. /\ run \in Run /\ run.job = worker[w].job /\ run.pc = "ask"
      /\ run.outcome = worker[w].outcome
  BY <1>1 DEF Run, PCs, Locked, Trying
<1>3. Becomes(w, run)
  OBVIOUS
<1> HIDE DEF run
<1>4. QED
  BY <1>2, <1>3, Moves DEF PCs, Locked, Trying

\* While the row of a run is open and nothing was stored since, all that is
\* known of the rows stays true from place to place.
LEMMA RowStaysOpen ==
  ASSUME Inv, NEW w \in Workers, RunGoesOn(w), HasRow(w), worker[w].pc # "complete",
         worker'[w].pc \in {"ask", "store", "recover", "failRun"},
         worker'[w].outcome = worker[w].outcome, UNCHANGED <<rows, faults>>
  PROVE  Progress(w, worker[w].job)'
<1>1. Progress(w, worker[w].job) /\ worker[w].outcome = "ok"
  BY RunFacts DEF RunGoesOn, Progress, HasRow
<1>2. QED
  BY <1>1 DEF RunGoesOn, Progress, RowsAgree, HasRow, Replied, At, rows

\* A fallback may take over before anybody was asked.
LEMMA PrepareContextInv ==
  ASSUME Inv, NEW w \in Workers, PrepareContext(w)
  PROVE  Inv' /\ RunGoesOn(w)
<1>1. Running(w) /\ HasRow(w) /\ worker[w].pc = "context" /\ UNCHANGED <<jobs, rows, faults>>
  BY DEF PrepareContext, At, Running, HasRow
<1>2. RunGoesOn(w) /\ worker'[w].pc = "ask" /\ worker'[w].outcome = worker[w].outcome
  <2>1. CASE Goto(w, "ask")
    BY <1>1, <2>1, Fields DEF PCs, Locked, Trying
  <2>2. ASSUME NEW p \in Fallbacks(Primary),
               Becomes(w, [worker[w] EXCEPT !.pc = "ask", !.provider = p, !.stage = "early"])
        PROVE  RunGoesOn(w) /\ worker'[w].pc = "ask" /\ worker'[w].outcome = worker[w].outcome
    BY <1>1, <2>2, FallbackType, AsksProvider, AgentAssumption
  <2>3. QED
    BY <2>1, <2>2 DEF PrepareContext
<1>3. QED
  BY <1>1, <1>2, RowStaysOpen, MoveInv DEF PrepareContext, Inv, TypeOK

\* The provider answers, or its failure is caught.
LEMMA AskInv ==
  ASSUME Inv, NEW w \in Workers, Ask(w)
  PROVE  Inv' /\ RunGoesOn(w)
<1>1. Running(w) /\ HasRow(w) /\ worker[w].pc = "ask" /\ UNCHANGED <<jobs, rows, faults>>
  BY DEF Ask, At, Running, HasRow
<1>2. PICK pc \in {"store", "recover", "failRun"} : Goto(w, pc)
  BY DEF Ask, Catch
<1>3. RunGoesOn(w) /\ worker'[w].pc = pc /\ worker'[w].outcome = worker[w].outcome
  BY <1>1, <1>2, Fields DEF PCs, Locked, Trying
<1>4. QED
  BY <1>1, <1>3, RowStaysOpen, MoveInv DEF Ask, Inv, TypeOK

\* The catch clause finds a fallback or gives up.
LEMMA RecoverInv ==
  ASSUME Inv, NEW w \in Workers, Recover(w)
  PROVE  Inv' /\ RunGoesOn(w)
<1>1. Running(w) /\ HasRow(w) /\ worker[w].pc = "recover" /\ UNCHANGED <<jobs, rows, faults>>
  BY DEF Recover, At, Running, HasRow
<1>2. /\ RunGoesOn(w) /\ worker'[w].pc \in {"ask", "failRun"}
      /\ worker'[w].outcome = worker[w].outcome
  <2>1. CASE Goto(w, "failRun")
    BY <1>1, <2>1, Fields DEF PCs, Locked
  <2>2. ASSUME NEW p \in Fallbacks(worker[w].provider),
               Becomes(w, [worker[w] EXCEPT !.pc = "ask", !.provider = p, !.stage = "late"])
        PROVE  RunGoesOn(w) /\ worker'[w].pc = "ask" /\ worker'[w].outcome = worker[w].outcome
    <3>1. worker[w].provider \in Providers
      BY <1>1, RunFacts DEF Run
    <3>2. QED
      BY <1>1, <2>2, <3>1, FallbackType, AsksProvider
  <2>3. QED
    BY <2>1, <2>2 DEF Recover
<1>3. QED
  BY <1>1, <1>2, RowStaysOpen, MoveInv DEF Recover, Inv, TypeOK

\* The reply is stored: the first of its job unless something failed.
LEMMA StoreReplyInv ==
  ASSUME Inv, NEW w \in Workers, StoreReply(w)
  PROVE  Inv' /\ RunGoesOn(w)
<1> DEFINE i == worker[w].job
<1>1. Running(w) /\ HasRow(w) /\ worker[w].pc = "store" /\ UNCHANGED jobs
  BY DEF StoreReply, At, Running, HasRow
<1>2. /\ Progress(w, i) /\ i \in Job /\ worker[w] \in Run /\ replies[i] \in Nat
      /\ dispatched[i] \in Nat /\ Conv(w) \in Conversations
      /\ runs[i] \in [running : Nat, success : Nat, failed : Nat]
  BY <1>1, RunFacts
<1>5. /\ RunGoesOn(w) /\ worker'[w].job = i
      /\ worker'[w].pc = "complete" /\ worker'[w].outcome = worker[w].outcome
  BY <1>1, Fields DEF StoreReply, PCs, Locked, Trying
<1>6. replies'[i] = replies[i] + 1
  BY <1>2 DEF StoreReply, Inv, TypeOK
<1>7. worker[w].outcome = "ok" /\ (faults = 0 => replies[i] = 0)
  BY <1>1, <1>2 DEF Progress, Replied
<1>8. Progress(w, i)'
  BY <1>1, <1>2, <1>5, <1>6, <1>7 DEF StoreReply, Progress, RowsAgree, HasRow, Replied, At
<1>9. TypeOK'
  BY <1>2, <1>5 DEF StoreReply, Inv, TypeOK, RunGoesOn
<1>10. RowsOfOthersStay(i) /\ FaultsGrow
  BY <1>1, RunFacts DEF StoreReply, RowsOfOthersStay, FaultsGrow, Inv, TypeOK
<1>11. QED
  BY <1>5, <1>8, <1>9, <1>10, RunGoesOnInv

\* Ending the row of a run.
LEMMA EndsRow ==
  ASSUME Inv, NEW w \in Workers, Running(w), HasRow(w), NEW s \in {"success", "failed"},
         IF s = "success" THEN runs' = Succeeded(w) ELSE runs' = Failed(w)
  PROVE  /\ runs' \in [Job -> [running : Nat, success : Nat, failed : Nat]]
         /\ runs'[worker[w].job].running = runs[worker[w].job].running - 1
         /\ s = "failed" => /\ runs'[worker[w].job].success = runs[worker[w].job].success
                            /\ runs'[worker[w].job].failed = runs[worker[w].job].failed + 1
         /\ s = "success" => /\ runs'[worker[w].job].success = runs[worker[w].job].success + 1
                             /\ runs'[worker[w].job].failed = runs[worker[w].job].failed
         /\ \A k \in Job \ {worker[w].job} : runs'[k] = runs[k]
<1> DEFINE i == worker[w].job
<1>1. i \in Job /\ runs[i] \in [running : Nat, success : Nat, failed : Nat] /\ runs[i].running > 0
  BY RunFacts DEF Progress
<1>2. runs \in [Job -> [running : Nat, success : Nat, failed : Nat]]
  BY DEF Inv, TypeOK
<1> DEFINE done == [runs[i] EXCEPT !.running = @ - 1, !.success = @ + 1]
           lost == [runs[i] EXCEPT !.running = @ - 1, !.failed = @ + 1]
<1>0. /\ runs[i].running - 1 \in Nat /\ runs[i].success + 1 \in Nat
      /\ runs[i].failed + 1 \in Nat
  BY <1>1
<1>3. /\ done \in [running : Nat, success : Nat, failed : Nat]
      /\ done.running = runs[i].running - 1 /\ done.success = runs[i].success + 1
      /\ done.failed = runs[i].failed
  BY <1>0, <1>1
<1>4. /\ lost \in [running : Nat, success : Nat, failed : Nat]
      /\ lost.running = runs[i].running - 1 /\ lost.success = runs[i].success
      /\ lost.failed = runs[i].failed + 1
  BY <1>0, <1>1
<1>5. /\ s = "success" => runs' = [runs EXCEPT ![i] = done]
      /\ s = "failed" => runs' = [runs EXCEPT ![i] = lost]
  <2>1. ASSUME s = "success" PROVE runs' = [runs EXCEPT ![i] = done]
    <3>1. runs' = Succeeded(w)
      BY <2>1
    <3>2. QED
      BY <3>1 DEF Succeeded
  <2>2. ASSUME s = "failed" PROVE runs' = [runs EXCEPT ![i] = lost]
    <3>1. runs' = Failed(w)
      BY <2>2
    <3>2. QED
      BY <3>1 DEF Failed
  <2>3. QED
    BY <2>1, <2>2
<1> HIDE DEF done, lost
<1>6. CASE s = "success"
  BY <1>1, <1>2, <1>3, <1>5, <1>6
<1>7. CASE s = "failed"
  BY <1>1, <1>2, <1>4, <1>5, <1>7
<1>8. QED
  BY <1>6, <1>7

\* completeAgentRun.
LEMMA CompleteRunInv ==
  ASSUME Inv, NEW w \in Workers, CompleteRun(w)
  PROVE  Inv' /\ RunGoesOn(w)
<1> DEFINE i == worker[w].job
<1>1. Running(w) /\ HasRow(w) /\ worker[w].pc = "complete" /\ UNCHANGED jobs
  BY DEF CompleteRun, At, Running, HasRow
<1>2. /\ Progress(w, i) /\ i \in Job /\ worker[w] \in Run /\ faults \in Nat
      /\ runs[i] \in [running : Nat, success : Nat, failed : Nat] /\ replies[i] \in Nat
  BY <1>1, RunFacts
<1>3. /\ RunGoesOn(w) /\ worker'[w].job = i
      /\ worker'[w].pc = "dispatch" /\ worker'[w].outcome = worker[w].outcome
  BY <1>1, Fields DEF CompleteRun, PCs, Locked
<1>4. /\ runs' \in [Job -> [running : Nat, success : Nat, failed : Nat]]
      /\ runs'[i].running = runs[i].running - 1 /\ runs'[i].success = runs[i].success + 1
      /\ \A k \in Job \ {i} : runs'[k] = runs[k]
  BY <1>1, EndsRow DEF CompleteRun
<1>5. Progress(w, i)'
  BY <1>1, <1>2, <1>3, <1>4 DEF CompleteRun, Progress, RowsAgree, HasRow, Replied, At
<1>6. TypeOK'
  BY <1>3, <1>4 DEF CompleteRun, Inv, TypeOK, RunGoesOn
<1>7. RowsOfOthersStay(i) /\ FaultsGrow
  BY <1>2, <1>4 DEF CompleteRun, RowsOfOthersStay, FaultsGrow
<1>8. QED
  BY <1>3, <1>5, <1>6, <1>7, RunGoesOnInv

\* failAgentRun.
LEMMA FailRunInv ==
  ASSUME Inv, NEW w \in Workers, FailRun(w)
  PROVE  Inv' /\ RunGoesOn(w)
<1> DEFINE i == worker[w].job
<1>1. Running(w) /\ HasRow(w) /\ worker[w].pc = "failRun" /\ UNCHANGED jobs
  BY DEF FailRun, At, Running, HasRow
<1>2. /\ Progress(w, i) /\ i \in Job /\ worker[w] \in Run /\ faults \in Nat
      /\ runs[i] \in [running : Nat, success : Nat, failed : Nat] /\ replies[i] \in Nat
  BY <1>1, RunFacts
<1>3. /\ RunGoesOn(w) /\ worker'[w].job = i
      /\ worker'[w].pc = "release" /\ worker'[w].outcome = "error"
  BY <1>1, Fields DEF FailRun, PCs, Locked
<1>4. /\ runs' \in [Job -> [running : Nat, success : Nat, failed : Nat]]
      /\ runs'[i].running = runs[i].running - 1 /\ runs'[i].success = runs[i].success
      /\ \A k \in Job \ {i} : runs'[k] = runs[k]
  BY <1>1, EndsRow DEF FailRun
<1>5. faults = 0 => replies[i] = 0
  BY <1>1, <1>2 DEF Progress, Replied
<1>6. Progress(w, i)'
  BY <1>1, <1>2, <1>3, <1>4, <1>5 DEF FailRun, Progress, RowsAgree, HasRow, Replied, At
<1>7. TypeOK'
  BY <1>3, <1>4 DEF FailRun, Inv, TypeOK, RunGoesOn
<1>8. RowsOfOthersStay(i) /\ FaultsGrow
  BY <1>2, <1>4 DEF FailRun, RowsOfOthersStay, FaultsGrow
<1>9. QED
  BY <1>3, <1>6, <1>7, <1>8, RunGoesOnInv

\* A failed call is a fault, wherever it happens.
LEMMA CallFailsInv ==
  ASSUME Inv, NEW w \in Workers, CallFails(w)
  PROVE  Inv' /\ RunGoesOn(w)
<1> DEFINE i == worker[w].job
<1>1. Running(w) /\ UNCHANGED <<jobs, lock, mode, rows, underWay>> /\ faults' = faults + 1
  BY DEF CallFails, At, Running
<1>2. /\ Progress(w, i) /\ i \in Job /\ worker[w] \in Run /\ faults \in Nat
      /\ runs[i] \in [running : Nat, success : Nat, failed : Nat] /\ replies[i] \in Nat
  BY <1>1, RunFacts
<1>3. faults' \in 0..MaxFaults /\ FaultsGrow
  BY <1>2, AgentAssumption DEF CallFails, FaultsGrow
<1>4. /\ RunGoesOn(w) /\ worker'[w].job = i
      /\ \/ worker'[w].pc \in {"settle", "release"} /\ worker'[w].outcome = "error"
         \/ /\ HasRow(w) /\ worker'[w].pc \in {"recover", "failRun"}
            /\ worker'[w].outcome = worker[w].outcome
  <2>1. CASE Fails(w, "settle") \/ Fails(w, "release")
    BY <1>1, <2>1, Fields DEF PCs, Locked
  <2>2. CASE worker[w].pc \in {"store", "complete"} /\ Goto(w, Catch(w))
    <3>1. Catch(w) \in {"recover", "failRun"}
      BY DEF Catch
    <3>2. QED
      BY <1>1, <2>2, <3>1, Fields DEF PCs, Locked, HasRow
  <2>3. QED
    BY <2>1, <2>2 DEF CallFails
<1>5. RowsAgree(i)'
  BY <1>1, <1>2, <1>4 DEF Progress, RowsAgree, rows
<1>6. Progress(w, i)'
  BY <1>1, <1>2, <1>4, <1>5 DEF Progress, HasRow, Replied, At, rows
<1>7. TypeOK'
  BY <1>1, <1>3, <1>4 DEF Inv, TypeOK, RunGoesOn, rows
<1>8. RowsOfOthersStay(i)
  BY <1>1 DEF RowsOfOthersStay, rows
<1>9. QED
  BY <1>3, <1>4, <1>6, <1>7, <1>8, RunGoesOnInv

-----------------------------------------------------------------------------
(* Steps that take, settle and lose jobs, and steps of others.             *)

\* A job is started by a worker that has none.
LEMMA StartJobInv ==
  ASSUME Inv, NEW w \in Workers, NEW j \in Job, StartJob(w, j)
  PROVE  Inv'
<1> DEFINE run == [Idle EXCEPT !.pc = "mode", !.job = j]
<1>1. run \in Run /\ run.job = j /\ run.pc = "mode" /\ run.outcome = "ok"
  BY AgentAssumption DEF Idle, Run, PCs
<1>2. worker' = [worker EXCEPT ![w] = run] /\ jobs' = [jobs EXCEPT ![j] = Started(jobs[j])]
  BY DEF StartJob, Becomes
<1> HIDE DEF run
<1>3. /\ jobs[j] \in JobOf({0}) /\ Started(jobs[j]) \in JobOf({0})
      /\ Started(jobs[j]).state = "active" /\ Started(jobs[j]).attempts = jobs[j].attempts
  <2>1. jobs[j] \in JobOf({0})
    BY DEF Inv, TypeOK
  <2>2. Started(jobs[j]) \in JobOf({0})
    BY <2>1, JobTypes
  <2>3. QED
    BY <2>1, <2>2 DEF Started, JobOf
<1>4. TypeOK'
  BY <1>1, <1>2, <1>3 DEF StartJob, rows, Inv, TypeOK
<1>5. ~Held(j) /\ AtRest(j)
  <2>1. ASSUME NEW v \in Workers, worker[v].job = j PROVE FALSE
    <3>1. Running(v)
      BY <2>1, AgentAssumption DEF Inv, RunsAreActive, Running
    <3>2. jobs[j].state = "active"
      BY <2>1, <3>1 DEF Inv, RunsAreActive
    <3>3. QED
      BY <3>2 DEF StartJob, Runnable
  <2>2. QED
    BY <2>1 DEF Held, Inv
<1>6. \A v \in Workers : v # w => worker'[v] = worker[v]
  BY <1>2 DEF Inv, TypeOK
<1>7. worker'[w] = run
  BY <1>2 DEF Inv, TypeOK
<1>8. RunsAreActive'
  <2>1. \A v \in Workers \ {w} : worker'[v] = worker[v] /\ worker[v].job # j
    BY <1>5, <1>6 DEF Held
  <2>2. \A k \in Job \ {j} : jobs'[k] = jobs[k]
    BY <1>2 DEF Inv, TypeOK
  <2>3. jobs'[j].state = "active"
    BY <1>2, <1>3 DEF Inv, TypeOK
  <2>4. Running(w)' /\ worker'[w].job = j
    BY <1>1, <1>7 DEF Running, At
  <2>5. QED
    BY <2>1, <2>2, <2>3, <2>4 DEF Inv, RunsAreActive, Running, At
<1>9. UnsettledHaveAttempts'
  BY <1>2, <1>3 DEF StartJob, Runnable, Settled, Inv, TypeOK, UnsettledHaveAttempts
<1>10. FaultsGrow /\ faults \in Nat
  BY AgentAssumption DEF StartJob, FaultsGrow, Inv, TypeOK
<1>11. ASSUME NEW v \in Workers, Running(v)' PROVE Progress(v, worker[v].job)'
  <2>1. CASE v = w
    <3>1. replies[j] \in Nat /\ (faults = 0 => replies[j] = 0)
      <4>1. jobs[j].state # "completed"
        BY DEF StartJob, Runnable
      <4>2. replies[j] \in Nat
        BY DEF Inv, TypeOK
      <4>3. QED
        BY <1>5, <4>1, <4>2 DEF AtRest
    <3>2. Progress(w, j)'
      BY <1>1, <1>5, <1>7, <3>1 DEF AtRest, StartJob, Progress, RowsAgree, HasRow, At, rows
    <3>3. QED
      BY <1>1, <1>7, <2>1, <3>2
  <2>2. CASE v # w
    <3>1. Running(v) /\ worker'[v] = worker[v]
      BY <1>6, <1>11, <2>2 DEF Running, At
    <3>2. worker[v].job \in Job
      BY <3>1 DEF Inv, RunsAreActive
    <3>3. QED
      BY <1>10, <3>1, <3>2, OthersKeepProgress DEF StartJob, rows
  <2>3. QED
    BY <2>1, <2>2
<1>12. ASSUME NEW k \in Job, ~Held(k)' PROVE AtRest(k)'
  <2>1. k # j
    BY <1>1, <1>7, <1>12 DEF Held
  <2>2. ~Held(k)
    <3>1. worker[w].job = None
      BY DEF StartJob, Inv, RunsAreActive
    <3>2. QED
      BY <1>6, <1>12, <3>1, AgentAssumption DEF Held
  <2>3. jobs'[k] = jobs[k] /\ AtRest(k)
    BY <1>2, <2>1, <2>2 DEF Inv, TypeOK
  <2>4. QED
    BY <1>10, <2>3, OthersKeepRest DEF StartJob, rows
<1>13. QED
  BY <1>4, <1>8, <1>9, <1>11, <1>12 DEF Inv

\* A worker that drops its job, which is settled or left behind active.
LEMMA BecomesIdle ==
  ASSUME Inv, NEW w \in Workers, Running(w), Becomes(w, Idle), FaultsGrow,
         faults' \in 0..MaxFaults, UNCHANGED <<lock, mode, rows, underWay>>,
         jobs' \in [Job -> JobOf({0})],
         \A k \in Job \ {worker[w].job} : jobs'[k] = jobs[k],
         ~Settled(jobs'[worker[w].job]) => jobs'[worker[w].job].attempts < MaxAttempts,
         \A k \in Job : k = worker[w].job => AtRest(k)'
  PROVE  Inv'
<1> DEFINE i == worker[w].job
<1>1. i \in Job /\ Idle \in Run /\ Idle.pc = "idle" /\ Idle.job = None
  BY AgentAssumption DEF Inv, RunsAreActive, Idle, Run, PCs
<1>2. worker' = [worker EXCEPT ![w] = Idle]
  BY DEF Becomes
<1>3. worker'[w] = Idle /\ \A v \in Workers \ {w} : worker'[v] = worker[v]
  BY <1>2 DEF Inv, TypeOK
<1>4. TypeOK'
  BY <1>1, <1>2 DEF Inv, TypeOK, rows
<1>5. ASSUME NEW v \in Workers, Running(v)'
      PROVE  /\ v # w /\ Running(v) /\ worker'[v] = worker[v]
             /\ worker[v].job \in Job \ {i}
  <2>1. v # w
    BY <1>1, <1>3, <1>5 DEF Running, At
  <2>2. Running(v) /\ worker'[v] = worker[v]
    BY <1>3, <1>5, <2>1 DEF Running, At
  <2>3. QED
    BY <2>1, <2>2 DEF Inv, RunsAreActive
<1>6. RunsAreActive'
  <2>1. \A v \in Workers : Running(v)' => worker'[v].job \in Job /\ jobs'[worker'[v].job].state = "active"
    BY <1>5 DEF Inv, RunsAreActive
  <2>2. \A v \in Workers : At(v, "idle")' => worker'[v].job = None
    BY <1>1, <1>3 DEF Inv, RunsAreActive, At
  <2>3. \A u, v \in Workers : Running(u)' /\ Running(v)' /\ worker'[u].job = worker'[v].job => u = v
    BY <1>5 DEF Inv, RunsAreActive
  <2>4. QED
    BY <2>1, <2>2, <2>3 DEF RunsAreActive
<1>7. UnsettledHaveAttempts'
  BY DEF Inv, UnsettledHaveAttempts
<1>8. ASSUME NEW v \in Workers, Running(v)' PROVE Progress(v, worker[v].job)'
  BY <1>5, <1>8, OthersKeepProgress DEF rows
<1>9. ASSUME NEW k \in Job, ~Held(k)' PROVE AtRest(k)'
  <2>1. CASE k = i
    BY <2>1
  <2>2. CASE k # i
    <3>1. ~Held(k)
      BY <1>3, <1>9, <2>2 DEF Held
    <3>2. AtRest(k) /\ jobs'[k] = jobs[k]
      BY <2>2, <3>1 DEF Inv
    <3>3. QED
      BY <3>2, OthersKeepRest DEF rows
  <2>3. QED
    BY <2>1, <2>2
<1>10. QED
  BY <1>4, <1>6, <1>7, <1>8, <1>9 DEF Inv

\* process() ended: a job that completes has been answered.
LEMMA SettleJobInv ==
  ASSUME Inv, NEW w \in Workers, SettleJob(w)
  PROVE  Inv'
<1> DEFINE i == worker[w].job
           job == IF worker[w].outcome = "ok" THEN Completed(jobs[i]) ELSE AttemptFailed(jobs[i])
<1>1. Running(w) /\ UNCHANGED <<lock, mode, rows, underWay, faults>> /\ Becomes(w, Idle)
  BY DEF SettleJob, At, Running
<1>2. /\ Progress(w, i) /\ i \in Job /\ faults \in Nat /\ replies[i] \in Nat
      /\ faults' \in 0..MaxFaults /\ FaultsGrow
  BY <1>1, RunFacts DEF FaultsGrow, Inv, TypeOK
<1>3. jobs[i] \in JobOf({0}) /\ jobs[i].attempts < MaxAttempts
  BY <1>1, <1>2 DEF Inv, TypeOK, RunsAreActive, UnsettledHaveAttempts, Settled
<1>4. /\ job \in JobOf({0})
      /\ ~Settled(job) => job.attempts < MaxAttempts
      /\ job.state # "active" /\ (job.state = "completed" <=> worker[w].outcome = "ok")
  <2>1. Completed(jobs[i]).state = "completed"
    BY <1>3 DEF Completed, JobOf
  <2>2. AttemptFailed(jobs[i]).state \in {"delayed", "failed"}
    BY <1>3 DEF AttemptFailed, JobOf
  <2>3. QED
    BY <1>3, <2>1, <2>2, JobTypes, AttemptsAreLeft DEF Settled
<1>5. jobs' = [jobs EXCEPT ![i] = job]
  BY DEF SettleJob
<1> HIDE DEF job
<1>6. /\ jobs' \in [Job -> JobOf({0})] /\ jobs'[i] = job
      /\ \A k \in Job \ {i} : jobs'[k] = jobs[k]
  <2>1. jobs \in [Job -> JobOf({0})]
    BY DEF Inv, TypeOK
  <2>2. QED
    BY <1>2, <1>4, <1>5, <2>1
<1>7. worker[w].pc = "settle"
  BY DEF SettleJob, At
<1>8. \A k \in Job : k = i => AtRest(k)'
  BY <1>1, <1>2, <1>4, <1>6, <1>7 DEF Progress, AtRest, RowsAgree, HasRow, Replied, Answered, rows
<1>9. QED
  BY <1>1, <1>2, <1>4, <1>6, <1>8, BecomesIdle

\* The process dies: a fault, which may leave an open row behind.
LEMMA CrashInv ==
  ASSUME Inv, NEW w \in Workers, Crash(w)
  PROVE  Inv'
<1> DEFINE i == worker[w].job
<1>1. Running(w) /\ UNCHANGED <<jobs, lock, mode, rows, underWay>> /\ Becomes(w, Idle) /\ faults' = faults + 1
  BY DEF Crash, Running
<1>2. /\ Progress(w, i) /\ i \in Job /\ faults \in Nat /\ runs[i].running \in Nat
      /\ jobs[i].state = "active"
  BY <1>1, RunFacts DEF Inv, RunsAreActive
<1>3. faults' \in 0..MaxFaults /\ FaultsGrow
  BY <1>2, AgentAssumption DEF Crash, FaultsGrow
<1>4. \A k \in Job : k = i => AtRest(k)'
  BY <1>1, <1>2 DEF Progress, AtRest, RowsAgree, HasRow, rows
<1>5. QED
  BY <1>1, <1>2, <1>3, <1>4, BecomesIdle DEF Inv, TypeOK, UnsettledHaveAttempts

\* A job changes while no worker runs it: it is added, or found stalled, which
\* takes a crash.
LEMMA UnheldInv ==
  ASSUME Inv, NEW j \in Job, ~Held(j), NEW job \in JobOf({0}),
         jobs' = [jobs EXCEPT ![j] = job], UNCHANGED <<worker, lock, mode, rows, underWay, faults>>,
         ~Settled(job) => job.attempts < MaxAttempts,
         job.state \notin {"completed", "active"},
         faults = 0 => jobs[j].state # "completed"
  PROVE  Inv'
<1>1. FaultsGrow
  BY AgentAssumption DEF FaultsGrow, Inv, TypeOK
<1>2. jobs'[j] = job /\ \A k \in Job \ {j} : jobs'[k] = jobs[k]
  BY DEF Inv, TypeOK
<1>3. TypeOK' /\ UnsettledHaveAttempts'
  BY <1>2 DEF Inv, TypeOK, UnsettledHaveAttempts, rows
<1>4. RunsAreActive'
  BY <1>2 DEF Inv, RunsAreActive, Running, At, Held
<1>5. ASSUME NEW v \in Workers, Running(v)' PROVE Progress(v, worker[v].job)'
  BY <1>5 DEF Inv, Progress, RowsAgree, HasRow, Replied, Answered, Running, At, RunsAreActive, rows
<1>6. ASSUME NEW k \in Job, ~Held(k)' PROVE AtRest(k)'
  <2>1. ~Held(k) /\ AtRest(k)
    BY <1>6 DEF Held, Inv
  <2>2. CASE k = j
    BY <1>2, <2>1, <2>2 DEF AtRest, RowsAgree, Answered, rows
  <2>3. CASE k # j
    BY <1>1, <1>2, <2>1, <2>3, OthersKeepRest DEF rows
  <2>4. QED
    BY <2>2, <2>3
<1>7. QED
  BY <1>3, <1>4, <1>5, <1>6 DEF Inv

\* Only jobs that are active are held.
LEMMA HeldAreActive ==
  ASSUME Inv, NEW j \in Job, Held(j)
  PROVE  jobs[j].state = "active" /\ \E w \in Workers : worker[w].job = j /\ Running(w)
BY AgentAssumption DEF Inv, Held, RunsAreActive, Running

\* A new message adds a job.
LEMMA AddAgentJobInv ==
  ASSUME Inv, NEW j \in Job, AddAgentJob(j)
  PROVE  Inv'
<1>1. ~Held(j) /\ jobs[j].state = "absent"
  BY HeldAreActive DEF AddAgentJob
<1>2. Queued(0) \in JobOf({0})
  BY BullAssumption DEF Queued, JobOf, JobStates
<1>3. Queued(0).attempts < MaxAttempts /\ Queued(0).state = "waiting"
  BY BullAssumption DEF Queued
<1>4. QED
  BY <1>1, <1>2, <1>3, UnheldInv DEF AddAgentJob

\* A stalled job goes back to the queue, or fails; without faults there is none.
LEMMA StalledCheckInv ==
  ASSUME Inv, NEW j \in Job, StalledCheck(j)
  PROVE  Inv'
<1>1. ~Held(j) /\ jobs[j].state = "active" /\ jobs[j] \in JobOf({0})
  BY DEF StalledCheck, Held, Inv, TypeOK
<1>2. jobs[j].attempts < MaxAttempts
  BY <1>1 DEF Inv, UnsettledHaveAttempts, Settled
<1>3. Stalled(jobs[j]) \in JobOf({0})
  BY <1>1, JobTypes
<1>4. Stalled(jobs[j]).state \in {"waiting", "failed"} /\ Stalled(jobs[j]).attempts = jobs[j].attempts
  BY <1>1 DEF Stalled, JobOf
<1>5. QED
  BY <1>1, <1>2, <1>3, <1>4, UnheldInv DEF StalledCheck

\* Operators, tools and expiring keys touch neither runs nor rows.
LEMMA OutsideInv ==
  ASSUME Inv,
         \/ \E c \in Conversations : HandOver(c) \/ GiveBack(c) \/ LockExpires(c)
         \/ \E w \in Workers : TransferToHuman(w)
  PROVE  Inv' /\ UNCHANGED worker
<1>1. UNCHANGED <<jobs, worker, replies, dispatched, runs, skipped, faults>>
  BY DEF HandOver, GiveBack, LockExpires, TransferToHuman, BecomesManual, rows
<1>2. /\ mode' \in [Conversations -> {"auto", "manual"}] /\ underWay' \subseteq Job
      /\ lock' \subseteq Conversations
  <2>1. ASSUME NEW c \in Conversations, BecomesManual(c) PROVE underWay' \subseteq Job
    <3>1. \A w \in Workers : Admitted(w) => worker[w].job \in Job
      BY DEF Admitted, InCritical, At, Locked, Trying, Inv, RunsAreActive, Running
    <3>2. QED
      BY <2>1, <3>1 DEF BecomesManual, UnderWayElsewhere, Inv, TypeOK
  <2>2. \A w \in Workers : TransferToHuman(w) => Conv(w) \in Conversations
    BY RunFacts DEF TransferToHuman, At, Running
  <2>3. ASSUME NEW c \in Conversations, GiveBack(c) PROVE underWay' \subseteq Job
    BY <2>3 DEF GiveBack, UnderWayElsewhere, Inv, TypeOK
  <2>4. underWay' \subseteq Job
    BY <2>1, <2>2, <2>3 DEF HandOver, LockExpires, TransferToHuman, Inv, TypeOK
  <2>5. mode' \in [Conversations -> {"auto", "manual"}] /\ lock' \subseteq Conversations
    BY DEF HandOver, GiveBack, LockExpires, TransferToHuman, BecomesManual, Inv, TypeOK
  <2>6. QED
    BY <2>4, <2>5
<1>3. TypeOK'
  BY <1>1, <1>2 DEF Inv, TypeOK
<1>4. RunsAreActive' /\ UnsettledHaveAttempts'
  BY <1>1 DEF Inv, RunsAreActive, UnsettledHaveAttempts, Running, At, Settled
<1>5. \A w \in Workers : Running(w)' => Progress(w, worker[w].job)'
  BY <1>1 DEF Inv, Running, At, Progress, RowsAgree, HasRow, Replied, Answered
<1>6. \A j \in Job : ~Held(j)' => AtRest(j)'
  BY <1>1 DEF Inv, Held, AtRest, RowsAgree, Answered
<1>7. QED
  BY <1>1, <1>3, <1>4, <1>5, <1>6 DEF Inv

\* The steps of a run between its start and SettleJob, without failures.
RunStep(w) ==
  \/ CheckMode(w) \/ AcquireLock(w) \/ OpenRun(w) \/ PrepareContext(w) \/ Ask(w)
  \/ StoreReply(w) \/ CompleteRun(w) \/ Recover(w) \/ FailRun(w)
  \/ AddDispatchJob(w) \/ ReleaseLock(w)

\* Every step of the handler keeps the invariant.
LEMMA RunStepInv ==
  ASSUME Inv, NEW w \in Workers, RunStep(w)
  PROVE  Inv' /\ RunGoesOn(w)
BY CheckModeInv, AcquireLockInv, OpenRunInv, PrepareContextInv, AskInv, StoreReplyInv,
   CompleteRunInv, RecoverInv, FailRunInv, AddDispatchJobInv, ReleaseLockInv
DEF RunStep

\* Next, grouped the way the lemmas are.
LEMMA NextCases ==
  ASSUME Next
  PROVE  \/ \E w \in Workers : RunStep(w) \/ SettleJob(w) \/ CallFails(w) \/ Crash(w)
         \/ \E w \in Workers, j \in Job : StartJob(w, j)
         \/ \E j \in Job : AddAgentJob(j) \/ StalledCheck(j)
         \/ \/ \E c \in Conversations : HandOver(c) \/ GiveBack(c) \/ LockExpires(c)
            \/ \E w \in Workers : TransferToHuman(w)
BY DEF Next, Step, RunStep

\* The invariant is inductive.
LEMMA NextInv == Inv /\ [Next]_vars => Inv'
<1> SUFFICES ASSUME Inv, [Next]_vars PROVE Inv'
  OBVIOUS
<1>1. CASE UNCHANGED vars
  BY <1>1 DEF vars, rows, Inv, TypeOK, RunsAreActive, UnsettledHaveAttempts, Running, At,
     Settled, Progress, RowsAgree, HasRow, Replied, Answered, Held, AtRest
<1>2. CASE Next
  BY <1>2, NextCases, RunStepInv, SettleJobInv, CallFailsInv, CrashInv, StartJobInv,
     AddAgentJobInv, StalledCheckInv, OutsideInv
<1>3. QED
  BY <1>1, <1>2

-----------------------------------------------------------------------------
(* What follows from it.                                                   *)

\* TypeOK holds for every set of conversations, jobs, workers and providers.
THEOREM TypeCorrect == Spec => []TypeOK
<1>1. Inv => TypeOK
  BY DEF Inv
<1>2. QED
  BY InitInv, NextInv, <1>1, PTL DEF Spec

\* Without failed calls and crashes, no message is answered twice, however many
\* providers fail and however many attempts find the conversation locked.
THEOREM AnsweredOnce == Spec => []RepliesNeedFaults
<1>1. Inv => RepliesNeedFaults
  BY HeldAreActive DEF Inv, RepliesNeedFaults, AtRest, Progress
<1>2. QED
  BY InitInv, NextInv, <1>1, PTL DEF Spec

\* Nothing reaches the dispatcher that was not stored first, and as often.
THEOREM StoredBeforeSent == Spec => []DispatchedIsStored
<1>1. Inv => DispatchedIsStored
  BY HeldAreActive DEF Inv, DispatchedIsStored, AtRest, Progress, RowsAgree
<1>2. QED
  BY InitInv, NextInv, <1>1, PTL DEF Spec

\* A job only completes with its reply dispatched, or in the hands of an operator.
THEOREM CompletedJobs == Spec => []CompletedIsDispatched
<1>1. Inv => CompletedIsDispatched
  <2>1. SUFFICES ASSUME Inv, NEW j \in Job, jobs[j].state = "completed" PROVE Answered(j)
    BY DEF CompletedIsDispatched, Answered
  <2>2. ~Held(j)
    BY <2>1, HeldAreActive
  <2>3. QED
    BY <2>1, <2>2 DEF Inv, AtRest
<1>2. QED
  BY InitInv, NextInv, <1>1, PTL DEF Spec

\* Rows that stay "running" are counted by the failures that left them.
THEOREM RunsAreEnded == Spec => []RunsEnd
<1>1. Inv => RunsEnd
  <2>1. SUFFICES ASSUME Inv, NEW j \in Job
                 PROVE  /\ Settled(jobs[j]) => runs[j].running <= faults
                        /\ runs[j].success <= replies[j]
    BY DEF RunsEnd
  <2>2. RowsAgree(j)
    BY <2>1, HeldAreActive DEF Inv, AtRest, Progress
  <2>3. Settled(jobs[j]) => AtRest(j)
    BY <2>1, HeldAreActive DEF Inv, Settled
  <2>4. QED
    BY <2>2, <2>3 DEF AtRest, RowsAgree
<1>2. QED
  BY InitInv, NextInv, <1>1, PTL DEF Spec

-----------------------------------------------------------------------------
(* Mutual exclusion.                                                       *)

\* Runs only enter the critical section through AcquireLock.
LEMMA NobodyEnters ==
  ASSUME Inv, Next, \A w \in Workers : ~AcquireLock(w),
         NEW v \in Workers, InCritical(v)'
  PROVE  InCritical(v) /\ worker'[v].job = worker[v].job
<1> DEFINE Goal == InCritical(v) /\ worker'[v].job = worker[v].job
<1>0. ASSUME worker'[v] = worker[v] PROVE Goal
  BY <1>0 DEF InCritical
<1>1. ASSUME NEW w \in Workers, RunStep(w) \/ CallFails(w) PROVE Goal
  <2>1. RunGoesOn(w)
    BY <1>1, RunStepInv, CallFailsInv
  <2>2. CASE v # w
    BY <1>0, <2>1, <2>2 DEF RunGoesOn
  <2>3. CASE v = w
    <3>1. CASE At(w, "mode")
      <4>1. worker'[w].pc \in {"settle", "lock"}
        <5>1. Running(w) /\ UNCHANGED jobs
          BY <2>1 DEF RunGoesOn
        <5>2. Goto(w, "settle") \/ Goto(w, "lock") \/ Fails(w, "settle")
          BY <1>1, <3>1
          DEF RunStep, CheckMode, OpenRun, PrepareContext, Ask, StoreReply, CompleteRun,
              Recover, FailRun, AddDispatchJob, ReleaseLock, CallFails, At
        <5>3. QED
          BY <5>1, <5>2, Fields DEF PCs
      <4>2. QED
        BY <2>3, <4>1 DEF InCritical, Locked, Trying
    <3>2. CASE At(w, "lock")
      <4>1. Fails(w, "settle")
        BY <1>1, <3>2
        DEF RunStep, CheckMode, OpenRun, PrepareContext, Ask, StoreReply, CompleteRun,
            Recover, FailRun, AddDispatchJob, ReleaseLock, CallFails, At
      <4>2. worker'[w].pc = "settle"
        BY <2>1, <4>1, Fields DEF PCs, RunGoesOn
      <4>3. QED
        BY <2>3, <4>2 DEF InCritical, Locked, Trying
    <3>3. CASE worker[w].pc \in Locked
      BY <2>1, <2>3, <3>3 DEF InCritical, RunGoesOn
    <3>4. worker[w].pc \in {"mode", "lock"} \cup Locked
      BY <1>1
      DEF RunStep, CheckMode, OpenRun, PrepareContext, Ask, StoreReply, CompleteRun, Recover,
          FailRun, AddDispatchJob, ReleaseLock, CallFails, At, Locked, Trying
    <3>5. QED
      BY <3>1, <3>2, <3>3, <3>4 DEF At
  <2>4. QED
    BY <2>2, <2>3
<1>2. ASSUME NEW w \in Workers, NEW run, Becomes(w, run), run.pc \notin Locked PROVE Goal
  BY <1>0, <1>2 DEF Becomes, InCritical, Inv, TypeOK
<1>3. ASSUME NEW w \in Workers, SettleJob(w) \/ Crash(w) PROVE Goal
  <2>1. Idle.pc \notin Locked
    BY DEF Idle, Locked, Trying
  <2>2. QED
    BY <1>2, <1>3, <2>1 DEF SettleJob, Crash
<1>4. ASSUME NEW w \in Workers, NEW j \in Job, StartJob(w, j) PROVE Goal
  <2>1. [Idle EXCEPT !.pc = "mode", !.job = j].pc \notin Locked
    BY DEF Idle, Locked, Trying
  <2>2. QED
    BY <1>2, <1>4, <2>1 DEF StartJob
<1>5. ASSUME UNCHANGED worker PROVE Goal
  BY <1>0, <1>5
<1>6. QED
  BY <1>1, <1>3, <1>4, <1>5, NextCases, OutsideInv DEF AddAgentJob, StalledCheck

\* A run that goes on keeps its conversation, and leaves the others in place.
LEMMA ConversationsStay ==
  ASSUME Inv, NEW w \in Workers, RunGoesOn(w), NEW v \in Workers
  PROVE  Conv(v)' = Conv(v) /\ (v # w => (InCritical(v)' <=> InCritical(v)))
BY DEF RunGoesOn, Conv, InCritical

\* As long as no lock is taken or freed, mutual exclusion carries over.
LEMMA LockUntouched ==
  ASSUME LockInv, Next, UNCHANGED lock, \A w \in Workers : ~AcquireLock(w)
  PROVE  HoldersAreLocked' /\ OneReplyAtATime'
<1>1. \A w \in Workers : InCritical(w)' => InCritical(w) /\ Conv(w)' = Conv(w)
  BY NobodyEnters DEF LockInv, Conv
<1>2. QED
  BY <1>1 DEF LockInv, HoldersAreLocked, OneReplyAtATime

\* The invariant of the locks is inductive.
LEMMA LockNext ==
  ASSUME LockOutlivesJob, LockInv, Next
  PROVE  LockInv'
<1>1. Inv'
  BY NextInv DEF LockInv
<1>2. ASSUME NEW w \in Workers, AcquireLock(w) PROVE HoldersAreLocked' /\ OneReplyAtATime'
  <2>1. RunGoesOn(w) /\ (Conv(w) \in lock => At(w, "settle")')
    BY <1>2, AcquireLockInv DEF LockInv
  <2>2. CASE Conv(w) \notin lock
    <3>1. lock' = lock \cup {Conv(w)}
      BY <1>2, <2>2 DEF AcquireLock
    <3>2. \A v \in Workers : InCritical(v) => Conv(v) # Conv(w)
      BY <2>2 DEF LockInv, HoldersAreLocked
    <3>3. QED
      BY <2>1, <3>1, <3>2, ConversationsStay DEF LockInv, HoldersAreLocked, OneReplyAtATime
  <2>3. CASE Conv(w) \in lock
    <3>1. UNCHANGED lock
      BY <1>2, <2>3 DEF AcquireLock
    <3>2. ~InCritical(w)'
      BY <2>1, <2>3 DEF InCritical, At, Locked, Trying
    <3>3. QED
      BY <2>1, <3>1, <3>2, ConversationsStay DEF LockInv, HoldersAreLocked, OneReplyAtATime
  <2>4. QED
    BY <2>2, <2>3
<1>3. ASSUME NEW w \in Workers, ReleaseLock(w) PROVE HoldersAreLocked' /\ OneReplyAtATime'
  <2>1. RunGoesOn(w)
    BY <1>3, ReleaseLockInv DEF LockInv
  <2>2. lock' = lock \ {Conv(w)} /\ InCritical(w)
    BY <1>3 DEF ReleaseLock, At, InCritical, Locked
  <2>3. worker'[w].pc = "settle"
    BY <1>3, <2>1, Fields DEF ReleaseLock, LockInv, RunGoesOn, PCs
  <2>4. ~InCritical(w)'
    BY <2>3 DEF InCritical, Locked, Trying
  <2>5. QED
    BY <2>1, <2>2, <2>4, ConversationsStay DEF LockInv, HoldersAreLocked, OneReplyAtATime
<1>4. ASSUME NEW c \in Conversations, LockExpires(c) PROVE HoldersAreLocked' /\ OneReplyAtATime'
  <2>1. UNCHANGED worker /\ lock' = lock \ {c}
    BY <1>4 DEF LockExpires
  <2>2. \A w \in Workers : InCritical(w) => Conv(w) # c
    BY <1>4 DEF LockExpires
  <2>3. QED
    BY <2>1, <2>2 DEF LockInv, HoldersAreLocked, OneReplyAtATime, InCritical, Conv
<1>5. CASE UNCHANGED lock /\ \A w \in Workers : ~AcquireLock(w)
  BY <1>1, <1>5, LockUntouched DEF LockInv
<1>6. \/ \E w \in Workers : AcquireLock(w) \/ ReleaseLock(w)
      \/ \E c \in Conversations : LockExpires(c)
      \/ UNCHANGED lock
  BY NextCases
  DEF RunStep, CheckMode, OpenRun, PrepareContext, Ask, StoreReply, CompleteRun, Recover,
      FailRun, AddDispatchJob, SettleJob, CallFails, Crash, StartJob, AddAgentJob,
      StalledCheck, HandOver, GiveBack, TransferToHuman, BecomesManual
<1>7. QED
  BY <1>1, <1>2, <1>3, <1>4, <1>5, <1>6 DEF LockInv

\* If no run outlives the 60 seconds of its lock, one run at a time answers in a
\* conversation: for any number of workers, crashes and failed calls.
THEOREM MutualExclusion == LockOutlivesJob /\ Spec => []OneReplyAtATime
<1> SUFFICES ASSUME LockOutlivesJob PROVE Spec => []OneReplyAtATime
  OBVIOUS
<1>1. Init => LockInv
  BY InitInv
  DEF LockInv, HoldersAreLocked, OneReplyAtATime, Init, InCritical, Locked, Trying, Idle
<1>2. LockInv /\ [Next]_vars => LockInv'
  <2>1. ASSUME LockInv, UNCHANGED vars PROVE LockInv'
    <3>1. Inv'
      BY <2>1, NextInv DEF LockInv
    <3>2. QED
      BY <2>1, <3>1 DEF vars, LockInv, HoldersAreLocked, OneReplyAtATime, InCritical, Conv
  <2>2. QED
    BY <2>1, LockNext
<1>3. LockInv => OneReplyAtATime
  BY DEF LockInv
<1>4. QED
  BY <1>1, <1>2, <1>3, PTL DEF Spec

-----------------------------------------------------------------------------
(* Contention.                                                             *)

\* Another message of the conversation of j has had the key.
Company(j) ==
  \E i \in Job \ {j} : ConversationOf[i] = ConversationOf[j] /\ HasRun(i)

KeysAreHeld == \A c \in lock : \E w \in Workers : InCritical(w) /\ Conv(w) = c

\* The run has passed createAgentRun.
Recorded(w) == worker[w].pc \in Locked \ {"open"}

\* A run that is about to spend an attempt was turned away, or has just ended
\* its row as failed.
SpendsWithReason(w, j) ==
  /\ Recorded(w) => runs[j] # NoRuns
  /\ worker[w].outcome = "locked" => Company(j)
  /\ worker[w].outcome = "error" => Company(j) \/ runs[j].failed > jobs[j].attempts

ContentionInv ==
  /\ Inv
  /\ faults = 0 =>
       /\ KeysAreHeld
       /\ \A w \in Workers : Running(w) => SpendsWithReason(w, worker[w].job)
       /\ \A j \in Job : jobs[j].attempts > runs[j].failed => Company(j)

\* Rows are added and ended, never taken back.
RowsGrow ==
  \A j \in Job : runs'[j].failed >= runs[j].failed /\ (runs[j] # NoRuns => runs'[j] # NoRuns)

\* Where a step of the handler leads, and why it may turn out badly.
LEMMA RunStepLeads ==
  ASSUME Inv, NEW w \in Workers, RunStep(w)
  PROVE  /\ InCritical(w) => InCritical(w)' \/ ReleaseLock(w)
         /\ Recorded(w)' => OpenRun(w) \/ Recorded(w)
         /\ \/ worker'[w].outcome = worker[w].outcome
            \/ worker'[w].outcome = "error" /\ FailRun(w)
            \/ worker'[w].outcome = "locked" /\ AcquireLock(w) /\ Conv(w) \in lock
<1>1. RunGoesOn(w) /\ Running(w) /\ UNCHANGED jobs
  BY RunStepInv DEF RunGoesOn
<1>2. CASE CheckMode(w)
  <2>1. \E pc \in {"settle", "lock"} : Goto(w, pc)
    BY <1>2 DEF CheckMode
  <2>2. worker'[w].pc \in {"settle", "lock"} /\ worker'[w].outcome = worker[w].outcome
    BY <1>1, <2>1, Fields DEF PCs
  <2>3. worker[w].pc = "mode"
    BY <1>2 DEF CheckMode, At
  <2>4. QED
    BY <2>2, <2>3 DEF InCritical, Recorded, Locked, Trying
<1>3. CASE AcquireLock(w)
  <2>1. worker[w].pc = "lock"
    BY <1>3 DEF AcquireLock, At
  <2>2. CASE Conv(w) \notin lock
    <3>1. worker'[w].pc = "open" /\ worker'[w].outcome = worker[w].outcome
      BY <1>1, <1>3, <2>2, Fields DEF AcquireLock, PCs, Locked
    <3>2. QED
      BY <2>1, <3>1 DEF InCritical, Recorded, Locked, Trying
  <2>3. CASE Conv(w) \in lock
    <3>1. [worker[w] EXCEPT !.pc = "settle", !.outcome = "locked"] = worker'[w]
      BY <1>3, <2>3 DEF AcquireLock, Becomes, Inv, TypeOK
    <3>2. worker'[w].pc = "settle" /\ worker'[w].outcome = "locked"
      BY <1>1, <3>1, RunFacts DEF Run
    <3>3. QED
      BY <1>3, <2>1, <2>3, <3>2 DEF InCritical, Recorded, Locked, Trying
  <2>4. QED
    BY <2>2, <2>3
<1>4. CASE OpenRun(w)
  <2>1. worker'[w].pc = "context" /\ worker'[w].outcome = worker[w].outcome
    BY <1>1, <1>4, Fields DEF OpenRun, PCs, Locked
  <2>2. QED
    BY <1>4, <2>1 DEF InCritical, Locked
<1>5. CASE PrepareContext(w) \/ Recover(w)
  <2>1. /\ worker'[w].pc \in {"ask", "failRun"} /\ worker'[w].outcome = worker[w].outcome
        /\ worker[w].pc \in {"context", "recover"}
    <3>1. CASE \E pc \in {"ask", "failRun"} : Goto(w, pc)
      BY <1>1, <1>5, <3>1, Fields DEF PCs, Locked, Trying, PrepareContext, Recover, At
    <3>2. ASSUME NEW p \in Providers, NEW s \in {"early", "late"},
                 Becomes(w, [worker[w] EXCEPT !.pc = "ask", !.provider = p, !.stage = s])
          PROVE  worker'[w].pc = "ask" /\ worker'[w].outcome = worker[w].outcome
      BY <1>1, <3>2, AsksProvider
    <3>3. worker[w].provider \in Providers /\ Primary \in Providers
      BY <1>1, RunFacts, AgentAssumption DEF Run
    <3>4. QED
      BY <1>5, <3>1, <3>2, <3>3, FallbackType DEF PrepareContext, Recover, At
  <2>2. QED
    BY <2>1 DEF InCritical, Recorded, Locked, Trying
<1>6. CASE Ask(w) \/ StoreReply(w) \/ CompleteRun(w) \/ AddDispatchJob(w)
  <2>1. PICK pc \in {"store", "recover", "failRun", "complete", "dispatch", "release"} : Goto(w, pc)
    BY <1>6 DEF Ask, Catch, StoreReply, CompleteRun, AddDispatchJob
  <2>2. worker'[w].pc = pc /\ worker'[w].outcome = worker[w].outcome
    BY <1>1, <2>1, Fields DEF PCs, Locked, Trying
  <2>3. worker[w].pc \in {"ask", "store", "complete", "dispatch"}
    BY <1>6 DEF Ask, StoreReply, CompleteRun, AddDispatchJob, At
  <2>4. QED
    BY <2>2, <2>3 DEF InCritical, Recorded, Locked, Trying
<1>7. CASE FailRun(w)
  <2>1. worker'[w].pc = "release" /\ worker'[w].outcome = "error" /\ worker[w].pc = "failRun"
    BY <1>1, <1>7, Fields DEF FailRun, PCs, Locked, At
  <2>2. QED
    BY <1>7, <2>1 DEF InCritical, Recorded, Locked, Trying
<1>8. CASE ReleaseLock(w)
  <2>1. worker'[w].pc = "settle" /\ worker'[w].outcome = worker[w].outcome
    BY <1>1, <1>8, Fields DEF ReleaseLock, PCs
  <2>2. QED
    BY <1>8, <2>1 DEF Recorded, Locked, Trying
<1>9. QED
  BY <1>2, <1>3, <1>4, <1>5, <1>6, <1>7, <1>8 DEF RunStep

\* What a step of the handler does to the rows of its job.
LEMMA RunStepRows ==
  ASSUME Inv, NEW w \in Workers, RunStep(w)
  PROVE  /\ RowsGrow
         /\ OpenRun(w) => runs'[worker[w].job] # NoRuns
         /\ FailRun(w) => runs'[worker[w].job].failed = runs[worker[w].job].failed + 1
<1> DEFINE i == worker[w].job
           Rows == [running : Nat, success : Nat, failed : Nat]
<1>1. Running(w) /\ i \in Job /\ runs \in [Job -> Rows] /\ runs[i] \in Rows
  BY RunStepInv, RunFacts DEF RunGoesOn, Inv, TypeOK
<1>2. CASE OpenRun(w)
  <2>1. runs' = [runs EXCEPT ![i] = [runs[i] EXCEPT !.running = runs[i].running + 1]]
    BY <1>1, <1>2 DEF OpenRun
  <2>2. runs'[i] = [runs[i] EXCEPT !.running = runs[i].running + 1]
    BY <1>1, <2>1
  <2>3. runs'[i].running = runs[i].running + 1 /\ runs'[i].failed = runs[i].failed
    BY <1>1, <2>2
  <2>4. runs'[i] # NoRuns
    BY <1>1, <2>3 DEF NoRuns
  <2>5. \A k \in Job \ {i} : runs'[k] = runs[k]
    BY <1>1, <2>1
  <2>6. ~FailRun(w)
    BY <1>2 DEF OpenRun, FailRun, At
  <2>7. QED
    BY <1>1, <2>3, <2>4, <2>5, <2>6 DEF RowsGrow
<1>3. CASE CompleteRun(w) \/ FailRun(w)
  <2>1. HasRow(w) /\ ~OpenRun(w) /\ ~(CompleteRun(w) /\ FailRun(w))
    BY <1>3 DEF CompleteRun, FailRun, OpenRun, HasRow, At
  <2>2. PICK s \in {"success", "failed"} :
          /\ s = "failed" <=> FailRun(w)
          /\ IF s = "success" THEN runs' = Succeeded(w) ELSE runs' = Failed(w)
    BY <1>3, <2>1 DEF CompleteRun, FailRun
  <2>3. /\ s = "failed" => runs'[i].failed = runs[i].failed + 1
        /\ s = "success" => /\ runs'[i].success = runs[i].success + 1
                            /\ runs'[i].failed = runs[i].failed
        /\ \A k \in Job \ {i} : runs'[k] = runs[k]
    BY <1>1, <2>1, <2>2, EndsRow
  <2>4. runs'[i] # NoRuns /\ runs'[i].failed >= runs[i].failed
    BY <1>1, <2>2, <2>3 DEF NoRuns
  <2>5. QED
    BY <1>1, <2>1, <2>2, <2>3, <2>4 DEF RowsGrow
<1>4. CASE UNCHANGED runs /\ ~OpenRun(w) /\ ~FailRun(w)
  BY <1>1, <1>4 DEF RowsGrow
<1>5. QED
  BY <1>2, <1>3, <1>4
  DEF RunStep, CheckMode, AcquireLock, PrepareContext, Ask, StoreReply, Recover,
      AddDispatchJob, ReleaseLock, rows

\* Rows only grow, whatever happens.
LEMMA RowsOnlyGrow ==
  ASSUME Inv, Next
  PROVE  RowsGrow
<1>1. UNCHANGED runs => RowsGrow
  BY DEF RowsGrow, Inv, TypeOK
<1>2. QED
  BY <1>1, NextCases, RunStepRows, OutsideInv
  DEF SettleJob, CallFails, Crash, StartJob, AddAgentJob, StalledCheck, HandOver, GiveBack,
      LockExpires, TransferToHuman, BecomesManual, rows

\* As long as nothing fails, a run leaves the critical section by ReleaseLock only.
LEMMA KeepersStay ==
  ASSUME Inv, Next, faults' = 0, NEW v \in Workers, InCritical(v)
  PROVE  (InCritical(v)' /\ worker'[v].job = worker[v].job) \/ ReleaseLock(v)
<1> DEFINE Goal == (InCritical(v)' /\ worker'[v].job = worker[v].job) \/ ReleaseLock(v)
<1>0. ASSUME worker'[v] = worker[v] PROVE Goal
  BY <1>0 DEF InCritical
<1>1. ASSUME NEW w \in Workers, RunStep(w) PROVE Goal
  <2>1. RunGoesOn(w)
    BY <1>1, RunStepInv
  <2>2. QED
    BY <1>0, <1>1, <2>1, RunStepLeads DEF RunGoesOn
<1>2. ASSUME NEW w \in Workers, w # v, NEW run, Becomes(w, run) PROVE Goal
  BY <1>0, <1>2 DEF Becomes
<1>3. ASSUME NEW w \in Workers, SettleJob(w) PROVE Goal
  <2>1. w # v
    BY <1>3 DEF SettleJob, At, InCritical, Locked, Trying
  <2>2. QED
    BY <1>2, <1>3, <2>1 DEF SettleJob
<1>4. ASSUME NEW w \in Workers, CallFails(w) \/ Crash(w) PROVE FALSE
  BY <1>4, AgentAssumption DEF CallFails, Crash, Inv, TypeOK
<1>5. ASSUME NEW w \in Workers, NEW j \in Job, StartJob(w, j) PROVE Goal
  <2>1. w # v
    BY <1>5 DEF StartJob, At, InCritical, Locked, Trying
  <2>2. QED
    BY <1>2, <1>5, <2>1 DEF StartJob
<1>6. ASSUME UNCHANGED worker PROVE Goal
  BY <1>0, <1>6
<1>7. QED
  BY <1>1, <1>3, <1>4, <1>5, <1>6, NextCases, OutsideInv DEF AddAgentJob, StalledCheck

\* Who has had the key has had it, then and later.
LEMMA CompanyStays ==
  ASSUME ContentionInv, Next, faults' = 0, faults = 0
  PROVE  \A j \in Job : Company(j) => Company(j)'
<1>1. Inv /\ RowsGrow
  BY RowsOnlyGrow DEF ContentionInv
<1>2. ASSUME NEW i \in Job, HasRun(i) PROVE HasRun(i)'
  <2>1. CASE runs[i] # NoRuns
    BY <1>1, <2>1 DEF RowsGrow, HasRun
  <2>2. CASE runs[i] = NoRuns
    <3>1. PICK w \in Workers : InCritical(w) /\ worker[w].job = i
      BY <1>2, <2>2 DEF HasRun
    <3>2. ~Recorded(w)
      BY <2>2, <3>1 DEF ContentionInv, SpendsWithReason, Running, At, InCritical, Locked, Trying
    <3>3. ~ReleaseLock(w)
      BY <3>2 DEF ReleaseLock, At, Recorded, Locked
    <3>4. InCritical(w)' /\ worker'[w].job = i
      BY <1>1, <3>1, <3>3, KeepersStay
    <3>5. QED
      BY <3>4 DEF HasRun
  <2>3. QED
    BY <2>1, <2>2
<1>3. QED
  BY <1>2 DEF Company

\* A run that is turned away has company.
LEMMA TurnedAwayInCompany ==
  ASSUME Inv, KeysAreHeld, NEW w \in Workers, At(w, "lock"), Conv(w) \in lock
  PROVE  Company(worker[w].job)
<1>1. PICK v \in Workers : InCritical(v) /\ Conv(v) = Conv(w)
  BY DEF KeysAreHeld
<1>2. v # w /\ Running(v) /\ Running(w)
  BY <1>1 DEF InCritical, Locked, Trying, At, Running
<1>3. worker[v].job \in Job \ {worker[w].job}
  BY <1>2 DEF Inv, RunsAreActive
<1>4. QED
  BY <1>1, <1>3 DEF Company, HasRun, Conv

\* Reasons do not go away while others move.
LEMMA ReasonsStay ==
  ASSUME ContentionInv, Next, faults' = 0, faults = 0,
         NEW v \in Workers, Running(v), worker'[v] = worker[v],
         jobs'[worker[v].job].attempts = jobs[worker[v].job].attempts
  PROVE  SpendsWithReason(v, worker[v].job)'
<1> DEFINE j == worker[v].job
<1>1. Inv /\ RowsGrow /\ SpendsWithReason(v, j) /\ j \in Job
  BY RowsOnlyGrow DEF ContentionInv, Inv, RunsAreActive
<1>2. Company(j) => Company(j)'
  BY <1>1, CompanyStays
<1>3. jobs[j].attempts \in Nat /\ runs[j].failed \in Nat /\ runs'[j].failed \in Nat
  <2>1. TypeOK /\ TypeOK'
    BY <1>1, NextInv DEF Inv
  <2>2. QED
    BY <1>1, <2>1, BullAssumption DEF TypeOK, JobOf
<1>4. Recorded(v)' => runs'[j] # NoRuns
  BY <1>1 DEF RowsGrow, SpendsWithReason, Recorded
<1>5. runs'[j].failed >= runs[j].failed
  BY <1>1 DEF RowsGrow
<1>6. QED
  BY <1>1, <1>2, <1>3, <1>4, <1>5 DEF SpendsWithReason

\* ... nor while the run itself moves on, which may give it one.
LEMMA RunStepReasons ==
  ASSUME ContentionInv, Next, faults' = 0, faults = 0, NEW w \in Workers, RunStep(w)
  PROVE  SpendsWithReason(w, worker[w].job)'
<1> DEFINE i == worker[w].job
<1>1. /\ Inv /\ RowsGrow /\ RunGoesOn(w) /\ Running(w) /\ i \in Job /\ SpendsWithReason(w, i)
      /\ worker'[w].job = i /\ UNCHANGED jobs /\ KeysAreHeld
  BY RowsOnlyGrow, RunStepInv DEF ContentionInv, Inv, RunsAreActive, RunGoesOn
<1>2. Company(i) => Company(i)'
  BY <1>1, CompanyStays
<1>3. jobs[i].attempts \in Nat /\ runs[i].failed \in Nat /\ runs'[i].failed \in Nat
  <2>1. TypeOK /\ TypeOK'
    BY <1>1, NextInv DEF Inv
  <2>2. QED
    BY <1>1, <2>1, BullAssumption DEF TypeOK, JobOf
<1>4. Recorded(w)' => runs'[i] # NoRuns
  BY <1>1, RunStepLeads, RunStepRows DEF RowsGrow, SpendsWithReason
<1>5. worker'[w].outcome = "locked" => Company(i)'
  <2>1. CASE worker[w].outcome = "locked"
    BY <1>1, <1>2, <2>1 DEF SpendsWithReason
  <2>2. CASE AcquireLock(w) /\ Conv(w) \in lock
    BY <1>1, <1>2, <2>2, TurnedAwayInCompany DEF AcquireLock
  <2>3. QED
    BY <1>1, <2>1, <2>2, RunStepLeads
<1>6. worker'[w].outcome = "error" => Company(i)' \/ runs'[i].failed > jobs[i].attempts
  <2>1. CASE worker[w].outcome = "error"
    BY <1>1, <1>2, <1>3, <2>1 DEF SpendsWithReason, RowsGrow
  <2>2. CASE FailRun(w)
    <3>1. runs'[i].failed = runs[i].failed + 1
      BY <1>1, <2>2, RunStepRows
    <3>2. Company(i) \/ runs[i].failed >= jobs[i].attempts
      BY <1>1, <1>3 DEF ContentionInv
    <3>3. QED
      BY <1>2, <1>3, <3>1, <3>2
  <2>3. QED
    BY <1>1, <2>1, <2>2, RunStepLeads
<1>7. QED
  BY <1>1, <1>4, <1>5, <1>6 DEF SpendsWithReason

\* Jobs spend attempts when they settle badly.
LEMMA AttemptsSpent ==
  ASSUME Inv, Next
  PROVE  \A j \in Job :
           \/ jobs'[j].attempts = jobs[j].attempts
           \/ jobs'[j].attempts = 0 /\ ~Held(j)
           \/ /\ jobs'[j].attempts = jobs[j].attempts + 1
              /\ \E w \in Workers : SettleJob(w) /\ worker[w].job = j /\ worker[w].outcome # "ok"
<1> DEFINE Goal(j) ==
             \/ jobs'[j].attempts = jobs[j].attempts
             \/ jobs'[j].attempts = 0 /\ ~Held(j)
             \/ /\ jobs'[j].attempts = jobs[j].attempts + 1
                /\ \E w \in Workers : SettleJob(w) /\ worker[w].job = j /\ worker[w].outcome # "ok"
<1>1. jobs \in [Job -> JobOf({0})]
  BY DEF Inv, TypeOK
<1>2. ASSUME NEW i \in Job, NEW job, jobs' = [jobs EXCEPT ![i] = job],
             Goal(i) \/ job.attempts = jobs[i].attempts
      PROVE  \A j \in Job : Goal(j)
  <2>1. jobs'[i] = job /\ \A j \in Job \ {i} : jobs'[j] = jobs[j]
    BY <1>1, <1>2
  <2>2. QED
    BY <1>2, <2>1
<1>3. ASSUME UNCHANGED jobs PROVE \A j \in Job : Goal(j)
  BY <1>3
<1>4. ASSUME NEW w \in Workers, SettleJob(w) PROVE \A j \in Job : Goal(j)
  <2>1. PICK i \in Job : i = worker[w].job
    BY <1>4, RunFacts DEF SettleJob, At, Running
  <2>2. /\ AttemptFailed(jobs[i]).attempts = jobs[i].attempts + 1
        /\ Completed(jobs[i]).attempts = jobs[i].attempts
    BY <1>1 DEF AttemptFailed, Completed, JobOf
  <2>3. PICK job : job = IF worker[w].outcome = "ok" THEN Completed(jobs[i]) ELSE AttemptFailed(jobs[i])
    OBVIOUS
  <2>4. jobs' = [jobs EXCEPT ![i] = job] /\ jobs'[i] = job
    BY <1>1, <1>4, <2>1, <2>3 DEF SettleJob
  <2>5. Goal(i) \/ job.attempts = jobs[i].attempts
    BY <1>4, <2>1, <2>2, <2>3, <2>4
  <2>6. QED
    BY <1>2, <2>4, <2>5
<1>5. ASSUME NEW w \in Workers, NEW i \in Job, StartJob(w, i) PROVE \A j \in Job : Goal(j)
  <2>1. Started(jobs[i]).attempts = jobs[i].attempts
    BY <1>1 DEF Started, JobOf
  <2>2. PICK job : job = Started(jobs[i])
    OBVIOUS
  <2>3. QED
    BY <1>2, <1>5, <2>1, <2>2 DEF StartJob
<1>6. ASSUME NEW i \in Job, StalledCheck(i) PROVE \A j \in Job : Goal(j)
  <2>1. Stalled(jobs[i]).attempts = jobs[i].attempts
    BY <1>1 DEF Stalled, JobOf
  <2>2. PICK job : job = Stalled(jobs[i])
    OBVIOUS
  <2>3. QED
    BY <1>2, <1>6, <2>1, <2>2 DEF StalledCheck
<1>7. ASSUME NEW i \in Job, AddAgentJob(i) PROVE \A j \in Job : Goal(j)
  <2>1. PICK job : job = Queued(0)
    OBVIOUS
  <2>2. jobs' = [jobs EXCEPT ![i] = job] /\ jobs'[i] = job /\ job.attempts = 0
    BY <1>1, <1>7, <2>1 DEF AddAgentJob, Queued
  <2>3. ~Held(i)
    BY <1>7, HeldAreActive DEF AddAgentJob
  <2>4. Goal(i)
    BY <2>2, <2>3
  <2>5. QED
    BY <1>2, <2>2, <2>4
<1>8. ASSUME NEW w \in Workers, RunStep(w) \/ CallFails(w) \/ Crash(w) PROVE UNCHANGED jobs
  BY <1>8, RunStepInv DEF RunGoesOn, CallFails, Crash
<1>9. QED
  BY <1>3, <1>4, <1>5, <1>6, <1>7, <1>8, NextCases
  DEF HandOver, GiveBack, LockExpires, TransferToHuman, BecomesManual

\* The invariant of contention is inductive.
LEMMA ContentionNext ==
  ASSUME ContentionInv, Next
  PROVE  ContentionInv'
<1>1. Inv /\ Inv' /\ TypeOK /\ TypeOK'
  BY NextInv DEF ContentionInv, Inv
<1>2. SUFFICES ASSUME faults' = 0
               PROVE  /\ KeysAreHeld'
                      /\ \A w \in Workers : Running(w)' => SpendsWithReason(w, worker[w].job)'
                      /\ \A j \in Job : jobs'[j].attempts > runs'[j].failed => Company(j)'
  BY <1>1 DEF ContentionInv
<1>3. faults = 0 /\ \A w \in Workers : ~CallFails(w) /\ ~Crash(w)
  <2>1. faults \in Nat
    BY <1>1, AgentAssumption DEF TypeOK
  <2>2. faults' = faults \/ faults' = faults + 1
    BY NextCases, RunStepInv
    DEF RunStep, CheckMode, AcquireLock, OpenRun, PrepareContext, Ask, StoreReply, CompleteRun,
        Recover, FailRun, AddDispatchJob, ReleaseLock, SettleJob, CallFails, Crash, StartJob,
        AddAgentJob, StalledCheck, HandOver, GiveBack, LockExpires, TransferToHuman, BecomesManual
  <2>3. QED
    BY <1>2, <2>1, <2>2 DEF CallFails, Crash
<1>4. KeysAreHeld'
  <2>1. SUFFICES ASSUME NEW c \in lock' PROVE \E w \in Workers : InCritical(w)' /\ Conv(w)' = c
    BY DEF KeysAreHeld
  <2>2. CASE c \in lock
    <3>1. PICK w \in Workers : InCritical(w) /\ Conv(w) = c
      BY <1>3, <2>2 DEF ContentionInv, KeysAreHeld
    <3>2. ~ReleaseLock(w)
      BY <2>1, <3>1 DEF ReleaseLock
    <3>3. InCritical(w)' /\ worker'[w].job = worker[w].job
      BY <1>1, <1>2, <3>1, <3>2, KeepersStay
    <3>4. QED
      BY <3>1, <3>3 DEF Conv
  <2>3. CASE c \notin lock
    <3>1. PICK w \in Workers : AcquireLock(w) /\ c = Conv(w)
      BY <2>1, <2>3, NextCases
      DEF RunStep, CheckMode, AcquireLock, OpenRun, PrepareContext, Ask, StoreReply, CompleteRun,
          Recover, FailRun, AddDispatchJob, ReleaseLock, SettleJob, CallFails, Crash, StartJob,
          AddAgentJob, StalledCheck, HandOver, GiveBack, LockExpires, TransferToHuman, BecomesManual
    <3>2. Goto(w, "open") /\ Running(w) /\ UNCHANGED jobs
      BY <2>3, <3>1 DEF AcquireLock, At, Running
    <3>3. worker'[w].pc = "open" /\ worker'[w].job = worker[w].job
      BY <1>1, <3>2, Fields DEF PCs, Locked
    <3>4. QED
      BY <3>1, <3>3 DEF InCritical, Locked, Conv
  <2>4. QED
    BY <2>2, <2>3
<1>5. ASSUME NEW v \in Workers, Running(v)' PROVE SpendsWithReason(v, worker[v].job)'
  <2>1. ASSUME Running(v), worker'[v] = worker[v], ~\E w \in Workers : SettleJob(w) /\ worker[w].job = worker[v].job
        PROVE  SpendsWithReason(v, worker[v].job)'
    <3>1. worker[v].job \in Job /\ Held(worker[v].job)
      BY <1>1, <2>1 DEF Inv, RunsAreActive, Held
    <3>2. jobs'[worker[v].job].attempts = jobs[worker[v].job].attempts
      BY <1>1, <2>1, <3>1, AttemptsSpent
    <3>3. QED
      BY <1>2, <1>3, <2>1, <3>2, ReasonsStay
  <2>2. ASSUME NEW w \in Workers, RunStep(w) PROVE SpendsWithReason(v, worker[v].job)'
    <3>1. RunGoesOn(w) /\ Running(w) /\ UNCHANGED jobs /\ worker'[w].job = worker[w].job
      BY <1>1, <2>2, RunStepInv DEF RunGoesOn
    <3>2. CASE v = w
      BY <1>2, <1>3, <2>2, <3>1, <3>2, RunStepReasons
    <3>3. CASE v # w
      <4>1. worker'[v] = worker[v] /\ Running(v)
        BY <1>5, <3>1, <3>3 DEF RunGoesOn, Running, At
      <4>2. QED
        BY <1>2, <1>3, <3>1, <4>1, ReasonsStay
    <3>4. QED
      BY <3>2, <3>3
  <2>3. ASSUME NEW w \in Workers, SettleJob(w) PROVE SpendsWithReason(v, worker[v].job)'
    <3>1. /\ Idle \in Run /\ Idle.pc = "idle" /\ Becomes(w, Idle) /\ Running(w)
          /\ \A u \in Workers : SettleJob(u) => Running(u)
      BY <2>3, AgentAssumption DEF Idle, Run, PCs, SettleJob, Running, At
    <3>2. worker'[w] = Idle /\ \A u \in Workers \ {w} : worker'[u] = worker[u]
      BY <1>1, <3>1 DEF Becomes, Inv, TypeOK
    <3>3. v # w /\ Running(v) /\ worker'[v] = worker[v]
      BY <1>5, <3>1, <3>2 DEF Running, At
    <3>4. \A u \in Workers : SettleJob(u) => u = w
      <4>1. SUFFICES ASSUME NEW u \in Workers, SettleJob(u), u # w PROVE FALSE
        OBVIOUS
      <4>2. worker'[u] = Idle /\ worker[u].pc = "settle"
        BY <1>1, <4>1 DEF SettleJob, Becomes, Inv, TypeOK, At
      <4>3. QED
        BY <3>1, <3>2, <4>1, <4>2
    <3>5. worker[w].job # worker[v].job
      BY <1>1, <3>1, <3>3 DEF Inv, RunsAreActive
    <3>6. QED
      BY <2>1, <3>3, <3>4, <3>5
  <2>4. ASSUME NEW w \in Workers, NEW j \in Job, StartJob(w, j)
        PROVE  SpendsWithReason(v, worker[v].job)'
    <3> DEFINE run == [Idle EXCEPT !.pc = "mode", !.job = j]
    <3>1. run \in Run /\ run.job = j /\ run.pc = "mode" /\ run.outcome = "ok"
      BY AgentAssumption DEF Idle, Run, PCs
    <3>2. Becomes(w, run)
      BY <2>4 DEF StartJob
    <3> HIDE DEF run
    <3>3. worker'[w] = run /\ \A u \in Workers \ {w} : worker'[u] = worker[u]
      BY <1>1, <3>2 DEF Becomes, Inv, TypeOK
    <3>4. CASE v = w
      BY <3>1, <3>3, <3>4 DEF SpendsWithReason, Recorded, Locked, Trying
    <3>5. CASE v # w
      <4>1. Running(v) /\ worker'[v] = worker[v]
        BY <1>5, <3>3, <3>5 DEF Running, At
      <4>2. \A u \in Workers : ~SettleJob(u)
        <5>1. SUFFICES ASSUME NEW u \in Workers, SettleJob(u) PROVE FALSE
          OBVIOUS
        <5>2. worker'[u] = Idle /\ worker[u].pc = "settle"
          BY <1>1, <5>1 DEF SettleJob, Becomes, Inv, TypeOK, At
        <5>3. Idle.pc = "idle" /\ worker[w].pc = "idle"
          BY <2>4 DEF Idle, StartJob, At
        <5>4. QED
          BY <3>1, <3>3, <5>2, <5>3
      <4>3. QED
        BY <2>1, <4>1, <4>2
    <3>6. QED
      BY <3>4, <3>5
  <2>5. ASSUME UNCHANGED worker PROVE SpendsWithReason(v, worker[v].job)'
    <3>1. Running(v) /\ worker'[v] = worker[v]
      BY <1>5, <2>5 DEF Running, At
    <3>2. \A u \in Workers : ~SettleJob(u)
      <4>1. SUFFICES ASSUME NEW u \in Workers, SettleJob(u) PROVE FALSE
        OBVIOUS
      <4>2. worker'[u] = Idle /\ worker[u].pc = "settle" /\ Idle.pc = "idle"
        BY <1>1, <4>1 DEF SettleJob, Becomes, Inv, TypeOK, At, Idle
      <4>3. QED
        BY <2>5, <4>2
    <3>3. QED
      BY <2>1, <3>1, <3>2
  <2>6. QED
    BY <1>1, <1>3, <2>2, <2>3, <2>4, <2>5, NextCases, OutsideInv DEF AddAgentJob, StalledCheck
<1>6. ASSUME NEW j \in Job, jobs'[j].attempts > runs'[j].failed PROVE Company(j)'
  <2>1. /\ runs'[j].failed >= runs[j].failed /\ (Company(j) => Company(j)')
        /\ (jobs[j].attempts > runs[j].failed => Company(j))
    BY <1>1, <1>2, <1>3, RowsOnlyGrow, CompanyStays DEF ContentionInv, RowsGrow
  <2>2. jobs[j].attempts \in Nat /\ jobs'[j].attempts \in Nat /\ runs[j].failed \in Nat /\ runs'[j].failed \in Nat
    BY <1>1, BullAssumption DEF TypeOK, JobOf
  <2>3. CASE jobs'[j].attempts = jobs[j].attempts
    BY <1>6, <2>1, <2>2, <2>3
  <2>4. CASE jobs'[j].attempts = 0
    BY <1>6, <2>2, <2>4
  <2>5. ASSUME NEW w \in Workers, SettleJob(w), worker[w].job = j, worker[w].outcome # "ok",
               jobs'[j].attempts = jobs[j].attempts + 1
        PROVE  Company(j)'
    <3>1. Running(w) /\ worker[w] \in Run
      BY <1>1, <2>5 DEF SettleJob, At, Running, TypeOK
    <3>2. worker[w].outcome \in {"error", "locked"} /\ SpendsWithReason(w, j)
      BY <1>3, <2>5, <3>1 DEF ContentionInv, Run
    <3>3. Company(j) \/ runs[j].failed > jobs[j].attempts
      BY <3>2 DEF SpendsWithReason
    <3>4. QED
      BY <1>6, <2>1, <2>2, <2>5, <3>3
  <2>6. QED
    BY <1>1, <2>3, <2>4, <2>5, AttemptsSpent
<1>7. QED
  BY <1>4, <1>5, <1>6

\* For any number of messages, workers and attempts: as long as no call fails and
\* nothing crashes, a key is only set while its run is at work, and the attempts of
\* a message beyond those its providers failed were lost to other messages of its
\* conversation.
THEOREM OthersTurnAway == Spec => []TurnedAwayByOthers
<1>1. Init => ContentionInv
  <2>1. SUFFICES ASSUME Init PROVE ContentionInv
    OBVIOUS
  <2>2. Inv /\ lock = {} /\ \A w \in Workers : ~Running(w)
    BY <2>1, InitInv DEF Init, Running, At, Idle
  <2>3. \A j \in Job : jobs[j].attempts = 0 /\ runs[j].failed = 0
    BY <2>1 DEF Init, NoJob, NoRuns
  <2>4. QED
    BY <2>2, <2>3 DEF ContentionInv, KeysAreHeld
<1>2. ContentionInv /\ [Next]_vars => ContentionInv'
  <2>1. ASSUME ContentionInv, UNCHANGED vars PROVE ContentionInv'
    <3>1. Inv'
      BY <2>1, NextInv DEF ContentionInv
    <3>2. QED
      BY <2>1, <3>1 DEF vars, rows, ContentionInv, KeysAreHeld, InCritical, Conv, Running, At,
         SpendsWithReason, Recorded, Company, HasRun
  <2>2. QED
    BY <2>1, ContentionNext
<1>3. ContentionInv => TurnedAwayByOthers
  BY DEF ContentionInv, KeysAreHeld, Company, TurnedAwayByOthers
<1>4. QED
  BY <1>1, <1>2, <1>3, PTL DEF Spec

-----------------------------------------------------------------------------
(* Conversations that were handed over.                                    *)

\* Runs are only admitted by their mode check, while the mode is "auto".
LEMMA NobodyIsAdmitted ==
  ASSUME Inv, Next, NEW v \in Workers, Admitted(v)'
  PROVE  /\ worker'[v].job = worker[v].job
         /\ Admitted(v) \/ (mode[Conv(v)] = "auto" /\ UNCHANGED mode)
<1> DEFINE Goal == /\ worker'[v].job = worker[v].job
                   /\ Admitted(v) \/ (mode[Conv(v)] = "auto" /\ UNCHANGED mode)
<1>0. ASSUME worker'[v] = worker[v] PROVE Goal
  BY <1>0 DEF Admitted, InCritical, At
<1>1. ASSUME NEW w \in Workers, RunStep(w) \/ CallFails(w) PROVE Goal
  <2>1. RunGoesOn(w)
    BY <1>1, RunStepInv, CallFailsInv
  <2>2. CASE v # w
    BY <1>0, <2>1, <2>2 DEF RunGoesOn
  <2>3. CASE v = w
    <3>1. CASE Admitted(w)
      BY <2>1, <2>3, <3>1 DEF RunGoesOn
    <3>2. CASE ~Admitted(w)
      <4>1. Running(w) /\ UNCHANGED jobs
        BY <2>1 DEF RunGoesOn
      <4>2. CheckMode(w) \/ Fails(w, "settle")
        BY <1>1, <3>2
        DEF RunStep, AcquireLock, OpenRun, PrepareContext, Ask, StoreReply, CompleteRun,
            Recover, FailRun, AddDispatchJob, ReleaseLock, CallFails, At, Admitted,
            InCritical, Locked, Trying
      <4>3. ~Fails(w, "settle") /\ ~Goto(w, "settle")
        <5>1. worker'[w].pc # "settle"
          BY <2>3 DEF Admitted, InCritical, At, Locked, Trying
        <5>2. QED
          BY <4>1, <5>1, Fields DEF PCs
      <4>4. QED
        BY <2>1, <2>3, <4>2, <4>3 DEF CheckMode, RunGoesOn
    <3>3. QED
      BY <3>1, <3>2
  <2>4. QED
    BY <2>2, <2>3
<1>2. ASSUME NEW w \in Workers, NEW run, Becomes(w, run), run.pc \notin Locked \cup {"lock"}
      PROVE  Goal
  BY <1>0, <1>2 DEF Becomes, Admitted, InCritical, At, Inv, TypeOK
<1>3. ASSUME NEW w \in Workers, SettleJob(w) \/ Crash(w) PROVE Goal
  <2>1. Idle.pc \notin Locked \cup {"lock"}
    BY DEF Idle, Locked, Trying
  <2>2. QED
    BY <1>2, <1>3, <2>1 DEF SettleJob, Crash
<1>4. ASSUME NEW w \in Workers, NEW j \in Job, StartJob(w, j) PROVE Goal
  <2>1. [Idle EXCEPT !.pc = "mode", !.job = j].pc \notin Locked \cup {"lock"}
    BY DEF Idle, Locked, Trying
  <2>2. QED
    BY <1>2, <1>4, <2>1 DEF StartJob
<1>5. ASSUME UNCHANGED worker PROVE Goal
  BY <1>0, <1>5
<1>6. QED
  BY <1>1, <1>3, <1>4, <1>5, NextCases, OutsideInv DEF AddAgentJob, StalledCheck

\* Who is admitted when a conversation changes hands is noted; nothing else
\* touches the mode.
LEMMA UnderWayNext ==
  ASSUME Inv, OnlyUnderWayAnswer, Next
  PROVE  OnlyUnderWayAnswer'
<1>1. SUFFICES ASSUME NEW w \in Workers, Admitted(w)', mode'[Conv(w)'] = "manual"
               PROVE  worker'[w].job \in underWay'
  BY DEF OnlyUnderWayAnswer
<1>2. /\ worker'[w].job = worker[w].job /\ Conv(w)' = Conv(w)
      /\ Admitted(w) \/ (mode[Conv(w)] = "auto" /\ UNCHANGED mode)
  BY <1>1, NobodyIsAdmitted DEF Conv
<1>3. Admitted(w)
  BY <1>1, <1>2
<1>4. worker[w].job \in Job /\ Conv(w) \in Conversations
  BY <1>3, RunFacts DEF Running, Admitted, InCritical, At, Locked, Trying
<1>5. ASSUME NEW c \in Conversations, BecomesManual(c) PROVE worker[w].job \in underWay'
  <2>1. CASE Conv(w) = c
    BY <1>3, <1>5, <2>1 DEF BecomesManual
  <2>2. CASE Conv(w) # c
    <3>1. mode[Conv(w)] = "manual"
      BY <1>1, <1>2, <1>4, <1>5, <2>2 DEF BecomesManual, Inv, TypeOK
    <3>2. worker[w].job \in UnderWayElsewhere(c)
      BY <1>3, <2>2, <3>1 DEF OnlyUnderWayAnswer, UnderWayElsewhere, Conv
    <3>3. QED
      BY <1>5, <3>2 DEF BecomesManual
  <2>3. QED
    BY <2>1, <2>2
<1>6. ASSUME NEW c \in Conversations, GiveBack(c) PROVE worker[w].job \in underWay'
  <2>1. Conv(w) # c /\ mode[Conv(w)] = "manual"
    BY <1>1, <1>2, <1>4, <1>6 DEF GiveBack, Inv, TypeOK
  <2>2. QED
    BY <1>3, <1>6, <2>1 DEF GiveBack, OnlyUnderWayAnswer, UnderWayElsewhere, Conv
<1>7. ASSUME UNCHANGED <<mode, underWay>> PROVE worker[w].job \in underWay'
  BY <1>1, <1>2, <1>3, <1>7 DEF OnlyUnderWayAnswer
<1>8. \/ UNCHANGED <<mode, underWay>>
      \/ \E c \in Conversations : BecomesManual(c) \/ GiveBack(c)
  <2>1. \A v \in Workers : TransferToHuman(v) => Conv(v) \in Conversations
    BY RunFacts DEF TransferToHuman, At, Running
  <2>2. ASSUME NEW v \in Workers, TransferToHuman(v) PROVE \E c \in Conversations : BecomesManual(c)
    BY <2>1, <2>2 DEF TransferToHuman
  <2>3. QED
    BY <2>2, NextCases
    DEF RunStep, CheckMode, AcquireLock, OpenRun, PrepareContext, Ask, StoreReply, CompleteRun,
        Recover, FailRun, AddDispatchJob, ReleaseLock, SettleJob, CallFails, Crash, StartJob,
        AddAgentJob, StalledCheck, HandOver, LockExpires
<1>9. QED
  BY <1>2, <1>5, <1>6, <1>7, <1>8

\* In a conversation an operator has, the AI answers at most what was under way
\* when it was handed over: retries and crashes never start another answer.
THEOREM HandedOver == Spec => []OnlyUnderWayAnswer
<1>1. Init => Inv /\ OnlyUnderWayAnswer
  BY InitInv
  DEF OnlyUnderWayAnswer, Init, Admitted, InCritical, At, Locked, Trying, Idle
<1>2. Inv /\ OnlyUnderWayAnswer /\ [Next]_vars => (Inv /\ OnlyUnderWayAnswer)'
  <2>1. ASSUME Inv, OnlyUnderWayAnswer, UNCHANGED vars PROVE OnlyUnderWayAnswer'
    BY <2>1 DEF vars, OnlyUnderWayAnswer, Admitted, InCritical, At, Conv
  <2>2. QED
    BY <2>1, NextInv, UnderWayNext
<1>3. QED
  BY <1>1, <1>2, PTL DEF Spec

-----------------------------------------------------------------------------
(* Agent jobs are pieces of work: the steps are those of WorkItem.         *)

\* What the operations of the queue are to WorkItem.
LEMMA JobsAreWork ==
  ASSUME NEW D, NEW job \in JobOf(D)
  PROVE  /\ Tries(job) \in Nat /\ TryLimit \in Nat /\ FewestTries \in Nat
         /\ \A d \in D : /\ Status(NoJob(d)) = "none" /\ Tries(NoJob(d)) = 0
                         /\ Status(Queued(d)) = "waiting" /\ Tries(Queued(d)) = 0
         /\ Runnable(job) /\ job.attempts < MaxAttempts =>
              /\ Status(job) = "waiting" /\ Tries(job) < TryLimit
              /\ Status(Started(job)) = "trying" /\ Tries(Started(job)) = Tries(job) + 1
         /\ job.state = "active" => Status(job) = "trying"
         /\ job.state = "active" /\ job.attempts < MaxAttempts =>
              /\ Status(Completed(job)) = "completed" /\ Tries(Completed(job)) = Tries(job)
              /\ Tries(AttemptFailed(job)) = Tries(job) /\ Tries(Stalled(job)) = Tries(job)
              /\ \/ Status(AttemptFailed(job)) = "waiting"
                 \/ Status(AttemptFailed(job)) = "failed" /\ Tries(job) >= FewestTries
              /\ \/ Status(Stalled(job)) = "waiting"
                 \/ Status(Stalled(job)) = "failed" /\ Tries(job) >= FewestTries
<1> PICK a, s : a = job.attempts /\ s = job.stalls
  OBVIOUS
<1>1. /\ a \in 0..MaxAttempts /\ s \in 0..MaxStalls /\ job.state \in JobStates
      /\ MaxAttempts \in Nat \ {0} /\ MaxStalls \in Nat
  BY BullAssumption DEF JobOf
<1>2. Tries(job) \in Nat /\ TryLimit \in Nat /\ FewestTries \in Nat
  BY <1>1 DEF Tries, TryLimit, FewestTries
<1>3. \A d \in D : /\ Status(NoJob(d)) = "none" /\ Tries(NoJob(d)) = 0
                   /\ Status(Queued(d)) = "waiting" /\ Tries(Queued(d)) = 0
  BY DEF Status, Tries, NoJob, Queued
<1>4. ASSUME Runnable(job), a < MaxAttempts
      PROVE  /\ Status(job) = "waiting" /\ Tries(job) < TryLimit
             /\ Status(Started(job)) = "trying" /\ Tries(Started(job)) = Tries(job) + 1
  <2>1. /\ Started(job).state = "active" /\ Started(job).attempts = a
        /\ Started(job).stalls = s
    BY DEF Started, JobOf
  <2>2. Tries(job) = a + s /\ Tries(Started(job)) = a + s + 1
    BY <1>1, <1>4, <2>1 DEF Tries, Runnable
  <2>3. a + s < TryLimit
    BY <1>1, <1>4 DEF TryLimit
  <2>4. Status(job) = "waiting" /\ Status(Started(job)) = "trying"
    BY <1>4, <2>1 DEF Status, Runnable
  <2>5. QED
    BY <1>1, <2>2, <2>3, <2>4
<1>5. job.state = "active" => Status(job) = "trying"
  BY DEF Status
<1>6. ASSUME job.state = "active", a < MaxAttempts
      PROVE  /\ Status(Completed(job)) = "completed" /\ Tries(Completed(job)) = Tries(job)
             /\ Tries(AttemptFailed(job)) = Tries(job) /\ Tries(Stalled(job)) = Tries(job)
             /\ \/ Status(AttemptFailed(job)) = "waiting"
                \/ Status(AttemptFailed(job)) = "failed" /\ Tries(job) >= FewestTries
             /\ \/ Status(Stalled(job)) = "waiting"
                \/ Status(Stalled(job)) = "failed" /\ Tries(job) >= FewestTries
  <2>1. Tries(job) = a + s + 1
    BY <1>1, <1>6 DEF Tries
  <2>2. Status(Completed(job)) = "completed" /\ Tries(Completed(job)) = a + s + 1
    <3>1. /\ Completed(job).state = "completed" /\ Completed(job).attempts = a
          /\ Completed(job).stalls = s
      BY DEF Completed, JobOf
    <3>2. QED
      BY <1>1, <3>1 DEF Status, Tries
  <2>3. /\ Tries(AttemptFailed(job)) = a + s + 1
        /\ \/ Status(AttemptFailed(job)) = "waiting"
           \/ Status(AttemptFailed(job)) = "failed" /\ a + s + 1 >= FewestTries
    <3>1. /\ AttemptFailed(job).attempts = a + 1 /\ AttemptFailed(job).stalls = s
          /\ AttemptFailed(job).state = IF a + 1 < MaxAttempts THEN "delayed" ELSE "failed"
      BY DEF AttemptFailed, JobOf
    <3>2. CASE a + 1 < MaxAttempts
      BY <1>1, <3>1, <3>2 DEF Status, Tries
    <3>3. CASE a + 1 >= MaxAttempts
      <4>1. Status(AttemptFailed(job)) = "failed" /\ Tries(AttemptFailed(job)) = (a + 1) + s
        BY <1>1, <3>1, <3>3 DEF Status, Tries
      <4>2. a + s + 1 >= FewestTries
        BY <1>1, <3>3 DEF FewestTries
      <4>3. QED
        BY <1>1, <4>1, <4>2
    <3>4. QED
      BY <1>1, <3>2, <3>3
  <2>4. /\ Tries(Stalled(job)) = a + s + 1
        /\ \/ Status(Stalled(job)) = "waiting"
           \/ Status(Stalled(job)) = "failed" /\ a + s + 1 >= FewestTries
    <3>1. CASE s < MaxStalls
      <4>1. /\ Stalled(job).attempts = a /\ Stalled(job).stalls = s + 1
            /\ Stalled(job).state = "waiting"
        BY <3>1 DEF Stalled, JobOf
      <4>2. QED
        BY <1>1, <4>1 DEF Status, Tries
    <3>2. CASE s >= MaxStalls
      <4>1. /\ Stalled(job).attempts = a /\ Stalled(job).stalls = s
            /\ Stalled(job).state = "failed"
        BY <1>1, <3>2 DEF Stalled, JobOf
      <4>2. Status(Stalled(job)) = "failed" /\ Tries(Stalled(job)) = a + s + 1
        BY <1>1, <1>6, <4>1 DEF Status, Tries
      <4>3. a + s + 1 >= FewestTries
        BY <1>1, <3>2 DEF FewestTries
      <4>4. QED
        BY <4>2, <4>3
    <3>3. QED
      BY <1>1, <3>1, <3>2
  <2>5. QED
    BY <2>1, <2>2, <2>3, <2>4
<1>7. QED
  BY <1>2, <1>3, <1>4, <1>5, <1>6

\* How many replies a run may still store: the primary provider's, and one of a
\* fallback when something fails after that.
Left(w) ==
  IF worker[w].pc \in {"mode", "lock", "open", "context"} THEN 2
  ELSE IF worker[w].pc \in {"ask", "store"}
         THEN IF worker[w].stage = "primary" THEN 2 ELSE 1
  ELSE IF worker[w].pc \in {"complete", "recover"} /\ worker[w].stage = "primary" THEN 1
  ELSE 0

RepliesAreBounded ==
  /\ \A j \in Job : replies[j] <= 2 * Tries(jobs[j])
  /\ \A w \in Workers : Running(w) =>
       replies[worker[w].job] + Left(w) <= 2 * Tries(jobs[worker[w].job])

\* A job nobody added has not been tried.
AbsentAreNew == \A j \in Job : jobs[j].state = "absent" => Tries(jobs[j]) = 0

WorkInv == Inv /\ AbsentAreNew /\ RepliesAreBounded

WorkSteps ==
  \A j \in Job :
    \/ Work(j)!Next
    \/ UNCHANGED <<Status(jobs[j]), Tries(jobs[j]), replies[j], dispatched[j], j \notin skipped>>

\* The stage of a run that moves on.
LEMMA StageStays ==
  ASSUME Inv, NEW w \in Workers, Running(w), NEW pc \in PCs \ {"idle"}, UNCHANGED jobs,
         Goto(w, pc) \/ Fails(w, pc)
  PROVE  worker'[w].pc = pc /\ worker'[w].stage = worker[w].stage
<1>1. worker[w] \in Run
  BY DEF Inv, TypeOK
<1>2. /\ Goto(w, pc) => worker'[w] = [worker[w] EXCEPT !.pc = pc]
      /\ Fails(w, pc) => worker'[w] = [worker[w] EXCEPT !.pc = pc, !.outcome = "error"]
  BY GoesTo
<1>3. QED
  BY <1>1, <1>2 DEF Run

\* A run uses up what it may store.
LEMMA LeftShrinks ==
  ASSUME Inv, NEW w \in Workers, RunStep(w) \/ CallFails(w)
  PROVE  /\ Left(w) \in Nat /\ Left(w)' \in Nat
         /\ IF StoreReply(w) THEN Left(w)' + 1 <= Left(w)
                             ELSE Left(w)' <= Left(w) /\ UNCHANGED replies
<1>1. RunGoesOn(w)
  BY RunStepInv, CallFailsInv
<1>2. Running(w) /\ UNCHANGED jobs /\ worker[w] \in Run
  BY <1>1, RunFacts DEF RunGoesOn
<1>3. Left(w) \in Nat /\ Left(w)' \in Nat
  BY DEF Left
<1>4. ASSUME CheckMode(w) \/ OpenRun(w) \/ AddDispatchJob(w) \/ ReleaseLock(w)
      PROVE  Left(w)' <= Left(w)
  <2>1. /\ CheckMode(w) => Goto(w, "settle") \/ Goto(w, "lock")
        /\ OpenRun(w) => Goto(w, "context")
        /\ AddDispatchJob(w) => Goto(w, "release")
        /\ ReleaseLock(w) => Goto(w, "settle")
    BY DEF CheckMode, OpenRun, AddDispatchJob, ReleaseLock
  <2>2. /\ CheckMode(w) => worker[w].pc = "mode" /\ worker'[w].pc \in {"settle", "lock"}
        /\ OpenRun(w) => worker[w].pc = "open" /\ worker'[w].pc = "context"
        /\ AddDispatchJob(w) => worker[w].pc = "dispatch" /\ worker'[w].pc = "release"
        /\ ReleaseLock(w) => worker[w].pc = "release" /\ worker'[w].pc = "settle"
    BY <1>2, <2>1, Fields DEF CheckMode, OpenRun, AddDispatchJob, ReleaseLock, At, PCs, Locked
  <2>3. QED
    BY <1>4, <2>2 DEF Left
<1>5. ASSUME AcquireLock(w) PROVE Left(w)' <= Left(w)
  <2>1. worker[w].pc = "lock"
    BY <1>5 DEF AcquireLock, At
  <2>2. Left(w) = 2 /\ Left(w)' \in {0, 1, 2}
    BY <2>1 DEF Left
  <2>3. QED
    BY <2>2
<1>6. ASSUME PrepareContext(w) PROVE Left(w)' <= Left(w)
  <2>1. worker[w].pc = "context"
    BY <1>6 DEF PrepareContext, At
  <2>2. Left(w) = 2 /\ Left(w)' \in {0, 1, 2}
    BY <2>1 DEF Left
  <2>3. QED
    BY <2>2
<1>7. ASSUME Ask(w) PROVE Left(w)' <= Left(w)
  <2>1. PICK pc \in {"store", Catch(w)} : Goto(w, pc)
    BY <1>7 DEF Ask
  <2>2. pc \in PCs \ {"idle"} /\ pc \in {"store", "recover", "failRun"}
    BY DEF Catch, PCs, Locked, Trying
  <2>3. worker'[w].pc = pc /\ worker'[w].stage = worker[w].stage /\ worker[w].pc = "ask"
    BY <1>2, <1>7, <2>1, <2>2, StageStays DEF Ask, At
  <2>4. CASE worker[w].stage = "primary"
    BY <2>2, <2>3, <2>4 DEF Left
  <2>5. CASE worker[w].stage # "primary"
    BY <2>2, <2>3, <2>5 DEF Left
  <2>6. QED
    BY <2>4, <2>5
<1>8. ASSUME StoreReply(w) PROVE Left(w)' + 1 <= Left(w)
  <2>1. /\ worker[w].pc = "store" /\ worker'[w].pc = "complete"
        /\ worker'[w].stage = worker[w].stage
    BY <1>2, <1>8, StageStays DEF StoreReply, At, PCs, Locked, Trying
  <2>2. QED
    BY <2>1 DEF Left
<1>9. ASSUME CompleteRun(w) \/ FailRun(w) PROVE Left(w)' <= Left(w)
  <2>1. worker'[w].pc \in {"dispatch", "release"}
    BY <1>2, <1>9, Fields DEF CompleteRun, FailRun, PCs, Locked
  <2>2. Left(w)' = 0
    BY <2>1 DEF Left
  <2>3. QED
    BY <1>3, <2>2
<1>10. ASSUME Recover(w) PROVE Left(w)' <= Left(w)
  <2>1. worker[w].pc = "recover"
    BY <1>10 DEF Recover, At
  <2>2. CASE Goto(w, "failRun")
    <3>1. worker'[w].pc = "failRun"
      BY <1>2, <2>2, Fields DEF PCs, Locked
    <3>2. QED
      BY <1>3, <3>1 DEF Left
  <2>3. ASSUME worker[w].stage = "primary", NEW p \in Providers,
               Becomes(w, [worker[w] EXCEPT !.pc = "ask", !.provider = p, !.stage = "late"])
        PROVE  Left(w)' <= Left(w)
    <3>1. worker' = [worker EXCEPT ![w] = [worker[w] EXCEPT !.pc = "ask", !.provider = p, !.stage = "late"]]
      BY <2>3 DEF Becomes
    <3>2. worker'[w].pc = "ask" /\ worker'[w].stage = "late"
      BY <1>2, <3>1 DEF Inv, TypeOK, Run
    <3>3. QED
      BY <2>1, <2>3, <3>2 DEF Left
  <2>4. \/ Goto(w, "failRun")
        \/ /\ worker[w].stage = "primary"
           /\ \E p \in Providers :
                Becomes(w, [worker[w] EXCEPT !.pc = "ask", !.provider = p, !.stage = "late"])
    <3>1. worker[w].provider \in Providers
      BY <1>2 DEF Run
    <3>2. QED
      BY <1>10, <3>1, FallbackType DEF Recover
  <2>5. QED
    BY <2>2, <2>3, <2>4
<1>11. ASSUME CallFails(w) PROVE Left(w)' <= Left(w)
  <2>1. CASE Fails(w, "settle") \/ Fails(w, "release")
    <3>1. worker'[w].pc \in {"settle", "release"}
      BY <1>2, <2>1, Fields DEF PCs, Locked
    <3>2. QED
      BY <1>3, <3>1 DEF Left
  <2>2. CASE worker[w].pc \in {"store", "complete"} /\ Goto(w, Catch(w))
    <3>1. Catch(w) \in PCs \ {"idle"} /\ Catch(w) = IF worker[w].stage = "late" THEN "failRun" ELSE "recover"
      BY DEF Catch, PCs, Locked
    <3>2. worker'[w].pc = Catch(w) /\ worker'[w].stage = worker[w].stage
      BY <1>2, <2>2, <3>1, StageStays
    <3>3. CASE worker[w].stage = "primary"
      BY <2>2, <3>1, <3>2, <3>3 DEF Left
    <3>4. CASE worker[w].stage # "primary"
      <4>1. Left(w)' = 0
        BY <3>1, <3>2, <3>4 DEF Left
      <4>2. QED
        BY <1>3, <4>1
    <3>5. QED
      BY <3>3, <3>4
  <2>3. QED
    BY <1>11, <2>1, <2>2 DEF CallFails
<1>12. ~StoreReply(w) => UNCHANGED replies
  BY DEF RunStep, CheckMode, AcquireLock, OpenRun, PrepareContext, Ask, CompleteRun, Recover,
         FailRun, AddDispatchJob, ReleaseLock, CallFails, rows
<1>13. QED
  BY <1>3, <1>4, <1>5, <1>6, <1>7, <1>8, <1>9, <1>10, <1>11, <1>12 DEF RunStep

\* A job nothing happens to.
LEMMA SameWork ==
  ASSUME NEW j, jobs'[j] = jobs[j], replies'[j] = replies[j], dispatched'[j] = dispatched[j],
         j \in skipped' <=> j \in skipped
  PROVE  UNCHANGED <<Status(jobs[j]), Tries(jobs[j]), replies[j], dispatched[j], j \notin skipped>>
BY DEF Status, Tries

\* Nothing is known of what is stored but that it is counted.
LEMMA WorkStarts == Init => WorkInv /\ \A j \in Job : Work(j)!Init
<1> SUFFICES ASSUME Init PROVE WorkInv /\ \A j \in Job : Work(j)!Init
  OBVIOUS
<1>1. \A j \in Job : /\ Status(jobs[j]) = "none" /\ Tries(jobs[j]) = 0
                     /\ replies[j] = 0 /\ dispatched[j] = 0 /\ j \notin skipped
  BY DEF Init, NoJob, Status, Tries
<1>2. \A w \in Workers : ~Running(w)
  BY DEF Init, Running, At, Idle
<1>3. AbsentAreNew /\ RepliesAreBounded
  BY <1>1, <1>2 DEF AbsentAreNew, RepliesAreBounded
<1>4. \A j \in Job : Work(j)!Init
  BY <1>1 DEF Work!Init
<1>5. QED
  BY <1>3, <1>4, InitInv DEF WorkInv

\* What happens to the counts of a job that goes on running.
LEMMA RunWork ==
  ASSUME WorkInv, NEW w \in Workers, RunStep(w) \/ CallFails(w)
  PROVE  AbsentAreNew' /\ RepliesAreBounded' /\ WorkSteps
<1>1. Inv
  BY DEF WorkInv
<1>2. RunGoesOn(w) /\ Running(w)
  BY <1>1, RunStepInv, CallFailsInv DEF RunGoesOn
<1>3. PICK i \in Job : i = worker[w].job
  BY <1>1, <1>2, RunFacts
<1>4. /\ worker'[w].job = i /\ UNCHANGED jobs /\ jobs[i].state = "active" /\ jobs[i] \in JobOf({0})
      /\ \A v \in Workers \ {w} : worker'[v] = worker[v]
  BY <1>1, <1>2, <1>3 DEF RunGoesOn, Inv, TypeOK, RunsAreActive
<1>5. \A j \in Job : Tries(jobs[j]) \in Nat /\ replies[j] \in Nat /\ Tries(jobs'[j]) = Tries(jobs[j])
  BY <1>1, <1>4, JobsAreWork DEF Inv, TypeOK
<1>6. /\ Left(w) \in Nat /\ Left(w)' \in Nat
      /\ IF StoreReply(w) THEN Left(w)' + 1 <= Left(w)
                          ELSE Left(w)' <= Left(w) /\ UNCHANGED replies
  BY <1>1, LeftShrinks
<1>7. /\ replies[i] + Left(w) <= 2 * Tries(jobs[i])
      /\ \A j \in Job : replies[j] <= 2 * Tries(jobs[j])
  BY <1>2, <1>3 DEF WorkInv, RepliesAreBounded
<1>8. \A j \in Job \ {i} : replies'[j] = replies[j]
  <2>1. CASE StoreReply(w)
    BY <1>3, <2>1 DEF StoreReply
  <2>2. CASE ~StoreReply(w)
    BY <1>6, <2>2
  <2>3. QED
    BY <2>1, <2>2
<1>9. IF StoreReply(w) THEN replies'[i] = replies[i] + 1 ELSE replies'[i] = replies[i]
  <2>1. replies \in [Job -> Nat]
    BY <1>1 DEF Inv, TypeOK
  <2>2. QED
    BY <1>3, <1>6, <2>1 DEF StoreReply
<1>10. replies'[i] + Left(w)' <= 2 * Tries(jobs[i]) /\ replies'[i] \in Nat
  <2>1. PICK n, t, x, y : n = replies[i] /\ t = Tries(jobs[i]) /\ x = Left(w) /\ y = Left(w)'
    OBVIOUS
  <2>2. n \in Nat /\ t \in Nat /\ x \in Nat /\ y \in Nat /\ n + x <= 2 * t
    BY <1>5, <1>6, <1>7, <2>1
  <2>3. CASE StoreReply(w)
    <3>1. replies'[i] = n + 1 /\ y + 1 <= x
      BY <1>6, <1>9, <2>1, <2>3
    <3>2. QED
      BY <2>1, <2>2, <3>1
  <2>4. CASE ~StoreReply(w)
    <3>1. replies'[i] = n /\ y <= x
      BY <1>6, <1>9, <2>1, <2>4
    <3>2. QED
      BY <2>1, <2>2, <3>1
  <2>5. QED
    BY <2>3, <2>4
<1>11. RepliesAreBounded'
  <2>1. \A j \in Job : replies'[j] <= 2 * Tries(jobs'[j])
    <3>1. replies'[i] <= 2 * Tries(jobs[i])
      BY <1>5, <1>6, <1>10
    <3>2. QED
      BY <1>5, <1>7, <1>8, <3>1
  <2>2. ASSUME NEW v \in Workers, Running(v)'
        PROVE  replies'[worker'[v].job] + Left(v)' <= 2 * Tries(jobs'[worker'[v].job])
    <3>1. CASE v = w
      BY <1>4, <1>5, <1>10, <3>1
    <3>2. CASE v # w
      <4>1. worker'[v] = worker[v] /\ Running(v) /\ Left(v)' = Left(v)
        BY <1>4, <2>2, <3>2 DEF Running, At, Left
      <4>2. worker[v].job \in Job \ {i}
        BY <1>1, <1>2, <1>3, <3>2, <4>1 DEF Inv, RunsAreActive
      <4>3. replies[worker[v].job] + Left(v) <= 2 * Tries(jobs[worker[v].job])
        BY <4>1 DEF WorkInv, RepliesAreBounded
      <4>4. QED
        BY <1>5, <1>8, <4>1, <4>2, <4>3
    <3>3. QED
      BY <3>1, <3>2
  <2>3. QED
    BY <2>1, <2>2 DEF RepliesAreBounded
<1>12. ASSUME NEW j \in Job
       PROVE  \/ Work(j)!Next
              \/ UNCHANGED <<Status(jobs[j]), Tries(jobs[j]), replies[j], dispatched[j], j \notin skipped>>
  <2>0. jobs'[j] = jobs[j] /\ Status(jobs'[j]) = Status(jobs[j]) /\ Tries(jobs'[j]) = Tries(jobs[j])
    BY <1>4
  <2>1. CASE replies'[j] = replies[j] /\ dispatched'[j] = dispatched[j] /\ (j \in skipped' <=> j \in skipped)
    BY <2>0, <2>1
  <2>2. CASE CheckMode(w) /\ j = i
    <3>1. Status(jobs[j]) = "trying"
      BY <1>4, <2>2, JobsAreWork
    <3>2. replies'[j] = replies[j] /\ dispatched'[j] = dispatched[j]
      BY <2>2 DEF CheckMode
    <3>3. (j \notin skipped') = FALSE \/ (j \in skipped' <=> j \in skipped)
      BY <1>3, <2>2 DEF CheckMode
    <3>4. CASE (j \notin skipped') = FALSE
      BY <2>0, <3>1, <3>2, <3>4 DEF Work!Next, Work!Waive
    <3>5. QED
      BY <2>1, <3>2, <3>3, <3>4
  <2>3. CASE StoreReply(w) /\ j = i
    <3>1. Status(jobs[j]) = "trying"
      BY <1>4, <2>3, JobsAreWork
    <3>2. dispatched'[j] = dispatched[j] /\ (j \in skipped' <=> j \in skipped)
      BY <2>3 DEF StoreReply
    <3>3. replies'[j] = replies[j] + 1
      BY <1>9, <2>3
    <3>4. replies[j] < 2 * Tries(jobs[j])
      <4>1. PICK n, t, x, y : n = replies[i] /\ t = Tries(jobs[i]) /\ x = Left(w) /\ y = Left(w)'
        OBVIOUS
      <4>2. /\ n \in Nat /\ t \in Nat /\ x \in Nat /\ y \in Nat /\ n + x <= 2 * t
            /\ y + 1 <= x
        BY <1>5, <1>6, <1>7, <2>3, <4>1
      <4>3. n < 2 * t
        BY <4>2
      <4>4. QED
        BY <2>3, <4>1, <4>3
    <3>5. QED
      BY <2>0, <3>1, <3>2, <3>3, <3>4 DEF Work!Next, Work!Store
  <2>4. CASE AddDispatchJob(w) /\ j = i
    <3>1. Status(jobs[j]) = "trying"
      BY <1>4, <2>4, JobsAreWork
    <3>2. replies'[j] = replies[j] /\ (j \in skipped' <=> j \in skipped)
      BY <2>4 DEF AddDispatchJob
    <3>3. dispatched'[j] = dispatched[j] + 1
      BY <1>1, <1>3, <2>4 DEF AddDispatchJob, Inv, TypeOK
    <3>4. dispatched[j] < replies[j]
      BY <1>1, <1>2, <1>3, <2>4, RunFacts DEF AddDispatchJob, At, Progress
    <3>5. QED
      BY <2>0, <3>1, <3>2, <3>3, <3>4 DEF Work!Next, Work!PassOn
  <2>5. \/ replies'[j] = replies[j] /\ dispatched'[j] = dispatched[j] /\ (j \in skipped' <=> j \in skipped)
        \/ (CheckMode(w) \/ StoreReply(w) \/ AddDispatchJob(w)) /\ j = i
    <3>1. \/ CheckMode(w) \/ StoreReply(w) \/ AddDispatchJob(w)
          \/ UNCHANGED <<replies, dispatched, skipped>>
      BY DEF RunStep, AcquireLock, OpenRun, PrepareContext, Ask, CompleteRun, Recover, FailRun,
             ReleaseLock, CallFails, rows
    <3>2. ASSUME CheckMode(w) \/ StoreReply(w) \/ AddDispatchJob(w), j # i
          PROVE  dispatched'[j] = dispatched[j] /\ (j \in skipped' <=> j \in skipped)
      <4>1. /\ dispatched' = dispatched \/ dispatched' = [dispatched EXCEPT ![i] = @ + 1]
            /\ skipped' = skipped \/ skipped' = skipped \cup {i}
        BY <1>3, <3>2 DEF CheckMode, StoreReply, AddDispatchJob
      <4>2. dispatched \in [Job -> Nat]
        BY <1>1 DEF Inv, TypeOK
      <4>3. QED
        BY <3>2, <4>1, <4>2
    <3>3. QED
      BY <1>8, <3>1, <3>2
  <2>6. QED
    BY <2>1, <2>2, <2>3, <2>4, <2>5
<1>13. AbsentAreNew'
  BY <1>4, <1>5 DEF WorkInv, AbsentAreNew
<1>14. QED
  BY <1>11, <1>12, <1>13 DEF WorkSteps

\* A job that changes hands between the queue and the workers keeps its rows.
LEMMA QueueWork ==
  ASSUME WorkInv, NEW i \in Job, NEW job,
         jobs' = [jobs EXCEPT ![i] = job], UNCHANGED rows,
         Tries(job) \in Nat, Tries(job) >= Tries(jobs[i]), job.state # "absent",
         \/ Work(i)!Next
         \/ UNCHANGED <<Status(jobs[i]), Tries(jobs[i]), replies[i], dispatched[i], i \notin skipped>>,
         \A v \in Workers : Running(v)' =>
           \/ Running(v) /\ worker'[v] = worker[v] /\ worker[v].job # i
           \/ worker'[v].job = i /\ Tries(job) = Tries(jobs[i]) + 1 /\ Left(v)' <= 2
  PROVE  AbsentAreNew' /\ RepliesAreBounded' /\ WorkSteps
<1>1. Inv /\ jobs \in [Job -> JobOf({0})] /\ replies \in [Job -> Nat]
  BY DEF WorkInv, Inv, TypeOK
<1>2. jobs'[i] = job /\ \A j \in Job \ {i} : jobs'[j] = jobs[j]
  BY <1>1
<1>3. \A j \in Job : Tries(jobs[j]) \in Nat
  BY <1>1, JobsAreWork
<1>4. UNCHANGED <<replies, dispatched, skipped>>
  BY DEF rows
<1>5. \A j \in Job : replies[j] <= 2 * Tries(jobs[j]) /\ replies[j] \in Nat
  BY <1>1 DEF WorkInv, RepliesAreBounded
<1>6. \A j \in Job : replies'[j] <= 2 * Tries(jobs'[j])
  <2>1. ASSUME NEW j \in Job PROVE replies'[j] <= 2 * Tries(jobs'[j])
    <3>1. CASE j = i
      <4>1. PICK n, t, u : n = replies[i] /\ t = Tries(jobs[i]) /\ u = Tries(job)
        OBVIOUS
      <4>2. n <= 2 * u
        <5>1. n \in Nat /\ t \in Nat /\ u \in Nat /\ n <= 2 * t /\ u >= t
          BY <1>3, <1>5, <4>1
        <5>2. QED
          BY <5>1
      <4>3. QED
        BY <1>2, <1>4, <3>1, <4>1, <4>2
    <3>2. CASE j # i
      BY <1>2, <1>4, <1>5, <3>2
    <3>3. QED
      BY <3>1, <3>2
  <2>2. QED
    BY <2>1
<1>7. ASSUME NEW v \in Workers, Running(v)'
      PROVE  replies'[worker'[v].job] + Left(v)' <= 2 * Tries(jobs'[worker'[v].job])
  <2>1. CASE Running(v) /\ worker'[v] = worker[v] /\ worker[v].job # i
    <3>1. worker[v].job \in Job \ {i} /\ Left(v)' = Left(v)
      BY <1>1, <2>1 DEF Inv, RunsAreActive, Left
    <3>2. QED
      BY <1>2, <1>4, <2>1, <3>1 DEF WorkInv, RepliesAreBounded
  <2>2. CASE worker'[v].job = i /\ Tries(job) = Tries(jobs[i]) + 1 /\ Left(v)' <= 2
    <3>1. PICK n, t, y : n = replies[i] /\ t = Tries(jobs[i]) /\ y = Left(v)'
      OBVIOUS
    <3>2. n \in Nat /\ t \in Nat /\ y \in Nat /\ n <= 2 * t /\ y <= 2
      BY <1>3, <1>5, <2>2, <3>1 DEF Left
    <3>3. n + y <= 2 * (t + 1)
      BY <3>2
    <3>4. QED
      BY <1>2, <1>4, <2>2, <3>1, <3>3
  <2>3. QED
    BY <1>7, <2>1, <2>2
<1>8. ASSUME NEW j \in Job, j # i
      PROVE  UNCHANGED <<Status(jobs[j]), Tries(jobs[j]), replies[j], dispatched[j], j \notin skipped>>
  BY <1>2, <1>4, <1>8, SameWork
<1>9. AbsentAreNew'
  BY <1>2 DEF WorkInv, AbsentAreNew
<1>10. QED
  BY <1>6, <1>7, <1>8, <1>9 DEF RepliesAreBounded, WorkSteps

\* A worker whose run is replaced.
LEMMA Replaced ==
  ASSUME Inv, NEW w \in Workers, NEW run \in Run, Becomes(w, run)
  PROVE  worker'[w] = run /\ \A v \in Workers \ {w} : worker'[v] = worker[v]
BY DEF Becomes, Inv, TypeOK

\* Starting a job is another try.
LEMMA StartJobWork ==
  ASSUME WorkInv, NEW w \in Workers, NEW i \in Job, StartJob(w, i)
  PROVE  AbsentAreNew' /\ RepliesAreBounded' /\ WorkSteps
<1> DEFINE run == [Idle EXCEPT !.pc = "mode", !.job = i]
<1>1. Inv /\ Runnable(jobs[i]) /\ UNCHANGED rows
  BY DEF WorkInv, StartJob
<1>2. jobs' = [jobs EXCEPT ![i] = Started(jobs[i])] /\ Becomes(w, run)
  BY DEF StartJob
<1>3. run \in Run /\ run.job = i /\ run.pc = "mode"
  BY AgentAssumption DEF Idle, Run, PCs
<1> HIDE DEF run
<1>4. worker'[w] = run /\ \A v \in Workers \ {w} : worker'[v] = worker[v]
  BY <1>1, <1>2, <1>3, Replaced
<1>5. /\ jobs[i] \in JobOf({0}) /\ jobs[i].attempts < MaxAttempts
      /\ Tries(jobs[i]) \in Nat /\ jobs'[i] = Started(jobs[i])
  <2>1. jobs[i] \in JobOf({0}) /\ jobs'[i] = Started(jobs[i])
    BY <1>1, <1>2 DEF Inv, TypeOK
  <2>2. jobs[i].attempts < MaxAttempts
    BY <1>1 DEF Inv, UnsettledHaveAttempts, Settled, Runnable
  <2>3. QED
    BY <2>1, <2>2, JobsAreWork
<1>6. /\ Status(jobs[i]) = "waiting" /\ Tries(jobs[i]) < TryLimit
      /\ Status(Started(jobs[i])) = "trying" /\ Tries(Started(jobs[i])) = Tries(jobs[i]) + 1
  BY <1>1, <1>5, JobsAreWork
<1>7. Work(i)!Next
  <2>1. UNCHANGED <<replies, dispatched, skipped>>
    BY <1>1 DEF rows
  <2>2. Work(i)!Try
    BY <1>5, <1>6, <2>1 DEF Work!Try
  <2>3. QED
    BY <2>2 DEF Work!Next
<1>8. /\ Tries(Started(jobs[i])) \in Nat /\ Tries(Started(jobs[i])) >= Tries(jobs[i])
      /\ Started(jobs[i]).state # "absent"
  BY <1>5, <1>6 DEF Started, JobOf
<1>9. ASSUME NEW v \in Workers, Running(v)'
      PROVE  \/ Running(v) /\ worker'[v] = worker[v] /\ worker[v].job # i
             \/ /\ worker'[v].job = i /\ Tries(Started(jobs[i])) = Tries(jobs[i]) + 1
                /\ Left(v)' <= 2
  <2>1. CASE v = w
    BY <1>3, <1>4, <1>6, <2>1 DEF Left
  <2>2. CASE v # w
    <3>1. Running(v) /\ worker'[v] = worker[v]
      BY <1>4, <1>9, <2>2 DEF Running, At
    <3>2. jobs[worker[v].job].state = "active"
      BY <1>1, <3>1 DEF Inv, RunsAreActive
    <3>3. QED
      BY <1>1, <3>1, <3>2 DEF Runnable
  <2>3. QED
    BY <2>1, <2>2
<1>10. PICK job : job = Started(jobs[i])
  OBVIOUS
<1>11. QED
  BY <1>1, <1>2, <1>7, <1>8, <1>9, <1>10, QueueWork

\* A try that ends: the reply was passed on, or it is not the last, or there
\* were enough of them.
LEMMA SettleJobWork ==
  ASSUME WorkInv, NEW w \in Workers, SettleJob(w)
  PROVE  AbsentAreNew' /\ RepliesAreBounded' /\ WorkSteps
<1>1. Inv /\ Running(w) /\ UNCHANGED rows /\ Becomes(w, Idle) /\ At(w, "settle")
  BY DEF WorkInv, SettleJob, At, Running
<1>2. PICK i \in Job : i = worker[w].job
  BY <1>1, RunFacts
<1>3. PICK job : job = IF worker[w].outcome = "ok" THEN Completed(jobs[i]) ELSE AttemptFailed(jobs[i])
  OBVIOUS
<1>4. jobs' = [jobs EXCEPT ![i] = job]
  BY <1>2, <1>3 DEF SettleJob
<1>5. /\ jobs[i] \in JobOf({0}) /\ jobs[i].state = "active" /\ jobs[i].attempts < MaxAttempts
      /\ jobs'[i] = job
  BY <1>1, <1>2, <1>4 DEF Inv, TypeOK, RunsAreActive, UnsettledHaveAttempts, Settled
<1>6. /\ Tries(jobs[i]) \in Nat /\ Status(jobs[i]) = "trying"
      /\ Status(Completed(jobs[i])) = "completed" /\ Tries(Completed(jobs[i])) = Tries(jobs[i])
      /\ Tries(AttemptFailed(jobs[i])) = Tries(jobs[i])
      /\ \/ Status(AttemptFailed(jobs[i])) = "waiting"
         \/ Status(AttemptFailed(jobs[i])) = "failed" /\ Tries(jobs[i]) >= FewestTries
  BY <1>5, JobsAreWork
<1>7. worker[w].outcome = "ok" => dispatched[i] > 0 \/ i \in skipped
  BY <1>1, <1>2, RunFacts DEF Progress, Answered, At
<1>8. UNCHANGED <<replies, dispatched, skipped>>
  BY <1>1 DEF rows
<1>9. Tries(job) = Tries(jobs[i])
  BY <1>3, <1>6
<1>10. Work(i)!Next
  <2>1. CASE worker[w].outcome = "ok"
    <3>1. Work(i)!Complete
      <4>1. Status(jobs'[i]) = "completed" /\ Tries(jobs'[i]) = Tries(jobs[i])
        BY <1>3, <1>5, <1>6, <2>1
      <4>2. QED
        BY <1>6, <1>7, <1>8, <2>1, <4>1 DEF Work!Complete
    <3>2. QED
      BY <3>1 DEF Work!Next
  <2>2. CASE worker[w].outcome # "ok"
    <3>1. /\ Tries(jobs'[i]) = Tries(jobs[i])
          /\ \/ Status(jobs'[i]) = "waiting"
             \/ Status(jobs'[i]) = "failed" /\ Tries(jobs[i]) >= FewestTries
      BY <1>3, <1>5, <1>6, <2>2
    <3>2. Work(i)!TryAgain \/ Work(i)!GiveUp
      BY <1>6, <1>8, <3>1 DEF Work!TryAgain, Work!GiveUp
    <3>3. QED
      BY <3>2 DEF Work!Next
  <2>3. QED
    BY <2>1, <2>2
<1>11. ASSUME NEW v \in Workers, Running(v)'
       PROVE  Running(v) /\ worker'[v] = worker[v] /\ worker[v].job # i
  <2>1. Idle \in Run /\ Idle.pc = "idle"
    BY AgentAssumption DEF Idle, Run, PCs
  <2>2. worker'[w] = Idle /\ \A u \in Workers \ {w} : worker'[u] = worker[u]
    BY <1>1, <2>1, Replaced
  <2>3. v # w /\ worker'[v] = worker[v] /\ Running(v)
    BY <1>11, <2>1, <2>2 DEF Running, At
  <2>4. QED
    BY <1>1, <1>2, <2>3 DEF Inv, RunsAreActive
<1>12. Tries(job) \in Nat /\ Tries(job) >= Tries(jobs[i]) /\ job.state # "absent"
  BY <1>3, <1>5, <1>6, <1>9 DEF Completed, AttemptFailed, JobOf
<1>13. QED
  BY <1>1, <1>4, <1>10, <1>11, <1>12, QueueWork

\* Accepting work, and finding it stalled.
LEMMA UnheldWork ==
  ASSUME WorkInv, NEW i \in Job, AddAgentJob(i) \/ StalledCheck(i)
  PROVE  AbsentAreNew' /\ RepliesAreBounded' /\ WorkSteps
<1>1. Inv /\ UNCHANGED <<worker, rows>> /\ ~Held(i) /\ jobs[i] \in JobOf({0})
  BY HeldAreActive DEF WorkInv, AddAgentJob, StalledCheck, Held, Inv, TypeOK
<1>2. PICK job : job = IF AddAgentJob(i) THEN Queued(0) ELSE Stalled(jobs[i])
  OBVIOUS
<1>3. jobs' = [jobs EXCEPT ![i] = job]
  BY <1>2 DEF AddAgentJob, StalledCheck
<1>4. jobs'[i] = job /\ UNCHANGED <<replies, dispatched, skipped>>
  BY <1>1, <1>3 DEF Inv, TypeOK, rows
<1>5. ASSUME NEW v \in Workers, Running(v)'
      PROVE  Running(v) /\ worker'[v] = worker[v] /\ worker[v].job # i
  BY <1>1, <1>5 DEF Running, At, Held
<1>6. Tries(jobs[i]) \in Nat
  BY <1>1, JobsAreWork
<1>7. CASE AddAgentJob(i)
  <2>1. Status(jobs[i]) = "none" /\ Tries(jobs[i]) = 0
    BY <1>7 DEF AddAgentJob, Status, WorkInv, AbsentAreNew
  <2>2. Status(job) = "waiting" /\ Tries(job) = 0 /\ job.state # "absent"
    BY <1>2, <1>7 DEF Status, Tries, Queued
  <2>3. Work(i)!Accept
    BY <1>4, <2>1, <2>2 DEF Work!Accept
  <2>4. Work(i)!Next
    BY <2>3 DEF Work!Next
  <2>5. Tries(job) \in Nat /\ Tries(job) >= Tries(jobs[i])
    BY <2>1, <2>2
  <2>6. QED
    BY <1>1, <1>3, <1>5, <2>2, <2>4, <2>5, QueueWork
<1>8. CASE StalledCheck(i) /\ ~AddAgentJob(i)
  <2>1. jobs[i].state = "active" /\ jobs[i].attempts < MaxAttempts /\ job = Stalled(jobs[i])
    BY <1>1, <1>2, <1>8 DEF StalledCheck, Inv, UnsettledHaveAttempts, Settled
  <2>2. /\ Status(jobs[i]) = "trying" /\ Tries(job) = Tries(jobs[i])
        /\ \/ Status(job) = "waiting"
           \/ Status(job) = "failed" /\ Tries(jobs[i]) >= FewestTries
    BY <1>1, <2>1, JobsAreWork
  <2>3. Work(i)!TryAgain \/ Work(i)!GiveUp
    BY <1>4, <2>2 DEF Work!TryAgain, Work!GiveUp
  <2>4. Work(i)!Next
    BY <2>3 DEF Work!Next
  <2>5. Tries(job) \in Nat /\ Tries(job) >= Tries(jobs[i]) /\ job.state # "absent"
    BY <1>1, <1>6, <2>1, <2>2 DEF Stalled, JobOf
  <2>6. QED
    BY <1>1, <1>3, <1>5, <2>4, <2>5, QueueWork
<1>9. QED
  BY <1>7, <1>8

\* Steps that touch neither jobs nor rows; the runs they end have no more to store.
LEMMA OtherWork ==
  ASSUME WorkInv, UNCHANGED <<jobs, rows>>,
         \A v \in Workers : Running(v)' => Running(v) /\ worker'[v] = worker[v]
  PROVE  AbsentAreNew' /\ RepliesAreBounded' /\ WorkSteps
<1>1. UNCHANGED <<jobs, replies, dispatched, skipped>>
  BY DEF rows
<1>2. AbsentAreNew'
  BY <1>1 DEF WorkInv, AbsentAreNew, Tries
<1>3. \A v \in Workers : Running(v)' => Left(v)' = Left(v)
  BY DEF Left
<1>4. \A j \in Job : Tries(jobs[j])' = Tries(jobs[j])
  BY <1>1 DEF Tries
<1>5. RepliesAreBounded'
  <2>1. \A j \in Job : replies'[j] <= 2 * Tries(jobs[j])'
    BY <1>1, <1>4 DEF WorkInv, RepliesAreBounded
  <2>2. ASSUME NEW v \in Workers, Running(v)'
        PROVE  replies'[worker'[v].job] + Left(v)' <= 2 * Tries(jobs[worker[v].job])'
    <3>1. Running(v) /\ worker'[v] = worker[v] /\ Left(v)' = Left(v) /\ worker[v].job \in Job
      BY <1>3, <2>2 DEF WorkInv, Inv, RunsAreActive
    <3>2. replies[worker[v].job] + Left(v) <= 2 * Tries(jobs[worker[v].job])
      BY <3>1 DEF WorkInv, RepliesAreBounded
    <3>3. Tries(jobs[worker[v].job])' = Tries(jobs[worker[v].job])
      BY <1>1, <3>1
    <3>4. QED
      BY <1>1, <3>1, <3>2, <3>3
  <2>3. QED
    BY <2>1, <2>2 DEF RepliesAreBounded
<1>6. \A j \in Job :
        UNCHANGED <<Status(jobs[j]), Tries(jobs[j]), replies[j], dispatched[j], j \notin skipped>>
  BY <1>1, SameWork
<1>7. QED
  BY <1>2, <1>5, <1>6 DEF WorkSteps

\* Every step keeps the counts and is a step of each piece of work, or of none.
LEMMA WorkNext == WorkInv /\ [Next]_vars => WorkInv' /\ WorkSteps
<1> SUFFICES ASSUME WorkInv, [Next]_vars PROVE AbsentAreNew' /\ RepliesAreBounded' /\ WorkSteps
  BY NextInv DEF WorkInv
<1>1. ASSUME UNCHANGED <<worker, jobs, rows>>
      PROVE  AbsentAreNew' /\ RepliesAreBounded' /\ WorkSteps
  BY <1>1, OtherWork DEF Running, At
<1>2. ASSUME NEW w \in Workers, Crash(w)
      PROVE  AbsentAreNew' /\ RepliesAreBounded' /\ WorkSteps
  <2>1. Idle \in Run /\ Idle.pc = "idle" /\ Becomes(w, Idle) /\ UNCHANGED <<jobs, rows>> /\ Inv
    BY <1>2, AgentAssumption DEF Idle, Run, PCs, Crash, WorkInv
  <2>2. worker'[w] = Idle /\ \A v \in Workers \ {w} : worker'[v] = worker[v]
    BY <2>1, Replaced
  <2>3. \A v \in Workers : Running(v)' => Running(v) /\ worker'[v] = worker[v]
    BY <2>1, <2>2 DEF Running, At
  <2>4. QED
    BY <2>1, <2>3, OtherWork
<1>3. ASSUME \/ \E c \in Conversations : HandOver(c) \/ GiveBack(c) \/ LockExpires(c)
             \/ \E w \in Workers : TransferToHuman(w)
      PROVE  AbsentAreNew' /\ RepliesAreBounded' /\ WorkSteps
  BY <1>1, <1>3 DEF HandOver, GiveBack, LockExpires, TransferToHuman, BecomesManual
<1>4. CASE UNCHANGED vars
  BY <1>1, <1>4 DEF vars, rows
<1>5. CASE Next
  <2>1. ASSUME NEW w \in Workers, RunStep(w) \/ SettleJob(w) \/ CallFails(w)
        PROVE  AbsentAreNew' /\ RepliesAreBounded' /\ WorkSteps
    BY <2>1, RunWork, SettleJobWork
  <2>2. ASSUME NEW w \in Workers, NEW j \in Job, StartJob(w, j)
        PROVE  AbsentAreNew' /\ RepliesAreBounded' /\ WorkSteps
    BY <2>2, StartJobWork
  <2>3. ASSUME NEW j \in Job, AddAgentJob(j) \/ StalledCheck(j)
        PROVE  AbsentAreNew' /\ RepliesAreBounded' /\ WorkSteps
    BY <2>3, UnheldWork
  <2>4. QED
    BY <1>2, <1>3, <1>5, <2>1, <2>2, <2>3, NextCases
<1>6. QED
  BY <1>4, <1>5

\* Whatever crashes, stalls, fails or is handed over, every agent job is worked
\* on as WorkItem promises: tried one run at a time, not more often than its
\* attempts and stalls allow, at most two replies in a try, none sent before it
\* is stored, and completed with a reply sent or in the hands of an operator.
THEOREM WorkIsDone == Spec => ImplementsWork
<1>1. WorkInv /\ [Next]_vars => WorkInv'
  BY WorkNext
<1>2. WorkInv /\ [Next]_vars => [WorkSteps]_vars
  BY WorkNext
<1>3. WorkSteps <=> \A j \in Job :
        \/ Work(j)!Next
        \/ UNCHANGED <<Status(jobs[j]), Tries(jobs[j]), replies[j], dispatched[j], j \notin skipped>>
  BY DEF WorkSteps
<1>4. WorkInv /\ [Next]_vars =>
        [\A j \in Job :
           \/ Work(j)!Next
           \/ UNCHANGED <<Status(jobs[j]), Tries(jobs[j]), replies[j], dispatched[j],
                         j \notin skipped>>]_vars
  BY <1>2, <1>3
<1>5. QED
  BY <1>1, <1>4, WorkStarts, PTL DEF Spec, ImplementsWork
=============================================================================
