---------------------------- MODULE AgentPipeline ----------------------------
(***************************************************************************)
(* From an agent job to a dispatched reply: AgentProcessor.process and     *)
(* OrchestrationService.processMessage, one step per awaited call whose    *)
(* result or failure can be told apart, under the Redis lock of the        *)
(* conversation.  Operators take conversations over and give them back     *)
(* meanwhile.  What a circuit breaker answers is chosen freely here.       *)
(***************************************************************************)
EXTENDS BullJob, Sequences, FiniteSets

CONSTANTS
  Conversations,
  Job,              \* jobs of the queue agent-processing
  ConversationOf,   \* [Job -> Conversations]
  Workers,
  Providers,
  Primary,          \* the provider of the agent
  Keyed,            \* providers the client has a key for
  Multimodal,       \* providers that implement chatWithParts
  Candidates,       \* defaultFallbackMap
  MayOpen,          \* providers whose circuit breaker may be found open
  HasTools,         \* capabilities.tools of the agent
  None,
  LockOutlivesJob,  \* TRUE: no run lasts longer than the 60 s of its lock
  MaxFaults         \* failed calls and crashes, not counting the providers'

ASSUME AgentAssumption ==
  /\ IsFiniteSet(Workers)
  /\ ConversationOf \in [Job -> Conversations]
  /\ Primary \in Providers
  /\ Keyed \subseteq Providers /\ Multimodal \subseteq Providers
  /\ Candidates \in [Providers -> Seq(Providers)]
  /\ None \notin Providers \cup Job
  /\ LockOutlivesJob \in BOOLEAN /\ HasTools \in BOOLEAN
  /\ MaxFaults \in Nat

VARIABLES
  jobs,        \* the queue in Redis
  worker,      \* the local variables of each running process()
  lock,        \* conversations whose key lock:agent:... is set
  mode,        \* conversations.mode
  replies,     \* outbound messages stored for each job
  dispatched,  \* dispatcher jobs added for each job
  runs,        \* agent_runs rows of each job, by status
  skipped,     \* jobs that found their conversation in manual mode
  underWay,    \* jobs past their mode check when their conversation was handed over
  faults

rows == <<replies, dispatched, runs, skipped>>
vars == <<jobs, worker, lock, mode, replies, dispatched, runs, skipped, underWay, faults>>

Idle ==
  [pc |-> "idle", job |-> None, provider |-> Primary, stage |-> "primary", outcome |-> "ok"]

\* Inside the try of OrchestrationService.processMessage.
Trying == {"ask", "store", "complete"}

\* Between a successful acquireLock and the end of releaseLock.
Locked == Trying \cup {"open", "context", "recover", "failRun", "dispatch", "release"}

PCs == Locked \cup {"idle", "mode", "lock", "settle"}

\* "early": the circuit of the primary provider was open; "late": it failed.
Run ==
  [pc : PCs, job : Job \cup {None}, provider : Providers,
   stage : {"primary", "early", "late"},
   outcome : {"ok", "error", "locked"}]

At(w, pc) == worker[w].pc = pc

Conv(w) == ConversationOf[worker[w].job]

InCritical(w) == worker[w].pc \in Locked

\* The run has passed its mode check and may still store a reply.
Admitted(w) == At(w, "lock") \/ InCritical(w)

UnderWayElsewhere(c) == {j \in underWay : ConversationOf[j] # c}

NoRuns == [running |-> 0, success |-> 0, failed |-> 0]

Init ==
  /\ jobs = [j \in Job |-> NoJob(0)]
  /\ worker = [w \in Workers |-> Idle]
  /\ lock = {}
  /\ mode = [c \in Conversations |-> "auto"]
  /\ replies = [j \in Job |-> 0]
  /\ dispatched = [j \in Job |-> 0]
  /\ runs = [j \in Job |-> NoRuns]
  /\ skipped = {}
  /\ underWay = {}
  /\ faults = 0

Becomes(w, run) == worker' = [worker EXCEPT ![w] = run]

Goto(w, pc) == Becomes(w, [worker[w] EXCEPT !.pc = pc])

Fails(w, pc) == Becomes(w, [worker[w] EXCEPT !.pc = pc, !.outcome = "error"])

-----------------------------------------------------------------------------
(* AgentProcessor.process.                                                 *)

\* The ingestion pipeline stored the message.
AddAgentJob(j) ==
  /\ jobs[j].state = "absent"
  /\ jobs' = [jobs EXCEPT ![j] = Queued(0)]
  /\ UNCHANGED <<worker, lock, mode, rows, underWay, faults>>

StartJob(w, j) ==
  /\ At(w, "idle")
  /\ Runnable(jobs[j])
  /\ jobs' = [jobs EXCEPT ![j] = Started(jobs[j])]
  /\ Becomes(w, [Idle EXCEPT !.pc = "mode", !.job = j])
  /\ UNCHANGED <<lock, mode, rows, underWay, faults>>

\* Mutant of CheckMode: the mode is not looked at.
CheckNothing(w) ==
  /\ At(w, "mode")
  /\ Goto(w, "lock")
  /\ UNCHANGED <<jobs, lock, mode, rows, underWay, faults>>

\* The mode is read once, before the lock.
CheckMode(w) ==
  /\ At(w, "mode")
  /\ \/ /\ mode[Conv(w)] = "manual"
        /\ skipped' = skipped \cup {worker[w].job}
        /\ Goto(w, "settle")
     \/ /\ mode[Conv(w)] = "auto"
        /\ Goto(w, "lock")
        /\ UNCHANGED skipped
  /\ UNCHANGED <<jobs, lock, mode, replies, dispatched, runs, underWay, faults>>

\* Mutant of AcquireLock: it is called inside the try, so that the finally
\* clause of the loser deletes the key of the winner.
AcquireLockInsideTry(w) ==
  /\ At(w, "lock")
  /\ \/ /\ Conv(w) \notin lock
        /\ lock' = lock \cup {Conv(w)}
        /\ Goto(w, "open")
     \/ /\ Conv(w) \in lock
        /\ Becomes(w, [worker[w] EXCEPT !.pc = "release", !.outcome = "locked"])
        /\ UNCHANGED lock
  /\ UNCHANGED <<jobs, mode, rows, underWay, faults>>

\* SET NX: when the key is set the handler throws at once, outside its try.
AcquireLock(w) ==
  /\ At(w, "lock")
  /\ \/ /\ Conv(w) \notin lock
        /\ lock' = lock \cup {Conv(w)}
        /\ Goto(w, "open")
     \/ /\ Conv(w) \in lock
        /\ Becomes(w, [worker[w] EXCEPT !.pc = "settle", !.outcome = "locked"])
        /\ UNCHANGED lock
  /\ UNCHANGED <<jobs, mode, rows, underWay, faults>>

AddDispatchJob(w) ==
  /\ At(w, "dispatch")
  /\ dispatched' = [dispatched EXCEPT ![worker[w].job] = @ + 1]
  /\ Goto(w, "release")
  /\ UNCHANGED <<jobs, lock, mode, replies, runs, skipped, underWay, faults>>

\* Mutant of ReleaseLock: it is not in a finally clause.
ReleaseOnSuccess(w) ==
  /\ At(w, "release")
  /\ lock' = IF worker[w].outcome = "ok" THEN lock \ {Conv(w)} ELSE lock
  /\ Goto(w, "settle")
  /\ UNCHANGED <<jobs, mode, rows, underWay, faults>>

\* The finally clause: DEL, whoever set the key.
ReleaseLock(w) ==
  /\ At(w, "release")
  /\ lock' = lock \ {Conv(w)}
  /\ Goto(w, "settle")
  /\ UNCHANGED <<jobs, mode, rows, underWay, faults>>

\* process() returned or threw, and Bull moves the job.
SettleJob(w) ==
  /\ At(w, "settle")
  /\ LET j == worker[w].job
     IN jobs' = [jobs EXCEPT ![j] = IF worker[w].outcome = "ok" THEN Completed(jobs[j])
                                                               ELSE AttemptFailed(jobs[j])]
  /\ Becomes(w, Idle)
  /\ UNCHANGED <<lock, mode, rows, underWay, faults>>

-----------------------------------------------------------------------------
(* OrchestrationService.processMessage.                                    *)

\* The agent_runs rows when this run ends well, or badly.
Succeeded(w) ==
  LET row == runs[worker[w].job]
  IN [runs EXCEPT ![worker[w].job] = [row EXCEPT !.running = @ - 1, !.success = @ + 1]]
Failed(w) ==
  LET row == runs[worker[w].job]
  IN [runs EXCEPT ![worker[w].job] = [row EXCEPT !.running = @ - 1, !.failed = @ + 1]]

\* The conversation state, the agent and its key, and an agent_runs row.
OpenRun(w) ==
  /\ At(w, "open")
  /\ runs' = [runs EXCEPT ![worker[w].job].running = @ + 1]
  /\ Goto(w, "context")
  /\ UNCHANGED <<jobs, lock, mode, replies, dispatched, skipped, underWay, faults>>

\* resolveFallback: the first candidate with a key whose circuit is not open.
Fallbacks(p) ==
  {Candidates[p][i] : i \in
     {i \in DOMAIN Candidates[p] :
        /\ Candidates[p][i] \in Keyed
        /\ \A k \in 1..(i - 1) : Candidates[p][k] \in Keyed => Candidates[p][k] \in MayOpen}}

\* ... and it may find none.
NoFallback(p) == \A i \in DOMAIN Candidates[p] : Candidates[p][i] \in Keyed => Candidates[p][i] \in MayOpen

\* Media, history and knowledge, then the circuit of the primary provider: when
\* it is open a fallback takes over at once, and without one the primary
\* provider is asked all the same.
PrepareContext(w) ==
  /\ At(w, "context")
  /\ \/ Goto(w, "ask")
     \/ /\ Primary \in MayOpen
        /\ \E p \in Fallbacks(Primary) :
             Becomes(w, [worker[w] EXCEPT !.pc = "ask", !.provider = p, !.stage = "early"])
  /\ UNCHANGED <<jobs, lock, mode, rows, underWay, faults>>

\* Where an exception goes: the catch clause, or that of the fallback in it.
Catch(w) == IF worker[w].stage = "late" THEN "failRun" ELSE "recover"

\* Mutants of Ask: what a provider had said before it failed is kept, or the
\* answer is sent before it is stored.
AskAndKeepPart(w) ==
  /\ At(w, "ask")
  /\ \E pc \in {"store", Catch(w)} : Goto(w, pc)
  /\ replies' = [replies EXCEPT ![worker[w].job] = @ + 1]
  /\ UNCHANGED <<jobs, lock, mode, dispatched, runs, skipped, underWay, faults>>

AskAndDispatch(w) ==
  /\ At(w, "ask")
  /\ \/ /\ Goto(w, "store")
        /\ dispatched' = [dispatched EXCEPT ![worker[w].job] = @ + 1]
     \/ Goto(w, Catch(w)) /\ UNCHANGED dispatched
  /\ UNCHANGED <<jobs, lock, mode, replies, runs, skipped, underWay, faults>>

\* The provider answers, or fails retryWithBackoff for good.
Ask(w) ==
  /\ At(w, "ask")
  /\ \E pc \in {"store", Catch(w)} : Goto(w, pc)
  /\ UNCHANGED <<jobs, lock, mode, rows, underWay, faults>>

\* The conversation goes to an operator.
BecomesManual(c) ==
  /\ mode[c] = "auto"
  /\ mode' = [mode EXCEPT ![c] = "manual"]
  /\ underWay' = UnderWayElsewhere(c)
                   \cup {worker[w].job : w \in {w \in Workers : Admitted(w) /\ Conv(w) = c}}
  /\ UNCHANGED <<jobs, worker, lock, rows, faults>>

\* The tool transfer_to_human, called by the provider before it answers; only
\* chatWithParts is given tools.
TransferToHuman(w) ==
  /\ At(w, "ask")
  /\ HasTools /\ worker[w].provider \in Multimodal
  /\ BecomesManual(Conv(w))

\* addMessage: the mode is not looked at again.
StoreReply(w) ==
  /\ At(w, "store")
  /\ replies' = [replies EXCEPT ![worker[w].job] = @ + 1]
  /\ Goto(w, "complete")
  /\ UNCHANGED <<jobs, lock, mode, dispatched, runs, skipped, underWay, faults>>

CompleteRun(w) ==
  /\ At(w, "complete")
  /\ runs' = Succeeded(w)
  /\ Goto(w, "dispatch")
  /\ UNCHANGED <<jobs, lock, mode, replies, dispatched, skipped, underWay, faults>>

\* The catch clause: a fallback, unless one was used already, and only if it
\* implements chatWithParts.
Recover(w) ==
  /\ At(w, "recover")
  /\ \/ /\ worker[w].stage = "early" \/ NoFallback(worker[w].provider)
        /\ Goto(w, "failRun")
     \/ /\ worker[w].stage = "primary"
        /\ \E p \in Fallbacks(worker[w].provider) :
             IF p \in Multimodal
               THEN Becomes(w, [worker[w] EXCEPT !.pc = "ask", !.provider = p, !.stage = "late"])
               ELSE Goto(w, "failRun")
  /\ UNCHANGED <<jobs, lock, mode, rows, underWay, faults>>

\* Mutants of FailRun: completeAgentRun and failAgentRun both end the row, or
\* the error is thrown on and the row left alone.
FailRunTwice(w) ==
  /\ At(w, "failRun")
  /\ runs' = [runs EXCEPT ![worker[w].job].running = @ - 2]
  /\ Fails(w, "release")
  /\ UNCHANGED <<jobs, lock, mode, replies, dispatched, skipped, underWay, faults>>
ThrowOnly(w) ==
  /\ At(w, "failRun")
  /\ Fails(w, "release")
  /\ UNCHANGED <<jobs, lock, mode, rows, underWay, faults>>

\* failAgentRun, and the error of the primary provider is thrown on.
FailRun(w) ==
  /\ At(w, "failRun")
  /\ runs' = Failed(w)
  /\ Fails(w, "release")
  /\ UNCHANGED <<jobs, lock, mode, replies, dispatched, skipped, underWay, faults>>

-----------------------------------------------------------------------------
(* Operators.                                                              *)

HandOver(c) == BecomesManual(c)

GiveBack(c) ==
  /\ mode[c] = "manual"
  /\ mode' = [mode EXCEPT ![c] = "auto"]
  /\ underWay' = UnderWayElsewhere(c)
  /\ UNCHANGED <<jobs, worker, lock, rows, faults>>

-----------------------------------------------------------------------------
(* Failures.                                                               *)

\* An awaited call rejects: before the lock, inside the try of processMessage,
\* after or before that try, or in the finally clause.
CallFails(w) ==
  /\ faults < MaxFaults
  /\ faults' = faults + 1
  /\ \/ worker[w].pc \in {"mode", "lock", "release"} /\ Fails(w, "settle")
     \/ worker[w].pc \in {"open", "context", "recover", "failRun", "dispatch"} /\ Fails(w, "release")
     \/ worker[w].pc \in {"store", "complete"} /\ Goto(w, Catch(w))
  /\ UNCHANGED <<jobs, lock, mode, rows, underWay>>

Crash(w) ==
  /\ ~At(w, "idle")
  /\ faults < MaxFaults
  /\ faults' = faults + 1
  /\ Becomes(w, Idle)
  /\ UNCHANGED <<jobs, lock, mode, rows, underWay>>

\* Bull's stalled check on an active job nobody runs any more.
StalledCheck(j) ==
  /\ jobs[j].state = "active"
  /\ \A w \in Workers : worker[w].job # j
  /\ jobs' = [jobs EXCEPT ![j] = Stalled(jobs[j])]
  /\ UNCHANGED <<worker, lock, mode, rows, underWay, faults>>

LockExpires(c) ==
  /\ c \in lock
  /\ LockOutlivesJob => \A w \in Workers : InCritical(w) => Conv(w) # c
  /\ lock' = lock \ {c}
  /\ UNCHANGED <<jobs, worker, mode, rows, underWay, faults>>

-----------------------------------------------------------------------------
Step(w) ==
  \/ CheckMode(w) \/ AcquireLock(w) \/ OpenRun(w) \/ PrepareContext(w) \/ Ask(w)
  \/ StoreReply(w) \/ CompleteRun(w) \/ Recover(w) \/ FailRun(w)
  \/ AddDispatchJob(w) \/ ReleaseLock(w) \/ SettleJob(w)

Next ==
  \/ \E w \in Workers : Step(w) \/ TransferToHuman(w) \/ CallFails(w) \/ Crash(w)
  \/ \E w \in Workers, j \in Job : StartJob(w, j)
  \/ \E j \in Job : AddAgentJob(j) \/ StalledCheck(j)
  \/ \E c \in Conversations : HandOver(c) \/ GiveBack(c) \/ LockExpires(c)

Spec == Init /\ [][Next]_vars

\* A run that has started goes on, a runnable job is taken, stalled jobs are
\* found, Redis keys expire.
Fairness ==
  /\ \A w \in Workers : WF_vars(Step(w))
  /\ \A j \in Job : WF_vars(\E w \in Workers : StartJob(w, j)) /\ WF_vars(StalledCheck(j))
  /\ \A c \in Conversations : WF_vars(LockExpires(c))

FairSpec == Spec /\ Fairness

-----------------------------------------------------------------------------
(* Properties.                                                             *)

\* Queue, workers, rows and counters have the expected shape.
TypeOK ==
  /\ jobs \in [Job -> JobOf({0})]
  /\ worker \in [Workers -> Run]
  /\ lock \subseteq Conversations
  /\ mode \in [Conversations -> {"auto", "manual"}]
  /\ replies \in [Job -> Nat]
  /\ dispatched \in [Job -> Nat]
  /\ runs \in [Job -> [running : Nat, success : Nat, failed : Nat]]
  /\ skipped \subseteq Job
  /\ underWay \subseteq Job
  /\ faults \in 0..MaxFaults

\* The Redis lock does its work as long as no run outlives it: one run at a
\* time asks a provider, and stores the answer, for one conversation.
OneReplyAtATime ==
  \A v, w \in Workers :
    InCritical(v) /\ InCritical(w) /\ Conv(v) = Conv(w) => v = w

\* Providers that fail, fallbacks, retries and contention never answer a message
\* twice: a second reply takes a failed database or Redis call, or a crash.
RepliesNeedFaults == faults = 0 => \A j \in Job : replies[j] <= 1

\* A reply is stored before it is sent, and one that was sent more than once
\* was stored as often.
DispatchedIsStored == \A j \in Job : dispatched[j] <= replies[j]

\* A job Bull calls completed left its reply with the dispatcher, unless an
\* operator had the conversation when it started.
CompletedIsDispatched ==
  \A j \in Job : jobs[j].state = "completed" => dispatched[j] > 0 \/ j \in skipped

\* A job that has settled leaves no agent_runs row "running" behind, except for
\* runs cut short by a failure; and a successful run means a stored reply.
RunsEnd ==
  \A j \in Job :
    /\ Settled(jobs[j]) => runs[j].running <= faults
    /\ runs[j].success <= replies[j]

\* A run of the job has had the key of its conversation.
HasRun(j) == runs[j] # NoRuns \/ \E w \in Workers : InCritical(w) /\ worker[w].job = j

\* What contention may cost: as long as no call fails and nothing crashes, a key
\* is only set while a run of its conversation is at work, and a message that is
\* turned away at it, which costs one of its attempts, is turned away for another
\* message of its conversation: alone it loses attempts to its providers only.
TurnedAwayByOthers ==
  faults = 0 =>
    /\ \A c \in lock : \E w \in Workers : InCritical(w) /\ Conv(w) = c
    /\ \A j \in Job : jobs[j].attempts > runs[j].failed =>
         \E i \in Job \ {j} : ConversationOf[i] = ConversationOf[j] /\ HasRun(i)

\* Once an operator has a conversation, the AI answers in it at most what was
\* past the mode check at that moment, however often jobs are retried.
OnlyUnderWayAnswer ==
  \A w \in Workers :
    Admitted(w) /\ mode[Conv(w)] = "manual" => worker[w].job \in underWay

\* Without tools, which let the AI itself hand a conversation over and say so,
\* it stores no reply in a conversation an operator has.
NoReplyInManualMode ==
  [][~HasTools => \A j \in Job :
       replies'[j] > replies[j] => mode[ConversationOf[j]] = "auto"]_vars

\* An agent job is a piece of work that is tried a bounded number of times, with
\* a reply as its result; it is not wanted when an operator has the conversation.
\* A try may store two replies: when completeAgentRun fails after the first one
\* is stored, a fallback is asked for another.
Work(j) == INSTANCE WorkItem WITH
  Limit <- TryLimit, Patience <- FewestTries, PerTry <- 2,
  status <- Status(jobs[j]), tries <- Tries(jobs[j]),
  results <- replies[j], passed <- dispatched[j], wanted <- j \notin skipped

\* Crashes, stalls, contention, fallbacks and hand-overs included, the pipeline
\* does for every agent job what WorkItem promises.  This is Work(j)!Spec for
\* every j, with the quantifier inside the box.
ImplementsWork ==
  /\ \A j \in Job : Work(j)!Init
  /\ [][\A j \in Job :
          \/ Work(j)!Next
          \/ UNCHANGED <<Status(jobs[j]), Tries(jobs[j]), replies[j], dispatched[j],
                        j \notin skipped>>]_vars

\* Every agent job ends, whatever fails and whoever dies holding the lock.
AgentJobsSettle == \A j \in Job : jobs[j].state = "waiting" ~> Settled(jobs[j])
=============================================================================
