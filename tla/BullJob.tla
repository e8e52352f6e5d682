------------------------------- MODULE BullJob -------------------------------
(***************************************************************************)
(* The life of one job of a Bull queue, as far as the processors of        *)
(* src/src/queue can tell: the queues are an external library, configured  *)
(* in queue.module.ts (attempts, backoff).  A job is a record; each        *)
(* operator is the record after one thing that may happen to it.           *)
(***************************************************************************)
EXTENDS Naturals

CONSTANTS
  MaxAttempts,   \* defaultJobOptions.attempts (3 in queue.module.ts)
  MaxStalls      \* Bull's maxStalledCount (1 by default)

ASSUME BullAssumption ==
  /\ MaxAttempts \in Nat \ {0}
  /\ MaxStalls \in Nat

\* "delayed" is the exponential backoff between two attempts.
JobStates == {"absent", "waiting", "active", "delayed", "completed", "failed"}

JobOf(Data) ==
  [state : JobStates, attempts : 0..MaxAttempts, stalls : 0..MaxStalls, data : Data]

NoJob(d) == [state |-> "absent", attempts |-> 0, stalls |-> 0, data |-> d]

Queued(d) == [state |-> "waiting", attempts |-> 0, stalls |-> 0, data |-> d]

\* queue.add: a job whose id is already known to the queue is not added again,
\* whatever its state, and the caller gets the old id back.
Added(job, d) == IF job.state = "absent" THEN Queued(d) ELSE job

\* Mutant of Runnable: nobody promotes delayed jobs.
RunnableAtOnce(job) == job.state = "waiting"

Runnable(job) == job.state \in {"waiting", "delayed"}

Started(job) == [job EXCEPT !.state = "active"]

Completed(job) == [job EXCEPT !.state = "completed"]

\* The handler threw: one attempt is spent; the last one fails the job.
AttemptFailed(job) ==
  [job EXCEPT !.attempts = job.attempts + 1,
              !.state = IF job.attempts + 1 < MaxAttempts THEN "delayed" ELSE "failed"]

\* The worker is gone and its job lock ran out: a stall does not spend an
\* attempt, and one stall too many fails the job on its own.
Stalled(job) ==
  IF job.stalls < MaxStalls
    THEN [job EXCEPT !.stalls = job.stalls + 1, !.state = "waiting"]
    ELSE [job EXCEPT !.state = "failed"]

\* Mutants of Exhausted: the listener copies every failed attempt, or expects
\* one attempt more than Bull makes.
ExhaustedAtOnce(job) == job.attempts >= 1
ExhaustedTooLate(job) == job.state = "failed" /\ job.attempts > MaxAttempts

\* What the 'failed' listeners of queue.module.ts test before they copy the
\* job to the dead-letter queue.
Exhausted(job) == job.state = "failed" /\ job.attempts >= MaxAttempts

Settled(job) == job.state \in {"completed", "failed"}

-----------------------------------------------------------------------------
(* A job as WorkItem sees it.                                              *)

Status(job) ==
  CASE job.state = "absent" -> "none"
    [] job.state \in {"waiting", "delayed"} -> "waiting"
    [] job.state = "active" -> "trying"
    [] OTHER -> job.state

\* Beside the attempts spent and the stalls: the try under way, the one that
\* completed the job, and the one that stalled once too often.
Tries(job) ==
  job.attempts + job.stalls
  + IF \/ job.state \in {"active", "completed"}
       \/ job.state = "failed" /\ job.attempts < MaxAttempts
      THEN 1 ELSE 0

TryLimit == MaxAttempts + MaxStalls

\* Attempts may run out first, or stalls.
FewestTries == IF MaxAttempts <= MaxStalls THEN MaxAttempts ELSE MaxStalls + 1
=============================================================================
