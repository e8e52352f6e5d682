--------------------------- MODULE CircuitBreaker ---------------------------
(***************************************************************************)
(* ProviderCircuitBreakerService for one key, that is one provider of one  *)
(* client: the state in Redis, the copy in the memory of every instance,   *)
(* and the calls of OrchestrationService around it.  Reading a state and   *)
(* writing it back are separate steps; a Redis call that fails is          *)
(* swallowed, and the copy in memory is used instead.                      *)
(***************************************************************************)
EXTENDS Naturals, FiniteSets

CONSTANTS
  Instances,    \* API processes
  Callers,      \* processMessage runs that may be under way at a time
  InstanceOf,   \* [Callers -> Instances]
  Threshold,    \* failureThreshold (3)
  Cooldown,     \* cooldownPeriodMs, in ticks
  HasFallback,  \* TRUE: resolveFallback finds another provider
  None,
  MaxTime,      \* ticks in one behaviour
  MaxCalls,     \* calls of the provider in one behaviour
  MaxFaults     \* Redis calls that fail and keys that expire in one behaviour

ASSUME CircuitAssumption ==
  /\ InstanceOf \in [Callers -> Instances]
  /\ Threshold \in Nat \ {0} /\ Cooldown \in Nat \ {0}
  /\ HasFallback \in BOOLEAN
  /\ MaxTime \in Nat /\ MaxCalls \in Nat /\ MaxFaults \in Nat

\* CircuitInfo; next is nextAttemptTime, 0 when undefined.
CircuitInfo ==
  [state : {"CLOSED", "OPEN", "HALF_OPEN"}, consecutiveFailures : Nat, next : Nat]

ASSUME NoneAssumption == None \notin CircuitInfo

VARIABLES
  redis,        \* the value of the key, None when it is not set
  memory,       \* inMemoryState of each instance
  caller,       \* the local variables of each run
  now,
  streak,       \* failures written to Redis since the last success
  overwritten,  \* TRUE: a failure was written that had not seen the last record
  calls,
  faults

vars == <<redis, memory, caller, now, streak, overwritten, calls, faults>>

Closed == [state |-> "CLOSED", consecutiveFailures |-> 0, next |-> 0]

Idle == [pc |-> "idle", limited |-> FALSE, updated |-> Closed, stale |-> FALSE]

\* "failure" is before recordFailure has read, "persist" before persistState;
\* stale: the key was written since recordFailure read it.
Run ==
  [pc : {"idle", "call", "failure", "success", "persist", "memory"},
   limited : BOOLEAN, updated : CircuitInfo, stale : BOOLEAN]

Init ==
  /\ redis = None
  /\ memory = [i \in Instances |-> Closed]
  /\ caller = [c \in Callers |-> Idle]
  /\ now = 1
  /\ streak = 0
  /\ overwritten = FALSE
  /\ calls = 0
  /\ faults = 0

At(c, pc) == caller[c].pc = pc

Becomes(c, run) == caller' = [caller EXCEPT ![c] = run]

Goto(c, pc) == Becomes(c, [caller[c] EXCEPT !.pc = pc])

CanFail == faults < MaxFaults

-----------------------------------------------------------------------------
(* getState and what is computed from it.                                  *)

\* An OPEN circuit without a next attempt stays open.
evaluateState(info) ==
  IF info.state = "OPEN" /\ info.next # 0 /\ now >= info.next
    THEN [info EXCEPT !.state = "HALF_OPEN"]
    ELSE info

Local(c) == evaluateState(memory[InstanceOf[c]])

Stored(c) == IF redis = None THEN Local(c) ELSE evaluateState(redis)

\* A read of the key succeeds, or fails and the memory of the instance answers.
Reads(c, info) ==
  \/ info = Stored(c) /\ UNCHANGED faults
  \/ CanFail /\ info = Local(c) /\ faults' = faults + 1

canExecute(info) == info.state # "OPEN"

\* Mutant of Opens: one failure too late.
OpensLate(info, limited) == info.consecutiveFailures + 1 > Threshold \/ limited

Opens(info, limited) == info.consecutiveFailures + 1 >= Threshold \/ limited

\* Mutant of Updated: a rate limit opens the circuit for good.
UpdatedWithoutTime(info, limited) ==
  [state |-> IF Opens(info, limited) THEN "OPEN" ELSE info.state,
   consecutiveFailures |-> info.consecutiveFailures + 1,
   next |-> IF Opens(info, limited) /\ ~limited THEN now + Cooldown ELSE info.next]

\* Mutant of Updated: the state starts from CLOSED instead of the current one.
UpdatedAfresh(info, limited) ==
  [state |-> IF Opens(info, limited) THEN "OPEN" ELSE "CLOSED",
   consecutiveFailures |-> info.consecutiveFailures + 1,
   next |-> IF Opens(info, limited) THEN now + Cooldown ELSE info.next]

\* What recordFailure makes of the state it read.
Updated(info, limited) ==
  [state |-> IF Opens(info, limited) THEN "OPEN" ELSE info.state,
   consecutiveFailures |-> info.consecutiveFailures + 1,
   next |-> IF Opens(info, limited) THEN now + Cooldown ELSE info.next]

-----------------------------------------------------------------------------
(* OrchestrationService.processMessage and the two record operations.      *)

\* canExecute: an open circuit sends the run to a fallback, but without one the
\* provider is called all the same.
Check(c) ==
  /\ At(c, "idle")
  /\ calls < MaxCalls
  /\ \E info \in {Stored(c), Local(c)} :
       /\ Reads(c, info)
       /\ canExecute(info) \/ ~HasFallback
  /\ calls' = calls + 1
  /\ Goto(c, "call")
  /\ UNCHANGED <<redis, memory, now, streak, overwritten>>

\* The provider answers, fails, or fails with a rate limit.
Call(c) ==
  /\ At(c, "call")
  /\ \/ Goto(c, "success")
     \/ \E limited \in BOOLEAN :
          Becomes(c, [caller[c] EXCEPT !.pc = "failure", !.limited = limited])
  /\ UNCHANGED <<redis, memory, now, streak, overwritten, calls, faults>>

ReadState(c) ==
  /\ At(c, "failure")
  /\ \E info \in {Stored(c), Local(c)} :
       /\ Reads(c, info)
       /\ Becomes(c, [caller[c] EXCEPT !.pc = "persist",
                                       !.updated = Updated(info, caller[c].limited)])
  /\ UNCHANGED <<redis, memory, now, streak, overwritten, calls>>

\* Everyone who read the key before it is written holds a stale state.
Outdates(c, run) ==
  caller' = [d \in Callers |->
               IF d = c THEN run
               ELSE IF At(d, "persist") THEN [caller[d] EXCEPT !.stale = TRUE]
               ELSE caller[d]]

\* persistState of recordFailure and of recordSuccess, which reads nothing.
PersistFailure(c) ==
  /\ At(c, "persist")
  /\ redis' = caller[c].updated
  /\ streak' = streak + 1
  /\ overwritten' = (overwritten \/ caller[c].stale)
  /\ Outdates(c, [caller[c] EXCEPT !.pc = "memory"])
  /\ UNCHANGED <<memory, now, calls, faults>>

PersistSuccess(c) ==
  /\ At(c, "success")
  /\ redis' = Closed
  /\ streak' = 0
  /\ Outdates(c, [Idle EXCEPT !.pc = "memory"])
  /\ UNCHANGED <<memory, now, overwritten, calls, faults>>

\* persistState swallows the error.
PersistFails(c) ==
  /\ CanFail
  /\ faults' = faults + 1
  /\ \/ At(c, "persist") /\ Goto(c, "memory")
     \/ At(c, "success") /\ Becomes(c, [Idle EXCEPT !.pc = "memory"])
  /\ UNCHANGED <<redis, memory, now, streak, overwritten, calls>>

SetMemory(c) ==
  /\ At(c, "memory")
  /\ memory' = [memory EXCEPT ![InstanceOf[c]] = caller[c].updated]
  /\ Becomes(c, Idle)
  /\ UNCHANGED <<redis, now, streak, overwritten, calls, faults>>

-----------------------------------------------------------------------------
Tick ==
  /\ now < MaxTime
  /\ now' = now + 1
  /\ UNCHANGED <<redis, memory, caller, streak, overwritten, calls, faults>>

\* The key is set with a time to live of a day, or is evicted.
KeyExpires ==
  /\ CanFail
  /\ redis # None
  /\ redis' = None
  /\ faults' = faults + 1
  /\ UNCHANGED <<memory, caller, now, streak, overwritten, calls>>

Step(c) ==
  \/ Check(c) \/ Call(c) \/ ReadState(c) \/ PersistFailure(c) \/ PersistSuccess(c)
  \/ PersistFails(c) \/ SetMemory(c)

Next == Tick \/ KeyExpires \/ \E c \in Callers : Step(c)

Spec == Init /\ [][Next]_vars

-----------------------------------------------------------------------------
(* Properties.                                                             *)

\* The key, the copies and the local variables have the expected shape.
TypeOK ==
  /\ redis \in CircuitInfo \cup {None}
  /\ memory \in [Instances -> CircuitInfo]
  /\ caller \in [Callers -> Run]
  /\ now \in 1..(MaxTime + 1)
  /\ streak \in Nat
  /\ overwritten \in BOOLEAN
  /\ calls \in 0..MaxCalls
  /\ faults \in 0..MaxFaults

\* As long as no record was written over one it had not seen, and Redis works,
\* the key counts the failures since the last success, over all instances, and
\* the circuit is open from the third one on.
FailuresAreCounted ==
  faults = 0 /\ ~overwritten /\ redis # None =>
    /\ redis.consecutiveFailures = streak
    /\ streak >= Threshold => redis.state = "OPEN"

\* No copy, nor one about to be written, is open for longer than the cooldown
\* from now: whatever is lost or overwritten, the provider gets another chance.
NeverShutForGood ==
  \A info \in ({redis} \ {None}) \cup {memory[i] : i \in Instances}
              \cup {caller[c].updated : c \in Callers} :
    info.state = "OPEN" => info.next \in 1..(now + Cooldown)

\* Unless Redis fails, only a success closes the key of an open circuit, or a
\* failure that had read the state before the circuit opened.
OnlySuccessCloses ==
  [][redis # None /\ redis' # None /\ redis.state # "CLOSED" /\ redis'.state = "CLOSED" =>
       \/ faults > 0
       \/ \E c \in Callers : /\ At(c, "success") \/ (At(c, "persist") /\ caller[c].stale)
                             /\ ~At(c, "memory") /\ At(c, "memory")']_vars
=============================================================================
