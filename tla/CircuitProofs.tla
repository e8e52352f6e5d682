---------------------------- MODULE CircuitProofs ----------------------------
(***************************************************************************)
(* Proofs about CircuitBreaker, for any number of instances, runs, calls   *)
(* and Redis failures, and any threshold and cooldown.                     *)
(***************************************************************************)
EXTENDS CircuitBreaker, TLAPS

\* An OPEN state says when it ends, and that is at most a cooldown away.
Timed(info) == info.state = "OPEN" => info.next \in 1..(now + Cooldown)

AllTimed ==
  /\ redis # None => Timed(redis)
  /\ \A i \in Instances : Timed(memory[i])
  /\ \A c \in Callers : Timed(caller[c].updated)

\* A failure about to be written has counted every record so far.
UpToDate(c) ==
  At(c, "persist") /\ ~caller[c].stale =>
    /\ caller[c].updated.consecutiveFailures = streak + 1
    /\ streak + 1 >= Threshold => caller[c].updated.state = "OPEN"

\* FailuresAreCounted, strengthened by what is known before the first record
\* and by what runs are about to write.
CountInv ==
  faults = 0 /\ ~overwritten =>
    /\ redis = None =>
         /\ streak = 0
         /\ \A i \in Instances : memory[i] = Closed
         /\ \A c \in Callers : ~At(c, "memory")
    /\ redis # None =>
         /\ redis.consecutiveFailures = streak
         /\ streak >= Threshold => redis.state = "OPEN"
    /\ \A c \in Callers : UpToDate(c)

\* A failure that saw the latest record does not close what is not closed.
CloseInv ==
  faults = 0 => \A c \in Callers :
    At(c, "persist") /\ ~caller[c].stale /\ redis # None /\ redis.state # "CLOSED"
      => caller[c].updated.state # "CLOSED"

-----------------------------------------------------------------------------
\* getState: evaluating a state keeps its type, its count and its timing, and
\* does not close it.
LEMMA Evaluating ==
  ASSUME TypeOK, NEW info \in CircuitInfo
  PROVE  /\ evaluateState(info) \in CircuitInfo
         /\ evaluateState(info).consecutiveFailures = info.consecutiveFailures
         /\ Timed(info) => Timed(evaluateState(info))
         /\ info.state # "CLOSED" => evaluateState(info).state # "CLOSED"
  BY CircuitAssumption DEF evaluateState, CircuitInfo, Timed, TypeOK

\* recordFailure: what it makes of a state has one failure more, is open from
\* the threshold on, is timed, and is only closed if the state was.
LEMMA Updating ==
  ASSUME TypeOK, NEW info \in CircuitInfo, NEW limited \in BOOLEAN
  PROVE  /\ Updated(info, limited) \in CircuitInfo
         /\ Updated(info, limited).consecutiveFailures = info.consecutiveFailures + 1
         /\ info.consecutiveFailures + 1 >= Threshold => Updated(info, limited).state = "OPEN"
         /\ Timed(info) => Timed(Updated(info, limited))
         /\ info.state # "CLOSED" => Updated(info, limited).state # "CLOSED"
  BY CircuitAssumption DEF Updated, Opens, CircuitInfo, Timed, TypeOK

\* getState: whatever answers, Redis or the memory, is a CircuitInfo, timed if
\* all copies are.
LEMMA Reading ==
  ASSUME TypeOK, NEW c \in Callers
  PROVE  /\ Stored(c) \in CircuitInfo /\ Local(c) \in CircuitInfo
         /\ AllTimed => Timed(Stored(c)) /\ Timed(Local(c))
         /\ redis # None => Stored(c).consecutiveFailures = redis.consecutiveFailures
         /\ redis # None /\ redis.state # "CLOSED" => Stored(c).state # "CLOSED"
         /\ redis = None => Stored(c) = Local(c)
<1>1. memory[InstanceOf[c]] \in CircuitInfo /\ InstanceOf[c] \in Instances
  BY CircuitAssumption DEF TypeOK
<1>2. redis # None => redis \in CircuitInfo
  BY DEF TypeOK
<1>3. /\ Local(c) \in CircuitInfo
      /\ AllTimed => Timed(Local(c))
  BY <1>1, Evaluating DEF Local, AllTimed
<1>4. CASE redis = None
  BY <1>3, <1>4 DEF Stored
<1>5. CASE redis # None
  <2>1. Stored(c) = evaluateState(redis)
    BY <1>5 DEF Stored
  <2> QED BY <1>2, <1>3, <1>5, <2>1, Evaluating DEF AllTimed
<1> QED BY <1>4, <1>5

\* The closed state of recordSuccess and of a missing key.
LEMMA ClosedIsInfo ==
  Closed \in CircuitInfo /\ Closed.state = "CLOSED" /\ Closed.consecutiveFailures = 0
  BY DEF Closed, CircuitInfo

-----------------------------------------------------------------------------
(* Type correctness.                                                       *)

\* No step of the breaker or of a run leaves the types.
LEMMA TypeStep == TypeOK /\ [Next]_vars => TypeOK'
<1> SUFFICES ASSUME TypeOK, [Next]_vars PROVE TypeOK'
  OBVIOUS
<1> USE CircuitAssumption, ClosedIsInfo
<1>1. Idle \in Run
  BY DEF Idle, Run
<1>2. ASSUME NEW c \in Callers, Check(c) PROVE TypeOK'
  BY <1>2 DEF TypeOK, Check, Reads, CanFail, Goto, Becomes, Run, At
<1>3. ASSUME NEW c \in Callers, Call(c) PROVE TypeOK'
  <2>1. caller[c] \in Run
    BY DEF TypeOK
  <2>2. [caller[c] EXCEPT !.pc = "success"] \in Run
    BY <2>1 DEF Run
  <2>3. \A limited \in BOOLEAN :
          [caller[c] EXCEPT !.pc = "failure", !.limited = limited] \in Run
    BY <2>1 DEF Run
  <2>4. caller' \in [Callers -> Run]
    BY <1>3, <2>2, <2>3 DEF Call, Goto, Becomes, TypeOK
  <2> QED BY <1>3, <2>4 DEF TypeOK, Call
<1>4. ASSUME NEW c \in Callers, ReadState(c) PROVE TypeOK'
  <2>1. PICK info \in {Stored(c), Local(c)} :
          /\ Reads(c, info)
          /\ Becomes(c, [caller[c] EXCEPT !.pc = "persist",
                                          !.updated = Updated(info, caller[c].limited)])
    BY <1>4 DEF ReadState
  <2>2. info \in CircuitInfo /\ caller[c] \in Run
    BY <2>1, Reading DEF TypeOK
  <2>3. Updated(info, caller[c].limited) \in CircuitInfo
    BY <2>2, Updating DEF Run
  <2>4. caller' \in [Callers -> Run]
    BY <2>1, <2>2, <2>3 DEF Becomes, Run, TypeOK
  <2> QED BY <1>4, <2>1, <2>4 DEF TypeOK, ReadState, Reads, CanFail
<1>5. ASSUME NEW c \in Callers, NEW run \in Run, Outdates(c, run)
      PROVE  caller' \in [Callers -> Run]
  BY <1>5 DEF Outdates, TypeOK, Run, At
<1>6. ASSUME NEW c \in Callers, PersistFailure(c) PROVE TypeOK'
  <2>1. [caller[c] EXCEPT !.pc = "memory"] \in Run /\ caller[c].updated \in CircuitInfo
    BY DEF TypeOK, Run
  <2>2. caller' \in [Callers -> Run]
    BY <1>5, <1>6, <2>1 DEF PersistFailure
  <2>3. caller[c].stale \in BOOLEAN
    BY DEF TypeOK, Run
  <2> QED BY <1>6, <2>1, <2>2, <2>3 DEF TypeOK, PersistFailure
<1>7. ASSUME NEW c \in Callers, PersistSuccess(c) PROVE TypeOK'
  <2>1. [Idle EXCEPT !.pc = "memory"] \in Run
    BY <1>1 DEF Run
  <2>2. caller' \in [Callers -> Run]
    BY <1>5, <1>7, <2>1 DEF PersistSuccess
  <2> QED BY <1>7, <2>2 DEF TypeOK, PersistSuccess
<1>8. ASSUME NEW c \in Callers, PersistFails(c) PROVE TypeOK'
  <2>1. [Idle EXCEPT !.pc = "memory"] \in Run
    BY <1>1 DEF Run
  <2>2. [caller[c] EXCEPT !.pc = "memory"] \in Run
    BY DEF TypeOK, Run
  <2>3. caller' \in [Callers -> Run]
    BY <1>8, <2>1, <2>2 DEF PersistFails, Goto, Becomes, TypeOK
  <2> QED BY <1>8, <2>3 DEF TypeOK, PersistFails, CanFail
<1>9. ASSUME NEW c \in Callers, SetMemory(c) PROVE TypeOK'
  BY <1>1, <1>9 DEF TypeOK, SetMemory, Becomes, Run
<1>10. CASE Tick
  BY <1>10 DEF TypeOK, Tick
<1>11. CASE KeyExpires
  BY <1>11 DEF TypeOK, KeyExpires, CanFail
<1>12. CASE UNCHANGED vars
  BY <1>12 DEF TypeOK, vars
<1> QED
  BY <1>2, <1>3, <1>4, <1>6, <1>7, <1>8, <1>9, <1>10, <1>11, <1>12 DEF Next, Step

\* The initial state is of the types.
LEMMA TypeInit == Init => TypeOK
<1> SUFFICES ASSUME Init PROVE TypeOK
  OBVIOUS
<1>1. Idle \in Run
  BY ClosedIsInfo DEF Idle, Run
<1>2. memory \in [Instances -> CircuitInfo] /\ caller \in [Callers -> Run]
  BY <1>1, ClosedIsInfo DEF Init
<1>3. now \in 1..(MaxTime + 1) /\ calls \in 0..MaxCalls /\ faults \in 0..MaxFaults
  BY CircuitAssumption DEF Init
<1> QED BY <1>2, <1>3 DEF Init, TypeOK

\* Type correctness of the circuit breaker.
THEOREM TypeCorrect == Spec => []TypeOK
  BY TypeInit, TypeStep, PTL DEF Spec

-----------------------------------------------------------------------------
(* No copy is open beyond its cooldown.                                    *)

\* Every step keeps all copies timed: time passes, and only Updated opens.
LEMMA TimedStep == TypeOK /\ AllTimed /\ [Next]_vars => AllTimed'
<1> SUFFICES ASSUME TypeOK, AllTimed, [Next]_vars PROVE AllTimed'
  OBVIOUS
<1>1. /\ TypeOK' /\ now \in Nat /\ now' \in Nat /\ Cooldown \in Nat
      /\ redis # None => redis \in CircuitInfo
      /\ \A i \in Instances : memory[i] \in CircuitInfo
      /\ \A c \in Callers : caller[c] \in Run /\ caller[c].updated \in CircuitInfo
  BY TypeStep, CircuitAssumption DEF TypeOK, Run
<1>2. Timed(Closed)' /\ Timed(Idle.updated)' /\ Idle.updated = Closed
  BY DEF Timed, Closed, Idle
<1>3. ASSUME now' = now, NEW info, Timed(info) PROVE Timed(info)'
  BY <1>3 DEF Timed
<1>4. ASSUME NEW c \in Callers, Check(c) \/ Call(c) PROVE AllTimed'
  <2>1. UNCHANGED <<redis, memory, now>>
    BY <1>4 DEF Check, Call
  <2>2. \A d \in Callers : caller'[d].updated = caller[d].updated
    <3>1. CASE Check(c)
      BY <1>1, <3>1 DEF Check, Goto, Becomes, TypeOK, Run
    <3>2. CASE Call(c)
      <4>1. PICK run : /\ caller' = [caller EXCEPT ![c] = run]
                       /\ run.updated = caller[c].updated
        BY <1>1, <3>2 DEF Call, Goto, Becomes, Run
      <4> QED BY <1>1, <4>1 DEF TypeOK
    <3> QED BY <1>4, <3>1, <3>2
  <2> QED BY <2>1, <2>2 DEF AllTimed, Timed
<1>5. ASSUME NEW c \in Callers, ReadState(c) PROVE AllTimed'
  <2>1. PICK info \in {Stored(c), Local(c)} :
          Becomes(c, [caller[c] EXCEPT !.pc = "persist",
                                       !.updated = Updated(info, caller[c].limited)])
    BY <1>5 DEF ReadState
  <2>2. info \in CircuitInfo /\ Timed(info) /\ caller[c].limited \in BOOLEAN
    BY <1>1, <2>1, Reading DEF Run
  <2>3. Timed(Updated(info, caller[c].limited))
    BY <2>2, Updating
  <2>4. /\ caller'[c].updated = Updated(info, caller[c].limited)
        /\ \A d \in Callers \ {c} : caller'[d] = caller[d]
    BY <1>1, <2>1 DEF Becomes, TypeOK, Run
  <2>5. \A d \in Callers : Timed(caller'[d].updated)
    BY <2>3, <2>4 DEF AllTimed
  <2> QED BY <1>5, <2>5 DEF ReadState, AllTimed, Timed
<1>6. ASSUME NEW c \in Callers, PersistFailure(c) PROVE AllTimed'
  <2>1. /\ redis' = caller[c].updated /\ UNCHANGED <<memory, now>>
        /\ \A d \in Callers : caller'[d].updated = caller[d].updated
    BY <1>1, <1>6 DEF PersistFailure, Outdates, TypeOK, Run
  <2> QED BY <2>1 DEF AllTimed, Timed
<1>7. ASSUME NEW c \in Callers, PersistSuccess(c) PROVE AllTimed'
  <2>1. /\ redis' = Closed /\ UNCHANGED <<memory, now>>
        /\ \A d \in Callers : caller'[d].updated \in {caller[d].updated, Closed}
    BY <1>1, <1>7 DEF PersistSuccess, Outdates, TypeOK, Run, Idle
  <2>3. \A info : info = Closed => info.state # "OPEN"
    BY ClosedIsInfo
  <2> QED BY <2>1, <2>3 DEF AllTimed, Timed
<1>8. ASSUME NEW c \in Callers, PersistFails(c) PROVE AllTimed'
  <2>1. /\ UNCHANGED <<redis, memory, now>>
        /\ \A d \in Callers : caller'[d].updated \in {caller[d].updated, Closed}
    BY <1>1, <1>8 DEF PersistFails, Goto, Becomes, TypeOK, Run, Idle
  <2>2. \A info : info = Closed => info.state # "OPEN"
    BY ClosedIsInfo
  <2> QED BY <2>1, <2>2 DEF AllTimed, Timed
<1>9. ASSUME NEW c \in Callers, SetMemory(c) PROVE AllTimed'
  <2>1. /\ UNCHANGED <<redis, now>>
        /\ \A d \in Callers : caller'[d].updated \in {caller[d].updated, Closed}
        /\ \A i \in Instances : memory'[i] \in {memory[i], caller[c].updated}
    BY <1>1, <1>9 DEF SetMemory, Becomes, TypeOK, Run, Idle
  <2>2. \A info : info = Closed => info.state # "OPEN"
    BY ClosedIsInfo
  <2> QED BY <2>1, <2>2 DEF AllTimed, Timed
<1>10. CASE Tick
  <2>1. now' = now + 1 /\ UNCHANGED <<redis, memory, caller>>
    BY <1>10 DEF Tick
  <2>2. /\ redis # None => redis.next \in Nat
        /\ \A i \in Instances : memory[i].next \in Nat
        /\ \A c \in Callers : caller[c].updated.next \in Nat
    BY <1>1 DEF CircuitInfo
  <2> QED BY <1>1, <2>1, <2>2 DEF AllTimed, Timed
<1>11. CASE KeyExpires
  BY <1>11 DEF KeyExpires, AllTimed, Timed
<1>12. CASE UNCHANGED vars
  BY <1>12 DEF vars, AllTimed, Timed
<1> QED
  BY <1>4, <1>5, <1>6, <1>7, <1>8, <1>9, <1>10, <1>11, <1>12 DEF Next, Step

\* Whatever Redis loses or records overwrite, no copy stays open for longer
\* than the cooldown, so the provider always gets another chance.
THEOREM AnotherChance == Spec => []NeverShutForGood
<1>1. Init => AllTimed
  BY CircuitAssumption, ClosedIsInfo DEF Init, AllTimed, Timed, Idle
<1>2. AllTimed => NeverShutForGood
  BY DEF AllTimed, Timed, NeverShutForGood
<1> QED BY <1>1, <1>2, TypeInit, TypeStep, TimedStep, PTL DEF Spec

-----------------------------------------------------------------------------
(* Failures are counted, and open circuits are closed by successes.        *)

\* What a step does to the local variables of the runs, apart from reading:
\* nobody else enters "persist" or "memory", and stale runs stay stale.
LEMMA Others ==
  ASSUME TypeOK, NEW c \in Callers, NEW run, Outdates(c, run), run.pc = "memory",
         NEW d \in Callers
  PROVE  /\ (At(d, "persist")' => caller'[d].stale)
         /\ (At(d, "memory")' => d = c \/ At(d, "memory"))
<1>1. CASE d = c
  BY <1>1 DEF Outdates, At
<1>2. CASE d # c /\ At(d, "persist")
  BY <1>2 DEF Outdates, At, TypeOK, Run
<1>3. CASE d # c /\ ~At(d, "persist")
  BY <1>3 DEF Outdates, At
<1> QED BY <1>1, <1>2, <1>3

\* Every step keeps the count exact until a record is overwritten.
LEMMA CountStep == TypeOK /\ CountInv /\ [Next]_vars => CountInv'
<1> SUFFICES ASSUME TypeOK, CountInv, [Next]_vars, faults' = 0, ~overwritten'
             PROVE  /\ redis' = None =>
                         /\ streak' = 0
                         /\ \A i \in Instances : memory'[i] = Closed
                         /\ \A c \in Callers : ~At(c, "memory")'
                    /\ redis' # None =>
                         /\ redis'.consecutiveFailures = streak'
                         /\ streak' >= Threshold => redis'.state = "OPEN"
                    /\ \A c \in Callers : UpToDate(c)'
  BY DEF CountInv
<1>1. /\ redis # None => redis \in CircuitInfo
      /\ \A c \in Callers : caller[c] \in Run
      /\ streak \in Nat /\ faults \in Nat /\ Threshold \in Nat \ {0}
      /\ \A c \in Callers : InstanceOf[c] \in Instances
      /\ None \notin CircuitInfo
  BY CircuitAssumption, NoneAssumption DEF TypeOK
<1>2. faults = 0 /\ ~overwritten
  <2>1. ASSUME NEW c \in Callers, Step(c) PROVE faults = 0 /\ ~overwritten
    <3>1. faults' \in {faults, faults + 1}
      BY <2>1 DEF Step, Check, Call, ReadState, Reads, PersistFailure, PersistSuccess,
                  PersistFails, SetMemory
    <3>2. overwritten => overwritten'
      BY <2>1 DEF Step, Check, Call, ReadState, PersistFailure, PersistSuccess,
                  PersistFails, SetMemory
    <3> QED BY <1>1, <3>1, <3>2
  <2>2. CASE Tick \/ KeyExpires \/ UNCHANGED vars
    BY <1>1, <2>2 DEF Tick, KeyExpires, vars, CanFail
  <2> QED BY <2>1, <2>2 DEF Next
<1>3. /\ redis = None =>
           /\ streak = 0
           /\ \A i \in Instances : memory[i] = Closed
           /\ \A c \in Callers : ~At(c, "memory")
      /\ redis # None =>
           /\ redis.consecutiveFailures = streak
           /\ streak >= Threshold => redis.state = "OPEN"
      /\ \A c \in Callers : UpToDate(c)
  BY <1>2 DEF CountInv
<1>4. ASSUME NEW c \in Callers, Check(c) \/ Call(c) PROVE CountInv'
  <2>1. UNCHANGED <<redis, memory, streak>>
    BY <1>4 DEF Check, Call
  <2>2. ~At(c, "persist")' /\ ~At(c, "memory")'
    <3>1. CASE Check(c)
      BY <3>1 DEF Check, Goto, Becomes, At, TypeOK
    <3>2. CASE Call(c)
      <4>1. PICK run : Becomes(c, run) /\ run.pc \in {"success", "failure"}
        <5>1. CASE Goto(c, "success")
          <6>1. [caller[c] EXCEPT !.pc = "success"].pc = "success"
            BY <1>1 DEF Run
          <6> QED BY <5>1, <6>1 DEF Goto
        <5>2. ASSUME NEW limited \in BOOLEAN,
                     Becomes(c, [caller[c] EXCEPT !.pc = "failure", !.limited = limited])
              PROVE  \E run : Becomes(c, run) /\ run.pc \in {"success", "failure"}
          <6>1. [caller[c] EXCEPT !.pc = "failure", !.limited = limited].pc = "failure"
            BY <1>1 DEF Run
          <6> QED BY <5>2, <6>1
        <5> QED BY <3>2, <5>1, <5>2 DEF Call
      <4> QED BY <4>1 DEF Becomes, At, TypeOK
    <3> QED BY <1>4, <3>1, <3>2
  <2>3. \A d \in Callers \ {c} : caller'[d] = caller[d]
    BY <1>4 DEF Check, Call, Goto, Becomes, TypeOK
  <2> QED BY <1>3, <2>1, <2>2, <2>3 DEF CountInv, UpToDate, At
<1>5. ASSUME NEW c \in Callers, ReadState(c) PROVE CountInv'
  <2>1. PICK info \in {Stored(c), Local(c)} :
          /\ Reads(c, info)
          /\ Becomes(c, [caller[c] EXCEPT !.pc = "persist",
                                          !.updated = Updated(info, caller[c].limited)])
    BY <1>5 DEF ReadState
  <2>2. info = Stored(c)
    BY <1>1, <1>2, <2>1 DEF Reads
  <2>3. Stored(c) \in CircuitInfo /\ Stored(c).consecutiveFailures = streak
    <3>1. CASE redis # None
      BY <1>3, <3>1, Reading
    <3>2. CASE redis = None
      BY <1>1, <1>3, <3>2, Reading, ClosedIsInfo, Evaluating DEF Local
    <3> QED BY <3>1, <3>2
  <2>4. /\ Updated(info, caller[c].limited).consecutiveFailures = streak + 1
        /\ streak + 1 >= Threshold => Updated(info, caller[c].limited).state = "OPEN"
    BY <1>1, <2>2, <2>3, Updating DEF Run
  <2>5. /\ caller'[c].updated = Updated(info, caller[c].limited)
        /\ caller'[c].pc = "persist"
        /\ \A d \in Callers \ {c} : caller'[d] = caller[d]
    BY <1>1, <2>1 DEF Becomes, TypeOK, Run
  <2>6. UNCHANGED <<redis, memory, streak>>
    BY <1>5 DEF ReadState
  <2>7. \A d \in Callers : UpToDate(d)'
    BY <1>3, <2>4, <2>5, <2>6 DEF UpToDate, At
  <2> QED BY <1>3, <2>5, <2>6, <2>7 DEF CountInv, At
<1>6. ASSUME NEW c \in Callers, PersistFailure(c) PROVE CountInv'
  <2>1. /\ redis' = caller[c].updated /\ streak' = streak + 1
        /\ At(c, "persist") /\ ~caller[c].stale
    BY <1>6 DEF PersistFailure
  <2>2. redis' # None
    BY <1>1, <2>1 DEF Run
  <2>3. /\ redis'.consecutiveFailures = streak'
        /\ streak' >= Threshold => redis'.state = "OPEN"
    BY <1>3, <2>1 DEF UpToDate
  <2>4. \A d \in Callers : At(d, "persist")' => caller'[d].stale
    <3>1. Outdates(c, [caller[c] EXCEPT !.pc = "memory"])
      BY <1>6 DEF PersistFailure
    <3>2. [caller[c] EXCEPT !.pc = "memory"].pc = "memory"
      BY <1>1 DEF Run
    <3> QED BY <3>1, <3>2, Others
  <2> QED BY <2>2, <2>3, <2>4 DEF CountInv, UpToDate
<1>7. ASSUME NEW c \in Callers, PersistSuccess(c) PROVE CountInv'
  <2>1. redis' = Closed /\ streak' = 0
    BY <1>7 DEF PersistSuccess
  <2>2. redis' # None /\ redis'.consecutiveFailures = 0
    BY <1>1, <2>1, ClosedIsInfo
  <2>3. \A d \in Callers : At(d, "persist")' => caller'[d].stale
    <3>1. Outdates(c, [Idle EXCEPT !.pc = "memory"])
      BY <1>7 DEF PersistSuccess
    <3>2. [Idle EXCEPT !.pc = "memory"].pc = "memory"
      BY DEF Idle
    <3> QED BY <3>1, <3>2, Others
  <2> QED BY <1>1, <2>1, <2>2, <2>3 DEF CountInv, UpToDate
<1>8. ASSUME NEW c \in Callers, PersistFails(c) PROVE CountInv'
  BY <1>1, <1>2, <1>8 DEF PersistFails
<1>9. ASSUME NEW c \in Callers, SetMemory(c) PROVE CountInv'
  <2>1. redis # None /\ UNCHANGED <<redis, streak>>
    BY <1>3, <1>9 DEF SetMemory
  <2>2. ~At(c, "persist")' /\ \A d \in Callers \ {c} : caller'[d] = caller[d]
    BY <1>9 DEF SetMemory, Becomes, Idle, At, TypeOK
  <2> QED BY <1>3, <2>1, <2>2 DEF CountInv, UpToDate, At
<1>10. CASE Tick \/ UNCHANGED vars
  BY <1>3, <1>10 DEF Tick, vars, CountInv, UpToDate, At
<1>11. CASE KeyExpires
  BY <1>1, <1>2, <1>11 DEF KeyExpires
<1> QED
  BY <1>4, <1>5, <1>6, <1>7, <1>8, <1>9, <1>10, <1>11 DEF Next, Step, CountInv

\* As long as records do not overlap and Redis works, the third failure in a
\* row opens the circuit, whichever instances and runs report them.
THEOREM Counting == Spec => []FailuresAreCounted
<1>1. Init => CountInv
  BY DEF Init, CountInv, UpToDate, At, Idle
<1>2. CountInv => FailuresAreCounted
  BY DEF CountInv, FailuresAreCounted
<1> QED BY <1>1, <1>2, TypeInit, TypeStep, CountStep, PTL DEF Spec

\* Every step keeps up-to-date failures from closing the circuit.
LEMMA CloseStep == TypeOK /\ CloseInv /\ [Next]_vars => CloseInv'
<1> SUFFICES ASSUME TypeOK, CloseInv, [Next]_vars, faults' = 0,
                    NEW d \in Callers, At(d, "persist")', ~caller'[d].stale,
                    redis' # None, redis'.state # "CLOSED"
             PROVE  caller'[d].updated.state # "CLOSED"
  BY DEF CloseInv
<1>1. /\ \A c \in Callers : caller[c] \in Run
      /\ faults \in Nat
  BY DEF TypeOK
<1>2. faults = 0
  <2>1. faults' \in {faults, faults + 1}
    BY DEF Next, Step, Check, Call, ReadState, Reads, PersistFailure, PersistSuccess,
           PersistFails, SetMemory, Tick, KeyExpires, vars
  <2> QED BY <1>1, <2>1
<1>3. ASSUME At(d, "persist"), ~caller[d].stale, redis # None, redis.state # "CLOSED"
      PROVE  caller[d].updated.state # "CLOSED"
  BY <1>2, <1>3 DEF CloseInv
<1>4. ASSUME NEW c \in Callers, Check(c) \/ Call(c) PROVE caller'[d] = caller[d] /\ redis' = redis
  <2>1. redis' = redis
    BY <1>4 DEF Check, Call
  <2>2. PICK run : Becomes(c, run) /\ run.pc # "persist"
    <3>1. CASE Check(c)
      <4>1. [caller[c] EXCEPT !.pc = "call"].pc = "call"
        BY <1>1 DEF Run
      <4> QED BY <3>1, <4>1 DEF Check, Goto
    <3>2. CASE Goto(c, "success")
      <4>1. [caller[c] EXCEPT !.pc = "success"].pc = "success"
        BY <1>1 DEF Run
      <4> QED BY <3>2, <4>1 DEF Goto
    <3>3. ASSUME NEW limited \in BOOLEAN,
                 Becomes(c, [caller[c] EXCEPT !.pc = "failure", !.limited = limited])
          PROVE  \E run : Becomes(c, run) /\ run.pc # "persist"
      <4>1. [caller[c] EXCEPT !.pc = "failure", !.limited = limited].pc = "failure"
        BY <1>1 DEF Run
      <4> QED BY <3>3, <4>1
    <3> QED BY <1>4, <3>1, <3>2, <3>3 DEF Call
  <2> QED BY <2>1, <2>2 DEF Becomes, At, TypeOK
<1>5. ASSUME NEW c \in Callers, ReadState(c) PROVE caller'[d].updated.state # "CLOSED"
  <2>1. PICK info \in {Stored(c), Local(c)} :
          /\ Reads(c, info)
          /\ Becomes(c, [caller[c] EXCEPT !.pc = "persist",
                                          !.updated = Updated(info, caller[c].limited)])
    BY <1>5 DEF ReadState
  <2>2. redis' = redis
    BY <1>5 DEF ReadState
  <2>3. CASE d = c
    <3>1. info = Stored(c)
      BY <1>1, <1>2, <2>1 DEF Reads
    <3>2. info \in CircuitInfo /\ info.state # "CLOSED"
      BY <2>2, <3>1, Reading
    <3>3. Updated(info, caller[c].limited).state # "CLOSED"
      BY <1>1, <3>2, Updating DEF Run
    <3>4. caller'[c].updated = Updated(info, caller[c].limited)
      BY <1>1, <2>1 DEF Becomes, TypeOK, Run
    <3> QED BY <2>3, <3>3, <3>4
  <2>4. CASE d # c
    <3>1. caller'[d] = caller[d]
      BY <2>1, <2>4 DEF Becomes, TypeOK
    <3> QED BY <1>3, <2>2, <3>1 DEF At
  <2> QED BY <2>3, <2>4
<1>6. ASSUME NEW c \in Callers, PersistFailure(c) \/ PersistSuccess(c) PROVE FALSE
  <2>1. PICK run : Outdates(c, run) /\ run.pc = "memory"
    <3>1. [caller[c] EXCEPT !.pc = "memory"].pc = "memory" /\ [Idle EXCEPT !.pc = "memory"].pc = "memory"
      BY <1>1 DEF Run, Idle
    <3> QED BY <1>6, <3>1 DEF PersistFailure, PersistSuccess
  <2> QED BY <2>1, Others
<1>7. ASSUME NEW c \in Callers, PersistFails(c) PROVE FALSE
  BY <1>1, <1>2, <1>7 DEF PersistFails
<1>8. ASSUME NEW c \in Callers, SetMemory(c) PROVE caller'[d] = caller[d] /\ redis' = redis
  BY <1>8 DEF SetMemory, Becomes, Idle, At, TypeOK
<1>9. CASE Tick \/ UNCHANGED vars
  BY <1>3, <1>9 DEF Tick, vars, At
<1>10. CASE KeyExpires
  BY <1>10 DEF KeyExpires
<1> QED
  BY <1>3, <1>4, <1>5, <1>6, <1>7, <1>8, <1>9, <1>10 DEF Next, Step, At

\* Unless Redis fails, an open circuit is closed by a success, or by a failure
\* whose record had not seen it open.
THEOREM ClosedBySuccess == Spec => OnlySuccessCloses
<1> DEFINE Open   == redis # None /\ redis.state # "CLOSED"
           Shut   == redis' # None /\ redis'.state = "CLOSED"
           Writer == \E c \in Callers :
                       /\ At(c, "success") \/ (At(c, "persist") /\ caller[c].stale)
                       /\ ~At(c, "memory") /\ At(c, "memory")'
<1>1. Init => CloseInv
  BY DEF Init, CloseInv, At, Idle
<1>2. ASSUME TypeOK, CloseInv, [Next]_vars, Open, Shut, faults = 0 PROVE Writer
  <2>1. redis' # redis
    BY <1>2
  <2>2. PICK c \in Callers : PersistFailure(c) \/ PersistSuccess(c)
    BY <1>2, <2>1 DEF Next, Step, Check, Call, ReadState, PersistFails, SetMemory, Tick,
                      KeyExpires, vars
  <2>3. caller[c] \in Run
    BY <1>2 DEF TypeOK
  <2>4. ~At(c, "memory") /\ At(c, "memory")'
    <3>1. CASE PersistFailure(c)
      BY <1>2, <2>3, <3>1 DEF PersistFailure, Outdates, At, Run
    <3>2. CASE PersistSuccess(c)
      BY <1>2, <2>3, <3>2 DEF PersistSuccess, Outdates, At, Idle
    <3> QED BY <2>2, <3>1, <3>2
  <2>5. CASE PersistSuccess(c)
    BY <2>4, <2>5 DEF PersistSuccess
  <2>6. CASE PersistFailure(c)
    <3>1. At(c, "persist") /\ caller[c].updated.state = "CLOSED"
      BY <1>2, <2>6 DEF PersistFailure
    <3>2. caller[c].stale
      BY <1>2, <2>3, <3>1 DEF CloseInv, Run
    <3> QED BY <2>4, <3>1, <3>2
  <2> QED BY <2>2, <2>5, <2>6
<1>3. TypeOK /\ CloseInv /\ [Next]_vars
        => [Open /\ Shut => faults > 0 \/ Writer]_vars
  BY <1>2 DEF TypeOK
<1> QED
  BY <1>1, <1>3, TypeInit, TypeStep, CloseStep, PTL DEF Spec, OnlySuccessCloses
=============================================================================
