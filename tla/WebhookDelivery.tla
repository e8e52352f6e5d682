--------------------------- MODULE WebhookDelivery ---------------------------
(***************************************************************************)
(* From a dispatcher job to callbacks at the endpoints of a client:        *)
(*   - DispatcherProcessor.process and WebhooksService.deliver, one step   *)
(*     per awaited call, endpoint after endpoint;                          *)
(*   - the retries, which are timers in the memory of the process that     *)
(*     made the first attempt, each with a row in webhook_deliveries;      *)
(*   - WebhooksController, where endpoints are disabled and deleted.       *)
(* A timer fires after the time its row names: both use the same delay.    *)
(***************************************************************************)
EXTENDS BullJob, Sequences, FiniteSets

CONSTANTS
  Job,          \* jobs of the queue dispatcher whose client has the endpoints
  Endpoints,    \* webhook_endpoints of that client for message.completed
  RetryPolicy,  \* [Endpoints -> retry_policy.max_retries], 0 when it has none
  Switchable,   \* endpoints that operators enable and disable
  Hosts,        \* API processes, each with one dispatcher worker
  None,
  MaxUpsets     \* faults (failed calls, lost answers, crashes) and requests to
                \* delete an endpoint in one behaviour

ASSUME WebhookAssumption ==
  /\ RetryPolicy \in [Endpoints -> Nat]
  /\ Switchable \subseteq Endpoints
  /\ None \notin Job \cup Endpoints
  /\ MaxUpsets \in Nat

\* retryPolicy?.max_retries || 3
AttemptLimit(e) == IF RetryPolicy[e] = 0 THEN 3 ELSE RetryPolicy[e]

\* The attempts to deliver to one endpoint that one run of a job started.
Chains == [job : Job, endpoint : Endpoints, run : 1..(MaxAttempts + MaxStalls)]

Delivery ==
  [attempt : Nat, status : {"pending", "delivered", "failed", "dead"}, deleted : BOOLEAN]

RowId == [chain : Chains, n : Nat \ {0}]

VARIABLES
  jobs,        \* the dispatcher queue in Redis
  dispatcher,  \* the local variables of process() and deliver() at each host
  endpoints,   \* webhook_endpoints rows
  deliveries,  \* webhook_deliveries rows of each chain in order of creation,
               \* deleted ones too
  timers,      \* [row, host]: setTimeout(() => processRetry(row))
  retries,     \* [row, host, pc]: processRetry under way
  received,    \* callbacks the endpoint took, per job and endpoint
  removing,    \* the endpoint deleteEndpoint is working on
  removals,
  faults

work == <<jobs, dispatcher>>
memory == <<timers, retries>>
admin == <<endpoints, removing, removals>>
vars == <<jobs, dispatcher, endpoints, deliveries, timers, retries, received,
          removing, removals, faults>>

Idle == [pc |-> "idle", job |-> None, left |-> {}, row |-> None, ok |-> TRUE]

\* "send" and the two calls that may follow hold a row.
Holding == {"send", "delivered", "failed", "schedule"}

PCs == Holding \cup {"idle", "endpoints", "create", "settle"}

Run == [pc : PCs, job : Job \cup {None}, left : SUBSET Endpoints,
        row : RowId \cup {None}, ok : BOOLEAN]

Init ==
  /\ jobs = [j \in Job |-> NoJob(0)]
  /\ dispatcher = [h \in Hosts |-> Idle]
  /\ endpoints = [e \in Endpoints |-> "enabled"]
  /\ deliveries = [c \in Chains |-> <<>>]
  /\ timers = {}
  /\ retries = {}
  /\ received = [k \in Job \X Endpoints |-> 0]
  /\ removing = None
  /\ removals = 0
  /\ faults = 0

At(h, pc) == dispatcher[h].pc = pc

Becomes(h, run) == dispatcher' = [dispatcher EXCEPT ![h] = run]

Goto(h, pc) == Becomes(h, [dispatcher[h] EXCEPT !.pc = pc])

\* deliverToEndpoint returns, or something throws through deliver.
Finished(h) == Becomes(h, [dispatcher[h] EXCEPT !.pc = "create", !.row = None])

Throws(h) ==
  Becomes(h, [dispatcher[h] EXCEPT !.pc = "settle", !.row = None, !.left = {}, !.ok = FALSE])

CanUpset == faults + removals < MaxUpsets

Exists(e) == endpoints[e] # "deleted"

RowsOf(c) == {[chain |-> c, n |-> k] : k \in DOMAIN deliveries[c]}

Rows == UNION {RowsOf(c) : c \in Chains}

Row(i) == deliveries[i.chain][i.n]

AttemptOf(i) == Row(i).attempt

LimitOf(i) == AttemptLimit(i.chain.endpoint)

Last(i) == AttemptOf(i) >= LimitOf(i)

\* prisma.webhook_deliveries.create, and the id of the row that it makes.
Created(c, k) ==
  [deliveries EXCEPT ![c] =
     Append(deliveries[c], [attempt |-> k, status |-> "pending", deleted |-> FALSE])]

NewRow(c) == [chain |-> c, n |-> Len(deliveries[c]) + 1]

\* prisma.webhook_deliveries.update, which throws when the row is gone.
CanUpdate(i) == ~Row(i).deleted

Marked(i, status) == [deliveries EXCEPT ![i.chain][i.n].status = status]

NewRun(j, e) ==
  1 + Cardinality({c \in Chains : c.job = j /\ c.endpoint = e /\ deliveries[c] # <<>>})

-----------------------------------------------------------------------------
(* trySend: the endpoint takes the callback and says so, does not take it, *)
(* or takes it and the answer is lost, an error or later than 10 s.        *)

Taken(c) == [received EXCEPT ![<<c.job, c.endpoint>>] = received[<<c.job, c.endpoint>>] + 1]

Post(c, ok) ==
  \/ ok /\ received' = Taken(c) /\ UNCHANGED faults
  \/ ~ok /\ UNCHANGED <<received, faults>>
  \/ ~ok /\ CanUpset /\ faults' = faults + 1 /\ received' = Taken(c)

-----------------------------------------------------------------------------
(* DispatcherProcessor.process, ChannelsService.sendOutbound and deliver.  *)

AddDispatchJob(j) ==
  /\ jobs[j].state = "absent"
  /\ jobs' = [jobs EXCEPT ![j] = Queued(0)]
  /\ UNCHANGED <<dispatcher, admin, deliveries, memory, received, faults>>

StartJob(h, j) ==
  /\ At(h, "idle")
  /\ Runnable(jobs[j])
  /\ jobs' = [jobs EXCEPT ![j] = Started(jobs[j])]
  /\ Becomes(h, [Idle EXCEPT !.pc = "endpoints", !.job = j])
  /\ UNCHANGED <<admin, deliveries, memory, received, faults>>

FindEndpoints(h) ==
  /\ At(h, "endpoints")
  /\ Becomes(h, [dispatcher[h] EXCEPT !.pc = "create",
                                      !.left = {e \in Endpoints : endpoints[e] = "enabled"}])
  /\ UNCHANGED <<jobs, admin, deliveries, memory, received, faults>>

\* The endpoints were read before; one that is gone breaks the foreign key.
CreateDelivery(h) ==
  /\ At(h, "create")
  /\ \E e \in dispatcher[h].left :
       LET j == dispatcher[h].job
           c == [job |-> j, endpoint |-> e, run |-> NewRun(j, e)]
       IN  \/ /\ Exists(e)
              /\ deliveries' = Created(c, 1)
              /\ Becomes(h, [dispatcher[h] EXCEPT !.pc = "send", !.row = NewRow(c),
                                                  !.left = dispatcher[h].left \ {e}])
           \/ /\ ~Exists(e)
              /\ Throws(h)
              /\ UNCHANGED deliveries
  /\ UNCHANGED <<jobs, admin, memory, received, faults>>

SendFirst(h) ==
  /\ At(h, "send")
  /\ \E ok \in BOOLEAN :
       /\ Post(dispatcher[h].row.chain, ok)
       /\ Goto(h, IF ok THEN "delivered" ELSE "failed")
  /\ UNCHANGED <<jobs, admin, deliveries, memory>>

\* Mutant of MarkDelivered: the return is missing.
MarkDeliveredAndGoOn(h) ==
  /\ At(h, "delivered")
  /\ deliveries' = Marked(dispatcher[h].row, "delivered")
  /\ Goto(h, "schedule")
  /\ UNCHANGED <<jobs, admin, memory, received, faults>>

MarkDelivered(h) ==
  /\ At(h, "delivered")
  /\ \/ /\ CanUpdate(dispatcher[h].row)
        /\ deliveries' = Marked(dispatcher[h].row, "delivered")
        /\ Finished(h)
     \/ /\ ~CanUpdate(dispatcher[h].row)
        /\ Throws(h)
        /\ UNCHANGED deliveries
  /\ UNCHANGED <<jobs, admin, memory, received, faults>>

MarkFailed(h) ==
  /\ At(h, "failed")
  /\ LET i == dispatcher[h].row IN
     \/ /\ CanUpdate(i) /\ Last(i)
        /\ deliveries' = Marked(i, "dead")
        /\ Finished(h)
     \/ /\ CanUpdate(i) /\ ~Last(i)
        /\ deliveries' = Marked(i, "failed")
        /\ Goto(h, "schedule")
     \/ /\ ~CanUpdate(i)
        /\ Throws(h)
        /\ UNCHANGED deliveries
  /\ UNCHANGED <<jobs, admin, memory, received, faults>>

\* scheduleRetry(..., 2, maxAttempts)
ScheduleFirst(h) ==
  /\ At(h, "schedule")
  /\ LET c == dispatcher[h].row.chain IN
     \/ /\ Exists(c.endpoint)
        /\ deliveries' = Created(c, 2)
        /\ timers' = timers \cup {[row |-> NewRow(c), host |-> h]}
        /\ Finished(h)
     \/ /\ ~Exists(c.endpoint)
        /\ Throws(h)
        /\ UNCHANGED <<deliveries, timers>>
  /\ UNCHANGED <<jobs, admin, retries, received, faults>>

\* deliver has no endpoint left, or something threw.
SettleJob(h) ==
  /\ At(h, "settle") \/ (At(h, "create") /\ dispatcher[h].left = {})
  /\ LET j == dispatcher[h].job IN
     jobs' = [jobs EXCEPT ![j] =
                IF dispatcher[h].ok THEN Completed(jobs[j]) ELSE AttemptFailed(jobs[j])]
  /\ Becomes(h, Idle)
  /\ UNCHANGED <<admin, deliveries, memory, received, faults>>

-----------------------------------------------------------------------------
(* processRetry.                                                           *)

\* Mutants of FireTimer: setInterval for setTimeout, and a clock that has not
\* reached next_retry_at.
FireAgain(t) ==
  /\ retries' = retries \cup {[row |-> t.row, host |-> t.host, pc |-> "send"]}
  /\ UNCHANGED <<work, admin, deliveries, timers, received, faults>>

FireTooEarly(t) ==
  /\ timers' = timers \ {t}
  /\ UNCHANGED <<work, admin, deliveries, retries, received, faults>>

\* The timer fires and the row is found with its endpoint, or not.
FireTimer(t) ==
  /\ timers' = timers \ {t}
  /\ \/ /\ CanUpdate(t.row) /\ Row(t.row).status = "pending"
        /\ retries' = retries \cup {[row |-> t.row, host |-> t.host, pc |-> "send"]}
     \/ /\ ~CanUpdate(t.row) \/ Row(t.row).status # "pending"
        /\ UNCHANGED retries
  /\ UNCHANGED <<work, admin, deliveries, received, faults>>

GoesOn(t, pc) == retries' = (retries \ {t}) \cup {[t EXCEPT !.pc = pc]}

Ends(t) == retries' = retries \ {t}

\* Mutant of MayRetry: the attempt made is compared with the limit.
MayRetryOnce(i) == AttemptOf(i) <= LimitOf(i)

\* nextAttempt <= delivery.max_attempts
MayRetry(i) == AttemptOf(i) + 1 <= LimitOf(i)

SendAgain(t) ==
  /\ t.pc = "send"
  /\ \E ok \in BOOLEAN :
       /\ Post(t.row.chain, ok)
       /\ GoesOn(t, IF ok THEN "delivered" ELSE IF MayRetry(t.row) THEN "schedule" ELSE "failed")
  /\ UNCHANGED <<work, admin, deliveries, timers>>

RetryDelivered(t) ==
  /\ t.pc = "delivered"
  /\ deliveries' = IF CanUpdate(t.row) THEN Marked(t.row, "delivered") ELSE deliveries
  /\ Ends(t)
  /\ UNCHANGED <<work, admin, timers, received, faults>>

\* The next row is created before this one is updated.
ScheduleNext(t) ==
  /\ t.pc = "schedule"
  /\ LET c == t.row.chain IN
     \/ /\ Exists(c.endpoint)
        /\ deliveries' = Created(c, AttemptOf(t.row) + 1)
        /\ timers' = timers \cup {[row |-> NewRow(c), host |-> t.host]}
        /\ GoesOn(t, "failed")
     \/ /\ ~Exists(c.endpoint)
        /\ Ends(t)
        /\ UNCHANGED <<deliveries, timers>>
  /\ UNCHANGED <<work, admin, received, faults>>

\* Mutant of RetryFailed: only rows with a successor are updated.
RetryFailedUnlessLast(t) ==
  /\ t.pc = "failed"
  /\ deliveries' = IF CanUpdate(t.row) /\ ~Last(t.row) THEN Marked(t.row, "failed") ELSE deliveries
  /\ Ends(t)
  /\ UNCHANGED <<work, admin, timers, received, faults>>

RetryFailed(t) ==
  /\ t.pc = "failed"
  /\ deliveries' = IF CanUpdate(t.row)
                     THEN Marked(t.row, IF MayRetry(t.row) THEN "failed" ELSE "dead")
                     ELSE deliveries
  /\ Ends(t)
  /\ UNCHANGED <<work, admin, timers, received, faults>>

-----------------------------------------------------------------------------
(* WebhooksController: PATCH and DELETE endpoints/:id.                     *)

UpdateEndpoint(e) ==
  /\ Exists(e)
  /\ endpoints' = [endpoints EXCEPT ![e] = IF endpoints[e] = "enabled" THEN "disabled" ELSE "enabled"]
  /\ UNCHANGED <<work, deliveries, memory, received, removing, removals, faults>>

\* deleteEndpoint, in two steps: deleteMany of the deliveries, then the delete.
DeleteDeliveries(e) ==
  /\ removing = None
  /\ Exists(e)
  /\ CanUpset
  /\ removals' = removals + 1
  /\ removing' = e
  /\ deliveries' = [c \in Chains |->
                      IF c.endpoint # e THEN deliveries[c]
                      ELSE [k \in DOMAIN deliveries[c] |->
                              [deliveries[c][k] EXCEPT !.deleted = TRUE]]]
  /\ UNCHANGED <<work, endpoints, memory, received, faults>>

\* A delivery created in between keeps the endpoint alive: the delete throws.
DeleteEndpoint ==
  /\ removing # None
  /\ \/ /\ \A i \in Rows : i.chain.endpoint = removing => Row(i).deleted
        /\ endpoints' = [endpoints EXCEPT ![removing] = "deleted"]
     \/ /\ \E i \in Rows : i.chain.endpoint = removing /\ ~Row(i).deleted
        /\ UNCHANGED endpoints
  /\ removing' = None
  /\ UNCHANGED <<work, deliveries, memory, received, removals, faults>>

-----------------------------------------------------------------------------
(* Failures.                                                               *)

\* A database call of deliver rejects; Bull makes another attempt of the job.
CallFails(h) ==
  /\ dispatcher[h].pc \in {"endpoints", "create", "delivered", "failed", "schedule"}
  /\ CanUpset
  /\ faults' = faults + 1
  /\ Throws(h)
  /\ UNCHANGED <<jobs, admin, deliveries, memory, received>>

\* A database call of processRetry rejects: that is logged.
RetryCallFails(t) ==
  /\ t.pc # "send"
  /\ CanUpset
  /\ faults' = faults + 1
  /\ Ends(t)
  /\ UNCHANGED <<work, admin, deliveries, timers, received>>

FindFails(t) ==
  /\ CanUpset
  /\ faults' = faults + 1
  /\ timers' = timers \ {t}
  /\ UNCHANGED <<work, admin, deliveries, retries, received>>

\* The process restarts: its timers are gone.
Crash(h) ==
  /\ ~At(h, "idle") \/ \E t \in timers \cup retries : t.host = h
  /\ CanUpset
  /\ faults' = faults + 1
  /\ Becomes(h, Idle)
  /\ timers' = {t \in timers : t.host # h}
  /\ retries' = {t \in retries : t.host # h}
  /\ UNCHANGED <<jobs, admin, deliveries, received>>

StalledCheck(j) ==
  /\ jobs[j].state = "active"
  /\ \A h \in Hosts : dispatcher[h].job # j
  /\ jobs' = [jobs EXCEPT ![j] = Stalled(jobs[j])]
  /\ UNCHANGED <<dispatcher, admin, deliveries, memory, received, faults>>

-----------------------------------------------------------------------------
Step(h) ==
  \/ FindEndpoints(h) \/ CreateDelivery(h) \/ SendFirst(h) \/ MarkDelivered(h)
  \/ MarkFailed(h) \/ ScheduleFirst(h) \/ SettleJob(h)

RetryStep(t) == SendAgain(t) \/ RetryDelivered(t) \/ ScheduleNext(t) \/ RetryFailed(t)

Next ==
  \/ \E h \in Hosts : Step(h) \/ CallFails(h) \/ Crash(h)
  \/ \E h \in Hosts, j \in Job : StartJob(h, j)
  \/ \E j \in Job : AddDispatchJob(j) \/ StalledCheck(j)
  \/ \E t \in timers : FireTimer(t) \/ FindFails(t)
  \/ \E t \in retries : RetryStep(t) \/ RetryCallFails(t)
  \/ \E e \in Endpoints : DeleteDeliveries(e)
  \/ \E e \in Switchable : UpdateEndpoint(e)
  \/ DeleteEndpoint

Spec == Init /\ [][Next]_vars

\* Node goes on with what was started and fires its timers; Bull hands out jobs.
Fairness ==
  /\ \A h \in Hosts : WF_vars(Step(h))
  /\ \A j \in Job : WF_vars(\E h \in Hosts : StartJob(h, j)) /\ WF_vars(StalledCheck(j))
  /\ WF_vars(\E t \in timers : FireTimer(t))
  /\ WF_vars(\E t \in retries : RetryStep(t))

FairSpec == Spec /\ Fairness

-----------------------------------------------------------------------------
(* Properties.                                                             *)

\* Rows, timers and local variables have the expected shape; attempts are
\* numbered from one to the limit of their endpoint.
TypeOK ==
  /\ jobs \in [Job -> JobOf({0})]
  /\ dispatcher \in [Hosts -> Run]
  /\ endpoints \in [Endpoints -> {"enabled", "disabled", "deleted"}]
  /\ deliveries \in [Chains -> Seq(Delivery)]
  /\ \A i \in Rows : AttemptOf(i) \in 1..LimitOf(i)
  /\ timers \subseteq [row : Rows, host : Hosts]
  /\ retries \subseteq [row : Rows, host : Hosts,
                        pc : {"send", "delivered", "schedule", "failed"}]
  /\ received \in [Job \X Endpoints -> Nat]
  /\ removing \in Endpoints \cup {None}
  /\ removals \in Nat
  /\ faults \in Nat
  /\ faults + removals <= MaxUpsets

Latest(c) == [chain |-> c, n |-> Len(deliveries[c])]

Attempt(c) == IF deliveries[c] = <<>> THEN 0 ELSE AttemptOf(Latest(c))

Outcome(c) ==
  IF deliveries[c] = <<>> THEN "none"
  ELSE IF Row(Latest(c)).status \in {"pending", "failed"} THEN "trying"
  ELSE Row(Latest(c)).status

Chain(c) == INSTANCE DeliveryChain WITH
  Limit <- AttemptLimit(c.endpoint), attempt <- Attempt(c), outcome <- Outcome(c)

\* Timers that fire at any time, retries of the whole job, restarts, deletions
\* and updates in this odd order still make chains: one attempt after the other,
\* none beyond the limit and none after a delivery.  This is Chain(c)!Spec for
\* every c, with the quantifier inside the box.
ImplementsChains ==
  /\ \A c \in Chains : Chain(c)!Init
  /\ [][\A c \in Chains : Chain(c)!Next \/ UNCHANGED <<Attempt(c), Outcome(c)>>]_vars

\* Who has yet to act on a row: the first attempt, a timer or a retry.
HoldersOf(i) ==
  {h \in Hosts : dispatcher[h].pc \in Holding /\ dispatcher[h].row = i}
  \cup {t \in timers \cup retries : t.row = i}

\* The rows of a chain need no lock, whatever fires or fails: nobody else works
\* on the latest one, and all that is left to do with the others is an update.
OneLiveAttempt ==
  \A i \in Rows :
    /\ Cardinality(HoldersOf(i)) <= 1
    /\ i # Latest(i.chain) =>
         HoldersOf(i) \subseteq {t \in retries : t.pc = "failed"}

\* Without failures and restarts no row is left "pending" with nobody to send it.
NothingForgotten ==
  faults = 0 => \A i \in Rows :
    Row(i).status = "pending" /\ ~Row(i).deleted => HoldersOf(i) # {}

\* An endpoint gets a callback again only after a failed call, a lost answer or
\* a crash, or because the deletion of an endpoint broke a run of the job, which
\* it may do twice.
DeliveredOnce ==
  \A k \in Job \X Endpoints : received[k] <= 1 + faults + 2 * removals

\* One attempt at a time, none forgotten, and none after a success.
AttemptsAreOrderly == TypeOK /\ OneLiveAttempt /\ NothingForgotten /\ DeliveredOnce

\* A process that keeps running takes every chain to its end: delivered, dead
\* or deleted.
DeliveriesSettle ==
  \A c \in Chains :
    /\ Outcome(c) = "trying"
    /\ ~Row(Latest(c)).deleted
    ~> \/ Outcome(c) # "trying"
       \/ Row(Latest(c)).deleted
       \/ faults > 0
=============================================================================
