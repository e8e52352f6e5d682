-------------------------- MODULE IngestionPipeline --------------------------
(***************************************************************************)
(* From POST public/messages to a queued agent job:                        *)
(*   - ChannelsService.processInbound, one handler per HTTP request;       *)
(*   - the Bull queue `ingestion' and IngestionProcessor, one step per     *)
(*     awaited call, with the Redis lock of the customer;                  *)
(*   - the 'failed' listener, the dead-letter queue and the administrator  *)
(*     who retries it (QueueModule, DeadLetterProcessor, QueueController). *)
(* One channel type is modelled: no query here compares two of them except *)
(* together with the client.                                               *)
(***************************************************************************)
EXTENDS BullJob, Sequences, FiniteSets

CONSTANTS
  Requests,         \* HTTP requests; a client that repeats one sends another
  Workers,          \* processors of the queue, over all instances of the API
  Clients,
  Users,            \* external_user_id values
  Keys,             \* idempotency_key values
  ConvKeys,         \* conversation_key values
  Payload,          \* [Requests -> the body of the request]
  None,             \* an optional field left out
  Redacted,         \* '[REDACTED]'
  PhoneLike,        \* the users whose id matches the phone pattern of sanitize
  ReplayIds,        \* job ids Bull may give to jobs replayed from the DLQ
  StatusInputs,     \* conversation statuses operators send
  LockOutlivesJob,  \* TRUE: no run lasts longer than the 30 s of its lock
  MaxFaults         \* failed calls and crashes in one behaviour

Job == Requests \cup Keys \cup ReplayIds

ExternalIds == Users \cup {Redacted}

Data ==
  [req : Requests, client : Clients, user : ExternalIds,
   convKey : ConvKeys \cup {None, Redacted}, media : BOOLEAN]

Body ==
  [client : Clients, user : Users, key : Keys \cup {None},
   convKey : ConvKeys \cup {None}, media : BOOLEAN]

Conversation ==
  [client : Clients, endUser : Nat, key : ConvKeys \cup {None, Redacted},
   status : {"active", "closed"}]

Message == [conv : Nat, job : Job]

AgentJob == [conv : Nat, msg : Nat]

ASSUME IngestionAssumption ==
  /\ Requests # {}
  /\ \A r \in Requests : Payload[r] \in Body
  /\ PhoneLike \subseteq Users
  /\ MaxFaults \in Nat
  /\ LockOutlivesJob \in BOOLEAN
  /\ StatusInputs \subseteq {"active", "closed"}
  /\ None \notin Keys \cup ConvKeys \cup Users \cup Job
  /\ Redacted \notin ConvKeys \cup Users

VARIABLES
  handler,        \* where each HTTP request is in processInbound
  inbound,        \* inbound_events: status of the row of each request
  jobs,           \* the ingestion queue in Redis
  worker,         \* the local variables of each running process()
  lock,           \* Redis keys lock:conversation:... that are set
  identity,       \* channel_identities: the end user of <<client, external id>>
  endUsers,       \* number of end_users rows
  conversations,  \* conversations rows, in order of creation
  messages,       \* inbound messages rows, in order of creation
  mediaJobs,      \* messages whose media were queued for processing
  agentJobs,      \* jobs added to the agent-processing queue
  deadLetter,     \* the dead-letter job made of each ingestion job
  retrying,       \* the dead letter retryAllDeadLetter is working on
  faults

http == <<handler, inbound>>
rows == <<identity, endUsers, conversations, messages, mediaJobs, agentJobs>>
dlq  == <<deadLetter, retrying>>
vars == <<handler, inbound, jobs, worker, lock, identity, endUsers,
          conversations, messages, mediaJobs, agentJobs, deadLetter, retrying,
          faults>>

JobData(r) ==
  [req |-> r, client |-> Payload[r].client, user |-> Payload[r].user,
   convKey |-> Payload[r].convKey, media |-> Payload[r].media]

\* sanitize(job.data): fields whose name contains "key" and values that look
\* like a phone number are overwritten, and parts lie below its depth limit.
Sanitized(d) ==
  [d EXCEPT !.convKey = IF d.convKey = None THEN None ELSE Redacted,
            !.user = IF d.user \in PhoneLike THEN Redacted ELSE d.user,
            !.media = FALSE]

-----------------------------------------------------------------------------
(* State of a worker.                                                      *)

Idle == [pc |-> "idle", job |-> None, endUser |-> 0, conv |-> 0, msg |-> 0, ok |-> TRUE]

\* Between a successful acquireLock and the end of releaseLock.
Locked == {"identity", "endUser", "link", "conversation", "open", "message",
           "parts", "normalize", "agentJob", "release"}

PCs == Locked \cup {"idle", "lock", "settle", "listener"}

Run ==
  [pc : PCs, job : Job \cup {None}, endUser : Nat, conv : Nat, msg : Nat, ok : BOOLEAN]

At(w, pc) == worker[w].pc = pc

DataOf(w) == jobs[worker[w].job].data

LockKey(d) == <<d.client, d.user>>

InCritical(w) == worker[w].pc \in Locked

IsOpen(c) == conversations[c].status # "closed"

-----------------------------------------------------------------------------
Init ==
  /\ handler = [r \in Requests |-> "new"]
  /\ inbound = [r \in Requests |-> "absent"]
  /\ jobs = [i \in Job |-> NoJob(JobData(CHOOSE r \in Requests : TRUE))]
  /\ worker = [w \in Workers |-> Idle]
  /\ lock = {}
  /\ identity = [k \in Clients \X ExternalIds |-> 0]
  /\ endUsers = 0
  /\ conversations = <<>>
  /\ messages = <<>>
  /\ mediaJobs = {}
  /\ agentJobs = {}
  /\ deadLetter = [i \in Job |-> "none"]
  /\ retrying = None
  /\ faults = 0

-----------------------------------------------------------------------------
(* ChannelsService.processInbound.                                         *)

SameKey(r, q) ==
  /\ Payload[q].client = Payload[r].client
  /\ Payload[q].key = Payload[r].key

\* The findFirst on idempotency_key: nothing makes it and the create below one
\* step, and no index makes the key unique.
CheckDuplicate(r) ==
  /\ handler[r] = "new"
  /\ LET duplicate == /\ Payload[r].key # None
                      /\ \E q \in Requests : inbound[q] # "absent" /\ SameKey(r, q)
     IN handler' = [handler EXCEPT ![r] = IF duplicate THEN "rejected" ELSE "checked"]
  /\ UNCHANGED <<inbound, jobs, worker, lock, rows, dlq, faults>>

CreateInboundEvent(r) ==
  /\ handler[r] = "checked"
  /\ handler' = [handler EXCEPT ![r] = "recorded"]
  /\ inbound' = [inbound EXCEPT ![r] = "received"]
  /\ UNCHANGED <<jobs, worker, lock, rows, dlq, faults>>

\* The job id is the raw idempotency key: not the client's, not the channel's.
JobId(r) == IF Payload[r].key = None THEN r ELSE Payload[r].key

AddIngestionJob(r) ==
  /\ handler[r] = "recorded"
  /\ handler' = [handler EXCEPT ![r] = "queued"]
  /\ jobs' = [jobs EXCEPT ![JobId(r)] = Added(jobs[JobId(r)], JobData(r))]
  /\ UNCHANGED <<inbound, worker, lock, rows, dlq, faults>>

\* The API process dies, or a call fails and the caller gets an error.
HandlerFails(r) ==
  /\ handler[r] \in {"checked", "recorded"}
  /\ faults < MaxFaults
  /\ faults' = faults + 1
  /\ handler' = [handler EXCEPT ![r] = "lost"]
  /\ UNCHANGED <<inbound, jobs, worker, lock, rows, dlq>>

-----------------------------------------------------------------------------
(* IngestionProcessor.process, run by worker w.                            *)

Becomes(w, run) == worker' = [worker EXCEPT ![w] = run]

Goto(w, pc) == Becomes(w, [worker[w] EXCEPT !.pc = pc])

\* Mutant of Fails: the error is swallowed.
FailsSilently(w, pc) == Goto(w, pc)

Fails(w, pc) == Becomes(w, [worker[w] EXCEPT !.pc = pc, !.ok = FALSE])

StartJob(w, i) ==
  /\ At(w, "idle")
  /\ Runnable(jobs[i])
  /\ jobs' = [jobs EXCEPT ![i] = Started(jobs[i])]
  /\ Becomes(w, [Idle EXCEPT !.pc = "lock", !.job = i])
  /\ UNCHANGED <<http, lock, rows, dlq, faults>>

\* Mutant of AcquireLock: it is called inside the try, so that the finally
\* clause of the loser deletes the key of the winner.
AcquireLockInsideTry(w) ==
  /\ At(w, "lock")
  /\ \/ /\ LockKey(DataOf(w)) \notin lock
        /\ lock' = lock \cup {LockKey(DataOf(w))}
        /\ Goto(w, "identity")
     \/ /\ LockKey(DataOf(w)) \in lock
        /\ Fails(w, "release")
        /\ UNCHANGED lock
  /\ UNCHANGED <<http, jobs, rows, dlq, faults>>

\* SET NX: when the key is set the handler throws at once, outside its try.
AcquireLock(w) ==
  /\ At(w, "lock")
  /\ \/ /\ LockKey(DataOf(w)) \notin lock
        /\ lock' = lock \cup {LockKey(DataOf(w))}
        /\ Goto(w, "identity")
     \/ /\ LockKey(DataOf(w)) \in lock
        /\ Fails(w, "settle")
        /\ UNCHANGED lock
  /\ UNCHANGED <<http, jobs, rows, dlq, faults>>

FindIdentity(w) ==
  /\ At(w, "identity")
  /\ LET found == identity[LockKey(DataOf(w))]
     IN Becomes(w, [worker[w] EXCEPT !.endUser = found,
                                     !.pc = IF found = 0 THEN "endUser" ELSE "conversation"])
  /\ UNCHANGED <<http, jobs, lock, rows, dlq, faults>>

CreateEndUser(w) ==
  /\ At(w, "endUser")
  /\ endUsers' = endUsers + 1
  /\ Becomes(w, [worker[w] EXCEPT !.endUser = endUsers + 1, !.pc = "link"])
  /\ UNCHANGED <<http, jobs, lock, identity, conversations, messages, mediaJobs,
                 agentJobs, dlq, faults>>

\* The unique index on channel_identities refuses a second identity: the end
\* user just created stays behind and the attempt fails.
CreateIdentity(w) ==
  /\ At(w, "link")
  /\ LET k == LockKey(DataOf(w))
     IN \/ /\ identity[k] = 0
           /\ identity' = [identity EXCEPT ![k] = worker[w].endUser]
           /\ Goto(w, "conversation")
        \/ /\ identity[k] # 0
           /\ Fails(w, "release")
           /\ UNCHANGED identity
  /\ UNCHANGED <<http, jobs, lock, endUsers, conversations, messages, mediaJobs,
                 agentJobs, dlq, faults>>

\* Mutant of Reusable: only conversations named by a key are reused.
ReusableByKey(d) ==
  {c \in DOMAIN conversations :
     IsOpen(c) /\ d.convKey # None /\ conversations[c].key = d.convKey}

\* findByExternalKey when the request names a conversation, otherwise
\* findActiveByEndUser.
Reusable(d) ==
  {c \in DOMAIN conversations :
     /\ IsOpen(c)
     /\ conversations[c].client = d.client
     /\ IF d.convKey # None
          THEN conversations[c].key = d.convKey
          ELSE \E k \in Clients : identity[<<k, d.user>>] = conversations[c].endUser}

FindConversation(w) ==
  /\ At(w, "conversation")
  /\ \/ /\ Reusable(DataOf(w)) = {}
        /\ Goto(w, "open")
     \/ \E c \in Reusable(DataOf(w)) :
          Becomes(w, [worker[w] EXCEPT !.conv = c, !.pc = "message"])
  /\ UNCHANGED <<http, jobs, lock, rows, dlq, faults>>

CreateConversation(w) ==
  /\ At(w, "open")
  /\ conversations' = Append(conversations,
       [client |-> DataOf(w).client, endUser |-> worker[w].endUser,
        key |-> DataOf(w).convKey, status |-> "active"])
  /\ Becomes(w, [worker[w] EXCEPT !.conv = Len(conversations) + 1, !.pc = "message"])
  /\ UNCHANGED <<http, jobs, lock, identity, endUsers, messages, mediaJobs,
                 agentJobs, dlq, faults>>

\* Mutant of StoreMessage: the insert is repeated when its answer is late.
StoreMessageAgain(w) ==
  /\ At(w, "message")
  /\ messages' = Append(messages, [conv |-> worker[w].conv, job |-> worker[w].job])
  /\ \E pc \in {"message", "parts"} :
       Becomes(w, [worker[w] EXCEPT !.msg = Len(messages) + 1, !.pc = pc])
  /\ UNCHANGED <<http, jobs, lock, identity, endUsers, conversations, mediaJobs,
                 agentJobs, dlq, faults>>

\* addMessage always inserts: a retry of the job stores the message again.
StoreMessage(w) ==
  /\ At(w, "message")
  /\ messages' = Append(messages, [conv |-> worker[w].conv, job |-> worker[w].job])
  /\ Becomes(w, [worker[w] EXCEPT !.msg = Len(messages) + 1, !.pc = "parts"])
  /\ UNCHANGED <<http, jobs, lock, identity, endUsers, conversations, mediaJobs,
                 agentJobs, dlq, faults>>

\* The rest of addMessage, and the media jobs of its audio and image parts.
StoreParts(w) ==
  /\ At(w, "parts")
  /\ mediaJobs' = IF DataOf(w).media THEN mediaJobs \cup {worker[w].msg} ELSE mediaJobs
  /\ Goto(w, "normalize")
  /\ UNCHANGED <<http, jobs, lock, identity, endUsers, conversations, messages,
                 agentJobs, dlq, faults>>

MarkNormalized(w) ==
  /\ At(w, "normalize")
  /\ inbound' = [inbound EXCEPT ![DataOf(w).req] = "normalized"]
  /\ Goto(w, "agentJob")
  /\ UNCHANGED <<handler, jobs, lock, rows, dlq, faults>>

AddAgentJob(w) ==
  /\ At(w, "agentJob")
  /\ agentJobs' = agentJobs \cup {[conv |-> worker[w].conv, msg |-> worker[w].msg]}
  /\ Goto(w, "release")
  /\ UNCHANGED <<http, jobs, lock, identity, endUsers, conversations, messages,
                 mediaJobs, dlq, faults>>

\* DEL, whoever set the key.
ReleaseLock(w) ==
  /\ At(w, "release")
  /\ lock' = lock \ {LockKey(DataOf(w))}
  /\ Goto(w, "settle")
  /\ UNCHANGED <<http, jobs, rows, dlq, faults>>

\* process() returned or threw, and Bull moves the job.
SettleJob(w) ==
  /\ At(w, "settle")
  /\ LET i == worker[w].job
         done == IF worker[w].ok THEN Completed(jobs[i]) ELSE AttemptFailed(jobs[i])
     IN /\ jobs' = [jobs EXCEPT ![i] = done]
        /\ Becomes(w, IF Exhausted(done) THEN [Idle EXCEPT !.pc = "listener", !.job = i] ELSE Idle)
  /\ UNCHANGED <<http, lock, rows, dlq, faults>>

\* The 'failed' listener of the instance that ran the last attempt.
AddDeadLetter(w) ==
  /\ At(w, "listener")
  /\ deadLetter' = [deadLetter EXCEPT ![worker[w].job] = "waiting"]
  /\ Becomes(w, Idle)
  /\ UNCHANGED <<http, jobs, lock, rows, retrying, faults>>

-----------------------------------------------------------------------------
(* Failures.                                                               *)

\* An awaited call rejects.  Inside the try the finally clause still runs;
\* when DEL itself rejects the key stays set; a dead-letter job that cannot be
\* added is logged and dropped.
CallFails(w) ==
  /\ faults < MaxFaults
  /\ faults' = faults + 1
  /\ \/ At(w, "listener") /\ Becomes(w, Idle)
     \/ worker[w].pc \in {"lock", "release"} /\ Fails(w, "settle")
     \/ worker[w].pc \in Locked \ {"release"} /\ Fails(w, "release")
  /\ UNCHANGED <<http, jobs, lock, rows, dlq>>

Crash(w) ==
  /\ ~At(w, "idle")
  /\ faults < MaxFaults
  /\ faults' = faults + 1
  /\ Becomes(w, Idle)
  /\ UNCHANGED <<http, jobs, lock, rows, dlq>>

\* Bull's stalled check on an active job nobody runs any more.
StalledCheck(i) ==
  /\ jobs[i].state = "active"
  /\ \A w \in Workers : worker[w].job # i
  /\ jobs' = [jobs EXCEPT ![i] = Stalled(jobs[i])]
  /\ UNCHANGED <<http, worker, lock, rows, dlq, faults>>

LockExpires(k) ==
  /\ k \in lock
  /\ LockOutlivesJob => \A w \in Workers : InCritical(w) => LockKey(DataOf(w)) # k
  /\ lock' = lock \ {k}
  /\ UNCHANGED <<http, jobs, worker, rows, dlq, faults>>

-----------------------------------------------------------------------------
(* The dead-letter queue.  Its own store job usually fails: outbox_events  *)
(* wants a company that exists and a UUID where it gets the job id.        *)

StoreDeadLetter(i) ==
  /\ deadLetter[i] = "waiting"
  /\ \E outcome \in {"stored", "failed"} :
       deadLetter' = [deadLetter EXCEPT ![i] = outcome]
  /\ UNCHANGED <<http, jobs, worker, lock, rows, retrying, faults>>

\* retryAllDeadLetter, in two steps: originalQueue.add, then job.remove.  The
\* copy has a fresh id and the sanitized data.
ReplayDeadLetter(i, id) ==
  /\ retrying = None
  /\ deadLetter[i] = "failed"
  /\ jobs[id].state = "absent"
  /\ jobs' = [jobs EXCEPT ![id] = Queued(Sanitized(jobs[i].data))]
  /\ retrying' = i
  /\ UNCHANGED <<http, worker, lock, rows, deadLetter, faults>>

RemoveDeadLetter ==
  /\ retrying # None
  /\ deadLetter' = [deadLetter EXCEPT ![retrying] = "removed"]
  /\ retrying' = None
  /\ UNCHANGED <<http, jobs, worker, lock, rows, faults>>

\* The administrator's request dies before job.remove.
ReplayFails ==
  /\ retrying # None
  /\ faults < MaxFaults
  /\ faults' = faults + 1
  /\ retrying' = None
  /\ UNCHANGED <<http, jobs, worker, lock, rows, deadLetter>>

\* PATCH conversations/:id writes any status over any other.
UpdateStatus(c, s) ==
  /\ conversations[c].status # s
  /\ conversations' = [conversations EXCEPT ![c].status = s]
  /\ UNCHANGED <<http, jobs, worker, lock, identity, endUsers, messages,
                 mediaJobs, agentJobs, dlq, faults>>

-----------------------------------------------------------------------------
Handler(r) == CheckDuplicate(r) \/ CreateInboundEvent(r) \/ AddIngestionJob(r)

Step(w) ==
  \/ AcquireLock(w) \/ FindIdentity(w) \/ CreateEndUser(w) \/ CreateIdentity(w)
  \/ FindConversation(w) \/ CreateConversation(w) \/ StoreMessage(w)
  \/ StoreParts(w) \/ MarkNormalized(w) \/ AddAgentJob(w) \/ ReleaseLock(w)
  \/ SettleJob(w) \/ AddDeadLetter(w)

Next ==
  \/ \E r \in Requests : Handler(r) \/ HandlerFails(r)
  \/ \E w \in Workers : Step(w) \/ CallFails(w) \/ Crash(w)
  \/ \E w \in Workers, i \in Job : StartJob(w, i)
  \/ \E i \in Job : StalledCheck(i) \/ StoreDeadLetter(i)
  \/ \E k \in Clients \X ExternalIds : LockExpires(k)
  \/ \E i \in Job, id \in ReplayIds : ReplayDeadLetter(i, id)
  \/ RemoveDeadLetter \/ ReplayFails
  \/ \E c \in DOMAIN conversations, s \in StatusInputs : UpdateStatus(c, s)

Spec == Init /\ [][Next]_vars

\* What Node's event loop and Bull see to: a handler that has started goes on,
\* a runnable job is taken, stalled jobs are found, Redis keys expire.
Fairness ==
  /\ \A r \in Requests : WF_vars(Handler(r))
  /\ \A w \in Workers : WF_vars(Step(w))
  /\ \A i \in Job : /\ WF_vars(\E w \in Workers : StartJob(w, i))
                    /\ WF_vars(StalledCheck(i))
                    /\ WF_vars(StoreDeadLetter(i))
  /\ \A k \in Clients \X ExternalIds : WF_vars(LockExpires(k))

FairSpec == Spec /\ Fairness

-----------------------------------------------------------------------------
(* Properties.                                                             *)

\* Every variable holds rows, jobs and counters of the expected shape.
TypeOK ==
  /\ handler \in [Requests -> {"new", "checked", "recorded", "queued", "rejected", "lost"}]
  /\ inbound \in [Requests -> {"absent", "received", "normalized"}]
  /\ jobs \in [Job -> JobOf(Data)]
  /\ worker \in [Workers -> Run]
  /\ lock \subseteq Clients \X ExternalIds
  /\ identity \in [Clients \X ExternalIds -> Nat]
  /\ endUsers \in Nat
  /\ conversations \in Seq(Conversation)
  /\ messages \in Seq(Message)
  /\ mediaJobs \subseteq Nat
  /\ agentJobs \subseteq AgentJob
  /\ deadLetter \in [Job -> {"none", "waiting", "stored", "failed", "removed"}]
  /\ retrying \in Job \cup {None}
  /\ faults \in 0..MaxFaults

\* The Redis lock does its work as long as no run outlives it: two workers are
\* never both between acquireLock and releaseLock for the same customer,
\* although DEL does not check who set the key and crashes leave it behind.
OneRunPerCustomer ==
  \A v, w \in Workers :
    /\ InCritical(v) /\ InCritical(w)
    /\ LockKey(DataOf(v)) = LockKey(DataOf(w))
    => v = w

\* findOrCreate is a find and a create with nothing but that lock around them:
\* an end user never has two open conversations under the same key.
OneOpenConversation ==
  \A c, d \in DOMAIN conversations :
    /\ IsOpen(c) /\ IsOpen(d)
    /\ conversations[c].endUser = conversations[d].endUser
    /\ conversations[c].key = conversations[d].key
    => c = d

\* resolveEndUser creates the end user before its identity, and may fail in
\* between or lose a race: such an orphan never gets a conversation.
ConversationsHaveAnIdentity ==
  \A c \in DOMAIN conversations :
    \E u \in ExternalIds :
      identity[<<conversations[c].client, u>>] = conversations[c].endUser

\* A job Bull calls completed left a normalized event, a stored message and an
\* agent job for that message behind, whatever failed before.
CompletedIsHandedOver ==
  \A i \in Job : jobs[i].state = "completed" =>
    /\ inbound[jobs[i].data.req] = "normalized"
    /\ \E m \in DOMAIN messages :
         /\ messages[m].job = i
         /\ [conv |-> messages[m].conv, msg |-> m] \in agentJobs

StoredFor(Rs) == {m \in DOMAIN messages : jobs[messages[m].job].data.req \in Rs}

\* Contention, retries after contention and dead-letter replays never store a
\* message twice; each copy beyond the first is paid for by a failure.
OneMessagePerRequest ==
  \A r \in Requests : Cardinality(StoredFor({r})) <= 1 + faults

\* Two requests with one idempotency key can both pass the duplicate check,
\* but the job id makes one job of them: still one message per key.
OneMessagePerKey ==
  \A k \in Keys :
    Cardinality(StoredFor({r \in Requests : Payload[r].key = k})) <= 1 + faults

\* Without failures a message is stored once, for its request and for its key.
DuplicatesNeedFaults == OneMessagePerRequest /\ OneMessagePerKey

\* A dead letter is only made of a job that used up its attempts, and nobody is
\* running that job then.
DeadLettersAreFinal ==
  \A i \in Job : deadLetter[i] # "none" =>
    /\ Exhausted(jobs[i])
    /\ \A w \in Workers : worker[w].job # i

\* Without crashes and failed calls no job disappears: one that failed for good
\* is in the dead-letter queue or about to be put there.
NothingLostWithoutFaults ==
  faults = 0 => \A i \in Job : jobs[i].state = "failed" =>
    \/ deadLetter[i] # "none"
    \/ \E w \in Workers : At(w, "listener") /\ worker[w].job = i

\* What Bull says of a job is true of its message: one that completed is handed
\* over, one that failed for good is a dead letter that nobody works on.
NothingIsLost == CompletedIsHandedOver /\ DeadLettersAreFinal /\ NothingLostWithoutFaults

\* A customer has one open conversation under a key, with a customer to it.
CustomersAreWhole == OneOpenConversation /\ ConversationsHaveAnIdentity

\* An answer "queued" means that a job for this message, or for an earlier
\* request with the same client and key, is in the queue.
QueuedMeansScheduled ==
  \A r \in Requests : handler[r] = "queued" =>
    \E i \in Job : /\ jobs[i].state # "absent"
                   /\ \/ jobs[i].data.req = r
                      \/ /\ Payload[r].key # None
                         /\ SameKey(r, jobs[i].data.req)

\* A message and the agent job made of it: the result of an ingestion job, and
\* the same passed on.
ResultsOf(i) == {m \in DOMAIN messages : messages[m].job = i}
PassedOn(i) == {m \in ResultsOf(i) : [conv |-> messages[m].conv, msg |-> m] \in agentJobs}

Work(i) == INSTANCE WorkItem WITH
  Limit <- TryLimit, Patience <- FewestTries, PerTry <- 1,
  status <- Status(jobs[i]), tries <- Tries(jobs[i]),
  results <- Cardinality(ResultsOf(i)), passed <- Cardinality(PassedOn(i)), wanted <- TRUE

\* Crashes, stalls, contention, failed calls and replays from the dead-letter
\* queue included, the pipeline does for every ingestion job what WorkItem
\* promises: this is Work(i)!Spec for every i, the quantifier inside the box.
ImplementsWork ==
  /\ \A i \in Job : Work(i)!Init
  /\ [][\A i \in Job :
          \/ Work(i)!Next
          \/ UNCHANGED <<Status(jobs[i]), Tries(jobs[i]), Cardinality(ResultsOf(i)),
                        Cardinality(PassedOn(i))>>]_vars

\* Every job added to the queue ends completed or failed, also when workers
\* crash and leave the lock of the customer behind.
JobsSettle == \A i \in Job : jobs[i].state = "waiting" ~> Settled(jobs[i])
=============================================================================
