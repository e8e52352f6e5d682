# A verification project for synexa-api

synexa-api is a multi-tenant NestJS back end for customer support chats. A message comes in through
a public API, is queued (Bull on Redis), stored in a conversation (PostgreSQL through Prisma),
answered by an agent (an LLM provider) or by a human operator, and the reply goes back through
webhooks. The program's own logic is in the asynchronous pipeline: at-least-once queues, Redis locks
that expire, read-modify-write sequences over several awaited calls, timers in memory, sockets, and
administrators and operators who change rows meanwhile. This directory models that pipeline in TLA+,
checks small instances with TLC and proves invariants for all instances with TLAPS.

- `X.tla` is the specification of a component, `MCX.tla` its instances for TLC, `MCX_run.cfg` one
  model-checking run, `XProofs.tla` the theorems about it. `Services` puts `MediaProcessing`,
  `AgentTurn`, `ClientSettings` and `VoiceSession`, with all their parameters, beside `TestChat`; `ServicesProofs` has the
  theorems about these four, and `MCServices` gives the parameters values and adds a serial `Handoff`.
- Operators named as mutants in their comment are wrong versions of the definition that follows them.
  No specification uses them; each shows that a property notices a plausible mistake.

Paths below are relative to `src/src/`.

## 1. The system

```
 POST public/messages                      PATCH / handoff / heartbeat (operators)
        |                                                  |
  ChannelsService ──> ingestion queue ──> IngestionProcessor ──> conversations, messages
  (inbound_events)        (Bull)           | lock:conversation    ^        |
                                           v                      |        v
                              media, agent-processing queues      |   HandoffDistributor,
                                           |                      |   OperatorPresence (Redis)
                                           v                      |
                                     AgentProcessor ── lock:agent ┘
                                           | OrchestrationService ── CircuitBreaker (Redis + memory)
                                           v                          FallbackProvider, LLM providers
                                  dispatcher queue ──> DispatcherProcessor ──> WebhooksService
                                                                               (rows + timers)
   failed jobs ──> dead-letter queue ──> retryAllDeadLetter (administrator)

   panel:  TestChatService (own leases, session, memory, tools), ClientsService + ClientMetadataService
           (settings of a client), VoiceGateway (browser socket <──> Google socket)
```

| Component | State | Operations | What must be right |
| --- | --- | --- | --- |
| Inbound API (`channels/services/channels.service.ts`) | `inbound_events` rows | duplicate check, event row, `addIngestionJob` | a request answered "queued" is queued; one message per idempotency key |
| Ingestion (`queue/processors/ingestion.processor.ts`) | the job, the customer's lock, end users, identities, conversations, messages | find or create, store, hand over; retry after failures | mutual exclusion per customer; one open conversation; nothing lost; duplicates only after failures |
| Bull (external) | job state, attempts, stalls | add, start, complete, fail, stall | assumed, see `BullJob` |
| Dead letters (`queue/queue.module.ts`, `queue/queue.controller.ts`) | sanitised copies of failed jobs | copy, store, replay, remove | only finished jobs are copied; replays do not mix identities or tenants |
| Presence (`conversations/operator-presence.service.ts`) | Redis keys that expire, last-seen times | heartbeat, status, offline, listing | - |
| Handoff (`conversations/handoff-distributor.service.ts`, `conversations.service.ts`) | `assigned_to`, mode, status | request, release, reassign, patch, distribute, sweep | operator limits, least loaded first, the queue drains, nobody waits on an operator who left |
| Agent (`queue/processors/agent.processor.ts`, `orchestrator/orchestration.service.ts`) | the job, the conversation's lock, `agent_runs`, replies | mode check, context, ask, store, dispatch, fallback | one reply per message, stored before sent, one run at a time per conversation, silence in manual mode |
| Circuit breaker (`orchestrator/services/circuit-breaker.service.ts`) | one Redis key per provider and client, a copy per instance | `canExecute`, `recordSuccess`, `recordFailure` | failures counted, closed by successes only, never open for good |
| Webhooks (`webhooks/services/webhooks.service.ts`, `webhooks.controller.ts`) | endpoints, delivery rows, timers in memory | deliver, retry, disable, delete | attempts in order and bounded, one holder per delivery, an end |
| Knowledge (`knowledge/knowledge.service.ts`, `queue/processors/knowledge.processor.ts`) | documents with a status, their chunks and embeddings | create, delete, ingest; retry, replay | "ready" means searchable as a whole; failures end in "failed", not in a document nobody works on |
| A run's state and tools (`orchestrator/orchestration.service.ts`, `agent-config-resolver`, `tool-call-dispatcher`, `gemini.provider.ts`) | `conversation_state`, `tool_calls` | choose the agent, search, call tools, write the state back | variables and switches survive; each call is carried out or accounted for, each search has an end |
| Media (`media/media.service.ts`, `queue/processors/media.processor.ts`) | `media_assets`, `message_parts`, files, the media queue | create, upload, perceive, copy; a run waits | answers wait for the text; row, job and file tell one story |
| Test chat (`orchestrator/test-chat.service.ts`) | leases, session rows, context, memory, runs | `send`, `clear`, tools, files, immediate takeover | one session and one answer at a time; what was learned and said is kept; runs end |
| Settings of a client (`clients/clients.service.ts`, `common/metadata/client-metadata.service.ts`, `agents/agents.service.ts`) | `provider_credentials`, `painel_clients.metadata`, `is_initial` | save keys, edit agents and refresh, migrate | table and metadata agree; one initial agent |
| Voice (`voice/voice.gateway.ts`) | the session record, sockets to the browser and to Google | start, speak, stop, leave, Google's events | one call at a time, nothing before its setup, a true status |

The remaining parts (CRUD of the panel, authentication and tenancy, reports, storage, adapters, web
search, utilities) are listed with their reasons under "components" in `PROJECT.json`; they hold no
ordering or concurrency of their own. Section 6 says what is left out of the parts that are modelled.

What makes this code hard to test, and where it does, is listed line by line under "hazards" in
`PROJECT.json`: queries followed by writes without a transaction; locks that expire and are deleted
by whoever finishes; jobs retried from the start after part of their effects; a catch clause that
covers more than it recovers from; timers lost by a restart; copies of a state in several processes;
JSON columns that several requests rewrite as a whole; events of sockets that are already given up.

## 2. Modules

| Module | Models | Composes |
| --- | --- | --- |
| `BullJob` | a job of a Bull queue as the processors can observe it | - |
| `IngestionPipeline` | request handlers, ingestion workers, dead letters | `BullJob`, implements `WorkItem` |
| `Handoff` | presence, distribution, the handoff half of conversations | - |
| `AgentPipeline` | agent workers, orchestration of one reply, operators taking over | `BullJob`, implements `WorkItem` |
| `WorkItem` | what both pipelines promise of one piece of queued work | - |
| `WebhookDelivery` | dispatcher workers, delivery rows, timers, endpoint administration | `BullJob`, implements `DeliveryChain` |
| `DeliveryChain` | what delivery promises of one callback to one endpoint | - |
| `KnowledgeIngestion` | documents of knowledge bases, their ingestion, its dead letters | `BullJob` |
| `CircuitBreaker` | the breaker of one provider of one client, and its callers | - |
| `AgentTurn` | one conversation's state under several runs: agent choice, searches, tools | - |
| `MediaProcessing` | assets, their jobs and files, the run that waits for them | `BullJob` |
| `TestChat` | the test chat of one external user, call by call | - |
| `ClientSettings` | keys, generated metadata and initial agent of one client | - |
| `VoiceSession` | one browser at the voice gateway and its sockets to Google | - |
| `Services` | what `MediaProcessing`, `AgentTurn`, `ClientSettings` and `VoiceSession` promise, beside the test chat | all five |
| `MCServices` | one instance of each part of `Services` and of a serial `Handoff`, side by side | all six |

In all of them an awaited call whose result or failure can be told apart is a step of its own, and
what a process keeps between two steps is a record of local variables with a `pc` (`worker`,
`request`, `dispatcher`, `caller`). Calls that fail, crashes and lost answers are explicit actions
with a common budget (`MaxFaults`, `MaxUpsets`), so a property can say what a failure may cost
("each duplicate needs a failure") and everything else must hold whatever fails.

### BullJob (external, as configured in `queue/queue.module.ts`)

The source uses Bull as a library. What is assumed: `queue.add` with a known id adds nothing, whatever
the state of that job (`Added`); a handler that throws spends an attempt and the job waits its backoff
or fails (`AttemptFailed`); a job whose worker died is put back at most `maxStalledCount` times
(`Stalled`). Retention of finished jobs (`removeOnComplete`, `removeOnFail`) is not modelled: a job id
stays known for ever, which is longer than in reality. Workers that are slow but alive are not taken for dead.

### IngestionPipeline

| State | Code |
| --- | --- |
| `handler`, `inbound` | each `processInbound` under way; `inbound_events.status` |
| `jobs`, `worker` | the ingestion queue; the local variables of each `process()` |
| `lock` | `lock:conversation:...` keys that are set |
| `identity`, `endUsers`, `conversations`, `messages` | the rows, in order of creation |
| `mediaJobs`, `agentJobs` | what was added to the next queues |
| `deadLetter`, `retrying` | the dead-letter queue; the loop of `retryAllDeadLetter` |

Requests: `CheckDuplicate`, `CreateInboundEvent`, `AddIngestionJob`, `HandlerFails`. Workers:
`StartJob`, `AcquireLock`, `FindIdentity`, `CreateEndUser`, `CreateIdentity`, `FindConversation`,
`CreateConversation`, `StoreMessage`, `StoreParts`, `MarkNormalized`, `AddAgentJob`, `ReleaseLock`,
`SettleJob`, `AddDeadLetter` (the "failed" listener), with `CallFails` and `Crash` at every step.
Around them: `StalledCheck`, `LockExpires`, `StoreDeadLetter`, `ReplayDeadLetter`,
`RemoveDeadLetter`, `ReplayFails`, and `UpdateStatus` of an operator.

Abstractions: one channel type (no query compares two except together with the client); one
administrator at a time replays dead letters; sanitising replaces a phone-like user id and the
conversation key by `Redacted`, which is all the properties can tell apart. `MaxStalls` and
`MaxAttempts` count as in Bull. `LockOutlivesJob` says whether a run may still be going on when its
30 s lock expires.

### Handoff

`conv` (mode, status, assigned_to), `presence` and `lastSeen` (Redis; `PresenceExpires` and
`LastSeenAges` let them run out), and `request`, the local variables of each HTTP request or tool call. A route starts at its
first awaited call and goes on with the shared `distribute()`: list the available operators, count the
chats of each with a query of its own, assign. `OperatorPresenceService.listAvailable` (keys, then mget)
is one read. The `message_events` rows these routes also write are never read back and are left out.
`Members`, the users of the company, do not change.

### AgentPipeline

`jobs`, `worker`, `lock`, `mode`, `replies` and `dispatched` (rows and jobs per message), `runs`
(`agent_runs` by status), `skipped`, `underWay`. Actions: `CheckMode`, `AcquireLock`, `OpenRun`,
`PrepareContext`, `Ask`, `Recover` (the catch clause with `resolveFallback`), `StoreReply`,
`CompleteRun`, `FailRun`, `AddDispatchJob`, `ReleaseLock`, `SettleJob`, the failures, and operators who
hand over and give back. What the breaker answers is chosen freely among the providers in `MayOpen`.
Prompt, history, tools and the retry loop around one provider call are abstracted to the call's outcome. Only
`GeminiProvider` implements `chatWithParts`, hence `Multimodal`.

### WorkItem

The promise the ingestion and the agent queue make of each of their jobs: tried by one run at a time, at most
`Limit` times; at most `PerTry` results a try, stored before they are passed on; completed only once a result was
passed on, or none is wanted any more; given up only after `Patience` tries. It does not promise that work is done
once. Each pipeline reads its state off its own rows (`Work` in its module; `Status` and `Tries` in `BullJob`):

| `WorkItem` | `IngestionPipeline` | `AgentPipeline` |
| --- | --- | --- |
| `tries` | attempts and stalls used, and the one under way | the same |
| `results` (`PerTry`) | messages stored for the job (1) | replies stored (2: a fallback may store another) |
| `passed` | those that have an agent job | replies with the dispatcher |
| `wanted` | always | until an operator is found to have the conversation |

A job completes or fails by `Complete`, `TryAgain` and `GiveUp`, `Stalled` among them. `Limit` and `Patience` are
computed from `MaxAttempts` and `MaxStalls`, because either can run out first.

### WebhookDelivery and DeliveryChain

A dispatcher job delivers to the endpoints of the client one after the other (in any order), each with
a chain of `webhook_deliveries` rows, one row per attempt. A failed attempt sets a timer in the memory
of its process; when it fires, `processRetry` sends again and creates the next row before it updates its
own. `received` counts what the endpoint took: an answer may be lost after the endpoint has taken the
callback. A restart (`Crash`) loses timers and retries under way; a deletion removes the rows of an
endpoint, then the endpoint, and the foreign key refuses the second step if a row was added meanwhile.
Faults and deletion requests share the budget `MaxUpsets`.

`DeliveryChain` is the promise: attempts numbered from one, one after the other up to a limit, then
"delivered" or "dead" and nothing after that. `ImplementsChains` is the refinement, for every chain,
with `attempt` and `outcome` read off the latest row. (The column comment in `prisma/schema.prisma:356`
lists "cancelled" where the code writes `dead`.) The dead letters of this queue are not modelled here.

### KnowledgeIngestion

| State | Code |
| --- | --- |
| `bases`, `status` | `knowledge_bases` and `knowledge_documents` rows; "absent" and "deleted" are documents without a row |
| `chunks`, `embeddings` | `knowledge_chunks` rows and those that have a `knowledge_embeddings` row |
| `request` | `createDocument` between its INSERT and `addKnowledgeJob` |
| `jobs`, `worker` | the queue; the local variables of each `ingestDocument` |
| `deadLetter`, `retrying` | as in `IngestionPipeline` |

`FindDocument`, `MarkProcessing`, `ClearChunks`, `CreateChunk`, `Embed`, `MarkReady` and `Catch` are the
awaited calls of `ingestDocument` in their order; `CallFails` is the rejection of any of them and leads to
the catch clause or, outside the try, straight to a failed job. `DeleteDocument` and `DeleteBase` may happen
between any two of them; the foreign keys (`onDelete: Cascade`) take chunks and embeddings along and
refuse rows of documents that are gone. A row's `by` tells apart what its generated id does in the
database: which run stored it. `createEmbedding` and the INSERT of the embedding are one step, since
nothing is written between them. A run whose crash is followed by a stalled check leaves no zombie
behind, as in the other pipelines. `chunkText` works on a text of characters that are or are not white
space, and a chunk is the set of the positions it holds, so that "covers" and "overlaps" can be said of it;
pieces of white space are left out when they are cut, in the code at the end (`filter(Boolean)`). `MaxLength`
bounds only the texts TLC tries it on.

`MaxHalfReplays` bounds the replays that add the new job and do not remove the dead letter, because
those can be repeated and then two jobs of one document are in the queue; `MaxFaults` bounds all other failures.

### CircuitBreaker

One key: one provider of one client. `redis` is its value, `memory` the copy of each instance, `caller`
a run of `processMessage` around its provider call, `now` a clock in ticks. `recordFailure` reads and
writes in separate steps; every Redis call may fail, which the code swallows. Two history variables
serve the properties: `streak`, the failures written since the last success, and `overwritten`, which
remembers that a failure was written over a record it had not seen. `lastFailureTime` and the health
of credentials are left out, and the day after which the key expires counts as a fault.

### AgentTurn

Where `AgentPipeline` asks whether a reply is given once, this module looks inside a run at what it does
to the conversation. `Begin`, `ReadState`, `ChooseAgent` (`resolveAgentConfig`) and `SaveState` are
`processMessage` up to its write of the *whole* state; `OpenSearch`, `Embed`, `SearchText` and
`CloseSearch` are `searchRag`, as context and as tool, with its `tool_calls` row; `Ask`, `ReadFresh`,
`SetVariable`, `SwitchAgent`, `SearchTool`, `MediaTool`, `WebSearchTool`, `TransferTool` and `SendResult`
are the tool loop of `chatWithParts` with every tool of the dispatcher. A failed exchange is repeated
(`AttemptFails`), tools included. Runs of the agent queue (`FromQueue`) hold the lock, those of the
compatibility endpoint do not. Agents may be switched off meanwhile (`Deactivate`). `announced` and the
flag `met` and `owed` of a run are history: the agent the model was told of last, whether another run was under way, and
the agent the run before was told of.

### MediaProcessing

`row`, `files`, `linked` are the rows and the storage; `request` the four ways an asset is made (by a
message, by the panel, by upload); `worker` the steps of `process()` in their order: find, mark, perceive,
ready, fetch again, store, path, with the catch clause; `reader` the run of the agent that polls
(`waitForMediaProcessing`) and then builds its input. Texts are "some", "empty" or "none".

### TestChat

One (client, channel, external user), which is the key of the session and of its lease. `req` is each
HTTP request with its `pc`; `identityLock` and `chatLock` are the leases of 15 and 30 seconds, which are
deleted by whoever ends and may run out (`Lapses`) while their holder still works. `send` is one action
per awaited call from `IdentifyAnyway` to `ReleaseChatLock`, including memory in Redis, the run rows of
both rounds, tools (`UseApi`, `UseSearch`, `TransferToHuman`), files, the context written back as a whole
and the second agent that takes over at once; `clear` lists, wipes and deletes. A file is its type (an image,
a sound, another type that is taken, or none that is) and what is in it (nothing, something that fits, or too
much); `Refused` is what `storeInlineAsset` throws for, outside the try of the run: the type, an empty or
too large file, or no storage. ("Too large" takes an `UPLOAD_MAX_SIZE` below the 5 MB of the request itself.)
The runs have a storage; without one each file is refused like these, and the theorems cover both. Messages are pairs of a
request and a role, variables are model values; what is said is left out. `alone` is history.

### ClientSettings

`saveLlmConfig` (one row of `provider_credentials` after the other, then the metadata it read at its
start), `refresh` after a change of agents or APIs (query, read, write), the clearing of `is_initial` on
the others, and the migration script. A key is the save that sent it. `version` counts what the metadata are
generated from. `last`, `excused` and `dated` are history and say when the properties apply: a call that
met another, failed, or left a provider out excuses a difference until a later save on its own mends it.

### VoiceSession

Every handler is one step. A socket to Google keeps emitting after the session has let go of it: the
listeners that `closeGoogleSession` removes (`heard`) and the one for 'error' it leaves are told apart.
`early` remembers audio that was sent to a socket whose setup had not been taken.

### MCServices

The six components in it share no state, so their product would only repeat itself; each behaviour chooses
one of seven instances in the beginning (`part`) and moves that one. The test chat appears twice: with two
messages and a `clear`, and ("takeover") without `clear` but with files and an immediate second agent
that has a key. `Handoff` appears with one request at a time.

## 3. Properties and runs

Every run is a question. "V" marks one that must find a violation.

| Run | Instance and bounds | What it shows |
| --- | --- | --- |
| `ingestion_core` | two messages of one customer (one with an image), two workers, 2 attempts, 1 stall, 1 fault, conversations closed by hand | `OneRunPerCustomer`, `CustomersAreWhole` (one open conversation, with an identity), `NothingIsLost` (completed jobs are handed over, failed ones are dead letters nobody runs), `ImplementsWork` (the refinement of `WorkItem`); `JobsSettle` under fairness |
| `ingestion_keys` | a request, its repetition with the same key and a third one that names a conversation, replays with redacted data, 1 fault | `DuplicatesNeedFaults`, per request (`OneMessagePerRequest`) and per key (`OneMessagePerKey`) |
| `ingestion_sharedkey` V | two clients with the same idempotency key | `QueuedMeansScheduled` fails |
| `handoff_overlap` | two requests at a time, three conversations, limit 1 | the limit can be exceeded, by at most one chat per other request (`OverCapacityNeedsOverlap`) |
| `handoff_live` | two requests, two operators who come and go, reassignment and release by hand, one fault | `QueueDrains`, `AbandonedAreMoved` |
| `agent_core` | two messages of one conversation, two workers, groq with a fallback to gemini, 2 attempts, 1 fault, takeovers | `OneReplyAtATime`, `RepliesNeedFaults`, `RunsEnd`, `TurnedAwayByOthers` (attempts that providers did not fail were lost to other messages of the conversation), `OnlyUnderWayAnswer`, `ImplementsWork`; `AgentJobsSettle` under fairness |
| `agent_manual` V | as above, no tools | `NoReplyInManualMode` fails |
| `webhook_core` | one job, an endpoint with three attempts and one with a single attempt that is switched off and on, one upset | `AttemptsAreOrderly` (one holder per delivery, nothing forgotten, one delivery per acceptance without a cause), `ImplementsChains`; `DeliveriesSettle` under fairness |
| `circuit_core` | three runs at two instances, four calls, threshold 3, one fault, three ticks | `FailuresAreCounted`, `NeverShutForGood`, `OnlySuccessCloses` |
| `knowledge_core` | a document of two chunks and one of white space in one base, two workers, 2 attempts, 1 stall, 2 faults, one replay | `ReadyIsComplete`, `StrandedNeedFaults`; `DocumentsBecomeReady` under fairness; `PassagesStayWhole`: `chunkText` on every text of up to eight characters |
| `services` | seven instances, below | 14 properties, below |
| `testchat_transfer` V | an agent without a knowledge base | `TransfersAreReal` fails |

The instances of `services`, each with one failure:

| Part | Instance | What it shows |
| --- | --- | --- |
| test chat, takeover | two messages of one user and a `clear`; two agents, one conditional and immediate; memory of three | `OneAnswerPerConversation` and `SessionsAreSingle` (one more for each lease that ran out or failed call: deleting a foreign lease does not spread), `MemoryFollowsMessages`, `ContextSurvives`, `RunsEndWithTheirRequest` (a run is left "running" only by a failure, a refused file or a clear, and is a success just when its reply stands) |
| media | an audio and an image of a message, an upload, a registered file; one worker, one run that waits; 2 attempts, 1 stall | `AnswersWaitForText`, `JobsTellTheirAsset`, `PathsHaveFiles` |
| turn | three runs of one conversation, one of them without the lock; two calls of the first; two agents with a condition | `VariablesSurvive` (an action property), `SwitchesHold`, `CallsEnd` (each call of an answered run was carried out or was overtaken, and a search stays "running" only by a failure) |
| settings | two saves, two edits, the script, any two of them; one provider, two agents | `SettingsHold`: the keys and what is generated agree but for what calls left that overlapped (`SettingsAgree`), and two agents are never both initial (`OneInitialAgent`) |
| voice | three calls, one failed connection | `CallsAreOrderly` |
| handoff | one request at a time, two conversations, limit 2 | `DistributionIsOrderly`: the least loaded is chosen, only waiting conversations are given away |

Several of these hold only up to an exception, and the exception is part of what they say: `ContextSurvives`
and `VariablesSurvive` exempt runs that met another one, because both write back a whole they read before;
`SwitchesHold` exempts overlaps, runs another one switched before they had read the state, and agents
switched off; `SettingsAgree` exempts calls that met each other; `OneInitialAgent` says "at most one", because two
changes can clear each other's agent; `CallsEnd` counts as overtaken, and does not miss, the calls lost because another call of
the same reply was still to be; `TurnedAwayByOthers` says who may cost a message its attempts, not that it keeps any.
These are the losses the code really allows, and the properties say that there are no others.

Why the bounds are enough for these questions: two workers and two messages are what a race on a
lock or a row needs, and a third party is there where it matters (another client, another instance, a
presence key without a user, a third run after an overlap). Two attempts instead of three still have a
first one, a retry and a last one that fails for good. One fault can fall at any step, and a crash with
its stalled job, the expiry of its lock and the retry all come out of a single one. The threshold of the
breaker is kept at three, the limit of an endpoint with the default policy too. A memory of three holds
more than one exchange and less than two. `agent_core` has `MaxStalls = 0` (a crash fails the job) and
one provider that may be found open to stay small; the proofs of section 5 cover every value.
`circuit_core` has `HasFallback = FALSE`: with no fallback the code calls the provider with an open
circuit all the same, which allows more behaviours than a fallback does.

`StatusInputs = {"closed"}` in `ingestion_core`: an operator who reopens a closed conversation by PATCH
can make two open ones by hand, whatever the pipeline does. Deadlock is not checked where a pipeline
rightly comes to rest when all its jobs are settled and its budgets are spent; the runs of `Handoff`,
whose operators never stop, check it.

### Fairness

- Ingestion and agent: weak fairness of each worker's steps, of taking a runnable job, of the stalled
  check, of lock expiry, and for ingestion also of request handlers and the dead-letter worker. A process that is up goes on with what it awaits, Bull promotes delayed
  jobs and checks for stalled ones on timers, Redis expires keys. Nothing is assumed of clients,
  operators or administrators, and a failed call or a crash is never made to happen.
- Handoff: weak fairness of the steps of requests that have started, and nothing else. That somebody
  keeps sending heartbeats or listing conversations is a premise of the two properties, because it is
  operators' browsers that do it. `QueueDrains` further assumes an operator who stays available with room.
- Knowledge: weak fairness of each worker's steps, of taking a job, of `addKnowledgeJob` once the row is
  written, and of the stalled check. `DocumentsBecomeReady` needs no more: with fewer failures than
  attempts (and no more than Bull's stalls) a document with text becomes ready, unless it is deleted.
- Webhooks: weak fairness of dispatcher steps, timers and retries. `DeliveriesSettle` exempts
  behaviours with a fault, because a timer lost by a restart is not set again by anything
  (`webhooks.service.ts:143`).
- The parts of `services` are checked for safety only and state no fairness. That a media job, a run or a
  tool call comes to an end is said as an invariant instead ("settled jobs have told their asset",
  "nobody under way leaves a row running").

## 4. Where the code and its own words differ

Runs that fail, each listed under "findings":

1. `ingestion_sharedkey`: the Bull job id is the bare idempotency key (`queue/queue.service.ts:93`), the
   duplicate check is per client and channel. The second client to use a key is answered "queued" and its
   message is never processed.
2. `agent_manual`: the mode is read once, before the lock, the media and the provider
   (`queue/processors/agent.processor.ts:49`). A reply is still stored and sent when an operator has
   taken over meanwhile. `OnlyUnderWayAnswer`, proved below, says how far this goes: only runs past
   the check at that moment, never a later one.
3. `testchat_transfer`: the test chat's transfer tool hands over only when the agent has a knowledge base,
   and tells the model "transferido ... com sucesso" all the same (`orchestrator/test-chat.service.ts:2296`-`2305`).

Observed while modelling, without a run of their own:

- Two requests with one key can both pass the duplicate check and are both answered 202; the job id makes one
  job of them (`channels.service.ts:69`), which `OneMessagePerKey` relies on.
- A heartbeat without a status is commented as keeping the current one and sets "available"
  (`operator-presence.service.ts:23` and `:29`).
- A queued assignment is written without looking again and overwrites a reassignment made by hand
  meanwhile (`handoff-distributor.service.ts:105`); with one request at a time this cannot happen
  (`DistributionIsOrderly`). It also does not ask again whether the operator is still there (line 23).
- PATCH with mode "auto" keeps `assigned_to`, so the next handoff goes to the former operator whether or
  not they are there (`conversations.service.ts:200`).
- A process that dies between the event row and `queue.add` leaves an event nobody processes, and a
  repetition with its key is taken for a duplicate (`channels.service.ts:98`).
- Losing a lock spends one of three attempts, although the log says "will retry"
  (`agent.processor.ts:67`, `ingestion.processor.ts:31`): contention alone can send a message to the dead letters.
  No property forbids it; `TurnedAwayByOthers` says that it takes another message of the conversation.
- A multimodal request is not recovered when the first fallback with a key is not multimodal, even if a
  later candidate is (`orchestration.service.ts:365`-`386`).
- A replay that fails between adding the job and removing its dead letter (`queue/queue.controller.ts:134`)
  can be repeated, and two runs of one document then delete and create each other's chunks: one can mark the
  document "ready" between the deletion and the insertions of the other. `ReadyIsComplete` is stated, and
  proved, for behaviours without such a replay.
- The search does not look at the status of a document, so chunks of one that is being ingested, or has
  failed, are found (`knowledge.service.ts`, `search`).
- `HALF_OPEN` lets every caller through, and a stale failure record can close an open circuit or open
  a closed one; a rate limit opens the circuit at once, and after its cooldown one failed probe
  below the threshold is written back as `HALF_OPEN`.
- The catch around the provider call also covers `addMessage` and `completeAgentRun`: a database error after
  the reply was stored counts against the provider, and the fallback stores a second reply
  (`orchestration.service.ts:358`); `RepliesNeedFaults` counts it.
- The catch clause of `ingestDocument` awaits an update of its own: when that fails too, the document stays
  "processing" (`StrandedNeedFaults`).
- Agent: `pending_agent_id` is never cleared, so after a switch the activation conditions are not
  looked at any more. A web search through the dispatcher always fails, because the agent's id is written
  where a client's is required. A call the model asks for in answer to the first of two calls is lost
  (`gemini.provider.ts:307`). `retryWithBackoff` repeats the tools of a failed exchange.
- History: `findById` loads the oldest 50 messages (`conversations.repository.ts:83`) and `buildHistory` uses the last 20 of
  these (`orchestration.service.ts:530`), so after 50 messages it does not move on. It is a function of the
  stored messages alone and is not modelled.
- Media: an asset is "ready" before its copy and path are written, so an agent that takes images as
  files may not be given it; local storage keeps the path of a failed upload; a part of type "file" with
  a URL stays "pending" and makes every run wait its 15 s; "failed" ends the wait although Bull will retry.
- Settings: a key can never be cleared: the branch commented "Chave foi limpa -> revoga"
  (`clients.service.ts:495`) is not reached. A provider left out of a save disappears from the metadata, and a
  later masked save stores an empty key there. Overlapping saves and refreshes restore old keys. Two
  overlapping changes of the initial agent may leave none. A refresh writes the generated part and
  `llm_providers` only and drops any other key, such as the `max_concurrent_chats` that
  `handoff-distributor.service.ts:47` reads.
- Voice: stopping or starting while a call connects lets the old socket's 'error' reach the browser; a
  setup Google never answers has no timeout; a `new WebSocket` that throws leaves "connecting".
- Test chat: the immediate takeover looks for a key in the metadata only, not in the table.

## 5. Theorems

All hold for every value of the constants, under the named assumptions on them only
(`BullAssumption`, `IngestionAssumption`, `HandoffAssumption`, `AgentAssumption`, `CircuitAssumption`,
`KnowledgeAssumption`, `NoneAssumption`, `WebhookAssumption`, `TestChatAssumption`, `VoiceAssumption`,
`MediaAssumption`, `SettingsAssumption`, `TurnAssumption`), which TLC evaluates in the runs.

| Theorem | States | Argument |
| --- | --- | --- |
| `IngestionProofs!TypeCorrect` | `[]TypeOK` | `Inv`: types, a run's job is active and nobody else's, an unsettled job has attempts left |
| `IngestionProofs!MutualExclusion` | `LockOutlivesJob /\ Spec => []OneRunPerCustomer` | `LockInv` adds that whoever is inside the critical section has its lock set; then a second worker cannot enter, and a release deletes only one's own lock |
| `IngestionProofs!WholeCustomers` | `LockOutlivesJob /\ StatusInputs \subseteq {"closed"} /\ Spec => []CustomersAreWhole` | `CustomerInv`, see below |
| `IngestionProofs!AccountsBalance` | `[]NothingIsLost`, whatever the lock does | `DeadLetterInv`, `HandoverInv`, `LossInv`, see below |
| `IngestionProofs!FewCopies` | `[]DuplicatesNeedFaults`, also when runs outlive their lock | `LineInv` and `CopiesArePaid`, see below |
| `IngestionProofs!WorkIsDone` | `ImplementsWork`: the refinement of `WorkItem` | `Counted`, on top of `HandoverInv` and `LineInv`, see below |
| `HandoffProofs!RequestsTyped` | types of the requests' variables, whatever the routes | `Typed` |
| `HandoffProofs!OverlapBound` | `OverCapacityNeedsOverlap`, if nobody assigns, releases or reopens by hand (`NothingByHand`) | `BoundInv`, see below |
| `HandoffProofs!OrderWithoutOverlap` | `DistributionIsOrderly`, an action property, with one request at a time and no edits in the panel (`OneAtATime`) | `SerialInv`: the loads counted so far are the loads, and what is still to be distributed still waits |
| `AgentProofs!TypeCorrect`, `AnsweredOnce`, `StoredBeforeSent`, `CompletedJobs`, `RunsAreEnded` | `TypeOK`, `RepliesNeedFaults`, `DispatchedIsStored`, `CompletedIsDispatched` (these two are proved only: no run repeats them), `RunsEnd` | one `Inv` for all |
| `AgentProofs!MutualExclusion` | `LockOutlivesJob /\ Spec => []OneReplyAtATime` | `HoldersAreLocked`, as for ingestion |
| `AgentProofs!WorkIsDone` | `ImplementsWork`: the refinement of `WorkItem` | `WorkInv`, see below |
| `AgentProofs!OthersTurnAway` | `[]TurnedAwayByOthers`, also when runs outlive their lock | `ContentionInv`, see below |
| `AgentProofs!HandedOver` | `[]OnlyUnderWayAnswer` | only `CheckMode` admits a run, and only in automatic mode |
| `ServicesProofs!SwitchesAreKept`, `CallsAreAccountedFor` | `[]SwitchesHold`, `[]CallsEnd` of `AgentTurn` | `TurnInv`, see below |
| `ServicesProofs!VariablesAreKept` | `VariablesSurvive`, an action property | `Meetings`, a part of `TurnInv` |
| `CircuitProofs!TypeCorrect` | `[]TypeOK` | lemmas about `evaluateState`, `Updated` and `getState` |
| `CircuitProofs!AnotherChance` | `[]NeverShutForGood` | `AllTimed`: every copy, in Redis, in a memory or about to be written, has a next attempt within a cooldown |
| `CircuitProofs!Counting` | `[]FailuresAreCounted` | `CountInv` relates what up-to-date callers are about to write to `streak` |
| `CircuitProofs!ClosedBySuccess` | `OnlySuccessCloses`, an action property | `CloseInv`: an up-to-date failure record does not close |
| `KnowledgeProofs!TypeCorrect` | `[]TypeOK`, with the foreign keys | `Inv`: a run's job is active and nobody else's, a dead letter belongs to a failed job nobody works on, no job before its request |
| `KnowledgeProofs!ReadyDocuments` | `[]ReadyIsComplete` | `StoredInv`, see below |
| `KnowledgeProofs!StrandedDocuments` | `[]StrandedNeedFaults` | `RisksAreCounted`, see below |
| `KnowledgeProofs!ChunksKeepPassages` | `chunkText` ends, keeps each passage of up to `Overlap` + 1 characters whole and makes no chunk that is empty or too long, for every text | `LoopEnds`, `AllWhole`, see below |
| `KnowledgeProofs!Passages` | `[]PassagesStayWhole` | from `ChunksKeepPassages` |
| `WebhookProofs!Inductive` | `[]IInv`, which has `TypeOK` | each part of `IInv` for each group of actions |
| `WebhookProofs!Orderly` | `[]AttemptsAreOrderly` | `Budget`, see below |
| `WebhookProofs!Implements` | `ImplementsChains`: the refinement of `DeliveryChain` | each step moves each chain by a step of it or not at all; `HoldersDecide` |
| `TestChatProofs!ChatInductive` | `[]IInv` of the test chat, with its types | see below |
| `TestChatProofs!OneAnswers`, `OneSession` | `[]OneAnswerPerConversation`, `[]SessionsAreSingle` | `AnswersAreCounted`, `SessionsAreCounted` |
| `TestChatProofs!ContextIsKept` | `[]ContextSurvives` | `ContextIsCurrent` |
| `TestChatProofs!RunsEnd` | `[]RunsEndWithTheirRequest`, with a storage or without | `RunsAreUnderWay` for the runs left, `IsTold` for the replies, see below |
| `TestChatProofs!MemoryIsFaithful` | `[]MemoryFollowsMessages` | `MemoryInv` on top of `IInv`, see below |
| `ServicesProofs!OrderlyCalls` | `[]CallsAreOrderly` | `Linked`: only the session's own socket is listened to |
| `ServicesProofs!MediaJobsTell`, `MediaPathsLead`, `MediaAnswersWait` | `[]JobsTellTheirAsset`, `[]PathsHaveFiles`, `[]AnswersWaitForText` | `MediaInv`, see below |
| `ServicesProofs!SettingsSettle` | `[]SettingsHold` | `IInv`, see below; `OneLeft`, a part of it: while two agents are initial, a call that clears all but one is still to come |

Why the invariants have to be stronger:

- **Customers.** "One open conversation" says nothing of a run that has looked and not yet created.
  `StillMissing` says that what it is about to create is still missing, which other workers leave true only
  because an end user has one identity (`IdentitiesAreDistinct`, `LinksAreFresh`), an identity one lock key,
  and the lock one holder. The two assumptions are needed: with an expired lock two runs create, and an
  operator who sends "active" for a closed conversation has two open at once.
- **Accounts.** `RunsKeepTheirWord` fixes what a run that has not failed has stored, marked and added by
  each `pc`, so that it completes its job with everything behind it; rows only grow and a settled job is
  never touched again, so that it stays behind it. `ListenersComeFirst` gives each exhausted job one listener
  before its dead letter, `IdleHoldsNothing` nobody after it. `ActiveAreRun` says that without a failure every
  active job has its worker: stalls, the one way around the listener, need a crash.
- **Copies.** "At most one copy and one more per failure" says nothing of what is still to be stored.
  `MayStore(i)` holds of a job that will store its message although nothing fails any more: it waits, or its
  run has not got there, or it failed for good and its listener, its dead letter or a replay is still to
  come. `CopiesArePaid` bounds copies and such jobs together by 1 + `faults`: storing turns the one into the
  other, a replay passes it from the dead letter to the new job in one step, and only a failure makes one
  more. Requests with one key, and all replays, are one `Line`; `LinesHaveAHead` says that
  the job id of a line stays in the queue, so that a line never begins twice. Locks play no part in it.
- **Agents.** `RepliesNeedFaults` says nothing of a job between its steps. `Progress(w, job)` fixes, for
  each `pc` of a run, what has been stored, dispatched and written to `agent_runs` by then, and `AtRest(j)`
  the same for a job nobody runs. Each action moves a run from one clause to the next, and the lemmas
  `OthersKeepProgress` and `OthersKeepRest` say that the clauses of other jobs are not disturbed.
- **Contention.** An attempt is counted when a job settles, long after its run was turned away. `SpendsWithReason` keeps the
  reason meanwhile: who was turned away has `Company`, who failed has a failed row ahead of its attempts. Company is
  for good, because a run leaves the critical section with its row written (`Recorded`); and `KeysAreHeld` says
  that, without failures, whoever finds a key set meets the run that set it.
- **Work.** That each step is a step of `WorkItem` needs what its guards ask for. "At most so many results in a
  try" says nothing of the runs that will store more: `ResultsAreBounded` (ingestion) keeps one message to spare for a
  run that has not stored its own, `RepliesAreBounded` (agent) adds to the replies stored those a run may still store
  (`Left`: two before the provider has answered, one of them a fallback's). A new try makes room
  for exactly that many. `AgentJobsHaveMessages` keeps an agent job from being taken for that of a message not yet stored.
  That a completed job has passed something on is `RunsKeepTheirWord` for ingestion and `Progress` for the agent.
- **Turns.** "The chosen agent is the one that was announced" says nothing of the state between two runs, or of
  the copies of it that runs hold and will write back. `Owing` says that what a run owes is in the row and in each of these
  copies; `Announced` that as long as it may be owed nobody under way has met another. `Meetings` makes a
  copy the row itself unless runs overlapped. (The proof found that two overlapping runs, of which one switches before the
  other reads, leave nothing owed to the switch before, which instances where only one run calls tools do
  not show: the history variable `owed` now says so.) The calls of a model add up: asked are those used, overtaken
  or left in the round (`Counted`), also when an attempt fails and its round is thrown away.
- **Handoff.** The bound on an operator's chats is not inductive: a request that has read a load below
  the limit is allowed one more. `RoomBound` counts, for each operator, the conversations that are
  or may still become theirs (`Reach`) together with the requests that saw room (`SawRoom`):
  |Reach| + |SawRoom| <= MaxChats - 1 + |Requests|. An assignment moves one unit from the second set to
  the first; `Counted` shows that seeing room is only possible while the sum leaves place.
  Where nothing overlaps the distributor does better, and `Current` says why: nothing it has read changes
  before it writes. The hypothesis is needed: a chat closed between two counts, or taken over by hand before
  the assignment, makes both halves of `DistributionIsOrderly` false.
- **Circuit.** The count in Redis is exact only if the callers that are about to write had read the
  latest record, so `CountInv` speaks of `UpToDate(c)`, and of the memories, which answer when there is
  no key yet.

- **Knowledge.** "Ready means complete" says nothing of a run in its loop. `Stored` fixes that a run about
  to store chunk i has embedded exactly the chunks before i, unless the document has been deleted. This
  is kept only if no other run works on the document: `OneJobPerDocument` says that of all jobs that run,
  will run or may yet be replayed (`Live`), at most one is the document's. A replay adds a job and takes
  its dead letter out of `Live` in one step, and a half-done replay is exactly what breaks this.

  For `StrandedNeedFaults`, a document counts as lost from the moment no job will write its status any more
  (`AtRisk`), which is earlier than when its job has settled: `RisksAreCounted` charges it to the
  failed call or the crash at that moment, and no later step makes another one.

  `chunkText` is a loop, in the model a recursive function. The library's induction theorems cannot be
  instantiated here, but its least-element theorem can: `DownToZero` goes from the end of a text back to its
  beginning. `LoopEnds` shows in this way that the function has a value (each turn starts behind the one
  before it, because `Overlap < ChunkSize`), `AllWhole` that the passages behind each position are found:
  a passage ends in the piece of the turn, or begins behind the start of the next (`PieceOnTop`).

- **Webhooks.** Nothing locks a row: a dispatcher, a timer or a retry made by hand has it. `HoldersDecide`
  and `HoldersAreAlone` say that a row that can still change has one of them, which holds the latest attempt of its
  chain; this is what makes every step a step of `DeliveryChain`. How often an endpoint is called is a
  sum (`Budget`): what it received, the chains that are live, one more if a run is still to reach it, and
  what the deletions under way may yet repeat, against 1 + `faults` + 2 `removals`. `ChainsAreCounted` gives
  every run of a job a chain of its own.
- **Test chat.** Whoever comes to its end deletes the lease, whoever set it, so a lease says little about who is
  inside. `SessionsAreCounted` and `AnswersAreCounted` count instead: those inside, and one more if the
  lease lets one in, are at most 1 + `expiries` (+ `faults`, and the clears that have deleted the lease but not yet the
  conversation, `Wipers`). Somebody who deletes a foreign lease leaves as they do so, and the sum stands.
  `RunsAreUnderWay` says where the request of a "running" row is, or what excuses it; `IsTold`, for each round, that a
  success has its reply, and that only the step "complete" lies between a reply and its success.
  `ContextIsCurrent` says that a request nobody ran beside works on the context the row has.
- **Memory.** "The memory keeps the order of the messages" is kept by a save only if what is saved did, and that is
  the history a request took along many steps ago, with its question and answer: `HistoryFollows` says at each
  stage (`HasHistory`, `HasAsked`, `HasAnswered`, `HasSaved`) that it is a subsequence of the messages. Messages are only
  added at the end and memories cut at the front, which leaves subsequences alone. That none of the newest is missing
  holds only while no lease expires and nothing fails: then one request at a time answers (`AnswersAreCounted`), so what
  its history misses is its own or excused (`HistoryIsWhole`), what the memory misses besides is what it has
  yet to save (`MemoryIsWhole`), and a memory that holds a message does not lose it before the
  messages' own window does (`NewestSuffice`).
- **Media.** Why a job failed is forgotten once it has: `Cost` adds up, while it runs, the attempts and stalls it
  has used, one more if its run has an error or is gone, and one more for a path to nothing, which makes the next
  attempt fail; `CostIsPaid` bounds the sum by `faults`, so that a readable asset fails only by failures.
  (The local storage may leave such a path for every error it swallows, and each then costs all the attempts
  that are left: the proof found that the claim is false there from two failures on.) An asset
  counts as stuck from the moment nobody will write its status any more (`AtRisk`). `IsReadOnce` says that without a
  failure a text is written once, so that what a run of the agent was told stays true.
- **Voice.** The three parts of `CallsAreOrderly` speak of what was said and told; what makes a late event
  harmless is that nobody listens: a socket that is heard is the session's, and a session that is ready
  has one whose setup was taken.
- **Settings.** The properties speak of moments without calls. Between them, a save that meets nobody
  (`Unmet`) knows the metadata, and splits the providers into those it has not reached, which still agree, and
  those whose row is ahead of the metadata it will write (`Synced`). `Meeting` (of two calls under
  way each has met another) is why nothing need be said of the others: whoever has met somebody excuses all when it writes.

### What is only model-checked

Liveness under fairness (`JobsSettle`, `QueueDrains`, `AbandonedAreMoved`, `AgentJobsSettle`,
`DeliveriesSettle`, `DocumentsBecomeReady`) and `ENABLED` are beyond the prover. Every safety property of
the passing runs is proved.

## 6. Not modelled, and what could follow

- Access control and tenancy (guards, JWT, API keys), and the SSRF guard: other questions than these.
- Utilities (crypto, pagination, UUID, environment): functions of one value with unit tests.
- Storage providers and channel adapters, web search: file and HTTP I/O; they appear as calls that
  succeed or fail.
- Reports, listings, audit rows, seed data: read-only or append-only.
- CRUD of the panel apart from agents and keys: single rows. `duplicate()` of a client copies agents and
  APIs in several calls without a transaction; a failure leaves part of the copy, which nothing mends.
- Of the modelled parts: outbound sending of channels; retention of finished jobs; PATCH and listing of media;
  the numeric and text operators of the condition evaluator; `chat()` of the older providers; delays and
  rate limits (`checkRateLimit` has no caller); single dead-letter replays, which refuse Bull's ids.

What could follow: the ingestion and the agent queue in one specification, so that `passed` of an ingestion
job is `Accept` of an agent job; knowledge and media jobs as `WorkItem`.

## 7. Running the checks

    tlc -workers 2 -config MCIngestion_core.cfg MCIngestion
    tlc -workers 2 -config MCServices.cfg MCServices
    tlapm IngestionProofs.tla

Each run finishes within four minutes on two cores; the proofs of each module within ten
minutes.
