------------------------------ MODULE TestChat ------------------------------
(***************************************************************************)
(* TestChatService: the chat with which a panel user tries an agent.  The  *)
(* module follows one (client, channel, external user), the key both of    *)
(* the session and of its lock; no two such triples share anything.        *)
(* Requests are HTTP calls that run concurrently, one step per awaited     *)
(* call: send() takes a lease on the identity to find or create the        *)
(* conversation, reads the context, takes a lease on the conversation and  *)
(* answers under it; clear() deletes the conversations.  Leases are keys   *)
(* with a time to live, deleted by whoever finishes, holder or not.        *)
(***************************************************************************)
EXTENDS Naturals, Sequences, SequencesExt, FiniteSets

CONSTANTS
  Sends, Clears,    \* the requests: send() and clear()
  FilesOf,          \* [Sends -> SUBSET SUBSET File], what the message may carry
  Agents,           \* the active agents of the client, in execution order
  InitialAgent,
  Needs,            \* [agent -> the variables its activation condition asks for]
  Conditional,      \* the agents that have an activation condition
  Immediate,        \* activation_mode "immediate"
  Learns,           \* [agent -> the variables its API tools return]
  Foreign,          \* [agent -> variables named like an API it may not use]
  KnowledgeAgents,  \* capability rag, with knowledge bases
  GeminiAgents,     \* the others talk to groq or openrouter
  Configured,       \* agents for which provider, model and key can be found
  MetadataKeys,     \* agents whose provider has a key in the client's metadata
  HasStorage,       \* Supabase, or the local storage of a development server
  MemoryLimit,      \* memoryLimit
  MaxLoops,         \* tool rounds of callOpenAICompatible
  None,
  MaxTrouble        \* leases that run out while their holder still works, failed
                    \* calls and crashes, together

\* What the code asks of a file: "other" is a video, pdf, text or json, which is
\* stored but not looked at.
File == [type : {"audio", "image", "other", "unsupported"},
         data : {"fits", "empty", "too large"}]
Request == Sends \cup Clears
Agent == Range(Agents)
Var == UNION {Learns[a] \cup Needs[a] : a \in Agent}
Rounds == {"first", "second"}
Roles == {"user"} \cup Rounds

ASSUME TestChatAssumption ==
  /\ Sends \cap Clears = {} /\ IsFiniteSet(Request) /\ None \notin Request \cup Agent
  /\ FilesOf \in [Sends -> SUBSET SUBSET File]
  /\ Agents \in Seq(Agent) /\ IsInjective(Agents) /\ InitialAgent \in Agent
  /\ DOMAIN Needs = Agent /\ DOMAIN Learns = Agent /\ DOMAIN Foreign = Agent
  /\ Conditional \cup Immediate \cup KnowledgeAgents \cup GeminiAgents \subseteq Agent
  /\ Configured \cup MetadataKeys \subseteq Agent
  /\ HasStorage \in BOOLEAN
  /\ MemoryLimit \in Nat \ {0} /\ MaxLoops \in Nat \ {0}
  /\ MaxTrouble \in Nat

VARIABLES
  identity,      \* is there a channel_identities row (with its end user)?
  conversations, \* conversations rows in order of creation, with their messages,
                 \* conversation_state, and the memory in Redis
  identityLock,  \* lock:test-chat-identity:...
  chatLock,      \* lock:test-chat:<id>, by conversation
  run,           \* agent_runs rows of each request, by round
  req,           \* the local variables of each request
  alone,         \* requests that no other request has run beside
  expiries,
  faults

rows == <<identity, conversations, run>>
locks == <<identityLock, chatLock>>
counters == <<expiries, faults>>
vars == <<rows, locks, req, alone, counters>>

-----------------------------------------------------------------------------

Idle == [pc |-> "idle", conversation |-> 0, agent |-> InitialAgent,
         context |-> {}, history |-> <<>>, learned |-> {}, taught |-> {},
         round |-> "first", loops |-> 0, files |-> {}, told |-> FALSE,
         failed |-> FALSE, found |-> {}, todo |-> <<>>]

Before == {"identity lock", "identify", "register", "find", "create",
           "identity release", "context", "state", "configure", "chat lock", "chat relock"}

Locked == {"memory", "refill", "inbound", "run", "describe", "ask", "give up", "file",
           "part", "reply", "complete", "remember", "context back", "state back", "immediate"}

Clearing == {"list", "wipe", "unlock", "delete"}

PCs == {"idle", "done", "release"} \cup Before \cup Locked \cup Clearing

UnderWay(r) == req[r].pc \notin {"idle", "done"}

At(r, pc) == req[r].pc = pc

\* The conversation a request works on.
Own(r) == req[r].conversation

Open(c) == c \in DOMAIN conversations /\ ~conversations[c].deleted

Fresh == [deleted |-> FALSE, manual |-> FALSE, context |-> {}, agent |-> None,
          messages |-> <<>>, memory |-> <<>>]

Init ==
  /\ identity = FALSE
  /\ conversations = <<>>
  /\ identityLock = None
  /\ chatLock = <<>>
  /\ run = [r \in Sends |-> [round \in Rounds |-> "none"]]
  /\ req = [r \in Request |-> Idle]
  /\ alone = {}
  /\ expiries = 0
  /\ faults = 0

\* storeInlineAsset refuses a type that is not allowed, data that is empty or
\* over the limit, and everything when there is no storage.
Refused(f) == f.type = "unsupported" \/ f.data # "fits" \/ ~HasStorage

RefusedOf(files) == {f \in files : Refused(f)}

\* A request that is over forgets what no property asks about.
Forgetful(local) ==
  IF local.pc \notin {"release", "done"} THEN local
  ELSE [Idle EXCEPT !.pc = local.pc, !.conversation = local.conversation, !.taught = local.taught,
                    !.files = RefusedOf(local.files), !.told = local.told,
                    !.failed = local.failed]

Becomes(r, local) == req' = [req EXCEPT ![r] = Forgetful(local)]

Goto(r, pc) == Becomes(r, [req[r] EXCEPT !.pc = pc])

Throws(r, pc) == Becomes(r, [req[r] EXCEPT !.pc = pc, !.failed = TRUE])

Quiet == UNCHANGED <<rows, locks, alone, counters>>

\* The last n of a sequence: slice(-n), take: n in descending order.
Newest(seq, n) ==
  IF Len(seq) <= n THEN seq ELSE SubSeq(seq, Len(seq) - n + 1, Len(seq))

Begin(r, pc) ==
  /\ At(r, "idle")
  /\ LET others == {q \in Request : UnderWay(q)}
     IN  alone' = IF others = {} THEN alone \cup {r} ELSE alone \ others
  /\ Goto(r, pc)
  /\ UNCHANGED <<rows, locks, counters>>

-----------------------------------------------------------------------------
(* send(), before the lease on the conversation: resolveConversation and   *)
(* the reads that choose the agent.                                        *)

BeginSend(r) == r \in Sends /\ Begin(r, "identity lock")

\* Mutant of TakeIdentityLock: the answer of acquireLock is not looked at.
IdentifyAnyway(r) ==
  /\ At(r, "identity lock")
  /\ identityLock' = r
  /\ Goto(r, "identify")
  /\ UNCHANGED <<rows, chatLock, alone, counters>>

\* The lease is taken, or the request is told to come back.
TakeIdentityLock(r) ==
  /\ At(r, "identity lock")
  /\ IF identityLock = None
       THEN identityLock' = r /\ Goto(r, "identify")
       ELSE UNCHANGED identityLock /\ Throws(r, "done")
  /\ UNCHANGED <<rows, chatLock, alone, counters>>

FindIdentity(r) ==
  /\ At(r, "identify")
  /\ Goto(r, IF identity THEN "find" ELSE "register")
  /\ Quiet

\* end_users.create, then channel_identities.create: the unique key of the
\* identity refuses the second of two, whose end user stays an orphan.
Register(r) ==
  /\ At(r, "register")
  /\ IF identity
       THEN Throws(r, "identity release") /\ UNCHANGED identity
       ELSE Goto(r, "find") /\ identity' = TRUE
  /\ UNCHANGED <<conversations, run, locks, alone, counters>>

\* The newest conversation of the end user that is not closed.
FindConversation(r) ==
  /\ At(r, "find")
  /\ LET open == {c \in DOMAIN conversations : Open(c)}
     IN  Becomes(r, IF open = {}
           THEN [req[r] EXCEPT !.pc = "create"]
           ELSE [req[r] EXCEPT !.pc = "identity release",
                               !.conversation = CHOOSE c \in open : \A d \in open : d <= c])
  /\ Quiet

CreateConversation(r) ==
  /\ At(r, "create")
  /\ conversations' = Append(conversations, Fresh)
  /\ chatLock' = Append(chatLock, None)
  /\ Becomes(r, [req[r] EXCEPT !.pc = "identity release",
                               !.conversation = Len(conversations) + 1])
  /\ UNCHANGED <<identity, run, identityLock, alone, counters>>

\* finally: whoever holds the lease by now.
ReleaseIdentityLock(r) ==
  /\ At(r, "identity release")
  /\ identityLock' = None
  /\ Goto(r, IF req[r].failed THEN "done" ELSE "context")
  /\ UNCHANGED <<rows, chatLock, alone, counters>>

\* A conversation that is gone has an empty context.
LoadContext(r) ==
  /\ At(r, "context")
  /\ Becomes(r, [req[r] EXCEPT !.pc = "state",
        !.context = IF Open(Own(r)) THEN conversations[Own(r)].context ELSE {}])
  /\ Quiet

Activated(a, variables) == a \in Conditional /\ Needs[a] \subseteq variables

\* The first of some agents in execution order.
First(agents) == Agents[CHOOSE i \in DOMAIN Agents :
                          Agents[i] \in agents /\ \A j \in 1..(i - 1) : Agents[j] \notin agents]

\* resolveAgentId.  pending_agent_id is never set by this service.
ResolveAgent(current, variables) ==
  LET others == {a \in Agent \ {current} : Activated(a, variables)}
  IN  IF others # {} THEN First(others) ELSE current

LoadState(r) ==
  /\ At(r, "state")
  /\ LET stored == IF Open(Own(r)) THEN conversations[Own(r)].agent ELSE None
         current == IF stored = None THEN InitialAgent ELSE stored
     IN  Becomes(r, [req[r] EXCEPT !.pc = "configure",
                                   !.agent = ResolveAgent(current, req[r].context)])
  /\ Quiet

\* Provider, model and key of the agent, or an error.
Configure(r) ==
  /\ At(r, "configure")
  /\ IF req[r].agent \in Configured THEN Goto(r, "chat lock") ELSE Throws(r, "done")
  /\ Quiet

-----------------------------------------------------------------------------
(* send(), under the lease on the conversation.                            *)

\* Mutant of TakeChatLock: the answer of acquireLock is not looked at.
EnterAnyway(r) ==
  /\ At(r, "chat lock") \/ At(r, "chat relock")
  /\ chatLock' = [chatLock EXCEPT ![Own(r)] = r]
  /\ Goto(r, "memory")
  /\ UNCHANGED <<rows, identityLock, alone, counters>>

\* The lease, a second time after a second and a half, or an error.
TakeChatLock(r) ==
  /\ At(r, "chat lock") \/ At(r, "chat relock")
  /\ IF chatLock[Own(r)] = None
       THEN /\ chatLock' = [chatLock EXCEPT ![Own(r)] = r]
            /\ Goto(r, "memory")
       ELSE /\ UNCHANGED chatLock
            /\ IF At(r, "chat lock") THEN Goto(r, "chat relock") ELSE Throws(r, "done")
  /\ UNCHANGED <<rows, identityLock, alone, counters>>

Remembered(seq) == Newest(seq, MemoryLimit)

\* loadMemory: from Redis, or else from the messages, and then back to Redis.
LoadMemory(r) ==
  /\ At(r, "memory")
  /\ LET c == Own(r)
         cached == IF c \in DOMAIN conversations THEN conversations[c].memory ELSE <<>>
         stored == IF Open(c) THEN Remembered(conversations[c].messages) ELSE <<>>
     IN  Becomes(r, IF cached # <<>> \/ stored = <<>>
           THEN [req[r] EXCEPT !.pc = "inbound", !.history = cached]
           ELSE [req[r] EXCEPT !.pc = "refill", !.history = stored])
  /\ Quiet

Refill(r) ==
  /\ At(r, "refill")
  /\ conversations' = [conversations EXCEPT ![Own(r)].memory = Remembered(req[r].history)]
  /\ Goto(r, "inbound")
  /\ UNCHANGED <<identity, run, locks, alone, counters>>

\* A row of a conversation that clear() has deleted is refused.
Store(r, role, pc) ==
  IF Open(Own(r))
    THEN /\ conversations' = [conversations EXCEPT ![Own(r)].messages = Append(@, <<r, role>>)]
         /\ Goto(r, pc)
    ELSE UNCHANGED conversations /\ Throws(r, "release")

SaveInbound(r) ==
  /\ At(r, "inbound")
  /\ Store(r, "user", "run")
  /\ UNCHANGED <<identity, run, locks, alone, counters>>

RunBecomes(r, status) == run' = [run EXCEPT ![r][req[r].round] = status]

\* startTestAgentRun; the second round of processWithAgent takes no files.
StartRun(r) ==
  /\ At(r, "run")
  /\ IF Open(Own(r))
       THEN /\ RunBecomes(r, "running")
            /\ \E files \in IF req[r].round = "first" THEN FilesOf[r] ELSE {{}} :
                 LET images == {f \in files : f.type = "image"}
                     look == images # {} /\ req[r].agent \notin GeminiAgents
                 IN  Becomes(r, [req[r] EXCEPT !.pc = IF look THEN "describe" ELSE "ask",
                                   !.loops = 0, !.learned = {}, !.files = files])
       ELSE UNCHANGED run /\ Throws(r, "release")
  /\ UNCHANGED <<identity, conversations, locks, alone, counters>>

\* describeImageForChat throws when neither Gemini nor OpenRouter could look.
DescribeImages(r) ==
  /\ At(r, "describe")
  /\ Goto(r, "ask") \/ Throws(r, "give up")
  /\ Quiet

\* What the model is offered; callGemini passes no tools on.
Offered(a) ==
  IF a \in GeminiAgents THEN {}
  ELSE {"api", "web_search", "transfer"} \cup (IF a \in KnowledgeAgents THEN {"rag"} ELSE {})

\* A round in which the model asks for a tool; errors of tools become results.
Uses(r, tool) ==
  /\ At(r, "ask")
  /\ req[r].loops < MaxLoops
  /\ tool \in Offered(req[r].agent)

UseApi(r) ==
  /\ Uses(r, "api")
  /\ \E v \in Learns[req[r].agent] :
       Becomes(r, [req[r] EXCEPT !.loops = @ + 1, !.learned = @ \cup {v}])
  /\ Quiet

\* A search, an unknown tool or an error adds nothing to the context.
UseSearch(r) ==
  /\ Uses(r, "web_search") \/ Uses(r, "rag")
  /\ Becomes(r, [req[r] EXCEPT !.loops = @ + 1])
  /\ Quiet

\* A handoff knows its conversation only from the context of the RAG tool.
TransferToHuman(r) ==
  /\ Uses(r, "transfer")
  /\ IF req[r].agent \in KnowledgeAgents
       THEN /\ Open(Own(r))
            /\ conversations' = [conversations EXCEPT ![Own(r)].manual = TRUE]
       ELSE UNCHANGED conversations
  /\ Becomes(r, [req[r] EXCEPT !.loops = @ + 1, !.told = TRUE])
  /\ UNCHANGED <<identity, run, locks, alone, counters>>

AfterAnswer(r) == IF req[r].files # {} THEN "file" ELSE "reply"

\* callGemini: one request, text or an error.
AskGemini(r) ==
  /\ At(r, "ask")
  /\ req[r].agent \in GeminiAgents
  /\ Goto(r, AfterAnswer(r)) \/ Throws(r, "give up")
  /\ Quiet

\* callOpenAICompatible: the text of a round without tools, "Sem resposta" when
\* the rounds are used up, or an error.
AskOpenAICompatible(r) ==
  /\ At(r, "ask")
  /\ req[r].agent \notin GeminiAgents
  /\ Goto(r, AfterAnswer(r)) \/ Throws(r, "give up")
  /\ Quiet

\* Mutant of FailRun: the catch only rethrows.
RethrowOnly(r) ==
  /\ At(r, "give up")
  /\ Goto(r, "release")
  /\ Quiet

FailRun(r) ==
  /\ At(r, "give up")
  /\ RunBecomes(r, "failed")
  /\ Goto(r, "release")
  /\ UNCHANGED <<identity, conversations, locks, alone, counters>>

\* A file is refused outside the try that fails the run.
StoreFile(r) ==
  /\ At(r, "file")
  /\ \E f \in req[r].files :
       IF Refused(f) \/ ~Open(Own(r))
         THEN Throws(r, "release")
         ELSE Becomes(r, [req[r] EXCEPT !.pc = "part", !.files = @ \ {f}])
  /\ Quiet

\* message_parts.create, and after the last file the transcript.
CreatePart(r) ==
  /\ At(r, "part")
  /\ IF Open(Own(r)) THEN Goto(r, AfterAnswer(r)) ELSE Throws(r, "release")
  /\ Quiet

SaveReply(r) ==
  /\ At(r, "reply")
  /\ Store(r, req[r].round, "complete")
  /\ UNCHANGED <<identity, run, locks, alone, counters>>

CompleteRun(r) ==
  /\ At(r, "complete")
  /\ RunBecomes(r, "success")
  /\ Goto(r, "remember")
  /\ UNCHANGED <<identity, conversations, locks, alone, counters>>

\* Mutant of Exchange: the reply is remembered without its question.
OnlyTheReply(r) == Remembered(req[r].history \o << <<r, req[r].round>> >>)

\* What saveMemory writes: the history as it was read, the message, the reply.
Exchange(r) == Remembered(req[r].history \o << <<r, "user">>, <<r, req[r].round>> >>)

SaveMemory(r) ==
  /\ At(r, "remember")
  /\ conversations' = [conversations EXCEPT ![Own(r)].memory = Exchange(r)]
  /\ Goto(r, "context back")
  /\ UNCHANGED <<identity, run, locks, alone, counters>>

\* Mutant of Merged: only what this turn has learned.
OnlyLearned(a, variables, learned) == learned

\* mergeToolResults: a variable named like an API of the client that the agent
\* may not use is dropped; the data of the tools overwrite.
Merged(a, variables, learned) == (variables \ Foreign[a]) \cup learned

\* saveConversationContext puts the context into the metadata it has just read,
\* whose other keys nobody else writes.
SaveContext(r) ==
  /\ At(r, "context back")
  /\ LET merged == Merged(req[r].agent, req[r].context, req[r].learned)
     IN  IF Open(Own(r))
           THEN /\ conversations' = [conversations EXCEPT ![Own(r)].context = merged]
                /\ Becomes(r, [req[r] EXCEPT !.pc = "state back", !.context = merged,
                                              !.taught = @ \cup req[r].learned])
           ELSE UNCHANGED conversations /\ Throws(r, "release")
  /\ UNCHANGED <<identity, run, locks, alone, counters>>

\* saveState merges current_agent_id into the state; no other key is kept here.
SaveState(r) ==
  /\ At(r, "state back")
  /\ IF Open(Own(r))
       THEN /\ conversations' = [conversations EXCEPT ![Own(r)].agent = req[r].agent]
            /\ Goto(r, IF req[r].round = "first" THEN "immediate" ELSE "release")
       ELSE UNCHANGED conversations /\ Throws(r, "release")
  /\ UNCHANGED <<identity, run, locks, alone, counters>>

\* checkImmediateActivation: the agents that could take over.
Takers(current, variables) ==
  {a \in Immediate : a # current /\ Activated(a, variables)}

\* processWithAgent: the first of them answers at once, when the metadata (not
\* the table of credentials) holds a key for its provider.
ActivateAtOnce(r) ==
  /\ At(r, "immediate")
  /\ LET takers == Takers(req[r].agent, req[r].context)
         taker == First(takers)
     IN  IF takers # {} /\ taker \in MetadataKeys
           THEN Becomes(r, [req[r] EXCEPT !.pc = "run", !.round = "second", !.agent = taker])
           ELSE Goto(r, "release")
  /\ Quiet

\* finally: whoever holds the lease by now.
ReleaseChatLock(r) ==
  /\ At(r, "release")
  /\ chatLock' = [chatLock EXCEPT ![Own(r)] = None]
  /\ Goto(r, "done")
  /\ UNCHANGED <<rows, identityLock, alone, counters>>

-----------------------------------------------------------------------------
(* clear().                                                                *)

BeginClear(r) == r \in Clears /\ Begin(r, "list")

\* The query states no order.
ListConversations(r) ==
  /\ At(r, "list")
  /\ LET found == {c \in DOMAIN conversations : Open(c)}
     IN  IF found = {}
           THEN Goto(r, "done")
           ELSE \E order \in [1..Cardinality(found) -> found] :
                  /\ IsInjective(order)
                  /\ Becomes(r, [req[r] EXCEPT !.pc = "wipe", !.found = found, !.todo = order])
  /\ Quiet

\* The memory, then the lease of each conversation.
WipeMemory(r) ==
  /\ At(r, "wipe")
  /\ conversations' = [conversations EXCEPT ![Head(req[r].todo)].memory = <<>>]
  /\ Goto(r, "unlock")
  /\ UNCHANGED <<identity, run, locks, alone, counters>>

WipeLock(r) ==
  /\ At(r, "unlock")
  /\ chatLock' = [chatLock EXCEPT ![Head(req[r].todo)] = None]
  /\ Becomes(r, [req[r] EXCEPT !.todo = Tail(@),
                   !.pc = IF Len(req[r].todo) = 1 THEN "delete" ELSE "wipe"])
  /\ UNCHANGED <<rows, identityLock, alone, counters>>

\* Messages and state go by cascade; runs keep their row.
DeleteConversations(r) ==
  /\ At(r, "delete")
  /\ conversations' = [c \in DOMAIN conversations |->
       IF c \in req[r].found THEN [Fresh EXCEPT !.deleted = TRUE] ELSE conversations[c]]
  /\ Goto(r, "done")
  /\ UNCHANGED <<identity, run, locks, alone, counters>>

-----------------------------------------------------------------------------
(* The environment.                                                        *)

\* A lease runs out: of a dead holder at last, of a live one when its request
\* takes longer than 30 and 15 seconds (a call to a provider may).
Lapses(holder) ==
  \/ ~UnderWay(holder) /\ UNCHANGED expiries
  \/ /\ UnderWay(holder)
     /\ expiries + faults < MaxTrouble
     /\ expiries' = expiries + 1

IdentityLockExpires ==
  /\ identityLock # None
  /\ Lapses(identityLock)
  /\ identityLock' = None
  /\ UNCHANGED <<rows, chatLock, req, alone, faults>>

ChatLockExpires(c) ==
  /\ chatLock[c] # None
  /\ Lapses(chatLock[c])
  /\ chatLock' = [chatLock EXCEPT ![c] = None]
  /\ UNCHANGED <<rows, identityLock, req, alone, faults>>

\* The memory in Redis lasts a day after it was written: between requests.
MemoryExpires(c) ==
  /\ \A r \in Request : ~UnderWay(r)
  /\ conversations[c].memory # <<>>
  /\ conversations' = [conversations EXCEPT ![c].memory = <<>>]
  /\ UNCHANGED <<identity, run, locks, req, alone, counters>>

Fault == expiries + faults < MaxTrouble /\ faults' = faults + 1

\* Where an error leaves each part of the request.
Handler(pc) ==
  CASE pc \in Locked \ {"describe", "ask"} -> "release"
    [] pc \in {"identify", "register", "find", "create"} -> "identity release"
    [] OTHER -> "done"

\* Any call to the database, Redis or the storage may throw; that of the
\* provider has its own catch, and a finally that throws leaves the lease.
CallFails(r) ==
  /\ UnderWay(r) /\ ~At(r, "describe") /\ ~At(r, "ask")
  /\ Fault
  /\ Throws(r, Handler(req[r].pc))
  /\ UNCHANGED <<rows, locks, alone, expiries>>

Crash ==
  /\ \E r \in Request : UnderWay(r)
  /\ Fault
  /\ req' = [r \in Request |-> IF UnderWay(r)
               THEN Forgetful([req[r] EXCEPT !.pc = "done", !.failed = TRUE]) ELSE req[r]]
  /\ UNCHANGED <<rows, locks, alone, expiries>>

-----------------------------------------------------------------------------

Serve(r) ==
  \/ TakeIdentityLock(r) \/ FindIdentity(r) \/ Register(r) \/ FindConversation(r)
  \/ CreateConversation(r) \/ ReleaseIdentityLock(r) \/ LoadContext(r) \/ LoadState(r)
  \/ Configure(r) \/ TakeChatLock(r) \/ LoadMemory(r) \/ Refill(r) \/ SaveInbound(r) \/ StartRun(r)
  \/ DescribeImages(r) \/ UseApi(r) \/ UseSearch(r) \/ TransferToHuman(r)
  \/ AskGemini(r) \/ AskOpenAICompatible(r) \/ FailRun(r) \/ StoreFile(r)
  \/ CreatePart(r) \/ SaveReply(r) \/ CompleteRun(r) \/ SaveMemory(r) \/ SaveContext(r)
  \/ SaveState(r) \/ ActivateAtOnce(r) \/ ReleaseChatLock(r)
  \/ ListConversations(r) \/ WipeMemory(r) \/ WipeLock(r) \/ DeleteConversations(r)

Finished == (\A r \in Request : At(r, "done")) /\ UNCHANGED vars

Next ==
  \/ \E r \in Request : BeginSend(r) \/ BeginClear(r) \/ Serve(r) \/ CallFails(r)
  \/ IdentityLockExpires
  \/ \E c \in DOMAIN conversations : ChatLockExpires(c) \/ MemoryExpires(c)
  \/ Crash
  \/ Finished

Spec == Init /\ [][Next]_vars

-----------------------------------------------------------------------------
(* Properties.                                                             *)

\* The requests that answer in a conversation, and those about to delete it.
Answering(c) == {r \in Sends : Own(r) = c /\ req[r].pc \in Locked \cup {"release"}}

BeingCleared(c) == \E r \in Clears : c \in req[r].found /\ UnderWay(r)

\* At most one request answers in a conversation, and one more for each lease
\* that ran out: although every request deletes whatever lease there is when it
\* ends, the damage of a late one does not spread.
OneAnswerPerConversation ==
  \A c \in DOMAIN conversations :
    Open(c) /\ ~BeingCleared(c) => Cardinality(Answering(c)) <= 1 + expiries + faults

\* The external user has one open conversation, whatever requests, clears,
\* failures and crashes happen, and one more for each lease that ran out early.
SessionsAreSingle ==
  Cardinality({c \in DOMAIN conversations : Open(c)}) <= 1 + expiries

Position(c, m) == CHOOSE i \in DOMAIN conversations[c].messages :
                    conversations[c].messages[i] = m

\* What the model is reminded of follows what was said: the memory keeps the
\* order of the messages and, at rest and as long as nothing failed and no lease
\* ran out, misses of the newest only those of a request that ended in an error
\* and the first answer of a turn that a second agent took over.
MemoryFollowsMessages ==
  \A c \in DOMAIN conversations :
    LET memory == conversations[c].memory
        messages == conversations[c].messages
        undisturbed == /\ expiries = 0 /\ faults = 0
                       /\ Answering(c) = {} /\ ~BeingCleared(c)
    IN  Open(c) =>
          /\ Range(memory) \subseteq Range(messages)
          /\ \A i, j \in DOMAIN memory :
               i < j => Position(c, memory[i]) < Position(c, memory[j])
          /\ memory # <<>> /\ undisturbed =>
               \A m \in Range(Remembered(messages)) \ Range(memory) :
                 \/ req[m[1]].failed
                 \/ m[2] = "first" /\ run[m[1]].second = "success"

\* What tools have found out stays in the context of the conversation, unless
\* two requests ran at the same time: the second reads the context before it
\* waits for its lease and writes back what it has read.
ContextSurvives ==
  \A r \in Sends :
    LET c == Own(r)
    IN  Open(c) /\ (\A q \in Request : Own(q) = c => q \in alone) =>
          req[r].taught \ UNION {Foreign[a] : a \in Agent} \subseteq conversations[c].context

\* A run is left "running" by its request only after a failed call or a crash,
\* a file the storage refuses, or a clear() in between; it ends as a success
\* only if its reply stands in the conversation, and does so unless something
\* failed right after the reply was stored.
RunsEndWithTheirRequest ==
  \A r \in Sends, round \in Rounds :
    LET said == <<r, round>> \in Range(conversations[Own(r)].messages)
    IN  /\ run[r][round] = "running" /\ ~UnderWay(r) =>
             faults > 0 \/ RefusedOf(req[r].files) # {} \/ ~Open(Own(r))
        /\ Open(Own(r)) =>
             /\ run[r][round] = "success" => said
             /\ said /\ ~UnderWay(r) => run[r][round] = "success" \/ faults > 0

\* "Atendimento transferido para a equipe de atendentes humanos com sucesso": a
\* turn that was told so has handed its conversation over.
TransfersAreReal ==
  \A r \in Sends : req[r].told /\ Open(Own(r)) => conversations[Own(r)].manual
=============================================================================
