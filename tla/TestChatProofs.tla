--------------------------- MODULE TestChatProofs ---------------------------
(***************************************************************************)
(* Proofs about TestChat, for every set of requests and agents and every   *)
(* number of expired leases and failures: what IInv bounds (answers,       *)
(* sessions, runs, the context), and then, on top of it, that the memory   *)
(* follows the messages and that runs succeed with their replies           *)
(* (MemoryInv).                                                            *)
(***************************************************************************)
EXTENDS TestChat, FiniteSetTheorems, SequenceTheorems, WellFoundedInduction, TLAPS

-----------------------------------------------------------------------------
(* The test chat: the inductive invariant.                                 *)

Message == Request \X Roles

Conversation ==
  [deleted : BOOLEAN, manual : BOOLEAN, context : SUBSET Var, agent : Agent \cup {None},
   messages : Seq(Message), memory : Seq(Message)]

Local ==
  [pc : PCs, conversation : Nat, agent : Agent, context : SUBSET Var, history : Seq(Message),
   learned : SUBSET Var, taught : SUBSET Var, round : Rounds, loops : Nat, files : SUBSET File,
   told : BOOLEAN, failed : BOOLEAN, found : SUBSET Nat, todo : Seq(Nat)]

Typed ==
  /\ identity \in BOOLEAN
  /\ conversations \in Seq(Conversation)
  /\ identityLock \in Sends \cup {None}
  /\ chatLock \in Seq(Sends \cup {None}) /\ Len(chatLock) = Len(conversations)
  /\ run \in [Sends -> [Rounds -> {"none", "running", "success", "failed"}]]
  /\ req \in [Request -> Local]
  /\ alone \in SUBSET Request
  /\ expiries \in Nat /\ faults \in Nat

Identifying == {"identity lock", "identify", "register", "find", "create"}

Unplaced == Identifying \cup {"idle", "done", "identity release"} \cup Clearing

\* A message has its conversation once the identity lease is given back, and
\* no run before the lease on the conversation; clear() has neither.
ClearIsPlaced(r) ==
  /\ req[r].pc \in {"idle", "done"} \cup Clearing /\ Own(r) = 0
  /\ IsInjective(req[r].todo)
  /\ req[r].pc \in {"wipe", "unlock"} => req[r].todo # <<>>
  /\ req[r].pc \in {"idle", "list"} => req[r].found = {}
  /\ Range(req[r].todo) \subseteq req[r].found
  /\ req[r].found \subseteq DOMAIN conversations

SendIsPlaced(r) ==
  /\ req[r].pc \notin Clearing
  /\ Own(r) <= Len(conversations)
  /\ req[r].pc \in {"idle"} \cup Identifying => Own(r) = 0
  /\ req[r].pc \notin Unplaced => Own(r) # 0
  /\ At(r, "identity release") /\ ~req[r].failed => Own(r) # 0
  /\ Own(r) = 0 => req[r].taught = {}
  /\ req[r].pc \in {"idle"} \cup Before \/ Own(r) = 0 =>
       \A round \in Rounds : run[r][round] = "none"

Placed ==
  /\ \A r \in Clears : ClearIsPlaced(r)
  /\ \A r \in Sends : SendIsPlaced(r)

\* The places between the start of a run and its end.
InRun == {"describe", "ask", "give up", "file", "part", "reply", "complete"}

RunIsUnderWay(r) ==
  \A round \in Rounds :
    run[r][round] = "running" =>
      \/ req[r].pc \in InRun /\ round = req[r].round
      \/ faults > 0
      \/ req[r].pc \in {"release", "done"} /\ RefusedOf(req[r].files) # {}
      \/ ~Open(Own(r))

RunsAreUnderWay == \A r \in Sends : RunIsUnderWay(r)

\* The requests between taking and giving back the identity lease.
HoldsIdentity == {"identify", "register", "find", "create", "identity release"}

Inside == {r \in Sends : req[r].pc \in HoldsIdentity}

Creating == {r \in Sends : At(r, "create")}

OpenOnes == {c \in DOMAIN conversations : Open(c)}

One(b) == IF b THEN 1 ELSE 0

\* A lease nobody inside has lets one more in; each that ran out early lets in
\* another, and nothing else does, whoever deletes whose lease.
SessionsAreCounted ==
  /\ identityLock # None => identityLock \in Inside \/ At(identityLock, "done")
  /\ Cardinality(Inside) + One(identityLock \notin Inside) <= 1 + expiries
  /\ Cardinality(OpenOnes) + Cardinality(Creating) <= 1 + expiries

\* The clears that have deleted the lease of the conversation, but not yet the
\* conversation.
Wipers(c) == {r \in Clears : UnderWay(r) /\ c \in req[r].found \ Range(req[r].todo)}

AnswersAreCounted ==
  \A c \in OpenOnes :
    /\ chatLock[c] # None => chatLock[c] \in Answering(c) \/ At(chatLock[c], "done")
    /\ Cardinality(Answering(c)) + One(chatLock[c] \notin Answering(c))
         <= 1 + expiries + faults + Cardinality(Wipers(c))

\* Nobody runs beside a request that is alone.
AloneAreAlone ==
  \A r \in alone :
    /\ ~At(r, "idle")
    /\ UnderWay(r) => \A q \in Request \ {r} : ~UnderWay(q)

KnowsContext == {"state", "configure", "chat lock", "chat relock"} \cup Locked

\* A request that is alone works on the context its conversation has.
ContextIsCurrent ==
  \A r \in Sends \cap alone :
    req[r].pc \in KnowsContext /\ Open(Own(r)) => req[r].context = conversations[Own(r)].context

IInv ==
  /\ Typed /\ Placed /\ RunsAreUnderWay /\ SessionsAreCounted /\ AnswersAreCounted
  /\ AloneAreAlone /\ ContextSurvives /\ ContextIsCurrent

-----------------------------------------------------------------------------
(* Local variables of the requests.                                        *)

LEMMA IdleIsLocal == Idle \in Local
<1>1. InitialAgent \in Agent
  BY TestChatAssumption
<1>2. "idle" \in PCs /\ "first" \in Rounds
  BY DEF PCs, Rounds
<1>3. <<>> \in Seq(Message) /\ <<>> \in Seq(Nat)
  OBVIOUS
<1>4. QED
  BY <1>1, <1>2, <1>3 DEF Idle, Local

\* What a request that is over remembers.
LEMMA Forgetting ==
  ASSUME NEW l \in Local
  PROVE  /\ Forgetful(l) \in Local
         /\ Forgetful(l).pc = l.pc /\ Forgetful(l).conversation = l.conversation
         /\ Forgetful(l).taught = l.taught /\ Forgetful(l).failed = l.failed
         /\ Forgetful(l).told = l.told
         /\ RefusedOf(Forgetful(l).files) # {} <=> RefusedOf(l.files) # {}
         /\ l.pc \notin {"release", "done"} => Forgetful(l) = l
         /\ l.pc \in {"release", "done"} => Forgetful(l).found = {} /\ Forgetful(l).todo = <<>>
<1>1. CASE l.pc \notin {"release", "done"}
  BY <1>1 DEF Forgetful
<1>2. CASE l.pc \in {"release", "done"}
  <2>1. Forgetful(l) = [Idle EXCEPT !.pc = l.pc, !.conversation = l.conversation,
                                    !.taught = l.taught, !.files = RefusedOf(l.files),
                                    !.told = l.told, !.failed = l.failed]
    BY <1>2 DEF Forgetful
  <2>2. RefusedOf(l.files) \in SUBSET File /\ RefusedOf(RefusedOf(l.files)) = RefusedOf(l.files)
    BY DEF Local, RefusedOf
  <2>3. Forgetful(l) \in Local
    BY <2>1, <2>2, IdleIsLocal DEF Local
  <2>4. QED
    BY <1>2, <2>1, <2>2, <2>3 DEF Idle
<1>3. QED
  BY <1>1, <1>2

\* The other requests keep their local variables.
Alone(r) == \A q \in Request \ {r} : req'[q] = req[q]

LEMMA Becoming ==
  ASSUME Typed, NEW r \in Request, NEW l \in Local, Becomes(r, l)
  PROVE  req' \in [Request -> Local] /\ Alone(r) /\ req'[r] = Forgetful(l)
BY Forgetting DEF Becomes, Typed, Alone

\* Goto and Throws are cases of it.
LEMMA Going ==
  ASSUME Typed, NEW r \in Request, NEW pc \in PCs
  PROVE  /\ [req[r] EXCEPT !.pc = pc] \in Local
         /\ [req[r] EXCEPT !.pc = pc, !.failed = TRUE] \in Local
BY DEF Typed, Local

\* A request goes on, and keeps what it knows unless it is over.
GoesOn(r, pc) ==
  /\ req' \in [Request -> Local] /\ Alone(r)
  /\ req'[r].pc = pc /\ req'[r].conversation = Own(r) /\ req'[r].taught = req[r].taught
  /\ RefusedOf(req'[r].files) # {} <=> RefusedOf(req[r].files) # {}
  /\ pc \notin {"release", "done"} =>
       /\ req'[r].round = req[r].round /\ req'[r].context = req[r].context
       /\ req'[r].found = req[r].found /\ req'[r].todo = req[r].todo
       /\ req'[r].agent = req[r].agent
  /\ pc \in {"release", "done"} => req'[r].found = {} /\ req'[r].todo = <<>>

LEMMA GotoGoesOn ==
  ASSUME Typed, NEW r \in Request, NEW pc \in PCs, Goto(r, pc)
  PROVE  GoesOn(r, pc) /\ (pc \notin {"release", "done"} => req'[r].failed = req[r].failed)
<1> DEFINE l == [req[r] EXCEPT !.pc = pc]
<1>1. l \in Local
  BY Going
<1>2. req[r] \in Local
  BY DEF Typed
<1>3. /\ l.pc = pc /\ l.conversation = Own(r) /\ l.taught = req[r].taught
      /\ l.files = req[r].files /\ l.round = req[r].round /\ l.context = req[r].context
      /\ l.found = req[r].found /\ l.todo = req[r].todo /\ l.agent = req[r].agent
      /\ l.failed = req[r].failed
  BY <1>2 DEF Local, Own
<1>4. Becomes(r, l)
  BY DEF Goto
<1> HIDE DEF l
<1>5. req' \in [Request -> Local] /\ Alone(r) /\ req'[r] = Forgetful(l)
  BY <1>1, <1>4, Becoming
<1>6. RefusedOf(req'[r].files) # {} <=> RefusedOf(req[r].files) # {}
  <2>1. RefusedOf(Forgetful(l).files) # {} <=> RefusedOf(l.files) # {}
    BY <1>1, Forgetting
  <2>2. QED
    BY <1>3, <1>5, <2>1
<1>7. /\ Forgetful(l).pc = l.pc /\ Forgetful(l).conversation = l.conversation
      /\ Forgetful(l).taught = l.taught
      /\ l.pc \notin {"release", "done"} => Forgetful(l) = l
      /\ l.pc \in {"release", "done"} => Forgetful(l).found = {} /\ Forgetful(l).todo = <<>>
  BY <1>1, Forgetting
<1>8. QED
  BY <1>3, <1>5, <1>6, <1>7 DEF GoesOn

LEMMA ThrowsGoesOn ==
  ASSUME Typed, NEW r \in Request, NEW pc \in PCs, Throws(r, pc)
  PROVE  GoesOn(r, pc) /\ req'[r].failed
<1> DEFINE l == [req[r] EXCEPT !.pc = pc, !.failed = TRUE]
<1>1. l \in Local
  BY Going
<1>2. req[r] \in Local
  BY DEF Typed
<1>3. /\ l.pc = pc /\ l.conversation = Own(r) /\ l.taught = req[r].taught
      /\ l.files = req[r].files /\ l.round = req[r].round /\ l.context = req[r].context
      /\ l.found = req[r].found /\ l.todo = req[r].todo /\ l.agent = req[r].agent
      /\ l.failed
  BY <1>2 DEF Local, Own
<1>4. Becomes(r, l)
  BY DEF Throws
<1> HIDE DEF l
<1>5. req' \in [Request -> Local] /\ Alone(r) /\ req'[r] = Forgetful(l)
  BY <1>1, <1>4, Becoming
<1>6. RefusedOf(req'[r].files) # {} <=> RefusedOf(req[r].files) # {}
  <2>1. RefusedOf(Forgetful(l).files) # {} <=> RefusedOf(l.files) # {}
    BY <1>1, Forgetting
  <2>2. QED
    BY <1>3, <1>5, <2>1
<1>7. /\ Forgetful(l).pc = l.pc /\ Forgetful(l).conversation = l.conversation
      /\ Forgetful(l).taught = l.taught /\ Forgetful(l).failed = l.failed
      /\ l.pc \notin {"release", "done"} => Forgetful(l) = l
      /\ l.pc \in {"release", "done"} => Forgetful(l).found = {} /\ Forgetful(l).todo = <<>>
  BY <1>1, Forgetting
<1>8. QED
  BY <1>3, <1>5, <1>6, <1>7 DEF GoesOn

-----------------------------------------------------------------------------
(* Conversations.                                                          *)

LEMMA RowTypes ==
  ASSUME Typed
  PROVE  /\ DOMAIN conversations = 1..Len(conversations) /\ Len(conversations) \in Nat
         /\ \A c \in 1..Len(conversations) : conversations[c] \in Conversation
         /\ \A c : Open(c) <=> c \in 1..Len(conversations) /\ ~conversations[c].deleted
<1>1. conversations \in Seq(Conversation)
  BY DEF Typed
<1>2. DOMAIN conversations = 1..Len(conversations) /\ Len(conversations) \in Nat
  BY <1>1
<1>3. \A c \in 1..Len(conversations) : conversations[c] \in Conversation
  BY <1>1
<1>4. QED
  BY <1>2, <1>3 DEF Open

LEMMA NewestType ==
  ASSUME NEW S, NEW s \in Seq(S), NEW n \in Nat \ {0}
  PROVE  Newest(s, n) \in Seq(S)
<1>1. CASE Len(s) <= n
  BY <1>1 DEF Newest
<1>2. CASE ~(Len(s) <= n)
  <2>1. Len(s) - n + 1 \in 1..Len(s) /\ Len(s) \in Nat
    BY <1>2
  <2>2. \A i \in (Len(s) - n + 1)..Len(s) : s[i] \in S
    BY <2>1
  <2>3. SubSeq(s, Len(s) - n + 1, Len(s)) \in Seq(S)
    BY <2>1, <2>2, SubSeqProperties
  <2>4. QED
    BY <1>2, <2>3 DEF Newest
<1>3. QED
  BY <1>1, <1>2

LEMMA RememberedType ==
  ASSUME NEW s \in Seq(Message)
  PROVE  Remembered(s) \in Seq(Message)
<1>1. MemoryLimit \in Nat \ {0}
  BY TestChatAssumption
<1>2. QED
  BY <1>1, NewestType DEF Remembered

\* A conversation is rewritten, and stays what it is to the requests.
Rewritten(c, kept) ==
  /\ conversations' \in Seq(Conversation) /\ Len(conversations') = Len(conversations)
  /\ conversations'[c] = kept
  /\ \A d \in 1..Len(conversations) : d # c => conversations'[d] = conversations[d]

LEMMA Rewriting ==
  ASSUME Typed, NEW c \in 1..Len(conversations), NEW kept \in Conversation,
         conversations' = [conversations EXCEPT ![c] = kept]
  PROVE  Rewritten(c, kept)
<1>1. conversations \in Seq(Conversation)
  BY DEF Typed
<1>2. QED
  BY <1>1, ExceptSeq DEF Rewritten

\* The rows of the conversations are there as before.
KeepsRows ==
  /\ conversations' \in Seq(Conversation) /\ Len(conversations') = Len(conversations)
  /\ \A c \in 1..Len(conversations) : conversations'[c].deleted = conversations[c].deleted

KeepsContexts ==
  \A c \in 1..Len(conversations) : conversations'[c].context = conversations[c].context

LEMMA RewritingKeeps ==
  ASSUME Typed, NEW c \in 1..Len(conversations), NEW kept \in Conversation, Rewritten(c, kept),
         kept.deleted = conversations[c].deleted
  PROVE  /\ KeepsRows
         /\ kept.context = conversations[c].context => KeepsContexts
BY DEF Rewritten, KeepsRows, KeepsContexts

\* The columns that are written, one by one.
LEMMA Columns ==
  ASSUME Typed, NEW c \in 1..Len(conversations)
  PROVE  /\ \A m \in Seq(Message) :
              conversations' = [conversations EXCEPT ![c].memory = m] => KeepsRows /\ KeepsContexts
         /\ \A m \in Message :
              conversations' = [conversations EXCEPT ![c].messages = Append(@, m)]
                => KeepsRows /\ KeepsContexts
         /\ conversations' = [conversations EXCEPT ![c].manual = TRUE] => KeepsRows /\ KeepsContexts
         /\ \A a \in Agent :
              conversations' = [conversations EXCEPT ![c].agent = a] => KeepsRows /\ KeepsContexts
         /\ \A x \in SUBSET Var :
              conversations' = [conversations EXCEPT ![c].context = x] =>
                /\ KeepsRows /\ conversations'[c].context = x
                /\ \A d \in 1..Len(conversations) : d # c =>
                     conversations'[d].context = conversations[d].context
<1>1. conversations[c] \in Conversation
  BY RowTypes
<1>2. ASSUME NEW m \in Seq(Message), conversations' = [conversations EXCEPT ![c].memory = m]
      PROVE  KeepsRows /\ KeepsContexts
  <2> DEFINE kept == [conversations[c] EXCEPT !.memory = m]
  <2>1. kept \in Conversation /\ kept.deleted = conversations[c].deleted
        /\ kept.context = conversations[c].context
    BY <1>1 DEF Conversation
  <2>2. conversations' = [conversations EXCEPT ![c] = kept]
    BY <1>2
  <2> HIDE DEF kept
  <2>3. QED
    BY <2>1, <2>2, Rewriting, RewritingKeeps
<1>3. ASSUME NEW m \in Message,
             conversations' = [conversations EXCEPT ![c].messages = Append(@, m)]
      PROVE  KeepsRows /\ KeepsContexts
  <2> DEFINE kept == [conversations[c] EXCEPT !.messages = Append(@, m)]
  <2>1. Append(conversations[c].messages, m) \in Seq(Message)
    BY <1>1 DEF Conversation
  <2>2. kept \in Conversation /\ kept.deleted = conversations[c].deleted
        /\ kept.context = conversations[c].context
    BY <1>1, <2>1 DEF Conversation
  <2>3. conversations' = [conversations EXCEPT ![c] = kept]
    BY <1>3
  <2> HIDE DEF kept
  <2>4. QED
    BY <2>2, <2>3, Rewriting, RewritingKeeps
<1>4. ASSUME conversations' = [conversations EXCEPT ![c].manual = TRUE]
      PROVE  KeepsRows /\ KeepsContexts
  <2> DEFINE kept == [conversations[c] EXCEPT !.manual = TRUE]
  <2>1. kept \in Conversation /\ kept.deleted = conversations[c].deleted
        /\ kept.context = conversations[c].context
    BY <1>1 DEF Conversation
  <2>2. conversations' = [conversations EXCEPT ![c] = kept]
    BY <1>4
  <2> HIDE DEF kept
  <2>3. QED
    BY <2>1, <2>2, Rewriting, RewritingKeeps
<1>5. ASSUME NEW a \in Agent, conversations' = [conversations EXCEPT ![c].agent = a]
      PROVE  KeepsRows /\ KeepsContexts
  <2> DEFINE kept == [conversations[c] EXCEPT !.agent = a]
  <2>1. kept \in Conversation /\ kept.deleted = conversations[c].deleted
        /\ kept.context = conversations[c].context
    BY <1>1 DEF Conversation
  <2>2. conversations' = [conversations EXCEPT ![c] = kept]
    BY <1>5
  <2> HIDE DEF kept
  <2>3. QED
    BY <2>1, <2>2, Rewriting, RewritingKeeps
<1>6. ASSUME NEW x \in SUBSET Var, conversations' = [conversations EXCEPT ![c].context = x]
      PROVE  /\ KeepsRows /\ conversations'[c].context = x
             /\ \A d \in 1..Len(conversations) : d # c =>
                  conversations'[d].context = conversations[d].context
  <2> DEFINE kept == [conversations[c] EXCEPT !.context = x]
  <2>1. kept \in Conversation /\ kept.deleted = conversations[c].deleted /\ kept.context = x
    BY <1>1 DEF Conversation
  <2>2. conversations' = [conversations EXCEPT ![c] = kept]
    BY <1>6
  <2> HIDE DEF kept
  <2>3. Rewritten(c, kept) /\ KeepsRows
    BY <2>1, <2>2, Rewriting, RewritingKeeps
  <2>4. QED
    BY <2>1, <2>3 DEF Rewritten
<1>7. QED
  BY <1>2, <1>3, <1>4, <1>5, <1>6

-----------------------------------------------------------------------------
(* Steps of a request that holds, or once held, its conversation's lease.  *)

\* What such a step may do.
Works(r) ==
  /\ r \in Sends /\ req[r].pc \in Locked /\ Own(r) \in 1..Len(conversations)
  /\ req' \in [Request -> Local] /\ Alone(r)
  /\ req'[r].pc \in Locked \cup {"release"} /\ req'[r].conversation = Own(r)
  /\ KeepsRows
  /\ UNCHANGED <<identity, locks, alone, counters>>

\* The run that was under way is, or what ends it without its row is there.
KeepsRun(r) ==
  /\ UNCHANGED run
  /\ req[r].pc \in InRun =>
       \/ req'[r].pc \in InRun /\ req'[r].round = req[r].round
       \/ req'[r].pc = "release" /\ RefusedOf(req'[r].files) # {}
       \/ ~Open(Own(r))

KeepsContext(r) ==
  /\ KeepsContexts
  /\ req'[r].taught = req[r].taught
  /\ req'[r].pc \in Locked => req'[r].context = req[r].context

\* Where a request stands tells what it is.
LEMMA LockedIsPlaced ==
  ASSUME Typed, Placed, NEW r \in Request, req[r].pc \in Locked \cup {"release"}
  PROVE  r \in Sends /\ Own(r) \in 1..Len(conversations) /\ req[r] \in Local
<1>1. req[r].pc \notin {"idle", "done"} \cup Clearing
  BY DEF Locked, Clearing
<1>2. r \in Sends
  BY <1>1 DEF Placed, ClearIsPlaced, Request
<1>3. req[r].pc \notin Unplaced
  BY DEF Locked, Unplaced, Identifying, Clearing
<1>4. req[r] \in Local /\ Own(r) \in Nat /\ Len(conversations) \in Nat
  BY RowTypes DEF Typed, Local, Own
<1>5. Own(r) # 0 /\ Own(r) <= Len(conversations)
  BY <1>2, <1>3 DEF Placed, SendIsPlaced
<1>6. QED
  BY <1>2, <1>4, <1>5

LEMMA QuietKeeps ==
  ASSUME Typed, Quiet
  PROVE  KeepsRows /\ KeepsContexts /\ UNCHANGED <<identity, locks, alone, counters, run>>
<1>1. conversations' = conversations
  BY DEF Quiet, rows
<1>2. conversations \in Seq(Conversation)
  BY DEF Typed
<1>3. QED
  BY <1>1, <1>2 DEF Quiet, rows, KeepsRows, KeepsContexts

-----------------------------------------------------------------------------
(* Agents.                                                                 *)

\* A set of natural numbers has a least one.
LEMMA LeastNumber ==
  ASSUME NEW T, T \subseteq Nat, T # {}
  PROVE  \E x \in T : \A y \in T : x <= y
<1> DEFINE R == {ss \in Nat \X Nat : ss[1] < ss[2]}
<1>1. IsWellFoundedOn(R, Nat)
  BY NatLessThanWellFounded DEF OpToRel
<1> HIDE DEF R
<1>2. PICK x \in T : \A y \in T : ~(<<y, x>> \in R)
  BY <1>1, WFMin
<1>3. \A y \in T : x <= y
  <2>1. SUFFICES ASSUME NEW y \in T, y < x PROVE FALSE
    OBVIOUS
  <2>2. <<y, x>> \in Nat \X Nat /\ <<y, x>>[1] < <<y, x>>[2]
    BY <2>1
  <2>3. <<y, x>> \in R
    BY <2>2 DEF R
  <2>4. QED
    BY <1>2, <2>3
<1>4. QED
  BY <1>3

\* The first of some agents is one of them.
LEMMA FirstOfAgents ==
  ASSUME NEW S, S \in SUBSET Agent, S # {}
  PROVE  First(S) \in S
<1> DEFINE T == {i \in DOMAIN Agents : Agents[i] \in S}
<1>1. Agents \in Seq(Agent) /\ DOMAIN Agents = 1..Len(Agents) /\ Len(Agents) \in Nat
  BY TestChatAssumption
<1>2. \A a \in Agent : \E i \in DOMAIN Agents : Agents[i] = a
  BY DEF Agent, Range
<1>3. T \subseteq Nat /\ T # {}
  BY <1>1, <1>2
<1> HIDE DEF T
<1>4. PICK x \in T : \A y \in T : x <= y
  BY <1>3, LeastNumber
<1> DEFINE Q(i) == Agents[i] \in S /\ \A j \in 1..(i - 1) : Agents[j] \notin S
<1>5. x \in DOMAIN Agents /\ Q(x)
  <2>1. x \in DOMAIN Agents /\ Agents[x] \in S /\ x \in Nat
    BY <1>3 DEF T
  <2>2. \A j \in 1..(x - 1) : j \in DOMAIN Agents /\ ~(x <= j)
    BY <1>1, <2>1
  <2>3. QED
    BY <1>4, <2>1, <2>2 DEF T
<1>6. Q(CHOOSE i \in DOMAIN Agents : Q(i))
  <2> HIDE DEF Q
  <2>1. QED
    BY <1>5
<1>7. QED
  BY <1>6 DEF First

LEMMA ResolvedIsAgent ==
  ASSUME NEW a \in Agent, NEW variables
  PROVE  ResolveAgent(a, variables) \in Agent
<1> DEFINE others == {b \in Agent \ {a} : Activated(b, variables)}
<1>1. others # {} => First(others) \in others
  BY FirstOfAgents
<1>2. QED
  BY <1>1 DEF ResolveAgent

\* Steps that read, or call a provider or the storage.
LEMMA QuietWork ==
  ASSUME Typed, Placed, NEW r \in Request,
         \/ LoadMemory(r) \/ DescribeImages(r) \/ UseApi(r) \/ UseSearch(r)
         \/ AskGemini(r) \/ AskOpenAICompatible(r) \/ StoreFile(r) \/ CreatePart(r)
         \/ ActivateAtOnce(r)
  PROVE  Works(r) /\ KeepsRun(r) /\ KeepsContext(r)
<1>1. Quiet /\ req[r].pc \in Locked
  BY DEF LoadMemory, DescribeImages, UseApi, UseSearch, Uses, AskGemini, AskOpenAICompatible,
         StoreFile, CreatePart, ActivateAtOnce, At, Locked
<1>2. r \in Sends /\ Own(r) \in 1..Len(conversations) /\ req[r] \in Local
  BY <1>1, LockedIsPlaced
<1>3. KeepsRows /\ KeepsContexts /\ UNCHANGED <<identity, locks, alone, counters, run>>
  BY <1>1, QuietKeeps
<1> DEFINE Fits(l) ==
      /\ l \in Local /\ l.conversation = Own(r) /\ l.taught = req[r].taught
      /\ l.pc \in Locked \cup {"release"}
      /\ l.pc \in Locked => l.context = req[r].context
      /\ req[r].pc \in InRun =>
           \/ l.pc \in InRun /\ l.round = req[r].round
           \/ l.pc = "release" /\ RefusedOf(l.files) # {}
           \/ ~Open(Own(r))
<1>4. ASSUME NEW l, Fits(l), Becomes(r, l) PROVE Works(r) /\ KeepsRun(r) /\ KeepsContext(r)
  <2>1. req' \in [Request -> Local] /\ Alone(r) /\ req'[r] = Forgetful(l)
    BY <1>4, Becoming
  <2>2. /\ req'[r].pc = l.pc /\ req'[r].conversation = l.conversation /\ req'[r].taught = l.taught
        /\ RefusedOf(l.files) # {} => RefusedOf(req'[r].files) # {}
        /\ l.pc \notin {"release", "done"} => req'[r] = l
    BY <1>4, <2>1, Forgetting
  <2>3. "release" \notin Locked \cup InRun /\ "done" \notin Locked \cup InRun
    BY DEF Locked, InRun
  <2>4. Works(r)
    BY <1>1, <1>2, <1>3, <1>4, <2>1, <2>2 DEF Works
  <2>5. KeepsRun(r)
    BY <1>3, <1>4, <2>2, <2>3 DEF KeepsRun
  <2>6. KeepsContext(r)
    BY <1>3, <1>4, <2>2, <2>3 DEF KeepsContext
  <2>7. QED
    BY <2>4, <2>5, <2>6
<1> HIDE DEF Fits
<1>5. CASE LoadMemory(r)
  <2> DEFINE c == Own(r)
             cached == IF c \in DOMAIN conversations THEN conversations[c].memory ELSE <<>>
             stored == IF Open(c) THEN Remembered(conversations[c].messages) ELSE <<>>
  <2>1. conversations[c] \in Conversation
    BY <1>2, RowTypes
  <2>2. cached \in Seq(Message)
    BY <2>1 DEF Conversation
  <2>3. stored \in Seq(Message)
    BY <2>1, RememberedType DEF Conversation
  <2>4. req[r].pc \notin InRun
    BY <1>5 DEF LoadMemory, At, InRun
  <2>5. Becomes(r, IF cached # <<>> \/ stored = <<>>
           THEN [req[r] EXCEPT !.pc = "inbound", !.history = cached]
           ELSE [req[r] EXCEPT !.pc = "refill", !.history = stored])
    BY <1>5 DEF LoadMemory
  <2> HIDE DEF c, cached, stored
  <2>6. Fits([req[r] EXCEPT !.pc = "inbound", !.history = cached])
    BY <1>2, <2>2, <2>4 DEF Fits, Local, PCs, Locked, Own
  <2>7. Fits([req[r] EXCEPT !.pc = "refill", !.history = stored])
    BY <1>2, <2>3, <2>4 DEF Fits, Local, PCs, Locked, Own
  <2>8. QED
    BY <1>4, <2>5, <2>6, <2>7
<1>6. ASSUME NEW pc \in InRun, Goto(r, pc) \/ Throws(r, pc)
      PROVE  Works(r) /\ KeepsRun(r) /\ KeepsContext(r)
  <2>1. pc \in PCs /\ pc \in Locked
    BY DEF InRun, PCs, Locked
  <2>2. Fits([req[r] EXCEPT !.pc = pc]) /\ Fits([req[r] EXCEPT !.pc = pc, !.failed = TRUE])
    BY <1>2, <1>6, <2>1 DEF Fits, Local, Own
  <2>3. QED
    BY <1>4, <1>6, <2>2 DEF Goto, Throws
<1>7. AfterAnswer(r) \in InRun
  BY DEF AfterAnswer, InRun
<1>8. CASE DescribeImages(r) \/ AskGemini(r) \/ AskOpenAICompatible(r)
  <2>1. "ask" \in InRun /\ "give up" \in InRun
    BY DEF InRun
  <2>2. QED
    BY <1>6, <1>7, <1>8, <2>1 DEF DescribeImages, AskGemini, AskOpenAICompatible
<1>9. req[r].loops + 1 \in Nat /\ req[r].agent \in Agent /\ req[r].learned \in SUBSET Var
  BY <1>2 DEF Local
<1>10. CASE UseApi(r)
  <2>1. At(r, "ask")
    BY <1>10 DEF UseApi, Uses
  <2>2. PICK v \in Learns[req[r].agent] :
          Becomes(r, [req[r] EXCEPT !.loops = @ + 1, !.learned = @ \cup {v}])
    BY <1>10 DEF UseApi
  <2>3. v \in Var
    BY <1>2 DEF Local, Var
  <2>4. Fits([req[r] EXCEPT !.loops = @ + 1, !.learned = @ \cup {v}])
    BY <1>2, <1>9, <2>1, <2>3 DEF Fits, Local, Own, At, Locked, InRun
  <2>5. QED
    BY <1>4, <2>2, <2>4
<1>11. CASE UseSearch(r)
  <2>1. At(r, "ask")
    BY <1>11 DEF UseSearch, Uses
  <2>2. Fits([req[r] EXCEPT !.loops = @ + 1])
    BY <1>2, <1>9, <2>1 DEF Fits, Local, Own, At, Locked, InRun
  <2>3. QED
    BY <1>4, <1>11, <2>2 DEF UseSearch
<1>12. CASE StoreFile(r)
  <2>1. At(r, "file")
    BY <1>12 DEF StoreFile
  <2>2. PICK f \in req[r].files :
          IF Refused(f) \/ ~Open(Own(r))
            THEN Becomes(r, [req[r] EXCEPT !.pc = "release", !.failed = TRUE])
            ELSE Becomes(r, [req[r] EXCEPT !.pc = "part", !.files = @ \ {f}])
    BY <1>12 DEF StoreFile, Throws
  <2>3. Refused(f) \/ ~Open(Own(r)) => Fits([req[r] EXCEPT !.pc = "release", !.failed = TRUE])
    BY <1>2, <2>2 DEF Fits, Local, Own, PCs, Locked, RefusedOf
  <2>4. Fits([req[r] EXCEPT !.pc = "part", !.files = @ \ {f}])
    BY <1>2 DEF Fits, Local, Own, PCs, Locked, InRun
  <2>5. QED
    BY <1>4, <2>2, <2>3, <2>4
<1>13. CASE CreatePart(r)
  <2>1. CASE Open(Own(r))
    BY <1>6, <1>7, <1>13, <2>1 DEF CreatePart
  <2>2. CASE ~Open(Own(r))
    <3>1. Fits([req[r] EXCEPT !.pc = "release", !.failed = TRUE])
      BY <1>2, <2>2 DEF Fits, Local, Own, PCs, Locked
    <3>2. QED
      BY <1>4, <1>13, <2>2, <3>1 DEF CreatePart, Throws
  <2>3. QED
    BY <2>1, <2>2
<1>14. CASE ActivateAtOnce(r)
  <2> DEFINE takers == Takers(req[r].agent, req[r].context)
             taker == First(takers)
  <2>1. req[r].pc \notin InRun
    BY <1>14 DEF ActivateAtOnce, At, InRun
  <2>2. takers # {} => taker \in Agent
    <3>1. takers \in SUBSET Agent
      BY TestChatAssumption DEF Takers
    <3>2. QED
      BY <3>1, FirstOfAgents
  <2>3. \/ takers # {} /\ Becomes(r, [req[r] EXCEPT !.pc = "run", !.round = "second", !.agent = taker])
        \/ Becomes(r, [req[r] EXCEPT !.pc = "release"])
    BY <1>14 DEF ActivateAtOnce, Goto
  <2> HIDE DEF takers, taker
  <2>4. takers # {} => Fits([req[r] EXCEPT !.pc = "run", !.round = "second", !.agent = taker])
    BY <1>2, <2>1, <2>2 DEF Fits, Local, Own, PCs, Locked, Rounds
  <2>5. Fits([req[r] EXCEPT !.pc = "release"])
    BY <1>2, <2>1 DEF Fits, Local, Own, PCs, Locked
  <2>6. QED
    BY <1>4, <2>3, <2>4, <2>5
<1>15. QED
  BY <1>5, <1>8, <1>10, <1>11, <1>12, <1>13, <1>14
\* A request that writes nothing of its own but where it is.
LEMMA GoingWorks ==
  ASSUME Typed, NEW r \in Sends, req[r].pc \in Locked, Own(r) \in 1..Len(conversations),
         KeepsRows, UNCHANGED <<identity, locks, alone, counters>>,
         NEW pc \in Locked \cup {"release"}, GoesOn(r, pc)
  PROVE  /\ Works(r)
         /\ UNCHANGED run /\ (req[r].pc \in InRun => pc \in InRun \/ ~Open(Own(r))) => KeepsRun(r)
         /\ KeepsContexts => KeepsContext(r)
<1>1. "release" \notin Locked \cup InRun /\ "done" \notin Locked \cup InRun
  BY DEF Locked, InRun
<1>2. Works(r)
  BY DEF Works, GoesOn
<1>3. ASSUME UNCHANGED run, req[r].pc \in InRun => pc \in InRun \/ ~Open(Own(r))
      PROVE  KeepsRun(r)
  BY <1>1, <1>3 DEF KeepsRun, GoesOn
<1>4. ASSUME KeepsContexts PROVE KeepsContext(r)
  BY <1>1, <1>4 DEF KeepsContext, GoesOn
<1>5. QED
  BY <1>2, <1>3, <1>4

\* Steps that write the memory, the messages, the mode and the agent.
LEMMA WritingWork ==
  ASSUME Typed, Placed, NEW r \in Request,
         \/ Refill(r) \/ SaveInbound(r) \/ TransferToHuman(r) \/ SaveReply(r) \/ SaveMemory(r)
         \/ SaveState(r)
  PROVE  Works(r) /\ KeepsRun(r) /\ KeepsContext(r)
<1> DEFINE c == Own(r)
<1>1. req[r].pc \in Locked
  BY DEF Refill, SaveInbound, TransferToHuman, Uses, SaveReply, SaveMemory, SaveState, At, Locked
<1>2. r \in Sends /\ c \in 1..Len(conversations) /\ req[r] \in Local
  BY <1>1, LockedIsPlaced
<1>3. UNCHANGED <<identity, run, locks, alone, counters>>
  BY DEF Refill, SaveInbound, TransferToHuman, SaveReply, SaveMemory, SaveState
<1>4. conversations' = conversations => KeepsRows /\ KeepsContexts
  BY DEF Typed, KeepsRows, KeepsContexts
<1>5. <<r, "user">> \in Message /\ <<r, req[r].round>> \in Message
  BY <1>2 DEF Local, Message, Roles
<1>6. ASSUME NEW pc \in Locked \cup {"release"}, GoesOn(r, pc), KeepsRows, KeepsContexts,
             req[r].pc \in InRun => pc \in InRun \/ ~Open(c)
      PROVE  Works(r) /\ KeepsRun(r) /\ KeepsContext(r)
  BY <1>1, <1>2, <1>3, <1>6, GoingWorks
<1>7. Locked \cup {"release"} \subseteq PCs
  BY DEF PCs
<1>8. ASSUME NEW role \in Roles, NEW pc \in Locked, Store(r, role, pc),
             req[r].pc \in InRun => pc \in InRun
      PROVE  Works(r) /\ KeepsRun(r) /\ KeepsContext(r)
  <2>1. CASE Open(c)
    <3>1. conversations' = [conversations EXCEPT ![c].messages = Append(@, <<r, role>>)]
          /\ Goto(r, pc)
      BY <1>8, <2>1 DEF Store
    <3>2. <<r, role>> \in Message
      BY <1>8 DEF Message
    <3>3. KeepsRows /\ KeepsContexts
      BY <1>2, <3>1, <3>2, Columns
    <3>4. GoesOn(r, pc)
      BY <1>7, <1>8, <3>1, GotoGoesOn
    <3>5. QED
      BY <1>6, <1>8, <3>3, <3>4
  <2>2. CASE ~Open(c)
    <3>1. conversations' = conversations /\ Throws(r, "release")
      BY <1>8, <2>2 DEF Store
    <3>2. GoesOn(r, "release")
      BY <1>7, <3>1, ThrowsGoesOn
    <3>3. QED
      BY <1>4, <1>6, <2>2, <3>1, <3>2
  <2>3. QED
    BY <2>1, <2>2
<1>9. CASE Refill(r)
  <2>1. Remembered(req[r].history) \in Seq(Message)
    BY <1>2, RememberedType DEF Local
  <2>2. KeepsRows /\ KeepsContexts
    BY <1>2, <1>9, <2>1, Columns DEF Refill
  <2>3. "inbound" \in Locked /\ req[r].pc \notin InRun
    BY <1>9 DEF Refill, At, Locked, InRun
  <2>4. GoesOn(r, "inbound")
    BY <1>7, <1>9, <2>3, GotoGoesOn DEF Refill
  <2>5. QED
    BY <1>6, <2>2, <2>3, <2>4
<1>10. CASE SaveInbound(r)
  <2>1. "run" \in Locked /\ req[r].pc \notin InRun /\ "user" \in Roles
    BY <1>10 DEF SaveInbound, At, Locked, InRun, Roles
  <2>2. QED
    BY <1>8, <1>10, <2>1 DEF SaveInbound
<1>11. CASE TransferToHuman(r)
  <2> DEFINE l == [req[r] EXCEPT !.loops = @ + 1, !.told = TRUE]
  <2>1. At(r, "ask") /\ Becomes(r, l)
    BY <1>11 DEF TransferToHuman, Uses
  <2>2. req[r].loops + 1 \in Nat
    BY <1>2 DEF Local
  <2>3. l \in Local /\ l.pc = "ask" /\ l.conversation = c /\ l.taught = req[r].taught
        /\ l.files = req[r].files /\ l.round = req[r].round /\ l.context = req[r].context
        /\ l.found = req[r].found /\ l.todo = req[r].todo /\ l.agent = req[r].agent
    BY <1>2, <2>1, <2>2 DEF Local, Own, At
  <2> HIDE DEF l
  <2>4. GoesOn(r, "ask")
    BY <2>1, <2>3, Becoming, Forgetting DEF GoesOn
  <2>5. KeepsRows /\ KeepsContexts
    BY <1>2, <1>4, <1>11, Columns DEF TransferToHuman
  <2>6. "ask" \in Locked /\ "ask" \in InRun
    BY DEF Locked, InRun
  <2>7. QED
    BY <1>6, <2>4, <2>5, <2>6
<1>12. CASE SaveReply(r)
  <2>1. "complete" \in Locked /\ "complete" \in InRun /\ req[r].round \in Roles
    BY <1>2 DEF Locked, InRun, Roles, Local
  <2>2. QED
    BY <1>8, <1>12, <2>1 DEF SaveReply
<1>13. CASE SaveMemory(r)
  <2>1. req[r].history \o << <<r, "user">>, <<r, req[r].round>> >> \in Seq(Message)
    <3>1. << <<r, "user">>, <<r, req[r].round>> >> \in Seq(Message)
      BY <1>5
    <3>2. req[r].history \in Seq(Message)
      BY <1>2 DEF Local
    <3>3. QED
      BY <3>1, <3>2, ConcatProperties
  <2>2. Exchange(r) \in Seq(Message)
    BY <2>1, RememberedType DEF Exchange
  <2>3. KeepsRows /\ KeepsContexts
    BY <1>2, <1>13, <2>2, Columns DEF SaveMemory
  <2>4. "context back" \in Locked /\ req[r].pc \notin InRun
    BY <1>13 DEF SaveMemory, At, Locked, InRun
  <2>5. GoesOn(r, "context back")
    BY <1>7, <1>13, <2>4, GotoGoesOn DEF SaveMemory
  <2>6. QED
    BY <1>6, <2>3, <2>4, <2>5
<1>14. CASE SaveState(r)
  <2>1. req[r].pc \notin InRun
    BY <1>14 DEF SaveState, At, InRun
  <2>2. CASE Open(c)
    <3>1. conversations' = [conversations EXCEPT ![c].agent = req[r].agent]
      BY <1>14, <2>2 DEF SaveState
    <3>2. req[r].agent \in Agent
      BY <1>2 DEF Local
    <3>3. KeepsRows /\ KeepsContexts
      BY <1>2, <3>1, <3>2, Columns
    <3>4. PICK pc \in Locked \cup {"release"} : Goto(r, pc)
      BY <1>14, <2>2 DEF SaveState, Locked
    <3>5. GoesOn(r, pc)
      BY <1>7, <3>4, GotoGoesOn
    <3>6. QED
      BY <1>6, <2>1, <3>3, <3>5
  <2>3. CASE ~Open(c)
    <3>1. conversations' = conversations /\ Throws(r, "release")
      BY <1>14, <2>3 DEF SaveState
    <3>2. GoesOn(r, "release")
      BY <1>7, <3>1, ThrowsGoesOn
    <3>3. QED
      BY <1>4, <1>6, <2>3, <3>1, <3>2
  <2>4. QED
    BY <2>2, <2>3
<1>15. QED
  BY <1>9, <1>10, <1>11, <1>12, <1>13, <1>14

\* What a turn has learned goes into the context.
SavesContext(r) ==
  /\ conversations'[Own(r)].context =
       (req[r].context \ Foreign[req[r].agent]) \cup req[r].learned
  /\ req'[r].context = conversations'[Own(r)].context
  /\ req'[r].taught = req[r].taught \cup req[r].learned
  /\ \A d \in 1..Len(conversations) : d # Own(r) =>
       conversations'[d].context = conversations[d].context

LEMMA ContextWork ==
  ASSUME Typed, Placed, NEW r \in Request, SaveContext(r)
  PROVE  /\ Works(r) /\ KeepsRun(r)
         /\ (Open(Own(r)) /\ SavesContext(r)) \/ KeepsContext(r)
<1> DEFINE c == Own(r)
           merged == Merged(req[r].agent, req[r].context, req[r].learned)
<1>1. req[r].pc \in Locked /\ req[r].pc = "context back" /\ req[r].pc \notin InRun
  BY DEF SaveContext, At, Locked, InRun
<1>2. r \in Sends /\ c \in 1..Len(conversations) /\ req[r] \in Local
  BY <1>1, LockedIsPlaced
<1>3. UNCHANGED <<identity, run, locks, alone, counters>>
  BY DEF SaveContext
<1>4. CASE Open(c)
  <2> DEFINE l == [req[r] EXCEPT !.pc = "state back", !.context = merged,
                                  !.taught = @ \cup req[r].learned]
  <2>1. conversations' = [conversations EXCEPT ![c].context = merged] /\ Becomes(r, l)
    BY <1>4 DEF SaveContext
  <2>2. merged \in SUBSET Var
    BY <1>2 DEF Merged, Local
  <2>3. l \in Local /\ l.pc = "state back" /\ l.conversation = c /\ l.context = merged
        /\ l.taught = req[r].taught \cup req[r].learned
    BY <1>2, <2>2 DEF Local, Own, PCs, Locked
  <2> HIDE DEF l
  <2>4. req' \in [Request -> Local] /\ Alone(r) /\ req'[r] = l
    BY <2>1, <2>3, Becoming, Forgetting
  <2>5. /\ KeepsRows /\ conversations'[c].context = merged
        /\ \A d \in 1..Len(conversations) : d # c =>
             conversations'[d].context = conversations[d].context
    BY <1>2, <2>1, <2>2, Columns
  <2>6. Works(r)
    BY <1>1, <1>2, <1>3, <2>3, <2>4, <2>5 DEF Works, Locked
  <2>7. KeepsRun(r)
    BY <1>1, <1>3 DEF KeepsRun
  <2>8. SavesContext(r)
    BY <2>3, <2>4, <2>5 DEF SavesContext, Merged
  <2>9. QED
    BY <1>4, <2>6, <2>7, <2>8
<1>5. CASE ~Open(c)
  <2>1. conversations' = conversations /\ Throws(r, "release")
    BY <1>5 DEF SaveContext
  <2>2. KeepsRows /\ KeepsContexts
    BY <2>1 DEF Typed, KeepsRows, KeepsContexts
  <2>3. "release" \in PCs
    BY DEF PCs
  <2>4. GoesOn(r, "release")
    BY <2>1, <2>3, ThrowsGoesOn
  <2>5. QED
    BY <1>1, <1>2, <1>3, <2>2, <2>4, GoingWorks
<1>6. QED
  BY <1>4, <1>5

\* The rows of the runs of the other requests stay; that of this one says
\* "running" for a reason.
RunsOn(r) ==
  /\ run' \in [Sends -> [Rounds -> {"none", "running", "success", "failed"}]]
  /\ \A q \in Sends \ {r} : run'[q] = run[q]
  /\ RunIsUnderWay(r)'

\* No conversation that was deleted comes back.
LEMMA RowsStay ==
  ASSUME Typed, KeepsRows
  PROVE  \A c : Open(c)' <=> Open(c)
<1>1. \A c : Open(c) <=> c \in 1..Len(conversations) /\ ~conversations[c].deleted
  BY RowTypes
<1>2. conversations' \in Seq(Conversation)
  BY DEF KeepsRows
<1>3. DOMAIN conversations' = 1..Len(conversations)
  BY <1>2 DEF KeepsRows
<1>4. \A c : Open(c)' <=> c \in 1..Len(conversations) /\ ~conversations'[c].deleted
  BY <1>3 DEF Open
<1>5. QED
  BY <1>1, <1>4 DEF KeepsRows

\* A step that leaves the run as it is.
LEMMA KeepingRunsOn ==
  ASSUME Typed, NEW r \in Sends, RunIsUnderWay(r), Works(r), KeepsRun(r)
  PROVE  RunsOn(r)
<1>1. Open(Own(r))' <=> Open(Own(r))
  <2>1. Own(r)' = Own(r)
    BY DEF Works, Own
  <2>2. KeepsRows
    BY DEF Works
  <2>3. \A c : Open(c)' <=> Open(c)
    BY <2>2, RowsStay
  <2>4. PICK c : c = Own(r)
    OBVIOUS
  <2>5. QED
    BY <2>1, <2>3, <2>4
<1>2. run' = run /\ faults' = faults
  BY DEF KeepsRun, Works, counters
<1>3. req[r].pc \notin {"release", "done"}
  BY DEF Works, Locked
<1>4. ASSUME NEW round \in Rounds, run'[r][round] = "running"
      PROVE  \/ req'[r].pc \in InRun /\ round = req'[r].round
             \/ faults' > 0
             \/ req'[r].pc \in {"release", "done"} /\ RefusedOf(req'[r].files) # {}
             \/ ~Open(Own(r))'
  BY <1>1, <1>2, <1>3, <1>4 DEF RunIsUnderWay, KeepsRun
<1>5. RunIsUnderWay(r)'
  BY <1>4 DEF RunIsUnderWay
<1>6. QED
  BY <1>2, <1>5 DEF RunsOn, Typed

\* A status is written to the row of the present round, or nothing is.
LEMMA StatusWork ==
  ASSUME Typed, NEW r \in Sends, RunIsUnderWay(r), Works(r), req[r].pc \in Locked,
         NEW status \in {"running", "success", "failed"}, RunBecomes(r, status),
         status = "running" => req'[r].pc \in InRun /\ req'[r].round = req[r].round
  PROVE  RunsOn(r)
<1>1. run \in [Sends -> [Rounds -> {"none", "running", "success", "failed"}]]
  BY DEF Typed
<1>2. req[r].round \in Rounds
  BY DEF Typed, Local, Request
<1>3. run' = [run EXCEPT ![r][req[r].round] = status]
  BY DEF RunBecomes
<1>4. /\ run' \in [Sends -> [Rounds -> {"none", "running", "success", "failed"}]]
      /\ \A q \in Sends \ {r} : run'[q] = run[q]
      /\ run'[r][req[r].round] = status
      /\ \A round \in Rounds : round # req[r].round => run'[r][round] = run[r][round]
  BY <1>1, <1>2, <1>3
<1>5. Open(Own(r))' <=> Open(Own(r))
  <2>1. Own(r)' = Own(r)
    BY DEF Works, Own
  <2>2. KeepsRows
    BY DEF Works
  <2>3. \A c : Open(c)' <=> Open(c)
    BY <2>2, RowsStay
  <2>4. PICK c : c = Own(r)
    OBVIOUS
  <2>5. QED
    BY <2>1, <2>3, <2>4
<1>6. faults' = faults
  BY DEF Works, counters
<1>7. req[r].pc \notin {"release", "done"}
  BY DEF Locked
<1>8. ASSUME NEW round \in Rounds, run'[r][round] = "running"
      PROVE  \/ req'[r].pc \in InRun /\ round = req'[r].round
             \/ faults' > 0
             \/ req'[r].pc \in {"release", "done"} /\ RefusedOf(req'[r].files) # {}
             \/ ~Open(Own(r))'
  <2>1. CASE round = req[r].round
    BY <1>4, <1>8, <2>1
  <2>2. CASE round # req[r].round
    BY <1>4, <1>5, <1>6, <1>7, <1>8, <2>2 DEF RunIsUnderWay
  <2>3. QED
    BY <2>1, <2>2
<1>9. RunIsUnderWay(r)'
  BY <1>8 DEF RunIsUnderWay
<1>10. QED
  BY <1>4, <1>9 DEF RunsOn

\* Steps that write the agent_runs row.
LEMMA RunWork ==
  ASSUME Typed, Placed, RunsAreUnderWay, NEW r \in Request,
         StartRun(r) \/ FailRun(r) \/ CompleteRun(r)
  PROVE  Works(r) /\ KeepsContext(r) /\ RunsOn(r)
<1> DEFINE c == Own(r)
<1>1. req[r].pc \in Locked
  BY DEF StartRun, FailRun, CompleteRun, At, Locked
<1>2. r \in Sends /\ c \in 1..Len(conversations) /\ req[r] \in Local
  BY <1>1, LockedIsPlaced
<1>3. conversations' = conversations /\ UNCHANGED <<identity, locks, alone, counters>>
  BY DEF StartRun, FailRun, CompleteRun
<1>4. KeepsRows /\ KeepsContexts
  BY <1>3 DEF Typed, KeepsRows, KeepsContexts
<1>5. Locked \cup {"release"} \subseteq PCs
  BY DEF PCs
<1>6. RunIsUnderWay(r)
  BY <1>2 DEF RunsAreUnderWay
<1>7. CASE FailRun(r) \/ CompleteRun(r)
  <2>1. PICK pc \in {"release", "remember"} : Goto(r, pc)
    BY <1>7 DEF FailRun, CompleteRun
  <2>2. pc \in Locked \cup {"release"}
    BY DEF Locked
  <2>3. GoesOn(r, pc)
    BY <1>5, <2>1, <2>2, GotoGoesOn
  <2>4. Works(r) /\ KeepsContext(r)
    BY <1>1, <1>2, <1>3, <1>4, <2>2, <2>3, GoingWorks
  <2>5. PICK status \in {"success", "failed"} : RunBecomes(r, status)
    BY <1>7 DEF FailRun, CompleteRun
  <2>6. QED
    BY <1>1, <1>2, <1>6, <2>4, <2>5, StatusWork
<1>8. CASE StartRun(r) /\ ~Open(c)
  <2>1. run' = run /\ Throws(r, "release") /\ req[r].pc \notin InRun
    BY <1>8 DEF StartRun, At, InRun
  <2>2. GoesOn(r, "release")
    BY <1>5, <2>1, ThrowsGoesOn
  <2>3. Works(r) /\ KeepsContext(r) /\ KeepsRun(r)
    BY <1>1, <1>2, <1>3, <1>4, <2>1, <2>2, GoingWorks
  <2>4. QED
    BY <1>2, <1>6, <2>3, KeepingRunsOn
<1>9. CASE StartRun(r) /\ Open(c)
  <2>1. RunBecomes(r, "running")
    BY <1>9 DEF StartRun
  <2> DEFINE choice == IF req[r].round = "first" THEN FilesOf[r] ELSE {{}}
             l(pc, some) == [req[r] EXCEPT !.pc = pc, !.loops = 0, !.learned = {}, !.files = some]
  <2>2. PICK some \in choice, pc \in {"describe", "ask"} : Becomes(r, l(pc, some))
    BY <1>9 DEF StartRun
  <2>3. some \in SUBSET File
    BY <1>2, TestChatAssumption
  <2>4. /\ l(pc, some) \in Local /\ l(pc, some).pc = pc /\ l(pc, some).conversation = c
        /\ l(pc, some).taught = req[r].taught /\ l(pc, some).context = req[r].context
        /\ l(pc, some).round = req[r].round
    BY <1>2, <2>3 DEF Local, Own, PCs, Locked
  <2>5. req' \in [Request -> Local] /\ Alone(r) /\ req'[r] = l(pc, some)
    <3>1. PICK x : x = l(pc, some)
      OBVIOUS
    <3>2. Becomes(r, x) /\ x \in Local /\ x.pc = pc
      BY <2>2, <2>4, <3>1
    <3> HIDE DEF l
    <3>3. QED
      BY <3>1, <3>2, Becoming, Forgetting
  <2> HIDE DEF l
  <2>6. pc \in Locked /\ pc \in InRun
    BY DEF Locked, InRun
  <2>7. Works(r)
    BY <1>1, <1>2, <1>3, <1>4, <2>4, <2>5, <2>6 DEF Works
  <2>8. KeepsContext(r)
    BY <1>4, <2>4, <2>5 DEF KeepsContext
  <2>9. RunsOn(r)
    BY <1>1, <1>2, <1>6, <2>1, <2>4, <2>5, <2>6, <2>7, StatusWork
  <2>10. QED
    BY <2>7, <2>8, <2>9
<1>10. QED
  BY <1>7, <1>8, <1>9

-----------------------------------------------------------------------------
(* What leaves each part of the invariant as it is.                        *)

LEMMA Finiteness ==
  ASSUME Typed
  PROVE  /\ IsFiniteSet(Sends) /\ IsFiniteSet(Clears)
         /\ IsFiniteSet(Inside) /\ IsFiniteSet(Creating) /\ IsFiniteSet(OpenOnes)
         /\ \A c : IsFiniteSet(Answering(c)) /\ IsFiniteSet(Wipers(c))
<1>1. IsFiniteSet(Sends) /\ IsFiniteSet(Clears)
  <2>1. Sends \subseteq Request /\ Clears \subseteq Request
    BY DEF Request
  <2>2. QED
    BY <2>1, TestChatAssumption, FS_Subset
<1>2. Inside \subseteq Sends /\ Creating \subseteq Sends
  BY DEF Inside, Creating
<1>3. \A c : Answering(c) \subseteq Sends /\ Wipers(c) \subseteq Clears
  BY DEF Answering, Wipers
<1>4. IsFiniteSet(1..Len(conversations))
  BY RowTypes, FS_Interval
<1>5. OpenOnes \subseteq 1..Len(conversations)
  BY RowTypes DEF OpenOnes
<1>6. QED
  BY <1>1, <1>2, <1>3, <1>4, <1>5, FS_Subset

LEMMA Counts ==
  ASSUME Typed
  PROVE  /\ Cardinality(Inside) \in Nat /\ Cardinality(Creating) \in Nat
         /\ Cardinality(OpenOnes) \in Nat
         /\ \A c : Cardinality(Answering(c)) \in Nat /\ Cardinality(Wipers(c)) \in Nat
         /\ expiries \in Nat /\ faults \in Nat
BY Finiteness, FS_CardinalityType DEF Typed

\* Requests that are over stay over.
OverStays == \A q \in Request : req[q].pc = "done" => req'[q].pc = "done"

LEMMA SessionsFrame ==
  ASSUME Typed, SessionsAreCounted, UNCHANGED <<identityLock, expiries>>, OverStays,
         Inside' = Inside, Creating' \subseteq Creating, OpenOnes' \subseteq OpenOnes
  PROVE  SessionsAreCounted'
<1>1. identityLock # None => identityLock \in Request
  BY DEF Typed, Request
<1>2. identityLock' # None => identityLock' \in Inside' \/ At(identityLock, "done")'
  BY <1>1 DEF SessionsAreCounted, At, OverStays
<1>3. Cardinality(Inside') + One(identityLock' \notin Inside') <= 1 + expiries'
  BY DEF SessionsAreCounted
<1>4. Cardinality(OpenOnes') <= Cardinality(OpenOnes) /\ Cardinality(OpenOnes') \in Nat
  BY Finiteness, FS_Subset, FS_CardinalityType
<1>5. Cardinality(Creating') <= Cardinality(Creating) /\ Cardinality(Creating') \in Nat
  BY Finiteness, FS_Subset, FS_CardinalityType
<1>6. Cardinality(OpenOnes') + Cardinality(Creating') <= 1 + expiries'
  BY <1>4, <1>5, Counts DEF SessionsAreCounted
<1>7. QED
  BY <1>2, <1>3, <1>6 DEF SessionsAreCounted

LEMMA AnswersFrame ==
  ASSUME Typed, AnswersAreCounted, UNCHANGED <<chatLock, expiries>>, OverStays,
         faults' \in Nat, faults <= faults',
         OpenOnes' \subseteq OpenOnes,
         \A c \in OpenOnes' : /\ Answering(c)' = Answering(c)
                              /\ Cardinality(Wipers(c)') \in Nat
                              /\ Cardinality(Wipers(c)) + faults
                                   <= Cardinality(Wipers(c)') + faults'
  PROVE  AnswersAreCounted'
<1>1. SUFFICES ASSUME NEW c \in OpenOnes'
               PROVE  /\ chatLock'[c] # None =>
                           chatLock'[c] \in Answering(c)' \/ req'[chatLock'[c]].pc = "done"
                      /\ Cardinality(Answering(c)') + One(chatLock'[c] \notin Answering(c)')
                           <= 1 + expiries' + faults' + Cardinality(Wipers(c)')
  BY DEF AnswersAreCounted, At
<1>2. c \in OpenOnes /\ c \in 1..Len(chatLock)
  BY RowTypes DEF OpenOnes, Typed
<1>3. chatLock[c] \in Sends \cup {None}
  BY <1>2 DEF Typed
<1>4. chatLock[c] # None => chatLock[c] \in Answering(c) \/ req[chatLock[c]].pc = "done"
  BY <1>2 DEF AnswersAreCounted, At
<1>5. chatLock'[c] # None => chatLock'[c] \in Answering(c)' \/ req'[chatLock'[c]].pc = "done"
  BY <1>1, <1>3, <1>4 DEF OverStays, Request
<1>6. Cardinality(Answering(c)) + One(chatLock[c] \notin Answering(c))
        <= 1 + expiries + faults + Cardinality(Wipers(c))
  BY <1>2 DEF AnswersAreCounted
<1>7. One(chatLock[c] \notin Answering(c)) \in Nat
  BY DEF One
<1>8. Cardinality(Answering(c)) + One(chatLock[c] \notin Answering(c))
        <= 1 + expiries + faults' + Cardinality(Wipers(c)')
  BY <1>1, <1>6, <1>7, Counts
<1>9. QED
  BY <1>1, <1>5, <1>8

LEMMA AloneFrame ==
  ASSUME AloneAreAlone, UNCHANGED alone, alone \in SUBSET Request,
         \A q \in Request : /\ req'[q].pc = "idle" => req[q].pc = "idle"
                            /\ req'[q].pc \notin {"idle", "done"} => req[q].pc \notin {"idle", "done"}
  PROVE  AloneAreAlone'
BY DEF AloneAreAlone, At, UnderWay

LEMMA NothingIsZero ==
  ASSUME Typed
  PROVE  ~Open(0)
BY RowTypes

\* A conversation that stays open keeps its context, a request its conversation
\* once it has one, and what is new has learned nothing.
LEMMA ContextFrame ==
  ASSUME Typed, ContextSurvives, ContextIsCurrent,
         \A c : Open(c)' =>
           \/ Open(c) /\ conversations'[c].context = conversations[c].context
           \/ \A q \in Sends : req'[q].conversation = c => req'[q].taught = {},
         \A q \in Request :
           /\ req'[q].conversation = req[q].conversation \/ req[q].conversation = 0
           /\ \/ req'[q].taught = {}
              \/ req'[q].taught = req[q].taught /\ req'[q].conversation = req[q].conversation
           /\ q \in alone' /\ req[q].conversation # 0 => q \in alone,
         \A q \in Sends : \A c :
           req'[q].pc \in KnowsContext /\ q \in alone' /\ c = req'[q].conversation /\ Open(c)' =>
             \/ req'[q].context = conversations'[c].context
             \/ /\ req[q].pc \in KnowsContext /\ q \in alone
                /\ c = req[q].conversation /\ Open(c)
                /\ req'[q].context = req[q].context
                /\ conversations'[c].context = conversations[c].context
  PROVE  ContextSurvives' /\ ContextIsCurrent'
<1> DEFINE U == UNION {Foreign[a] : a \in Agent}
<1> HIDE DEF U
<1>1. ASSUME NEW r \in Sends, NEW c, c = req'[r].conversation, Open(c)',
             \A q \in Request : req'[q].conversation = c => q \in alone',
             req'[r].taught # {}
      PROVE  req'[r].taught \ U \subseteq conversations'[c].context
  <2>1. r \in Request
    BY DEF Request
  <2>2. req'[r].taught = req[r].taught /\ req'[r].conversation = req[r].conversation
    BY <1>1, <2>1
  <2>3. Open(c) /\ conversations'[c].context = conversations[c].context
    BY <1>1
  <2>4. c # 0 /\ c = Own(r)
    BY <1>1, <2>2, <2>3, NothingIsZero DEF Own
  <2>5. \A q \in Request : Own(q) = c => q \in alone
    BY <1>1, <2>4 DEF Own
  <2>6. req[r].taught \ U \subseteq conversations[c].context
    BY <2>3, <2>4, <2>5 DEF ContextSurvives, U
  <2>7. QED
    BY <2>2, <2>3, <2>6
<1>2. ASSUME NEW r \in Sends, NEW c, c = req'[r].conversation, Open(c)',
             \A q \in Request : req'[q].conversation = c => q \in alone'
      PROVE  req'[r].taught \ U \subseteq conversations'[c].context
  BY <1>1, <1>2
<1>3. ContextSurvives'
  BY <1>2 DEF ContextSurvives, Own, U
<1>4. ASSUME NEW r \in Sends \cap alone', NEW c, c = req'[r].conversation,
             req'[r].pc \in KnowsContext, Open(c)'
      PROVE  req'[r].context = conversations'[c].context
  BY <1>4 DEF ContextIsCurrent, Own
<1>5. ContextIsCurrent'
  BY <1>4 DEF ContextIsCurrent, Own
<1>6. QED
  BY <1>3, <1>5
-----------------------------------------------------------------------------
(* Steps under the lease keep the invariant.                               *)

\* The other requests stay where they are.
LEMMA PlacedFrame ==
  ASSUME Typed, Placed, NEW r \in Request, Alone(r),
         conversations' \in Seq(Conversation), Len(conversations) <= Len(conversations'),
         \A q \in Sends \ {r} : run'[q] = run[q],
         r \in Sends => SendIsPlaced(r)', r \in Clears => ClearIsPlaced(r)'
  PROVE  Placed'
<1>1. DOMAIN conversations \subseteq DOMAIN conversations'
  <2>1. Len(conversations) \in Nat /\ Len(conversations') \in Nat
        /\ DOMAIN conversations = 1..Len(conversations)
        /\ DOMAIN conversations' = 1..Len(conversations')
    BY RowTypes
  <2>2. QED
    BY <2>1
<1>2. ASSUME NEW q \in Clears PROVE ClearIsPlaced(q)'
  <2>1. CASE q # r
    <3>1. req'[q] = req[q] /\ ClearIsPlaced(q)
      BY <1>2, <2>1 DEF Alone, Request, Placed
    <3>2. QED
      BY <1>1, <3>1 DEF ClearIsPlaced, Own
  <2>2. QED
    BY <1>2, <2>1
<1>3. ASSUME NEW q \in Sends PROVE SendIsPlaced(q)'
  <2>1. CASE q # r
    <3>1. req'[q] = req[q] /\ run'[q] = run[q] /\ SendIsPlaced(q)
      BY <1>3, <2>1 DEF Alone, Request, Placed
    <3>2. req[q].conversation \in Nat /\ Len(conversations) \in Nat /\ Len(conversations') \in Nat
      BY <1>3, RowTypes DEF Typed, Local, Request
    <3>3. req[q].conversation <= Len(conversations)
      BY <3>1 DEF SendIsPlaced, Own
    <3>4. req'[q].conversation <= Len(conversations')
      BY <3>1, <3>2, <3>3
    <3>5. QED
      BY <3>1, <3>4 DEF SendIsPlaced, Own, At
  <2>2. QED
    BY <1>3, <2>1
<1>4. QED
  BY <1>2, <1>3 DEF Placed

LEMMA WorkTypes ==
  ASSUME Typed, Placed, NEW r \in Request, Works(r), RunsOn(r)
  PROVE  Typed' /\ Placed'
<1>1. UNCHANGED <<identity, identityLock, chatLock, alone, expiries, faults>>
  BY DEF Works, locks, counters
<1>2. Typed'
  BY <1>1 DEF Typed, Works, RunsOn, KeepsRows
<1>3. r \in Sends /\ r \notin Clears
  BY TestChatAssumption DEF Works
<1>4. SendIsPlaced(r)'
  <2>1. Own(r)' = Own(r) /\ Own(r) \in 1..Len(conversations) /\ Len(conversations') = Len(conversations)
    BY DEF Works, Own, KeepsRows
  <2>2. Own(r)' # 0 /\ Own(r)' <= Len(conversations')
    BY <2>1, RowTypes
  <2>3. req'[r].pc \notin Clearing \cup {"idle"} \cup Before
    BY DEF Works, Locked, Clearing, Before
  <2>4. QED
    BY <2>2, <2>3 DEF SendIsPlaced, Identifying, Before
<1>5. conversations' \in Seq(Conversation) /\ Len(conversations) <= Len(conversations')
  BY RowTypes DEF Works, KeepsRows
<1>6. \A q \in Sends \ {r} : run'[q] = run[q]
  BY DEF RunsOn
<1>7. Alone(r)
  BY DEF Works
<1>8. Placed'
  BY <1>3, <1>4, <1>5, <1>6, <1>7, PlacedFrame
<1>9. QED
  BY <1>2, <1>8

LEMMA WorkKeeps ==
  ASSUME IInv, NEW r \in Request, Works(r), RunsOn(r),
         (Open(Own(r)) /\ SavesContext(r)) \/ KeepsContext(r)
  PROVE  IInv'
<1>0. /\ Typed /\ Placed /\ RunsAreUnderWay /\ SessionsAreCounted /\ AnswersAreCounted
      /\ AloneAreAlone /\ ContextSurvives /\ ContextIsCurrent
  BY DEF IInv
<1>1. Typed' /\ Placed'
  BY <1>0, WorkTypes
<1>2. UNCHANGED <<identity, identityLock, chatLock, alone, expiries, faults>>
  BY DEF Works, locks, counters
<1>3. r \in Sends /\ r \notin Clears
  BY TestChatAssumption DEF Works
<1>4. \A c : Open(c)' <=> Open(c)
  BY <1>0, RowsStay DEF Works
<1>5. \A q \in Request \ {r} : req'[q] = req[q]
  BY DEF Works, Alone
<1>6. /\ req[r].pc \in Locked /\ req'[r].pc \in Locked \cup {"release"}
      /\ req'[r].conversation = req[r].conversation
  BY DEF Works, Own
<1>7. RunsAreUnderWay'
  <2>1. ASSUME NEW q \in Sends, q # r PROVE RunIsUnderWay(q)'
    <3>1. req'[q] = req[q] /\ run'[q] = run[q] /\ faults' = faults
      BY <1>2, <1>5, <2>1 DEF RunsOn, Request
    <3>2. Own(q)' = Own(q)
      BY <3>1 DEF Own
    <3>3. Open(Own(q))' <=> Open(Own(q))
      <4>1. PICK c : c = Own(q)
        OBVIOUS
      <4>2. QED
        BY <1>4, <3>2, <4>1
    <3>4. RunIsUnderWay(q)
      BY <1>0, <2>1 DEF RunsAreUnderWay
    <3>5. QED
      BY <3>1, <3>3, <3>4 DEF RunIsUnderWay
  <2>2. QED
    BY <2>1 DEF RunsAreUnderWay, RunsOn
<1>8. OverStays
  BY <1>5, <1>6 DEF OverStays, Locked
<1>9. Inside' = Inside /\ Creating' = Creating
  BY <1>3, <1>5, <1>6 DEF Inside, HoldsIdentity, Creating, At, Request, Locked
<1>10. OpenOnes' = OpenOnes
  <2>1. DOMAIN conversations' = DOMAIN conversations
    BY DEF Works, KeepsRows, IInv, Typed
  <2>2. QED
    BY <1>4, <2>1 DEF OpenOnes
<1>11. SessionsAreCounted'
  BY <1>0, <1>2, <1>8, <1>9, <1>10, SessionsFrame
<1>12. AnswersAreCounted'
  <2>1. \A q \in Sends : req'[q].conversation = req[q].conversation
                         /\ (req'[q].pc \in Locked \cup {"release"} <=> req[q].pc \in Locked \cup {"release"})
    BY <1>5, <1>6 DEF Request
  <2>2. \A c : Answering(c)' = Answering(c)
    BY <2>1 DEF Answering, Own
  <2>3. \A q \in Clears : req'[q] = req[q]
    BY <1>3, <1>5 DEF Request
  <2>4. \A c : Wipers(c)' = Wipers(c)
    BY <2>3 DEF Wipers, UnderWay
  <2>5. faults' \in Nat /\ faults <= faults' /\ faults' = faults
    BY <1>0, <1>2, Counts
  <2>6. \A c : Cardinality(Wipers(c)') = Cardinality(Wipers(c)) /\ Cardinality(Wipers(c)) \in Nat
    BY <1>0, <2>4, Counts
  <2>7. QED
    BY <1>0, <1>2, <1>8, <1>10, <2>2, <2>5, <2>6, AnswersFrame
<1>13. AloneAreAlone'
  <2>1. alone \in SUBSET Request
    BY <1>0 DEF Typed
  <2>2. \A q \in Request : /\ req'[q].pc = "idle" => req[q].pc = "idle"
                           /\ req'[q].pc \notin {"idle", "done"} => req[q].pc \notin {"idle", "done"}
    BY <1>5, <1>6 DEF Locked
  <2>3. QED
    BY <1>0, <1>2, <2>1, <2>2, AloneFrame
<1>14. CASE KeepsContext(r)
  <2>1. \A c : Open(c)' => Open(c) /\ conversations'[c].context = conversations[c].context
    BY <1>0, <1>4, <1>14, RowTypes DEF KeepsContext, KeepsContexts
  <2>2. \A q \in Request : /\ req'[q].conversation = req[q].conversation
                           /\ req'[q].taught = req[q].taught
                           /\ req'[q].pc \in KnowsContext =>
                                /\ req[q].pc \in KnowsContext
                                /\ req'[q].context = req[q].context
    BY <1>5, <1>6, <1>14 DEF KeepsContext, KnowsContext, Locked
  <2>3. \A q \in Sends : q \in Request
    BY DEF Request
  <2>4. ContextSurvives' /\ ContextIsCurrent'
    BY <1>0, <1>2, <2>1, <2>2, <2>3, ContextFrame
  <2>5. QED
    BY <1>1, <1>7, <1>11, <1>12, <1>13, <2>4 DEF IInv
<1>15. CASE Open(Own(r)) /\ SavesContext(r)
  <2> DEFINE U == UNION {Foreign[a] : a \in Agent}
  <2>1. PICK c : c = req[r].conversation
    OBVIOUS
  <2>2. /\ c \in 1..Len(conversations) /\ Open(c)
        /\ req'[r].context = conversations'[c].context
        /\ conversations'[c].context = (req[r].context \ Foreign[req[r].agent]) \cup req[r].learned
        /\ req'[r].taught = req[r].taught \cup req[r].learned
        /\ \A d \in 1..Len(conversations) : d # c => conversations'[d].context = conversations[d].context
    BY <1>15, <2>1 DEF SavesContext, Own, Works
  <2>3. \A d : Open(d)' /\ d # c => Open(d) /\ conversations'[d].context = conversations[d].context
    BY <1>0, <1>4, <2>2, RowTypes
  <2>4. Foreign[req[r].agent] \subseteq U
    <3>1. req[r].agent \in Agent
      BY <1>0 DEF Typed, Local
    <3>2. QED
      BY <3>1
  <2>5. r \in alone => req[r].context = conversations[c].context
    BY <1>0, <1>3, <1>6, <2>1, <2>2 DEF ContextIsCurrent, KnowsContext, Own
  <2> HIDE DEF U
  <2>6. ASSUME NEW q \in Sends, NEW d, d = req'[q].conversation, Open(d)',
               \A p \in Request : req'[p].conversation = d => p \in alone'
        PROVE  req'[q].taught \ U \subseteq conversations'[d].context
    <3>1. \A p \in Request : req'[p].conversation = req[p].conversation
      BY <1>5, <1>6
    <3>2. q \in Request /\ d = req[q].conversation /\ Open(d)
      BY <1>4, <2>6, <3>1 DEF Request
    <3>3. \A p \in Request : Own(p) = d => p \in alone
      BY <1>2, <2>6, <3>1 DEF Own
    <3>4. req[q].taught \ U \subseteq conversations[d].context
      BY <1>0, <2>6, <3>2, <3>3 DEF ContextSurvives, Own, U
    <3>5. CASE d # c
      <4>1. q # r
        BY <2>1, <3>2, <3>5
      <4>2. QED
        BY <1>5, <2>3, <2>6, <3>2, <3>4, <3>5, <4>1
    <3>6. CASE d = c
      <4>1. r \in alone
        BY <2>1, <3>3, <3>6 DEF Own
      <4>2. conversations[d].context \ U \subseteq conversations'[d].context
        BY <2>2, <2>4, <2>5, <3>6, <4>1
      <4>3. req'[q].taught \subseteq req[q].taught \cup req[r].learned
        BY <1>5, <2>2, <3>2
      <4>4. req[r].learned \subseteq conversations'[d].context
        BY <2>2, <3>6
      <4>5. req[q].taught \ U \subseteq conversations'[d].context
        BY <3>4, <4>2
      <4>6. QED
        BY <4>3, <4>4, <4>5
    <3>7. QED
      BY <3>5, <3>6
  <2>7. ContextSurvives'
    BY <2>6 DEF ContextSurvives, Own, U
  <2>8. ASSUME NEW q \in Sends \cap alone', NEW d, d = req'[q].conversation,
               req'[q].pc \in KnowsContext, Open(d)'
        PROVE  req'[q].context = conversations'[d].context
    <3>1. CASE q = r
      BY <1>6, <2>1, <2>2, <2>8, <3>1
    <3>2. CASE q # r
      <4>1. req'[q] = req[q] /\ q \in alone /\ q \in Sends /\ q \in Request
        BY <1>2, <1>5, <2>8, <3>2 DEF Request
      <4>2. req[q].pc \in {"state", "configure", "chat lock", "chat relock"} \cup Locked
        BY <2>8, <4>1 DEF KnowsContext
      <4>3. req[q].pc \notin {"idle", "done"} /\ req[r].pc \notin {"idle", "done"}
        BY <1>6, <4>2 DEF Locked
      <4>4. FALSE
        BY <1>0, <1>3, <3>2, <4>1, <4>3 DEF AloneAreAlone, UnderWay, Request
      <4>5. QED
        BY <4>4
    <3>3. QED
      BY <3>1, <3>2
  <2>9. ContextIsCurrent'
    BY <2>8 DEF ContextIsCurrent, Own
  <2>10. QED
    BY <1>1, <1>7, <1>11, <1>12, <1>13, <2>7, <2>9 DEF IInv
<1>16. QED
  BY <1>14, <1>15


-----------------------------------------------------------------------------
(* Steps of a request elsewhere.                                           *)

\* What such a step may do: conversations are added and closed, and no run is
\* written.
Moves(r) ==
  /\ r \in Request /\ UnderWay(r)
  /\ req' \in [Request -> Local] /\ Alone(r)
  /\ req'[r].pc # "idle" /\ req'[r].taught = req[r].taught
  /\ Own(r)' = Own(r) \/ (Own(r) = 0 /\ r \in Sends)
  /\ conversations' \in Seq(Conversation) /\ Len(conversations) <= Len(conversations')
  /\ \A c \in 1..Len(conversations) :
       Open(c)' => Open(c) /\ conversations'[c].context = conversations[c].context
  /\ identity' \in BOOLEAN
  /\ identityLock' \in Sends \cup {None}
  /\ chatLock' \in Seq(Sends \cup {None}) /\ Len(chatLock') = Len(conversations')
  /\ expiries' = expiries /\ faults' \in Nat /\ faults <= faults'
  /\ UNCHANGED <<run, alone>>
  /\ r \in Sends => SendIsPlaced(r)'
  /\ r \in Clears => ClearIsPlaced(r)'

\* The run is over, or did not begin, or a failure leaves it.
RunStays(r) ==
  r \in Sends =>
    \/ req[r].pc \in Before
    \/ faults' > 0
    \/ /\ req[r].pc = "release" /\ req'[r].pc = "done" /\ Own(r)' = Own(r)
       /\ RefusedOf(req[r].files) # {} => RefusedOf(req'[r].files) # {}

\* The context was read before, or just now.
ContextStays(r) ==
  \A c : r \in Sends /\ req'[r].pc \in KnowsContext /\ c = req'[r].conversation /\ Open(c)' =>
    \/ req'[r].context = conversations'[c].context
    \/ /\ req[r].pc \in KnowsContext /\ c = req[r].conversation
       /\ req'[r].context = req[r].context

LEMMA MovesRuns ==
  ASSUME Typed, Placed, RunsAreUnderWay, NEW r \in Request, Moves(r), RunStays(r)
  PROVE  RunsAreUnderWay'
<1>1. SUFFICES ASSUME NEW q \in Sends, NEW round \in Rounds, run[q][round] = "running"
               PROVE  \/ req'[q].pc \in InRun /\ round = req'[q].round
                      \/ faults' > 0
                      \/ req'[q].pc \in {"release", "done"} /\ RefusedOf(req'[q].files) # {}
                      \/ ~Open(Own(q))'
  BY DEF RunsAreUnderWay, RunIsUnderWay, Moves
<1>2. q \in Request /\ SendIsPlaced(q) /\ Own(q) \in Nat /\ Len(conversations) \in Nat
  BY RowTypes DEF Request, Placed, Typed, Local, Own
<1>3. Own(q) # 0 /\ req[q].pc \notin Before
  BY <1>1, <1>2 DEF SendIsPlaced
<1>4. Own(q) \in 1..Len(conversations)
  <2>1. Own(q) <= Len(conversations)
    BY <1>2 DEF SendIsPlaced
  <2>2. QED
    BY <1>2, <1>3, <2>1
<1>5. \/ req[q].pc \in InRun /\ round = req[q].round
      \/ faults > 0
      \/ req[q].pc \in {"release", "done"} /\ RefusedOf(req[q].files) # {}
      \/ ~Open(Own(q))
  BY <1>1 DEF RunsAreUnderWay, RunIsUnderWay
<1>6. faults > 0 => faults' > 0
  BY DEF Moves, Typed
<1>7. Own(q)' = Own(q) => (Open(Own(q))' => Open(Own(q)))
  <2>1. PICK c : c = Own(q)
    OBVIOUS
  <2>2. QED
    BY <1>4, <2>1 DEF Moves
<1>8. CASE q # r
  <2>1. req'[q] = req[q]
    BY <1>2, <1>8 DEF Moves, Alone
  <2>2. Own(q)' = Own(q)
    BY <2>1 DEF Own
  <2>3. QED
    BY <1>5, <1>6, <1>7, <2>1, <2>2
<1>9. CASE q = r
  <2>1. CASE faults' > 0
    BY <2>1
  <2>2. CASE /\ req[q].pc = "release" /\ req'[q].pc = "done" /\ Own(q)' = Own(q)
             /\ RefusedOf(req[q].files) # {} => RefusedOf(req'[q].files) # {}
    BY <1>5, <1>6, <1>7, <2>2 DEF InRun
  <2>3. QED
    BY <1>3, <1>9, <2>1, <2>2 DEF RunStays
<1>10. QED
  BY <1>8, <1>9

LEMMA MovesContext ==
  ASSUME Typed, Placed, ContextSurvives, ContextIsCurrent, NEW r \in Request, Moves(r),
         ContextStays(r)
  PROVE  ContextSurvives' /\ ContextIsCurrent'
<1>1. /\ \A q \in Request \ {r} : req'[q] = req[q]
      /\ alone' = alone /\ req'[r].taught = req[r].taught
      /\ req'[r].conversation = req[r].conversation \/ (req[r].conversation = 0 /\ r \in Sends)
  BY DEF Moves, Alone, Own
<1>2. \A q \in Sends : q \in Request
  BY DEF Request
<1>3. req[r].conversation = 0 /\ r \in Sends => req[r].taught = {}
  BY DEF Placed, SendIsPlaced, Own
<1>4. \A q \in Request :
        /\ req'[q].conversation = req[q].conversation \/ req[q].conversation = 0
        /\ \/ req'[q].taught = {}
           \/ req'[q].taught = req[q].taught /\ req'[q].conversation = req[q].conversation
        /\ q \in alone' /\ req[q].conversation # 0 => q \in alone
  BY <1>1, <1>3
<1>5. DOMAIN conversations' = 1..Len(conversations') /\ Len(conversations') \in Nat
      /\ Len(conversations) \in Nat
  BY RowTypes DEF Moves
<1>6. \A q \in Sends : req[q].conversation \in Nat /\ req[q].conversation <= Len(conversations)
  BY <1>2 DEF Placed, SendIsPlaced, Own, Typed, Local
<1>7. \A c : Open(c)' => c \in 1..Len(conversations')
  BY <1>5 DEF Open
<1>8. \A c : Open(c)' =>
        \/ Open(c) /\ conversations'[c].context = conversations[c].context
        \/ \A q \in Sends : req'[q].conversation = c => req'[q].taught = {}
  <2>1. SUFFICES ASSUME NEW c, Open(c)', NEW q \in Sends, req'[q].conversation = c,
                        req'[q].taught # {}
                 PROVE  Open(c) /\ conversations'[c].context = conversations[c].context
    OBVIOUS
  <2>2. c = req[q].conversation
    BY <1>2, <1>4, <2>1
  <2>3. c \in 1..Len(conversations)
    <3>1. c \in Nat /\ c <= Len(conversations) /\ 1 <= c
      BY <1>5, <1>6, <1>7, <2>1, <2>2
    <3>2. QED
      BY <1>5, <3>1
  <2>4. QED
    BY <2>1, <2>3 DEF Moves
<1>9. ASSUME NEW q \in Sends, NEW c,
             req'[q].pc \in KnowsContext, q \in alone', c = req'[q].conversation, Open(c)'
      PROVE  \/ req'[q].context = conversations'[c].context
             \/ /\ req[q].pc \in KnowsContext /\ q \in alone
                /\ c = req[q].conversation /\ Open(c)
                /\ req'[q].context = req[q].context
                /\ conversations'[c].context = conversations[c].context
  <2>1. c = req[q].conversation => Open(c) /\ conversations'[c].context = conversations[c].context
    <3>1. SUFFICES ASSUME c = req[q].conversation
                   PROVE  Open(c) /\ conversations'[c].context = conversations[c].context
      OBVIOUS
    <3>2. c \in Nat /\ c <= Len(conversations) /\ 1 <= c
      BY <1>5, <1>6, <1>7, <1>9, <3>1
    <3>3. c \in 1..Len(conversations)
      BY <1>5, <3>2
    <3>4. QED
      BY <1>9, <3>3 DEF Moves
  <2>2. CASE q = r
    BY <1>1, <1>9, <2>1, <2>2 DEF ContextStays
  <2>3. CASE q # r
    <3>1. req'[q] = req[q]
      BY <1>1, <1>2, <2>3
    <3>2. QED
      BY <1>1, <1>9, <2>1, <3>1
  <2>4. QED
    BY <2>2, <2>3
<1>10. QED
  BY <1>4, <1>8, <1>9, ContextFrame

LEMMA MoveKeeps ==
  ASSUME IInv, NEW r \in Request, Moves(r), RunStays(r), ContextStays(r),
         SessionsAreCounted', AnswersAreCounted'
  PROVE  IInv'
<1>0. /\ Typed /\ Placed /\ RunsAreUnderWay /\ AloneAreAlone /\ ContextSurvives /\ ContextIsCurrent
  BY DEF IInv
<1>1. Typed'
  BY <1>0 DEF Typed, Moves
<1>2. Placed'
  <2>1. /\ Alone(r) /\ conversations' \in Seq(Conversation)
        /\ Len(conversations) <= Len(conversations')
        /\ \A q \in Sends \ {r} : run'[q] = run[q]
        /\ r \in Sends => SendIsPlaced(r)'
        /\ r \in Clears => ClearIsPlaced(r)'
    BY DEF Moves
  <2>2. QED
    BY <1>0, <2>1, PlacedFrame
<1>3. RunsAreUnderWay'
  BY <1>0, MovesRuns
<1>4. AloneAreAlone'
  <2>1. alone \in SUBSET Request /\ alone' = alone
    BY <1>0 DEF Typed, Moves
  <2>2. \A q \in Request : /\ req'[q].pc = "idle" => req[q].pc = "idle"
                           /\ req'[q].pc \notin {"idle", "done"} => req[q].pc \notin {"idle", "done"}
    BY DEF Moves, Alone, UnderWay
  <2>3. QED
    BY <1>0, <2>1, <2>2, AloneFrame
<1>5. ContextSurvives' /\ ContextIsCurrent'
  BY <1>0, MovesContext
<1>6. QED
  BY <1>1, <1>2, <1>3, <1>4, <1>5 DEF IInv

-----------------------------------------------------------------------------
(* Counting those inside, and the lease that lets in one more.             *)

LEMMA Entering ==
  ASSUME NEW S, IsFiniteSet(S), NEW r, r \notin S, NEW l, l \notin S
  PROVE  Cardinality(S \cup {r}) + One(r \notin S \cup {r}) = Cardinality(S) + One(l \notin S)
<1>1. Cardinality(S \cup {r}) = Cardinality(S) + 1 /\ Cardinality(S) \in Nat
  BY FS_AddElement, FS_CardinalityType
<1>2. One(r \notin S \cup {r}) = 0 /\ One(l \notin S) = 1
  BY DEF One
<1>3. QED
  BY <1>1, <1>2

LEMMA Leaving ==
  ASSUME NEW S, IsFiniteSet(S), NEW r \in S, NEW l, NEW m
  PROVE  Cardinality(S \ {r}) + One(m \notin S \ {r}) <= Cardinality(S) + One(l \notin S)
<1>1. Cardinality(S \ {r}) = Cardinality(S) - 1 /\ Cardinality(S) \in Nat
  BY FS_RemoveElement, FS_CardinalityType
<1>2. One(m \notin S \ {r}) \in 0..1 /\ One(l \notin S) \in 0..1
  BY DEF One
<1>3. QED
  BY <1>1, <1>2

LEMMA Freeing ==
  ASSUME NEW S, IsFiniteSet(S), NEW l, NEW m
  PROVE  Cardinality(S) + One(m \notin S) <= Cardinality(S) + One(l \notin S) + 1
<1>1. Cardinality(S) \in Nat
  BY FS_CardinalityType
<1>2. One(m \notin S) \in 0..1 /\ One(l \notin S) \in 0..1
  BY DEF One
<1>3. QED
  BY <1>1, <1>2

\* What a step of one request does to those who answer in a conversation.
AnswersStay(c) ==
  /\ Answering(c)' = Answering(c) /\ chatLock'[c] = chatLock[c]
  /\ Cardinality(Wipers(c)) + faults <= Cardinality(Wipers(c)') + faults'

Enters(r, c) ==
  /\ r \notin Answering(c) /\ Answering(c)' = Answering(c) \cup {r}
  /\ chatLock[c] = None /\ chatLock'[c] = r
  /\ Cardinality(Wipers(c)) + faults <= Cardinality(Wipers(c)') + faults'

Leaves(r, c) ==
  /\ r \in Answering(c) /\ Answering(c)' = Answering(c) \ {r}
  /\ req'[r].pc = "done"
  /\ chatLock'[c] \in {None, chatLock[c]}
  /\ Cardinality(Wipers(c)) + faults <= Cardinality(Wipers(c)') + faults'

Wipes(c) ==
  /\ Answering(c)' = Answering(c) /\ chatLock'[c] = None
  /\ Cardinality(Wipers(c)) + faults + 1 <= Cardinality(Wipers(c)') + faults'

LEMMA AnswersStep ==
  ASSUME Typed, AnswersAreCounted, NEW r \in Request, UnderWay(r), Alone(r),
         expiries' = expiries, faults' \in Nat, faults <= faults',
         \A c \in OpenOnes' :
           /\ c \in OpenOnes /\ Cardinality(Wipers(c)') \in Nat
           /\ AnswersStay(c) \/ Enters(r, c) \/ Leaves(r, c) \/ Wipes(c)
  PROVE  AnswersAreCounted'
<1>1. SUFFICES ASSUME NEW c \in OpenOnes'
               PROVE  /\ chatLock'[c] # None =>
                           chatLock'[c] \in Answering(c)' \/ req'[chatLock'[c]].pc = "done"
                      /\ Cardinality(Answering(c)') + One(chatLock'[c] \notin Answering(c)')
                           <= 1 + expiries' + faults' + Cardinality(Wipers(c)')
  BY DEF AnswersAreCounted, At
<1>2. c \in OpenOnes /\ c \in 1..Len(chatLock) /\ Cardinality(Wipers(c)') \in Nat
  BY RowTypes DEF OpenOnes, Typed
<1>3. chatLock[c] \in Sends \cup {None}
  BY <1>2 DEF Typed
<1>4. chatLock[c] # None => chatLock[c] \in Answering(c) \/ req[chatLock[c]].pc = "done"
  BY <1>2 DEF AnswersAreCounted, At
<1>5. Cardinality(Answering(c)) + One(chatLock[c] \notin Answering(c))
        <= 1 + expiries + faults + Cardinality(Wipers(c))
  BY <1>2 DEF AnswersAreCounted
<1>6. IsFiniteSet(Answering(c)) /\ Cardinality(Answering(c)) \in Nat /\ Cardinality(Wipers(c)) \in Nat
      /\ expiries \in Nat /\ faults \in Nat
  BY Finiteness, Counts
<1>7. One(chatLock[c] \notin Answering(c)) \in 0..1
  BY DEF One
<1>8. chatLock[c] # None /\ req[chatLock[c]].pc = "done" => req'[chatLock[c]].pc = "done"
  BY <1>3 DEF Alone, UnderWay, Request
<1>9. None \notin Answering(c)
  BY TestChatAssumption DEF Answering, Request
<1>10. CASE AnswersStay(c)
  <2>1. Answering(c)' = Answering(c) /\ chatLock'[c] = chatLock[c]
        /\ Cardinality(Wipers(c)) + faults <= Cardinality(Wipers(c)') + faults'
    BY <1>10 DEF AnswersStay
  <2>2. Cardinality(Answering(c)) + One(chatLock[c] \notin Answering(c))
          <= 1 + expiries' + faults' + Cardinality(Wipers(c)')
    <3>1. PICK n, e, p, w, q, v :
            /\ n = Cardinality(Answering(c)) + One(chatLock[c] \notin Answering(c))
            /\ e = expiries /\ p = faults /\ q = faults'
            /\ w = Cardinality(Wipers(c)) /\ v = Cardinality(Wipers(c)')
      OBVIOUS
    <3>2. /\ n \in Nat /\ e \in Nat /\ p \in Nat /\ w \in Nat /\ q \in Nat /\ v \in Nat
          /\ n <= 1 + e + p + w /\ w + p <= v + q
      BY <1>2, <1>5, <1>6, <1>7, <2>1, <3>1
    <3>3. n <= 1 + e + q + v
      BY <3>2
    <3>4. QED
      BY <3>1, <3>3
  <2>3. QED
    BY <1>4, <1>8, <2>1, <2>2
<1>11. CASE Enters(r, c)
  <2>1. Cardinality(Answering(c) \cup {r}) + One(r \notin Answering(c) \cup {r})
          = Cardinality(Answering(c)) + One(chatLock[c] \notin Answering(c))
    BY <1>6, <1>9, <1>11, Entering DEF Enters
  <2>2. Cardinality(Wipers(c)) + faults <= Cardinality(Wipers(c)') + faults'
        /\ chatLock'[c] = r /\ Answering(c)' = Answering(c) \cup {r}
    BY <1>11 DEF Enters
  <2>3. Cardinality(Answering(c)') + One(chatLock'[c] \notin Answering(c)')
          = Cardinality(Answering(c)) + One(chatLock[c] \notin Answering(c))
    BY <2>1, <2>2
  <2>4. QED
    BY <1>2, <1>5, <1>6, <1>7, <2>2, <2>3
<1>12. CASE Leaves(r, c)
  <2>1. Cardinality(Answering(c) \ {r}) + One(chatLock'[c] \notin Answering(c) \ {r})
          <= Cardinality(Answering(c)) + One(chatLock[c] \notin Answering(c))
    BY <1>6, <1>12, Leaving DEF Leaves
  <2>2. /\ Cardinality(Wipers(c)) + faults <= Cardinality(Wipers(c)') + faults'
        /\ Answering(c)' = Answering(c) \ {r} /\ req'[r].pc = "done"
        /\ chatLock'[c] \in {None, chatLock[c]}
    BY <1>12 DEF Leaves
  <2>3. Cardinality(Answering(c)') \in Nat /\ One(chatLock'[c] \notin Answering(c)') \in 0..1
    BY <1>6, <2>2, FS_Subset, FS_CardinalityType DEF One
  <2>4. Cardinality(Answering(c)') + One(chatLock'[c] \notin Answering(c)')
          <= Cardinality(Answering(c)) + One(chatLock[c] \notin Answering(c))
    BY <2>1, <2>2
  <2>5. Cardinality(Answering(c)') + One(chatLock'[c] \notin Answering(c)')
          <= 1 + expiries' + faults' + Cardinality(Wipers(c)')
    <3>1. PICK n, o, n1, o1, w, w1, e, f, f1 :
            /\ n = Cardinality(Answering(c)) /\ o = One(chatLock[c] \notin Answering(c))
            /\ n1 = Cardinality(Answering(c)') /\ o1 = One(chatLock'[c] \notin Answering(c)')
            /\ w = Cardinality(Wipers(c)) /\ w1 = Cardinality(Wipers(c)')
            /\ e = expiries /\ f = faults /\ f1 = faults'
      OBVIOUS
    <3>2. n \in Nat /\ o \in Nat /\ n1 \in Nat /\ o1 \in Nat /\ w \in Nat /\ w1 \in Nat
          /\ e \in Nat /\ f \in Nat /\ f1 \in Nat
      BY <1>2, <1>6, <1>7, <2>3, <3>1
    <3>3. n + o <= 1 + e + f + w /\ n1 + o1 <= n + o /\ w + f <= w1 + f1
      BY <1>5, <2>2, <2>4, <3>1
    <3>4. n1 + o1 <= 1 + e + f1 + w1
      BY <3>2, <3>3
    <3>5. QED
      BY <3>1, <3>4
  <2>6. chatLock'[c] # None => chatLock'[c] \in Answering(c)' \/ req'[chatLock'[c]].pc = "done"
    BY <1>4, <1>8, <2>2
  <2>7. QED
    BY <2>5, <2>6
<1>13. CASE Wipes(c)
  <2>1. Cardinality(Answering(c)) + One(chatLock'[c] \notin Answering(c))
          <= Cardinality(Answering(c)) + One(chatLock[c] \notin Answering(c)) + 1
    BY <1>6, Freeing
  <2>2. One(chatLock'[c] \notin Answering(c)) \in 0..1
    BY DEF One
  <2>3. Cardinality(Wipers(c)) + faults + 1 <= Cardinality(Wipers(c)') + faults'
        /\ Answering(c)' = Answering(c) /\ chatLock'[c] = None
    BY <1>13 DEF Wipes
  <2>4. QED
    <3>1. PICK n, o, o1, w, w1, e, f, f1 :
            /\ n = Cardinality(Answering(c)) /\ o = One(chatLock[c] \notin Answering(c))
            /\ o1 = One(chatLock'[c] \notin Answering(c))
            /\ w = Cardinality(Wipers(c)) /\ w1 = Cardinality(Wipers(c)')
            /\ e = expiries /\ f = faults /\ f1 = faults'
      OBVIOUS
    <3>2. n \in Nat /\ o \in Nat /\ o1 \in Nat /\ w \in Nat /\ w1 \in Nat
          /\ e \in Nat /\ f \in Nat /\ f1 \in Nat
      BY <1>2, <1>6, <1>7, <2>2, <3>1
    <3>3. n + o <= 1 + e + f + w /\ n + o1 <= n + o + 1 /\ w + f + 1 <= w1 + f1
      BY <1>5, <2>1, <2>3, <3>1
    <3>4. n + o1 <= 1 + e + f1 + w1
      BY <3>2, <3>3
    <3>5. QED
      BY <2>3, <3>1, <3>4
<1>14. QED
  BY <1>1, <1>10, <1>11, <1>12, <1>13

-----------------------------------------------------------------------------
(* What a step of one request does to the counts.                          *)

LEMMA InsideSteps ==
  ASSUME NEW r \in Request, Alone(r)
  PROVE  /\ (r \in Sends => (req[r].pc \in HoldsIdentity <=> req'[r].pc \in HoldsIdentity))
              => Inside' = Inside
         /\ r \in Sends /\ req[r].pc \in HoldsIdentity /\ req'[r].pc \notin HoldsIdentity
              => r \in Inside /\ Inside' = Inside \ {r}
         /\ r \in Sends /\ req[r].pc \notin HoldsIdentity /\ req'[r].pc \in HoldsIdentity
              => r \notin Inside /\ Inside' = Inside \cup {r}
<1>1. \A q \in Sends \ {r} : req'[q] = req[q]
  BY DEF Alone, Request
<1>2. QED
  BY <1>1 DEF Inside

Answers == Locked \cup {"release"}

LEMMA AnsweringSteps ==
  ASSUME NEW r \in Request, Alone(r), NEW c
  PROVE  /\ \/ r \notin Sends
            \/ req[r].pc \notin Answers /\ req'[r].pc \notin Answers
            \/ req[r].pc \in Answers /\ req'[r].pc \in Answers /\ Own(r)' = Own(r)
            \/ c # Own(r) /\ c # Own(r)'
           => Answering(c)' = Answering(c)
         /\ r \in Sends /\ req[r].pc \in Answers /\ req'[r].pc \notin Answers /\ c = Own(r)
              => r \in Answering(c) /\ Answering(c)' = Answering(c) \ {r}
         /\ r \in Sends /\ req[r].pc \notin Answers /\ req'[r].pc \in Answers /\ c = Own(r)'
              => r \notin Answering(c) /\ Answering(c)' = Answering(c) \cup {r}
<1>1. \A q \in Sends \ {r} : req'[q] = req[q]
  BY DEF Alone, Request
<1>2. \A q \in Sends : q \in Answering(c) <=> req[q].conversation = c /\ req[q].pc \in Answers
  BY DEF Answering, Own, Answers
<1>3. \A q \in Sends : q \in Answering(c)' <=> req'[q].conversation = c /\ req'[q].pc \in Answers
  BY DEF Answering, Own, Answers
<1>4. Answering(c) \subseteq Sends /\ Answering(c)' \subseteq Sends
  BY DEF Answering
<1>5. Own(r) = req[r].conversation /\ Own(r)' = req'[r].conversation
  BY DEF Own
<1>6. \A q : q \in Answering(c) => q \in Sends
  BY <1>4
<1>7. \A q : q \in Answering(c)' => q \in Sends
  BY <1>4
<1>8. ASSUME \/ r \notin Sends
             \/ req[r].pc \notin Answers /\ req'[r].pc \notin Answers
             \/ req[r].pc \in Answers /\ req'[r].pc \in Answers /\ Own(r)' = Own(r)
             \/ c # Own(r) /\ c # Own(r)'
      PROVE  Answering(c)' = Answering(c)
  <2>1. \A q \in Sends : q \in Answering(c)' <=> q \in Answering(c)
    BY <1>1, <1>2, <1>3, <1>5, <1>8
  <2>2. QED
    BY <1>6, <1>7, <2>1
<1>9. ASSUME r \in Sends, req[r].pc \in Answers, req'[r].pc \notin Answers, c = Own(r)
      PROVE  r \in Answering(c) /\ Answering(c)' = Answering(c) \ {r}
  <2>1. r \in Answering(c) /\ ~(r \in Answering(c)')
    BY <1>2, <1>3, <1>5, <1>9
  <2>2. \A q \in Sends \ {r} : q \in Answering(c)' <=> q \in Answering(c)
    BY <1>1, <1>2, <1>3
  <2>3. QED
    BY <1>6, <1>7, <2>1, <2>2
<1>10. ASSUME r \in Sends, req[r].pc \notin Answers, req'[r].pc \in Answers, c = Own(r)'
       PROVE  r \notin Answering(c) /\ Answering(c)' = Answering(c) \cup {r}
  <2>1. ~(r \in Answering(c)) /\ r \in Answering(c)'
    BY <1>2, <1>3, <1>5, <1>10
  <2>2. \A q \in Sends \ {r} : q \in Answering(c)' <=> q \in Answering(c)
    BY <1>1, <1>2, <1>3
  <2>3. QED
    BY <1>6, <1>7, <2>1, <2>2
<1>11. QED
  BY <1>8, <1>9, <1>10

LEMMA WipersStay ==
  ASSUME NEW r \in Request \ Clears, Alone(r), NEW c
  PROVE  Wipers(c)' = Wipers(c)
<1>1. \A q \in Clears : req'[q] = req[q]
  BY DEF Alone, Request
<1>2. QED
  BY <1>1 DEF Wipers, UnderWay

LEMMA SessionsOn ==
  ASSUME Typed, SessionsAreCounted, NEW r \in Request, Moves(r), r \notin Sends \/ r \notin Clears,
         OpenOnes' \subseteq OpenOnes, identityLock' = identityLock, Creating' \subseteq Creating,
         r \in Sends =>
           /\ req[r].pc \in HoldsIdentity => req'[r].pc \in HoldsIdentity \cup {"done"}
           /\ req[r].pc \notin HoldsIdentity => req'[r].pc \notin HoldsIdentity
  PROVE  SessionsAreCounted'
<1>1. Alone(r) /\ UnderWay(r) /\ expiries' = expiries
  BY DEF Moves
<1>2. OverStays
  BY <1>1 DEF OverStays, Alone, UnderWay
<1>3. CASE r \in Sends => (req[r].pc \in HoldsIdentity <=> req'[r].pc \in HoldsIdentity)
  <2>1. Inside' = Inside
    BY <1>1, <1>3, InsideSteps
  <2>2. QED
    BY <1>1, <1>2, <2>1, SessionsFrame
<1>4. CASE r \in Sends /\ req[r].pc \in HoldsIdentity /\ req'[r].pc = "done"
  <2>1. req'[r].pc \notin HoldsIdentity
    BY <1>4 DEF HoldsIdentity
  <2>2. r \in Inside /\ Inside' = Inside \ {r}
    BY <1>1, <1>4, <2>1, InsideSteps
  <2>3. Cardinality(Inside') + One(identityLock' \notin Inside')
          <= Cardinality(Inside) + One(identityLock \notin Inside)
    BY <2>2, Finiteness, Leaving
  <2>4. Cardinality(Inside') \in Nat /\ One(identityLock' \notin Inside') \in Nat
        /\ One(identityLock \notin Inside) \in Nat
    BY <2>2, Finiteness, FS_Subset, FS_CardinalityType DEF One
  <2>5. Cardinality(Inside') + One(identityLock' \notin Inside') <= 1 + expiries'
    BY <1>1, <2>3, <2>4, Counts DEF SessionsAreCounted
  <2>6. identityLock' # None => identityLock' \in Inside' \/ At(identityLock, "done")'
    BY <1>2, <1>4, <2>2 DEF SessionsAreCounted, OverStays, At, Typed, Request
  <2>7. Cardinality(OpenOnes') <= Cardinality(OpenOnes) /\ Cardinality(OpenOnes') \in Nat
    BY Finiteness, FS_Subset, FS_CardinalityType
  <2>8. Cardinality(Creating') <= Cardinality(Creating) /\ Cardinality(Creating') \in Nat
    BY Finiteness, FS_Subset, FS_CardinalityType
  <2>9. Cardinality(OpenOnes') + Cardinality(Creating') <= 1 + expiries'
    BY <1>1, <2>7, <2>8, Counts DEF SessionsAreCounted
  <2>10. QED
    BY <2>5, <2>6, <2>9 DEF SessionsAreCounted
<1>5. QED
  BY <1>3, <1>4

LEMMA AnswersOn ==
  ASSUME Typed, AnswersAreCounted, NEW r \in Sends, r \notin Clears, Moves(r),
         OpenOnes' \subseteq OpenOnes, chatLock' = chatLock,
         req[r].pc \in Answers => Own(r)' = Own(r) /\ req'[r].pc \in Answers \cup {"done"},
         req[r].pc \notin Answers => req'[r].pc \notin Answers
  PROVE  AnswersAreCounted'
<1>1. Alone(r) /\ UnderWay(r) /\ expiries' = expiries /\ faults' \in Nat /\ faults <= faults'
      /\ r \in Request
  BY DEF Moves
<1>2. ASSUME NEW c \in OpenOnes'
      PROVE  /\ c \in OpenOnes /\ Cardinality(Wipers(c)') \in Nat
             /\ AnswersStay(c) \/ Enters(r, c) \/ Leaves(r, c) \/ Wipes(c)
  <2>1. Wipers(c)' = Wipers(c) /\ Cardinality(Wipers(c)) \in Nat
    BY <1>1, WipersStay, Counts
  <2>2. Cardinality(Wipers(c)) + faults <= Cardinality(Wipers(c)') + faults'
    <3>1. Cardinality(Wipers(c)') = Cardinality(Wipers(c))
      BY <2>1
    <3>2. QED
      BY <1>1, <2>1, <3>1, Counts
  <2>3. CASE \/ req[r].pc \notin Answers
             \/ req'[r].pc \in Answers
             \/ c # Own(r)
    <3>1. Answering(c)' = Answering(c)
      BY <1>1, <2>3, AnsweringSteps
    <3>2. QED
      BY <1>2, <2>1, <2>2, <3>1 DEF AnswersStay
  <2>4. CASE req[r].pc \in Answers /\ req'[r].pc = "done" /\ req'[r].pc \notin Answers /\ c = Own(r)
    <3>1. r \in Answering(c) /\ Answering(c)' = Answering(c) \ {r}
      BY <1>1, <2>4, AnsweringSteps
    <3>2. QED
      BY <1>2, <2>1, <2>2, <2>4, <3>1 DEF Leaves
  <2>5. QED
    BY <2>3, <2>4
<1>3. QED
  BY <1>1, <1>2, AnswersStep

\* Where a message may go without a new conversation.
LEMMA SendGoes ==
  ASSUME Typed, Placed, NEW r \in Sends, UnderWay(r), NEW pc \in PCs, GoesOn(r, pc),
         conversations' = conversations, run' = run,
         pc \notin Clearing \cup {"idle"},
         pc \in Identifying => Own(r) = 0,
         pc \notin Unplaced => Own(r) # 0,
         pc = "identity release" => req'[r].failed \/ Own(r) # 0,
         pc \in Before => req[r].pc \in Before
  PROVE  SendIsPlaced(r)'
<1>1. SendIsPlaced(r) /\ Own(r)' = Own(r) /\ req'[r].pc = pc /\ req'[r].taught = req[r].taught
  BY DEF Placed, GoesOn, Own
<1>2. Own(r)' <= Len(conversations')
  BY <1>1 DEF SendIsPlaced
<1>3. pc \in Before \/ Own(r) = 0 => \A round \in Rounds : run'[r][round] = "none"
  BY <1>1 DEF SendIsPlaced
<1>4. QED
  BY <1>1, <1>2, <1>3 DEF SendIsPlaced, At

LEMMA SendMoves ==
  ASSUME Typed, Placed, NEW r \in Sends, UnderWay(r), NEW pc \in PCs, GoesOn(r, pc),
         UNCHANGED <<conversations, run, alone, expiries>>, pc # "idle",
         identity' \in BOOLEAN, identityLock' \in Sends \cup {None},
         chatLock' \in Seq(Sends \cup {None}), Len(chatLock') = Len(chatLock),
         faults' \in Nat, faults <= faults', SendIsPlaced(r)'
  PROVE  Moves(r) /\ OpenOnes' = OpenOnes
<1>1. r \in Request /\ r \notin Clears
  BY TestChatAssumption DEF Request
<1>2. \A c : Open(c)' <=> Open(c)
  BY DEF Open
<1>3. OpenOnes' = OpenOnes
  BY <1>2 DEF OpenOnes
<1>4. Len(conversations) \in Nat
  BY RowTypes
<1>5. QED
  BY <1>1, <1>2, <1>3, <1>4 DEF Moves, GoesOn, Own, Typed

-----------------------------------------------------------------------------
(* send() before its lease on the conversation, and after it.              *)

LEMMA BeforeIsSend ==
  ASSUME Typed, Placed, NEW r \in Request, req[r].pc \in Before \cup {"release"}
  PROVE  r \in Sends /\ r \notin Clears /\ UnderWay(r) /\ SendIsPlaced(r) /\ req[r] \in Local
<1>1. req[r].pc \notin {"idle", "done"} \cup Clearing
  BY DEF Before, Clearing
<1>2. r \in Sends
  BY <1>1 DEF Placed, ClearIsPlaced, Request
<1>3. QED
  BY <1>1, <1>2, TestChatAssumption DEF Placed, UnderWay, Typed

\* A step that writes nothing but where the message is, and perhaps that its
\* identity is there, or that a call failed.
LEMMA GoesQuietly ==
  ASSUME IInv, NEW r \in Sends, UnderWay(r), NEW pc \in PCs, GoesOn(r, pc),
         UNCHANGED <<conversations, run, locks, alone, expiries>>,
         identity' \in BOOLEAN, faults' \in Nat, faults <= faults',
         pc \notin Clearing \cup {"idle", "create"},
         pc \in Identifying => Own(r) = 0,
         pc \notin Unplaced => Own(r) # 0,
         pc = "identity release" => req'[r].failed \/ Own(r) # 0,
         pc \in Before => req[r].pc \in Before,
         req[r].pc \in HoldsIdentity => pc \in HoldsIdentity \cup {"done"},
         req[r].pc \notin HoldsIdentity => pc \notin HoldsIdentity,
         req[r].pc \in Answers => pc \in Answers \cup {"done"},
         req[r].pc \notin Answers => pc \notin Answers,
         RunStays(r), pc \in KnowsContext => req[r].pc \in KnowsContext
  PROVE  IInv'
<1>0. /\ Typed /\ Placed /\ SessionsAreCounted /\ AnswersAreCounted
      /\ r \in Request /\ r \notin Clears
  BY TestChatAssumption DEF IInv, Request
<1>1. /\ identityLock' = identityLock /\ chatLock' = chatLock /\ req'[r].pc = pc /\ Alone(r)
      /\ Own(r)' = Own(r)
  BY DEF locks, GoesOn, Own
<1>2. SendIsPlaced(r)'
  BY <1>0, SendGoes
<1>3. Moves(r) /\ OpenOnes' = OpenOnes
  BY <1>0, <1>1, <1>2, SendMoves DEF Typed
<1>4. Creating' \subseteq Creating
  BY <1>1 DEF Creating, At, Alone, Request
<1>5. SessionsAreCounted'
  BY <1>0, <1>1, <1>3, <1>4, SessionsOn
<1>6. AnswersAreCounted'
  BY <1>0, <1>1, <1>3, AnswersOn
<1>7. ContextStays(r)
  <2>1. pc \in KnowsContext => pc \notin {"release", "done"}
    BY DEF KnowsContext, Locked
  <2>2. QED
    BY <1>1, <2>1 DEF ContextStays, GoesOn, Own
<1>8. QED
  BY <1>0, <1>3, <1>5, <1>6, <1>7, MoveKeeps

LEMMA TakeIdentityLockKeeps ==
  ASSUME IInv, NEW r \in Request, TakeIdentityLock(r)
  PROVE  IInv'
<1>0. /\ Typed /\ Placed /\ SessionsAreCounted /\ AnswersAreCounted
  BY DEF IInv
<1>1. req[r].pc = "identity lock" /\ UNCHANGED <<rows, chatLock, alone, counters>>
  BY DEF TakeIdentityLock, At
<1>2. req[r].pc \in Before \cap Identifying /\ req[r].pc \notin HoldsIdentity \cup Answers
  BY <1>1 DEF Before, Identifying, HoldsIdentity, Answers, Locked
<1>3. r \in Sends /\ r \notin Clears /\ UnderWay(r) /\ Own(r) = 0
  BY <1>0, <1>2, BeforeIsSend DEF SendIsPlaced
<1>4. UNCHANGED <<identity, conversations, run, chatLock, alone, expiries, faults>>
  BY <1>1 DEF rows, counters
<1>5. RunStays(r)
  BY <1>2 DEF RunStays
<1>6. "identify" \in PCs /\ "done" \in PCs
  BY DEF PCs, Before
<1>7. CASE identityLock # None
  <2>1. GoesOn(r, "done") /\ identityLock' = identityLock
    BY <1>0, <1>6, <1>7, ThrowsGoesOn DEF TakeIdentityLock
  <2>2. "done" \notin Clearing \cup {"idle", "create"} \cup Identifying \cup Before \cup HoldsIdentity
                      \cup Answers \cup KnowsContext
    BY DEF Clearing, Identifying, Before, HoldsIdentity, Answers, Locked, KnowsContext
  <2>3. "done" \in Unplaced
    BY DEF Unplaced
  <2>4. identity' \in BOOLEAN /\ faults' \in Nat /\ faults <= faults'
    BY <1>0, <1>4, Counts DEF Typed
  <2>5. QED
    BY <1>2, <1>3, <1>4, <1>5, <1>6, <2>1, <2>2, <2>3, <2>4, GoesQuietly DEF locks
<1>8. CASE identityLock = None
  <2>1. identityLock' = r /\ Goto(r, "identify")
    BY <1>8 DEF TakeIdentityLock
  <2>2. GoesOn(r, "identify")
    BY <1>0, <1>6, <2>1, GotoGoesOn
  <2>3. /\ "identify" \notin Clearing \cup {"idle", "identity release", "create"} \cup Answers
                               \cup KnowsContext
        /\ "identify" \in Identifying /\ "identify" \in Unplaced /\ "identify" \in HoldsIdentity
    BY DEF Clearing, Identifying, Unplaced, HoldsIdentity, Answers, Locked, KnowsContext
  <2>4. SendIsPlaced(r)'
    BY <1>0, <1>2, <1>3, <1>4, <1>6, <2>2, <2>3, SendGoes
  <2>5. Moves(r) /\ OpenOnes' = OpenOnes
    <3>1. identity' \in BOOLEAN /\ faults' \in Nat /\ faults <= faults'
          /\ chatLock' \in Seq(Sends \cup {None})
      BY <1>0, <1>4, Counts DEF Typed
    <3>2. QED
      BY <1>0, <1>3, <1>4, <1>6, <2>1, <2>2, <2>3, <2>4, <3>1, SendMoves
  <2>6. req'[r].pc = "identify" /\ Alone(r) /\ Own(r)' = Own(r)
    BY <2>2 DEF GoesOn, Own
  <2>7. AnswersAreCounted'
    BY <1>0, <1>2, <1>3, <1>4, <2>3, <2>5, <2>6, AnswersOn
  <2>8. SessionsAreCounted'
    <3>1. r \notin Inside /\ Inside' = Inside \cup {r}
      BY <1>2, <1>3, <2>3, <2>6, InsideSteps
    <3>2. identityLock \notin Inside
      BY <1>8, TestChatAssumption DEF Inside, Request
    <3>3. Cardinality(Inside') + One(identityLock' \notin Inside')
            = Cardinality(Inside) + One(identityLock \notin Inside)
      BY <2>1, <3>1, <3>2, Finiteness, <1>0, Entering
    <3>4. Creating' = Creating
      BY <1>1, <2>6 DEF Creating, At, Alone, Request
    <3>5. QED
      BY <1>0, <1>4, <2>1, <2>5, <3>1, <3>3, <3>4 DEF SessionsAreCounted
  <2>9. ContextStays(r)
    BY <2>3, <2>6 DEF ContextStays
  <2>10. QED
    BY <1>5, <2>5, <2>7, <2>8, <2>9, MoveKeeps
<1>9. QED
  BY <1>7, <1>8

LEMMA FindIdentityKeeps ==
  ASSUME IInv, NEW r \in Request, FindIdentity(r) \/ Register(r)
  PROVE  IInv'
<1>0. Typed /\ Placed
  BY DEF IInv
<1>1. /\ req[r].pc \in {"identify", "register"}
      /\ UNCHANGED <<conversations, run, locks, alone, expiries, faults>>
  BY DEF FindIdentity, Register, At, Quiet, rows, counters
<1>2. req[r].pc \in Before \cap Identifying \cap HoldsIdentity /\ req[r].pc \notin Answers
  BY <1>1 DEF Before, Identifying, HoldsIdentity, Answers, Locked
<1>3. r \in Sends /\ UnderWay(r) /\ Own(r) = 0
  BY <1>0, <1>2, BeforeIsSend DEF SendIsPlaced
<1>4. identity' \in BOOLEAN /\ faults' \in Nat /\ faults <= faults'
  <2>1. identity \in BOOLEAN /\ faults \in Nat
    BY <1>0 DEF Typed
  <2>2. identity' = identity \/ identity' = TRUE
    BY DEF FindIdentity, Register, Quiet, rows
  <2>3. identity' \in BOOLEAN
    BY <2>1, <2>2
  <2>4. faults' = faults
    BY <1>1
  <2>5. faults' \in Nat /\ faults <= faults'
    BY <2>1, <2>4
  <2>6. QED
    BY <2>3, <2>5
<1>5. PICK pc \in {"find", "register", "identity release"} :
        GoesOn(r, pc) /\ (pc = "identity release" => req'[r].failed)
  <2>1. {"find", "register", "identity release"} \subseteq PCs
    BY DEF PCs, Before
  <2>2. CASE FindIdentity(r)
    <3>1. PICK pc \in {"find", "register"} : Goto(r, pc)
      BY <2>2 DEF FindIdentity
    <3>2. QED
      BY <1>0, <2>1, <3>1, GotoGoesOn
  <2>3. CASE Register(r)
    <3>1. Throws(r, "identity release") \/ Goto(r, "find")
      BY <2>3 DEF Register
    <3>2. QED
      BY <1>0, <2>1, <3>1, GotoGoesOn, ThrowsGoesOn
  <2>4. QED
    BY <2>2, <2>3
<1>6. /\ pc \in PCs /\ pc \in HoldsIdentity /\ pc \in Unplaced
      /\ pc \notin Clearing \cup {"idle", "create"} \cup Answers \cup KnowsContext
  BY DEF PCs, Before, HoldsIdentity, Unplaced, Identifying, Clearing, Answers, Locked, KnowsContext
<1>7. RunStays(r)
  BY <1>2 DEF RunStays
<1>8. QED
  BY <1>1, <1>2, <1>3, <1>4, <1>5, <1>6, <1>7, GoesQuietly

\* One more of the local variables is set on the way.
WithConversation(r, pc, n) == [req[r] EXCEPT !.pc = pc, !.conversation = n]
WithContext(r, pc, x) == [req[r] EXCEPT !.pc = pc, !.context = x]
WithAgent(r, pc, a) == [req[r] EXCEPT !.pc = pc, !.agent = a]

LEMMA Setting ==
  ASSUME Typed, NEW r \in Request, NEW pc \in PCs
  PROVE  /\ \A n \in Nat : LET l == WithConversation(r, pc, n)
                          IN  /\ l \in Local /\ l.pc = pc /\ l.taught = req[r].taught
                              /\ l.conversation = n
         /\ \A x \in SUBSET Var : LET l == WithContext(r, pc, x)
                                 IN  /\ l \in Local /\ l.pc = pc /\ l.taught = req[r].taught
                                     /\ l.conversation = Own(r) /\ l.context = x
         /\ \A a \in Agent : LET l == WithAgent(r, pc, a)
                            IN  /\ l \in Local /\ l.pc = pc /\ l.taught = req[r].taught
                                /\ l.conversation = Own(r) /\ l.context = req[r].context
<1>1. req[r] \in Local
  BY DEF Typed
<1>2. QED
  BY <1>1 DEF Local, Own, WithConversation, WithContext, WithAgent

\* A set of positive numbers up to n has a greatest one.
LEMMA GreatestNumber ==
  ASSUME NEW n \in Nat, NEW T, T \subseteq 1..n, T # {}
  PROVE  \E x \in T : \A y \in T : y <= x
<1> DEFINE B == {b \in Nat : \A y \in T : y <= b}
<1>1. n \in B
  OBVIOUS
<1>2. PICK b \in B : \A d \in B : b <= d
  BY <1>1, LeastNumber
<1>3. b \in Nat /\ \A y \in T : y <= b
  BY <1>2
<1>4. b \in T
  <2>1. SUFFICES ASSUME b \notin T PROVE FALSE
    OBVIOUS
  <2>2. \A y \in T : y \in Nat /\ 1 <= y /\ y <= b /\ y # b
    BY <1>3, <2>1
  <2>3. b - 1 \in Nat
    <3>1. PICK y \in T : TRUE
      OBVIOUS
    <3>2. QED
      BY <1>3, <2>2, <3>1
  <2>4. \A y \in T : y <= b - 1
    BY <1>3, <2>2
  <2>5. b - 1 \in B
    BY <2>3, <2>4
  <2>6. b <= b - 1
    BY <1>2, <2>5
  <2>7. QED
    BY <1>3, <2>6
<1>5. QED
  BY <1>3, <1>4

LEMMA FindConversationKeeps ==
  ASSUME IInv, NEW r \in Request, FindConversation(r)
  PROVE  IInv'
<1>0. Typed /\ Placed /\ SessionsAreCounted /\ AnswersAreCounted
  BY DEF IInv
<1>1. /\ req[r].pc = "find" /\ Quiet
      /\ UNCHANGED <<identity, conversations, run, identityLock, chatLock, alone, expiries, faults>>
  BY DEF FindConversation, At, Quiet, rows, locks, counters
<1>2. req[r].pc \in Before \cap Identifying \cap HoldsIdentity /\ req[r].pc \notin Answers
  BY <1>1 DEF Before, Identifying, HoldsIdentity, Answers, Locked
<1>3. r \in Sends /\ r \notin Clears /\ UnderWay(r) /\ Own(r) = 0 /\ req[r] \in Local
      /\ SendIsPlaced(r)
  BY <1>0, <1>2, BeforeIsSend DEF SendIsPlaced
<1> DEFINE open == {c \in DOMAIN conversations : Open(c)}
           newest == CHOOSE c \in open : \A d \in open : d <= c
<1>4. open # {} => newest \in 1..Len(conversations)
  <2>1. SUFFICES ASSUME open # {} PROVE newest \in 1..Len(conversations)
    OBVIOUS
  <2>2. open \subseteq 1..Len(conversations) /\ Len(conversations) \in Nat
    BY <1>0, RowTypes
  <2> HIDE DEF open
  <2>3. PICK x \in open : \A y \in open : y <= x
    BY <2>1, <2>2, GreatestNumber
  <2>4. newest \in open
    BY <2>3
  <2>5. QED
    BY <2>2, <2>4
<1>41. Len(conversations) \in Nat /\ 0 <= Len(conversations)
  BY <1>0, RowTypes
<1>5. open = OpenOnes
  BY DEF OpenOnes
<1>6. PICK l \in Local :
        /\ Becomes(r, l) /\ l.taught = req[r].taught
        /\ l.conversation <= Len(conversations)
        /\ \/ l.pc = "create" /\ l.conversation = 0 /\ OpenOnes = {}
           \/ l.pc = "identity release" /\ l.conversation # 0
  <2>1. CASE open = {}
    <3>1. Becomes(r, [req[r] EXCEPT !.pc = "create"])
      BY <2>1 DEF FindConversation
    <3>2. PICK l : l = [req[r] EXCEPT !.pc = "create"]
      OBVIOUS
    <3>3. l \in Local /\ l.pc = "create" /\ l.conversation = 0 /\ l.taught = req[r].taught
      BY <1>3, <3>2 DEF Local, PCs, Before, Own
    <3>4. QED
      BY <1>41, <1>5, <2>1, <3>1, <3>2, <3>3
  <2>2. CASE open # {}
    <3>1. Becomes(r, [req[r] EXCEPT !.pc = "identity release", !.conversation = newest])
      BY <2>2 DEF FindConversation
    <3>2. PICK n \in Nat : n = newest /\ n # 0 /\ n <= Len(conversations)
      BY <1>4, <1>41, <2>2
    <3>3. "identity release" \in PCs
      BY DEF PCs, Before
    <3>4. PICK l : l = WithConversation(r, "identity release", n)
      OBVIOUS
    <3>5. l \in Local /\ l.pc = "identity release" /\ l.conversation = n /\ l.taught = req[r].taught
      BY <1>0, <3>3, <3>4, Setting
    <3>6. Becomes(r, l)
      BY <3>1, <3>2, <3>4 DEF WithConversation
    <3>7. QED
      BY <3>2, <3>5, <3>6
  <2>3. QED
    BY <2>1, <2>2
<1> HIDE DEF open, newest
<1>7. req' \in [Request -> Local] /\ Alone(r) /\ req'[r] = l
  BY <1>0, <1>6, Becoming, Forgetting
<1>9. SendIsPlaced(r)'
  <2>1. req[r].taught = {} /\ \A round \in Rounds : run[r][round] = "none"
    BY <1>2, <1>3 DEF SendIsPlaced
  <2>2. Own(r)' = l.conversation /\ Own(r)' <= Len(conversations')
    BY <1>1, <1>6, <1>7 DEF Own
  <2>3. l.pc \notin Clearing \cup {"idle"} /\ l.pc \in Unplaced
    BY <1>6 DEF Clearing, Unplaced, Identifying
  <2>4. l.pc \in Identifying \/ l.conversation = 0 => l.conversation = 0
    BY <1>6 DEF Identifying
  <2>5. l.pc = "identity release" => l.conversation # 0
    BY <1>6
  <2>6. QED
    BY <1>1, <1>6, <1>7, <2>1, <2>2, <2>3, <2>4, <2>5 DEF SendIsPlaced, At
<1>10. \A c : Open(c)' <=> Open(c)
  BY <1>1 DEF Open
<1>11. OpenOnes' = OpenOnes
  BY <1>1, <1>10 DEF OpenOnes
<1>12. Moves(r)
  <2>1. identity' \in BOOLEAN /\ identityLock' \in Sends \cup {None} /\ faults' \in Nat
        /\ chatLock' \in Seq(Sends \cup {None}) /\ Len(chatLock') = Len(conversations')
        /\ conversations' \in Seq(Conversation) /\ faults <= faults'
    BY <1>0, <1>1 DEF Typed
  <2>2. req'[r].pc # "idle" /\ req'[r].taught = req[r].taught
    BY <1>6, <1>7
  <2>3. QED
    BY <1>1, <1>3, <1>41, <1>7, <1>9, <1>10, <2>1, <2>2 DEF Moves
<1>13. req'[r].pc \in HoldsIdentity /\ req'[r].pc \notin Answers \cup KnowsContext
  BY <1>6, <1>7 DEF HoldsIdentity, Answers, Locked, KnowsContext
<1>14. AnswersAreCounted'
  BY <1>0, <1>1, <1>2, <1>3, <1>11, <1>12, <1>13, AnswersOn
<1>15. SessionsAreCounted'
  <2>1. CASE l.pc = "identity release"
    <3>1. Creating' \subseteq Creating
      BY <1>7, <2>1 DEF Creating, At, Alone, Request
    <3>2. QED
      BY <1>0, <1>1, <1>2, <1>3, <1>11, <1>12, <1>13, <3>1, SessionsOn
  <2>2. CASE OpenOnes = {}
    <3>1. Inside' = Inside
      BY <1>2, <1>7, <1>13, InsideSteps
    <3>2. Creating' \subseteq Inside
      <4>1. Creating' \subseteq Inside'
        BY DEF Creating, Inside, HoldsIdentity, At
      <4>2. QED
        BY <3>1, <4>1
    <3>3. Cardinality(Creating') <= Cardinality(Inside) /\ Cardinality(Creating') \in Nat
      BY <1>0, <3>2, Finiteness, FS_Subset, FS_CardinalityType
    <3>4. Cardinality(OpenOnes') = 0
      BY <1>11, <2>2, FS_EmptySet
    <3>5. One(identityLock \notin Inside) \in Nat
      BY DEF One
    <3>6. Cardinality(OpenOnes') + Cardinality(Creating') <= 1 + expiries'
      BY <1>0, <1>1, <3>3, <3>4, <3>5, Counts DEF SessionsAreCounted
    <3>7. identityLock' # None => identityLock' \in Inside' \/ At(identityLock, "done")'
      BY <1>0, <1>1, <1>7, <3>1 DEF SessionsAreCounted, At, Alone, Typed, Request
    <3>8. QED
      BY <1>0, <1>1, <3>1, <3>6, <3>7 DEF SessionsAreCounted
  <2>3. QED
    BY <1>6, <2>1, <2>2
<1>16. RunStays(r) /\ ContextStays(r)
  BY <1>2, <1>13 DEF RunStays, ContextStays
<1>17. QED
  BY <1>12, <1>14, <1>15, <1>16, MoveKeeps

LEMMA FreshIsConversation == Fresh \in Conversation
<1>1. <<>> \in Seq(Message)
  OBVIOUS
<1>2. QED
  BY <1>1 DEF Fresh, Conversation

LEMMA CreateConversationKeeps ==
  ASSUME IInv, NEW r \in Request, CreateConversation(r)
  PROVE  IInv'
<1>0. Typed /\ Placed /\ SessionsAreCounted /\ AnswersAreCounted
  BY DEF IInv
<1>1. /\ req[r].pc = "create" /\ conversations' = Append(conversations, Fresh)
      /\ chatLock' = Append(chatLock, None)
      /\ UNCHANGED <<identity, run, identityLock, alone, expiries, faults>>
  BY DEF CreateConversation, At, counters
<1>2. req[r].pc \in Before \cap Identifying \cap HoldsIdentity /\ req[r].pc \notin Answers
  BY <1>1 DEF Before, Identifying, HoldsIdentity, Answers, Locked
<1>3. r \in Sends /\ r \notin Clears /\ UnderWay(r) /\ Own(r) = 0 /\ SendIsPlaced(r)
  BY <1>0, <1>2, BeforeIsSend DEF SendIsPlaced
<1>4. PICK n \in Nat : n = Len(conversations)
  BY <1>0, RowTypes
<1>5. PICK m \in Nat : m = n + 1 /\ m # 0 /\ m \notin 1..n
  BY <1>4
<1>6. /\ conversations' \in Seq(Conversation) /\ Len(conversations') = m
      /\ conversations'[m] = Fresh
      /\ \A c \in 1..n : conversations'[c] = conversations[c]
  <2>1. conversations \in Seq(Conversation)
    BY <1>0 DEF Typed
  <2>2. QED
    BY <1>1, <1>4, <1>5, <2>1, FreshIsConversation, AppendProperties
<1>7. /\ chatLock' \in Seq(Sends \cup {None}) /\ Len(chatLock') = m
      /\ chatLock'[m] = None
      /\ \A c \in 1..n : chatLock'[c] = chatLock[c]
  <2>1. chatLock \in Seq(Sends \cup {None}) /\ Len(chatLock) = n
    BY <1>0, <1>4 DEF Typed
  <2>2. QED
    BY <1>1, <1>4, <1>5, <2>1, AppendProperties
<1>8. \A c : Open(c)' <=> c = m \/ Open(c)
  <2>1. \A c : Open(c) <=> c \in 1..n /\ ~conversations[c].deleted
    BY <1>0, <1>4, RowTypes
  <2>2. DOMAIN conversations' = 1..m /\ \A c : c \in 1..m <=> c = m \/ c \in 1..n
    BY <1>4, <1>5, <1>6
  <2>3. ~Fresh.deleted
    BY DEF Fresh
  <2>4. \A c : Open(c)' <=> c \in 1..m /\ ~conversations'[c].deleted
    BY <2>2 DEF Open
  <2>5. QED
    BY <1>5, <1>6, <2>1, <2>2, <2>3, <2>4
<1>9. OpenOnes' = OpenOnes \cup {m} /\ m \notin OpenOnes /\ OpenOnes \subseteq 1..n
  <2>1. DOMAIN conversations' = 1..m /\ \A c : c \in 1..m <=> c = m \/ c \in 1..n
    BY <1>4, <1>5, <1>6
  <2>2. DOMAIN conversations = 1..n
    BY <1>0, <1>4, RowTypes
  <2>3. QED
    BY <1>5, <1>8, <2>1, <2>2 DEF OpenOnes, Open
<1>10. PICK l \in Local :
         /\ Becomes(r, l) /\ l.pc = "identity release" /\ l.conversation = m
         /\ l.taught = req[r].taught
  <2>1. "identity release" \in PCs
    BY DEF PCs, Before
  <2>2. PICK l : l = WithConversation(r, "identity release", m)
    OBVIOUS
  <2>3. l \in Local /\ l.pc = "identity release" /\ l.conversation = m /\ l.taught = req[r].taught
    BY <1>0, <2>1, <2>2, Setting
  <2>4. Becomes(r, l)
    BY <1>4, <1>5, <2>2 DEF WithConversation, CreateConversation
  <2>5. QED
    BY <2>3, <2>4
<1>11. req' \in [Request -> Local] /\ Alone(r) /\ req'[r] = l
  BY <1>0, <1>10, Becoming, Forgetting
<1>12. SendIsPlaced(r)'
  <2>1. req[r].taught = {} /\ \A round \in Rounds : run[r][round] = "none"
    BY <1>2, <1>3 DEF SendIsPlaced
  <2>2. m <= m
    BY <1>5
  <2>3. Own(r)' = m /\ Own(r)' <= Len(conversations')
    BY <1>6, <1>10, <1>11, <2>2 DEF Own
  <2>4. l.pc \notin Clearing \cup {"idle"} \cup Identifying
    BY <1>10 DEF Clearing, Identifying
  <2>5. QED
    BY <1>1, <1>5, <1>10, <1>11, <2>1, <2>3, <2>4 DEF SendIsPlaced, At
<1>13. Moves(r)
  <2>1. identity' \in BOOLEAN /\ identityLock' \in Sends \cup {None}
    BY <1>0, <1>1 DEF Typed
  <2>2. faults' \in Nat /\ faults <= faults'
    BY <1>0, <1>1 DEF Typed
  <2>3. req'[r].pc # "idle" /\ req'[r].taught = req[r].taught
    BY <1>10, <1>11
  <2>4. Len(conversations) <= Len(conversations')
    BY <1>4, <1>5, <1>6
  <2>5. \A c \in 1..Len(conversations) :
          Open(c)' => Open(c) /\ conversations'[c].context = conversations[c].context
    BY <1>4, <1>5, <1>6, <1>8
  <2>6. QED
    BY <1>1, <1>3, <1>6, <1>7, <1>11, <1>12, <2>1, <2>2, <2>3, <2>4, <2>5 DEF Moves
<1>14. req'[r].pc \in HoldsIdentity /\ req'[r].pc \notin Answers \cup KnowsContext
  BY <1>10, <1>11 DEF HoldsIdentity, Answers, Locked, KnowsContext
<1>15. AnswersAreCounted'
  <2>1. SUFFICES ASSUME NEW c \in OpenOnes'
                 PROVE  /\ chatLock'[c] # None =>
                             chatLock'[c] \in Answering(c)' \/ req'[chatLock'[c]].pc = "done"
                        /\ Cardinality(Answering(c)') + One(chatLock'[c] \notin Answering(c)')
                             <= 1 + expiries' + faults' + Cardinality(Wipers(c)')
    BY DEF AnswersAreCounted, At
  <2>2. Wipers(c)' = Wipers(c)
    BY <1>3, <1>11, WipersStay
  <2>3. Answering(c)' = Answering(c)
    BY <1>2, <1>11, <1>14, AnsweringSteps
  <2>4. CASE c \in OpenOnes
    <3>1. chatLock'[c] = chatLock[c] /\ chatLock[c] \in Sends \cup {None}
      <4>1. chatLock \in Seq(Sends \cup {None}) /\ Len(chatLock) = n
        BY <1>0, <1>4 DEF Typed
      <4>2. c \in 1..n
        BY <1>9, <2>4
      <4>3. chatLock[c] \in Sends \cup {None}
        BY <4>1, <4>2
      <4>4. QED
        BY <1>7, <4>2, <4>3
    <3>2. chatLock[c] # None => chatLock[c] \in Answering(c) \/ req[chatLock[c]].pc = "done"
      BY <1>0, <2>4 DEF AnswersAreCounted, At
    <3>3. chatLock'[c] # None => chatLock'[c] \in Answering(c)' \/ req'[chatLock'[c]].pc = "done"
      BY <1>1, <1>11, <2>3, <3>1, <3>2 DEF Alone, Request
    <3>4. Cardinality(Answering(c)) + One(chatLock[c] \notin Answering(c))
            <= 1 + expiries + faults + Cardinality(Wipers(c))
      BY <1>0, <2>4 DEF AnswersAreCounted
    <3>5. QED
      BY <1>1, <2>2, <2>3, <3>1, <3>3, <3>4
  <2>5. CASE c = m
    <3>1. Answering(c) = {}
      <4>1. \A q \in Sends : Own(q) \in Nat /\ Own(q) <= n
        <5>1. \A q \in Sends : Own(q) \in Nat
          BY <1>0 DEF Typed, Local, Own, Request
        <5>2. \A q \in Sends : Own(q) <= n
          BY <1>0, <1>4 DEF Placed, SendIsPlaced
        <5>3. QED
          BY <5>1, <5>2
      <4>2. \A q \in Sends : Own(q) # m
        BY <1>5, <4>1
      <4>3. QED
        BY <2>5, <4>2 DEF Answering
    <3>2. Cardinality(Answering(c)') = 0
      BY <2>3, <3>1, FS_EmptySet
    <3>3. One(chatLock'[c] \notin Answering(c)') \in 0..1
      BY DEF One
    <3>4. expiries' \in Nat /\ faults' \in Nat /\ Cardinality(Wipers(c)') \in Nat
      <4>1. Cardinality(Wipers(c)') = Cardinality(Wipers(c))
        BY <2>2
      <4>2. QED
        BY <1>0, <1>1, <4>1, Counts
    <3>5. Cardinality(Answering(c)') + One(chatLock'[c] \notin Answering(c)')
            <= 1 + expiries' + faults' + Cardinality(Wipers(c)')
      BY <3>2, <3>3, <3>4
    <3>6. QED
      BY <1>7, <2>5, <3>5
  <2>6. QED
    BY <1>9, <2>1, <2>4, <2>5
<1>16. SessionsAreCounted'
  <2>1. Inside' = Inside
    BY <1>2, <1>11, <1>14, InsideSteps
  <2>2. r \in Creating /\ Creating' = Creating \ {r}
    BY <1>1, <1>3, <1>10, <1>11 DEF Creating, At, Alone, Request
  <2>3. Cardinality(Creating') = Cardinality(Creating) - 1
    BY <1>0, <2>2, Finiteness, FS_RemoveElement
  <2>4. Cardinality(OpenOnes') = Cardinality(OpenOnes) + 1
    BY <1>0, <1>9, Finiteness, FS_AddElement
  <2>5. Cardinality(OpenOnes') + Cardinality(Creating') <= 1 + expiries'
    BY <1>0, <1>1, <2>3, <2>4, Counts DEF SessionsAreCounted
  <2>6. identityLock' # None => identityLock' \in Inside' \/ At(identityLock, "done")'
    BY <1>0, <1>1, <1>11, <2>1 DEF SessionsAreCounted, At, Alone, Typed, Request
  <2>7. QED
    BY <1>0, <1>1, <2>1, <2>5, <2>6 DEF SessionsAreCounted
<1>17. RunStays(r) /\ ContextStays(r)
  BY <1>2, <1>14 DEF RunStays, ContextStays
<1>18. QED
  BY <1>13, <1>15, <1>16, <1>17, MoveKeeps

LEMMA ReleaseIdentityLockKeeps ==
  ASSUME IInv, NEW r \in Request, ReleaseIdentityLock(r)
  PROVE  IInv'
<1>0. Typed /\ Placed /\ SessionsAreCounted /\ AnswersAreCounted
  BY DEF IInv
<1>1. /\ identityLock' = None
      /\ UNCHANGED <<identity, conversations, run, chatLock, alone, expiries, faults>>
  BY DEF ReleaseIdentityLock, rows, counters
<1>2. /\ req[r].pc \in Before \cap HoldsIdentity /\ req[r].pc \notin Answers \cup KnowsContext
      /\ req[r].pc = "identity release"
  BY DEF ReleaseIdentityLock, At, Before, HoldsIdentity, Answers, Locked, KnowsContext
<1>3. r \in Sends /\ r \notin Clears /\ UnderWay(r) /\ SendIsPlaced(r)
  BY <1>0, <1>2, BeforeIsSend
<1>4. identity' \in BOOLEAN /\ identityLock' \in Sends \cup {None}
      /\ chatLock' \in Seq(Sends \cup {None}) /\ Len(chatLock') = Len(chatLock)
      /\ faults' \in Nat /\ faults <= faults'
  BY <1>0, <1>1 DEF Typed
<1>5. {"done", "context"} \subseteq PCs
  BY DEF PCs, Before
<1>6. PICK pc : pc = IF req[r].failed THEN "done" ELSE "context"
  OBVIOUS
<1>61. pc \in PCs /\ (pc = "done" \/ (pc = "context" /\ ~req[r].failed))
  BY <1>5, <1>6
<1>62. GoesOn(r, pc)
  <2>1. Goto(r, pc)
    BY <1>6 DEF ReleaseIdentityLock
  <2>2. QED
    BY <1>0, <1>61, <2>1, GotoGoesOn
<1>7. /\ pc \notin Clearing \cup {"idle", "identity release"} \cup Identifying \cup HoldsIdentity
                   \cup Answers \cup KnowsContext
      /\ pc = "done" => pc \in Unplaced
      /\ pc \notin Unplaced => pc = "context"
  BY <1>61, <1>62 DEF Clearing, Identifying, HoldsIdentity, Answers, Locked, KnowsContext, Unplaced
<1>8. SendIsPlaced(r)'
  <2>1. pc \notin Unplaced => Own(r) # 0
    BY <1>2, <1>3, <1>61, <1>62, <1>7 DEF SendIsPlaced, At
  <2>2. QED
    BY <1>0, <1>1, <1>2, <1>3, <1>61, <1>62, <1>7, <2>1, SendGoes
<1>9. Moves(r) /\ OpenOnes' = OpenOnes
  BY <1>0, <1>1, <1>3, <1>4, <1>61, <1>62, <1>7, <1>8, SendMoves
<1>10. req'[r].pc = pc /\ Alone(r) /\ Own(r)' = Own(r)
  BY <1>61, <1>62 DEF GoesOn, Own
<1>11. AnswersAreCounted'
  BY <1>0, <1>1, <1>2, <1>3, <1>7, <1>9, <1>10, AnswersOn
<1>12. SessionsAreCounted'
  <2>1. r \in Inside /\ Inside' = Inside \ {r}
    BY <1>2, <1>3, <1>7, <1>10, InsideSteps
  <2>2. Cardinality(Inside') + One(identityLock' \notin Inside')
          <= Cardinality(Inside) + One(identityLock \notin Inside)
    BY <1>0, <2>1, Finiteness, Leaving
  <2>3. Cardinality(Inside') \in Nat /\ One(identityLock' \notin Inside') \in Nat
        /\ One(identityLock \notin Inside) \in Nat
    BY <1>0, <2>1, Finiteness, FS_Subset, FS_CardinalityType DEF One
  <2>4. Cardinality(Inside') + One(identityLock' \notin Inside') <= 1 + expiries'
    BY <1>0, <1>1, <2>2, <2>3, Counts DEF SessionsAreCounted
  <2>5. Creating' = Creating
    BY <1>2, <1>7, <1>10 DEF Creating, At, Alone, Request, HoldsIdentity
  <2>6. QED
    BY <1>0, <1>1, <1>9, <2>4, <2>5 DEF SessionsAreCounted
<1>13. RunStays(r) /\ ContextStays(r)
  BY <1>2, <1>7, <1>10 DEF RunStays, ContextStays
<1>14. QED
  BY <1>9, <1>11, <1>12, <1>13, MoveKeeps

LEMMA ConfigureKeeps ==
  ASSUME IInv, NEW r \in Request, Configure(r)
  PROVE  IInv'
<1>0. Typed /\ Placed
  BY DEF IInv
<1>1. /\ req[r].pc = "configure"
      /\ UNCHANGED <<identity, conversations, run, locks, alone, expiries, faults>>
  BY DEF Configure, At, Quiet, rows, counters
<1>2. /\ req[r].pc \in Before \cap KnowsContext
      /\ req[r].pc \notin Answers \cup HoldsIdentity \cup Unplaced
  BY <1>1 DEF Before, HoldsIdentity, Answers, Locked, KnowsContext, Unplaced, Identifying, Clearing
<1>3. r \in Sends /\ UnderWay(r) /\ Own(r) # 0
  BY <1>0, <1>2, BeforeIsSend DEF SendIsPlaced
<1>4. identity' \in BOOLEAN /\ faults' \in Nat /\ faults <= faults'
  BY <1>0, <1>1 DEF Typed
<1>5. PICK pc \in PCs : GoesOn(r, pc) /\ pc \in {"done", "chat lock"}
  <2>1. {"done", "chat lock"} \subseteq PCs
    BY DEF PCs, Before
  <2>2. PICK pc \in {"done", "chat lock"} : Goto(r, pc) \/ Throws(r, pc)
    BY DEF Configure
  <2>3. QED
    BY <1>0, <2>1, <2>2, GotoGoesOn, ThrowsGoesOn
<1>6. pc \notin Clearing \cup {"idle", "create", "identity release"} \cup Identifying \cup HoldsIdentity
                 \cup Answers
  BY <1>5 DEF Clearing, Identifying, HoldsIdentity, Answers, Locked
<1>7. RunStays(r)
  BY <1>2 DEF RunStays
<1>8. QED
  BY <1>1, <1>2, <1>3, <1>4, <1>5, <1>6, <1>7, GoesQuietly

LEMMA ReadingKeeps ==
  ASSUME IInv, NEW r \in Request, LoadContext(r) \/ LoadState(r)
  PROVE  IInv'
<1>0. Typed /\ Placed /\ SessionsAreCounted /\ AnswersAreCounted
  BY DEF IInv
<1>1. /\ req[r].pc \in {"context", "state"}
      /\ UNCHANGED <<identity, conversations, run, identityLock, chatLock, alone, expiries, faults>>
  BY DEF LoadContext, LoadState, At, Quiet, rows, locks, counters
<1>2. req[r].pc \in Before /\ req[r].pc \notin Answers \cup HoldsIdentity \cup Unplaced
  BY <1>1 DEF Before, HoldsIdentity, Answers, Locked, Unplaced, Identifying, Clearing
<1>3. /\ r \in Sends /\ r \notin Clears /\ UnderWay(r) /\ SendIsPlaced(r) /\ req[r] \in Local
      /\ Own(r) # 0
  BY <1>0, <1>2, BeforeIsSend DEF SendIsPlaced
<1>4. Len(conversations) \in Nat /\ Own(r) \in Nat /\ Own(r) <= Len(conversations)
  BY <1>0, <1>3, RowTypes DEF SendIsPlaced, Local, Own
<1>5. conversations[Own(r)] \in Conversation
  BY <1>0, <1>3, <1>4, RowTypes
<1>6. PICK l \in Local :
        /\ Becomes(r, l) /\ l.pc \in {"state", "configure"} /\ l.conversation = Own(r)
        /\ l.taught = req[r].taught
        /\ \/ Open(Own(r)) => l.context = conversations[Own(r)].context
           \/ l.context = req[r].context /\ req[r].pc \in KnowsContext
  <2>1. {"state", "configure"} \subseteq PCs
    BY DEF PCs, Before
  <2>2. CASE LoadContext(r)
    <3>1. PICK x \in SUBSET Var :
            x = IF Open(Own(r)) THEN conversations[Own(r)].context ELSE {}
      BY <1>5 DEF Conversation
    <3>2. PICK l : l = WithContext(r, "state", x)
      OBVIOUS
    <3>3. /\ l \in Local /\ l.pc = "state" /\ l.conversation = Own(r) /\ l.taught = req[r].taught
          /\ l.context = x
      BY <1>0, <2>1, <3>2, Setting
    <3>4. Becomes(r, l)
      BY <2>2, <3>1, <3>2 DEF LoadContext, WithContext
    <3>5. QED
      BY <3>1, <3>3, <3>4
  <2>3. CASE LoadState(r)
    <3> DEFINE stored == IF Open(Own(r)) THEN conversations[Own(r)].agent ELSE None
               present == IF stored = None THEN InitialAgent ELSE stored
    <3>1. present \in Agent
      BY <1>5, TestChatAssumption DEF Conversation
    <3>2. PICK a \in Agent : a = ResolveAgent(present, req[r].context)
      BY <3>1, ResolvedIsAgent
    <3>3. PICK l : l = WithAgent(r, "configure", a)
      OBVIOUS
    <3>4. /\ l \in Local /\ l.pc = "configure" /\ l.conversation = Own(r) /\ l.taught = req[r].taught
          /\ l.context = req[r].context
      BY <1>0, <2>1, <3>3, Setting
    <3>5. Becomes(r, l)
      BY <2>3, <3>2, <3>3 DEF LoadState, WithAgent
    <3>6. req[r].pc \in KnowsContext
      BY <2>3 DEF LoadState, At, KnowsContext
    <3>7. QED
      BY <3>4, <3>5, <3>6
  <2>4. QED
    BY <2>2, <2>3
<1>7. req' \in [Request -> Local] /\ Alone(r) /\ req'[r] = l
  BY <1>0, <1>6, Becoming, Forgetting
<1>8. Own(r)' = Own(r)
  BY <1>6, <1>7 DEF Own
<1>9. /\ l.pc \notin Clearing \cup {"idle", "create", "identity release"} \cup Identifying
                     \cup HoldsIdentity \cup Answers
      /\ l.pc \in Before
  BY <1>6 DEF Clearing, Identifying, HoldsIdentity, Answers, Locked, Before
<1>10. SendIsPlaced(r)'
  <2>1. \A round \in Rounds : run[r][round] = "none"
    BY <1>2, <1>3 DEF SendIsPlaced
  <2>2. QED
    BY <1>1, <1>3, <1>4, <1>7, <1>8, <1>9, <2>1 DEF SendIsPlaced, At
<1>11. \A c : Open(c)' <=> Open(c)
  BY <1>1 DEF Open
<1>12. OpenOnes' = OpenOnes
  BY <1>1, <1>11 DEF OpenOnes
<1>13. Moves(r)
  <2>1. identity' \in BOOLEAN /\ identityLock' \in Sends \cup {None} /\ faults' \in Nat
        /\ chatLock' \in Seq(Sends \cup {None}) /\ Len(chatLock') = Len(conversations')
        /\ conversations' \in Seq(Conversation) /\ faults <= faults'
    BY <1>0, <1>1 DEF Typed
  <2>2. req'[r].pc # "idle" /\ req'[r].taught = req[r].taught
    BY <1>6, <1>7
  <2>3. Len(conversations) <= Len(conversations')
    BY <1>1, <1>4
  <2>4. QED
    BY <1>1, <1>3, <1>7, <1>8, <1>10, <1>11, <2>1, <2>2, <2>3 DEF Moves
<1>14. AnswersAreCounted'
  BY <1>0, <1>1, <1>2, <1>3, <1>7, <1>9, <1>12, <1>13, AnswersOn
<1>15. Creating' \subseteq Creating
  BY <1>7, <1>9 DEF Creating, At, Alone, Request
<1>16. SessionsAreCounted'
  BY <1>0, <1>1, <1>2, <1>3, <1>7, <1>9, <1>12, <1>13, <1>15, SessionsOn
<1>17. RunStays(r)
  BY <1>2 DEF RunStays
<1>18. ContextStays(r)
  BY <1>1, <1>6, <1>7, <1>8, <1>11 DEF ContextStays, Own
<1>19. QED
  BY <1>13, <1>14, <1>16, <1>17, <1>18, MoveKeeps

\* A lease is written: those of the other conversations stay.
LEMMA ChatLockWritten ==
  ASSUME Typed, NEW c \in 1..Len(conversations), NEW l \in Sends \cup {None},
         chatLock' = [chatLock EXCEPT ![c] = l]
  PROVE  /\ chatLock' \in Seq(Sends \cup {None}) /\ Len(chatLock') = Len(chatLock)
         /\ chatLock'[c] = l
         /\ \A d \in 1..Len(conversations) : d # c => chatLock'[d] = chatLock[d]
<1>1. chatLock \in Seq(Sends \cup {None}) /\ Len(chatLock) = Len(conversations)
  BY DEF Typed
<1>2. QED
  BY <1>1, ExceptSeq

LEMMA TakeChatLockKeeps ==
  ASSUME IInv, NEW r \in Request, TakeChatLock(r)
  PROVE  IInv'
<1>0. Typed /\ Placed /\ SessionsAreCounted /\ AnswersAreCounted
  BY DEF IInv
<1>1. UNCHANGED <<identity, conversations, run, identityLock, alone, expiries, faults>>
  BY DEF TakeChatLock, rows, counters
<1>2. /\ req[r].pc \in Before \cap KnowsContext
      /\ req[r].pc \notin Answers \cup HoldsIdentity \cup Unplaced
  BY DEF TakeChatLock, At, Before, HoldsIdentity, Answers, Locked, KnowsContext, Unplaced,
         Identifying, Clearing
<1>3. r \in Sends /\ r \notin Clears /\ UnderWay(r) /\ Own(r) # 0 /\ SendIsPlaced(r)
  BY <1>0, <1>2, BeforeIsSend DEF SendIsPlaced
<1>4. identity' \in BOOLEAN /\ identityLock' \in Sends \cup {None} /\ faults' \in Nat
      /\ faults <= faults'
  BY <1>0, <1>1 DEF Typed
<1>5. RunStays(r)
  BY <1>2 DEF RunStays
<1>6. {"done", "memory", "chat relock"} \subseteq PCs
  BY DEF PCs, Before, Locked
<1>7. CASE chatLock[Own(r)] # None
  <2>1. chatLock' = chatLock
    BY <1>7 DEF TakeChatLock
  <2>2. PICK pc \in PCs : GoesOn(r, pc) /\ pc \in {"done", "chat relock"}
    <3>1. PICK pc \in {"done", "chat relock"} : Goto(r, pc) \/ Throws(r, pc)
      BY <1>7 DEF TakeChatLock
    <3>2. QED
      BY <1>0, <1>6, <3>1, GotoGoesOn, ThrowsGoesOn
  <2>3. pc \notin Clearing \cup {"idle", "create", "identity release"} \cup Identifying
                   \cup HoldsIdentity \cup Answers
    BY <2>2 DEF Clearing, Identifying, HoldsIdentity, Answers, Locked
  <2>4. QED
    BY <1>1, <1>2, <1>3, <1>4, <1>5, <2>1, <2>2, <2>3, GoesQuietly DEF locks
<1>8. CASE chatLock[Own(r)] = None
  <2>1. chatLock' = [chatLock EXCEPT ![Own(r)] = r] /\ Goto(r, "memory")
    BY <1>8 DEF TakeChatLock
  <2>2. GoesOn(r, "memory")
    BY <1>0, <1>6, <2>1, GotoGoesOn
  <2>3. "memory" \notin Clearing \cup {"idle", "create", "identity release"} \cup Identifying
                   \cup HoldsIdentity \cup Before
        /\ "memory" \in Answers \cap PCs
    BY DEF Clearing, Identifying, HoldsIdentity, Before, Answers, Locked, PCs
  <2>4. SendIsPlaced(r)'
    BY <1>0, <1>1, <1>3, <2>2, <2>3, SendGoes
  <2>5. PICK own \in 1..Len(conversations) : own = Own(r)
    <3>1. Own(r) \in Nat /\ Own(r) # 0 /\ Len(conversations) \in Nat
      BY <1>0, <1>3, RowTypes DEF Typed, Local, Own
    <3>2. Own(r) <= Len(conversations)
      BY <1>3 DEF SendIsPlaced
    <3>3. QED
      BY <3>1, <3>2
  <2>6. /\ chatLock' \in Seq(Sends \cup {None}) /\ Len(chatLock') = Len(chatLock)
        /\ chatLock'[own] = r
        /\ \A d \in 1..Len(conversations) : d # own => chatLock'[d] = chatLock[d]
    BY <1>0, <1>3, <2>1, <2>5, ChatLockWritten
  <2>7. Moves(r) /\ OpenOnes' = OpenOnes
    BY <1>0, <1>1, <1>3, <1>4, <2>2, <2>3, <2>4, <2>6, SendMoves
  <2>8. req'[r].pc = "memory" /\ Alone(r) /\ Own(r)' = Own(r) /\ req'[r].context = req[r].context
    BY <2>2 DEF GoesOn, Own
  <2>9. SessionsAreCounted'
    <3>1. Creating' \subseteq Creating
      BY <2>8 DEF Creating, At, Alone, Request
    <3>2. QED
      BY <1>0, <1>1, <1>2, <1>3, <2>3, <2>7, <2>8, <3>1, SessionsOn
  <2>10. AnswersAreCounted'
    <3>1. ASSUME NEW c \in OpenOnes'
          PROVE  /\ c \in OpenOnes /\ Cardinality(Wipers(c)') \in Nat
                 /\ AnswersStay(c) \/ Enters(r, c) \/ Leaves(r, c) \/ Wipes(c)
      <4>1. Wipers(c)' = Wipers(c) /\ Cardinality(Wipers(c)) \in Nat
        BY <1>0, <1>3, <2>8, WipersStay, Counts
      <4>2. Cardinality(Wipers(c)') = Cardinality(Wipers(c))
        BY <4>1
      <4>3. Cardinality(Wipers(c)) + faults <= Cardinality(Wipers(c)') + faults'
        BY <1>0, <1>1, <4>1, <4>2, Counts
      <4>4. c \in OpenOnes /\ c \in 1..Len(conversations)
        BY <1>0, <2>7, <3>1, RowTypes DEF OpenOnes
      <4>5. CASE c # own
        <5>1. Answering(c)' = Answering(c)
          BY <2>5, <2>8, <4>5, AnsweringSteps
        <5>2. QED
          BY <2>6, <4>1, <4>2, <4>3, <4>4, <4>5, <5>1 DEF AnswersStay
      <4>6. CASE c = own
        <5>1. r \notin Answering(c) /\ Answering(c)' = Answering(c) \cup {r}
          BY <1>2, <1>3, <2>3, <2>5, <2>8, <4>6, AnsweringSteps
        <5>2. QED
          BY <1>8, <2>5, <2>6, <4>1, <4>2, <4>3, <4>4, <4>6, <5>1 DEF Enters
      <4>7. QED
        BY <4>5, <4>6
    <3>2. QED
      BY <1>0, <1>1, <1>3, <1>4, <2>8, <3>1, AnswersStep
  <2>11. ContextStays(r)
    BY <1>2, <2>8 DEF ContextStays, Own
  <2>12. QED
    BY <1>5, <2>7, <2>9, <2>10, <2>11, MoveKeeps
<1>9. QED
  BY <1>7, <1>8

LEMMA ReleaseChatLockKeeps ==
  ASSUME IInv, NEW r \in Request, ReleaseChatLock(r)
  PROVE  IInv'
<1>0. Typed /\ Placed /\ SessionsAreCounted /\ AnswersAreCounted
  BY DEF IInv
<1>1. UNCHANGED <<identity, conversations, run, identityLock, alone, expiries, faults>>
  BY DEF ReleaseChatLock, rows, counters
<1>2. req[r].pc = "release" /\ req[r].pc \in Answers
      /\ req[r].pc \notin HoldsIdentity \cup Unplaced
  BY DEF ReleaseChatLock, At, HoldsIdentity, Answers, Unplaced, Identifying, Clearing
<1>3. r \in Sends /\ r \notin Clears /\ UnderWay(r) /\ Own(r) # 0 /\ SendIsPlaced(r)
  BY <1>0, <1>2, BeforeIsSend DEF SendIsPlaced
<1>4. identity' \in BOOLEAN /\ identityLock' \in Sends \cup {None} /\ faults' \in Nat
      /\ faults <= faults'
  BY <1>0, <1>1 DEF Typed
<1>5. GoesOn(r, "done")
  <2>1. "done" \in PCs /\ Goto(r, "done")
    BY DEF PCs, ReleaseChatLock
  <2>2. QED
    BY <1>0, <2>1, GotoGoesOn
<1>6. "done" \notin Clearing \cup {"idle", "create", "identity release"} \cup Identifying
                 \cup HoldsIdentity \cup Before \cup Answers \cup KnowsContext
      /\ "done" \in Unplaced \cap PCs
  BY DEF Clearing, Identifying, HoldsIdentity, Before, Answers, Locked, KnowsContext, PCs, Unplaced
<1>7. SendIsPlaced(r)'
  BY <1>0, <1>1, <1>3, <1>5, <1>6, SendGoes
<1>8. PICK own \in 1..Len(conversations) : own = Own(r)
  <2>1. Own(r) \in Nat /\ Own(r) # 0 /\ Len(conversations) \in Nat
    BY <1>0, <1>3, RowTypes DEF Typed, Local, Own
  <2>2. Own(r) <= Len(conversations)
    BY <1>3 DEF SendIsPlaced
  <2>3. QED
    BY <2>1, <2>2
<1>9. /\ chatLock' \in Seq(Sends \cup {None}) /\ Len(chatLock') = Len(chatLock)
      /\ chatLock'[own] = None
      /\ \A d \in 1..Len(conversations) : d # own => chatLock'[d] = chatLock[d]
  BY <1>0, <1>8, ChatLockWritten DEF ReleaseChatLock
<1>10. Moves(r) /\ OpenOnes' = OpenOnes
  BY <1>0, <1>1, <1>3, <1>4, <1>5, <1>6, <1>7, <1>9, SendMoves
<1>11. req'[r].pc = "done" /\ Alone(r) /\ Own(r)' = Own(r)
       /\ (RefusedOf(req[r].files) # {} => RefusedOf(req'[r].files) # {})
  BY <1>5 DEF GoesOn, Own
<1>12. SessionsAreCounted'
  <2>1. Creating' \subseteq Creating
    BY <1>11 DEF Creating, At, Alone, Request
  <2>2. QED
    BY <1>0, <1>1, <1>2, <1>3, <1>6, <1>10, <1>11, <2>1, SessionsOn
<1>13. AnswersAreCounted'
  <2>1. ASSUME NEW c \in OpenOnes'
        PROVE  /\ c \in OpenOnes /\ Cardinality(Wipers(c)') \in Nat
               /\ AnswersStay(c) \/ Enters(r, c) \/ Leaves(r, c) \/ Wipes(c)
    <3>1. Wipers(c)' = Wipers(c) /\ Cardinality(Wipers(c)) \in Nat
      BY <1>0, <1>3, <1>11, WipersStay, Counts
    <3>2. Cardinality(Wipers(c)') = Cardinality(Wipers(c))
      BY <3>1
    <3>3. Cardinality(Wipers(c)) + faults <= Cardinality(Wipers(c)') + faults'
      BY <1>0, <1>1, <3>1, <3>2, Counts
    <3>4. c \in OpenOnes /\ c \in 1..Len(conversations)
      BY <1>0, <1>10, <2>1, RowTypes DEF OpenOnes
    <3>5. CASE c # own
      <4>1. Answering(c)' = Answering(c)
        BY <1>8, <1>11, <3>5, AnsweringSteps
      <4>2. QED
        BY <1>9, <3>1, <3>2, <3>3, <3>4, <3>5, <4>1 DEF AnswersStay
    <3>6. CASE c = own
      <4>1. r \in Answering(c) /\ Answering(c)' = Answering(c) \ {r}
        BY <1>2, <1>3, <1>6, <1>8, <1>11, <3>6, AnsweringSteps
      <4>2. QED
        BY <1>9, <1>11, <3>1, <3>2, <3>3, <3>4, <3>6, <4>1 DEF Leaves
    <3>7. QED
      BY <3>5, <3>6
  <2>2. QED
    BY <1>0, <1>1, <1>3, <1>4, <1>11, <2>1, AnswersStep
<1>14. RunStays(r) /\ ContextStays(r)
  BY <1>2, <1>6, <1>11 DEF RunStays, ContextStays
<1>15. QED
  BY <1>10, <1>12, <1>13, <1>14, MoveKeeps

\* Where a failed call leaves a message.
LEMMA HandlerLeaves ==
  ASSUME NEW pc \in PCs, pc \notin {"idle", "done", "describe", "ask"}
  PROVE  /\ Handler(pc) \in {"release", "identity release", "done"}
         /\ pc \in Locked => Handler(pc) = "release"
         /\ pc \in HoldsIdentity => Handler(pc) \in {"identity release", "done"}
         /\ Handler(pc) = "identity release" => pc \in HoldsIdentity
         /\ Handler(pc) = "release" => pc \in Locked
         /\ pc \in Clearing => Handler(pc) = "done"
BY DEF Handler, Locked, HoldsIdentity, Clearing

LEMMA SendFailsKeeps ==
  ASSUME IInv, NEW r \in Sends, CallFails(r)
  PROVE  IInv'
<1>0. Typed /\ Placed /\ r \in Request
  BY DEF IInv, Request
<1>1. UNCHANGED <<identity, conversations, run, locks, alone, expiries>> /\ faults' = faults + 1
  BY DEF CallFails, Fault, rows
<1>2. identity' \in BOOLEAN /\ faults' \in Nat /\ faults <= faults' /\ faults' > 0
  BY <1>0, <1>1 DEF Typed
<1>3. PICK pc : pc = Handler(req[r].pc)
  OBVIOUS
<1>4. req[r].pc \in PCs /\ req[r].pc \notin {"idle", "done", "describe", "ask"}
  BY <1>0 DEF CallFails, UnderWay, At, Typed, Local
<1>5. /\ pc \in {"release", "identity release", "done"}
      /\ req[r].pc \in Locked => pc = "release"
      /\ req[r].pc \in HoldsIdentity => pc \in {"identity release", "done"}
      /\ pc = "identity release" => req[r].pc \in HoldsIdentity
      /\ pc = "release" => req[r].pc \in Locked
  BY <1>3, <1>4, HandlerLeaves
<1>6. pc \in PCs
  BY <1>5 DEF PCs, Before
<1>7. GoesOn(r, pc) /\ req'[r].failed
  BY <1>0, <1>3, <1>6, ThrowsGoesOn DEF CallFails
<1>8. /\ pc \notin Clearing \cup {"idle", "create"} \cup Identifying \cup KnowsContext
      /\ pc \in HoldsIdentity <=> pc = "identity release"
      /\ pc \in Answers <=> pc = "release"
      /\ pc \in Before <=> pc = "identity release"
      /\ pc \notin Unplaced <=> pc = "release"
  BY <1>5 DEF Clearing, Identifying, KnowsContext, HoldsIdentity, Answers, Locked, Before, Unplaced
<1>9. req[r].pc \in Locked => Own(r) # 0
  BY <1>0, LockedIsPlaced
<1>10. req[r].pc \in HoldsIdentity => req[r].pc \in Before
  BY DEF HoldsIdentity, Before
<1>11. RunStays(r) /\ UnderWay(r)
  BY <1>2 DEF RunStays, CallFails
<1>12. req[r].pc \in Answers => pc \in Answers \cup {"done"}
  BY <1>5, <1>8 DEF Answers, HoldsIdentity
<1>13. req[r].pc \notin Answers => pc \notin Answers
  BY <1>5, <1>8 DEF Answers
<1>14. QED
  BY <1>1, <1>2, <1>5, <1>6, <1>7, <1>8, <1>9, <1>10, <1>11, <1>12, <1>13, GoesQuietly

-----------------------------------------------------------------------------
(* clear().                                                                *)

\* The clear has deleted the lease of the conversation, and not yet the row.
Wiped(r, c) == UnderWay(r) /\ c \in req[r].found \ Range(req[r].todo)

LEMMA WipersSteps ==
  ASSUME Typed, NEW r \in Clears, Alone(r), NEW c
  PROVE  /\ Cardinality(Wipers(c)') \in Nat
         /\ (Wiped(r, c)' <=> Wiped(r, c)) => Cardinality(Wipers(c)') = Cardinality(Wipers(c))
         /\ Wiped(r, c)' => Cardinality(Wipers(c)) <= Cardinality(Wipers(c)')
         /\ ~Wiped(r, c) => Cardinality(Wipers(c)) <= Cardinality(Wipers(c)')
         /\ Wiped(r, c)' /\ ~Wiped(r, c) => Cardinality(Wipers(c)') = Cardinality(Wipers(c)) + 1
         /\ Cardinality(Wipers(c)) <= Cardinality(Wipers(c)') + 1
<1>1. IsFiniteSet(Wipers(c)) /\ Cardinality(Wipers(c)) \in Nat
  BY Finiteness, Counts
<1>2. \A q \in Clears \ {r} : req'[q] = req[q]
  BY DEF Alone, Request
<1>3. Wipers(c) = {q \in Clears : Wiped(q, c)}
  BY DEF Wipers, Wiped
<1>4. Wipers(c)' = {q \in Clears : Wiped(q, c)'}
  BY DEF Wipers, Wiped
<1>5. \A q \in Clears \ {r} : Wiped(q, c)' <=> Wiped(q, c)
  BY <1>2 DEF Wiped, UnderWay
<1>6. PICK W, W1 : W = Wipers(c) /\ W1 = Wipers(c)'
  OBVIOUS
<1>7. CASE Wiped(r, c)' <=> Wiped(r, c)
  <2>1. W1 = W
    BY <1>3, <1>4, <1>5, <1>6, <1>7
  <2>2. QED
    BY <1>1, <1>6, <1>7, <2>1
<1>8. CASE Wiped(r, c)' /\ ~Wiped(r, c)
  <2>1. W1 = W \cup {r} /\ r \notin W
    BY <1>3, <1>4, <1>5, <1>6, <1>8
  <2>2. Cardinality(W1) = Cardinality(W) + 1
    BY <1>1, <1>6, <2>1, FS_AddElement
  <2>3. QED
    BY <1>1, <1>6, <1>8, <2>2
<1>9. CASE ~Wiped(r, c)' /\ Wiped(r, c)
  <2>1. W1 = W \ {r} /\ r \in W
    BY <1>3, <1>4, <1>5, <1>6, <1>9
  <2>2. IsFiniteSet(W1) /\ Cardinality(W1) = Cardinality(W) - 1
    BY <1>1, <1>6, <2>1, FS_RemoveElement
  <2>3. Cardinality(W1) \in Nat
    BY <2>2, FS_CardinalityType
  <2>4. QED
    BY <1>1, <1>6, <1>9, <2>2, <2>3
<1>10. QED
  BY <1>7, <1>8, <1>9

\* What a step of a clear does, and that it keeps the invariant.
LEMMA ClearKeeps ==
  ASSUME IInv, NEW r \in Clears, UnderWay(r),
         req' \in [Request -> Local], Alone(r), req'[r].pc # "idle",
         req'[r].taught = req[r].taught, Own(r)' = Own(r), ClearIsPlaced(r)',
         conversations' \in Seq(Conversation), Len(conversations') = Len(conversations),
         \A c \in 1..Len(conversations) :
           Open(c)' => Open(c) /\ conversations'[c].context = conversations[c].context,
         UNCHANGED <<identity, run, identityLock, alone, expiries>>,
         chatLock' \in Seq(Sends \cup {None}), Len(chatLock') = Len(chatLock),
         faults' \in Nat, faults <= faults',
         \A c \in 1..Len(conversations) : Open(c)' =>
           \/ /\ chatLock'[c] = chatLock[c]
              /\ Cardinality(Wipers(c)) + faults <= Cardinality(Wipers(c)') + faults'
           \/ /\ chatLock'[c] = None
              /\ Cardinality(Wipers(c)) + faults + 1 <= Cardinality(Wipers(c)') + faults'
  PROVE  IInv'
<1>0. /\ Typed /\ Placed /\ SessionsAreCounted /\ AnswersAreCounted
      /\ r \in Request /\ r \notin Sends
  BY TestChatAssumption DEF IInv, Request
<1>1. Len(conversations) \in Nat
  BY <1>0, RowTypes
<1>2. Moves(r)
  <2>1. identity' \in BOOLEAN /\ identityLock' \in Sends \cup {None}
        /\ Len(chatLock') = Len(conversations')
    BY <1>0 DEF Typed
  <2>2. Len(conversations) <= Len(conversations')
    BY <1>1
  <2>3. QED
    BY <1>0, <2>1, <2>2 DEF Moves
<1>3. ASSUME NEW c \in OpenOnes' PROVE c \in OpenOnes /\ c \in 1..Len(conversations) /\ Open(c)'
  <2>1. DOMAIN conversations' = 1..Len(conversations) /\ DOMAIN conversations = 1..Len(conversations)
    BY <1>0, RowTypes
  <2>2. c \in DOMAIN conversations' /\ Open(c)'
    BY <1>3 DEF OpenOnes
  <2>3. QED
    BY <2>1, <2>2 DEF OpenOnes
<1>4. OpenOnes' \subseteq OpenOnes
  BY <1>3
<1>5. Creating' \subseteq Creating
  BY <1>0 DEF Creating, At, Alone, Request
<1>6. SessionsAreCounted'
  BY <1>0, <1>2, <1>4, <1>5, SessionsOn
<1>7. AnswersAreCounted'
  <2>1. ASSUME NEW c \in OpenOnes'
        PROVE  /\ c \in OpenOnes /\ Cardinality(Wipers(c)') \in Nat
               /\ AnswersStay(c) \/ Enters(r, c) \/ Leaves(r, c) \/ Wipes(c)
    <3>1. c \in OpenOnes /\ c \in 1..Len(conversations) /\ Open(c)'
      BY <1>3, <2>1
    <3>2. Cardinality(Wipers(c)') \in Nat
      BY <1>0, WipersSteps
    <3>3. Answering(c)' = Answering(c)
      BY <1>0, AnsweringSteps
    <3>4. QED
      BY <3>1, <3>2, <3>3 DEF AnswersStay, Wipes
  <2>2. QED
    BY <1>0, <2>1, AnswersStep
<1>8. RunStays(r) /\ ContextStays(r)
  BY <1>0 DEF RunStays, ContextStays
<1>9. QED
  BY <1>0, <1>2, <1>6, <1>7, <1>8, MoveKeeps

LEMMA ClearingIsClear ==
  ASSUME Typed, Placed, NEW r \in Request, req[r].pc \in Clearing
  PROVE  /\ r \in Clears /\ UnderWay(r) /\ ClearIsPlaced(r) /\ req[r] \in Local /\ Own(r) = 0
         /\ req[r].found \subseteq 1..Len(conversations)
         /\ Range(req[r].todo) \subseteq req[r].found
<1>1. req[r].pc \notin {"idle", "done"} /\ (r \in Sends => req[r].pc \notin Clearing)
  BY DEF Clearing, Placed, SendIsPlaced
<1>2. r \in Clears /\ UnderWay(r) /\ ClearIsPlaced(r)
  BY <1>1 DEF Request, Placed, UnderWay
<1>3. QED
  BY <1>2, RowTypes DEF Typed, ClearIsPlaced

\* Taking the first off a sequence without repetitions.
LEMMA TakingFirst ==
  ASSUME NEW s \in Seq(Nat), s # <<>>, IsInjective(s)
  PROVE  /\ Head(s) \in Range(s) /\ Tail(s) \in Seq(Nat) /\ IsInjective(Tail(s))
         /\ Range(Tail(s)) = Range(s) \ {Head(s)}
         /\ Len(s) # 1 => Tail(s) # <<>>
<1>1. /\ Tail(s) \in Seq(Nat) /\ Len(Tail(s)) = Len(s) - 1
      /\ \A i \in 1..Len(Tail(s)) : Tail(s)[i] = s[i + 1]
  BY HeadTailProperties
<1>2. Len(s) \in Nat /\ DOMAIN s = 1..Len(s) /\ Len(s) # 0
  OBVIOUS
<1>3. Head(s) = s[1] /\ 1 \in DOMAIN s
  BY <1>2
<1>4. DOMAIN Tail(s) = 1..(Len(s) - 1)
  BY <1>1
<1>5. \A i \in 1..(Len(s) - 1) : Tail(s)[i] = s[i + 1] /\ i + 1 \in 1..Len(s) /\ i + 1 # 1
  BY <1>1, <1>2
<1>6. IsInjective(Tail(s))
  <2>1. SUFFICES ASSUME NEW i \in 1..(Len(s) - 1), NEW j \in 1..(Len(s) - 1),
                        Tail(s)[i] = Tail(s)[j]
                 PROVE  i = j
    BY <1>4 DEF IsInjective
  <2>2. s[i + 1] = s[j + 1] /\ i + 1 \in DOMAIN s /\ j + 1 \in DOMAIN s
    BY <1>2, <1>5, <2>1
  <2>3. i + 1 = j + 1
    BY <2>2 DEF IsInjective
  <2>4. QED
    BY <1>2, <2>3
<1>7. \A x \in Range(Tail(s)) : x \in Range(s) \ {Head(s)}
  <2>1. SUFFICES ASSUME NEW i \in 1..(Len(s) - 1)
                 PROVE  Tail(s)[i] \in Range(s) \ {Head(s)}
    BY <1>4 DEF Range
  <2>2. Tail(s)[i] = s[i + 1] /\ i + 1 \in DOMAIN s /\ i + 1 # 1
    BY <1>2, <1>5
  <2>3. s[i + 1] # s[1]
    BY <1>3, <2>2 DEF IsInjective
  <2>4. QED
    BY <1>3, <2>2, <2>3 DEF Range
<1>8. \A x \in Range(s) \ {Head(s)} : x \in Range(Tail(s))
  <2>1. SUFFICES ASSUME NEW i \in 1..Len(s), s[i] # s[1]
                 PROVE  s[i] \in Range(Tail(s))
    BY <1>2, <1>3 DEF Range
  <2>2. i # 1
    BY <2>1
  <2>3. i - 1 \in 1..(Len(s) - 1) /\ (i - 1) + 1 = i
    BY <1>2, <2>2
  <2>4. Tail(s)[i - 1] = s[i]
    BY <1>5, <2>3
  <2>5. QED
    BY <1>4, <2>3, <2>4 DEF Range
<1>9. Head(s) \in Range(s)
  BY <1>3 DEF Range
<1>10. Len(s) # 1 => Tail(s) # <<>>
  <2>1. Len(s) # 1 => Len(Tail(s)) # 0
    BY <1>1, <1>2
  <2>2. Len(<<>>) = 0
    OBVIOUS
  <2>3. QED
    BY <2>1, <2>2
<1>11. QED
  BY <1>1, <1>6, <1>7, <1>8, <1>9, <1>10

LEMMA EmptyTodo == IsInjective(<<>>) /\ Range(<<>>) = {}
BY DEF IsInjective, Range

\* A clear that is over has nothing left to do.
LEMMA ClearIsOver ==
  ASSUME Typed, Placed, NEW r \in Clears, Own(r) = 0, GoesOn(r, "done")
  PROVE  /\ ClearIsPlaced(r)' /\ Own(r)' = Own(r) /\ req'[r].pc # "idle"
         /\ req'[r].taught = req[r].taught /\ req' \in [Request -> Local] /\ Alone(r)
         /\ \A c : ~Wiped(r, c)'
<1>1. /\ req'[r].pc = "done" /\ req'[r].found = {} /\ req'[r].todo = <<>>
      /\ req'[r].conversation = 0 /\ req'[r].taught = req[r].taught
      /\ req' \in [Request -> Local] /\ Alone(r)
  BY DEF GoesOn, Own
<1>2. QED
  BY <1>1, EmptyTodo DEF ClearIsPlaced, Own, Wiped, UnderWay

LEMMA ClearFailsKeeps ==
  ASSUME IInv, NEW r \in Clears, CallFails(r)
  PROVE  IInv'
<1>0. Typed /\ Placed /\ r \in Request
  BY DEF IInv, Request
<1>1. /\ UNCHANGED <<identity, conversations, run, identityLock, chatLock, alone, expiries>>
      /\ faults' = faults + 1
  BY DEF CallFails, Fault, rows, locks
<1>2. faults' \in Nat /\ faults <= faults'
  BY <1>0, <1>1 DEF Typed
<1>3. req[r].pc \in Clearing /\ Own(r) = 0 /\ UnderWay(r)
  BY <1>0 DEF CallFails, UnderWay, Placed, ClearIsPlaced
<1>4. GoesOn(r, "done")
  <2>1. req[r].pc \in PCs /\ req[r].pc \notin {"idle", "done", "describe", "ask"}
    BY <1>3 DEF PCs, Clearing
  <2>2. Handler(req[r].pc) = "done"
    BY <1>3, <2>1, HandlerLeaves
  <2>3. Throws(r, "done") /\ "done" \in PCs
    BY <2>2 DEF CallFails, PCs
  <2>4. QED
    BY <1>0, <2>3, ThrowsGoesOn
<1>5. /\ ClearIsPlaced(r)' /\ Own(r)' = Own(r) /\ req'[r].pc # "idle"
      /\ req'[r].taught = req[r].taught /\ req' \in [Request -> Local] /\ Alone(r)
  BY <1>0, <1>3, <1>4, ClearIsOver
<1>6. \A c : Cardinality(Wipers(c)) + faults <= Cardinality(Wipers(c)') + faults'
  <2>1. SUFFICES ASSUME NEW c
                 PROVE  Cardinality(Wipers(c)) + faults <= Cardinality(Wipers(c)') + faults'
    OBVIOUS
  <2>2. Cardinality(Wipers(c)) <= Cardinality(Wipers(c)') + 1 /\ Cardinality(Wipers(c)') \in Nat
    BY <1>0, <1>5, WipersSteps
  <2>3. QED
    BY <1>0, <1>1, <2>2, Counts
<1>7. /\ \A c : Open(c)' <=> Open(c)
      /\ conversations \in Seq(Conversation) /\ chatLock \in Seq(Sends \cup {None})
  BY <1>0, <1>1 DEF Open, Typed
<1>8. QED
  BY <1>1, <1>2, <1>3, <1>5, <1>6, <1>7, ClearKeeps

\* The local variables of a clear that goes on.
WithList(r, found, order) == [req[r] EXCEPT !.pc = "wipe", !.found = found, !.todo = order]
WithRest(r, pc) == [req[r] EXCEPT !.todo = Tail(@), !.pc = pc]

LEMMA ClearSetting ==
  ASSUME Typed, NEW r \in Request
  PROVE  /\ \A found \in SUBSET Nat : \A order \in Seq(Nat) :
              LET l == WithList(r, found, order)
              IN  /\ l \in Local /\ l.pc = "wipe" /\ l.found = found /\ l.todo = order
                  /\ l.conversation = Own(r) /\ l.taught = req[r].taught
         /\ Tail(req[r].todo) \in Seq(Nat) =>
              \A pc \in PCs :
                LET l == WithRest(r, pc)
                IN  /\ l \in Local /\ l.pc = pc /\ l.found = req[r].found
                    /\ l.todo = Tail(req[r].todo)
                    /\ l.conversation = Own(r) /\ l.taught = req[r].taught
<1>1. req[r] \in Local /\ "wipe" \in PCs
  BY DEF Typed, PCs, Clearing
<1>2. QED
  BY <1>1 DEF Local, Own, WithList, WithRest

LEMMA ListConversationsKeeps ==
  ASSUME IInv, NEW r \in Request, ListConversations(r)
  PROVE  IInv'
<1>0. Typed /\ Placed
  BY DEF IInv
<1>1. /\ UNCHANGED <<identity, conversations, run, identityLock, chatLock, alone, expiries, faults>>
      /\ req[r].pc = "list"
  BY DEF ListConversations, Quiet, rows, locks, counters, At
<1>2. faults' \in Nat /\ faults <= faults'
  BY <1>0, <1>1 DEF Typed
<1>3. /\ r \in Clears /\ UnderWay(r) /\ ClearIsPlaced(r) /\ req[r] \in Local /\ Own(r) = 0
      /\ req[r].found = {}
  <2>1. req[r].pc \in Clearing
    BY <1>1 DEF Clearing
  <2>2. QED
    BY <1>0, <1>1, <2>1, ClearingIsClear DEF ClearIsPlaced
<1>4. \A c : ~Wiped(r, c)
  BY <1>3 DEF Wiped
<1>5. /\ ClearIsPlaced(r)' /\ Own(r)' = Own(r) /\ req'[r].pc # "idle"
      /\ req'[r].taught = req[r].taught /\ req' \in [Request -> Local] /\ Alone(r)
  <2> DEFINE found == {c \in DOMAIN conversations : Open(c)}
  <2>1. CASE found = {}
    <3>1. Goto(r, "done") /\ "done" \in PCs
      BY <2>1 DEF ListConversations, PCs
    <3>2. GoesOn(r, "done")
      BY <1>0, <3>1, GotoGoesOn
    <3>3. QED
      BY <1>0, <1>3, <3>2, ClearIsOver
  <2>2. CASE found # {}
    <3>1. PICK order \in [1..Cardinality(found) -> found] :
            /\ IsInjective(order)
            /\ Becomes(r, WithList(r, found, order))
      BY <2>2 DEF ListConversations, WithList
    <3>2. DOMAIN conversations = 1..Len(conversations) /\ Len(conversations) \in Nat
      BY <1>0, RowTypes
    <3>3. found \subseteq DOMAIN conversations /\ found \in SUBSET Nat
      BY <3>2
    <3>4. IsFiniteSet(found)
      <4>1. found = OpenOnes
        BY DEF OpenOnes
      <4>2. QED
        BY <1>0, <4>1, Finiteness
    <3> HIDE DEF found
    <3>5. Cardinality(found) \in Nat /\ Cardinality(found) # 0
      BY <2>2, <3>4, FS_CardinalityType, FS_EmptySet
    <3>6. PICK n \in Nat : n = Cardinality(found) /\ n # 0
      BY <3>5
    <3>7. order \in [1..n -> found] /\ order \in [1..n -> Nat]
      BY <3>3, <3>6
    <3>8. order \in Seq(Nat) /\ order # <<>> /\ Range(order) \subseteq found
      <4>1. order \in Seq(Nat)
        BY <3>6, <3>7
      <4>2. 1 \in DOMAIN order
        BY <3>6, <3>7
      <4>3. order # <<>>
        <5>1. DOMAIN <<>> = {}
          OBVIOUS
        <5>2. QED
          BY <4>2, <5>1
      <4>4. Range(order) \subseteq found
        BY <3>7 DEF Range
      <4>5. QED
        BY <4>1, <4>3, <4>4
    <3>9. PICK l : l = WithList(r, found, order)
      OBVIOUS
    <3>10. /\ l \in Local /\ l.pc = "wipe" /\ l.found = found /\ l.todo = order
           /\ l.conversation = Own(r) /\ l.taught = req[r].taught
      BY <1>0, <3>3, <3>8, <3>9, ClearSetting
    <3>11. req' \in [Request -> Local] /\ Alone(r) /\ req'[r] = l
      BY <1>0, <3>1, <3>9, <3>10, Becoming, Forgetting
    <3>12. Own(r)' = Own(r)
      BY <3>10, <3>11 DEF Own
    <3>13. ClearIsPlaced(r)'
      BY <1>1, <1>3, <3>1, <3>3, <3>8, <3>10, <3>11, <3>12 DEF ClearIsPlaced, Clearing
    <3>14. QED
      BY <3>10, <3>11, <3>12, <3>13
  <2>3. QED
    BY <2>1, <2>2
<1>6. \A c : Cardinality(Wipers(c)) + faults <= Cardinality(Wipers(c)') + faults'
  <2>1. SUFFICES ASSUME NEW c
                 PROVE  Cardinality(Wipers(c)) + faults <= Cardinality(Wipers(c)') + faults'
    OBVIOUS
  <2>2. Cardinality(Wipers(c)) <= Cardinality(Wipers(c)') /\ Cardinality(Wipers(c)') \in Nat
    BY <1>0, <1>3, <1>4, <1>5, WipersSteps
  <2>3. QED
    BY <1>0, <1>1, <2>2, Counts
<1>7. /\ \A c : Open(c)' <=> Open(c)
      /\ conversations \in Seq(Conversation) /\ chatLock \in Seq(Sends \cup {None})
  BY <1>0, <1>1 DEF Open, Typed
<1>8. QED
  BY <1>1, <1>2, <1>3, <1>5, <1>6, <1>7, ClearKeeps

LEMMA WipeMemoryKeeps ==
  ASSUME IInv, NEW r \in Request, WipeMemory(r)
  PROVE  IInv'
<1>0. Typed /\ Placed
  BY DEF IInv
<1>1. /\ UNCHANGED <<identity, run, identityLock, chatLock, alone, expiries, faults>>
      /\ req[r].pc = "wipe"
  BY DEF WipeMemory, locks, counters, At
<1>2. faults' \in Nat /\ faults <= faults'
  BY <1>0, <1>1 DEF Typed
<1>3. /\ r \in Clears /\ UnderWay(r) /\ ClearIsPlaced(r) /\ req[r] \in Local /\ Own(r) = 0
      /\ req[r].found \subseteq 1..Len(conversations)
      /\ Range(req[r].todo) \subseteq req[r].found
  <2>1. req[r].pc \in Clearing
    BY <1>1 DEF Clearing
  <2>2. QED
    BY <1>0, <2>1, ClearingIsClear
<1>4. PICK first \in 1..Len(conversations) : first = Head(req[r].todo)
  <2>1. req[r].todo \in Seq(Nat) /\ req[r].todo # <<>> /\ IsInjective(req[r].todo)
    BY <1>1, <1>3 DEF ClearIsPlaced, Local
  <2>2. QED
    BY <1>3, <2>1, TakingFirst
<1>5. KeepsRows /\ KeepsContexts
  <2>1. conversations' = [conversations EXCEPT ![first].memory = <<>>]
    BY <1>4 DEF WipeMemory
  <2>2. <<>> \in Seq(Message)
    OBVIOUS
  <2>3. QED
    BY <1>0, <2>1, <2>2, Columns
<1>6. GoesOn(r, "unlock")
  <2>1. Goto(r, "unlock") /\ "unlock" \in PCs
    BY DEF WipeMemory, PCs, Clearing
  <2>2. QED
    BY <1>0, <2>1, GotoGoesOn
<1>7. /\ req'[r].pc = "unlock" /\ Own(r)' = Own(r) /\ req'[r].taught = req[r].taught
      /\ req' \in [Request -> Local] /\ Alone(r)
      /\ req'[r].found = req[r].found /\ req'[r].todo = req[r].todo
  BY <1>6 DEF GoesOn, Own
<1>8. Len(conversations') = Len(conversations) /\ conversations' \in Seq(Conversation)
  BY <1>5 DEF KeepsRows
<1>9. ClearIsPlaced(r)'
  <2>1. DOMAIN conversations' = 1..Len(conversations)
    BY <1>8
  <2>2. req[r].todo # <<>>
    BY <1>1, <1>3 DEF ClearIsPlaced
  <2>3. QED
    BY <1>3, <1>7, <2>1, <2>2 DEF ClearIsPlaced, Clearing
<1>10. \A c : Cardinality(Wipers(c)) + faults <= Cardinality(Wipers(c)') + faults'
  <2>1. SUFFICES ASSUME NEW c
                 PROVE  Cardinality(Wipers(c)) + faults <= Cardinality(Wipers(c)') + faults'
    OBVIOUS
  <2>2. Wiped(r, c)' <=> Wiped(r, c)
    BY <1>3, <1>7 DEF Wiped, UnderWay
  <2>3. Cardinality(Wipers(c)) = Cardinality(Wipers(c)') /\ Cardinality(Wipers(c)') \in Nat
    BY <1>0, <1>3, <1>7, <2>2, WipersSteps
  <2>4. QED
    BY <1>0, <1>1, <2>3, Counts
<1>11. /\ \A c : Open(c)' <=> Open(c)
       /\ \A c \in 1..Len(conversations) : conversations'[c].context = conversations[c].context
       /\ chatLock \in Seq(Sends \cup {None})
  BY <1>0, <1>5, RowsStay DEF KeepsContexts, Typed
<1>12. QED
  BY <1>1, <1>2, <1>3, <1>7, <1>8, <1>9, <1>10, <1>11, ClearKeeps

LEMMA WipeLockKeeps ==
  ASSUME IInv, NEW r \in Request, WipeLock(r)
  PROVE  IInv'
<1>0. Typed /\ Placed
  BY DEF IInv
<1>1. /\ UNCHANGED <<identity, conversations, run, identityLock, alone, expiries, faults>>
      /\ req[r].pc = "unlock"
  BY DEF WipeLock, rows, counters, At
<1>2. faults' \in Nat /\ faults <= faults'
  BY <1>0, <1>1 DEF Typed
<1>3. /\ r \in Clears /\ UnderWay(r) /\ ClearIsPlaced(r) /\ req[r] \in Local /\ Own(r) = 0
      /\ req[r].found \subseteq 1..Len(conversations)
      /\ Range(req[r].todo) \subseteq req[r].found
  <2>1. req[r].pc \in Clearing
    BY <1>1 DEF Clearing
  <2>2. QED
    BY <1>0, <2>1, ClearingIsClear
<1>4. PICK todo, first : todo = req[r].todo /\ first = Head(todo)
  OBVIOUS
<1>5. todo \in Seq(Nat) /\ todo # <<>> /\ IsInjective(todo)
  BY <1>1, <1>3, <1>4 DEF ClearIsPlaced, Local
<1>6. /\ first \in Range(todo) /\ Tail(todo) \in Seq(Nat) /\ IsInjective(Tail(todo))
      /\ Range(Tail(todo)) = Range(todo) \ {first}
      /\ Len(todo) # 1 => Tail(todo) # <<>>
  BY <1>4, <1>5, TakingFirst
<1>7. first \in req[r].found /\ first \in 1..Len(conversations)
  BY <1>3, <1>4, <1>6
<1>8. /\ chatLock' \in Seq(Sends \cup {None}) /\ Len(chatLock') = Len(chatLock)
      /\ chatLock'[first] = None
      /\ \A c \in 1..Len(conversations) : c # first => chatLock'[c] = chatLock[c]
  <2>1. chatLock' = [chatLock EXCEPT ![first] = None]
    BY <1>4 DEF WipeLock
  <2>2. QED
    BY <1>0, <1>7, <2>1, ChatLockWritten
<1>9. PICK pc : pc = IF Len(todo) = 1 THEN "delete" ELSE "wipe"
  OBVIOUS
<1>10. pc \in PCs /\ pc \in Clearing /\ pc \notin {"idle", "done", "release", "list", "unlock"}
       /\ (pc = "wipe" => Tail(todo) # <<>>)
  BY <1>6, <1>9 DEF PCs, Clearing
<1>11. PICK l : l = WithRest(r, pc)
  OBVIOUS
<1>12. /\ l \in Local /\ l.pc = pc /\ l.found = req[r].found /\ l.todo = Tail(todo)
       /\ l.conversation = Own(r) /\ l.taught = req[r].taught
  BY <1>0, <1>4, <1>6, <1>10, <1>11, ClearSetting
<1>13. req' \in [Request -> Local] /\ Alone(r) /\ req'[r] = l
  <2>1. Becomes(r, l)
    BY <1>4, <1>9, <1>11 DEF WipeLock, WithRest
  <2>2. QED
    BY <1>0, <1>10, <1>12, <2>1, Becoming, Forgetting
<1>14. Own(r)' = Own(r)
  BY <1>12, <1>13 DEF Own
<1>15. ClearIsPlaced(r)'
  <2>1. DOMAIN conversations' = DOMAIN conversations
    BY <1>1
  <2>2. Range(Tail(todo)) \subseteq req[r].found /\ req[r].found \subseteq DOMAIN conversations
    BY <1>3, <1>4, <1>6 DEF ClearIsPlaced
  <2>3. QED
    BY <1>3, <1>6, <1>10, <1>12, <1>13, <1>14, <2>1, <2>2 DEF ClearIsPlaced
<1>16. UnderWay(r)'
  BY <1>10, <1>12, <1>13 DEF UnderWay
<1>17. \A c : Wiped(r, c) => Wiped(r, c)'
  BY <1>4, <1>6, <1>12, <1>13, <1>16 DEF Wiped
<1>18. Wiped(r, first)' /\ ~Wiped(r, first)
  BY <1>4, <1>6, <1>7, <1>12, <1>13, <1>16 DEF Wiped
<1>19. \A c : Cardinality(Wipers(c)) + faults <= Cardinality(Wipers(c)') + faults'
  <2>1. SUFFICES ASSUME NEW c
                 PROVE  Cardinality(Wipers(c)) + faults <= Cardinality(Wipers(c)') + faults'
    OBVIOUS
  <2>2. Wiped(r, c)' \/ ~Wiped(r, c)
    BY <1>17
  <2>3. Cardinality(Wipers(c)) <= Cardinality(Wipers(c)') /\ Cardinality(Wipers(c)') \in Nat
    BY <1>0, <1>3, <1>13, <2>2, WipersSteps
  <2>4. QED
    BY <1>0, <1>1, <2>3, Counts
<1>20. Cardinality(Wipers(first)) + faults + 1 <= Cardinality(Wipers(first)') + faults'
  <2>1. Cardinality(Wipers(first)') = Cardinality(Wipers(first)) + 1
    BY <1>0, <1>3, <1>13, <1>18, WipersSteps
  <2>2. QED
    BY <1>0, <1>1, <2>1, Counts
<1>21. /\ \A c : Open(c)' <=> Open(c)
       /\ conversations \in Seq(Conversation)
  BY <1>0, <1>1 DEF Open, Typed
<1>22. ASSUME NEW c \in 1..Len(conversations)
       PROVE  \/ /\ chatLock'[c] = chatLock[c]
                 /\ Cardinality(Wipers(c)) + faults <= Cardinality(Wipers(c)') + faults'
              \/ /\ chatLock'[c] = None
                 /\ Cardinality(Wipers(c)) + faults + 1 <= Cardinality(Wipers(c)') + faults'
  BY <1>8, <1>19, <1>20
<1>23. req'[r].pc # "idle" /\ req'[r].taught = req[r].taught
  BY <1>10, <1>12, <1>13
<1>24. QED
  BY <1>1, <1>2, <1>3, <1>8, <1>13, <1>14, <1>15, <1>21, <1>22, <1>23, ClearKeeps

LEMMA DeleteConversationsKeeps ==
  ASSUME IInv, NEW r \in Request, DeleteConversations(r)
  PROVE  IInv'
<1>0. Typed /\ Placed
  BY DEF IInv
<1>1. /\ UNCHANGED <<identity, run, identityLock, chatLock, alone, expiries, faults>>
      /\ req[r].pc = "delete"
  BY DEF DeleteConversations, locks, counters, At
<1>2. faults' \in Nat /\ faults <= faults'
  BY <1>0, <1>1 DEF Typed
<1>3. /\ r \in Clears /\ UnderWay(r) /\ ClearIsPlaced(r) /\ req[r] \in Local /\ Own(r) = 0
  <2>1. req[r].pc \in Clearing
    BY <1>1 DEF Clearing
  <2>2. QED
    BY <1>0, <2>1, ClearingIsClear
<1>4. /\ ClearIsPlaced(r)'
      /\ Own(r)' = Own(r) /\ req'[r].pc # "idle"
      /\ req'[r].taught = req[r].taught /\ req' \in [Request -> Local] /\ Alone(r)
  <2>1. Goto(r, "done") /\ "done" \in PCs
    BY DEF DeleteConversations, PCs
  <2>2. GoesOn(r, "done")
    BY <1>0, <2>1, GotoGoesOn
  <2>3. QED
    BY <1>0, <1>3, <2>2, ClearIsOver
<1>5. /\ DOMAIN conversations = 1..Len(conversations) /\ Len(conversations) \in Nat
      /\ \A c \in 1..Len(conversations) : conversations[c] \in Conversation
  BY <1>0, RowTypes
<1>6. PICK gone : gone = [Fresh EXCEPT !.deleted = TRUE]
  OBVIOUS
<1>7. gone \in Conversation /\ gone.deleted
  BY <1>6, FreshIsConversation DEF Conversation
<1>8. conversations' = [c \in 1..Len(conversations) |->
                          IF c \in req[r].found THEN gone ELSE conversations[c]]
  BY <1>5, <1>6 DEF DeleteConversations
<1>9. conversations' \in Seq(Conversation) /\ Len(conversations') = Len(conversations)
  BY <1>5, <1>7, <1>8
<1>10. \A c : Open(c)' =>
         c \in 1..Len(conversations) /\ c \notin req[r].found /\ conversations'[c] = conversations[c]
  BY <1>7, <1>8 DEF Open
<1>11. \A c : Open(c)' => Open(c) /\ conversations'[c].context = conversations[c].context
  BY <1>5, <1>10 DEF Open
<1>12. \A c \in 1..Len(conversations) : Open(c)' =>
         /\ chatLock'[c] = chatLock[c]
         /\ Cardinality(Wipers(c)) + faults <= Cardinality(Wipers(c)') + faults'
  <2>1. SUFFICES ASSUME NEW c \in 1..Len(conversations), Open(c)'
                 PROVE  Cardinality(Wipers(c)) + faults <= Cardinality(Wipers(c)') + faults'
    BY <1>1
  <2>2. ~Wiped(r, c)
    BY <1>10, <2>1 DEF Wiped
  <2>3. Cardinality(Wipers(c)) <= Cardinality(Wipers(c)') /\ Cardinality(Wipers(c)') \in Nat
    BY <1>0, <1>3, <1>4, <2>2, WipersSteps
  <2>4. QED
    BY <1>0, <1>1, <2>3, Counts
<1>13. chatLock \in Seq(Sends \cup {None})
  BY <1>0 DEF Typed
<1>14. QED
  BY <1>1, <1>2, <1>3, <1>4, <1>9, <1>11, <1>12, <1>13, ClearKeeps

-----------------------------------------------------------------------------
(* The beginning of a request, and the environment.                        *)

LEMMA BeginKeeps ==
  ASSUME IInv, NEW r \in Request, BeginSend(r) \/ BeginClear(r)
  PROVE  IInv'
<1>0. /\ Typed /\ Placed /\ RunsAreUnderWay /\ SessionsAreCounted /\ AnswersAreCounted
      /\ AloneAreAlone /\ ContextSurvives /\ ContextIsCurrent
  BY DEF IInv
<1>1. PICK pc \in PCs :
        /\ Begin(r, pc) /\ pc \in {"identity lock", "list"}
        /\ (pc = "identity lock" => r \in Sends) /\ (pc = "list" => r \in Clears)
  <2>1. "identity lock" \in PCs /\ "list" \in PCs
    BY DEF PCs, Before, Clearing
  <2>2. CASE BeginSend(r)
    BY <2>1, <2>2 DEF BeginSend
  <2>3. CASE BeginClear(r)
    BY <2>1, <2>3 DEF BeginClear
  <2>4. QED
    BY <2>2, <2>3
<1>2. /\ req[r].pc = "idle"
      /\ UNCHANGED <<identity, conversations, run, identityLock, chatLock, expiries, faults>>
  <2>1. Begin(r, pc)
    BY <1>1
  <2>2. QED
    BY <2>1 DEF Begin, At, rows, locks, counters
<1>3. pc \in PCs /\ pc \notin {"idle", "done", "release"} \cup HoldsIdentity \cup Answers \cup KnowsContext
  BY <1>1 DEF PCs, Before, Clearing, HoldsIdentity, Answers, Locked, KnowsContext
<1>4. req[r].pc \notin HoldsIdentity \cup Answers
  BY <1>2 DEF HoldsIdentity, Answers, Locked
<1>5. GoesOn(r, pc)
  BY <1>0, <1>1, <1>3, GotoGoesOn DEF Begin
<1>6. /\ req' \in [Request -> Local] /\ Alone(r) /\ req'[r].pc = pc
      /\ req'[r].conversation = req[r].conversation /\ req'[r].taught = req[r].taught
      /\ req'[r].found = req[r].found /\ req'[r].todo = req[r].todo
  BY <1>3, <1>5 DEF GoesOn, Own
<1>7. \A q \in Request \ {r} : req'[q] = req[q]
  BY <1>6 DEF Alone
<1>8. /\ alone \subseteq Request /\ r \notin alone
      /\ \A q \in alone' : q \in alone \/ q = r
      /\ \A q \in alone' : q # r => ~UnderWay(q)
      /\ r \in alone' => \A q \in Request : ~UnderWay(q)
  <2> DEFINE others == {q \in Request : UnderWay(q)}
  <2>1. alone' = IF others = {} THEN alone \cup {r} ELSE alone \ others
    BY <1>1 DEF Begin
  <2>2. alone \subseteq Request
    BY <1>0 DEF Typed
  <2>3. r \notin alone
    BY <1>0, <1>2 DEF AloneAreAlone, At
  <2>4. QED
    BY <2>1, <2>2, <2>3
<1>9. Typed'
  <2>1. alone' \in SUBSET Request
    BY <1>8
  <2>2. QED
    BY <1>0, <1>2, <1>6, <2>1 DEF Typed
<1>10. r \in Sends => Own(r) = 0 /\ SendIsPlaced(r)
  BY <1>0, <1>2 DEF Placed, SendIsPlaced
<1>11. r \in Clears => Own(r) = 0 /\ ClearIsPlaced(r) /\ req[r].found = {}
  BY <1>0, <1>2 DEF Placed, ClearIsPlaced
<1>12. req[r].conversation = 0
  BY <1>10, <1>11 DEF Own, Request
<1>13. Placed'
  <2>1. ASSUME r \in Sends PROVE SendIsPlaced(r)'
    <3>1. /\ req'[r].conversation = 0 /\ req'[r].taught = {}
          /\ \A round \in Rounds : run'[r][round] = "none"
      BY <1>2, <1>6, <1>10, <2>1 DEF SendIsPlaced, Own
    <3>2. 0 <= Len(conversations')
      BY <1>0, <1>2, RowTypes
    <3>3. r \notin Clears
      BY <2>1, TestChatAssumption
    <3>4. pc = "identity lock"
      BY <1>1, <3>3
    <3>5. pc \notin Clearing /\ pc \in Unplaced
      BY <3>4 DEF Clearing, Unplaced, Identifying
    <3>6. QED
      BY <1>6, <3>1, <3>2, <3>4, <3>5 DEF SendIsPlaced, Own, At
  <2>2. ASSUME r \in Clears PROVE ClearIsPlaced(r)'
    <3>1. pc = "list"
      BY <1>1, <2>2, TestChatAssumption
    <3>2. DOMAIN conversations' = DOMAIN conversations
      BY <1>2
    <3>3. QED
      BY <1>6, <1>11, <1>12, <2>2, <3>1, <3>2 DEF ClearIsPlaced, Own, Clearing
  <2>3. conversations' \in Seq(Conversation) /\ Len(conversations) <= Len(conversations')
    BY <1>0, <1>2, RowTypes DEF Typed
  <2>4. \A q \in Sends \ {r} : run'[q] = run[q]
    BY <1>2
  <2>5. QED
    BY <1>0, <1>6, <2>1, <2>2, <2>3, <2>4, PlacedFrame
<1>14. \A c : Open(c)' <=> Open(c)
  BY <1>2 DEF Open
<1>15. OpenOnes' = OpenOnes
  BY <1>2, <1>14 DEF OpenOnes
<1>16. RunsAreUnderWay'
  <2>1. ASSUME NEW q \in Sends, q # r PROVE RunIsUnderWay(q)'
    <3>1. req'[q] = req[q] /\ RunIsUnderWay(q)
      BY <1>0, <1>7, <2>1 DEF Request, RunsAreUnderWay
    <3>2. Open(Own(q))' <=> Open(Own(q))
      <4>1. PICK c : c = Own(q)
        OBVIOUS
      <4>2. c = Own(q)'
        BY <3>1, <4>1 DEF Own
      <4>3. QED
        BY <1>14, <4>1, <4>2
    <3>3. QED
      BY <1>2, <3>1, <3>2 DEF RunIsUnderWay
  <2>2. r \in Sends => RunIsUnderWay(r)'
    BY <1>2, <1>10 DEF SendIsPlaced, RunIsUnderWay
  <2>3. QED
    BY <2>1, <2>2 DEF RunsAreUnderWay
<1>17. OverStays
  BY <1>2, <1>7 DEF OverStays
<1>18. Inside' = Inside
  BY <1>3, <1>4, <1>6, InsideSteps
<1>19. Creating' \subseteq Creating
  BY <1>3, <1>6, <1>7 DEF Creating, At, HoldsIdentity, Request
<1>20. SessionsAreCounted'
  BY <1>0, <1>2, <1>15, <1>17, <1>18, <1>19, SessionsFrame
<1>21. AnswersAreCounted'
  <2>1. \A c : Answering(c)' = Answering(c)
    BY <1>3, <1>4, <1>6, AnsweringSteps
  <2>2. \A c : Cardinality(Wipers(c)') = Cardinality(Wipers(c)) /\ Cardinality(Wipers(c)) \in Nat
    <3>1. SUFFICES ASSUME NEW c PROVE Cardinality(Wipers(c)') = Cardinality(Wipers(c))
      BY <1>0, Counts
    <3>2. CASE r \notin Clears
      BY <1>6, <3>2, WipersStay
    <3>3. CASE r \in Clears
      <4>1. ~Wiped(r, c) /\ ~Wiped(r, c)'
        BY <1>6, <1>11, <3>3 DEF Wiped
      <4>2. QED
        BY <1>0, <1>6, <3>3, <4>1, WipersSteps
    <3>4. QED
      BY <3>2, <3>3
  <2>3. faults' \in Nat /\ faults <= faults' /\ faults' = faults
    BY <1>0, <1>2 DEF Typed
  <2>4. QED
    BY <1>0, <1>2, <1>15, <1>17, <2>1, <2>2, <2>3, AnswersFrame
<1>22. AloneAreAlone'
  <2>1. ASSUME NEW q \in alone' PROVE req'[q].pc # "idle"
    <3>1. CASE q = r
      BY <1>3, <1>6, <3>1
    <3>2. CASE q # r
      BY <1>0, <1>7, <1>8, <2>1, <3>2 DEF AloneAreAlone, At
    <3>3. QED
      BY <3>1, <3>2
  <2>2. ASSUME NEW q \in alone', UnderWay(q)', NEW p \in Request \ {q}
        PROVE  ~UnderWay(p)'
    <3>1. q = r
      BY <1>7, <1>8, <2>2 DEF UnderWay
    <3>2. ~UnderWay(p) /\ req'[p] = req[p]
      BY <1>7, <1>8, <2>2, <3>1
    <3>3. QED
      BY <3>2 DEF UnderWay
  <2>3. QED
    BY <2>1, <2>2 DEF AloneAreAlone, At
<1>23. ContextSurvives' /\ ContextIsCurrent'
  <2>1. \A c : Open(c)' => Open(c) /\ conversations'[c].context = conversations[c].context
    BY <1>2, <1>14
  <2>2. \A q \in Request :
          /\ req'[q].conversation = req[q].conversation
          /\ req'[q].taught = req[q].taught
          /\ q \in alone' /\ req[q].conversation # 0 => q \in alone
    BY <1>6, <1>7, <1>8, <1>12
  <2>3. ASSUME NEW q \in Sends, NEW c,
               req'[q].pc \in KnowsContext, q \in alone', c = req'[q].conversation, Open(c)'
        PROVE  /\ req[q].pc \in KnowsContext /\ q \in alone
               /\ c = req[q].conversation /\ Open(c)
               /\ req'[q].context = req[q].context
               /\ conversations'[c].context = conversations[c].context
    <3>1. q # r
      BY <1>3, <1>6, <2>3
    <3>2. req'[q] = req[q] /\ q \in alone
      BY <1>7, <1>8, <2>3, <3>1 DEF Request
    <3>3. QED
      BY <2>1, <2>3, <3>2
  <2>4. QED
    BY <1>0, <2>1, <2>2, <2>3, ContextFrame
<1>24. QED
  BY <1>9, <1>13, <1>16, <1>20, <1>21, <1>22, <1>23 DEF IInv

\* A step that no request takes.
LEMMA NobodyMoves ==
  ASSUME IInv, UNCHANGED <<identity, run, req, alone>>, KeepsRows, KeepsContexts,
         identityLock' \in Sends \cup {None},
         chatLock' \in Seq(Sends \cup {None}), Len(chatLock') = Len(chatLock),
         expiries' \in Nat, faults' = faults,
         SessionsAreCounted', AnswersAreCounted'
  PROVE  IInv'
<1>0. /\ Typed /\ Placed /\ RunsAreUnderWay /\ AloneAreAlone /\ ContextSurvives /\ ContextIsCurrent
  BY DEF IInv
<1>1. Typed'
  BY <1>0 DEF Typed, KeepsRows
<1>2. \A c : Open(c)' <=> Open(c)
  BY <1>0, RowsStay
<1>3. Placed'
  <2>1. Len(conversations') = Len(conversations) /\ DOMAIN conversations' = DOMAIN conversations
    BY <1>0, RowTypes DEF KeepsRows
  <2>2. ASSUME NEW r \in Clears PROVE ClearIsPlaced(r)'
    BY <1>0, <2>1, <2>2 DEF Placed, ClearIsPlaced, Own
  <2>3. ASSUME NEW r \in Sends PROVE SendIsPlaced(r)'
    BY <1>0, <2>1, <2>3 DEF Placed, SendIsPlaced, Own, At
  <2>4. QED
    BY <2>2, <2>3 DEF Placed
<1>4. RunsAreUnderWay'
  <2>1. SUFFICES ASSUME NEW r \in Sends PROVE RunIsUnderWay(r)'
    BY DEF RunsAreUnderWay
  <2>2. Open(Own(r))' <=> Open(Own(r))
    <3>1. PICK c : c = Own(r)
      OBVIOUS
    <3>2. c = Own(r)'
      BY <3>1 DEF Own
    <3>3. QED
      BY <1>2, <3>1, <3>2
  <2>3. RunIsUnderWay(r)
    BY <1>0 DEF RunsAreUnderWay
  <2>4. QED
    BY <2>2, <2>3 DEF RunIsUnderWay
<1>5. AloneAreAlone'
  BY <1>0 DEF AloneAreAlone, At, UnderWay
<1>6. ContextSurvives' /\ ContextIsCurrent'
  <2>1. \A c : Open(c)' => Open(c) /\ conversations'[c].context = conversations[c].context
    BY <1>0, <1>2, RowTypes DEF KeepsContexts
  <2>2. QED
    BY <1>0, <2>1, ContextFrame
<1>7. QED
  BY <1>1, <1>3, <1>4, <1>5, <1>6 DEF IInv

LEMMA SameOpenOnes ==
  ASSUME Typed, KeepsRows
  PROVE  OpenOnes' = OpenOnes
<1>1. \A c : Open(c)' <=> Open(c)
  BY RowsStay
<1>2. DOMAIN conversations' = DOMAIN conversations
  BY RowTypes DEF KeepsRows
<1>3. QED
  BY <1>1, <1>2 DEF OpenOnes

\* Who is where when no request moves.
LEMMA SamePlaces ==
  ASSUME req' = req
  PROVE  /\ Inside' = Inside /\ Creating' = Creating /\ OverStays
         /\ \A c : Answering(c)' = Answering(c) /\ Wipers(c)' = Wipers(c)
BY DEF Inside, Creating, OverStays, Answering, Wipers, Own, UnderWay, At

LEMMA SameSessions ==
  ASSUME Typed, SessionsAreCounted, req' = req, KeepsRows, identityLock' = identityLock,
         expiries' \in Nat, expiries <= expiries'
  PROVE  SessionsAreCounted'
<1>1. OpenOnes' = OpenOnes /\ Inside' = Inside /\ Creating' = Creating
  BY SameOpenOnes, SamePlaces
<1>2. One(identityLock \notin Inside) \in Nat
  BY DEF One
<1>3. /\ Cardinality(Inside) + One(identityLock \notin Inside) <= 1 + expiries
      /\ Cardinality(OpenOnes) + Cardinality(Creating) <= 1 + expiries
  BY DEF SessionsAreCounted
<1>4. /\ Cardinality(Inside) + One(identityLock \notin Inside) <= 1 + expiries'
      /\ Cardinality(OpenOnes) + Cardinality(Creating) <= 1 + expiries'
  BY <1>2, <1>3, Counts
<1>5. identityLock' # None => identityLock' \in Inside' \/ At(identityLock, "done")'
  BY <1>1 DEF SessionsAreCounted, At
<1>6. QED
  BY <1>1, <1>4, <1>5 DEF SessionsAreCounted

LEMMA SameAnswers ==
  ASSUME Typed, AnswersAreCounted, req' = req, KeepsRows, chatLock' = chatLock, faults' = faults,
         expiries' \in Nat, expiries <= expiries'
  PROVE  AnswersAreCounted'
<1>1. OpenOnes' = OpenOnes
  BY SameOpenOnes
<1>2. SUFFICES ASSUME NEW c \in OpenOnes
               PROVE  /\ chatLock[c] # None => chatLock[c] \in Answering(c) \/ At(chatLock[c], "done")
                      /\ Cardinality(Answering(c)) + One(chatLock[c] \notin Answering(c))
                           <= 1 + expiries' + faults + Cardinality(Wipers(c))
  BY <1>1, SamePlaces DEF AnswersAreCounted, At
<1>3. /\ chatLock[c] # None => chatLock[c] \in Answering(c) \/ At(chatLock[c], "done")
      /\ Cardinality(Answering(c)) + One(chatLock[c] \notin Answering(c))
           <= 1 + expiries + faults + Cardinality(Wipers(c))
  BY DEF AnswersAreCounted
<1>4. One(chatLock[c] \notin Answering(c)) \in Nat
  BY DEF One
<1>5. Cardinality(Answering(c)) + One(chatLock[c] \notin Answering(c))
        <= 1 + expiries' + faults + Cardinality(Wipers(c))
  BY <1>3, <1>4, Counts
<1>6. QED
  BY <1>3, <1>5

LEMMA StutterKeeps ==
  ASSUME IInv, UNCHANGED vars
  PROVE  IInv'
<1>0. Typed /\ SessionsAreCounted /\ AnswersAreCounted
  BY DEF IInv
<1>1. UNCHANGED <<identity, conversations, run, identityLock, chatLock, req, alone, expiries, faults>>
  BY DEF vars, rows, locks, counters
<1>2. KeepsRows /\ KeepsContexts
  BY <1>0, <1>1 DEF Typed, KeepsRows, KeepsContexts
<1>3. SessionsAreCounted'
  BY <1>0, <1>1, <1>2, Counts, SameSessions
<1>4. AnswersAreCounted'
  BY <1>0, <1>1, <1>2, Counts, SameAnswers
<1>5. /\ identityLock' \in Sends \cup {None} /\ chatLock' \in Seq(Sends \cup {None})
      /\ Len(chatLock') = Len(chatLock) /\ expiries' \in Nat /\ faults' = faults
  BY <1>0, <1>1 DEF Typed
<1>6. QED
  BY <1>1, <1>2, <1>3, <1>4, <1>5, NobodyMoves

LEMMA MemoryExpiresKeeps ==
  ASSUME IInv, NEW c \in DOMAIN conversations, MemoryExpires(c)
  PROVE  IInv'
<1>0. Typed /\ SessionsAreCounted /\ AnswersAreCounted
  BY DEF IInv
<1>1. UNCHANGED <<identity, run, identityLock, chatLock, req, alone, expiries, faults>>
  BY DEF MemoryExpires, locks, counters
<1>2. KeepsRows /\ KeepsContexts
  <2>1. conversations' = [conversations EXCEPT ![c].memory = <<>>] /\ <<>> \in Seq(Message)
    BY DEF MemoryExpires
  <2>2. c \in 1..Len(conversations)
    BY <1>0, RowTypes
  <2>3. QED
    BY <1>0, <2>1, <2>2, Columns
<1>3. SessionsAreCounted'
  BY <1>0, <1>1, <1>2, Counts, SameSessions
<1>4. AnswersAreCounted'
  BY <1>0, <1>1, <1>2, Counts, SameAnswers
<1>5. /\ identityLock' \in Sends \cup {None} /\ chatLock' \in Seq(Sends \cup {None})
      /\ Len(chatLock') = Len(chatLock) /\ expiries' \in Nat /\ faults' = faults
  BY <1>0, <1>1 DEF Typed
<1>6. QED
  BY <1>1, <1>2, <1>3, <1>4, <1>5, NobodyMoves

\* Whoever is inside or answers is under way.
LEMMA BusyAreUnderWay ==
  /\ \A q \in Inside : UnderWay(q)
  /\ \A c : \A q \in Answering(c) : UnderWay(q)
BY DEF Inside, HoldsIdentity, Answering, Locked, UnderWay

\* A lease that runs out lets one more in only if its holder was still at work.
LEMMA LapseCounts ==
  ASSUME Typed, NEW S, IsFiniteSet(S), \A q \in S : UnderWay(q), NEW holder, Lapses(holder)
  PROVE  /\ expiries' \in Nat /\ expiries <= expiries'
         /\ Cardinality(S) + One(None \notin S) + expiries
              <= Cardinality(S) + One(holder \notin S) + expiries'
<1>1. expiries \in Nat /\ Cardinality(S) \in Nat
  BY FS_CardinalityType DEF Typed
<1>2. One(None \notin S) \in 0..1 /\ One(holder \notin S) \in 0..1
  BY DEF One
<1>3. CASE UnderWay(holder)
  <2>1. expiries' = expiries + 1
    BY <1>3 DEF Lapses
  <2>2. QED
    BY <1>1, <1>2, <2>1
<1>4. CASE ~UnderWay(holder)
  <2>1. expiries' = expiries
    BY <1>4 DEF Lapses
  <2>2. holder \notin S
    BY <1>4
  <2>3. One(holder \notin S) = 1
    BY <2>2 DEF One
  <2>4. QED
    BY <1>1, <1>2, <2>1, <2>3
<1>5. QED
  BY <1>3, <1>4

LEMMA IdentityLockExpiresKeeps ==
  ASSUME IInv, IdentityLockExpires
  PROVE  IInv'
<1>0. Typed /\ SessionsAreCounted /\ AnswersAreCounted
  BY DEF IInv
<1>1. /\ UNCHANGED <<identity, conversations, run, chatLock, req, alone, faults>>
      /\ identityLock' = None /\ Lapses(identityLock)
  BY DEF IdentityLockExpires, rows
<1>2. KeepsRows /\ KeepsContexts
  BY <1>0, <1>1 DEF Typed, KeepsRows, KeepsContexts
<1>3. /\ expiries' \in Nat /\ expiries <= expiries'
      /\ Cardinality(Inside) + One(None \notin Inside) + expiries
           <= Cardinality(Inside) + One(identityLock \notin Inside) + expiries'
  BY <1>0, <1>1, Finiteness, BusyAreUnderWay, LapseCounts
<1>4. SessionsAreCounted'
  <2>1. OpenOnes' = OpenOnes /\ Inside' = Inside /\ Creating' = Creating
    BY <1>0, <1>1, <1>2, SameOpenOnes, SamePlaces
  <2>2. /\ Cardinality(Inside) + One(identityLock \notin Inside) <= 1 + expiries
        /\ Cardinality(OpenOnes) + Cardinality(Creating) <= 1 + expiries
    BY <1>0 DEF SessionsAreCounted
  <2>3. One(identityLock \notin Inside) \in Nat /\ One(None \notin Inside) \in Nat
    BY DEF One
  <2>4. /\ Cardinality(Inside) + One(None \notin Inside) <= 1 + expiries'
        /\ Cardinality(OpenOnes) + Cardinality(Creating) <= 1 + expiries'
    BY <1>0, <1>3, <2>2, <2>3, Counts
  <2>5. QED
    BY <1>1, <2>1, <2>4 DEF SessionsAreCounted
<1>5. AnswersAreCounted'
  BY <1>0, <1>1, <1>2, <1>3, SameAnswers
<1>6. /\ identityLock' \in Sends \cup {None} /\ chatLock' \in Seq(Sends \cup {None})
      /\ Len(chatLock') = Len(chatLock)
  BY <1>0, <1>1 DEF Typed
<1>7. QED
  BY <1>1, <1>2, <1>3, <1>4, <1>5, <1>6, NobodyMoves

LEMMA ChatLockExpiresKeeps ==
  ASSUME IInv, NEW c \in DOMAIN conversations, ChatLockExpires(c)
  PROVE  IInv'
<1>0. Typed /\ SessionsAreCounted /\ AnswersAreCounted
  BY DEF IInv
<1>1. /\ UNCHANGED <<identity, conversations, run, identityLock, req, alone, faults>>
      /\ chatLock' = [chatLock EXCEPT ![c] = None] /\ Lapses(chatLock[c])
  BY DEF ChatLockExpires, rows
<1>2. KeepsRows /\ KeepsContexts
  BY <1>0, <1>1 DEF Typed, KeepsRows, KeepsContexts
<1>3. /\ expiries' \in Nat /\ expiries <= expiries'
      /\ Cardinality(Answering(c)) + One(None \notin Answering(c)) + expiries
           <= Cardinality(Answering(c)) + One(chatLock[c] \notin Answering(c)) + expiries'
  BY <1>0, <1>1, Finiteness, BusyAreUnderWay, LapseCounts
<1>4. SessionsAreCounted'
  BY <1>0, <1>1, <1>2, <1>3, SameSessions
<1>5. c \in 1..Len(conversations) /\ None \in Sends \cup {None}
  BY <1>0, RowTypes
<1>6. /\ chatLock' \in Seq(Sends \cup {None}) /\ Len(chatLock') = Len(chatLock)
      /\ chatLock'[c] = None
      /\ \A d \in 1..Len(conversations) : d # c => chatLock'[d] = chatLock[d]
  BY <1>0, <1>1, <1>5, ChatLockWritten
<1>7. AnswersAreCounted'
  <2>1. OpenOnes' = OpenOnes
    BY <1>0, <1>2, SameOpenOnes
  <2>2. SUFFICES ASSUME NEW d \in OpenOnes
                 PROVE  /\ chatLock'[d] # None =>
                             chatLock'[d] \in Answering(d) \/ At(chatLock'[d], "done")
                        /\ Cardinality(Answering(d)) + One(chatLock'[d] \notin Answering(d))
                             <= 1 + expiries' + faults + Cardinality(Wipers(d))
    BY <1>1, <2>1, SamePlaces DEF AnswersAreCounted, At
  <2>3. /\ chatLock[d] # None => chatLock[d] \in Answering(d) \/ At(chatLock[d], "done")
        /\ Cardinality(Answering(d)) + One(chatLock[d] \notin Answering(d))
             <= 1 + expiries + faults + Cardinality(Wipers(d))
    BY <1>0, <2>2 DEF AnswersAreCounted
  <2>4. One(chatLock[d] \notin Answering(d)) \in Nat /\ One(None \notin Answering(d)) \in Nat
    BY DEF One
  <2>5. d \in 1..Len(conversations)
    BY <1>0, <2>2, RowTypes DEF OpenOnes
  <2>6. CASE d # c
    <3>1. chatLock'[d] = chatLock[d]
      BY <1>6, <2>5, <2>6
    <3>2. Cardinality(Answering(d)) + One(chatLock[d] \notin Answering(d))
            <= 1 + expiries' + faults + Cardinality(Wipers(d))
      BY <1>0, <1>3, <2>3, <2>4, Counts
    <3>3. QED
      BY <2>3, <3>1, <3>2
  <2>7. CASE d = c
    <3>1. Cardinality(Answering(d)) + One(None \notin Answering(d)) + expiries
            <= Cardinality(Answering(d)) + One(chatLock[d] \notin Answering(d)) + expiries'
      BY <1>3, <2>7
    <3>2. PICK n, o, o1, w, e, e1, f :
            /\ n = Cardinality(Answering(d)) /\ o = One(chatLock[d] \notin Answering(d))
            /\ o1 = One(None \notin Answering(d)) /\ w = Cardinality(Wipers(d))
            /\ e = expiries /\ e1 = expiries' /\ f = faults
      OBVIOUS
    <3>3. n \in Nat /\ o \in Nat /\ o1 \in Nat /\ w \in Nat /\ e \in Nat /\ e1 \in Nat /\ f \in Nat
      BY <1>0, <1>3, <2>4, <3>2, Counts
    <3>4. n + o <= 1 + e + f + w /\ n + o1 + e <= n + o + e1
      BY <2>3, <3>1, <3>2
    <3>5. n + o1 <= 1 + e1 + f + w
      BY <3>3, <3>4
    <3>6. Cardinality(Answering(d)) + One(None \notin Answering(d))
            <= 1 + expiries' + faults + Cardinality(Wipers(d))
      BY <3>2, <3>5
    <3>7. QED
      BY <1>6, <2>7, <3>6
  <2>8. QED
    BY <2>6, <2>7
<1>8. identityLock' \in Sends \cup {None}
  BY <1>0, <1>1 DEF Typed
<1>9. QED
  BY <1>1, <1>2, <1>3, <1>4, <1>6, <1>7, <1>8, NobodyMoves

LEMMA CrashKeeps ==
  ASSUME IInv, Crash
  PROVE  IInv'
<1>0. /\ Typed /\ Placed /\ SessionsAreCounted /\ AnswersAreCounted
      /\ AloneAreAlone /\ ContextSurvives /\ ContextIsCurrent
  BY DEF IInv
<1>1. /\ UNCHANGED <<identity, conversations, run, identityLock, chatLock, alone, expiries>>
      /\ faults' = faults + 1
  BY DEF Crash, Fault, rows, locks
<1>2. faults' \in Nat /\ faults <= faults' /\ faults' > 0
  BY <1>0, <1>1 DEF Typed
<1>3. ASSUME NEW r \in Request
      PROVE  /\ req'[r] \in Local /\ ~UnderWay(r)'
             /\ req'[r].conversation = req[r].conversation /\ req'[r].taught = req[r].taught
             /\ UnderWay(r) => /\ req'[r].pc = "done" /\ req'[r].found = {} /\ req'[r].todo = <<>>
             /\ ~UnderWay(r) => req'[r] = req[r]
  <2>1. req[r] \in Local /\ "done" \in PCs
    BY <1>0 DEF Typed, PCs
  <2>2. PICK l : l = [req[r] EXCEPT !.pc = "done", !.failed = TRUE]
    OBVIOUS
  <2>3. l \in Local /\ l.pc = "done" /\ l.conversation = req[r].conversation
        /\ l.taught = req[r].taught
    BY <2>1, <2>2 DEF Local
  <2>4. req'[r] = IF UnderWay(r) THEN Forgetful(l) ELSE req[r]
    BY <2>2 DEF Crash
  <2>5. QED
    BY <2>1, <2>3, <2>4, Forgetting DEF UnderWay
<1>4. req' \in [Request -> Local]
  <2>1. DOMAIN req' = Request /\ req' = [r \in Request |-> req'[r]]
    BY DEF Crash
  <2>2. QED
    BY <1>3, <2>1
<1>5. \A r \in Sends : r \in Request
  BY DEF Request
<1>6. Typed'
  BY <1>0, <1>1, <1>2, <1>4 DEF Typed
<1>7. \A c : Open(c)' <=> Open(c)
  BY <1>1 DEF Open
<1>8. Placed'
  <2>1. ASSUME NEW r \in Clears PROVE ClearIsPlaced(r)'
    <3>1. r \in Request /\ ClearIsPlaced(r) /\ DOMAIN conversations' = DOMAIN conversations
      BY <1>0, <1>1, <2>1 DEF Request, Placed
    <3>2. CASE UnderWay(r)
      BY <1>3, <3>1, <3>2, EmptyTodo DEF ClearIsPlaced, Own
    <3>3. CASE ~UnderWay(r)
      BY <1>3, <3>1, <3>3 DEF ClearIsPlaced, Own
    <3>4. QED
      BY <3>2, <3>3
  <2>2. ASSUME NEW r \in Sends PROVE SendIsPlaced(r)'
    <3>1. r \in Request /\ SendIsPlaced(r) /\ conversations' = conversations /\ run' = run
      BY <1>0, <1>1, <1>5, <2>2 DEF Placed
    <3>2. CASE UnderWay(r)
      BY <1>3, <3>1, <3>2 DEF SendIsPlaced, Own, At, Clearing, Identifying, Unplaced, Before
    <3>3. CASE ~UnderWay(r)
      BY <1>3, <3>1, <3>3 DEF SendIsPlaced, Own, At
    <3>4. QED
      BY <3>2, <3>3
  <2>3. QED
    BY <2>1, <2>2 DEF Placed
<1>9. RunsAreUnderWay'
  BY <1>2 DEF RunsAreUnderWay, RunIsUnderWay
<1>10. Inside' = {} /\ Creating' = {} /\ \A c : Answering(c)' = {}
  <2>1. \A r \in Sends : req'[r].pc \in {"idle", "done"}
    BY <1>3, <1>5 DEF UnderWay
  <2>2. QED
    BY <2>1 DEF Inside, HoldsIdentity, Creating, At, Answering, Locked
<1>11. Cardinality({}) = 0
  BY FS_EmptySet
<1>12. SessionsAreCounted'
  <2>1. OpenOnes' = OpenOnes
    BY <1>1, <1>7 DEF OpenOnes
  <2>2. One(identityLock' \notin Inside') \in 0..1
    BY DEF One
  <2>3. Cardinality(Inside') + One(identityLock' \notin Inside') <= 1 + expiries'
    BY <1>0, <1>1, <1>10, <1>11, <2>2, Counts
  <2>4. Cardinality(OpenOnes') + Cardinality(Creating') <= 1 + expiries'
    BY <1>0, <1>1, <1>10, <1>11, <2>1, Counts DEF SessionsAreCounted
  <2>5. identityLock # None => req'[identityLock].pc = "done"
    <3>1. SUFFICES ASSUME identityLock # None PROVE req'[identityLock].pc = "done"
      OBVIOUS
    <3>2. identityLock \in Request
      BY <1>0, <1>5, <3>1 DEF Typed
    <3>3. UnderWay(identityLock) \/ req[identityLock].pc = "done"
      BY <1>0, <3>1, BusyAreUnderWay DEF SessionsAreCounted, At
    <3>4. QED
      BY <1>3, <3>2, <3>3
  <2>6. QED
    BY <1>1, <2>3, <2>4, <2>5 DEF SessionsAreCounted, At
<1>13. AnswersAreCounted'
  <2>1. SUFFICES ASSUME NEW c \in OpenOnes'
                 PROVE  /\ chatLock'[c] # None => req'[chatLock'[c]].pc = "done"
                        /\ Cardinality(Answering(c)') + One(chatLock'[c] \notin Answering(c)')
                             <= 1 + expiries' + faults' + Cardinality(Wipers(c)')
    BY DEF AnswersAreCounted, At
  <2>2. c \in OpenOnes /\ c \in 1..Len(chatLock)
    BY <1>0, <1>1, <1>7, RowTypes DEF OpenOnes, Typed
  <2>3. chatLock[c] # None => req'[chatLock[c]].pc = "done"
    <3>1. SUFFICES ASSUME chatLock[c] # None PROVE req'[chatLock[c]].pc = "done"
      OBVIOUS
    <3>2. chatLock[c] \in Request
      BY <1>0, <1>5, <2>2, <3>1 DEF Typed
    <3>3. UnderWay(chatLock[c]) \/ req[chatLock[c]].pc = "done"
      BY <1>0, <2>2, <3>1, BusyAreUnderWay DEF AnswersAreCounted, At
    <3>4. QED
      BY <1>3, <3>2, <3>3
  <2>4. Wipers(c)' \subseteq Clears
    BY DEF Wipers
  <2>5. Cardinality(Wipers(c)') \in Nat
    BY <1>0, <2>4, Finiteness, FS_Subset, FS_CardinalityType
  <2>6. One(chatLock'[c] \notin Answering(c)') \in 0..1
    BY DEF One
  <2>7. Cardinality(Answering(c)') + One(chatLock'[c] \notin Answering(c)')
          <= 1 + expiries' + faults' + Cardinality(Wipers(c)')
    BY <1>0, <1>1, <1>2, <1>10, <1>11, <2>5, <2>6, Counts
  <2>8. QED
    BY <1>1, <2>3, <2>7
<1>14. AloneAreAlone'
  <2>1. alone \in SUBSET Request
    BY <1>0 DEF Typed
  <2>2. \A q \in Request : /\ req'[q].pc = "idle" => req[q].pc = "idle"
                           /\ req'[q].pc \notin {"idle", "done"} => req[q].pc \notin {"idle", "done"}
    BY <1>3 DEF UnderWay
  <2>3. QED
    BY <1>0, <1>1, <2>1, <2>2, AloneFrame
<1>15. ContextSurvives' /\ ContextIsCurrent'
  <2>1. \A c : Open(c)' => Open(c) /\ conversations'[c].context = conversations[c].context
    BY <1>1, <1>7
  <2>2. \A q \in Sends : req'[q].pc \notin KnowsContext
    BY <1>3, <1>5 DEF UnderWay, KnowsContext, Locked
  <2>3. \A q \in Request : req'[q].conversation = req[q].conversation
                           /\ req'[q].taught = req[q].taught
    BY <1>3
  <2>4. QED
    BY <1>0, <1>1, <2>1, <2>2, <2>3, ContextFrame
<1>16. QED
  BY <1>6, <1>8, <1>9, <1>12, <1>13, <1>14, <1>15 DEF IInv

-----------------------------------------------------------------------------
(* The invariant holds, and what follows from it.                          *)

LEMMA ServeKeeps ==
  ASSUME IInv, NEW r \in Request, Serve(r)
  PROVE  IInv'
<1>0. Typed /\ Placed /\ RunsAreUnderWay
  BY DEF IInv
<1>1. ASSUME Works(r), KeepsRun(r) PROVE RunsOn(r)
  <2>1. r \in Sends
    BY <1>1 DEF Works
  <2>2. RunIsUnderWay(r)
    BY <1>0, <2>1 DEF RunsAreUnderWay
  <2>3. QED
    BY <1>0, <1>1, <2>1, <2>2, KeepingRunsOn
<1>2. CASE \/ LoadMemory(r) \/ DescribeImages(r) \/ UseApi(r) \/ UseSearch(r)
           \/ AskGemini(r) \/ AskOpenAICompatible(r) \/ StoreFile(r) \/ CreatePart(r)
           \/ ActivateAtOnce(r)
  BY <1>0, <1>1, <1>2, QuietWork, WorkKeeps
<1>3. CASE \/ Refill(r) \/ SaveInbound(r) \/ TransferToHuman(r) \/ SaveReply(r) \/ SaveMemory(r)
           \/ SaveState(r)
  BY <1>0, <1>1, <1>3, WritingWork, WorkKeeps
<1>4. CASE SaveContext(r)
  BY <1>0, <1>1, <1>4, ContextWork, WorkKeeps
<1>5. CASE StartRun(r) \/ FailRun(r) \/ CompleteRun(r)
  BY <1>0, <1>5, RunWork, WorkKeeps
<1>6. CASE \/ TakeIdentityLock(r) \/ FindIdentity(r) \/ Register(r) \/ FindConversation(r)
           \/ CreateConversation(r) \/ ReleaseIdentityLock(r) \/ LoadContext(r) \/ LoadState(r)
           \/ Configure(r)
  BY <1>6, TakeIdentityLockKeeps, FindIdentityKeeps, FindConversationKeeps, CreateConversationKeeps,
     ReleaseIdentityLockKeeps, ReadingKeeps, ConfigureKeeps
<1>7. CASE TakeChatLock(r) \/ ReleaseChatLock(r)
  BY <1>7, TakeChatLockKeeps, ReleaseChatLockKeeps
<1>8. CASE ListConversations(r) \/ WipeMemory(r) \/ WipeLock(r) \/ DeleteConversations(r)
  BY <1>8, ListConversationsKeeps, WipeMemoryKeeps, WipeLockKeeps, DeleteConversationsKeeps
<1>9. QED
  BY <1>2, <1>3, <1>4, <1>5, <1>6, <1>7, <1>8 DEF Serve

LEMMA InitInv ==
  ASSUME Init
  PROVE  IInv
<1>1. /\ identity = FALSE /\ conversations = <<>> /\ identityLock = None /\ chatLock = <<>>
      /\ run = [r \in Sends |-> [round \in Rounds |-> "none"]]
      /\ req = [r \in Request |-> Idle] /\ alone = {} /\ expiries = 0 /\ faults = 0
  BY DEF Init
<1>2. Typed
  <2>1. conversations \in Seq(Conversation) /\ chatLock \in Seq(Sends \cup {None})
        /\ Len(chatLock) = Len(conversations)
    BY <1>1
  <2>2. req \in [Request -> Local]
    BY <1>1, IdleIsLocal
  <2>3. run \in [Sends -> [Rounds -> {"none", "running", "success", "failed"}]]
    BY <1>1
  <2>4. QED
    BY <1>1, <2>1, <2>2, <2>3 DEF Typed
<1>3. \A r \in Sends \cup Clears :
        /\ req[r].pc = "idle" /\ req[r].conversation = 0 /\ req[r].taught = {}
        /\ req[r].found = {} /\ req[r].todo = <<>>
  BY <1>1 DEF Idle, Request
<1>4. Len(conversations) = 0 /\ DOMAIN conversations = {}
  BY <1>1
<1>5. Placed
  <2>1. ASSUME NEW r \in Clears PROVE ClearIsPlaced(r)
    BY <1>3, <2>1, EmptyTodo DEF ClearIsPlaced, Own
  <2>2. ASSUME NEW r \in Sends PROVE SendIsPlaced(r)
    <3>1. req[r].pc = "idle" /\ Own(r) = 0 /\ req[r].taught = {}
      BY <1>3 DEF Own
    <3>2. Own(r) <= Len(conversations)
      BY <1>4, <3>1
    <3>3. \A round \in Rounds : run[r][round] = "none"
      BY <1>1
    <3>4. "idle" \in Unplaced /\ "idle" \notin Clearing
      BY DEF Unplaced, Clearing
    <3>5. QED
      BY <3>1, <3>2, <3>3, <3>4 DEF SendIsPlaced, At
  <2>3. QED
    BY <2>1, <2>2 DEF Placed
<1>6. RunsAreUnderWay
  BY <1>1 DEF RunsAreUnderWay, RunIsUnderWay
<1>7. Inside = {} /\ Creating = {} /\ OpenOnes = {}
  BY <1>3, <1>4 DEF Inside, HoldsIdentity, Creating, At, OpenOnes
<1>8. SessionsAreCounted
  <2>1. Cardinality({}) = 0
    BY FS_EmptySet
  <2>2. One(identityLock \notin Inside) \in 0..1
    BY DEF One
  <2>3. QED
    BY <1>1, <1>7, <2>1, <2>2 DEF SessionsAreCounted
<1>9. AnswersAreCounted
  BY <1>7 DEF AnswersAreCounted
<1>10. AloneAreAlone /\ ContextIsCurrent
  BY <1>1 DEF AloneAreAlone, ContextIsCurrent
<1>11. ContextSurvives
  BY <1>3 DEF ContextSurvives
<1>12. QED
  BY <1>2, <1>5, <1>6, <1>8, <1>9, <1>10, <1>11 DEF IInv

LEMMA NextInv ==
  ASSUME IInv, [Next]_vars
  PROVE  IInv'
<1>1. ASSUME NEW r \in Request, BeginSend(r) \/ BeginClear(r)
      PROVE  IInv'
  BY <1>1, BeginKeeps
<1>2. ASSUME NEW r \in Request, Serve(r)
      PROVE  IInv'
  BY <1>2, ServeKeeps
<1>3. ASSUME NEW r \in Request, CallFails(r)
      PROVE  IInv'
  <2>1. r \in Sends \/ r \in Clears
    BY DEF Request
  <2>2. QED
    BY <1>3, <2>1, SendFailsKeeps, ClearFailsKeeps
<1>4. CASE IdentityLockExpires \/ Crash
  BY <1>4, IdentityLockExpiresKeeps, CrashKeeps
<1>5. ASSUME NEW c \in DOMAIN conversations, ChatLockExpires(c) \/ MemoryExpires(c)
      PROVE  IInv'
  BY <1>5, ChatLockExpiresKeeps, MemoryExpiresKeeps
<1>6. CASE Finished \/ UNCHANGED vars
  BY <1>6, StutterKeeps DEF Finished
<1>7. QED
  BY <1>1, <1>2, <1>3, <1>4, <1>5, <1>6 DEF Next

\* The invariant of the test chat: who is where, and how many may be inside.
THEOREM ChatInductive == Spec => []IInv
<1>1. Init => IInv
  BY InitInv
<1>2. IInv /\ [Next]_vars => IInv'
  BY NextInv
<1>3. QED
  BY <1>1, <1>2, PTL DEF Spec

LEMMA AnswersAreFew ==
  ASSUME IInv
  PROVE  OneAnswerPerConversation
<1>0. Typed /\ AnswersAreCounted
  BY DEF IInv
<1>1. SUFFICES ASSUME NEW c \in DOMAIN conversations, Open(c), ~BeingCleared(c)
               PROVE  Cardinality(Answering(c)) <= 1 + expiries + faults
  BY DEF OneAnswerPerConversation
<1>2. Wipers(c) = {}
  BY <1>1 DEF BeingCleared, Wipers
<1>3. Cardinality(Wipers(c)) = 0
  BY <1>2, FS_EmptySet
<1>4. c \in OpenOnes
  BY <1>1 DEF OpenOnes
<1>5. Cardinality(Answering(c)) + One(chatLock[c] \notin Answering(c))
        <= 1 + expiries + faults + Cardinality(Wipers(c))
  BY <1>0, <1>4 DEF AnswersAreCounted
<1>6. One(chatLock[c] \notin Answering(c)) \in 0..1
  BY DEF One
<1>7. QED
  BY <1>0, <1>3, <1>5, <1>6, Counts

LEMMA SessionsAreFew ==
  ASSUME IInv
  PROVE  SessionsAreSingle
<1>0. Typed /\ SessionsAreCounted
  BY DEF IInv
<1>1. OpenOnes = {c \in DOMAIN conversations : Open(c)}
  BY DEF OpenOnes
<1>2. Cardinality(OpenOnes) <= 1 + expiries
  BY <1>0, Counts DEF SessionsAreCounted
<1>3. QED
  BY <1>1, <1>2 DEF SessionsAreSingle

\* However often every request deletes the lease of whoever holds it, at most
\* one answers in a conversation that nobody clears, and one more for each lease
\* that ran out under its holder and each call that failed.
THEOREM OneAnswers == Spec => []OneAnswerPerConversation
<1>1. IInv => OneAnswerPerConversation
  BY AnswersAreFew
<1>2. QED
  BY <1>1, ChatInductive, PTL

\* One open conversation per external user, and one more for each lease that ran
\* out under its holder, whatever fails or crashes.
THEOREM OneSession == Spec => []SessionsAreSingle
<1>1. IInv => SessionsAreSingle
  BY SessionsAreFew
<1>2. QED
  BY <1>1, ChatInductive, PTL

\* What tools have found out survives as long as no request ran beside another.
THEOREM ContextIsKept == Spec => []ContextSurvives
<1>1. IInv => ContextSurvives
  BY DEF IInv
<1>2. QED
  BY <1>1, ChatInductive, PTL

-----------------------------------------------------------------------------
(* Sequences that follow one another: the memory and the messages.         *)

\* The elements of s are elements of m, in the order of m.
Follows(s, m) ==
  \E f \in [1..Len(s) -> 1..Len(m)] :
    /\ \A i, j \in 1..Len(s) : i < j => f[i] < f[j]
    /\ \A i \in 1..Len(s) : s[i] = m[f[i]]

\* How many of the oldest are left out.
Surplus(s, n) == IF Len(s) <= n THEN 0 ELSE Len(s) - n

LEMMA NewestIs ==
  ASSUME NEW S, NEW s \in Seq(S), NEW n \in Nat \ {0}
  PROVE  /\ Surplus(s, n) \in 0..Len(s) /\ Len(s) \in Nat
         /\ Len(s) - Surplus(s, n) <= n
         /\ Len(Newest(s, n)) = Len(s) - Surplus(s, n)
         /\ Newest(s, n) \in Seq(S)
         /\ \A i \in 1..Len(s) - Surplus(s, n) : Newest(s, n)[i] = s[Surplus(s, n) + i]
<1>1. CASE Len(s) <= n
  BY <1>1 DEF Newest, Surplus
<1>2. CASE ~(Len(s) <= n)
  <2> DEFINE m == Len(s) - n + 1
  <2>1. m \in 1..Len(s) /\ Len(s) \in Nat /\ Surplus(s, n) = m - 1 /\ Len(s) - m + 1 = n
        /\ Len(s) - Surplus(s, n) = n /\ m \in Int /\ Len(s) \in Int
    BY <1>2 DEF Surplus
  <2>2. \A i \in m..Len(s) : s[i] \in S
    BY <2>1
  <2>3. Newest(s, n) = SubSeq(s, m, Len(s))
    BY <1>2 DEF Newest
  <2> HIDE DEF m
  <2>4. /\ SubSeq(s, m, Len(s)) \in Seq(S)
        /\ Len(SubSeq(s, m, Len(s))) = Len(s) - m + 1
        /\ \A i \in 1..Len(s) - m + 1 : SubSeq(s, m, Len(s))[i] = s[m + i - 1]
    BY <2>1, <2>2, SubSeqProperties
  <2>5. \A i \in 1..n : m + i - 1 = (m - 1) + i
    BY <2>1
  <2>6. QED
    BY <2>1, <2>3, <2>4, <2>5
<1>3. QED
  BY <1>1, <1>2

LEMMA FollowsNothing ==
  ASSUME NEW S, NEW m \in Seq(S)
  PROVE  Follows(<<>>, m)
<1>1. [i \in {} |-> 0] \in [1..Len(<<>>) -> 1..Len(m)] /\ 1..Len(<<>>) = {}
  OBVIOUS
<1>2. QED
  BY <1>1 DEF Follows

LEMMA FollowsItself ==
  ASSUME NEW S, NEW m \in Seq(S)
  PROVE  Follows(m, m)
<1>1. [i \in 1..Len(m) |-> i] \in [1..Len(m) -> 1..Len(m)]
  OBVIOUS
<1>2. QED
  BY <1>1 DEF Follows

\* More is said after it.
LEMMA FollowsOn ==
  ASSUME NEW S, NEW s \in Seq(S), NEW m \in Seq(S), NEW x \in S, Follows(s, m)
  PROVE  Follows(s, Append(m, x))
<1>1. PICK f \in [1..Len(s) -> 1..Len(m)] :
             /\ \A i, j \in 1..Len(s) : i < j => f[i] < f[j]
             /\ \A i \in 1..Len(s) : s[i] = m[f[i]]
  BY DEF Follows
<1>2. Len(Append(m, x)) = Len(m) + 1 /\ \A i \in 1..Len(m) : Append(m, x)[i] = m[i]
  BY AppendProperties
<1>3. f \in [1..Len(s) -> 1..Len(Append(m, x))]
  BY <1>2
<1>4. \A i \in 1..Len(s) : s[i] = Append(m, x)[f[i]]
  BY <1>1, <1>2
<1>5. QED
  BY <1>1, <1>3, <1>4 DEF Follows

\* The same is said in both.
LEMMA FollowsTogether ==
  ASSUME NEW S, NEW s \in Seq(S), NEW m \in Seq(S), NEW x \in S, Follows(s, m)
  PROVE  Follows(Append(s, x), Append(m, x))
<1>1. PICK f \in [1..Len(s) -> 1..Len(m)] :
             /\ \A i, j \in 1..Len(s) : i < j => f[i] < f[j]
             /\ \A i \in 1..Len(s) : s[i] = m[f[i]]
  BY DEF Follows
<1> DEFINE a == Append(s, x)
           b == Append(m, x)
           g == [i \in 1..Len(s) + 1 |-> IF i <= Len(s) THEN f[i] ELSE Len(m) + 1]
<1>2. /\ Len(a) = Len(s) + 1 /\ Len(b) = Len(m) + 1
      /\ \A i \in 1..Len(m) : b[i] = m[i]
      /\ \A i \in 1..Len(s) : a[i] = s[i]
      /\ a[Len(s) + 1] = x /\ b[Len(m) + 1] = x
  BY AppendProperties
<1>3. Len(s) \in Nat /\ Len(m) \in Nat
  OBVIOUS
<1>4. \A i \in 1..Len(s) + 1 : (i <= Len(s) /\ i \in 1..Len(s)) \/ i = Len(s) + 1
  BY <1>3
<1>5. /\ \A i \in 1..Len(s) : g[i] = f[i] /\ g[i] \in 1..Len(m)
      /\ g[Len(s) + 1] = Len(m) + 1
  BY <1>3
<1> HIDE DEF a, b
<1>6. g \in [1..Len(a) -> 1..Len(b)]
  BY <1>2, <1>3, <1>4, <1>5
<1> HIDE DEF g
<1>7. ASSUME NEW i \in 1..Len(a), NEW j \in 1..Len(a), i < j PROVE g[i] < g[j]
  <2>1. i \in 1..Len(s)
    BY <1>2, <1>3, <1>7
  <2>2. CASE j \in 1..Len(s)
    BY <1>1, <1>5, <1>7, <2>1, <2>2
  <2>3. CASE j = Len(s) + 1
    BY <1>3, <1>5, <2>1, <2>3
  <2>4. QED
    BY <1>2, <1>4, <2>2, <2>3
<1>8. ASSUME NEW i \in 1..Len(a) PROVE a[i] = b[g[i]]
  BY <1>1, <1>2, <1>4, <1>5
<1>9. QED
  BY <1>6, <1>7, <1>8 DEF Follows, a, b

\* One of a sequence that follows, less.
LEMMA FollowsLess ==
  ASSUME NEW S, NEW s \in Seq(S), NEW m \in Seq(S), NEW x \in S, Follows(Append(s, x), m)
  PROVE  Follows(s, m)
<1>1. /\ Len(Append(s, x)) = Len(s) + 1 /\ Len(s) \in Nat
      /\ \A i \in 1..Len(s) : Append(s, x)[i] = s[i]
  BY AppendProperties
<1>2. PICK f \in [1..Len(s) + 1 -> 1..Len(m)] :
             /\ \A i, j \in 1..Len(s) + 1 : i < j => f[i] < f[j]
             /\ \A i \in 1..Len(s) + 1 : Append(s, x)[i] = m[f[i]]
  BY <1>1 DEF Follows
<1> DEFINE g == [i \in 1..Len(s) |-> f[i]]
<1>3. \A i \in 1..Len(s) : i \in 1..Len(s) + 1 /\ g[i] = f[i]
  BY <1>1
<1>4. g \in [1..Len(s) -> 1..Len(m)]
  BY <1>3
<1> HIDE DEF g
<1>5. ASSUME NEW i \in 1..Len(s), NEW j \in 1..Len(s), i < j PROVE g[i] < g[j]
  BY <1>2, <1>3, <1>5
<1>6. ASSUME NEW i \in 1..Len(s) PROVE s[i] = m[g[i]]
  BY <1>1, <1>2, <1>3
<1>7. QED
  BY <1>4, <1>5, <1>6 DEF Follows

LEMMA FollowsNewest ==
  ASSUME NEW S, NEW s \in Seq(S), NEW m \in Seq(S), NEW n \in Nat \ {0}, Follows(s, m)
  PROVE  Follows(Newest(s, n), m)
<1>1. PICK f \in [1..Len(s) -> 1..Len(m)] :
             /\ \A i, j \in 1..Len(s) : i < j => f[i] < f[j]
             /\ \A i \in 1..Len(s) : s[i] = m[f[i]]
  BY DEF Follows
<1> DEFINE k == Surplus(s, n)
           t == Newest(s, n)
<1>2. /\ k \in 0..Len(s) /\ Len(s) \in Nat
      /\ Len(t) = Len(s) - k
      /\ \A i \in 1..Len(s) - k : t[i] = s[k + i]
  BY NewestIs
<1> HIDE DEF k, t
<1>3. \A i \in 1..Len(t) : k + i \in 1..Len(s)
  BY <1>2
<1> DEFINE g == [i \in 1..Len(t) |-> f[k + i]]
<1>4. g \in [1..Len(t) -> 1..Len(m)] /\ \A i \in 1..Len(t) : g[i] = f[k + i]
  BY <1>3
<1> HIDE DEF g
<1>5. ASSUME NEW i \in 1..Len(t), NEW j \in 1..Len(t), i < j PROVE g[i] < g[j]
  <2>1. k + i < k + j /\ k + i \in 1..Len(s) /\ k + j \in 1..Len(s)
    BY <1>2, <1>3, <1>5
  <2>2. QED
    BY <1>1, <1>4, <2>1
<1>6. \A i \in 1..Len(t) : t[i] = m[g[i]]
  BY <1>1, <1>2, <1>3, <1>4
<1>7. QED
  BY <1>4, <1>5, <1>6 DEF Follows, t

\* What is said before the newest n stays before them.
LEMMA NewestOfMore ==
  ASSUME NEW S, NEW m \in Seq(S), NEW x \in S, NEW n \in Nat \ {0}
  PROVE  Range(Newest(Append(m, x), n)) \subseteq Range(Newest(m, n)) \cup {x}
<1> DEFINE b == Append(m, x)
           k == Surplus(m, n)
           l == Surplus(b, n)
           t == Newest(m, n)
           u == Newest(b, n)
<1>1. /\ b \in Seq(S) /\ Len(b) = Len(m) + 1 /\ \A i \in 1..Len(m) : b[i] = m[i]
      /\ b[Len(m) + 1] = x /\ Len(m) \in Nat
  BY AppendProperties
<1>2. k \in 0..Len(m) /\ Len(t) = Len(m) - k /\ \A i \in 1..Len(m) - k : t[i] = m[k + i]
  BY NewestIs
<1>3. l \in 0..Len(b) /\ Len(u) = Len(b) - l /\ \A i \in 1..Len(b) - l : u[i] = b[l + i]
  BY <1>1, NewestIs
<1>4. t \in Seq(S) /\ u \in Seq(S)
  BY <1>1, NewestIs
<1>5. k <= l
  BY <1>1 DEF Surplus
<1> HIDE DEF b, k, l, t, u
<1>6. ASSUME NEW y \in Range(u) PROVE y \in Range(t) \cup {x}
  <2>1. PICK i \in 1..Len(u) : y = u[i]
    BY <1>4, <1>6 DEF Range
  <2>2. l + i \in 1..Len(m) + 1 /\ y = b[l + i]
    <3>1. l \in Nat /\ l <= Len(m) + 1 /\ Len(u) = Len(m) + 1 - l
      BY <1>1, <1>3
    <3>2. i \in Nat /\ 1 <= i /\ i <= Len(m) + 1 - l
      BY <1>1, <2>1, <3>1
    <3>3. y = b[l + i]
      BY <1>1, <1>3, <2>1, <3>1, <3>2
    <3>4. l + i \in 1..Len(m) + 1
      BY <1>1, <3>1, <3>2
    <3>5. QED
      BY <3>3, <3>4
  <2>3. CASE l + i = Len(m) + 1
    BY <1>1, <2>2, <2>3
  <2>4. CASE l + i # Len(m) + 1
    <3>1. l + i \in 1..Len(m)
      BY <1>1, <2>2, <2>4
    <3>2. l + i - k \in 1..Len(t) /\ k + (l + i - k) = l + i
      BY <1>1, <1>2, <1>3, <1>5, <2>1, <3>1
    <3>3. y = t[l + i - k]
      BY <1>1, <1>2, <2>2, <3>1, <3>2
    <3>4. QED
      BY <1>4, <3>2, <3>3 DEF Range
  <2>5. QED
    BY <2>3, <2>4
<1>7. QED
  BY <1>6 DEF b, t, u

\* Whoever keeps the newest n of a sequence that follows keeps all of it that is
\* among the newest n of the other.
LEMMA NewestSuffice ==
  ASSUME NEW S, NEW s \in Seq(S), NEW m \in Seq(S), NEW n \in Nat \ {0},
         Follows(s, m), IsInjective(m), NEW x \in Range(s), x \in Range(Newest(m, n))
  PROVE  x \in Range(Newest(s, n))
<1>1. PICK f \in [1..Len(s) -> 1..Len(m)] :
             /\ \A i, j \in 1..Len(s) : i < j => f[i] < f[j]
             /\ \A i \in 1..Len(s) : s[i] = m[f[i]]
  BY DEF Follows
<1> DEFINE k == Surplus(s, n)
           l == Surplus(m, n)
           t == Newest(s, n)
           u == Newest(m, n)
<1>2. /\ k \in 0..Len(s) /\ Len(s) \in Nat /\ Len(t) = Len(s) - k /\ t \in Seq(S)
      /\ \A i \in 1..Len(s) - k : t[i] = s[k + i]
  BY NewestIs
<1>3. /\ l \in 0..Len(m) /\ Len(m) \in Nat /\ Len(u) = Len(m) - l /\ u \in Seq(S)
      /\ \A i \in 1..Len(m) - l : u[i] = m[l + i]
      /\ Len(m) - l <= n
  BY NewestIs
<1>4. k = 0 \/ k = Len(s) - n
  BY DEF Surplus
<1> HIDE DEF k, l, t, u
<1>5. PICK i \in 1..Len(s) : x = s[i]
  BY DEF Range
<1>6. x \in Range(u)
  BY DEF u
<1>7. PICK j \in 1..Len(u) : x = u[j]
  BY <1>3, <1>6 DEF Range
<1>8. f[i] = l + j
  <2>1. x = m[f[i]] /\ f[i] \in 1..Len(m)
    BY <1>1, <1>5
  <2>2. x = m[l + j] /\ l + j \in 1..Len(m)
    BY <1>3, <1>7
  <2>3. DOMAIN m = 1..Len(m)
    OBVIOUS
  <2>4. QED
    BY <2>1, <2>2, <2>3 DEF IsInjective
<1>9. i > k
  <2>1. SUFFICES ASSUME i <= k PROVE FALSE
    BY <1>2
  <2>2. k = Len(s) - n /\ Len(s) - i >= n /\ i \in Int /\ Len(s) \in Int
    BY <1>2, <1>4, <1>5, <2>1
  <2> DEFINE A == i..Len(s)
             B == f[i]..Len(m)
             g == [p \in A |-> f[p]]
  <2>3. f[i] \in 1..Len(m)
    BY <1>1
  <2>4. ASSUME NEW p \in A PROVE f[p] \in B
    <3>1. p \in 1..Len(s) /\ (p = i \/ i < p)
      BY <1>2
    <3>2. f[p] \in 1..Len(m) /\ f[i] <= f[p]
      BY <1>1, <2>3, <3>1
    <3>3. QED
      BY <2>3, <3>2
  <2>5. g \in [A -> B]
    BY <2>4
  <2>6. ASSUME NEW p \in A, NEW q \in A, f[p] = f[q] PROVE p = q
    <3>1. p \in 1..Len(s) /\ q \in 1..Len(s)
      BY <1>2
    <3>2. f[p] \in Nat /\ f[q] \in Nat
      BY <3>1
    <3>3. ~(p < q) /\ ~(q < p)
      BY <1>1, <2>6, <3>1, <3>2
    <3>4. QED
      BY <3>1, <3>3
  <2>7. g \in Injection(A, B)
    BY <2>5, <2>6 DEF Injection, IsInjective
  <2>8. f[i] \in Int /\ Len(m) \in Int /\ ~(f[i] > Len(m))
    BY <1>3, <2>3
  <2>9. IsFiniteSet(B)
    BY <2>8, FS_Interval
  <2>10. Cardinality(A) <= Cardinality(B)
    BY <2>7, <2>9, FS_Injection
  <2>11. Cardinality(A) = Len(s) - i + 1
    BY <1>2, <2>2, FS_Interval
  <2>12. Cardinality(B) = Len(m) - f[i] + 1
    BY <2>8, FS_Interval
  <2>13. Len(m) - f[i] + 1 <= n
    BY <1>3, <1>7, <1>8
  <2> HIDE DEF A, B
  <2>14. QED
    BY <2>2, <2>3, <2>8, <2>10, <2>11, <2>12, <2>13
<1>10. i - k \in 1..Len(t) /\ k + (i - k) = i
  BY <1>2, <1>9
<1>11. x = t[i - k]
  BY <1>2, <1>5, <1>10
<1>12. QED
  BY <1>2, <1>10, <1>11 DEF Range, t

\* Where positions are unique, what follows keeps their order.
LEMMA OrderFollows ==
  ASSUME NEW S, NEW s \in Seq(S), NEW m \in Seq(S), Follows(s, m), IsInjective(m)
  PROVE  /\ Range(s) \subseteq Range(m)
         /\ \A i, j \in DOMAIN s :
              i < j => (CHOOSE k \in DOMAIN m : m[k] = s[i]) < (CHOOSE k \in DOMAIN m : m[k] = s[j])
<1>1. PICK f \in [1..Len(s) -> 1..Len(m)] :
             /\ \A i, j \in 1..Len(s) : i < j => f[i] < f[j]
             /\ \A i \in 1..Len(s) : s[i] = m[f[i]]
  BY DEF Follows
<1>2. DOMAIN s = 1..Len(s) /\ DOMAIN m = 1..Len(m)
  OBVIOUS
<1>3. Range(s) \subseteq Range(m)
  BY <1>1, <1>2 DEF Range
<1>4. ASSUME NEW i \in DOMAIN s PROVE (CHOOSE k \in DOMAIN m : m[k] = s[i]) = f[i]
  <2>1. f[i] \in DOMAIN m /\ m[f[i]] = s[i]
    BY <1>1, <1>2
  <2>2. \A k \in DOMAIN m : m[k] = s[i] => k = f[i]
    BY <2>1 DEF IsInjective
  <2>3. QED
    BY <2>1, <2>2
<1>5. \A i, j \in DOMAIN s : i < j => f[i] < f[j]
  BY <1>1, <1>2
<1>6. QED
  BY <1>3, <1>4, <1>5

-----------------------------------------------------------------------------
(* The test chat: the memory.                                              *)

\* Where a request stands with what is said: it has not read the history, or has
\* it, has asked, has answered, has saved the exchange, or is over.
Silent == {"idle", "memory"} \cup Before \cup Clearing
HasHistory == {"refill", "inbound"}
HasAsked == {"run", "describe", "ask", "give up", "file", "part", "reply"}
HasAnswered == {"complete", "remember"}
HasSaved == {"context back", "state back", "immediate"}
Over == {"release", "done"}

Messages(c) == conversations[c].messages

Memory(c) == conversations[c].memory

\* The messages of r there may be by now.
MaySay(r, role) ==
  \/ req[r].pc \in Over
  \/ role = "user" /\ req[r].pc \in HasAsked \cup HasAnswered \cup HasSaved
  \/ role = req[r].round /\ req[r].pc \in HasAnswered \cup HasSaved
  \/ role = "first" /\ req[r].round = "second"

MessagesAreOwn(c) ==
  /\ \A m \in Range(Messages(c)) : m[1] \in Sends /\ Own(m[1]) = c /\ MaySay(m[1], m[2])
  /\ IsInjective(Messages(c))

MemoryFollows(c) == Open(c) => Follows(Memory(c), Messages(c))

\* The history with the question, and the answer.
WithQuestion(r) == Append(req[r].history, <<r, "user">>)
WithAnswer(r) == Append(WithQuestion(r), <<r, req[r].round>>)

HistoryFollows(r) ==
  Open(Own(r)) =>
    /\ req[r].pc \in HasHistory => Follows(req[r].history, Messages(Own(r)))
    /\ req[r].pc \in HasAsked \cup HasSaved => Follows(WithQuestion(r), Messages(Own(r)))
    /\ req[r].pc \in HasAnswered => Follows(WithAnswer(r), Messages(Own(r)))

RoundIsKnown(r) ==
  /\ At(r, "immediate") => req[r].round = "first"
  /\ At(r, "give up") => req[r].failed
  /\ At(r, "remember") /\ req[r].round = "second" => run[r].second = "success"
  /\ run[r].second = "success" =>
       \/ req[r].pc \in Over
       \/ req[r].round = "second" /\ req[r].pc \in {"remember"} \cup HasSaved

\* Nothing has gone wrong in the conversation, and nobody is about to delete it.
Clean(c) == Open(c) /\ expiries = 0 /\ faults = 0 /\ ~BeingCleared(c)

Window(c) == Range(Remembered(Messages(c)))

\* Those the memory may miss.
Excused(m) == req[m[1]].failed \/ (m[2] = "first" /\ run[m[1]].second = "success")

\* The requests that have yet to save what they say.
Unsaved(c) == {r \in Sends : Own(r) = c /\ req[r].pc \in Locked \ HasSaved}

MemoryIsWhole(c) ==
  Memory(c) # <<>> =>
    \A m \in Window(c) \ Range(Memory(c)) : m[1] \in Unsaved(c) \/ Excused(m)

HistoryIsWhole(r) ==
  req[r].pc \in HasHistory \cup HasAsked \cup HasAnswered \cup HasSaved =>
    \A m \in Window(Own(r)) \ Range(req[r].history) : m[1] = r \/ Excused(m)

Said(r, round) == <<r, round>> \in Range(Messages(Own(r)))

\* A reply stands in the conversation if the run of its round succeeded, and
\* nearly only then: a failure, or the next step of the request, is in between.
IsTold(r, round) ==
  Open(Own(r)) =>
    /\ run[r][round] = "success" => Said(r, round)
    /\ Said(r, round) =>
         \/ run[r][round] = "success"
         \/ faults > 0
         \/ At(r, "complete") /\ round = req[r].round

MemoryInv ==
  /\ \A c \in DOMAIN conversations : MessagesAreOwn(c) /\ MemoryFollows(c)
  /\ \A r \in Sends : HistoryFollows(r) /\ RoundIsKnown(r)
  /\ \A c \in DOMAIN conversations : Clean(c) =>
       /\ MemoryIsWhole(c)
       /\ \A r \in Sends : Own(r) = c => HistoryIsWhole(r)
  /\ \A r \in Sends, round \in Rounds : IsTold(r, round)

-----------------------------------------------------------------------------
(* Steps that say nothing and write no memory.                             *)

\* Request q stays where it is, or moves without anything being said.
Calm(q) ==
  \/ req'[q] = req[q]
  \/ /\ req[q].failed => req'[q].failed
     /\ \/ /\ req'[q].pc \in Over /\ req'[q].conversation = Own(q)
           /\ req[q].pc \in Locked \ HasSaved => req'[q].failed
        \/ /\ req[q].pc \in Silent \ {"memory"} /\ req'[q].pc \in Silent
           /\ req'[q].round = req[q].round
           /\ Own(q) # 0 => req'[q].conversation = Own(q)
        \/ /\ \E S \in {HasHistory, HasAsked, HasAnswered, HasSaved} :
                req[q].pc \in S /\ req'[q].pc \in S
           /\ req'[q].round = req[q].round /\ req'[q].history = req[q].history
           /\ req'[q].conversation = Own(q)
        \/ /\ req[q].pc \in HasSaved /\ req'[q].pc \in HasAsked
           /\ req[q].round = "first" /\ req'[q].round = "second"
           /\ req'[q].history = req[q].history /\ req'[q].conversation = Own(q)

\* Messages and memories stay or are deleted, and new conversations have none.
CalmRows ==
  /\ \A c \in DOMAIN conversations :
       /\ c \in DOMAIN conversations'
       /\ Messages(c)' = Messages(c) \/ Messages(c)' = <<>>
       /\ Memory(c)' = Memory(c) \/ Memory(c)' = <<>>
       /\ Open(c)' => Open(c) /\ Messages(c)' = Messages(c)
  /\ \A c \in DOMAIN conversations' : c \notin DOMAIN conversations =>
       /\ Messages(c)' = <<>> /\ Memory(c)' = <<>>
       /\ \A q \in Sends : req'[q].conversation = c => req'[q].pc \in Silent

\* What a step of q writes to its runs agrees with what is said, and the run of
\* a reply just stored is written next, unless something fails.
RunTells(q) ==
  /\ \A round \in Rounds :
       /\ run'[q][round] = "success" =>
            \/ run[q][round] = "success"
            \/ At(q, "complete") /\ (Open(Own(q)) => Said(q, round))
       /\ run[q][round] = "success" => run'[q][round] = "success" \/ ~Said(q, round)
  /\ At(q, "complete") =>
       req'[q] = req[q] \/ faults' > 0 \/ run'[q][req[q].round] = "success"

LEMMA RowSequences ==
  ASSUME Typed
  PROVE  /\ DOMAIN conversations = 1..Len(conversations) /\ Len(conversations) \in Nat
         /\ \A c \in DOMAIN conversations : Messages(c) \in Seq(Message) /\ Memory(c) \in Seq(Message)
         /\ \A r \in Request : req[r].history \in Seq(Message) /\ Own(r) \in Nat
BY RowTypes DEF Typed, Conversation, Local, Messages, Memory, Own

LEMMA NothingSaid ==
  /\ Range(<<>>) = {} /\ IsInjective(<<>>) /\ Remembered(<<>>) = <<>>
<1>1. Range(<<>>) = {} /\ IsInjective(<<>>)
  BY DEF Range, IsInjective
<1>2. Remembered(<<>>) = <<>>
  BY TestChatAssumption DEF Remembered, Newest
<1>3. QED
  BY <1>1, <1>2

LEMMA StandingTells ==
  ASSUME NEW q, run'[q] = run[q], req'[q] = req[q] \/ ~At(q, "complete") \/ faults' > 0
  PROVE  RunTells(q)
BY DEF RunTells

LEMMA CalmTells ==
  ASSUME Typed, Typed', Placed, MemoryInv, CalmRows, faults <= faults',
         \A q \in Sends : Calm(q) /\ RunTells(q)
  PROVE  \A q \in Sends, round \in Rounds : IsTold(q, round)'
<1>1. SUFFICES ASSUME NEW q \in Sends, NEW round \in Rounds, NEW c, c = req'[q].conversation,
                      Open(c)'
               PROVE  /\ run'[q][round] = "success" => <<q, round>> \in Range(Messages(c)')
                      /\ <<q, round>> \in Range(Messages(c)') =>
                           \/ run'[q][round] = "success"
                           \/ faults' > 0
                           \/ req'[q].pc = "complete" /\ round = req'[q].round
  <2>1. SUFFICES ASSUME NEW q \in Sends, NEW round \in Rounds PROVE IsTold(q, round)'
    OBVIOUS
  <2>2. PICK c : c = req'[q].conversation
    OBVIOUS
  <2>3. /\ Open(Own(q))' <=> Open(c)'
        /\ Said(q, round)' <=> <<q, round>> \in Range(Messages(c)')
    BY <2>2 DEF Open, Own, Said, Messages
  <2>4. QED
    BY <1>1, <2>2, <2>3 DEF IsTold, At
<1>2. /\ SendIsPlaced(q) /\ Own(q) \in Nat /\ Len(conversations) \in Nat
      /\ DOMAIN conversations = 1..Len(conversations)
      /\ Calm(q) /\ faults \in Nat /\ faults' \in Nat
  BY RowTypes DEF Placed, Typed, Local, Own, Request
<1>3. RunTells(q)
  OBVIOUS
<1>4. CASE Own(q) # 0
  <2>1. c = Own(q) /\ c \in DOMAIN conversations
    <3>1. c = Own(q)
      <4>1. CASE req'[q] = req[q]
        BY <1>1, <4>1 DEF Own
      <4>2. CASE req'[q] # req[q]
        <5>1. Calm(q)
          BY <1>2
        <5>2. req'[q].conversation = Own(q)
          BY <1>4, <4>2, <5>1 DEF Calm
        <5>3. QED
          BY <1>1, <5>2
      <4>3. QED
        BY <4>1, <4>2
    <3>2. Own(q) <= Len(conversations)
      BY <1>2 DEF SendIsPlaced
    <3>3. Own(q) \in 1..Len(conversations)
      BY <1>2, <1>4, <3>2
    <3>4. QED
      BY <1>2, <3>1, <3>3
  <2>2. Open(c) /\ Messages(c)' = Messages(c)
    BY <1>1, <2>1 DEF CalmRows
  <2>3. IsTold(q, round)
    BY <1>1 DEF MemoryInv
  <2>4. /\ run[q][round] = "success" => Said(q, round)
        /\ Said(q, round) =>
             \/ run[q][round] = "success"
             \/ faults > 0
             \/ At(q, "complete") /\ round = req[q].round
        /\ Said(q, round) <=> <<q, round>> \in Range(Messages(c)')
    BY <2>1, <2>2, <2>3 DEF IsTold, Said
  <2>5. run'[q][round] = "success" => Said(q, round)
    BY <1>1, <1>3, <2>1, <2>2, <2>4 DEF RunTells
  <2>6. ASSUME Said(q, round)
        PROVE  \/ run'[q][round] = "success"
               \/ faults' > 0
               \/ req'[q].pc = "complete" /\ round = req'[q].round
    <3>1. CASE run[q][round] = "success"
      BY <1>1, <1>3, <2>6, <3>1 DEF RunTells
    <3>2. CASE faults > 0
      BY <1>2, <3>2
    <3>3. CASE At(q, "complete") /\ round = req[q].round
      <4>1. req'[q] = req[q] \/ faults' > 0 \/ run'[q][req[q].round] = "success"
        BY <1>3, <3>3 DEF RunTells
      <4>2. CASE req'[q] = req[q]
        BY <3>3, <4>2 DEF At
      <4>3. CASE run'[q][req[q].round] = "success"
        BY <3>3, <4>3
      <4>4. QED
        BY <4>1, <4>2, <4>3
    <3>4. QED
      BY <2>4, <2>6, <3>1, <3>2, <3>3
  <2>7. QED
    BY <2>4, <2>5, <2>6
<1>5. CASE Own(q) = 0
  <2>1. run[q][round] = "none" /\ ~At(q, "complete")
    BY <1>1, <1>2, <1>5 DEF SendIsPlaced, At, Unplaced, Identifying, Clearing
  <2>2. run'[q][round] # "success"
    BY <1>1, <1>3, <2>1 DEF RunTells
  <2>3. <<q, round>> \notin Range(Messages(c)')
    <3>1. CASE c \in DOMAIN conversations
      <4>1. Messages(c)' = Messages(c) /\ MessagesAreOwn(c) /\ c # 0
        BY <1>1, <1>2, <3>1 DEF CalmRows, MemoryInv
      <4>2. QED
        BY <1>5, <4>1 DEF MessagesAreOwn
    <3>2. CASE c \notin DOMAIN conversations
      <4>1. c \in DOMAIN conversations'
        BY <1>1 DEF Open
      <4>2. Messages(c)' = <<>>
        BY <3>2, <4>1 DEF CalmRows
      <4>3. QED
        BY <4>2, NothingSaid
    <3>3. QED
      BY <3>1, <3>2
  <2>4. QED
    BY <2>2, <2>3
<1>6. QED
  BY <1>4, <1>5

LEMMA CalmKeeps ==
  ASSUME Typed, Typed', Placed, MemoryInv, \A q \in Request : Calm(q), CalmRows,
         faults <= faults', \A q \in Sends : RunTells(q),
         \A q \in Sends : run[q].second = "success" => run'[q].second = "success",
         \A q \in Sends : RoundIsKnown(q)',
         \A c \in DOMAIN conversations : Clean(c)' => Clean(c)
  PROVE  MemoryInv'
<1> USE DEF Silent, HasHistory, HasAsked, HasAnswered, HasSaved, Over, Before, Clearing
<1>1. Sends \subseteq Request
  BY DEF Request
<1>2. /\ \A c \in DOMAIN conversations : c \in Nat \ {0}
      /\ DOMAIN conversations' = 1..Len(conversations')
  <2>1. DOMAIN conversations = 1..Len(conversations) /\ Len(conversations) \in Nat
    BY RowSequences
  <2>2. DOMAIN conversations' = 1..Len(conversations')
    BY DEF Typed
  <2>3. QED
    BY <2>1, <2>2
<1>3. ASSUME NEW c \in DOMAIN conversations' PROVE MessagesAreOwn(c)'
  <2>1. CASE Messages(c)' = <<>>
    BY <2>1, NothingSaid DEF MessagesAreOwn
  <2>2. CASE Messages(c)' # <<>>
    <3>1. c \in DOMAIN conversations /\ Messages(c)' = Messages(c) /\ MessagesAreOwn(c) /\ c # 0
      BY <1>2, <2>2 DEF CalmRows, MemoryInv
    <3>2. ASSUME NEW m \in Range(Messages(c)) PROVE m[1] \in Sends /\ Own(m[1])' = c /\ MaySay(m[1], m[2])'
      <4>1. m[1] \in Sends /\ Own(m[1]) = c /\ MaySay(m[1], m[2]) /\ Calm(m[1])
        BY <1>1, <3>1 DEF MessagesAreOwn
      <4> HIDE DEF HasHistory, HasAsked, HasAnswered, HasSaved, Over, Before, Clearing, Silent
      <4>2. PICK q : q = m[1]
        OBVIOUS
      <4>3. q \in Sends /\ Own(q) = c /\ MaySay(q, m[2]) /\ Calm(q)
        BY <4>1, <4>2
      <4>4. Own(q)' = c
        BY <3>1, <4>3 DEF Calm, Own
      <4>5. SUFFICES MaySay(q, m[2])'
        BY <4>2, <4>4, <4>3
      <4>6. CASE req'[q] = req[q]
        BY <4>3, <4>6 DEF MaySay
      <4>7. CASE req'[q].pc \in Over
        BY <4>7 DEF MaySay
      <4>8. CASE /\ req[q].pc \in Silent \ {"memory"}
                 /\ req'[q].round = req[q].round
        <5>1. req[q].pc \notin HasAsked \cup HasAnswered \cup HasSaved \cup Over
          BY <4>8 DEF Silent, HasAsked, HasAnswered, HasSaved, Over, Before, Clearing
        <5>2. QED
          BY <4>3, <4>8, <5>1 DEF MaySay
      <4>9. CASE /\ \E S \in {HasHistory, HasAsked, HasAnswered, HasSaved} :
                      req[q].pc \in S /\ req'[q].pc \in S
                 /\ req'[q].round = req[q].round
        <5>1. req[q].pc \notin Over
          BY <4>9 DEF HasHistory, HasAsked, HasAnswered, HasSaved, Over
        <5>2. req[q].pc \in HasHistory => req[q].pc \notin HasAsked \cup HasAnswered \cup HasSaved
          BY DEF HasHistory, HasAsked, HasAnswered, HasSaved
        <5>3. req[q].pc \in HasAsked => req[q].pc \notin HasAnswered \cup HasSaved
          BY DEF HasAsked, HasAnswered, HasSaved
        <5>4. QED
          BY <4>3, <4>9, <5>1, <5>2, <5>3 DEF MaySay
      <4>10. CASE /\ req[q].pc \in HasSaved /\ req'[q].pc \in HasAsked
                 /\ req[q].round = "first" /\ req'[q].round = "second"
        <5>1. req[q].pc \notin Over
          BY <4>10 DEF HasSaved, Over
        <5>2. QED
          BY <4>3, <4>10, <5>1 DEF MaySay
      <4>11. QED
        BY <4>3, <4>6, <4>7, <4>8, <4>9, <4>10 DEF Calm
    <3>3. QED
      BY <3>1, <3>2 DEF MessagesAreOwn
  <2>3. QED
    BY <2>1, <2>2
<1>4. ASSUME NEW c \in DOMAIN conversations' PROVE MemoryFollows(c)'
  <2>1. SUFFICES ASSUME Open(c)' PROVE Follows(Memory(c)', Messages(c)')
    BY DEF MemoryFollows
  <2>2. Messages(c)' \in Seq(Message)
    <3>1. conversations'[c] \in Conversation
      BY <1>4 DEF Typed
    <3>2. QED
      BY <3>1 DEF Conversation, Messages
  <2>3. CASE Memory(c)' = <<>>
    BY <2>2, <2>3, FollowsNothing
  <2>4. CASE Memory(c)' # <<>>
    <3>1. c \in DOMAIN conversations /\ Open(c) /\ Messages(c)' = Messages(c)
          /\ Memory(c)' = Memory(c)
      BY <2>1, <2>4 DEF CalmRows
    <3>2. QED
      BY <3>1 DEF MemoryInv, MemoryFollows
  <2>5. QED
    BY <2>3, <2>4
\* Where a request that is under way in a conversation comes from.
<1>5. ASSUME NEW q \in Sends, req'[q].pc \notin Silent, req'[q].pc \notin Over
      PROVE  /\ req'[q].conversation = Own(q) /\ req'[q].history = req[q].history
             /\ \/ /\ req'[q].round = req[q].round
                   /\ \E S \in {HasHistory, HasAsked, HasAnswered, HasSaved} :
                        req[q].pc \in S /\ req'[q].pc \in S
                \/ /\ req[q].pc \in HasSaved /\ req'[q].pc \in HasAsked
  <2>1. Calm(q) /\ req'[q].pc \in PCs
    BY <1>1 DEF Typed, Local
  <2>2. req'[q].pc \in HasHistory \cup HasAsked \cup HasAnswered \cup HasSaved
    BY <1>5, <2>1 DEF PCs, Locked
  <2> HIDE DEF HasHistory, HasAsked, HasAnswered, HasSaved, Over, Before, Clearing, Silent
  <2>3. QED
    BY <1>5, <2>1, <2>2 DEF Calm, Own
<1>6. ASSUME NEW q \in Sends PROVE HistoryFollows(q)'
  <2>1. SUFFICES ASSUME Open(Own(q))', req'[q].pc \notin Silent, req'[q].pc \notin Over
                 PROVE  HistoryFollows(q)'
    BY DEF HistoryFollows
  <2>2. PICK c : c = req'[q].conversation
    OBVIOUS
  <2>3. c = Own(q) /\ c \in DOMAIN conversations'
    BY <1>5, <2>1, <2>2 DEF Open, Own
  <2>4. c \in DOMAIN conversations
    BY <2>1, <2>2, <2>3 DEF CalmRows
  <2>5. Open(c) /\ Messages(c)' = Messages(c)
    BY <2>1, <2>2, <2>4 DEF CalmRows, Own
  <2>6. HistoryFollows(q)
    BY DEF MemoryInv
  <2>7. /\ req[q].pc \in HasHistory => Follows(req[q].history, Messages(c))
        /\ req[q].pc \in HasAsked \cup HasSaved => Follows(WithQuestion(q), Messages(c))
        /\ req[q].pc \in HasAnswered => Follows(WithAnswer(q), Messages(c))
    BY <2>3, <2>5, <2>6 DEF HistoryFollows
  <2>8. Messages(Own(q))' = Messages(c)
    BY <2>2, <2>5 DEF Own, Messages
  <2>9. WithQuestion(q)' = WithQuestion(q)
        /\ (req'[q].round = req[q].round => WithAnswer(q)' = WithAnswer(q))
    BY <1>5, <2>1 DEF WithQuestion, WithAnswer
  <2>10. /\ HasHistory \cap (HasAsked \cup HasAnswered \cup HasSaved) = {}
         /\ HasAsked \cap (HasAnswered \cup HasSaved) = {}
         /\ HasAnswered \cap HasSaved = {}
    OBVIOUS
  <2> HIDE DEF HasHistory, HasAsked, HasAnswered, HasSaved, Over, Before, Clearing, Silent
  <2>11. CASE req[q].pc \in HasSaved /\ req'[q].pc \in HasAsked
    BY <2>7, <2>8, <2>9, <2>10, <2>11 DEF HistoryFollows
  <2>12. CASE /\ req'[q].round = req[q].round
              /\ \E S \in {HasHistory, HasAsked, HasAnswered, HasSaved} :
                        req[q].pc \in S /\ req'[q].pc \in S
    <3>1. /\ req'[q].pc \in HasHistory => req[q].pc \in HasHistory
          /\ req'[q].pc \in HasAsked \cup HasSaved => req[q].pc \in HasAsked \cup HasSaved
          /\ req'[q].pc \in HasAnswered => req[q].pc \in HasAnswered
      BY <2>10, <2>12
    <3>2. QED
      BY <1>5, <2>1, <2>7, <2>8, <2>9, <2>12, <3>1 DEF HistoryFollows
  <2>13. QED
    BY <1>5, <2>1, <2>11, <2>12
<1>7. ASSUME NEW m, m[1] \in Sends, Excused(m) PROVE Excused(m)'
  BY <1>1, <1>7 DEF Excused, Calm
<1>8. ASSUME NEW c \in DOMAIN conversations', Clean(c)', c \in DOMAIN conversations
      PROVE  /\ Clean(c) /\ Window(c)' = Window(c)
             /\ \A m \in Window(c) : m[1] \in Sends /\ Own(m[1]) = c
  <2>1. Clean(c) /\ Messages(c)' = Messages(c)
    BY <1>8 DEF Clean, CalmRows
  <2>2. Messages(c) \in Seq(Message)
    BY <1>8, RowSequences
  <2>3. Window(c) \subseteq Range(Messages(c))
    <3>1. MemoryLimit \in Nat \ {0}
      BY TestChatAssumption
    <3>2. Follows(Remembered(Messages(c)), Messages(c)) /\ Remembered(Messages(c)) \in Seq(Message)
      BY <2>2, <3>1, FollowsItself, FollowsNewest, RememberedType DEF Remembered
    <3>3. IsInjective(Messages(c))
      BY <1>8 DEF MemoryInv, MessagesAreOwn
    <3>4. QED
      BY <2>2, <3>2, <3>3, OrderFollows DEF Window
  <2>4. QED
    BY <1>8, <2>1, <2>3 DEF MemoryInv, MessagesAreOwn, Window
<1>9. ASSUME NEW c \in DOMAIN conversations', Clean(c)' PROVE MemoryIsWhole(c)'
  <2>1. SUFFICES ASSUME Memory(c)' # <<>>, NEW m \in Window(c)', m \notin Range(Memory(c)')
                 PROVE  m[1] \in Unsaved(c)' \/ Excused(m)'
    BY DEF MemoryIsWhole
  <2>2. c \in DOMAIN conversations /\ Memory(c)' = Memory(c)
    BY <2>1 DEF CalmRows
  <2>3. Clean(c) /\ m \in Window(c) /\ m[1] \in Sends /\ Own(m[1]) = c /\ c # 0
    BY <1>2, <1>8, <1>9, <2>1, <2>2
  <2>4. m[1] \in Unsaved(c) \/ Excused(m)
    BY <2>1, <2>2, <2>3 DEF MemoryInv, MemoryIsWhole
  <2>5. CASE Excused(m)
    BY <1>7, <2>3, <2>5
  <2>6. CASE m[1] \in Unsaved(c)
    <3>1. PICK q : q = m[1]
      OBVIOUS
    <3>2. Calm(q) /\ q \in Sends /\ Own(q) = c /\ req[q].pc \in Locked \ HasSaved
      BY <1>1, <2>3, <2>6, <3>1 DEF Unsaved
    <3>3. req[q].pc \notin Silent \ {"memory"}
      BY <3>2 DEF Locked
    <3>4. \A S \in {HasHistory, HasAsked, HasAnswered, HasSaved} :
            req[q].pc \in S /\ req'[q].pc \in S => req'[q].pc \in Locked \ HasSaved
      BY <3>2 DEF Locked
    <3> HIDE DEF HasHistory, HasAsked, HasAnswered, HasSaved, Over, Before, Clearing, Silent
    <3>5. req'[q].failed \/ (req'[q].conversation = c /\ req'[q].pc \in Locked \ HasSaved)
      BY <3>2, <3>3, <3>4 DEF Calm, Own
    <3>6. QED
      BY <3>1, <3>2, <3>5 DEF Excused, Unsaved, Own
  <2>7. QED
    BY <2>4, <2>5, <2>6
<1>10. ASSUME NEW c \in DOMAIN conversations', Clean(c)', NEW q \in Sends, Own(q)' = c
      PROVE  HistoryIsWhole(q)'
  <2>1. SUFFICES ASSUME req'[q].pc \notin Silent, req'[q].pc \notin Over,
                        NEW m \in Window(c)', m \notin Range(req'[q].history)
                 PROVE  m[1] = q \/ Excused(m)'
    BY <1>10 DEF HistoryIsWhole, Window, Own
  <2>2. Own(q) = c /\ req'[q].history = req[q].history
    BY <1>5, <1>10, <2>1 DEF Own
  <2>3. c \in DOMAIN conversations
    BY <1>10, <2>1 DEF CalmRows, Own
  <2>4. req[q].pc \in HasHistory \cup HasAsked \cup HasAnswered \cup HasSaved
    BY <1>5, <2>1
  <2>5. Clean(c) /\ m \in Window(c) /\ m[1] \in Sends
    BY <1>8, <1>10, <2>1, <2>3
  <2>6. HistoryIsWhole(q)
    BY <2>2, <2>3, <2>5 DEF MemoryInv
  <2>7. m[1] = q \/ Excused(m)
    BY <2>1, <2>2, <2>4, <2>5, <2>6 DEF HistoryIsWhole
  <2>8. QED
    BY <1>7, <2>5, <2>7
<1>11. \A q \in Sends, round \in Rounds : IsTold(q, round)'
  BY <1>1, CalmTells
<1>12. QED
  BY <1>3, <1>4, <1>6, <1>9, <1>10, <1>11 DEF MemoryInv

-----------------------------------------------------------------------------
(* Steps of a request in its own conversation.                             *)

RowsKept(c) ==
  /\ DOMAIN conversations' = DOMAIN conversations
  /\ \A d \in DOMAIN conversations : d # c => conversations'[d] = conversations[d]
  /\ conversations'[c].deleted = conversations[c].deleted

LEMMA RangeOfAppend ==
  ASSUME NEW S, NEW s \in Seq(S), NEW x \in S
  PROVE  Range(Append(s, x)) = Range(s) \cup {x}
<1>1. /\ Append(s, x) \in Seq(S) /\ Len(Append(s, x)) = Len(s) + 1 /\ Len(s) \in Nat
      /\ \A i \in 1..Len(s) : Append(s, x)[i] = s[i]
      /\ Append(s, x)[Len(s) + 1] = x
  BY AppendProperties
<1>2. DOMAIN s = 1..Len(s) /\ DOMAIN Append(s, x) = 1..(Len(s) + 1)
  BY <1>1
<1>3. \A i : i \in 1..(Len(s) + 1) <=> i \in 1..Len(s) \/ i = Len(s) + 1
  BY <1>1
<1>4. QED
  BY <1>1, <1>2, <1>3 DEF Range

LEMMA MemoryWritten ==
  ASSUME Typed, NEW c \in DOMAIN conversations, NEW m \in Seq(Message),
         conversations' = [conversations EXCEPT ![c].memory = m]
  PROVE  RowsKept(c) /\ Messages(c)' = Messages(c) /\ Memory(c)' = m
<1>1. conversations[c] \in Conversation
  BY DEF Typed
<1>2. /\ DOMAIN conversations' = DOMAIN conversations
      /\ \A d \in DOMAIN conversations : d # c => conversations'[d] = conversations[d]
      /\ conversations'[c] = [conversations[c] EXCEPT !.memory = m]
  BY DEF Typed
<1>3. QED
  BY <1>1, <1>2 DEF RowsKept, Messages, Memory, Conversation

LEMMA MessageWritten ==
  ASSUME Typed, NEW c \in DOMAIN conversations, NEW m \in Message,
         conversations' = [conversations EXCEPT ![c].messages = Append(@, m)]
  PROVE  RowsKept(c) /\ Messages(c)' = Append(Messages(c), m) /\ Memory(c)' = Memory(c)
<1>1. conversations[c] \in Conversation
  BY DEF Typed
<1>2. /\ DOMAIN conversations' = DOMAIN conversations
      /\ \A d \in DOMAIN conversations : d # c => conversations'[d] = conversations[d]
      /\ conversations'[c] = [conversations[c] EXCEPT !.messages = Append(@, m)]
  BY DEF Typed
<1>3. QED
  BY <1>1, <1>2 DEF RowsKept, Messages, Memory, Conversation

\* A request that has yet to save its exchange goes on, and may say something.
OwnStep(r) ==
  /\ Own(r) \in DOMAIN conversations /\ RowsKept(Own(r))
  /\ Alone(r) /\ req'[r].conversation = Own(r) /\ (req[r].failed => req'[r].failed)
  /\ req[r].pc \in Locked \ HasSaved /\ ~At(r, "complete") /\ req'[r].pc \in Locked
  /\ UNCHANGED <<run, counters>>
  /\ \A role \in Roles : MaySay(r, role) => MaySay(r, role)'
  /\ \/ Messages(Own(r))' = Messages(Own(r))
     \/ \E role \in Roles : /\ Messages(Own(r))' = Append(Messages(Own(r)), <<r, role>>)
                            /\ ~MaySay(r, role) /\ MaySay(r, role)'
                            /\ role \in Rounds => At(r, "complete")' /\ role = req'[r].round

LEMMA WindowIsOwn ==
  ASSUME Typed, NEW c \in DOMAIN conversations, MessagesAreOwn(c), NEW m \in Window(c)
  PROVE  m \in Range(Messages(c)) /\ m \in Message /\ m[1] \in Sends /\ Own(m[1]) = c
<1>1. Messages(c) \in Seq(Message)
  BY RowSequences
<1>2. MemoryLimit \in Nat \ {0}
  BY TestChatAssumption
<1>3. Follows(Remembered(Messages(c)), Messages(c)) /\ Remembered(Messages(c)) \in Seq(Message)
  BY <1>1, <1>2, FollowsItself, FollowsNewest, RememberedType DEF Remembered
<1>4. m \in Range(Messages(c))
  BY <1>1, <1>3, OrderFollows DEF Window, MessagesAreOwn
<1>5. m \in Message
  BY <1>1, <1>4 DEF Range
<1>6. QED
  BY <1>4, <1>5 DEF MessagesAreOwn

\* What such a step leaves out of nobody's memory.
LEMMA StaysWhole ==
  ASSUME Typed, MemoryInv, NEW r \in Sends, OwnStep(r), NEW c, c = Own(r), Clean(c)
  PROVE  /\ \A m \in Window(c)' : m \in Window(c) \/ m[1] = r
         /\ \A m : m[1] \in Sends /\ Excused(m) => Excused(m)'
         /\ Memory(c)' = Memory(c) /\ req'[r].pc \notin HasSaved => MemoryIsWhole(c)'
         /\ /\ req'[r].history = req[r].history
            /\ req[r].pc \in HasHistory \cup HasAsked \cup HasAnswered
            => HistoryIsWhole(r)'
<1>1. Sends \subseteq Request /\ c \in DOMAIN conversations /\ Own(r)' = c
  BY DEF Request, OwnStep, Own
<1>2. Messages(c) \in Seq(Message) /\ MessagesAreOwn(c)
  BY <1>1, RowSequences DEF MemoryInv
<1>3. ASSUME NEW m \in Window(c)' PROVE m \in Window(c) \/ m[1] = r
  <2>1. CASE Messages(c)' = Messages(c)
    BY <1>3, <2>1 DEF Window
  <2>2. CASE Messages(c)' # Messages(c)
    <3>1. PICK role \in Roles : Messages(c)' = Append(Messages(c), <<r, role>>)
      BY <1>1, <2>2 DEF OwnStep
    <3>2. <<r, role>> \in Message /\ MemoryLimit \in Nat \ {0}
      BY <1>1, TestChatAssumption DEF Message
    <3>3. m \in Range(Remembered(Messages(c))) \cup {<<r, role>>}
      BY <1>3, <1>2, <3>1, <3>2, NewestOfMore DEF Window, Remembered
    <3>4. QED
      BY <3>3 DEF Window
  <2>3. QED
    BY <2>1, <2>2
<1>4. ASSUME NEW m, m[1] \in Sends, Excused(m) PROVE Excused(m)'
  <2>1. req[m[1]].failed => req'[m[1]].failed
    BY <1>1, <1>4 DEF OwnStep, Alone
  <2>2. QED
    BY <1>4, <2>1 DEF Excused, OwnStep
<1>5. ASSUME NEW q, q \in Unsaved(c), req'[r].pc \notin HasSaved PROVE q \in Unsaved(c)'
  BY <1>1, <1>5 DEF Unsaved, OwnStep, Alone, Own
<1>6. ASSUME Memory(c)' = Memory(c), req'[r].pc \notin HasSaved PROVE MemoryIsWhole(c)'
  <2>1. SUFFICES ASSUME Memory(c) # <<>>, NEW m \in Window(c)', m \notin Range(Memory(c))
                 PROVE  m[1] \in Unsaved(c)' \/ Excused(m)'
    BY <1>6 DEF MemoryIsWhole
  <2>2. r \in Unsaved(c)
    BY DEF Unsaved, OwnStep
  <2>3. CASE m[1] = r
    BY <1>5, <1>6, <2>2, <2>3
  <2>4. CASE m[1] # r
    <3>1. m \in Window(c) /\ MemoryIsWhole(c)
      BY <1>3, <1>1, <2>1, <2>4 DEF MemoryInv
    <3>2. m[1] \in Sends
      BY <1>2, <1>1, <3>1, WindowIsOwn
    <3>3. m[1] \in Unsaved(c) \/ Excused(m)
      BY <2>1, <3>1 DEF MemoryIsWhole
    <3>4. QED
      BY <1>4, <1>5, <1>6, <3>2, <3>3
  <2>5. QED
    BY <2>3, <2>4
<1>7. ASSUME req'[r].history = req[r].history,
             req[r].pc \in HasHistory \cup HasAsked \cup HasAnswered
      PROVE  HistoryIsWhole(r)'
  <2>1. SUFFICES ASSUME NEW m \in Window(c)', m \notin Range(req[r].history), m[1] # r
                 PROVE  Excused(m)'
    BY <1>7, <1>1 DEF HistoryIsWhole, Window
  <2>2. m \in Window(c) /\ HistoryIsWhole(r)
    BY <1>3, <1>1, <2>1 DEF MemoryInv
  <2>3. m[1] \in Sends
    BY <1>2, <1>1, <2>2, WindowIsOwn
  <2>4. QED
    BY <1>4, <1>7, <2>1, <2>2, <2>3 DEF HistoryIsWhole
<1>8. QED
  BY <1>3, <1>4, <1>6, <1>7

\* Two requests do not answer at once where nothing has gone wrong.
LEMMA OnlyOneAnswers ==
  ASSUME IInv, NEW c \in DOMAIN conversations, Clean(c),
         NEW q \in Answering(c), NEW r \in Answering(c)
  PROVE  q = r
<1>1. OneAnswerPerConversation
  BY AnswersAreFew
<1>2. Cardinality(Answering(c)) <= 1
  BY <1>1 DEF OneAnswerPerConversation, Clean
<1>3. IsFiniteSet(Answering(c))
  <2>1. Answering(c) \subseteq Request
    BY DEF Answering, Request
  <2>2. IsFiniteSet(Request)
    BY TestChatAssumption
  <2>3. QED
    BY <2>1, <2>2, FS_Subset
<1>4. SUFFICES ASSUME q # r PROVE FALSE
  OBVIOUS
<1>5. {q, r} \subseteq Answering(c)
  OBVIOUS
<1>6. Cardinality({q, r}) = 2
  <2>1. Cardinality({q}) = 1 /\ IsFiniteSet({q})
    BY FS_Singleton
  <2>2. Cardinality({q} \cup {r}) = Cardinality({q}) + 1
    BY <1>4, <2>1, FS_AddElement
  <2>3. {q} \cup {r} = {q, r}
    OBVIOUS
  <2>4. QED
    BY <2>1, <2>2, <2>3
<1>7. Cardinality({q, r}) <= Cardinality(Answering(c)) /\ Cardinality(Answering(c)) \in Nat
  BY <1>3, <1>5, FS_Subset, FS_CardinalityType
<1>8. QED
  BY <1>2, <1>6, <1>7

LEMMA OwnKeeps ==
  ASSUME IInv, Typed', MemoryInv, NEW r \in Sends, OwnStep(r), NEW c, c = Own(r),
         MemoryFollows(c)', HistoryFollows(r)', RoundIsKnown(r)',
         Clean(c) => MemoryIsWhole(c)' /\ HistoryIsWhole(r)'
  PROVE  MemoryInv'
<1>1. Typed
  BY DEF IInv
<1>2. /\ Sends \subseteq Request /\ c \in DOMAIN conversations /\ Own(r)' = c
      /\ DOMAIN conversations' = DOMAIN conversations
      /\ \A q \in Sends : q # r => req'[q] = req[q]
  BY DEF Request, OwnStep, Own, RowsKept, Alone
<1>3. Messages(c) \in Seq(Message) /\ MessagesAreOwn(c)
  BY <1>1, <1>2, RowSequences DEF MemoryInv
<1>4. \A d \in DOMAIN conversations : d # c =>
        Messages(d)' = Messages(d) /\ Memory(d)' = Memory(d) /\ (Open(d)' <=> Open(d))
  BY <1>2 DEF OwnStep, RowsKept, Messages, Memory, Open
<1>5. Open(c)' <=> Open(c)
  BY <1>2 DEF OwnStep, RowsKept, Open
<1>6. Messages(c)' = Messages(c) \/
      \E role \in Roles : /\ Messages(c)' = Append(Messages(c), <<r, role>>)
                          /\ <<r, role>> \in Message
                          /\ ~MaySay(r, role) /\ MaySay(r, role)'
  BY <1>2 DEF OwnStep, Message
<1>7. ASSUME NEW s \in Seq(Message), Follows(s, Messages(c)) PROVE Follows(s, Messages(c)')
  BY <1>6, <1>7, <1>3, FollowsOn
<1>8. ASSUME NEW d \in DOMAIN conversations PROVE MessagesAreOwn(d)'
  <2>1. MessagesAreOwn(d)
    BY DEF MemoryInv
  <2>2. ASSUME NEW m, m[1] \in Sends, Own(m[1]) = d, m[2] \in Roles, MaySay(m[1], m[2])
        PROVE  Own(m[1])' = d /\ MaySay(m[1], m[2])'
    <3>1. CASE m[1] = r
      BY <1>2, <2>2, <3>1 DEF OwnStep
    <3>2. CASE m[1] # r
      BY <1>2, <2>2, <3>2 DEF Own, MaySay
    <3>3. QED
      BY <3>1, <3>2
  <2>3. Messages(d) \in Seq(Message)
    BY <1>1, RowSequences
  <2>4. ASSUME NEW m \in Range(Messages(d))
        PROVE  m[1] \in Sends /\ Own(m[1])' = d /\ MaySay(m[1], m[2])'
    <3>1. m \in Message
      BY <2>3 DEF Range
    <3>2. QED
      BY <2>1, <2>2, <3>1 DEF MessagesAreOwn, Message
  <2>5. CASE Messages(d)' = Messages(d)
    BY <2>1, <2>4, <2>5 DEF MessagesAreOwn
  <2>6. CASE Messages(d)' # Messages(d)
    <3>1. d = c
      BY <1>4, <2>6
    <3>2. PICK role \in Roles : /\ Messages(c)' = Append(Messages(c), <<r, role>>)
                                /\ <<r, role>> \in Message
                                /\ ~MaySay(r, role) /\ MaySay(r, role)'
      BY <1>6, <2>6, <3>1
    <3> DEFINE a == Messages(c)
               b == Append(a, <<r, role>>)
    <3>3. /\ b \in Seq(Message) /\ Len(b) = Len(a) + 1 /\ Len(a) \in Nat
          /\ \A i \in 1..Len(a) : b[i] = a[i]
          /\ b[Len(a) + 1] = <<r, role>>
      BY <1>3, <3>2, AppendProperties
    <3>4. <<r, role>> \notin Range(a)
      BY <1>3, <3>2 DEF MessagesAreOwn
    <3>5. \A i \in 1..Len(a) : a[i] \in Range(a)
      BY <1>3 DEF Range
    <3>6. IsInjective(a) /\ DOMAIN a = 1..Len(a)
      BY <1>3 DEF MessagesAreOwn
    <3> HIDE DEF a, b
    <3>7. ASSUME NEW i \in 1..Len(b), NEW j \in 1..Len(b), b[i] = b[j] PROVE i = j
      <4>1. \A k \in 1..Len(b) : k \in 1..Len(a) \/ k = Len(a) + 1
        BY <3>3
      <4>2. CASE i \in 1..Len(a) /\ j \in 1..Len(a)
        BY <3>3, <3>6, <3>7, <4>2 DEF IsInjective
      <4>3. CASE i \in 1..Len(a) /\ j = Len(a) + 1
        BY <3>3, <3>4, <3>5, <3>7, <4>3
      <4>4. CASE j \in 1..Len(a) /\ i = Len(a) + 1
        BY <3>3, <3>4, <3>5, <3>7, <4>4
      <4>5. QED
        BY <4>1, <4>2, <4>3, <4>4
    <3>8. IsInjective(b)
      BY <3>3, <3>7 DEF IsInjective
    <3>9. ASSUME NEW m \in Range(b) PROVE m \in Range(a) \/ m = <<r, role>>
      <4>1. PICK i \in 1..Len(b) : m = b[i]
        BY <3>3, <3>9 DEF Range
      <4>2. i \in 1..Len(a) \/ i = Len(a) + 1
        BY <3>3
      <4>3. QED
        BY <3>3, <3>5, <4>1, <4>2
    <3>10. ASSUME NEW m \in Range(b)
           PROVE  m[1] \in Sends /\ Own(m[1])' = c /\ MaySay(m[1], m[2])'
      <4>1. CASE m = <<r, role>>
        BY <1>2, <3>2, <4>1
      <4>2. CASE m # <<r, role>>
        BY <2>4, <3>1, <3>9, <3>10, <4>2 DEF a
      <4>3. QED
        BY <4>1, <4>2
    <3>11. Messages(d)' = b
      BY <3>1, <3>2 DEF a, b
    <3>12. QED
      BY <3>1, <3>8, <3>10, <3>11 DEF MessagesAreOwn
  <2>7. QED
    BY <2>5, <2>6
<1>9. ASSUME NEW d \in DOMAIN conversations PROVE MemoryFollows(d)'
  <2>1. CASE d = c
    BY <2>1
  <2>2. CASE d # c
    BY <1>4, <2>2 DEF MemoryInv, MemoryFollows
  <2>3. QED
    BY <2>1, <2>2
<1>10. ASSUME NEW q \in Sends PROVE HistoryFollows(q)' /\ RoundIsKnown(q)'
  <2>1. CASE q = r
    BY <2>1
  <2>2. CASE q # r
    <3>1. req'[q] = req[q] /\ HistoryFollows(q) /\ RoundIsKnown(q)
      BY <1>2, <2>2 DEF MemoryInv
    <3>2. RoundIsKnown(q)'
      BY <3>1 DEF RoundIsKnown, At, OwnStep
    <3>3. CASE Own(q) # c
      <4>1. Open(Own(q))' => Open(Own(q)) /\ Messages(Own(q))' = Messages(Own(q))
        BY <1>4, <1>2, <3>1, <3>3 DEF Own, Open, Messages
      <4>2. QED
        BY <3>1, <3>2, <4>1 DEF HistoryFollows, WithQuestion, WithAnswer
    <3>4. CASE Own(q) = c
      <4>1. req[q].history \in Seq(Message) /\ <<q, "user">> \in Message /\ <<q, req[q].round>> \in Message
        BY <1>2, <1>1, RowSequences DEF Message, Roles, Typed, Local, Rounds
      <4>2. WithQuestion(q) \in Seq(Message) /\ WithAnswer(q) \in Seq(Message)
        BY <4>1, AppendProperties DEF WithQuestion, WithAnswer
      <4>3. WithQuestion(q)' = WithQuestion(q) /\ WithAnswer(q)' = WithAnswer(q)
            /\ Own(q)' = c
        BY <3>1, <3>4 DEF WithQuestion, WithAnswer, Own
      <4>4. Messages(Own(q))' = Messages(c)' /\ (Open(Own(q))' <=> Open(c)')
        BY <4>3
      <4>5. QED
        BY <1>7, <1>5, <3>1, <3>2, <3>4, <4>1, <4>2, <4>3, <4>4 DEF HistoryFollows
    <3>5. QED
      BY <3>3, <3>4
  <2>3. QED
    BY <2>1, <2>2
<1>11. ASSUME NEW d \in DOMAIN conversations, Clean(d)' PROVE Clean(d)
  <2>1. \A q \in Clears : req'[q] = req[q]
    BY <1>2, TestChatAssumption DEF OwnStep, Alone, Request
  <2>2. BeingCleared(d) => BeingCleared(d)'
    BY <2>1 DEF BeingCleared, UnderWay
  <2>3. Open(d)' => Open(d)
    BY <1>4, <1>5
  <2>4. QED
    BY <1>11, <2>2, <2>3 DEF Clean, OwnStep, counters
<1>12. ASSUME NEW d \in DOMAIN conversations, Clean(d)',
             d # c
      PROVE  MemoryIsWhole(d)' /\ \A q \in Sends : Own(q)' = d => HistoryIsWhole(q)'
  <2>1. Clean(d) /\ Messages(d)' = Messages(d) /\ Memory(d)' = Memory(d) /\ MessagesAreOwn(d)
    BY <1>11, <1>12, <1>4 DEF MemoryInv
  <2>2. Window(d)' = Window(d)
    BY <2>1 DEF Window
  <2>3. ASSUME NEW m \in Window(d) PROVE m[1] \in Sends /\ m[1] # r /\ req'[m[1]] = req[m[1]]
    BY <1>12, <1>2, <1>1, <2>1, WindowIsOwn
  <2>4. ASSUME NEW m \in Window(d) PROVE /\ Excused(m) => Excused(m)'
                                         /\ m[1] \in Unsaved(d) => m[1] \in Unsaved(d)'
    BY <2>3 DEF Excused, Unsaved, OwnStep, Own
  <2>5. MemoryIsWhole(d)'
    BY <2>1, <2>2, <2>4 DEF MemoryInv, MemoryIsWhole
  <2>6. ASSUME NEW q \in Sends, Own(q)' = d PROVE HistoryIsWhole(q)'
    <3>1. q # r /\ req'[q] = req[q] /\ Own(q) = d
      BY <1>12, <1>2, <2>6 DEF Own
    <3>2. HistoryIsWhole(q)
      BY <2>1, <3>1 DEF MemoryInv
    <3>3. Window(Own(q))' = Window(d)
      BY <2>2, <2>6
    <3>4. QED
      BY <2>4, <3>1, <3>2, <3>3 DEF HistoryIsWhole
  <2>7. QED
    BY <2>5, <2>6
<1>13. ASSUME Clean(c)' PROVE MemoryIsWhole(c)' /\ \A q \in Sends : Own(q)' = c => HistoryIsWhole(q)'
  <2>1. Clean(c)
    BY <1>11, <1>13, <1>2
  <2>2. ASSUME NEW q \in Sends, Own(q)' = c, q # r PROVE HistoryIsWhole(q)'
    <3>1. req'[q] = req[q] /\ Own(q) = c
      BY <1>2, <2>2 DEF Own
    <3>2. r \in Answering(c)
      BY DEF Answering, OwnStep
    <3>3. q \notin Answering(c)
      BY <1>2, <2>1, <2>2, <3>2, OnlyOneAnswers
    <3>4. req[q].pc \notin HasHistory \cup HasAsked \cup HasAnswered \cup HasSaved
      BY <3>1, <3>3 DEF Answering, Locked, HasHistory, HasAsked, HasAnswered, HasSaved
    <3>5. QED
      BY <3>1, <3>4 DEF HistoryIsWhole
  <2>3. QED
    BY <2>1, <2>2
<1>14. ASSUME NEW q \in Sends, NEW round \in Rounds PROVE IsTold(q, round)'
  <2>1. /\ run' = run /\ faults' = faults /\ IsTold(q, round)
        /\ Own(q)' = Own(q) /\ (q # r => req'[q] = req[q])
    <3>1. run' = run /\ faults' = faults
      BY DEF OwnStep, counters
    <3>2. IsTold(q, round)
      BY DEF MemoryInv
    <3>3. q # r => req'[q] = req[q]
      BY <1>2
    <3>4. Own(q)' = Own(q)
      BY <1>2, <3>3 DEF Own
    <3>5. QED
      BY <3>1, <3>2, <3>3, <3>4
  <2>2. PICK d : d = Own(q)
    OBVIOUS
  <2>3. /\ Open(Own(q))' <=> Open(d)'
        /\ Said(q, round)' <=> <<q, round>> \in Range(Messages(d)')
    BY <2>1, <2>2 DEF Open, Said, Messages
  <2>4. SUFFICES ASSUME Open(d)' PROVE IsTold(q, round)'
    BY <2>3 DEF IsTold
  <2>5. Open(d) /\ d \in DOMAIN conversations
    BY <1>2, <1>4, <1>5, <2>4 DEF Open
  <2>6. /\ run[q][round] = "success" => Said(q, round)
        /\ Said(q, round) =>
             \/ run[q][round] = "success"
             \/ faults > 0
             \/ At(q, "complete") /\ round = req[q].round
        /\ Said(q, round) <=> <<q, round>> \in Range(Messages(d))
    BY <2>1, <2>2, <2>5 DEF IsTold, Said
  <2>7. CASE Messages(d)' = Messages(d)
    <3>1. At(q, "complete") => q # r
      BY DEF OwnStep
    <3>2. QED
      BY <2>1, <2>3, <2>6, <2>7, <3>1 DEF IsTold, At
  <2>8. CASE Messages(d)' # Messages(d)
    <3>1. d = c
      BY <1>4, <2>5, <2>8
    <3>2. PICK role \in Roles :
            /\ Messages(c)' = Append(Messages(c), <<r, role>>)
            /\ <<r, role>> \in Message
            /\ role \in Rounds => At(r, "complete")' /\ role = req'[r].round
      BY <1>2, <2>8, <3>1 DEF OwnStep, Message
    <3>3. Range(Messages(c)') = Range(Messages(c)) \cup {<<r, role>>}
      BY <1>3, <3>2, RangeOfAppend
    <3>4. Said(q, round)' => Said(q, round) \/ (q = r /\ role = round)
      BY <2>3, <2>6, <3>1, <3>3
    <3>5. Said(q, round) => Said(q, round)'
      BY <2>3, <2>6, <3>1, <3>3
    <3>6. At(q, "complete") => q # r
      BY DEF OwnStep
    <3>7. QED
      BY <2>1, <2>6, <3>2, <3>4, <3>5, <3>6 DEF IsTold, At
  <2>9. QED
    BY <2>7, <2>8
<1>15. QED
  <2>1. \A d \in DOMAIN conversations' : MessagesAreOwn(d)' /\ MemoryFollows(d)'
    BY <1>8, <1>9, <1>2
  <2>2. \A q \in Sends : HistoryFollows(q)' /\ RoundIsKnown(q)'
    BY <1>10
  <2>3. \A d \in DOMAIN conversations' : Clean(d)' =>
          MemoryIsWhole(d)' /\ \A q \in Sends : Own(q)' = d => HistoryIsWhole(q)'
    BY <1>12, <1>13, <1>2
  <2>4. QED
    BY <1>14, <2>1, <2>2, <2>3 DEF MemoryInv

-----------------------------------------------------------------------------
(* Steps of one request.                                                   *)

\* What is left of the local variables a request takes on.
LEMMA BecomingIs ==
  ASSUME Typed, NEW r \in Request, NEW l, Becomes(r, l)
  PROVE  /\ Alone(r) /\ req'[r].pc = l.pc /\ req'[r].conversation = l.conversation
         /\ req'[r].failed = l.failed
         /\ l.pc \notin Over => req'[r] = l
<1>1. Alone(r) /\ req'[r] = Forgetful(l)
  BY DEF Becomes, Typed, Alone
<1>2. CASE l.pc \in Over
  <2>1. Forgetful(l) = [Idle EXCEPT !.pc = l.pc, !.conversation = l.conversation,
                                    !.taught = l.taught, !.files = RefusedOf(l.files),
                                    !.told = l.told, !.failed = l.failed]
    BY <1>2 DEF Forgetful, Over
  <2>2. QED
    BY <1>1, <1>2, <2>1 DEF Idle
<1>3. CASE l.pc \notin Over
  BY <1>1, <1>3 DEF Forgetful, Over
<1>4. QED
  BY <1>2, <1>3

LEMMA GotoIs ==
  ASSUME Typed, NEW r \in Request, NEW pc \in PCs, Goto(r, pc)
  PROVE  /\ Alone(r) /\ req'[r].pc = pc /\ req'[r].conversation = Own(r)
         /\ req'[r].failed = req[r].failed
         /\ pc \notin Over => req'[r].round = req[r].round /\ req'[r].history = req[r].history
<1>1. PICK l \in Local : l = [req[r] EXCEPT !.pc = pc]
  BY Going
<1>2. req[r] \in Local
  BY DEF Typed
<1>3. /\ l.pc = pc /\ l.conversation = Own(r) /\ l.failed = req[r].failed
      /\ l.round = req[r].round /\ l.history = req[r].history
  BY <1>1, <1>2 DEF Local, Own
<1>4. Becomes(r, l)
  BY <1>1 DEF Goto
<1>5. QED
  BY <1>3, <1>4, BecomingIs

LEMMA ThrowsIs ==
  ASSUME Typed, NEW r \in Request, NEW pc \in PCs, Throws(r, pc)
  PROVE  /\ Alone(r) /\ req'[r].pc = pc /\ req'[r].conversation = Own(r)
         /\ req'[r].failed
         /\ pc \notin Over => req'[r].round = req[r].round /\ req'[r].history = req[r].history
<1>1. PICK l \in Local : l = [req[r] EXCEPT !.pc = pc, !.failed = TRUE]
  BY Going
<1>2. req[r] \in Local
  BY DEF Typed
<1>3. /\ l.pc = pc /\ l.conversation = Own(r) /\ l.failed
      /\ l.round = req[r].round /\ l.history = req[r].history
  BY <1>1, <1>2 DEF Local, Own
<1>4. Becomes(r, l)
  BY <1>1 DEF Throws
<1>5. QED
  BY <1>3, <1>4, BecomingIs

LEMMA RowsStand ==
  ASSUME conversations' = conversations
  PROVE  CalmRows
BY DEF CalmRows, Messages, Memory, Open

\* The columns that are not the chat's.
LEMMA RowsStandBut ==
  ASSUME Typed, NEW c \in DOMAIN conversations,
         \/ conversations' = [conversations EXCEPT ![c].manual = TRUE]
         \/ \E a : conversations' = [conversations EXCEPT ![c].agent = a]
         \/ \E x : conversations' = [conversations EXCEPT ![c].context = x]
         \/ conversations' = [conversations EXCEPT ![c].memory = <<>>]
  PROVE  CalmRows
<1>1. conversations[c] \in Conversation
  BY DEF Typed
<1>2. /\ DOMAIN conversations' = DOMAIN conversations
      /\ \A d \in DOMAIN conversations : d # c => conversations'[d] = conversations[d]
  BY DEF Typed
<1>3. /\ conversations'[c].messages = conversations[c].messages
      /\ conversations'[c].deleted = conversations[c].deleted
      /\ conversations'[c].memory = conversations[c].memory \/ conversations'[c].memory = <<>>
  <2>1. CASE conversations' = [conversations EXCEPT ![c].manual = TRUE]
    BY <1>1, <2>1 DEF Conversation
  <2>2. CASE \E a : conversations' = [conversations EXCEPT ![c].agent = a]
    BY <1>1, <2>2 DEF Conversation
  <2>3. CASE \E x : conversations' = [conversations EXCEPT ![c].context = x]
    BY <1>1, <2>3 DEF Conversation
  <2>4. CASE conversations' = [conversations EXCEPT ![c].memory = <<>>]
    BY <1>1, <2>4 DEF Conversation
  <2>5. QED
    BY <2>1, <2>2, <2>3, <2>4
<1>4. QED
  BY <1>2, <1>3 DEF CalmRows, Messages, Memory, Open

\* A message goes on calmly.
LEMMA CalmSend ==
  ASSUME IInv, IInv', MemoryInv, NEW r \in Sends, Alone(r), Calm(r), CalmRows, RoundIsKnown(r)',
         RunTells(r),
         \A q \in Sends : q # r => run'[q] = run[q],
         run[r].second = "success" => run'[r].second = "success",
         expiries' = expiries, faults <= faults'
  PROVE  MemoryInv'
<1>1. Typed /\ Typed' /\ Placed /\ Sends \cap Clears = {} /\ Request = Sends \cup Clears
  BY TestChatAssumption DEF IInv, Request
<1>2. \A q \in Request : q # r => req'[q] = req[q]
  BY DEF Alone
<1>3. \A q \in Request : Calm(q)
  BY <1>2 DEF Calm
<1>4. \A q \in Sends : RoundIsKnown(q)'
  <2>1. SUFFICES ASSUME NEW q \in Sends, q # r PROVE RoundIsKnown(q)'
    OBVIOUS
  <2>2. RoundIsKnown(q) /\ req'[q] = req[q] /\ run'[q] = run[q]
    BY <1>1, <1>2, <2>1 DEF MemoryInv
  <2>3. QED
    BY <2>2 DEF RoundIsKnown, At
<1>5. ASSUME NEW c \in DOMAIN conversations, Clean(c)' PROVE Clean(c)
  <2>1. Open(c) /\ expiries = 0
    BY <1>5 DEF Clean, CalmRows
  <2>2. \A q \in Clears : req'[q] = req[q]
    BY <1>1, <1>2
  <2>3. ~BeingCleared(c)
    BY <1>5, <2>2 DEF Clean, BeingCleared, UnderWay
  <2>4. faults = 0
    BY <1>1, <1>5 DEF Typed, Clean
  <2>5. QED
    BY <2>1, <2>3, <2>4 DEF Clean
<1>6. \A q \in Sends : RunTells(q)
  BY <1>1, <1>2, StandingTells
<1>7. QED
  BY <1>1, <1>3, <1>4, <1>5, <1>6, CalmKeeps

\* A clear goes on, and stays about to delete what it has found.
LEMMA CalmClear ==
  ASSUME IInv, IInv', MemoryInv, NEW r \in Clears, Alone(r), Calm(r), CalmRows,
         run' = run, expiries' = expiries, faults <= faults',
         UnderWay(r) => \/ faults' > 0
                        \/ UnderWay(r)' /\ req[r].found \subseteq req'[r].found
                        \/ \A c \in req[r].found : ~Open(c)'
  PROVE  MemoryInv'
<1>1. Typed /\ Typed' /\ Placed /\ Sends \cap Clears = {} /\ Request = Sends \cup Clears
  BY TestChatAssumption DEF IInv, Request
<1>2. \A q \in Request : q # r => req'[q] = req[q]
  BY DEF Alone
<1>3. \A q \in Request : Calm(q)
  BY <1>2 DEF Calm
<1>4. \A q \in Sends : RoundIsKnown(q)'
  <2>1. SUFFICES ASSUME NEW q \in Sends PROVE RoundIsKnown(q)'
    OBVIOUS
  <2>2. RoundIsKnown(q) /\ req'[q] = req[q] /\ run' = run
    BY <1>1, <1>2, <2>1 DEF MemoryInv
  <2>3. QED
    BY <2>2 DEF RoundIsKnown, At
<1>5. ASSUME NEW c \in DOMAIN conversations, Clean(c)' PROVE Clean(c)
  <2>1. Open(c) /\ expiries = 0 /\ Open(c)'
    BY <1>5 DEF Clean, CalmRows
  <2>2. faults = 0 /\ faults' = 0
    BY <1>1, <1>5 DEF Typed, Clean
  <2>3. ~BeingCleared(c)
    <3>1. SUFFICES ASSUME NEW q \in Clears, c \in req[q].found, UnderWay(q) PROVE BeingCleared(c)'
      BY <1>5 DEF Clean, BeingCleared
    <3>2. CASE q = r
      BY <2>1, <2>2, <3>1, <3>2 DEF BeingCleared
    <3>3. CASE q # r
      BY <1>1, <1>2, <3>1, <3>3 DEF BeingCleared, UnderWay
    <3>4. QED
      BY <3>2, <3>3
  <2>4. QED
    BY <2>1, <2>2, <2>3 DEF Clean
<1>6. \A q \in Sends : RunTells(q)
  BY <1>1, <1>2, StandingTells
<1>7. QED
  BY <1>1, <1>3, <1>4, <1>5, <1>6, CalmKeeps

LEMMA CalmNobody ==
  ASSUME IInv, IInv', MemoryInv, req' = req, run' = run, CalmRows,
         expiries <= expiries', faults <= faults'
  PROVE  MemoryInv'
<1>1. Typed /\ Typed' /\ Placed
  BY DEF IInv
<1>2. \A q \in Request : Calm(q)
  BY DEF Calm
<1>3. \A q \in Sends : RoundIsKnown(q)'
  BY DEF MemoryInv, RoundIsKnown, At
<1>4. ASSUME NEW c \in DOMAIN conversations, Clean(c)' PROVE Clean(c)
  <2>1. expiries = 0 /\ faults = 0
    BY <1>1, <1>4 DEF Typed, Clean
  <2>2. QED
    BY <1>4, <2>1 DEF Clean, CalmRows, BeingCleared, UnderWay
<1>5. \A q \in Sends : RunTells(q)
  BY StandingTells
<1>6. QED
  BY <1>1, <1>2, <1>3, <1>4, <1>5, CalmKeeps

-----------------------------------------------------------------------------
(* send() before it reads the history, and clear().                        *)

LEMMA CalmBefore ==
  ASSUME IInv, IInv', MemoryInv, NEW r \in Sends, Alone(r), CalmRows,
         req[r].pc \in Silent \ {"memory"}, req'[r].pc \in Silent \cup Over,
         req'[r].pc \in Silent => req'[r].round = req[r].round,
         req[r].failed => req'[r].failed,
         \/ req'[r].conversation = Own(r)
         \/ req'[r].pc \in Silent /\ Own(r) = 0,
         run' = run, expiries' = expiries, faults <= faults'
  PROVE  MemoryInv'
<1>1. Silent \cap Over = {} /\ Silent \cap HasSaved = {} /\ "remember" \notin Silent
      /\ (Silent \ {"memory"}) \cap Locked = {}
      /\ {"immediate", "give up", "remember"} \cap (Silent \cup Over) = {}
  BY DEF Silent, Over, HasSaved, Before, Locked, Clearing
<1>2. Calm(r)
  BY <1>1 DEF Calm
<1>3. RoundIsKnown(r)'
  <2>1. run[r].second # "success"
    BY <1>1 DEF MemoryInv, RoundIsKnown
  <2>2. QED
    BY <1>1, <2>1 DEF RoundIsKnown, At
<1>4. RunTells(r)
  <2>1. ~At(r, "complete")
    BY DEF At, Silent, Before, Clearing
  <2>2. QED
    BY <2>1, StandingTells
<1>5. QED
  BY <1>2, <1>3, <1>4, CalmSend

\* Where a message is before it reads the history.
LEMMA BeforeIsSilent ==
  ASSUME IInv, NEW r \in Request, req[r].pc \in Before
  PROVE  r \in Sends /\ req[r].pc \in Silent \ {"memory"}
<1>1. r \in Sends
  BY BeforeIsSend DEF IInv
<1>2. QED
  BY <1>1 DEF Before, Silent

LEMMA IdentityIsCalm ==
  ASSUME IInv, IInv', MemoryInv, NEW r \in Request,
         \/ TakeIdentityLock(r) \/ FindIdentity(r) \/ Register(r) \/ ReleaseIdentityLock(r)
         \/ Configure(r) \/ TakeChatLock(r)
  PROVE  MemoryInv'
<1>1. /\ req[r].pc \in Before /\ conversations' = conversations /\ run' = run
      /\ expiries' = expiries /\ faults' = faults /\ Typed
  BY DEF TakeIdentityLock, FindIdentity, Register, ReleaseIdentityLock, Configure, TakeChatLock,
         At, Before, Quiet, rows, counters, IInv
<1>2. PICK pc \in (Silent \cup Over) \ {"release"} : Goto(r, pc) \/ Throws(r, pc)
  BY DEF TakeIdentityLock, FindIdentity, Register, ReleaseIdentityLock, Configure, TakeChatLock,
         Silent, Over, Before, Quiet
<1>3. pc \in PCs
  BY <1>2 DEF Silent, Over, PCs, Before, Locked, Clearing
<1>4. /\ Alone(r) /\ req'[r].pc = pc /\ req'[r].conversation = Own(r)
      /\ req[r].failed => req'[r].failed
      /\ pc \notin Over => req'[r].round = req[r].round
  BY <1>1, <1>2, <1>3, GotoIs, ThrowsIs
<1>5. CalmRows /\ faults <= faults'
  BY <1>1, RowsStand DEF Typed
<1>6. Silent \cap Over = {}
  BY DEF Silent, Over, Before, Clearing
<1>7. QED
  BY <1>1, <1>2, <1>4, <1>5, <1>6, BeforeIsSilent, CalmBefore

LEMMA PlacedRow ==
  ASSUME Typed, NEW r \in Sends, SendIsPlaced(r), req[r].pc \in {"context", "state"}
  PROVE  Own(r) \in DOMAIN conversations /\ conversations[Own(r)] \in Conversation
<1>1. Own(r) # 0 /\ Own(r) <= Len(conversations)
  BY DEF SendIsPlaced, Unplaced, Identifying, Clearing
<1>2. Own(r) \in Nat /\ Len(conversations) \in Nat
  BY RowTypes DEF Typed, Local, Own, Request
<1>3. QED
  BY <1>1, <1>2, RowTypes

LEMMA ReadingIsCalm ==
  ASSUME IInv, IInv', MemoryInv, NEW r \in Request,
         FindConversation(r) \/ LoadContext(r) \/ LoadState(r)
  PROVE  MemoryInv'
<1>1. /\ req[r].pc \in Before /\ conversations' = conversations /\ run' = run
      /\ expiries' = expiries /\ faults' = faults /\ Typed /\ Placed
  BY DEF FindConversation, LoadContext, LoadState, At, Before, Quiet, rows, counters, IInv
<1>2. r \in Sends /\ req[r] \in Local /\ SendIsPlaced(r)
  BY <1>1, BeforeIsSend
<1>3. PICK l : /\ Becomes(r, l) /\ l.pc \in Before
               /\ l.failed = req[r].failed /\ l.round = req[r].round
               /\ l.conversation = Own(r) \/ Own(r) = 0
  <2>1. CASE FindConversation(r)
    <3>1. Own(r) = 0
      BY <1>2, <2>1 DEF FindConversation, At, SendIsPlaced, Identifying
    <3>2. PICK n, l : /\ Becomes(r, l)
                      /\ \/ l = [req[r] EXCEPT !.pc = "create"]
                         \/ l = [req[r] EXCEPT !.pc = "identity release", !.conversation = n]
      BY <2>1 DEF FindConversation
    <3>3. QED
      BY <1>2, <3>1, <3>2 DEF Local, Before
  <2>2. CASE LoadContext(r)
    <3>1. conversations[Own(r)] \in Conversation
      BY <1>1, <1>2, <2>2, PlacedRow DEF LoadContext, At
    <3>2. PICK x \in SUBSET Var : x = IF Open(Own(r)) THEN conversations[Own(r)].context ELSE {}
      BY <3>1 DEF Conversation
    <3>3. PICK l : l = WithContext(r, "state", x)
      OBVIOUS
    <3>4. Becomes(r, l)
      BY <2>2, <3>2, <3>3 DEF LoadContext, WithContext
    <3>5. /\ l.pc = "state" /\ l.failed = req[r].failed /\ l.round = req[r].round
          /\ l.conversation = Own(r)
      BY <1>2, <3>3 DEF Local, Own, WithContext
    <3>6. QED
      BY <3>4, <3>5 DEF Before
  <2>3. CASE LoadState(r)
    <3> DEFINE stored == IF Open(Own(r)) THEN conversations[Own(r)].agent ELSE None
               present == IF stored = None THEN InitialAgent ELSE stored
    <3>1. conversations[Own(r)] \in Conversation
      BY <1>1, <1>2, <2>3, PlacedRow DEF LoadState, At
    <3>2. present \in Agent
      BY <3>1, TestChatAssumption DEF Conversation
    <3>3. PICK a \in Agent : a = ResolveAgent(present, req[r].context)
      BY <3>2, ResolvedIsAgent
    <3>4. PICK l : l = WithAgent(r, "configure", a)
      OBVIOUS
    <3>5. Becomes(r, l)
      BY <2>3, <3>3, <3>4 DEF LoadState, WithAgent
    <3>6. /\ l.pc = "configure" /\ l.failed = req[r].failed /\ l.round = req[r].round
          /\ l.conversation = Own(r)
      BY <1>2, <3>4 DEF Local, Own, WithAgent
    <3>7. QED
      BY <3>5, <3>6 DEF Before
  <2>4. QED
    BY <2>1, <2>2, <2>3
<1>4. Before \cap Over = {} /\ Before \subseteq Silent \ {"memory"}
  BY DEF Before, Over, Silent
<1>5. Alone(r) /\ req'[r] = l
  BY <1>1, <1>3, <1>4, BecomingIs
<1>6. CalmRows /\ faults <= faults'
  BY <1>1, RowsStand DEF Typed
<1>7. QED
  BY <1>1, <1>2, <1>3, <1>4, <1>5, <1>6, CalmBefore

LEMMA CreationIsCalm ==
  ASSUME IInv, IInv', MemoryInv, NEW r \in Request, CreateConversation(r)
  PROVE  MemoryInv'
<1>1. /\ At(r, "create") /\ conversations' = Append(conversations, Fresh) /\ run' = run
      /\ expiries' = expiries /\ faults' = faults /\ Typed /\ Placed
      /\ Becomes(r, [req[r] EXCEPT !.pc = "identity release",
                                   !.conversation = Len(conversations) + 1])
  BY DEF CreateConversation, counters, IInv
<1>2. req[r].pc \in Before
  BY <1>1 DEF At, Before
<1>3. r \in Sends /\ req[r] \in Local /\ SendIsPlaced(r)
  BY <1>1, <1>2, BeforeIsSend
<1>4. Own(r) = 0
  BY <1>1, <1>3 DEF At, SendIsPlaced, Identifying
<1>5. PICK l : l = [req[r] EXCEPT !.pc = "identity release",
                                  !.conversation = Len(conversations) + 1]
  OBVIOUS
<1>6. /\ l.pc = "identity release" /\ l.failed = req[r].failed /\ l.round = req[r].round
  BY <1>3, <1>5 DEF Local
<1>7. "identity release" \notin Over /\ "identity release" \in Silent /\ Before \subseteq Silent \ {"memory"}
  BY DEF Before, Over, Silent
<1>8. Alone(r) /\ req'[r] = l
  BY <1>1, <1>5, <1>6, <1>7, BecomingIs
<1>9. PICK n \in Nat : n = Len(conversations) /\ DOMAIN conversations = 1..n
  BY <1>1, RowTypes
<1>10. /\ conversations \in Seq(Conversation) /\ Fresh \in Conversation
  BY <1>1, FreshIsConversation DEF Typed
<1>11. /\ DOMAIN conversations' = 1..(n + 1)
       /\ \A c \in 1..n : conversations'[c] = conversations[c]
       /\ conversations'[n + 1] = Fresh
  BY <1>1, <1>9, <1>10
<1>12. \A c \in 1..(n + 1) : c \in 1..n \/ c = n + 1
  BY <1>9
<1>13. \A c \in 1..n : c \in 1..(n + 1)
  BY <1>9
<1>14. ASSUME NEW q \in Sends, req'[q].conversation = n + 1 PROVE req'[q].pc \in Silent
  <2>1. CASE q = r
    BY <1>6, <1>7, <1>8, <2>1
  <2>2. CASE q # r
    <3>1. Own(q) = n + 1
      BY <1>8, <1>14, <2>2 DEF Alone, Own, Request
    <3>2. Own(q) <= n
      BY <1>1, <1>9 DEF Placed, SendIsPlaced
    <3>3. QED
      BY <1>9, <3>1, <3>2
  <2>3. QED
    BY <2>1, <2>2
<1>15. CalmRows
  <2>1. Fresh.messages = <<>> /\ Fresh.memory = <<>>
    BY DEF Fresh
  <2>2. \A c \in DOMAIN conversations :
          /\ c \in DOMAIN conversations' /\ conversations'[c] = conversations[c]
    BY <1>9, <1>11, <1>13
  <2>3. \A c \in DOMAIN conversations' : c \notin DOMAIN conversations => c = n + 1
    BY <1>9, <1>11, <1>12
  <2>4. QED
    BY <1>11, <1>14, <2>1, <2>2, <2>3 DEF CalmRows, Messages, Memory, Open
<1>16. faults <= faults'
  BY <1>1 DEF Typed
<1>17. QED
  BY <1>1, <1>2, <1>3, <1>4, <1>6, <1>7, <1>8, <1>15, <1>16, CalmBefore

-----------------------------------------------------------------------------
(* The beginning of a request, clear() and the environment.                *)

LEMMA BeginIsCalm ==
  ASSUME IInv, IInv', MemoryInv, NEW r \in Request, BeginSend(r) \/ BeginClear(r)
  PROVE  MemoryInv'
<1>1. /\ At(r, "idle") /\ conversations' = conversations /\ run' = run
      /\ expiries' = expiries /\ faults' = faults /\ Typed
  BY DEF BeginSend, BeginClear, Begin, rows, counters, IInv
<1>2. CalmRows /\ faults <= faults' /\ ~UnderWay(r)
  BY <1>1, RowsStand DEF Typed, UnderWay, At
<1>3. "idle" \in Silent \ {"memory"} /\ "identity lock" \in Silent /\ "list" \in Silent
      /\ Silent \cap Over = {} /\ {"identity lock", "list"} \subseteq PCs
  BY DEF Silent, Before, Clearing, Over, PCs
<1>4. CASE BeginSend(r)
  <2>1. r \in Sends /\ Goto(r, "identity lock")
    BY <1>4 DEF BeginSend, Begin
  <2>2. QED
    BY <1>1, <1>2, <1>3, <2>1, GotoIs, CalmBefore DEF At
<1>5. CASE BeginClear(r)
  <2>1. r \in Clears /\ Goto(r, "list")
    BY <1>5 DEF BeginClear, Begin
  <2>2. /\ Alone(r) /\ req'[r].pc = "list" /\ req'[r].conversation = Own(r)
        /\ req'[r].failed = req[r].failed /\ req'[r].round = req[r].round
    BY <1>1, <1>3, <2>1, GotoIs
  <2>3. Calm(r)
    BY <1>1, <1>3, <2>2 DEF Calm, At
  <2>4. QED
    BY <1>1, <1>2, <2>1, <2>2, <2>3, CalmClear
<1>6. QED
  BY <1>4, <1>5

LEMMA ListingIsCalm ==
  ASSUME IInv, IInv', MemoryInv, NEW r \in Request, ListConversations(r)
  PROVE  MemoryInv'
<1>1. /\ At(r, "list") /\ conversations' = conversations /\ run' = run
      /\ expiries' = expiries /\ faults' = faults /\ Typed /\ Placed
  BY DEF ListConversations, Quiet, rows, counters, IInv
<1>2. r \in Clears /\ req[r].found = {} /\ req[r] \in Local
  BY <1>1, ClearingIsClear DEF At, Clearing, ClearIsPlaced, Placed, Typed
<1>3. CalmRows /\ faults <= faults'
  BY <1>1, RowsStand DEF Typed
<1>4. PICK l : /\ Becomes(r, l) /\ l.pc \in {"done", "wipe"}
               /\ l.failed = req[r].failed /\ l.round = req[r].round /\ l.conversation = Own(r)
  <2>1. CASE Goto(r, "done")
    <3>1. PICK l : l = [req[r] EXCEPT !.pc = "done"]
      OBVIOUS
    <3>2. QED
      BY <1>2, <2>1, <3>1 DEF Goto, Local, Own
  <2>2. CASE ~Goto(r, "done")
    <3> DEFINE found == {c \in DOMAIN conversations : Open(c)}
    <3>1. PICK order \in [1..Cardinality(found) -> found] : Becomes(r, WithList(r, found, order))
      BY <2>2 DEF ListConversations, WithList
    <3>2. found \in SUBSET Nat
      BY <1>1, RowTypes
    <3>3. Cardinality(found) \in Nat
      <4>1. found = OpenOnes
        BY DEF OpenOnes
      <4>2. QED
        BY <1>1, <4>1, Finiteness, FS_CardinalityType
    <3> HIDE DEF found
    <3>4. PICK n \in Nat : n = Cardinality(found)
      BY <3>3
    <3>5. order \in Seq(Nat)
      <4>1. order \in [1..n -> Nat]
        BY <3>2, <3>4
      <4>2. QED
        BY <4>1
    <3>6. PICK l : l = WithList(r, found, order)
      OBVIOUS
    <3>7. Becomes(r, l)
      BY <3>1, <3>6
    <3>8. l.pc = "wipe" /\ l.failed = req[r].failed /\ l.round = req[r].round
          /\ l.conversation = Own(r)
      BY <1>2, <3>2, <3>5, <3>6 DEF Local, Own, WithList
    <3>9. QED
      BY <3>7, <3>8
  <2>3. QED
    BY <2>1, <2>2
<1>5. /\ Alone(r) /\ req'[r].pc = l.pc /\ req'[r].conversation = Own(r)
      /\ req'[r].failed = req[r].failed
      /\ l.pc \notin Over => req'[r].round = req[r].round
  BY <1>1, <1>4, BecomingIs
<1>6. "list" \in Silent \ {"memory"} /\ "wipe" \in Silent \ Over /\ "done" \in Over
      /\ "list" \notin Locked
  BY DEF Silent, Before, Clearing, Over, Locked
<1>7. Calm(r)
  <2>1. CASE l.pc = "done"
    BY <1>1, <1>5, <1>6, <2>1 DEF Calm, At
  <2>2. CASE l.pc = "wipe"
    BY <1>1, <1>5, <1>6, <2>2 DEF Calm, At
  <2>3. QED
    BY <1>4, <2>1, <2>2
<1>8. QED
  BY <1>1, <1>2, <1>3, <1>5, <1>7, CalmClear

LEMMA WipingIsCalm ==
  ASSUME IInv, IInv', MemoryInv, NEW r \in Request, WipeMemory(r) \/ WipeLock(r)
  PROVE  MemoryInv'
<1>1. /\ req[r].pc \in {"wipe", "unlock"} /\ run' = run
      /\ expiries' = expiries /\ faults' = faults /\ Typed /\ Placed
  BY DEF WipeMemory, WipeLock, At, rows, counters, IInv
<1>2. r \in Clears /\ ClearIsPlaced(r) /\ req[r] \in Local
  BY <1>1, ClearingIsClear DEF Clearing, Placed, Typed
<1>3. CalmRows
  <2>1. CASE WipeLock(r)
    BY <2>1, RowsStand DEF WipeLock, rows
  <2>2. CASE WipeMemory(r)
    <3>1. req[r].todo # <<>> /\ req[r].todo \in Seq(Nat) /\ Range(req[r].todo) \subseteq DOMAIN conversations
      BY <1>1, <1>2 DEF ClearIsPlaced, Local
    <3>2. Head(req[r].todo) \in DOMAIN conversations
      <4>1. 1 \in DOMAIN req[r].todo /\ Head(req[r].todo) = req[r].todo[1]
        BY <3>1
      <4>2. QED
        BY <3>1, <4>1 DEF Range
    <3>3. QED
      BY <1>1, <2>2, <3>2, RowsStandBut DEF WipeMemory
  <2>3. QED
    BY <2>1, <2>2
<1>4. PICK l : /\ Becomes(r, l) /\ l.pc \in {"wipe", "unlock", "delete"} /\ l.found = req[r].found
               /\ l.failed = req[r].failed /\ l.round = req[r].round /\ l.conversation = Own(r)
  <2>1. CASE WipeMemory(r)
    <3>1. PICK l : l = [req[r] EXCEPT !.pc = "unlock"]
      OBVIOUS
    <3>2. Becomes(r, l)
      BY <2>1, <3>1 DEF WipeMemory, Goto
    <3>3. QED
      BY <1>2, <3>1, <3>2 DEF Local, Own
  <2>2. CASE WipeLock(r)
    <3>1. PICK pc \in {"delete", "wipe"} : Becomes(r, WithRest(r, pc))
      BY <2>2 DEF WipeLock, WithRest
    <3>2. req[r].todo # <<>> /\ req[r].todo \in Seq(Nat) /\ IsInjective(req[r].todo)
      BY <1>2, <2>2 DEF WipeLock, At, ClearIsPlaced, Local
    <3>3. Tail(req[r].todo) \in Seq(Nat)
      BY <3>2, TakingFirst
    <3>4. PICK l : l = WithRest(r, pc)
      OBVIOUS
    <3>5. /\ l.pc = pc /\ l.found = req[r].found /\ l.failed = req[r].failed
          /\ l.round = req[r].round /\ l.conversation = Own(r)
      BY <1>2, <3>3, <3>4 DEF Local, Own, WithRest
    <3>6. QED
      BY <3>1, <3>4, <3>5
  <2>3. QED
    BY <2>1, <2>2
<1>5. {"wipe", "unlock", "delete"} \subseteq Silent \ {"memory"}
      /\ {"wipe", "unlock", "delete"} \cap (Over \cup {"idle"}) = {} /\ "done" \in Over
  BY DEF Silent, Clearing, Over
<1>6. Alone(r) /\ req'[r] = l
  BY <1>1, <1>4, <1>5, BecomingIs
<1>7. Calm(r)
  BY <1>1, <1>4, <1>5, <1>6 DEF Calm
<1>8. UnderWay(r)' /\ req[r].found \subseteq req'[r].found
  BY <1>4, <1>5, <1>6 DEF UnderWay
<1>9. faults <= faults'
  BY <1>1 DEF Typed
<1>10. QED
  BY <1>1, <1>2, <1>3, <1>6, <1>7, <1>8, <1>9, CalmClear

LEMMA DeletionIsCalm ==
  ASSUME IInv, IInv', MemoryInv, NEW r \in Request, DeleteConversations(r)
  PROVE  MemoryInv'
<1>1. /\ At(r, "delete") /\ run' = run /\ Goto(r, "done")
      /\ conversations' = [c \in DOMAIN conversations |->
           IF c \in req[r].found THEN [Fresh EXCEPT !.deleted = TRUE] ELSE conversations[c]]
      /\ expiries' = expiries /\ faults' = faults /\ Typed /\ Placed
  BY DEF DeleteConversations, counters, IInv
<1>2. r \in Clears
  BY <1>1, ClearingIsClear DEF At, Clearing
<1>3. PICK gone : gone = [Fresh EXCEPT !.deleted = TRUE]
  OBVIOUS
<1>4. gone.deleted /\ gone.messages = <<>> /\ gone.memory = <<>>
  BY <1>3 DEF Fresh
<1>5. /\ DOMAIN conversations' = DOMAIN conversations
      /\ \A c \in DOMAIN conversations :
           conversations'[c] = IF c \in req[r].found THEN gone ELSE conversations[c]
  BY <1>1, <1>3
<1>6. CalmRows /\ \A c \in req[r].found : ~Open(c)'
  BY <1>4, <1>5 DEF CalmRows, Messages, Memory, Open
<1>7. /\ Alone(r) /\ req'[r].pc = "done" /\ req'[r].conversation = Own(r)
      /\ req'[r].failed = req[r].failed
  BY <1>1, GotoIs DEF PCs
<1>8. Calm(r)
  BY <1>1, <1>7 DEF Calm, At, Over, Locked
<1>9. faults <= faults'
  BY <1>1 DEF Typed
<1>10. QED
  BY <1>1, <1>2, <1>6, <1>7, <1>8, <1>9, CalmClear

LEMMA FailureIsCalm ==
  ASSUME IInv, IInv', MemoryInv, NEW r \in Request, CallFails(r)
  PROVE  MemoryInv'
<1>1. /\ conversations' = conversations /\ run' = run /\ expiries' = expiries
      /\ faults' = faults + 1 /\ UnderWay(r) /\ Throws(r, Handler(req[r].pc))
      /\ ~At(r, "describe") /\ ~At(r, "ask") /\ Typed /\ Placed /\ req[r].pc \in PCs
  BY DEF CallFails, Fault, rows, IInv, Typed, Local
<1>2. CalmRows /\ faults <= faults' /\ faults' > 0
  BY <1>1, RowsStand DEF Typed
<1>3. /\ req[r].pc \in Locked => Handler(req[r].pc) = "release"
      /\ Handler(req[r].pc) \in Over \cup {"identity release"}
      /\ req[r].pc \in Clearing => Handler(req[r].pc) = "done"
      /\ req[r].pc = "release" => Handler(req[r].pc) = "done"
      /\ Handler(req[r].pc) \in PCs
  BY <1>1 DEF Handler, Locked, Over, Clearing, At, PCs, Before
<1>4. /\ Alone(r) /\ req'[r].pc = Handler(req[r].pc) /\ req'[r].conversation = Own(r)
      /\ req'[r].failed
      /\ req'[r].pc \notin Over => req'[r].round = req[r].round
  BY <1>1, <1>3, ThrowsIs
<1>5. Silent \cap Over = {} /\ "identity release" \in Silent /\ {"release", "done"} \subseteq Over
  BY DEF Silent, Before, Clearing, Over
<1>6. CASE req[r].pc \in Before
  BY <1>1, <1>2, <1>3, <1>4, <1>5, <1>6, BeforeIsSilent, CalmBefore
<1>7. CASE req[r].pc \in Locked \cup {"release"}
  <2>1. r \in Sends
    BY <1>1, <1>7, LockedIsPlaced
  <2>2. req'[r].pc \in Over
    BY <1>3, <1>4, <1>5, <1>7
  <2>3. Calm(r)
    BY <1>4, <2>2 DEF Calm
  <2>4. RoundIsKnown(r)'
    BY <2>2 DEF RoundIsKnown, At, Over
  <2>5. RunTells(r)
    BY <1>1, <1>2, StandingTells
  <2>6. QED
    BY <1>1, <1>2, <1>4, <2>1, <2>3, <2>4, <2>5, CalmSend
<1>8. CASE req[r].pc \in Clearing
  <2>1. r \in Clears
    BY <1>1, <1>8, ClearingIsClear
  <2>2. Calm(r)
    BY <1>3, <1>4, <1>5, <1>8 DEF Calm
  <2>3. QED
    BY <1>1, <1>2, <1>4, <2>1, <2>2, CalmClear
<1>9. QED
  BY <1>1, <1>6, <1>7, <1>8 DEF PCs, UnderWay

LEMMA CrashIsCalm ==
  ASSUME IInv, IInv', MemoryInv, Crash
  PROVE  MemoryInv'
<1>1. /\ conversations' = conversations /\ run' = run /\ faults' = faults + 1
      /\ req' = [r \in Request |-> IF UnderWay(r)
               THEN Forgetful([req[r] EXCEPT !.pc = "done", !.failed = TRUE]) ELSE req[r]]
      /\ Typed /\ Typed' /\ Placed
  <2>1. Typed /\ Typed' /\ Placed
    BY DEF IInv
  <2>2. QED
    BY <2>1 DEF Crash, Fault, rows
<1>2. CalmRows /\ faults' # 0 /\ faults' > 0 /\ faults <= faults'
  <2>1. faults \in Nat /\ faults' = faults + 1
    BY <1>1 DEF Typed
  <2>2. CalmRows
    BY <1>1, RowsStand
  <2>3. QED
    BY <2>1, <2>2
<1>3. ASSUME NEW q \in Request
      PROVE \/ req'[q] = req[q]
            \/ req'[q].pc = "done" /\ req'[q].conversation = Own(q) /\ req'[q].failed
  <2>1. SUFFICES ASSUME UnderWay(q)
                 PROVE  req'[q].pc = "done" /\ req'[q].conversation = Own(q) /\ req'[q].failed
    BY <1>1
  <2>2. PICK l : l = [req[q] EXCEPT !.pc = "done", !.failed = TRUE]
    OBVIOUS
  <2>3. req[q] \in Local
    BY <1>1 DEF Typed
  <2>4. l \in Local /\ l.pc = "done" /\ l.conversation = Own(q) /\ l.failed
    BY <2>2, <2>3 DEF Local, PCs, Own
  <2>5. req'[q] = Forgetful(l)
    BY <1>1, <2>1, <2>2
  <2>6. QED
    BY <2>4, <2>5, Forgetting
<1>4. \A q \in Request : Calm(q)
  BY <1>3 DEF Calm, Over
<1>5. \A q \in Sends : RoundIsKnown(q)'
  <2>1. SUFFICES ASSUME NEW q \in Sends PROVE RoundIsKnown(q)'
    OBVIOUS
  <2>2. CASE req'[q] = req[q]
    BY <1>1, <2>2 DEF RoundIsKnown, At, MemoryInv
  <2>3. CASE req'[q].pc = "done"
    BY <2>3 DEF RoundIsKnown, At, Over
  <2>4. QED
    BY <1>3, <2>2, <2>3 DEF Request
<1>6. \A c \in DOMAIN conversations : Clean(c)' => Clean(c)
  BY <1>2 DEF Clean
<1>7. \A q \in Sends : RunTells(q)
  BY <1>1, <1>2, StandingTells
<1>8. QED
  BY <1>1, <1>2, <1>4, <1>5, <1>6, <1>7, CalmKeeps

LEMMA ExpiryIsCalm ==
  ASSUME IInv, IInv', MemoryInv,
         \/ IdentityLockExpires \/ Finished \/ UNCHANGED vars
         \/ \E c \in DOMAIN conversations : ChatLockExpires(c) \/ MemoryExpires(c)
  PROVE  MemoryInv'
<1>1. Typed
  BY DEF IInv
<1>2. CASE IdentityLockExpires \/ \E c \in DOMAIN conversations : ChatLockExpires(c)
  <2>1. /\ req' = req /\ run' = run /\ conversations' = conversations /\ faults' = faults
        /\ expiries' = expiries \/ expiries' = expiries + 1
    BY <1>2 DEF IdentityLockExpires, ChatLockExpires, Lapses, rows
  <2>2. CalmRows /\ expiries <= expiries' /\ faults <= faults'
    BY <1>1, <2>1, RowsStand DEF Typed
  <2>3. QED
    BY <2>1, <2>2, CalmNobody
<1>3. CASE \E c \in DOMAIN conversations : MemoryExpires(c)
  <2>1. PICK c \in DOMAIN conversations : MemoryExpires(c)
    BY <1>3
  <2>2. /\ req' = req /\ run' = run /\ faults' = faults /\ expiries' = expiries
        /\ conversations' = [conversations EXCEPT ![c].memory = <<>>]
    BY <2>1 DEF MemoryExpires, counters
  <2>3. CalmRows
    BY <1>1, <2>2, RowsStandBut
  <2>4. expiries <= expiries' /\ faults <= faults'
    BY <1>1, <2>2 DEF Typed
  <2>5. QED
    BY <2>2, <2>3, <2>4, CalmNobody
<1>4. CASE Finished \/ UNCHANGED vars
  <2>1. req' = req /\ run' = run /\ conversations' = conversations /\ faults' = faults
        /\ expiries' = expiries
    BY <1>4 DEF Finished, vars, rows, counters
  <2>2. CalmRows /\ expiries <= expiries' /\ faults <= faults'
    BY <1>1, <2>1, RowsStand DEF Typed
  <2>3. QED
    BY <2>1, <2>2, CalmNobody
<1>5. QED
  BY <1>2, <1>3, <1>4

-----------------------------------------------------------------------------
(* A request that answers: the steps that say nothing.                     *)

LEMMA StagesAreLocked ==
  /\ HasHistory \cup HasAsked \cup HasAnswered \cup HasSaved = Locked \ {"memory"}
  /\ Locked \cap Over = {} /\ HasSaved \cap Over = {}
  /\ HasAsked \cap ({"remember"} \cup HasSaved) = {}
  /\ HasAsked \cap HasSaved = {} /\ HasAnswered \cap HasSaved = {}
BY DEF HasHistory, HasAsked, HasAnswered, HasSaved, Locked, Over

LEMMA FaultsStand ==
  ASSUME Typed, faults' = faults
  PROVE  faults <= faults'
BY DEF Typed

\* It is about to answer, and goes on, or gives up.
LEMMA CalmAsking ==
  ASSUME IInv, IInv', MemoryInv, NEW r \in Sends, Alone(r), CalmRows, req[r].pc \in HasAsked,
         req'[r].conversation = Own(r), req[r].failed => req'[r].failed,
         \/ /\ req'[r].pc \in HasAsked /\ req'[r].round = req[r].round
            /\ req'[r].history = req[r].history
            /\ req'[r].pc = "give up" => req'[r].failed
         \/ req'[r].pc \in Over /\ req'[r].failed,
         \A q \in Sends : q # r => run'[q] = run[q],
         run[r].second # "success" => run'[r].second # "success", RunTells(r),
         expiries' = expiries, faults' = faults
  PROVE  MemoryInv'
<1>1. Calm(r)
  BY DEF Calm
<1>2. run[r].second # "success"
  BY StagesAreLocked DEF MemoryInv, RoundIsKnown, Over, HasAsked
<1>3. RoundIsKnown(r)'
  <2>1. req'[r].pc \notin {"immediate", "remember"}
    BY DEF HasAsked, Over
  <2>2. req'[r].pc = "give up" => req'[r].failed
    BY DEF Over
  <2>3. QED
    BY <1>2, <2>1, <2>2 DEF RoundIsKnown, At
<1>4. faults <= faults'
  BY FaultsStand DEF IInv
<1>5. QED
  BY <1>1, <1>2, <1>3, <1>4, CalmSend

LEMMA AskingIsCalm ==
  ASSUME IInv, IInv', MemoryInv, NEW r \in Request,
         \/ DescribeImages(r) \/ UseApi(r) \/ UseSearch(r) \/ TransferToHuman(r) \/ AskGemini(r)
         \/ AskOpenAICompatible(r) \/ StoreFile(r) \/ CreatePart(r)
  PROVE  MemoryInv'
<1>1. /\ req[r].pc \in {"describe", "ask", "file", "part"} /\ run' = run
      /\ expiries' = expiries /\ faults' = faults
  BY DEF DescribeImages, UseApi, UseSearch, TransferToHuman, Uses, AskGemini,
         AskOpenAICompatible, StoreFile, CreatePart, At, Quiet, rows, counters
<1>2. Typed /\ Placed /\ req[r].pc \in HasAsked /\ req[r].pc \in Locked
  BY <1>1 DEF IInv, HasAsked, Locked
<1>3. r \in Sends /\ Own(r) \in DOMAIN conversations /\ req[r] \in Local
  BY <1>2, LockedIsPlaced, RowTypes
<1>4. CalmRows
  <2>1. CASE conversations' = conversations
    BY <2>1, RowsStand
  <2>2. CASE conversations' # conversations
    <3>1. conversations' = [conversations EXCEPT ![Own(r)].manual = TRUE]
      BY <2>2 DEF DescribeImages, UseApi, UseSearch, TransferToHuman, AskGemini,
         AskOpenAICompatible, StoreFile, CreatePart, Quiet, rows
    <3>2. QED
      BY <1>2, <1>3, <3>1, RowsStandBut
  <2>3. QED
    BY <2>1, <2>2
<1>4a. RunTells(r)
  BY <1>1, StandingTells DEF At
<1> DEFINE Fits(l) ==
      /\ l.conversation = Own(r) /\ (req[r].failed => l.failed)
      /\ \/ /\ l.pc \in HasAsked /\ l.round = req[r].round /\ l.history = req[r].history
            /\ l.pc = "give up" => l.failed
         \/ l.pc = "release" /\ l.failed
<1>5. ASSUME NEW l, Fits(l), Becomes(r, l) PROVE MemoryInv'
  <2>1. HasAsked \cap Over = {} /\ "release" \in Over
    BY DEF HasAsked, Over
  <2>2. /\ Alone(r) /\ req'[r].pc = l.pc /\ req'[r].conversation = l.conversation
        /\ req'[r].failed = l.failed
        /\ l.pc \notin Over => req'[r] = l
    BY <1>2, <1>5, BecomingIs
  <2>3. QED
    BY <1>1, <1>2, <1>3, <1>4, <1>5, <1>4a, <2>1, <2>2, CalmAsking
<1> HIDE DEF Fits
<1>6. ASSUME NEW pc \in {"ask", "file", "reply", "give up", "release"},
             \/ Goto(r, pc) /\ pc \notin {"give up", "release"}
             \/ Throws(r, pc) /\ pc \in {"give up", "release"}
      PROVE  MemoryInv'
  <2>1. pc \in PCs /\ pc \in HasAsked \cup {"release"}
    BY DEF PCs, Locked, HasAsked
  <2>2. Fits([req[r] EXCEPT !.pc = pc, !.failed = TRUE])
    BY <1>3, <2>1 DEF Fits, Local, Own
  <2>3. pc \notin {"give up", "release"} => Fits([req[r] EXCEPT !.pc = pc])
    BY <1>3, <2>1 DEF Fits, Local, Own
  <2>4. QED
    BY <1>5, <1>6, <2>2, <2>3 DEF Goto, Throws
<1>7. AfterAnswer(r) \in {"file", "reply"}
  BY DEF AfterAnswer
<1>8. CASE DescribeImages(r) \/ AskGemini(r) \/ AskOpenAICompatible(r) \/ CreatePart(r)
  <2>1. PICK pc \in {"ask", "file", "reply", "give up", "release"} :
             \/ Goto(r, pc) /\ pc \notin {"give up", "release"}
             \/ Throws(r, pc) /\ pc \in {"give up", "release"}
    BY <1>7, <1>8 DEF DescribeImages, AskGemini, AskOpenAICompatible, CreatePart
  <2>2. QED
    BY <1>6, <2>1
<1>9. req[r].loops + 1 \in Nat /\ req[r].agent \in Agent /\ req[r].learned \in SUBSET Var
  BY <1>3 DEF Local
<1>10. CASE UseApi(r)
  <2>1. At(r, "ask")
    BY <1>10 DEF UseApi, Uses
  <2>2. PICK v \in Learns[req[r].agent] :
          Becomes(r, [req[r] EXCEPT !.loops = @ + 1, !.learned = @ \cup {v}])
    BY <1>10 DEF UseApi
  <2>3. v \in Var
    BY <1>3 DEF Local, Var
  <2>4. Fits([req[r] EXCEPT !.loops = @ + 1, !.learned = @ \cup {v}])
    BY <1>3, <1>9, <2>1, <2>3 DEF Fits, Local, Own, At, HasAsked
  <2>5. QED
    BY <1>5, <2>2, <2>4
<1>11. CASE UseSearch(r)
  <2>1. At(r, "ask")
    BY <1>11 DEF UseSearch, Uses
  <2>2. Fits([req[r] EXCEPT !.loops = @ + 1])
    BY <1>3, <1>9, <2>1 DEF Fits, Local, Own, At, HasAsked
  <2>3. QED
    BY <1>5, <1>11, <2>2 DEF UseSearch
<1>12. CASE TransferToHuman(r)
  <2>1. At(r, "ask") /\ Becomes(r, [req[r] EXCEPT !.loops = @ + 1, !.told = TRUE])
    BY <1>12 DEF TransferToHuman, Uses
  <2>2. Fits([req[r] EXCEPT !.loops = @ + 1, !.told = TRUE])
    BY <1>3, <1>9, <2>1 DEF Fits, Local, Own, At, HasAsked
  <2>3. QED
    BY <1>5, <2>1, <2>2
<1>13. CASE StoreFile(r)
  <2>1. PICK f \in req[r].files :
          \/ Throws(r, "release")
          \/ Becomes(r, [req[r] EXCEPT !.pc = "part", !.files = @ \ {f}])
    BY <1>13 DEF StoreFile
  <2>2. Fits([req[r] EXCEPT !.pc = "part", !.files = @ \ {f}])
    BY <1>3 DEF Fits, Local, Own, HasAsked
  <2>3. QED
    BY <1>5, <1>6, <2>1, <2>2
<1>14. QED
  BY <1>8, <1>10, <1>11, <1>12, <1>13

\* What a request has when it reaches for the memory.
LEMMA OwnFacts ==
  ASSUME IInv, MemoryInv, NEW r \in Request, req[r].pc \in Locked
  PROVE  /\ r \in Sends /\ Own(r) \in DOMAIN conversations /\ req[r] \in Local /\ Typed
         /\ Messages(Own(r)) \in Seq(Message) /\ Memory(Own(r)) \in Seq(Message)
         /\ req[r].history \in Seq(Message)
         /\ MessagesAreOwn(Own(r)) /\ IsInjective(Messages(Own(r))) /\ MemoryFollows(Own(r))
         /\ HistoryFollows(r) /\ RoundIsKnown(r)
         /\ Clean(Own(r)) => MemoryIsWhole(Own(r)) /\ HistoryIsWhole(r)
         /\ MemoryLimit \in Nat \ {0}
<1>1. Typed /\ Placed
  BY DEF IInv
<1>2. r \in Sends /\ Own(r) \in DOMAIN conversations /\ req[r] \in Local
  BY <1>1, LockedIsPlaced, RowTypes
<1>3. QED
  BY <1>1, <1>2, RowSequences, TestChatAssumption DEF MemoryInv, MessagesAreOwn

LEMMA RunIsCalm ==
  ASSUME IInv, IInv', MemoryInv, NEW r \in Request, StartRun(r) \/ FailRun(r)
  PROVE  MemoryInv'
<1>1. /\ req[r].pc \in {"run", "give up"} /\ conversations' = conversations
      /\ expiries' = expiries /\ faults' = faults /\ CalmRows
  BY RowsStand DEF StartRun, FailRun, At, counters
<1>2. Typed /\ Placed /\ req[r].pc \in HasAsked /\ req[r].pc \in Locked
  BY <1>1 DEF IInv, HasAsked, Locked
<1>3. r \in Sends /\ req[r] \in Local /\ req[r].round \in Rounds
  BY <1>2, LockedIsPlaced DEF Local
<1>4. /\ \A q \in Sends : q # r => run'[q] = run[q]
      /\ run[r].second # "success" => run'[r].second # "success"
  <2>1. CASE run' = run
    BY <2>1
  <2>2. CASE run' # run
    <3>1. PICK status \in {"running", "failed"} : RunBecomes(r, status)
      BY <2>2 DEF StartRun, FailRun
    <3>2. run' = [run EXCEPT ![r][req[r].round] = status]
      BY <3>1 DEF RunBecomes
    <3>3. run \in [Sends -> [Rounds -> {"none", "running", "success", "failed"}]]
      BY <1>2 DEF Typed
    <3>4. /\ \A q \in Sends : q # r => run'[q] = run[q]
          /\ run'[r]["second"] = run[r]["second"] \/ run'[r]["second"] = status
      BY <1>3, <3>2, <3>3 DEF Rounds
    <3>5. QED
      BY <3>4
  <2>3. QED
    BY <2>1, <2>2
<1>4a. RunTells(r)
  <2>1. ~Said(r, req[r].round)
    <3>1. SUFFICES ASSUME Said(r, req[r].round) PROVE FALSE
      OBVIOUS
    <3>2. MaySay(r, req[r].round)
      BY <1>2, <1>3, <3>1, OwnFacts DEF Said, MessagesAreOwn
    <3>3. req[r].pc \notin Over \cup HasAnswered \cup HasSaved
      BY <1>1 DEF Over, HasAnswered, HasSaved
    <3>4. QED
      BY <1>3, <3>2, <3>3 DEF MaySay, Rounds
  <2>2. ~At(r, "complete")
    BY <1>1 DEF At
  <2>3. CASE run' = run
    BY <2>2, <2>3, StandingTells
  <2>4. CASE run' # run
    <3>1. PICK status \in {"running", "failed"} : RunBecomes(r, status)
      BY <2>4 DEF StartRun, FailRun
    <3>2. run' = [run EXCEPT ![r][req[r].round] = status]
      BY <3>1 DEF RunBecomes
    <3>3. run \in [Sends -> [Rounds -> {"none", "running", "success", "failed"}]]
      BY <1>2 DEF Typed
    <3>4. \A round \in Rounds :
            run'[r][round] = IF round = req[r].round THEN status ELSE run[r][round]
      BY <1>3, <3>2, <3>3
    <3>5. QED
      BY <2>1, <2>2, <3>4 DEF RunTells
  <2>5. QED
    BY <2>3, <2>4
<1>5. CASE FailRun(r)
  <2>1. At(r, "give up") /\ Goto(r, "release") /\ req[r].failed
    BY <1>3, <1>5 DEF FailRun, MemoryInv, RoundIsKnown
  <2>2. /\ Alone(r) /\ req'[r].pc = "release" /\ req'[r].conversation = Own(r) /\ req'[r].failed
    BY <1>2, <2>1, GotoIs DEF PCs
  <2>3. QED
    BY <1>1, <1>2, <1>3, <1>4, <1>4a, <2>2, CalmAsking DEF Over
<1>6. CASE StartRun(r) /\ ~Open(Own(r))
  <2>1. Throws(r, "release")
    BY <1>6 DEF StartRun
  <2>2. /\ Alone(r) /\ req'[r].pc = "release" /\ req'[r].conversation = Own(r) /\ req'[r].failed
    BY <1>2, <2>1, ThrowsIs DEF PCs
  <2>3. QED
    BY <1>1, <1>2, <1>3, <1>4, <1>4a, <2>2, CalmAsking DEF Over
<1>7. CASE StartRun(r) /\ Open(Own(r))
  <2> DEFINE choice == IF req[r].round = "first" THEN FilesOf[r] ELSE {{}}
             l(pc, some) == [req[r] EXCEPT !.pc = pc, !.loops = 0, !.learned = {}, !.files = some]
  <2>1. PICK some \in choice, pc \in {"describe", "ask"} : Becomes(r, l(pc, some))
    BY <1>7 DEF StartRun
  <2>2. some \in SUBSET File
    BY <1>3, TestChatAssumption
  <2>3. PICK x : x = l(pc, some)
    OBVIOUS
  <2>4. /\ x.pc = pc /\ x.conversation = Own(r) /\ x.failed = req[r].failed
        /\ x.round = req[r].round /\ x.history = req[r].history
    BY <1>3, <2>2, <2>3 DEF Local, Own
  <2>5. Becomes(r, x)
    BY <2>1, <2>3
  <2> HIDE DEF l
  <2>6. pc \in HasAsked /\ pc \notin Over /\ pc # "give up"
    BY DEF HasAsked, Over
  <2>7. Alone(r) /\ req'[r] = x
    BY <1>2, <2>4, <2>5, <2>6, BecomingIs
  <2>8. QED
    BY <1>1, <1>2, <1>3, <1>4, <1>4a, <2>4, <2>6, <2>7, CalmAsking
<1>8. QED
  BY <1>5, <1>6, <1>7

LEMMA CompletionIsCalm ==
  ASSUME IInv, IInv', MemoryInv, NEW r \in Request, CompleteRun(r)
  PROVE  MemoryInv'
<1>1. /\ At(r, "complete") /\ conversations' = conversations /\ Goto(r, "remember")
      /\ run' = [run EXCEPT ![r][req[r].round] = "success"]
      /\ expiries' = expiries /\ faults' = faults /\ CalmRows
  BY RowsStand DEF CompleteRun, RunBecomes, counters
<1>2. Typed /\ Placed /\ req[r].pc \in Locked
  BY <1>1 DEF IInv, Locked, At
<1>3. r \in Sends /\ req[r] \in Local /\ req[r].round \in Rounds
  BY <1>2, LockedIsPlaced DEF Local
<1>4. /\ Alone(r) /\ req'[r].pc = "remember" /\ req'[r].conversation = Own(r)
      /\ req'[r].failed = req[r].failed
      /\ req'[r].round = req[r].round /\ req'[r].history = req[r].history
  <2>1. "remember" \in PCs /\ "remember" \notin Over
    BY DEF PCs, Locked, Over
  <2>2. QED
    BY <1>1, <1>2, <2>1, GotoIs
<1>5. /\ \A q \in Sends : q # r => run'[q] = run[q]
      /\ req[r].round = "second" => run'[r]["second"] = "success"
      /\ req[r].round # "second" => run'[r]["second"] = run[r]["second"]
  <2>1. run \in [Sends -> [Rounds -> {"none", "running", "success", "failed"}]]
    BY <1>2 DEF Typed
  <2>2. QED
    BY <1>1, <1>3, <2>1 DEF Rounds
<1>6. run[r].second # "success"
  BY <1>1, <1>3 DEF MemoryInv, RoundIsKnown, At, Over, HasSaved
<1>7. RoundIsKnown(r)'
  BY <1>4, <1>5, <1>6 DEF RoundIsKnown, At
<1>8. Calm(r)
  BY <1>1, <1>4 DEF Calm, HasAnswered, At
<1>9. faults <= faults'
  BY <1>1, <1>2, FaultsStand
<1>10. RunTells(r)
  <2>1. ASSUME Open(Own(r)) PROVE Said(r, req[r].round)
    <3>1. /\ Follows(WithAnswer(r), Messages(Own(r))) /\ IsInjective(Messages(Own(r)))
          /\ Messages(Own(r)) \in Seq(Message)
      BY <1>1, <1>2, <1>3, <2>1, OwnFacts DEF HistoryFollows, HasAnswered, At
    <3>2. WithQuestion(r) \in Seq(Message) /\ <<r, req[r].round>> \in Message
      BY <1>3 DEF WithQuestion, Message, Roles, Request, Local
    <3>3. WithAnswer(r) \in Seq(Message) /\ <<r, req[r].round>> \in Range(WithAnswer(r))
      BY <3>2, RangeOfAppend DEF WithAnswer
    <3>4. QED
      BY <3>1, <3>3, OrderFollows DEF Said
  <2>2. \A round \in Rounds :
          run'[r][round] = IF round = req[r].round THEN "success" ELSE run[r][round]
    <3>1. run \in [Sends -> [Rounds -> {"none", "running", "success", "failed"}]]
      BY <1>2 DEF Typed
    <3>2. QED
      BY <1>1, <1>3, <3>1
  <2>3. QED
    BY <1>1, <1>3, <2>1, <2>2 DEF RunTells
<1>11. QED
  BY <1>1, <1>3, <1>4, <1>5, <1>6, <1>7, <1>8, <1>9, <1>10, CalmSend

\* It has saved the exchange, and goes on, is over, or lets another agent answer.
LEMMA SavedIsCalm ==
  ASSUME IInv, IInv', MemoryInv, NEW r \in Request,
         SaveContext(r) \/ SaveState(r) \/ ActivateAtOnce(r) \/ ReleaseChatLock(r)
  PROVE  MemoryInv'
<1>1. /\ req[r].pc \in HasSaved \cup {"release"} /\ run' = run
      /\ expiries' = expiries /\ faults' = faults
  BY DEF SaveContext, SaveState, ActivateAtOnce, ReleaseChatLock, At, HasSaved, Quiet, rows, counters
<1>2. Typed /\ Placed /\ req[r].pc \in Locked \cup {"release"}
  BY <1>1 DEF IInv, HasSaved, Locked
<1>3. r \in Sends /\ Own(r) \in DOMAIN conversations /\ req[r] \in Local
  BY <1>2, LockedIsPlaced, RowTypes
<1>4. CalmRows
  <2>1. CASE conversations' = conversations
    BY <2>1, RowsStand
  <2>2. CASE conversations' # conversations
    <3>1. \/ \E a : conversations' = [conversations EXCEPT ![Own(r)].agent = a]
          \/ \E x : conversations' = [conversations EXCEPT ![Own(r)].context = x]
      BY <2>2 DEF SaveContext, SaveState, ActivateAtOnce, ReleaseChatLock, Quiet, rows
    <3>2. QED
      BY <1>2, <1>3, <3>1, RowsStandBut
  <2>3. QED
    BY <2>1, <2>2
<1>5. faults <= faults'
  BY <1>1, <1>2, FaultsStand
<1>5a. RunTells(r)
  <2>1. ~At(r, "complete")
    BY <1>1 DEF At, HasSaved
  <2>2. QED
    BY <1>1, <2>1, StandingTells
<1>6. RoundIsKnown(r)
  BY <1>3 DEF MemoryInv
<1> DEFINE Fits(l) ==
      /\ l.conversation = Own(r) /\ (req[r].failed => l.failed)
      /\ \/ l.pc \in Over
         \/ /\ req[r].pc \in HasSaved /\ l.pc \in HasSaved /\ l.round = req[r].round
            /\ l.history = req[r].history
            /\ l.pc = "immediate" => l.round = "first"
         \/ /\ At(r, "immediate") /\ l.pc = "run" /\ l.round = "second"
            /\ l.history = req[r].history
<1>7. ASSUME NEW l, Fits(l), Becomes(r, l) PROVE MemoryInv'
  <2>1. (HasSaved \cup {"run"}) \cap Over = {} /\ "run" \in HasAsked /\ "immediate" \in HasSaved
        /\ {"give up", "remember", "immediate", "run"} \cap Over = {}
        /\ {"give up", "remember", "run"} \cap HasSaved = {}
    BY DEF HasSaved, Over, HasAsked
  <2>2. /\ Alone(r) /\ req'[r].pc = l.pc /\ req'[r].conversation = l.conversation
        /\ req'[r].failed = l.failed
        /\ l.pc \notin Over => req'[r] = l
    BY <1>2, <1>7, BecomingIs
  <2>3. CASE l.pc \in Over
    <3>1. Calm(r)
      BY <1>1, <1>7, <2>2, <2>3 DEF Calm, Over, Locked
    <3>2. RoundIsKnown(r)'
      BY <2>1, <2>2, <2>3 DEF RoundIsKnown, At
    <3>3. QED
      BY <1>1, <1>3, <1>4, <1>5, <1>5a, <2>2, <3>1, <3>2, CalmSend
  <2>4. CASE /\ req[r].pc \in HasSaved /\ l.pc \in HasSaved /\ l.round = req[r].round
             /\ l.history = req[r].history
             /\ l.pc = "immediate" => l.round = "first"
    <3>1. Calm(r)
      BY <1>7, <2>1, <2>2, <2>4 DEF Calm
    <3>2. RoundIsKnown(r)'
      BY <1>1, <1>6, <2>1, <2>2, <2>4 DEF RoundIsKnown, At
    <3>3. QED
      BY <1>1, <1>3, <1>4, <1>5, <1>5a, <2>2, <3>1, <3>2, CalmSend
  <2>5. CASE /\ At(r, "immediate") /\ l.pc = "run" /\ l.round = "second"
             /\ l.history = req[r].history
    <3>1. req[r].round = "first" /\ run[r].second # "success"
      BY <1>6, <2>1, <2>5 DEF RoundIsKnown, At
    <3>2. Calm(r)
      BY <1>7, <2>1, <2>2, <2>5, <3>1 DEF Calm, At
    <3>3. RoundIsKnown(r)'
      BY <1>1, <2>1, <2>2, <2>5, <3>1 DEF RoundIsKnown, At
    <3>4. QED
      BY <1>1, <1>3, <1>4, <1>5, <1>5a, <2>2, <3>2, <3>3, CalmSend
  <2>6. QED
    BY <1>7, <2>3, <2>4, <2>5
<1>8. "release" \in Over /\ "done" \in Over /\ {"context back", "state back", "immediate"} = HasSaved
  BY DEF Over, HasSaved
<1>9. ASSUME NEW pc \in Over, Goto(r, pc) \/ Throws(r, pc) PROVE MemoryInv'
  <2>1. Fits([req[r] EXCEPT !.pc = pc]) /\ Fits([req[r] EXCEPT !.pc = pc, !.failed = TRUE])
    BY <1>3 DEF Local, Own
  <2> HIDE DEF Fits
  <2>2. QED
    BY <1>7, <1>9, <2>1 DEF Goto, Throws
<1>10. CASE SaveContext(r)
  <2>1. CASE Open(Own(r))
    <3> DEFINE merged == Merged(req[r].agent, req[r].context, req[r].learned)
               l == [req[r] EXCEPT !.pc = "state back", !.context = merged,
                                   !.taught = @ \cup req[r].learned]
    <3>1. Becomes(r, l) /\ At(r, "context back")
      BY <1>10, <2>1 DEF SaveContext
    <3>2. merged \in SUBSET Var
      BY <1>3 DEF Merged, Local
    <3>3. /\ l.pc = "state back" /\ l.conversation = Own(r) /\ l.failed = req[r].failed
          /\ l.round = req[r].round /\ l.history = req[r].history
      BY <1>3, <3>2 DEF Local, Own
    <3> HIDE DEF l
    <3>4. Fits(l)
      BY <1>8, <3>1, <3>3 DEF At
    <3> HIDE DEF Fits
    <3>5. QED
      BY <1>7, <3>1, <3>4
  <2>2. CASE ~Open(Own(r))
    BY <1>8, <1>9, <1>10, <2>2 DEF SaveContext
  <2>3. QED
    BY <2>1, <2>2
<1>11. CASE SaveState(r)
  <2>1. CASE Open(Own(r)) /\ req[r].round = "first"
    <3>1. PICK l : l = [req[r] EXCEPT !.pc = "immediate"]
      OBVIOUS
    <3>2. Becomes(r, l) /\ At(r, "state back")
      BY <1>11, <2>1, <3>1 DEF SaveState, Goto
    <3>3. /\ l.pc = "immediate" /\ l.conversation = Own(r) /\ l.failed = req[r].failed
          /\ l.round = req[r].round /\ l.history = req[r].history
      BY <1>3, <3>1 DEF Local, Own
    <3>4. Fits(l)
      BY <1>8, <2>1, <3>2, <3>3 DEF At
    <3> HIDE DEF Fits
    <3>5. QED
      BY <1>7, <3>2, <3>4
  <2>2. CASE ~(Open(Own(r)) /\ req[r].round = "first")
    BY <1>8, <1>9, <1>11, <2>2 DEF SaveState
  <2>3. QED
    BY <2>1, <2>2
<1>12. CASE ActivateAtOnce(r)
  <2> DEFINE takers == Takers(req[r].agent, req[r].context)
             taker == First(takers)
             l == [req[r] EXCEPT !.pc = "run", !.round = "second", !.agent = taker]
  <2>1. takers # {} => taker \in Agent
    <3>1. takers \in SUBSET Agent
      BY TestChatAssumption DEF Takers
    <3>2. QED
      BY <3>1, FirstOfAgents
  <2>2. At(r, "immediate") /\ (Goto(r, "release") \/ (takers # {} /\ Becomes(r, l)))
    BY <1>12 DEF ActivateAtOnce
  <2> HIDE DEF takers, taker
  <2>3. CASE Goto(r, "release")
    BY <1>8, <1>9, <2>3
  <2>4. CASE takers # {} /\ Becomes(r, l)
    <3>1. /\ l.pc = "run" /\ l.conversation = Own(r) /\ l.failed = req[r].failed
          /\ l.round = "second" /\ l.history = req[r].history
      BY <1>3, <2>1, <2>4 DEF Local, Own, Rounds
    <3> HIDE DEF l
    <3>2. Fits(l)
      BY <2>2, <3>1
    <3> HIDE DEF Fits
    <3>3. QED
      BY <1>7, <2>4, <3>2
  <2>5. QED
    BY <2>2, <2>3, <2>4
<1>13. CASE ReleaseChatLock(r)
  BY <1>8, <1>9, <1>13 DEF ReleaseChatLock
<1>14. QED
  BY <1>10, <1>11, <1>12, <1>13

-----------------------------------------------------------------------------
(* A request that answers: the steps that say something, and the memory.   *)

LEMMA OwnSteps ==
  ASSUME NEW r \in Sends, Own(r) \in DOMAIN conversations, RowsKept(Own(r)), Alone(r),
         req'[r].conversation = Own(r), req'[r].failed = req[r].failed,
         req'[r].round = req[r].round,
         req[r].pc \in Locked \ HasSaved, req'[r].pc \in Locked,
         req[r].pc \in HasAsked \cup HasAnswered =>
           req'[r].pc \in HasAsked \cup HasAnswered \cup HasSaved,
         req[r].pc \in HasAnswered => req'[r].pc \in HasAnswered \cup HasSaved,
         ~At(r, "complete"),
         run' = run, expiries' = expiries, faults' = faults,
         \/ Messages(Own(r))' = Messages(Own(r))
         \/ \E role \in Roles : /\ Messages(Own(r))' = Append(Messages(Own(r)), <<r, role>>)
                                /\ ~MaySay(r, role) /\ MaySay(r, role)'
                                /\ role \in Rounds => At(r, "complete")' /\ role = req'[r].round
  PROVE  OwnStep(r)
<1>1. req[r].pc \notin Over \cup HasSaved
  BY StagesAreLocked
<1>2. \A role \in Roles : MaySay(r, role) => MaySay(r, role)'
  BY <1>1 DEF MaySay
<1>3. QED
  BY <1>2 DEF OwnStep, counters

LEMMA LoadingKeeps ==
  ASSUME IInv, IInv', MemoryInv, NEW r \in Request, LoadMemory(r)
  PROVE  MemoryInv'
<1>1. /\ At(r, "memory") /\ conversations' = conversations /\ run' = run
      /\ expiries' = expiries /\ faults' = faults /\ Typed /\ Typed' /\ req[r].pc \in Locked
  <2>1. Typed /\ Typed'
    BY DEF IInv
  <2>2. QED
    BY <2>1 DEF LoadMemory, Quiet, rows, counters, At, Locked
<1>2. PICK c : c = Own(r)
  OBVIOUS
<1>3. /\ r \in Sends /\ c \in DOMAIN conversations /\ req[r] \in Local
      /\ Messages(c) \in Seq(Message) /\ Memory(c) \in Seq(Message)
      /\ MemoryFollows(c) /\ MemoryLimit \in Nat \ {0} /\ MessagesAreOwn(c)
      /\ Clean(c) => MemoryIsWhole(c)
  BY <1>1, <1>2, OwnFacts
<1>4. Remembered(Messages(c)) \in Seq(Message)
  BY <1>3, RememberedType
<1>5. PICK h \in Seq(Message), pc \in HasHistory :
        /\ Becomes(r, [req[r] EXCEPT !.pc = pc, !.history = h])
        /\ \/ h = Memory(c) /\ (h = <<>> /\ Open(c) => Remembered(Messages(c)) = <<>>)
           \/ h = Remembered(Messages(c)) /\ Open(c)
  <2>1. PICK cached : cached = Memory(c)
    OBVIOUS
  <2>2. PICK stored : stored = IF Open(c) THEN Remembered(Messages(c)) ELSE <<>>
    OBVIOUS
  <2>3. cached \in Seq(Message) /\ stored \in Seq(Message)
    BY <1>3, <1>4, <2>1, <2>2
  <2>4. Becomes(r, IF cached # <<>> \/ stored = <<>>
           THEN [req[r] EXCEPT !.pc = "inbound", !.history = cached]
           ELSE [req[r] EXCEPT !.pc = "refill", !.history = stored])
    BY <1>2, <1>3, <2>1, <2>2 DEF LoadMemory, Memory, Messages
  <2>5. "inbound" \in HasHistory /\ "refill" \in HasHistory
    BY DEF HasHistory
  <2>6. CASE cached # <<>> \/ stored = <<>>
    BY <2>1, <2>2, <2>3, <2>4, <2>5, <2>6
  <2>7. CASE ~(cached # <<>> \/ stored = <<>>)
    BY <2>2, <2>3, <2>4, <2>5, <2>7
  <2>8. QED
    BY <2>6, <2>7
<1>6. PICK l : l = [req[r] EXCEPT !.pc = pc, !.history = h]
  OBVIOUS
<1>7. /\ l.pc = pc /\ l.conversation = c /\ l.failed = req[r].failed /\ l.round = req[r].round
      /\ l.history = h
  BY <1>2, <1>3, <1>6 DEF Local, Own
<1>8. HasHistory \cap (Over \cup HasSaved \cup HasAsked \cup HasAnswered) = {}
      /\ HasHistory \subseteq Locked
      /\ "memory" \notin HasAsked \cup HasAnswered \cup HasSaved
      /\ {"immediate", "give up", "remember"} \cap HasHistory = {}
  BY DEF HasHistory, Over, HasSaved, HasAsked, HasAnswered, Locked
<1>9. Alone(r) /\ req'[r] = l
  BY <1>1, <1>5, <1>6, <1>7, <1>8, BecomingIs
<1>10. RowsKept(c) /\ Messages(c)' = Messages(c) /\ Memory(c)' = Memory(c)
  BY <1>1, <1>3 DEF RowsKept, Messages, Memory
<1>11. OwnStep(r)
  <2>1. Messages(Own(r))' = Messages(Own(r))
    BY <1>1, <1>2, <1>7, <1>9 DEF Messages, Own
  <2>2. QED
    BY <1>1, <1>2, <1>3, <1>5, <1>7, <1>8, <1>9, <1>10, <2>1, OwnSteps DEF At
<1>12. /\ Follows(h, Messages(c)) \/ ~Open(c)
       /\ Open(c)' <=> Open(c)
  <2>1. Follows(Remembered(Messages(c)), Messages(c))
    BY <1>3, FollowsItself, FollowsNewest DEF Remembered
  <2>2. QED
    BY <1>1, <1>3, <1>5, <2>1 DEF MemoryFollows, Open
<1>13. MemoryFollows(c)'
  BY <1>3, <1>10, <1>12 DEF MemoryFollows
<1>14. Own(r)' = c
  BY <1>7, <1>9 DEF Own
<1>15. HistoryFollows(r)'
  BY <1>5, <1>7, <1>8, <1>9, <1>10, <1>12, <1>14 DEF HistoryFollows
<1>16. RoundIsKnown(r)'
  <2>1. run[r].second # "success"
    BY <1>1, <1>3 DEF MemoryInv, RoundIsKnown, At, Over, HasSaved
  <2>2. QED
    BY <1>1, <1>5, <1>7, <1>8, <1>9, <2>1 DEF RoundIsKnown, At
<1>17. ASSUME Clean(c) PROVE MemoryIsWhole(c)' /\ HistoryIsWhole(r)'
  <2>1. MemoryIsWhole(c)' /\ \A m : m[1] \in Sends /\ Excused(m) => Excused(m)'
    BY <1>1, <1>2, <1>3, <1>5, <1>7, <1>8, <1>9, <1>10, <1>11, <1>17, StaysWhole
  <2>2. SUFFICES ASSUME NEW m \in Window(c), m \notin Range(h), m[1] # r
                 PROVE  Excused(m)
    <3>1. Window(c)' = Window(c)
      BY <1>10 DEF Window
    <3>2. \A m \in Window(c) : m[1] \in Sends
      BY <1>3, <1>1, WindowIsOwn
    <3>3. HistoryIsWhole(r)'
      BY <1>7, <1>9, <1>14, <2>1, <2>2, <3>1, <3>2 DEF HistoryIsWhole
    <3>4. QED
      BY <2>1, <3>3
  <2>3. Open(c)
    BY <1>17 DEF Clean
  <2>4. h = Memory(c) /\ h # <<>>
    BY <1>5, <2>2, <2>3, NothingSaid DEF Window
  <2>5. m[1] \in Unsaved(c) \/ Excused(m)
    BY <1>3, <1>17, <2>2, <2>4 DEF MemoryIsWhole
  <2>6. ASSUME m[1] \in Unsaved(c) PROVE FALSE
    <3>1. m[1] \in Answering(c) /\ r \in Answering(c)
      BY <1>1, <1>2, <1>3, <2>6 DEF Unsaved, Answering
    <3>2. PICK q : q = m[1]
      OBVIOUS
    <3>3. QED
      BY <1>3, <1>17, <2>2, <3>1, <3>2, OnlyOneAnswers
  <2>7. QED
    BY <2>5, <2>6
<1>18. QED
  BY <1>1, <1>2, <1>3, <1>11, <1>13, <1>15, <1>16, <1>17, OwnKeeps

LEMMA RefillingKeeps ==
  ASSUME IInv, IInv', MemoryInv, NEW r \in Request, Refill(r)
  PROVE  MemoryInv'
<1>1. /\ At(r, "refill") /\ Goto(r, "inbound") /\ run' = run
      /\ conversations' = [conversations EXCEPT ![Own(r)].memory = Remembered(req[r].history)]
      /\ expiries' = expiries /\ faults' = faults /\ Typed /\ Typed' /\ req[r].pc \in Locked
  <2>1. Typed /\ Typed'
    BY DEF IInv
  <2>2. QED
    BY <2>1 DEF Refill, counters, At, Locked
<1>2. PICK c, h : c = Own(r) /\ h = req[r].history
  OBVIOUS
<1>3. /\ r \in Sends /\ c \in DOMAIN conversations
      /\ Messages(c) \in Seq(Message) /\ h \in Seq(Message) /\ IsInjective(Messages(c))
      /\ HistoryFollows(r) /\ RoundIsKnown(r) /\ MemoryLimit \in Nat \ {0} /\ MessagesAreOwn(c)
      /\ Clean(c) => HistoryIsWhole(r)
  BY <1>1, <1>2, OwnFacts
<1>4. Remembered(h) \in Seq(Message)
  BY <1>3, RememberedType
<1>5. /\ {"refill", "inbound"} = HasHistory /\ HasHistory \cap (Over \cup HasSaved) = {}
      /\ HasHistory \cap (HasAsked \cup HasAnswered) = {} /\ HasHistory \subseteq Locked \cap PCs
  BY DEF HasHistory, Over, HasSaved, HasAsked, HasAnswered, Locked, PCs
<1>6. /\ Alone(r) /\ req'[r].pc = "inbound" /\ req'[r].conversation = c
      /\ req'[r].failed = req[r].failed
      /\ req'[r].round = req[r].round /\ req'[r].history = h
  BY <1>1, <1>2, <1>5, GotoIs
<1>7. RowsKept(c) /\ Messages(c)' = Messages(c) /\ Memory(c)' = Remembered(h)
  BY <1>1, <1>2, <1>3, <1>4, MemoryWritten
<1>8. Own(r)' = c
  BY <1>6 DEF Own
<1>9. OwnStep(r)
  <2>1. Messages(Own(r))' = Messages(Own(r))
    BY <1>2, <1>7, <1>8
  <2>2. QED
    BY <1>1, <1>2, <1>3, <1>5, <1>6, <1>7, <2>1, OwnSteps DEF At
<1>10. Open(c) => Follows(h, Messages(c))
  BY <1>1, <1>2, <1>3, <1>5 DEF HistoryFollows, At
<1>11. Open(c)' <=> Open(c)
  BY <1>3, <1>7 DEF RowsKept, Open
<1>12. MemoryFollows(c)'
  BY <1>3, <1>7, <1>10, <1>11, FollowsNewest DEF MemoryFollows, Remembered
<1>13. HistoryFollows(r)'
  BY <1>5, <1>6, <1>7, <1>8, <1>10, <1>11 DEF HistoryFollows
<1>14. RoundIsKnown(r)'
  BY <1>1, <1>3, <1>5, <1>6 DEF RoundIsKnown, At
<1>15. ASSUME Clean(c) PROVE MemoryIsWhole(c)' /\ HistoryIsWhole(r)'
  <2>1. /\ HistoryIsWhole(r)' /\ Window(c)' = Window(c)
        /\ \A m : m[1] \in Sends /\ Excused(m) => Excused(m)'
    BY <1>1, <1>2, <1>3, <1>5, <1>6, <1>7, <1>9, <1>15, StaysWhole DEF At, Window
  <2>2. SUFFICES ASSUME NEW m \in Window(c), m \notin Range(Remembered(h))
                 PROVE  m[1] \in Unsaved(c)' \/ Excused(m)'
    BY <1>7, <2>1 DEF MemoryIsWhole
  <2>3. m \notin Range(h)
    BY <1>3, <1>10, <1>15, <2>2, NewestSuffice DEF Window, Remembered, Clean
  <2>4. m[1] = r \/ Excused(m)
    BY <1>1, <1>2, <1>3, <1>5, <1>15, <2>2, <2>3 DEF HistoryIsWhole, At
  <2>5. m[1] \in Sends
    BY <1>1, <1>3, <2>2, WindowIsOwn
  <2>6. r \in Unsaved(c)'
    BY <1>3, <1>5, <1>6, <1>8 DEF Unsaved
  <2>7. CASE m[1] = r
    BY <2>6, <2>7
  <2>8. CASE m[1] # r
    BY <2>1, <2>4, <2>5, <2>8
  <2>9. QED
    BY <2>7, <2>8
<1>16. QED
  BY <1>1, <1>2, <1>3, <1>9, <1>12, <1>13, <1>14, <1>15, OwnKeeps

\* A message is stored, or its conversation is gone and the request with it.
LEMMA StoringKeeps ==
  ASSUME IInv, IInv', MemoryInv, NEW r \in Request, SaveInbound(r) \/ SaveReply(r)
  PROVE  MemoryInv'
<1>1. Typed /\ Typed'
  BY DEF IInv
<1>2. /\ req[r].pc \in {"inbound", "reply"} /\ run' = run
      /\ expiries' = expiries /\ faults' = faults /\ req[r].pc \in Locked
  BY DEF SaveInbound, SaveReply, counters, At, Locked
<1>3. PICK c, h, role, pc :
        /\ c = Own(r) /\ h = req[r].history
        /\ role = IF At(r, "inbound") THEN "user" ELSE req[r].round
        /\ pc = IF At(r, "inbound") THEN "run" ELSE "complete"
  OBVIOUS
<1>4. /\ r \in Sends /\ c \in DOMAIN conversations /\ req[r] \in Local
      /\ Messages(c) \in Seq(Message) /\ h \in Seq(Message) /\ IsInjective(Messages(c))
      /\ HistoryFollows(r) /\ RoundIsKnown(r) /\ MemoryLimit \in Nat \ {0} /\ MessagesAreOwn(c)
      /\ MemoryFollows(c) /\ Memory(c) \in Seq(Message)
  BY <1>2, <1>3, OwnFacts
<1>5. Store(r, role, pc)
  BY <1>2, <1>3 DEF SaveInbound, SaveReply, At
<1>6. CASE ~Open(c)
  <2>1. conversations' = conversations /\ Throws(r, "release")
    BY <1>3, <1>5, <1>6 DEF Store
  <2>2. /\ Alone(r) /\ req'[r].pc = "release" /\ req'[r].conversation = Own(r) /\ req'[r].failed
    BY <1>1, <2>1, ThrowsIs DEF PCs
  <2>3. Calm(r)
    BY <2>2 DEF Calm, Over
  <2>4. RoundIsKnown(r)'
    BY <2>2 DEF RoundIsKnown, At, Over
  <2>5. CalmRows /\ faults <= faults'
    BY <1>1, <1>2, <2>1, RowsStand, FaultsStand
  <2>6. RunTells(r)
    BY <1>2, StandingTells DEF At
  <2>7. QED
    BY <1>2, <1>4, <2>2, <2>3, <2>4, <2>5, <2>6, CalmSend
<1>7. CASE Open(c)
  <2>1. /\ conversations' = [conversations EXCEPT ![c].messages = Append(@, <<r, role>>)]
        /\ Goto(r, pc)
    BY <1>3, <1>5, <1>7 DEF Store
  <2>2. role \in Roles /\ <<r, role>> \in Message /\ req[r].round \in Rounds
    BY <1>3, <1>4 DEF Roles, Message, Local
  <2>3. /\ {"immediate", "give up", "remember"} \cap {"inbound", "reply", "run", "complete"} = {}
        /\ "inbound" \in HasHistory /\ {"run", "reply"} \subseteq HasAsked
        /\ "complete" \in HasAnswered
        /\ {"run", "complete"} \subseteq (Locked \cap PCs) \ (Over \cup HasSaved)
        /\ HasHistory \cap (HasAsked \cup HasAnswered \cup HasSaved \cup Over) = {}
        /\ HasAsked \cap (HasAnswered \cup HasSaved \cup Over) = {}
        /\ HasAnswered \cap (HasHistory \cup HasAsked \cup HasSaved \cup Over) = {}
    BY DEF HasHistory, Over, HasSaved, HasAsked, HasAnswered, Locked, PCs
  <2>4. pc \in {"run", "complete"} /\ pc \notin Over /\ pc \in PCs /\ pc \in Locked
    BY <1>3, <2>3
  <2>5. /\ Alone(r) /\ req'[r].pc = pc /\ req'[r].conversation = c
        /\ req'[r].failed = req[r].failed
        /\ req'[r].round = req[r].round /\ req'[r].history = h
    BY <1>1, <1>3, <2>1, <2>4, GotoIs
  <2>6. RowsKept(c) /\ Messages(c)' = Append(Messages(c), <<r, role>>) /\ Memory(c)' = Memory(c)
    BY <1>1, <1>4, <2>1, <2>2, MessageWritten
  <2>7. Own(r)' = c
    BY <2>5 DEF Own
  <2>8. ~MaySay(r, role) /\ MaySay(r, role)'
    <3>1. CASE At(r, "inbound")
      <4>1. role = "user" /\ pc = "run" /\ req[r].round # "user" /\ req[r].pc \in HasHistory
        BY <1>3, <2>2, <2>3, <3>1 DEF Rounds, At
      <4>2. QED
        BY <2>3, <2>5, <4>1 DEF MaySay
    <3>2. CASE ~At(r, "inbound")
      <4>1. role = req[r].round /\ pc = "complete" /\ req[r].pc = "reply"
            /\ role # "user" /\ ~(role = "first" /\ req[r].round = "second")
        BY <1>2, <1>3, <2>2, <3>2 DEF Rounds, At
      <4>2. req[r].pc \in HasAsked
        BY <2>3, <4>1
      <4>3. QED
        BY <2>3, <2>5, <4>1, <4>2 DEF MaySay
    <3>3. QED
      BY <3>1, <3>2
  <2>9. req[r].pc \in HasHistory \cup HasAsked /\ req[r].pc \notin HasSaved \cup HasAnswered
        /\ (req[r].pc \in HasAsked => pc \in HasAnswered)
    <3>1. CASE At(r, "inbound")
      BY <2>3, <3>1 DEF At
    <3>2. CASE ~At(r, "inbound")
      BY <1>2, <1>3, <2>3, <3>2 DEF At
    <3>3. QED
      BY <3>1, <3>2
  <2>10. OwnStep(r)
    <3>1. Messages(Own(r))' = Append(Messages(Own(r)), <<r, role>>)
      BY <1>3, <2>6, <2>7
    <3>2. ~At(r, "complete") /\ (role \in Rounds => At(r, "complete")' /\ role = req'[r].round)
      BY <1>2, <1>3, <2>5 DEF At, Rounds
    <3>3. QED
      BY <1>2, <1>3, <1>4, <2>2, <2>4, <2>5, <2>6, <2>8, <2>9, <3>1, <3>2, OwnSteps
  <2>11. Open(c)'
    BY <1>4, <1>7, <2>6 DEF RowsKept, Open
  <2>12. MemoryFollows(c)'
    BY <1>4, <1>7, <2>2, <2>6, FollowsOn DEF MemoryFollows
  <2>13. HistoryFollows(r)'
    <3>1. CASE At(r, "inbound")
      <4>1. Follows(h, Messages(c)) /\ role = "user" /\ pc = "run"
        BY <1>3, <1>4, <1>7, <2>3, <3>1 DEF HistoryFollows, At
      <4>2. Follows(Append(h, <<r, role>>), Messages(c)')
        BY <1>4, <2>2, <2>6, <4>1, FollowsTogether
      <4>3. WithQuestion(r)' = Append(h, <<r, role>>)
        BY <2>5, <4>1 DEF WithQuestion
      <4>4. QED
        BY <2>3, <2>5, <2>7, <4>1, <4>2, <4>3 DEF HistoryFollows
    <3>2. CASE ~At(r, "inbound")
      <4>1. Follows(WithQuestion(r), Messages(c)) /\ role = req[r].round /\ pc = "complete"
        BY <1>2, <1>3, <1>4, <1>7, <2>3, <3>2 DEF HistoryFollows, At
      <4>2. WithQuestion(r) \in Seq(Message)
        BY <1>3, <1>4 DEF WithQuestion, Message, Roles, Request
      <4>3. Follows(Append(WithQuestion(r), <<r, role>>), Messages(c)')
        BY <1>4, <2>2, <2>6, <4>1, <4>2, FollowsTogether
      <4>4. WithAnswer(r)' = Append(WithQuestion(r), <<r, role>>)
        BY <1>3, <2>5, <4>1 DEF WithAnswer, WithQuestion
      <4>5. QED
        BY <2>3, <2>5, <2>7, <4>1, <4>3, <4>4 DEF HistoryFollows
    <3>3. QED
      BY <3>1, <3>2
  <2>14. RoundIsKnown(r)'
    <3>1. run[r].second # "success"
      BY <1>2, <1>4, <2>3, <2>9 DEF RoundIsKnown
    <3>2. QED
      BY <1>2, <2>3, <2>4, <2>5, <3>1 DEF RoundIsKnown, At
  <2>15. ASSUME Clean(c) PROVE MemoryIsWhole(c)' /\ HistoryIsWhole(r)'
    BY <1>1, <1>3, <1>4, <2>3, <2>4, <2>5, <2>6, <2>9, <2>10, <2>15, StaysWhole
  <2>16. QED
    BY <1>1, <1>3, <1>4, <2>10, <2>12, <2>13, <2>14, <2>15, OwnKeeps
<1>8. QED
  BY <1>6, <1>7

LEMMA SavingKeeps ==
  ASSUME IInv, IInv', MemoryInv, NEW r \in Request, SaveMemory(r)
  PROVE  MemoryInv'
<1>1. /\ At(r, "remember") /\ Goto(r, "context back") /\ run' = run
      /\ conversations' = [conversations EXCEPT ![Own(r)].memory = Exchange(r)]
      /\ expiries' = expiries /\ faults' = faults /\ Typed /\ Typed' /\ req[r].pc \in Locked
  <2>1. Typed /\ Typed'
    BY DEF IInv
  <2>2. QED
    BY <2>1 DEF SaveMemory, counters, At, Locked
<1>2. PICK c, h, round, s :
        c = Own(r) /\ h = req[r].history /\ round = req[r].round /\ s = WithAnswer(r)
  OBVIOUS
<1>3. /\ r \in Sends /\ r \in Request /\ c \in DOMAIN conversations /\ req[r] \in Local
      /\ Messages(c) \in Seq(Message) /\ h \in Seq(Message) /\ IsInjective(Messages(c))
      /\ HistoryFollows(r) /\ RoundIsKnown(r) /\ MemoryLimit \in Nat \ {0} /\ MessagesAreOwn(c)
      /\ Clean(c) => HistoryIsWhole(r)
  BY <1>1, <1>2, OwnFacts
<1>4. <<r, "user">> \in Message /\ <<r, round>> \in Message /\ round \in Rounds
  BY <1>2, <1>3 DEF Message, Roles, Local
<1>5. PICK asked \in Seq(Message) : asked = WithQuestion(r) /\ asked = Append(h, <<r, "user">>)
  <2>1. Append(h, <<r, "user">>) \in Seq(Message)
    BY <1>3, <1>4, AppendProperties
  <2>2. WithQuestion(r) = Append(h, <<r, "user">>)
    BY <1>2 DEF WithQuestion
  <2>3. QED
    BY <2>1, <2>2
<1>6. s \in Seq(Message) /\ s = Append(asked, <<r, round>>)
  BY <1>2, <1>4, <1>5 DEF WithAnswer
<1>7. Exchange(r) = Remembered(s) /\ Remembered(s) \in Seq(Message)
  <2>1. h \o << <<r, "user">>, <<r, round>> >> = Append(Append(h, <<r, "user">>), <<r, round>>)
    BY <1>3, <1>4
  <2>2. QED
    BY <1>2, <1>5, <1>6, <2>1, RememberedType DEF Exchange
<1>8. /\ "remember" \in HasAnswered /\ "context back" \in HasSaved
      /\ "context back" \in (Locked \cap PCs) \ (Over \cup HasHistory \cup HasAsked \cup HasAnswered)
      /\ "remember" \notin HasSaved \cup HasHistory \cup HasAsked \cup Over
  BY DEF HasHistory, Over, HasSaved, HasAsked, HasAnswered, Locked, PCs
<1>9. /\ Alone(r) /\ req'[r].pc = "context back" /\ req'[r].conversation = c
      /\ req'[r].failed = req[r].failed
      /\ req'[r].round = round /\ req'[r].history = h
  BY <1>1, <1>2, <1>8, GotoIs
<1>10. RowsKept(c) /\ Messages(c)' = Messages(c) /\ Memory(c)' = Remembered(s)
  BY <1>1, <1>2, <1>3, <1>7, MemoryWritten
<1>11. Own(r)' = c
  BY <1>9 DEF Own
<1>12. OwnStep(r)
  <2>1. Messages(Own(r))' = Messages(Own(r))
    BY <1>2, <1>10, <1>11
  <2>2. QED
    BY <1>1, <1>2, <1>3, <1>8, <1>9, <1>10, <2>1, OwnSteps DEF At
<1>13. Open(c) => Follows(s, Messages(c))
  BY <1>1, <1>2, <1>3, <1>8 DEF HistoryFollows, At
<1>14. Open(c)' <=> Open(c)
  BY <1>3, <1>10 DEF RowsKept, Open
<1>15. MemoryFollows(c)'
  BY <1>3, <1>6, <1>10, <1>13, <1>14, FollowsNewest DEF MemoryFollows, Remembered
<1>16. HistoryFollows(r)'
  <2>1. Open(c) => Follows(asked, Messages(c))
    BY <1>3, <1>4, <1>5, <1>6, <1>13, FollowsLess
  <2>2. WithQuestion(r)' = asked
    BY <1>5, <1>9 DEF WithQuestion
  <2>3. QED
    BY <1>8, <1>9, <1>10, <1>11, <1>14, <2>1, <2>2 DEF HistoryFollows
<1>17. RoundIsKnown(r)'
  BY <1>1, <1>2, <1>3, <1>8, <1>9 DEF RoundIsKnown, At
<1>18. ASSUME Clean(c) PROVE MemoryIsWhole(c)' /\ HistoryIsWhole(r)'
  <2>1. /\ HistoryIsWhole(r)' /\ Window(c)' = Window(c)
        /\ \A m : m[1] \in Sends /\ Excused(m) => Excused(m)'
    BY <1>1, <1>2, <1>3, <1>8, <1>9, <1>10, <1>12, <1>18, StaysWhole DEF At, Window
  <2>2. SUFFICES ASSUME NEW m \in Window(c), m \notin Range(Remembered(s))
                 PROVE  Excused(m)
    <3>1. \A x \in Window(c) : x[1] \in Sends
      BY <1>1, <1>3, WindowIsOwn
    <3>2. MemoryIsWhole(c)'
      BY <1>10, <2>1, <2>2, <3>1 DEF MemoryIsWhole
    <3>3. QED
      BY <2>1, <3>2
  <2>3. m \in Range(Messages(c)) /\ m \in Message /\ m[1] \in Sends
    BY <1>1, <1>3, <2>2, WindowIsOwn
  <2>4. m \notin Range(s)
    BY <1>3, <1>6, <1>13, <1>18, <2>2, NewestSuffice DEF Window, Remembered, Clean
  <2>5. m \notin Range(h) /\ m # <<r, "user">> /\ m # <<r, round>>
    <3>1. Range(Append(h, <<r, "user">>)) = Range(h) \cup {<<r, "user">>}
      BY <1>3, <1>4, RangeOfAppend
    <3>2. Range(s) = Range(asked) \cup {<<r, round>>}
      BY <1>4, <1>6, RangeOfAppend
    <3>3. QED
      BY <1>5, <2>4, <3>1, <3>2
  <2>6. m[1] = r \/ Excused(m)
    BY <1>1, <1>2, <1>3, <1>8, <1>18, <2>2, <2>5 DEF HistoryIsWhole, At
  <2>7. CASE m[1] = r
    <3>1. PICK role \in Roles : m = <<r, role>>
      BY <2>3, <2>7 DEF Message
    <3>2. role # "user" /\ role # round
      BY <2>5, <3>1
    <3>3. MaySay(r, role)
      BY <1>3, <2>3, <3>1 DEF MessagesAreOwn
    <3>4. role = "first" /\ round = "second"
      BY <1>1, <1>2, <1>8, <3>2, <3>3 DEF MaySay, At
    <3>5. run[r].second = "success"
      BY <1>1, <1>2, <1>3, <3>4 DEF RoundIsKnown
    <3>6. QED
      BY <3>1, <3>4, <3>5 DEF Excused
  <2>8. QED
    BY <2>6, <2>7
<1>19. QED
  BY <1>1, <1>2, <1>3, <1>12, <1>15, <1>16, <1>17, <1>18, OwnKeeps

-----------------------------------------------------------------------------
(* The invariant of the memory holds, and what follows from it.            *)

LEMMA MemoryInit ==
  ASSUME Init
  PROVE  MemoryInv
<1>1. /\ conversations = <<>> /\ req = [r \in Request |-> Idle]
      /\ run = [r \in Sends |-> [round \in Rounds |-> "none"]]
  BY DEF Init
<1>2. DOMAIN conversations = {}
  BY <1>1
<1>3. \A r \in Sends : req[r].pc = "idle" /\ ~Open(Own(r))
  BY <1>1, <1>2 DEF Idle, Request, Open
<1>4. \A r \in Sends : HistoryFollows(r)
  BY <1>3 DEF HistoryFollows
<1>5. \A r \in Sends : RoundIsKnown(r)
  <2>1. \A r \in Sends : run[r].second # "success"
    BY <1>1 DEF Rounds
  <2>2. QED
    BY <1>3, <2>1 DEF RoundIsKnown, At
<1>6. \A r \in Sends, round \in Rounds : IsTold(r, round)
  BY <1>3 DEF IsTold
<1>7. QED
  BY <1>2, <1>4, <1>5, <1>6 DEF MemoryInv

LEMMA ServingKeepsMemory ==
  ASSUME IInv, IInv', MemoryInv, NEW r \in Request, Serve(r)
  PROVE  MemoryInv'
<1>1. CASE \/ TakeIdentityLock(r) \/ FindIdentity(r) \/ Register(r) \/ ReleaseIdentityLock(r)
           \/ Configure(r) \/ TakeChatLock(r) \/ FindConversation(r) \/ LoadContext(r)
           \/ LoadState(r) \/ CreateConversation(r)
  BY <1>1, IdentityIsCalm, ReadingIsCalm, CreationIsCalm
<1>2. CASE \/ DescribeImages(r) \/ UseApi(r) \/ UseSearch(r) \/ TransferToHuman(r) \/ AskGemini(r)
           \/ AskOpenAICompatible(r) \/ StoreFile(r) \/ CreatePart(r) \/ StartRun(r) \/ FailRun(r)
           \/ CompleteRun(r)
  BY <1>2, AskingIsCalm, RunIsCalm, CompletionIsCalm
<1>3. CASE \/ SaveContext(r) \/ SaveState(r) \/ ActivateAtOnce(r) \/ ReleaseChatLock(r)
           \/ ListConversations(r) \/ WipeMemory(r) \/ WipeLock(r) \/ DeleteConversations(r)
  BY <1>3, SavedIsCalm, ListingIsCalm, WipingIsCalm, DeletionIsCalm
<1>4. CASE LoadMemory(r) \/ Refill(r) \/ SaveInbound(r) \/ SaveReply(r) \/ SaveMemory(r)
  BY <1>4, LoadingKeeps, RefillingKeeps, StoringKeeps, SavingKeeps
<1>5. QED
  BY <1>1, <1>2, <1>3, <1>4 DEF Serve

LEMMA MemoryNext ==
  ASSUME IInv, IInv', MemoryInv, [Next]_vars
  PROVE  MemoryInv'
<1>1. ASSUME NEW r \in Request, BeginSend(r) \/ BeginClear(r) \/ Serve(r) \/ CallFails(r)
      PROVE  MemoryInv'
  BY <1>1, BeginIsCalm, ServingKeepsMemory, FailureIsCalm
<1>2. CASE Crash
  BY <1>2, CrashIsCalm
<1>3. CASE \/ IdentityLockExpires \/ Finished \/ UNCHANGED vars
           \/ \E c \in DOMAIN conversations : ChatLockExpires(c) \/ MemoryExpires(c)
  BY <1>3, ExpiryIsCalm
<1>4. QED
  BY <1>1, <1>2, <1>3 DEF Next

LEMMA MemoryIsTold ==
  ASSUME IInv, MemoryInv
  PROVE  MemoryFollowsMessages
<1>1. Typed
  BY DEF IInv
<1>2. SUFFICES ASSUME NEW c \in DOMAIN conversations, Open(c)
               PROVE  /\ Range(Memory(c)) \subseteq Range(Messages(c))
                      /\ \A i, j \in DOMAIN Memory(c) :
                           i < j => Position(c, Memory(c)[i]) < Position(c, Memory(c)[j])
                      /\ Memory(c) # <<>> /\ expiries = 0 /\ faults = 0
                         /\ Answering(c) = {} /\ ~BeingCleared(c) =>
                           \A m \in Range(Remembered(Messages(c))) \ Range(Memory(c)) :
                             \/ req[m[1]].failed
                             \/ m[2] = "first" /\ run[m[1]].second = "success"
  BY DEF MemoryFollowsMessages, Memory, Messages
<1>3. /\ Memory(c) \in Seq(Message) /\ Messages(c) \in Seq(Message)
      /\ Follows(Memory(c), Messages(c)) /\ IsInjective(Messages(c))
  BY <1>1, <1>2, RowSequences DEF MemoryInv, MemoryFollows, MessagesAreOwn
<1>4. /\ Range(Memory(c)) \subseteq Range(Messages(c))
      /\ \A i, j \in DOMAIN Memory(c) :
           i < j => Position(c, Memory(c)[i]) < Position(c, Memory(c)[j])
  BY <1>3, OrderFollows DEF Position, Messages
<1>5. ASSUME Memory(c) # <<>>, expiries = 0, faults = 0, Answering(c) = {}, ~BeingCleared(c),
             NEW m \in Range(Remembered(Messages(c))) \ Range(Memory(c))
      PROVE  Excused(m)
  <2>1. MemoryIsWhole(c)
    BY <1>2, <1>5 DEF MemoryInv, Clean
  <2>2. Unsaved(c) = {}
    BY <1>5 DEF Unsaved, Answering
  <2>3. QED
    BY <1>5, <2>1, <2>2 DEF MemoryIsWhole, Window
<1>6. QED
  BY <1>4, <1>5 DEF Excused

\* The memory keeps the order of what was said and, at rest and undisturbed,
\* misses of the newest only what a failed request or a taken-over turn said.
THEOREM MemoryIsFaithful == Spec => []MemoryFollowsMessages
<1>1. Init => MemoryInv
  BY MemoryInit
<1>2. IInv /\ IInv' /\ MemoryInv /\ [Next]_vars => MemoryInv'
  BY MemoryNext
<1>3. IInv /\ MemoryInv => MemoryFollowsMessages
  BY MemoryIsTold
<1>4. QED
  BY <1>1, <1>2, <1>3, ChatInductive, PTL DEF Spec

LEMMA RunsAreOver ==
  ASSUME IInv, MemoryInv
  PROVE  RunsEndWithTheirRequest
<1>1. SUFFICES ASSUME NEW r \in Sends, NEW round \in Rounds
               PROVE  /\ run[r][round] = "running" /\ ~UnderWay(r) =>
                           faults > 0 \/ RefusedOf(req[r].files) # {} \/ ~Open(Own(r))
                      /\ Open(Own(r)) =>
                           /\ run[r][round] = "success" => Said(r, round)
                           /\ Said(r, round) /\ ~UnderWay(r) =>
                                run[r][round] = "success" \/ faults > 0
  BY DEF RunsEndWithTheirRequest, Said, Messages
<1>2. ~UnderWay(r) => req[r].pc \notin InRun
  BY DEF UnderWay, InRun
<1>3. RunIsUnderWay(r) /\ IsTold(r, round)
  BY DEF IInv, RunsAreUnderWay, MemoryInv
<1>4. ~UnderWay(r) => ~At(r, "complete")
  BY <1>2 DEF At, InRun
<1>5. QED
  BY <1>2, <1>3, <1>4 DEF RunIsUnderWay, IsTold

\* A run is left "running" only after a failure, a refused file or a clear; and
\* where nothing fails, it is a success just when its reply stands.
THEOREM RunsEnd == Spec => []RunsEndWithTheirRequest
<1>1. Init => MemoryInv
  BY MemoryInit
<1>2. IInv /\ IInv' /\ MemoryInv /\ [Next]_vars => MemoryInv'
  BY MemoryNext
<1>3. IInv /\ MemoryInv => RunsEndWithTheirRequest
  BY RunsAreOver
<1>4. QED
  BY <1>1, <1>2, <1>3, ChatInductive, PTL DEF Spec

=============================================================================
