------------------------- MODULE KnowledgeIngestion -------------------------
(***************************************************************************)
(* The documents of knowledge bases: KnowledgeService creates and deletes  *)
(* them, KnowledgeProcessor cuts them into chunks and stores an embedding  *)
(* for each.  One step per awaited call; a document may be deleted between *)
(* any two of them, a call may fail, a process may die, and a job that     *)
(* failed for good may be replayed from the dead-letter queue.             *)
(***************************************************************************)
EXTENDS BullJob, Sequences, FiniteSets

CONSTANTS
  Document,
  Bases,
  BaseOf,          \* [Document -> Bases], knowledge_base_id
  TextOf,          \* raw_content: a character is TRUE when it is not white space
  ChunkSize,       \* DEFAULT_CHUNK_SIZE
  Overlap,         \* DEFAULT_CHUNK_OVERLAP
  Workers,
  ReplayIds,       \* job ids Bull may give to jobs replayed from the DLQ
  None,
  MaxHalfReplays,  \* replays that add the job and do not remove the dead letter
  MaxFaults,       \* other failed calls and crashes
  MaxLength        \* of the texts PassagesStayWhole looks at

Job == Document \cup ReplayIds

ASSUME KnowledgeAssumption ==
  /\ BaseOf \in [Document -> Bases]
  /\ TextOf \in [Document -> Seq(BOOLEAN)]
  /\ ChunkSize \in Nat \ {0} /\ Overlap \in Nat /\ Overlap < ChunkSize
  /\ Document \cap ReplayIds = {} /\ Document # {}
  /\ None \notin Job
  /\ MaxHalfReplays \in Nat /\ MaxFaults \in Nat /\ MaxLength \in Nat

VARIABLES
  bases,        \* knowledge_bases rows
  status,       \* of each knowledge_documents row
  chunks,       \* knowledge_chunks rows; "by" tells rows apart as their ids do
  embeddings,   \* the chunks that have a knowledge_embeddings row
  request,      \* the POST that creates each document
  jobs,         \* the queue in Redis
  worker,       \* the local variables of each ingestDocument()
  deadLetter,   \* the dead-letter job made of each job
  retrying,     \* the dead letter retryAllDeadLetter is working on
  halfReplays,
  faults

rows == <<bases, status, chunks, embeddings>>
dlq  == <<deadLetter, retrying, halfReplays>>
vars == <<bases, status, chunks, embeddings, request, jobs, worker, deadLetter,
          retrying, halfReplays, faults>>

-----------------------------------------------------------------------------
(* chunkText.  A chunk is the set of the positions it holds.               *)

Smaller(a, b) == IF a < b THEN a ELSE b
Larger(a, b) == IF a > b THEN a ELSE b

\* String.prototype.trim on a piece of the text.
Trimmed(text, piece) ==
  {i \in piece : \E a, b \in piece : a <= i /\ i <= b /\ text[a] /\ text[b]}

\* Mutant of NextStart: the next chunk starts behind the last one.
NextStartBehind(end) == end

\* Where the next chunk starts when the last one did not reach the end.
NextStart(end) == Larger(end - Overlap, 0)

\* What a piece adds to the chunks: nothing when it is white space.
Kept(text, piece) == IF Trimmed(text, piece) = {} THEN <<>> ELSE <<Trimmed(text, piece)>>

\* The chunks of the text behind each position.
ChunksFrom(text) ==
  LET from[start \in 0..Len(text)] ==
        LET end == Smaller(start + ChunkSize, Len(text))
        IN  Kept(text, (start + 1)..end) \o
            (IF end = Len(text) THEN <<>> ELSE from[NextStart(end)])
  IN  from

chunkText(text) == ChunksFrom(text)[0]

Blank(text) == \A i \in DOMAIN text : ~text[i]

\* The raw content is trimmed before it is cut.
Content(text) ==
  LET kept == Trimmed(text, DOMAIN text)
      before == Cardinality({i \in DOMAIN text : \A k \in kept : i < k})
  IN  [i \in 1..Cardinality(kept) |-> text[before + i]]

Cut == [d \in Document |-> chunkText(Content(TextOf[d]))]

Count(d) == Len(Cut[d])

-----------------------------------------------------------------------------

Idle == [pc |-> "idle", job |-> None, index |-> 0, outcome |-> "ok"]

\* Inside the try of ingestDocument.
Trying == {"clear", "chunk", "embed", "ready"}

PCs == Trying \cup {"idle", "find", "mark", "catch", "settle", "listener"}

Run == [pc : PCs, job : Job \cup {None}, index : Nat, outcome : {"ok", "error"}]

At(w, pc) == worker[w].pc = pc

Doc(w) == jobs[worker[w].job].data

\* The chunk a run is about to store, or has just stored.
Row(w) == [document |-> Doc(w), index |-> worker[w].index, by |-> w]

ChunksOf(d) == {r \in chunks : r.document = d}

Exists(d) == status[d] \notin {"absent", "deleted"}

Init ==
  /\ bases = Bases
  /\ status = [d \in Document |-> "absent"]
  /\ chunks = {} /\ embeddings = {}
  /\ request = [d \in Document |-> "new"]
  /\ jobs = [i \in Job |-> NoJob(CHOOSE d \in Document : TRUE)]
  /\ worker = [w \in Workers |-> Idle]
  /\ deadLetter = [i \in Job |-> "none"]
  /\ retrying = None
  /\ halfReplays = 0
  /\ faults = 0

Becomes(w, run) == worker' = [worker EXCEPT ![w] = run]

Goto(w, pc) == Becomes(w, [worker[w] EXCEPT !.pc = pc])

Fails(w, pc) == Becomes(w, [worker[w] EXCEPT !.pc = pc, !.outcome = "error"])

-----------------------------------------------------------------------------
(* The requests: createDocument, deleteDocument, deleteBase.               *)

CreateDocument(d) ==
  /\ request[d] = "new"
  /\ BaseOf[d] \in bases
  /\ status' = [status EXCEPT ![d] = "pending"]
  /\ request' = [request EXCEPT ![d] = "queue"]
  /\ UNCHANGED <<bases, chunks, embeddings, jobs, worker, dlq, faults>>

AddKnowledgeJob(d) ==
  /\ request[d] = "queue"
  /\ jobs' = [jobs EXCEPT ![d] = Added(jobs[d], d)]
  /\ request' = [request EXCEPT ![d] = "done"]
  /\ UNCHANGED <<rows, worker, dlq, faults>>

\* The process dies, or Redis refuses the job: the row stays without a job.
RequestFails(d) ==
  /\ request[d] = "queue"
  /\ faults < MaxFaults
  /\ faults' = faults + 1
  /\ request' = [request EXCEPT ![d] = "failed"]
  /\ UNCHANGED <<rows, jobs, worker, dlq>>

\* Foreign keys with onDelete: Cascade take chunks and embeddings along.
Delete(docs) ==
  /\ status' = [d \in Document |-> IF d \in docs THEN "deleted" ELSE status[d]]
  /\ chunks' = {r \in chunks : r.document \notin docs}
  /\ embeddings' = {r \in embeddings : r.document \notin docs}

DeleteDocument(d) ==
  /\ Exists(d)
  /\ Delete({d})
  /\ UNCHANGED <<bases, request, jobs, worker, dlq, faults>>

DeleteBase(b) ==
  /\ b \in bases
  /\ bases' = bases \ {b}
  /\ Delete({d \in Document : BaseOf[d] = b /\ Exists(d)})
  /\ UNCHANGED <<request, jobs, worker, dlq, faults>>

-----------------------------------------------------------------------------
(* KnowledgeProcessor.process and ingestDocument.                          *)

StartJob(w, i) ==
  /\ At(w, "idle")
  /\ Runnable(jobs[i])
  /\ jobs' = [jobs EXCEPT ![i] = Started(jobs[i])]
  /\ Becomes(w, [Idle EXCEPT !.pc = "find", !.job = i])
  /\ UNCHANGED <<rows, request, dlq, faults>>

\* A document that is gone completes its job.
FindDocument(w) ==
  /\ At(w, "find")
  /\ Goto(w, IF Exists(Doc(w)) THEN "mark" ELSE "settle")
  /\ UNCHANGED <<rows, request, jobs, dlq, faults>>

\* The first update is outside the try.
MarkProcessing(w) ==
  /\ At(w, "mark")
  /\ \/ /\ Exists(Doc(w))
        /\ status' = [status EXCEPT ![Doc(w)] = "processing"]
        /\ Goto(w, "clear")
     \/ /\ ~Exists(Doc(w))
        /\ Fails(w, "settle")
        /\ UNCHANGED status
  /\ UNCHANGED <<bases, chunks, embeddings, request, jobs, dlq, faults>>

\* Where the loop over the chunks goes with this index.
Loop(d, index) == IF index = Count(d) THEN "ready" ELSE "chunk"

\* Mutant of ClearChunks: a retry finds the rows of the attempt before it.
ClearNothing(w) ==
  /\ At(w, "clear")
  /\ IF Blank(TextOf[Doc(w)]) THEN Fails(w, "catch") ELSE Goto(w, Loop(Doc(w), 0))
  /\ UNCHANGED <<rows, request, jobs, dlq, faults>>

ClearChunks(w) ==
  /\ At(w, "clear")
  /\ \/ /\ Blank(TextOf[Doc(w)])
        /\ Fails(w, "catch")
        /\ UNCHANGED <<chunks, embeddings>>
     \/ /\ ~Blank(TextOf[Doc(w)])
        /\ chunks' = chunks \ ChunksOf(Doc(w))
        /\ embeddings' = embeddings \ ChunksOf(Doc(w))
        /\ Goto(w, Loop(Doc(w), 0))
  /\ UNCHANGED <<bases, status, request, jobs, dlq, faults>>

\* The document must be there (foreign key), and the index must be free
\* (unique document_id, chunk_index).
CreateChunk(w) ==
  /\ At(w, "chunk")
  /\ LET free == /\ Exists(Doc(w))
                 /\ \A r \in ChunksOf(Doc(w)) : r.index # worker[w].index
     IN  \/ free /\ chunks' = chunks \cup {Row(w)} /\ Goto(w, "embed")
         \/ ~free /\ Fails(w, "catch") /\ UNCHANGED chunks
  /\ UNCHANGED <<bases, status, embeddings, request, jobs, dlq, faults>>

\* createEmbedding and the INSERT, which wants the chunk to be there still.
Embed(w) ==
  /\ At(w, "embed")
  /\ \/ /\ Row(w) \in chunks
        /\ embeddings' = embeddings \cup {Row(w)}
        /\ Becomes(w, [worker[w] EXCEPT !.index = worker[w].index + 1,
                                        !.pc = Loop(Doc(w), worker[w].index + 1)])
     \/ /\ Row(w) \notin chunks
        /\ Fails(w, "catch")
        /\ UNCHANGED embeddings
  /\ UNCHANGED <<bases, status, chunks, request, jobs, dlq, faults>>

MarkReady(w) ==
  /\ At(w, "ready")
  /\ \/ /\ Exists(Doc(w))
        /\ status' = [status EXCEPT ![Doc(w)] = "ready"]
        /\ Goto(w, "settle")
     \/ /\ ~Exists(Doc(w))
        /\ Fails(w, "catch")
        /\ UNCHANGED status
  /\ UNCHANGED <<bases, chunks, embeddings, request, jobs, dlq, faults>>

\* Mutant of Catch: the error is only passed on.
Rethrow(w) ==
  /\ At(w, "catch")
  /\ Goto(w, "settle")
  /\ UNCHANGED <<rows, request, jobs, dlq, faults>>

\* The update throws when the document is gone; the job fails either way.
Catch(w) ==
  /\ At(w, "catch")
  /\ Goto(w, "settle")
  /\ status' = [status EXCEPT ![Doc(w)] = IF Exists(Doc(w)) THEN "failed" ELSE @]
  /\ UNCHANGED <<bases, chunks, embeddings, request, jobs, dlq, faults>>

\* Bull takes note of what process() did; the "failed" listener looks at it.
SettleJob(w) ==
  /\ At(w, "settle")
  /\ LET i == worker[w].job
         job == IF worker[w].outcome = "ok" THEN Completed(jobs[i]) ELSE AttemptFailed(jobs[i])
     IN  /\ jobs' = [jobs EXCEPT ![i] = job]
         /\ IF Exhausted(job) THEN Goto(w, "listener") ELSE Becomes(w, Idle)
  /\ UNCHANGED <<rows, request, dlq, faults>>

AddDeadLetter(w) ==
  /\ At(w, "listener")
  /\ deadLetter' = [deadLetter EXCEPT ![worker[w].job] = "waiting"]
  /\ Becomes(w, Idle)
  /\ UNCHANGED <<rows, request, jobs, retrying, halfReplays, faults>>

-----------------------------------------------------------------------------
(* Failures.                                                               *)

\* Mutant of FailedCall: a chunk whose embedding fails is left out.
FailedCallSkipsChunk(w) ==
  /\ At(w, "embed")
  /\ Becomes(w, [worker[w] EXCEPT !.index = worker[w].index + 1,
                                  !.pc = Loop(Doc(w), worker[w].index + 1)])

\* Where the rejection of an awaited call leads.
FailedCall(w) ==
  \/ worker[w].pc \in Trying /\ Fails(w, "catch")
  \/ worker[w].pc \in {"find", "mark", "catch"} /\ Fails(w, "settle")
  \/ At(w, "listener") /\ Becomes(w, Idle)

CallFails(w) ==
  /\ faults < MaxFaults
  /\ faults' = faults + 1
  /\ FailedCall(w)
  /\ UNCHANGED <<rows, request, jobs, dlq>>

Crash(w) ==
  /\ ~At(w, "idle")
  /\ faults < MaxFaults
  /\ faults' = faults + 1
  /\ Becomes(w, Idle)
  /\ UNCHANGED <<rows, request, jobs, dlq>>

\* Bull's stalled check on an active job nobody runs any more.
StalledCheck(i) ==
  /\ jobs[i].state = "active"
  /\ \A w \in Workers : worker[w].job # i
  /\ jobs' = [jobs EXCEPT ![i] = Stalled(jobs[i])]
  /\ UNCHANGED <<rows, request, worker, dlq, faults>>

-----------------------------------------------------------------------------
(* The dead-letter queue, as in IngestionPipeline.  Redaction keeps        *)
(* document_id, and a replayed job has an id of its own.                   *)

StoreDeadLetter(i) ==
  /\ deadLetter[i] = "waiting"
  /\ \E outcome \in {"stored", "failed"} :
       deadLetter' = [deadLetter EXCEPT ![i] = outcome]
  /\ UNCHANGED <<rows, request, jobs, worker, retrying, halfReplays, faults>>

ReplayDeadLetter(i, id) ==
  /\ retrying = None
  /\ deadLetter[i] = "failed"
  /\ jobs[id].state = "absent"
  /\ jobs' = [jobs EXCEPT ![id] = Queued(jobs[i].data)]
  /\ retrying' = i
  /\ UNCHANGED <<rows, request, worker, deadLetter, halfReplays, faults>>

RemoveDeadLetter ==
  /\ retrying # None
  /\ deadLetter' = [deadLetter EXCEPT ![retrying] = "removed"]
  /\ retrying' = None
  /\ UNCHANGED <<rows, request, jobs, worker, halfReplays, faults>>

\* job.remove fails, or the process dies before it.
ReplayFails ==
  /\ retrying # None
  /\ halfReplays < MaxHalfReplays
  /\ halfReplays' = halfReplays + 1
  /\ retrying' = None
  /\ UNCHANGED <<rows, request, jobs, worker, deadLetter, faults>>

-----------------------------------------------------------------------------

Step(w) ==
  \/ FindDocument(w) \/ MarkProcessing(w) \/ ClearChunks(w) \/ CreateChunk(w)
  \/ Embed(w) \/ MarkReady(w) \/ Catch(w) \/ SettleJob(w) \/ AddDeadLetter(w)

Next ==
  \/ \E d \in Document : CreateDocument(d) \/ AddKnowledgeJob(d) \/ RequestFails(d)
  \/ \E d \in Document : DeleteDocument(d)
  \/ \E b \in Bases : DeleteBase(b)
  \/ \E w \in Workers, i \in Job : StartJob(w, i)
  \/ \E w \in Workers : Step(w) \/ CallFails(w) \/ Crash(w)
  \/ \E i \in Job : StalledCheck(i) \/ StoreDeadLetter(i)
  \/ \E i \in Job, id \in ReplayIds : ReplayDeadLetter(i, id)
  \/ RemoveDeadLetter \/ ReplayFails

Spec == Init /\ [][Next]_vars

\* Processes that are up go on, and Bull promotes, hands out and checks jobs.
Fairness ==
  /\ \A w \in Workers : WF_vars(Step(w))
  /\ \A w \in Workers : WF_vars(\E i \in Job : StartJob(w, i))
  /\ \A d \in Document : WF_vars(AddKnowledgeJob(d))
  /\ \A i \in Job : WF_vars(StalledCheck(i))

FairSpec == Spec /\ Fairness

-----------------------------------------------------------------------------
(* Properties.                                                             *)

\* Types, and the foreign key of knowledge_embeddings: no embedding without
\* its chunk, no chunk without its document.
TypeOK ==
  /\ bases \subseteq Bases
  /\ status \in [Document -> {"absent", "pending", "processing", "ready", "failed", "deleted"}]
  /\ chunks \subseteq [document : Document, index : Nat, by : Workers]
  /\ embeddings \subseteq chunks
  /\ \A r \in chunks : Exists(r.document)
  /\ request \in [Document -> {"new", "queue", "done", "failed"}]
  /\ jobs \in [Job -> JobOf(Document)]
  /\ worker \in [Workers -> Run]
  /\ deadLetter \in [Job -> {"none", "waiting", "stored", "failed", "removed"}]
  /\ retrying \in Job \cup {None}
  /\ halfReplays \in 0..MaxHalfReplays
  /\ faults \in 0..MaxFaults

Embedded(d) == {r.index : r \in {e \in embeddings : e.document = d}}

\* A document that says "ready" can be searched from its first chunk to its
\* last, whatever attempts, crashes, deletions and replays came before
\* (ingestDocument starts over, and says "ready" last).  It takes a replay that
\* left its dead letter behind to run one document twice at once.
ReadyIsComplete ==
  halfReplays = 0 =>
    \A d \in Document : status[d] = "ready" => Embedded(d) = 0..(Count(d) - 1)

Unsettled(d) == \E i \in Job : jobs[i].data = d /\ jobs[i].state \in {"waiting", "active", "delayed"}

\* Shown as being worked on, and nothing is going to.
Stranded(d) ==
  /\ status[d] \in {"pending", "processing"}
  /\ request[d] # "queue"
  /\ ~Unsettled(d)

\* One failure strands at most one document: errors end in "failed" (the catch
\* of ingestDocument), however often they are retried and replayed.
StrandedNeedFaults == Cardinality({d \in Document : Stranded(d)}) <= faults

\* No passage of up to Overlap + 1 characters is torn apart: whatever is that
\* short can be found in one of the chunks.
PassagesIn(chunkSet, text) ==
  \A a, b \in DOMAIN text :
    text[a] /\ text[b] /\ a <= b /\ b <= a + Overlap =>
      \E chunk \in chunkSet : a..b \subseteq chunk

ChunkSet(text) == {chunkText(text)[k] : k \in DOMAIN chunkText(text)}

\* What chunkText is for: short passages stay whole, and no chunk is empty or
\* longer than ChunkSize.  Looked at once per behaviour, before any request.
PassagesStayWhole ==
  (\A d \in Document : request[d] = "new") =>
    \A n \in 1..MaxLength : \A text \in [1..n -> BOOLEAN] :
      /\ PassagesIn(ChunkSet(text), text)
      /\ \A chunk \in ChunkSet(text) : chunk # {} /\ Cardinality(chunk) <= ChunkSize

\* One failed call, or one crash, never costs a document: one that has text
\* ends up ready, unless somebody deletes it.
DocumentsBecomeReady ==
  \A d \in Document :
    jobs[d].state = "waiting" /\ ~Blank(TextOf[d]) ~>
      [](status[d] \in {"ready", "deleted"} \/ faults >= MaxAttempts \/ faults > MaxStalls)
=============================================================================
