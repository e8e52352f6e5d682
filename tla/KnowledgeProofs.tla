--------------------------- MODULE KnowledgeProofs ---------------------------
(***************************************************************************)
(* Proofs about KnowledgeIngestion, for every set of documents, bases and  *)
(* workers, every number of attempts, stalls, replays and failures.        *)
(***************************************************************************)
EXTENDS KnowledgeIngestion, FiniteSetTheorems, SequenceTheorems, WellFoundedInduction, TLAPS

Busy(w) == worker[w].pc \in PCs \ {"idle"}

Running(w) == worker[w].pc \in PCs \ {"idle", "listener"}

\* A worker runs an active job, or listens to one that has failed, and no two
\* workers have the same job.
RunsAreActive ==
  /\ \A w \in Workers : Running(w) =>
       worker[w].job \in Job /\ jobs[worker[w].job].state = "active"
  /\ \A w \in Workers : At(w, "listener") =>
       worker[w].job \in Job /\ jobs[worker[w].job].state = "failed"
  /\ \A v, w \in Workers : Busy(v) /\ Busy(w) /\ worker[v].job = worker[w].job => v = w

\* A job that is not settled has attempts left.
UnsettledHaveAttempts ==
  \A i \in Job : ~Settled(jobs[i]) => jobs[i].attempts < MaxAttempts

\* A dead letter belongs to a failed job nobody has to do with any more.
DeadLettersAreFinal ==
  /\ \A i \in Job : deadLetter[i] # "none" =>
       /\ jobs[i].state = "failed"
       /\ \A w \in Workers : Busy(w) => worker[w].job # i
  /\ retrying # None => deadLetter[retrying] = "failed"

\* Nothing happens to a document before its request.
Requested ==
  \A d \in Document :
    /\ request[d] = "new" => status[d] = "absent"
    /\ request[d] \in {"new", "queue"} =>
         \A i \in Job : jobs[i].state # "absent" => jobs[i].data # d

Inv == TypeOK /\ RunsAreActive /\ UnsettledHaveAttempts /\ DeadLettersAreFinal /\ Requested

\* A job that runs, will run, or may yet be replayed.
Live(i) ==
  \/ jobs[i].state \in {"waiting", "active", "delayed"}
  \/ \E w \in Workers : At(w, "listener") /\ worker[w].job = i
  \/ deadLetter[i] \in {"waiting", "failed"} /\ retrying # i

OneJobPerDocument ==
  \A i, j \in Job : Live(i) /\ Live(j) /\ jobs[i].data = jobs[j].data => i = j

\* What a run has stored when it comes to a place of the loop, and what is
\* stored of a document that is ready.
Stored ==
  /\ \A w \in Workers : worker[w].pc \in {"find", "mark", "clear"} => worker[w].index = 0
  /\ \A w \in Workers : worker[w].pc \in Trying =>
       status[Doc(w)] \in {"processing", "deleted"}
  /\ \A w \in Workers :
       worker[w].pc \in {"chunk", "embed", "ready"} /\ status[Doc(w)] # "deleted" =>
         Embedded(Doc(w)) = 0..(worker[w].index - 1)
  /\ \A w \in Workers : At(w, "ready") => worker[w].index = Count(Doc(w))
  /\ \A d \in Document : status[d] = "ready" => Embedded(d) = 0..(Count(d) - 1)

StoredInv == Inv /\ (halfReplays = 0 => OneJobPerDocument /\ Stored)

-----------------------------------------------------------------------------
(* Jobs.                                                                   *)

\* Every operation of the queue returns a job.
LEMMA JobTypes ==
  ASSUME NEW D, NEW j \in JobOf(D), NEW d \in D
  PROVE  /\ NoJob(d) \in JobOf(D) /\ Queued(d) \in JobOf(D) /\ Added(j, d) \in JobOf(D)
         /\ Started(j) \in JobOf(D) /\ Completed(j) \in JobOf(D) /\ Stalled(j) \in JobOf(D)
         /\ j.attempts < MaxAttempts => AttemptFailed(j) \in JobOf(D)
<1>1. /\ NoJob(d) \in JobOf(D) /\ Queued(d) \in JobOf(D) /\ Added(j, d) \in JobOf(D)
      /\ Started(j) \in JobOf(D) /\ Completed(j) \in JobOf(D)
  BY BullAssumption DEF NoJob, Queued, Added, Started, Completed, JobOf, JobStates
<1>2. /\ j.stalls < MaxStalls => j.stalls + 1 \in 0..MaxStalls
      /\ j.attempts < MaxAttempts => j.attempts + 1 \in 0..MaxAttempts
  BY BullAssumption DEF JobOf
<1>3. Stalled(j) \in JobOf(D)
  BY <1>2 DEF Stalled, JobOf, JobStates
<1>4. j.attempts < MaxAttempts => AttemptFailed(j) \in JobOf(D)
  BY <1>2 DEF AttemptFailed, JobOf, JobStates
<1>5. QED
  BY <1>1, <1>3, <1>4

\* A failed attempt leaves attempts to make, or the job has settled.
LEMMA AttemptsAreLeft ==
  ASSUME NEW D, NEW j \in JobOf(D), j.attempts < MaxAttempts
  PROVE  ~Settled(AttemptFailed(j)) => AttemptFailed(j).attempts < MaxAttempts
BY BullAssumption DEF AttemptFailed, Settled, JobOf

-----------------------------------------------------------------------------
(* What the steps of a run that leave its job and the other runs alone     *)
(* have in common.                                                         *)

RunGoesOn(w) ==
  /\ Running(w) /\ Running(w)'
  /\ worker' \in [Workers -> Run]
  /\ worker'[w].job = worker[w].job
  /\ \A v \in Workers \ {w} : worker'[v] = worker[v]
  /\ UNCHANGED <<jobs, request, dlq>>

\* How a worker moves on.
LEMMA Moves ==
  ASSUME Inv, NEW w \in Workers, Running(w), NEW run \in Run,
         run.job = worker[w].job, run.pc \in PCs \ {"idle", "listener"},
         Becomes(w, run), UNCHANGED <<jobs, request, dlq>>
  PROVE  RunGoesOn(w) /\ worker'[w] = run
BY DEF Becomes, RunGoesOn, Running, Inv, TypeOK

\* Going on to another place of the handler, or failing there.
LEMMA GoesTo ==
  ASSUME Inv, NEW w \in Workers, Running(w), NEW pc \in PCs \ {"idle", "listener"},
         Goto(w, pc) \/ Fails(w, pc), UNCHANGED <<jobs, request, dlq>>
  PROVE  /\ RunGoesOn(w)
         /\ worker'[w].pc = pc /\ worker'[w].index = worker[w].index
<1>1. worker[w] \in Run
  BY DEF Inv, TypeOK
<1>2. CASE Goto(w, pc)
  BY <1>1, <1>2, Moves DEF Goto, Run
<1>3. CASE Fails(w, pc)
  <2> DEFINE run == [worker[w] EXCEPT !.pc = pc, !.outcome = "error"]
  <2>1. run \in Run /\ run.pc = pc /\ run.job = worker[w].job /\ run.index = worker[w].index
    BY <1>1 DEF Run
  <2>2. Becomes(w, run)
    BY <1>3 DEF Fails
  <2> HIDE DEF run
  <2>3. QED
    BY <1>1, <2>1, <2>2, Moves
<1>4. QED
  BY <1>2, <1>3

\* A worker that runs a job has a document, and its request is over.
LEMMA DocumentOfRun ==
  ASSUME Inv, NEW w \in Workers, Running(w)
  PROVE  /\ worker[w].job \in Job /\ worker[w] \in Run
         /\ Doc(w) \in Document /\ request[Doc(w)] \notin {"new", "queue"}
         /\ Row(w) \in [document : Document, index : Nat, by : Workers]
<1>1. worker[w] \in Run
  BY DEF Inv, TypeOK
<1>2. worker[w].job \in Job /\ jobs[worker[w].job].state = "active"
  BY DEF Inv, RunsAreActive
<1>3. Doc(w) \in Document
  BY <1>2 DEF Doc, Inv, TypeOK, JobOf
<1>4. request[Doc(w)] \notin {"new", "queue"}
  BY <1>2, <1>3 DEF Doc, Inv, Requested
<1>5. Row(w) \in [document : Document, index : Nat, by : Workers]
  BY <1>1, <1>3 DEF Row, Run
<1>6. QED
  BY <1>1, <1>2, <1>3, <1>4, <1>5

\* A worker that goes on with its job keeps the bookkeeping of the queues.
LEMMA RunKeeps ==
  ASSUME Inv, NEW w \in Workers, RunGoesOn(w), TypeOK',
         \A d \in Document : d # Doc(w) => status'[d] = status[d]
  PROVE  Inv'
<1>1. \A v \in Workers :
        /\ Running(v)' <=> Running(v)
        /\ Busy(v)' <=> Busy(v)
        /\ At(v, "listener")' <=> At(v, "listener")
        /\ worker'[v].job = worker[v].job
  BY DEF RunGoesOn, Running, Busy, At
<1>2. RunsAreActive'
  BY <1>1 DEF RunGoesOn, Inv, RunsAreActive
<1>3. UnsettledHaveAttempts'
  BY DEF RunGoesOn, Inv, UnsettledHaveAttempts, Settled
<1>4. DeadLettersAreFinal'
  BY <1>1 DEF RunGoesOn, dlq, Inv, DeadLettersAreFinal
<1>5. Requested'
  <2>1. request[Doc(w)] \notin {"new", "queue"}
    BY DocumentOfRun DEF RunGoesOn
  <2>2. QED
    BY <2>1 DEF RunGoesOn, Inv, Requested
<1>6. QED
  BY <1>2, <1>3, <1>4, <1>5 DEF Inv

-----------------------------------------------------------------------------
(* The steps of ingestDocument.                                            *)

\* The document is there, or the run is over.
LEMMA FindDocumentInv ==
  ASSUME Inv, NEW w \in Workers, FindDocument(w)
  PROVE  Inv' /\ RunGoesOn(w)
<1>1. Running(w) /\ UNCHANGED <<jobs, request, dlq>>
  BY DEF FindDocument, At, Running, PCs, rows
<1>2. RunGoesOn(w)
  BY <1>1, GoesTo DEF FindDocument, PCs, Trying
<1>3. TypeOK'
  BY <1>1, <1>2, DocumentOfRun DEF FindDocument, RunGoesOn, Inv, TypeOK, rows, dlq, Exists
<1>4. QED
  BY <1>2, <1>3, RunKeeps DEF FindDocument, rows

\* The status of the run's document changes, and nothing else.
LEMMA MarkProcessingInv ==
  ASSUME Inv, NEW w \in Workers, MarkProcessing(w)
  PROVE  Inv' /\ RunGoesOn(w)
<1>1. Running(w) /\ UNCHANGED <<jobs, request, dlq>>
  BY DEF MarkProcessing, At, Running, PCs, rows
<1>2. RunGoesOn(w)
  BY <1>1, GoesTo DEF MarkProcessing, PCs, Trying
<1>3. TypeOK'
  BY <1>1, <1>2, DocumentOfRun DEF MarkProcessing, RunGoesOn, Inv, TypeOK, rows, dlq, Exists
<1>4. QED
  BY <1>2, <1>3, RunKeeps DEF MarkProcessing, Inv, TypeOK

\* The embeddings go with their chunks.
LEMMA ClearChunksInv ==
  ASSUME Inv, NEW w \in Workers, ClearChunks(w)
  PROVE  Inv' /\ RunGoesOn(w)
<1>1. Running(w) /\ UNCHANGED <<jobs, request, dlq>>
  BY DEF ClearChunks, At, Running, PCs, Trying, rows
<1>2. RunGoesOn(w)
  BY <1>1, GoesTo DEF ClearChunks, PCs, Trying, Loop
<1>3. TypeOK'
  BY <1>1, <1>2, DocumentOfRun DEF ClearChunks, RunGoesOn, Inv, TypeOK, rows, dlq, Exists, ChunksOf
<1>4. QED
  BY <1>2, <1>3, RunKeeps DEF ClearChunks, rows

\* The new chunk has a document.
LEMMA CreateChunkInv ==
  ASSUME Inv, NEW w \in Workers, CreateChunk(w)
  PROVE  Inv' /\ RunGoesOn(w)
<1>1. Running(w) /\ UNCHANGED <<jobs, request, dlq>>
  BY DEF CreateChunk, At, Running, PCs, Trying, rows
<1>2. RunGoesOn(w)
  BY <1>1, GoesTo DEF CreateChunk, PCs, Trying
<1>3. TypeOK'
  BY <1>1, <1>2, DocumentOfRun DEF CreateChunk, RunGoesOn, Inv, TypeOK, rows, dlq, Exists, Row
<1>4. QED
  BY <1>2, <1>3, RunKeeps DEF CreateChunk, rows

\* The new embedding has a chunk.
LEMMA EmbedInv ==
  ASSUME Inv, NEW w \in Workers, Embed(w)
  PROVE  Inv' /\ RunGoesOn(w)
<1>1. Running(w) /\ UNCHANGED <<jobs, request, dlq>>
  BY DEF Embed, At, Running, PCs, Trying, rows
<1>2. RunGoesOn(w)
  <2>1. CASE Fails(w, "catch")
    BY <1>1, <2>1, GoesTo DEF PCs, Trying
  <2>2. CASE Row(w) \in chunks
    <3> DEFINE next == worker[w].index + 1
               pc == Loop(Doc(w), next)
               run == [worker[w] EXCEPT !.index = next, !.pc = pc]
    <3>1. worker[w] \in Run /\ next \in Nat /\ pc \in {"ready", "chunk"}
      BY <1>1, DocumentOfRun DEF Loop, Run
    <3>2. Becomes(w, run)
      BY <2>2 DEF Embed
    <3> HIDE DEF next, pc
    <3>3. pc \in PCs \ {"idle", "listener"}
      BY <3>1 DEF PCs, Trying
    <3>4. run \in Run /\ run.job = worker[w].job /\ run.pc = pc
      BY <3>1, <3>3 DEF Run
    <3> HIDE DEF run
    <3>5. QED
      BY <1>1, <3>2, <3>3, <3>4, Moves
  <2>3. QED
    BY <2>1, <2>2 DEF Embed
<1>3. TypeOK'
  BY <1>1, <1>2, DocumentOfRun DEF Embed, RunGoesOn, Inv, TypeOK, rows, dlq, Exists
<1>4. QED
  BY <1>2, <1>3, RunKeeps DEF Embed, rows

\* The status of the run's document changes, and nothing else.
LEMMA MarkReadyInv ==
  ASSUME Inv, NEW w \in Workers, MarkReady(w)
  PROVE  Inv' /\ RunGoesOn(w)
<1>1. Running(w) /\ UNCHANGED <<jobs, request, dlq>>
  BY DEF MarkReady, At, Running, PCs, Trying, rows
<1>2. RunGoesOn(w)
  BY <1>1, GoesTo DEF MarkReady, PCs, Trying
<1>3. TypeOK'
  BY <1>1, <1>2, DocumentOfRun DEF MarkReady, RunGoesOn, Inv, TypeOK, rows, dlq, Exists
<1>4. QED
  BY <1>2, <1>3, RunKeeps DEF MarkReady, Inv, TypeOK

\* The status of the run's document changes, and nothing else.
LEMMA CatchInv ==
  ASSUME Inv, NEW w \in Workers, Catch(w)
  PROVE  Inv' /\ RunGoesOn(w)
<1>1. Running(w) /\ UNCHANGED <<jobs, request, dlq>>
  BY DEF Catch, At, Running, PCs, rows
<1>2. RunGoesOn(w)
  BY <1>1, GoesTo DEF Catch, PCs, Trying
<1>3. TypeOK'
  BY <1>1, <1>2, DocumentOfRun DEF Catch, RunGoesOn, Inv, TypeOK, rows, dlq, Exists
<1>4. QED
  BY <1>2, <1>3, RunKeeps DEF Catch, Inv, TypeOK

-----------------------------------------------------------------------------
(* The initial state and the requests.                                     *)

\* The queue starts empty, and nobody holds a job.
LEMMA InitInv == Init => Inv
<1> SUFFICES ASSUME Init PROVE Inv
  OBVIOUS
<1>1. jobs \in [Job -> JobOf(Document)]
  BY KnowledgeAssumption, BullAssumption DEF Init, NoJob, JobOf, JobStates
<1>2. TypeOK
  BY <1>1, KnowledgeAssumption DEF Init, TypeOK, Idle, Run, PCs
<1>3. \A w \in Workers : worker[w].pc = "idle"
  BY DEF Init, Idle
<1>4. RunsAreActive /\ DeadLettersAreFinal
  BY <1>3 DEF Init, RunsAreActive, DeadLettersAreFinal, Running, Busy, At
<1>5. UnsettledHaveAttempts /\ Requested
  BY BullAssumption DEF Init, UnsettledHaveAttempts, Requested, NoJob
<1>6. QED
  BY <1>2, <1>4, <1>5 DEF Inv

\* Requests that change rows only.
Rows ==
  \/ \E d \in Document : CreateDocument(d) \/ RequestFails(d) \/ DeleteDocument(d)
  \/ \E b \in Bases : DeleteBase(b)

\* What is deleted takes everything along that refers to it.
LEMMA DeleteTypes ==
  ASSUME Inv, NEW docs \in SUBSET {d \in Document : Exists(d)}, Delete(docs)
  PROVE  /\ status' \in [Document -> {"absent", "pending", "processing", "ready", "failed", "deleted"}]
         /\ chunks' \subseteq [document : Document, index : Nat, by : Workers]
         /\ embeddings' \subseteq chunks'
         /\ \A r \in chunks' : Exists(r.document)'
         /\ \A d \in Document : request[d] = "new" => status'[d] = "absent"
<1>1. \A d \in Document : status'[d] = IF d \in docs THEN "deleted" ELSE status[d]
  BY DEF Delete
<1>2. \A r \in chunks : r.document \in Document /\ Exists(r.document)
  BY DEF Inv, TypeOK
<1>3. \A d \in docs : request[d] # "new"
  BY DEF Exists, Inv, Requested
<1>4. QED
  BY <1>1, <1>2, <1>3 DEF Delete, Exists, Inv, TypeOK, Requested

\* The rows of documents are written under the feet of the workers.
LEMMA RowsInv ==
  ASSUME Inv, Rows
  PROVE  Inv' /\ UNCHANGED <<jobs, worker, dlq>>
<1>1. UNCHANGED <<jobs, worker, dlq>>
  BY DEF Rows, CreateDocument, RequestFails, DeleteDocument, DeleteBase, rows
<1>2. RunsAreActive' /\ UnsettledHaveAttempts' /\ DeadLettersAreFinal'
  BY <1>1 DEF Inv, RunsAreActive, UnsettledHaveAttempts, DeadLettersAreFinal, Running,
              Busy, At, Settled, dlq
<1>3. ASSUME NEW d \in Document, CreateDocument(d) PROVE TypeOK' /\ Requested'
  BY <1>1, <1>3 DEF CreateDocument, Inv, TypeOK, Exists, Requested, dlq
<1>4. ASSUME NEW d \in Document, RequestFails(d) PROVE TypeOK' /\ Requested'
  BY <1>1, <1>4, KnowledgeAssumption DEF RequestFails, rows, Inv, TypeOK, Exists, Requested, dlq
<1>5. ASSUME NEW d \in Document, DeleteDocument(d) PROVE TypeOK' /\ Requested'
  <2>1. {d} \in SUBSET {e \in Document : Exists(e)}
    BY <1>5 DEF DeleteDocument
  <2>2. QED
    BY <1>1, <1>5, <2>1, DeleteTypes DEF DeleteDocument, Inv, TypeOK, Requested, dlq
<1>6. ASSUME NEW b \in Bases, DeleteBase(b) PROVE TypeOK' /\ Requested'
  <2>1. {d \in Document : BaseOf[d] = b /\ Exists(d)} \in SUBSET {e \in Document : Exists(e)}
    OBVIOUS
  <2>2. QED
    BY <1>1, <1>6, <2>1, DeleteTypes DEF DeleteBase, Inv, TypeOK, Requested, dlq
<1>7. QED
  BY <1>1, <1>2, <1>3, <1>4, <1>5, <1>6 DEF Rows, Inv

\* The first job of a document is added under the document's own id.
LEMMA AddKnowledgeJobInv ==
  ASSUME Inv, NEW d \in Document, AddKnowledgeJob(d)
  PROVE  /\ Inv' /\ UNCHANGED <<rows, worker, dlq>>
         /\ \A i \in Job : jobs'[i] = jobs[i] \/ (i = d /\ jobs'[i].data = d)
         /\ \A i \in Job : jobs[i].state # "absent" => jobs'[i] = jobs[i] /\ jobs[i].data # d
<1>1. d \in Job /\ jobs[d] \in JobOf(Document)
  BY DEF Job, Inv, TypeOK
<1>2. Added(jobs[d], d) \in JobOf(Document)
  BY <1>1, JobTypes
<1>3. UNCHANGED <<rows, worker, dlq>>
  BY DEF AddKnowledgeJob
<1>4. \A i \in Job : jobs[i].state # "absent" => jobs'[i] = jobs[i] /\ jobs[i].data # d
  BY DEF AddKnowledgeJob, Added, Inv, TypeOK, Requested
<1>5. jobs'[d] = Queued(d) \/ jobs'[d] = jobs[d]
  BY <1>1 DEF AddKnowledgeJob, Added, Inv, TypeOK
<1>6. \A i \in Job : jobs'[i] = jobs[i] \/ (i = d /\ jobs'[i].data = d)
  <2>1. \A i \in Job : i # d => jobs'[i] = jobs[i]
    BY DEF AddKnowledgeJob, Inv, TypeOK
  <2>2. Queued(d).data = d
    BY DEF Queued
  <2>3. jobs'[d] = jobs[d] \/ jobs'[d].data = d
    BY <1>5, <2>2
  <2>4. QED
    BY <2>1, <2>3
<1>7. TypeOK'
  BY <1>1, <1>2, <1>3 DEF AddKnowledgeJob, rows, dlq, Exists, Inv, TypeOK
<1>8. RunsAreActive' /\ DeadLettersAreFinal'
  BY <1>3, <1>4 DEF dlq, Inv, RunsAreActive, DeadLettersAreFinal, Running, Busy, At
<1>9. UnsettledHaveAttempts'
  <2>1. \A i \in Job : jobs'[i] = jobs[i] \/ jobs'[i] = Queued(d)
    BY <1>5 DEF AddKnowledgeJob, Inv, TypeOK
  <2>2. QED
    BY <2>1, BullAssumption DEF Queued, Inv, UnsettledHaveAttempts, Settled
<1>10. Requested'
  <2>1. \A e \in Document : request'[e] \in {"new", "queue"} =>
          e # d /\ request'[e] = request[e]
    BY DEF AddKnowledgeJob, Inv, TypeOK
  <2>2. \A i \in Job : jobs'[i] = jobs[i] \/ jobs'[i].data = d
    BY <1>6
  <2>3. QED
    BY <1>3, <2>1, <2>2 DEF rows, Inv, Requested
<1>11. QED
  BY <1>3, <1>4, <1>6, <1>7, <1>8, <1>9, <1>10 DEF Inv

-----------------------------------------------------------------------------
(* Steps that take, settle, lose and replay jobs.                          *)

\* Nobody is busy with a job that may be started, and it has no dead letter.
LEMMA StartJobInv ==
  ASSUME Inv, NEW w \in Workers, NEW i \in Job, StartJob(w, i)
  PROVE  /\ Inv' /\ UNCHANGED <<rows, request, dlq>>
         /\ \A k \in Job : jobs'[k].data = jobs[k].data
         /\ jobs'[i].state = "active" /\ \A k \in Job \ {i} : jobs'[k] = jobs[k]
         /\ worker'[w] = [Idle EXCEPT !.pc = "find", !.job = i]
         /\ \A v \in Workers \ {w} : worker'[v] = worker[v]
<1> DEFINE run == [Idle EXCEPT !.pc = "find", !.job = i]
<1>1. run \in Run /\ run.job = i /\ run.pc = "find"
  BY DEF Idle, Run, PCs
<1>2. worker' = [worker EXCEPT ![w] = run] /\ jobs' = [jobs EXCEPT ![i] = Started(jobs[i])]
  BY DEF StartJob, Becomes
<1>3. jobs[i] \in JobOf(Document) /\ Started(jobs[i]) \in JobOf(Document)
  BY KnowledgeAssumption, JobTypes DEF Inv, TypeOK
<1>4. worker'[w] = run /\ \A v \in Workers \ {w} : worker'[v] = worker[v]
  BY <1>2 DEF Inv, TypeOK
<1>5. jobs'[i].state = "active" /\ \A k \in Job \ {i} : jobs'[k] = jobs[k]
  BY <1>2, <1>3 DEF Started, JobOf, Inv, TypeOK
<1>6. \A k \in Job : jobs'[k].data = jobs[k].data /\ jobs'[k].attempts = jobs[k].attempts
  BY <1>2, <1>3 DEF Started, JobOf, Inv, TypeOK
<1>7. UNCHANGED <<rows, request, dlq>>
  BY DEF StartJob
<1>8. TypeOK'
  BY <1>1, <1>2, <1>3, <1>7 DEF StartJob, rows, dlq, Exists, Inv, TypeOK
<1>9. \A v \in Workers : Busy(v) => v # w /\ worker[v].job # i
  BY DEF StartJob, Runnable, Inv, RunsAreActive, At, Running, Busy
<1>10. ~Busy(w)
  BY DEF StartJob, At, Busy
<1>11. Running(w)' /\ ~At(w, "listener")' /\ worker'[w].job = i /\ Busy(w)'
  BY <1>1, <1>4 DEF Running, At, Busy, PCs
<1>12. \A v \in Workers \ {w} :
         /\ Running(v)' <=> Running(v)
         /\ Busy(v)' <=> Busy(v)
         /\ At(v, "listener")' <=> At(v, "listener")
         /\ worker'[v].job = worker[v].job
  BY <1>4 DEF Running, At, Busy
<1>13. RunsAreActive'
  <2>1. \A v \in Workers : Running(v) \/ At(v, "listener") => Busy(v)
    BY DEF Running, At, Busy, PCs
  <2>2. QED
    BY <1>5, <1>9, <1>11, <1>12, <2>1 DEF Inv, RunsAreActive
<1>14. UnsettledHaveAttempts'
  BY <1>3, <1>5, <1>6 DEF StartJob, Runnable, Inv, UnsettledHaveAttempts, Settled
<1>15. DeadLettersAreFinal'
  <2>1. deadLetter[i] = "none"
    BY DEF StartJob, Runnable, Inv, TypeOK, DeadLettersAreFinal
  <2>2. QED
    BY <1>5, <1>7, <1>11, <1>12, <2>1 DEF dlq, Inv, DeadLettersAreFinal
<1>16. Requested'
  BY <1>5, <1>6, <1>7 DEF StartJob, Runnable, rows, Inv, Requested
<1>17. QED
  BY <1>4, <1>5, <1>6, <1>7, <1>8, <1>13, <1>14, <1>15, <1>16 DEF Inv

\* A worker becomes idle and forgets its job.
LEMMA BecomesIdle ==
  ASSUME Inv, NEW w \in Workers, Becomes(w, Idle)
  PROVE  /\ worker' \in [Workers -> Run]
         /\ ~Busy(w)' /\ worker'[w].job = None
         /\ \A v \in Workers \ {w} :
              /\ worker'[v] = worker[v]
              /\ Running(v)' <=> Running(v)
              /\ Busy(v)' <=> Busy(v)
              /\ At(v, "listener")' <=> At(v, "listener")
<1>1. Idle \in Run /\ Idle.pc = "idle" /\ Idle.job = None
  BY DEF Idle, Run, PCs
<1>2. worker' = [worker EXCEPT ![w] = Idle]
  BY DEF Becomes
<1>3. worker'[w] = Idle /\ \A v \in Workers \ {w} : worker'[v] = worker[v]
  BY <1>2 DEF Inv, TypeOK
<1>4. worker' \in [Workers -> Run]
  BY <1>1, <1>2 DEF Inv, TypeOK
<1>5. QED
  BY <1>1, <1>3, <1>4 DEF Running, Busy, At

\* A crash, or a rejected queue.add in the listener, loses the job of a worker.
Drops(w) ==
  /\ faults < MaxFaults
  /\ faults' = faults + 1
  /\ Becomes(w, Idle)
  /\ UNCHANGED <<rows, request, jobs, dlq>>

\* The job stays as it is.
LEMMA DropsInv ==
  ASSUME Inv, NEW w \in Workers, Drops(w)
  PROVE  Inv'
<1>1. TypeOK'
  BY BecomesIdle, KnowledgeAssumption DEF Drops, rows, dlq, Exists, Inv, TypeOK
<1>2. RunsAreActive'
  <2>1. ~Running(w)' /\ ~At(w, "listener")'
    BY BecomesIdle DEF Drops, Running, At, Busy, PCs
  <2>2. UNCHANGED jobs
    BY DEF Drops
  <2>3. QED
    BY <2>1, <2>2, BecomesIdle DEF Drops, Inv, RunsAreActive
<1>3. DeadLettersAreFinal'
  BY BecomesIdle DEF Drops, dlq, Inv, DeadLettersAreFinal
<1>4. UnsettledHaveAttempts' /\ Requested'
  BY DEF Drops, rows, Inv, UnsettledHaveAttempts, Settled, Requested
<1>5. QED
  BY <1>1, <1>2, <1>3, <1>4 DEF Inv

\* A call that fails leads to another place of the run, or out of the listener.
LEMMA CallFailsInv ==
  ASSUME Inv, NEW w \in Workers, CallFails(w)
  PROVE  /\ Inv' /\ UNCHANGED <<rows, request, jobs, dlq>>
         /\ Drops(w) \/ (RunGoesOn(w) /\ worker'[w].pc \in {"catch", "settle"})
<1>1. CASE Becomes(w, Idle)
  <2>1. Drops(w)
    BY <1>1 DEF CallFails, Drops
  <2>2. QED
    BY <2>1, DropsInv DEF CallFails
<1>2. CASE ~Becomes(w, Idle)
  <2>1. PICK pc \in {"catch", "settle"} : Running(w) /\ Fails(w, pc)
    BY <1>2 DEF CallFails, FailedCall, Trying, Running, PCs
  <2>2. RunGoesOn(w) /\ worker'[w].pc = pc
    BY <2>1, GoesTo DEF CallFails, PCs
  <2>3. TypeOK'
    BY <2>2, KnowledgeAssumption DEF CallFails, RunGoesOn, rows, dlq, Exists, Inv, TypeOK
  <2>4. QED
    BY <2>1, <2>2, <2>3, RunKeeps DEF CallFails, rows
<1>3. QED
  BY <1>1, <1>2

\* A settled job has no dead letter yet, and its worker goes on to the listener
\* or lets it go.
LEMMA SettleJobInv ==
  ASSUME Inv, NEW w \in Workers, SettleJob(w)
  PROVE  /\ Inv' /\ UNCHANGED <<rows, request, dlq>>
         /\ \A k \in Job : jobs'[k].data = jobs[k].data
         /\ worker[w].job \in Job /\ jobs[worker[w].job].state = "active"
         /\ \A k \in Job : k # worker[w].job => jobs'[k] = jobs[k]
         /\ \A v \in Workers \ {w} : worker'[v] = worker[v]
         /\ ~Running(w)' /\ (At(w, "listener")' => worker'[w].job = worker[w].job)
<1> DEFINE i == worker[w].job
           job == IF worker[w].outcome = "ok" THEN Completed(jobs[i]) ELSE AttemptFailed(jobs[i])
<1>1. Running(w) /\ ~At(w, "idle") /\ Busy(w)
  BY DEF SettleJob, At, Running, Busy, PCs
<1>2. i \in Job /\ jobs[i] \in JobOf(Document) /\ jobs[i].state = "active" /\ worker[w] \in Run
  BY <1>1 DEF Inv, TypeOK, RunsAreActive
<1>3. jobs[i].attempts < MaxAttempts
  BY <1>2 DEF Inv, UnsettledHaveAttempts, Settled
<1>4. Completed(jobs[i]) \in JobOf(Document) /\ AttemptFailed(jobs[i]) \in JobOf(Document)
  BY <1>2, <1>3, KnowledgeAssumption, JobTypes
<1>5. job \in JobOf(Document)
  BY <1>4
<1>6. job.data = jobs[i].data /\ job.state # "absent" /\ (~Settled(job) => job.attempts < MaxAttempts)
  <2>1. Completed(jobs[i]).data = jobs[i].data /\ Completed(jobs[i]).state = "completed"
    BY <1>2 DEF Completed, JobOf
  <2>2. AttemptFailed(jobs[i]).data = jobs[i].data /\ AttemptFailed(jobs[i]).state # "absent"
    BY <1>2 DEF AttemptFailed, JobOf
  <2>3. ~Settled(AttemptFailed(jobs[i])) => AttemptFailed(jobs[i]).attempts < MaxAttempts
    BY <1>2, <1>3, AttemptsAreLeft
  <2>4. QED
    BY <2>1, <2>2, <2>3 DEF Settled
<1>7. jobs' = [jobs EXCEPT ![i] = job]
  BY DEF SettleJob
<1>8. \/ Exhausted(job) /\ Goto(w, "listener")
      \/ Becomes(w, Idle)
  BY DEF SettleJob
<1> HIDE DEF job
<1>9. jobs' \in [Job -> JobOf(Document)] /\ jobs'[i] = job /\ \A k \in Job : k # i => jobs'[k] = jobs[k]
  BY <1>2, <1>5, <1>7 DEF Inv, TypeOK
<1>10. /\ worker' \in [Workers -> Run]
       /\ \A v \in Workers \ {w} : worker'[v] = worker[v]
       /\ ~Running(w)'
       /\ Busy(w)' => At(w, "listener")'
       /\ At(w, "listener")' => worker'[w].job = i /\ job.state = "failed"
  <2>1. CASE Becomes(w, Idle)
    BY <2>1, BecomesIdle DEF Busy, Running, At, PCs
  <2>2. CASE Exhausted(job) /\ Goto(w, "listener")
    BY <1>2, <2>2 DEF Goto, Becomes, Exhausted, Run, PCs, Running, Busy, At, Inv, TypeOK
  <2>3. QED
    BY <1>8, <2>1, <2>2
<1>11. UNCHANGED <<rows, request, dlq>>
  BY DEF SettleJob
<1>12. TypeOK'
  BY <1>9, <1>10, <1>11 DEF SettleJob, rows, dlq, Exists, Inv, TypeOK
<1>13. \A v \in Workers \ {w} :
         /\ Running(v)' <=> Running(v)
         /\ Busy(v)' <=> Busy(v)
         /\ At(v, "listener")' <=> At(v, "listener")
         /\ worker'[v].job = worker[v].job
         /\ Busy(v) => worker[v].job # i
  <2>1. \A v \in Workers \ {w} : Busy(v) => worker[v].job # i
    BY <1>1 DEF Inv, RunsAreActive
  <2>2. QED
    BY <1>10, <2>1 DEF Running, Busy, At
<1>14. RunsAreActive'
  <2>1. \A v \in Workers : Running(v) \/ At(v, "listener") => Busy(v)
    BY DEF Running, At, Busy, PCs
  <2>2. QED
    BY <1>2, <1>9, <1>10, <1>13, <2>1 DEF Inv, RunsAreActive
<1>15. UnsettledHaveAttempts'
  BY <1>6, <1>9 DEF Inv, UnsettledHaveAttempts, Settled
<1>16. DeadLettersAreFinal'
  <2>1. deadLetter[i] = "none"
    BY <1>2 DEF Inv, TypeOK, DeadLettersAreFinal
  <2>2. QED
    BY <1>9, <1>10, <1>11, <1>13, <2>1 DEF dlq, Inv, DeadLettersAreFinal
<1>17. \A k \in Job : jobs'[k].data = jobs[k].data
  BY <1>6, <1>9
<1>18. Requested'
  BY <1>2, <1>9, <1>11, <1>17 DEF rows, Inv, Requested
<1>19. QED
  BY <1>2, <1>9, <1>10, <1>11, <1>12, <1>14, <1>15, <1>16, <1>17, <1>18 DEF Inv

\* The dead letter of a failed job is the listener's last deed.
LEMMA AddDeadLetterInv ==
  ASSUME Inv, NEW w \in Workers, AddDeadLetter(w)
  PROVE  /\ Inv' /\ UNCHANGED <<rows, request, jobs, retrying, halfReplays>>
         /\ Becomes(w, Idle) /\ At(w, "listener") /\ worker[w].job \in Job
         /\ deadLetter' = [deadLetter EXCEPT ![worker[w].job] = "waiting"]
<1>1. worker[w].job \in Job /\ jobs[worker[w].job].state = "failed" /\ Busy(w)
  BY DEF AddDeadLetter, Inv, RunsAreActive, At, Busy, PCs
<1>2. Becomes(w, Idle) /\ UNCHANGED <<rows, request, jobs, retrying, halfReplays>>
  BY DEF AddDeadLetter
<1>3. TypeOK'
  BY <1>1, <1>2, BecomesIdle DEF AddDeadLetter, rows, Exists, Inv, TypeOK
<1>4. RunsAreActive'
  <2>1. ~Running(w)' /\ ~At(w, "listener")'
    BY <1>2, BecomesIdle DEF Running, At, Busy, PCs
  <2>2. QED
    BY <1>2, <2>1, BecomesIdle DEF Inv, RunsAreActive
<1>5. DeadLettersAreFinal'
  <2>1. \A v \in Workers : Busy(v)' => Busy(v) /\ v # w /\ worker'[v].job = worker[v].job
    BY <1>2, BecomesIdle
  <2>2. \A v \in Workers : Busy(v) /\ v # w => worker[v].job # worker[w].job
    BY <1>1 DEF Inv, RunsAreActive
  <2>3. retrying # worker[w].job
    BY <1>1, KnowledgeAssumption DEF Inv, DeadLettersAreFinal
  <2>4. deadLetter'[worker[w].job] = "waiting"
        /\ \A i \in Job : i # worker[w].job => deadLetter'[i] = deadLetter[i]
    BY <1>1 DEF AddDeadLetter, Inv, TypeOK
  <2>5. QED
    BY <1>1, <1>2, <2>1, <2>2, <2>3, <2>4 DEF Inv, TypeOK, DeadLettersAreFinal
<1>6. UnsettledHaveAttempts' /\ Requested'
  BY <1>2 DEF rows, Inv, UnsettledHaveAttempts, Settled, Requested
<1>7. QED
  BY <1>1, <1>2, <1>3, <1>4, <1>5, <1>6 DEF AddDeadLetter, Inv

\* A stalled job has no dead letter, and no worker.
LEMMA StalledCheckInv ==
  ASSUME Inv, NEW i \in Job, StalledCheck(i)
  PROVE  /\ Inv' /\ UNCHANGED <<rows, request, worker, dlq>>
         /\ \A k \in Job : jobs'[k].data = jobs[k].data
         /\ \A k \in Job \ {i} : jobs'[k] = jobs[k]
         /\ jobs[i].state = "active"
<1> DEFINE job == Stalled(jobs[i])
<1>1. jobs[i] \in JobOf(Document) /\ job \in JobOf(Document) /\ jobs[i].state = "active"
  BY KnowledgeAssumption, JobTypes DEF StalledCheck, Inv, TypeOK
<1>2. job.data = jobs[i].data /\ job.attempts = jobs[i].attempts /\ job.state # "absent"
  BY <1>1 DEF Stalled, JobOf
<1>3. UNCHANGED <<rows, request, worker, dlq>> /\ jobs' = [jobs EXCEPT ![i] = job]
  BY DEF StalledCheck
<1> HIDE DEF job
<1>4. jobs' \in [Job -> JobOf(Document)] /\ jobs'[i] = job /\ \A k \in Job \ {i} : jobs'[k] = jobs[k]
  BY <1>1, <1>3 DEF Inv, TypeOK
<1>5. TypeOK'
  BY <1>3, <1>4 DEF StalledCheck, rows, dlq, Exists, Inv, TypeOK
<1>6. \A w \in Workers : Busy(w) => worker[w].job # i
  BY DEF StalledCheck
<1>7. RunsAreActive'
  <2>1. \A w \in Workers : Running(w) \/ At(w, "listener") => Busy(w)
    BY DEF Running, At, Busy, PCs
  <2>2. QED
    BY <1>3, <1>4, <1>6, <2>1 DEF Inv, RunsAreActive, Running, Busy, At
<1>8. UnsettledHaveAttempts'
  <2>1. jobs[i].attempts < MaxAttempts
    BY <1>1 DEF Inv, UnsettledHaveAttempts, Settled
  <2>2. QED
    BY <1>2, <1>4, <2>1 DEF Inv, UnsettledHaveAttempts, Settled
<1>9. DeadLettersAreFinal'
  <2>1. deadLetter[i] = "none"
    BY <1>1 DEF Inv, TypeOK, DeadLettersAreFinal
  <2>2. QED
    BY <1>3, <1>4, <2>1 DEF dlq, Inv, DeadLettersAreFinal, Busy
<1>10. \A k \in Job : jobs'[k].data = jobs[k].data
  BY <1>2, <1>4
<1>11. Requested'
  BY <1>1, <1>3, <1>4, <1>10 DEF rows, Inv, Requested
<1>12. QED
  BY <1>1, <1>3, <1>4, <1>5, <1>7, <1>8, <1>9, <1>10, <1>11 DEF Inv

\* Steps on the dead-letter queue that add no job.
Letters == (\E i \in Job : StoreDeadLetter(i)) \/ RemoveDeadLetter \/ ReplayFails

\* A dead letter stays one, whatever becomes of it.
LEMMA LettersInv ==
  ASSUME Inv, Letters
  PROVE  /\ Inv' /\ UNCHANGED <<rows, request, jobs, worker>>
         /\ \A i \in Job : deadLetter[i] = "none" => deadLetter'[i] = "none"
<1>1. UNCHANGED <<rows, request, jobs, worker>>
  BY DEF Letters, StoreDeadLetter, RemoveDeadLetter, ReplayFails
<1>2. TypeOK'
  <2>1. CASE \E i \in Job : StoreDeadLetter(i)
    BY <1>1, <2>1 DEF StoreDeadLetter, rows, Exists, Inv, TypeOK
  <2>2. CASE RemoveDeadLetter
    BY <1>1, <2>2 DEF RemoveDeadLetter, rows, Exists, Inv, TypeOK
  <2>3. CASE ReplayFails
    BY <1>1, <2>3, KnowledgeAssumption DEF ReplayFails, rows, Exists, Inv, TypeOK
  <2>4. QED
    BY <2>1, <2>2, <2>3 DEF Letters
<1>3. \A i \in Job : deadLetter[i] = "none" => deadLetter'[i] = "none"
  BY DEF Letters, StoreDeadLetter, RemoveDeadLetter, ReplayFails, Inv, TypeOK, DeadLettersAreFinal
<1>4. retrying' # None => deadLetter'[retrying'] = "failed"
  BY DEF Letters, StoreDeadLetter, RemoveDeadLetter, ReplayFails, Inv, TypeOK, DeadLettersAreFinal
<1>5. DeadLettersAreFinal'
  BY <1>1, <1>3, <1>4 DEF Inv, DeadLettersAreFinal, Busy
<1>6. RunsAreActive' /\ UnsettledHaveAttempts' /\ Requested'
  BY <1>1 DEF rows, Inv, RunsAreActive, UnsettledHaveAttempts, Requested, Running, Busy,
              At, Settled
<1>7. QED
  BY <1>1, <1>2, <1>3, <1>5, <1>6 DEF Inv

\* The new job is for the document of the old one.
LEMMA ReplayInv ==
  ASSUME Inv, NEW i \in Job, NEW id \in ReplayIds, ReplayDeadLetter(i, id)
  PROVE  /\ Inv' /\ UNCHANGED <<rows, request, worker, deadLetter, halfReplays>>
         /\ id \in Job /\ jobs[id].state = "absent" /\ jobs'[id].data = jobs[i].data
         /\ \A k \in Job \ {id} : jobs'[k] = jobs[k]
         /\ retrying = None /\ retrying' = i /\ deadLetter[i] = "failed"
<1>1. id \in Job /\ jobs[id].state = "absent" /\ deadLetter[i] = "failed"
  BY DEF ReplayDeadLetter, Job
<1>2. jobs[i] \in JobOf(Document) /\ jobs[i].state = "failed" /\ i # id
  BY <1>1 DEF Inv, TypeOK, DeadLettersAreFinal
<1>3. Queued(jobs[i].data) \in JobOf(Document)
  BY <1>2, JobTypes DEF JobOf
<1>4. /\ Queued(jobs[i].data).data = jobs[i].data
      /\ Queued(jobs[i].data).state = "waiting" /\ Queued(jobs[i].data).attempts = 0
  BY DEF Queued
<1>5. /\ jobs' \in [Job -> JobOf(Document)]
      /\ jobs'[id] = Queued(jobs[i].data) /\ \A k \in Job \ {id} : jobs'[k] = jobs[k]
  BY <1>1, <1>3 DEF ReplayDeadLetter, Inv, TypeOK
<1>6. UNCHANGED <<rows, request, worker, deadLetter, halfReplays>> /\ retrying = None /\ retrying' = i
  BY DEF ReplayDeadLetter
<1>7. TypeOK'
  BY <1>5, <1>6 DEF ReplayDeadLetter, rows, Exists, Inv, TypeOK
<1>8. \A w \in Workers : Busy(w) => worker[w].job # id
  BY <1>1 DEF Busy, Inv, RunsAreActive, Running, At, PCs
<1>9. RunsAreActive'
  <2>1. \A w \in Workers : Running(w) \/ At(w, "listener") => Busy(w)
    BY DEF Running, At, Busy, PCs
  <2>2. QED
    BY <1>5, <1>6, <1>8, <2>1 DEF Inv, RunsAreActive, Running, Busy, At
<1>10. UnsettledHaveAttempts'
  BY <1>4, <1>5, BullAssumption DEF Inv, UnsettledHaveAttempts, Settled
<1>11. DeadLettersAreFinal'
  <2>1. deadLetter[id] = "none"
    BY <1>1 DEF Inv, TypeOK, DeadLettersAreFinal
  <2>2. QED
    BY <1>1, <1>5, <1>6, <2>1 DEF Inv, DeadLettersAreFinal, Busy
<1>12. Requested'
  <2>1. \A d \in Document : request[d] \in {"new", "queue"} => jobs[i].data # d
    BY <1>2 DEF Inv, Requested
  <2>2. QED
    BY <1>4, <1>5, <1>6, <2>1 DEF rows, Inv, Requested
<1>13. QED
  BY <1>1, <1>4, <1>5, <1>6, <1>7, <1>9, <1>10, <1>11, <1>12 DEF Inv

-----------------------------------------------------------------------------
(* Type correctness.                                                       *)

\* The steps of ingestDocument between the start of the job and its end.
RunStep(w) ==
  \/ FindDocument(w) \/ MarkProcessing(w) \/ ClearChunks(w) \/ CreateChunk(w)
  \/ Embed(w) \/ MarkReady(w) \/ Catch(w)

\* Each of them keeps the invariant, and the run goes on.
LEMMA RunStepInv ==
  ASSUME Inv, NEW w \in Workers, RunStep(w)
  PROVE  Inv' /\ RunGoesOn(w)
BY FindDocumentInv, MarkProcessingInv, ClearChunksInv, CreateChunkInv, EmbedInv,
   MarkReadyInv, CatchInv
DEF RunStep

\* Next, grouped the way the lemmas are.
LEMMA NextCases ==
  ASSUME Next
  PROVE  \/ Rows \/ Letters
         \/ \E d \in Document : AddKnowledgeJob(d)
         \/ \E w \in Workers, i \in Job : StartJob(w, i)
         \/ \E w \in Workers : RunStep(w)
         \/ \E w \in Workers : SettleJob(w) \/ AddDeadLetter(w) \/ CallFails(w) \/ Drops(w)
         \/ \E i \in Job : StalledCheck(i)
         \/ \E i \in Job, id \in ReplayIds : ReplayDeadLetter(i, id)
BY DEF Next, Step, RunStep, Rows, Letters, Crash, Drops

\* The invariant of the types is inductive.
LEMMA NextInv == Inv /\ [Next]_vars => Inv'
<1> SUFFICES ASSUME Inv, [Next]_vars PROVE Inv'
  OBVIOUS
<1>1. CASE UNCHANGED vars
  BY <1>1 DEF vars, Inv, TypeOK, RunsAreActive, UnsettledHaveAttempts, DeadLettersAreFinal,
              Requested, Running, Busy, At, Settled, Exists
<1>2. CASE Next
  BY <1>2, NextCases, RowsInv, LettersInv, AddKnowledgeJobInv, StartJobInv, RunStepInv,
     SettleJobInv, AddDeadLetterInv, CallFailsInv, DropsInv, StalledCheckInv, ReplayInv
<1>3. QED
  BY <1>1, <1>2

\* TypeOK holds for every set of documents, bases and workers: no embedding
\* without its chunk, no chunk without its document.
THEOREM TypeCorrect == Spec => []TypeOK
<1>1. Inv => TypeOK
  BY DEF Inv
<1>2. QED
  BY InitInv, NextInv, <1>1, PTL DEF Spec

-----------------------------------------------------------------------------
(* One job per document, as long as no replay leaves its dead letter.      *)

\* No job becomes live that was not: true of every step but the two that add
\* a job to the queue.
LEMMA NoNewJob ==
  ASSUME OneJobPerDocument,
         \A i \in Job : Live(i)' => Live(i) /\ jobs'[i].data = jobs[i].data
  PROVE  OneJobPerDocument'
BY DEF OneJobPerDocument

\* The workers and the queues as they were.
LEMMA QueuesAlone ==
  ASSUME OneJobPerDocument, UNCHANGED <<jobs, worker, dlq>>
  PROVE  OneJobPerDocument'
BY DEF OneJobPerDocument, Live, At, dlq

\* A worker that lets its job go makes none live.
LEMMA OneJobIdle ==
  ASSUME Inv, OneJobPerDocument, NEW w \in Workers, Becomes(w, Idle), UNCHANGED <<jobs, dlq>>
  PROVE  OneJobPerDocument'
<1>1. \A v \in Workers : At(v, "listener")' => At(v, "listener") /\ worker'[v].job = worker[v].job
  BY BecomesIdle DEF At, Busy, PCs
<1>2. \A i \in Job : Live(i)' => Live(i) /\ jobs'[i].data = jobs[i].data
  BY <1>1 DEF Live, dlq
<1>3. QED
  BY <1>2, NoNewJob

\* A run that goes on makes no job live.
LEMMA OneJobRun ==
  ASSUME Inv, OneJobPerDocument, NEW w \in Workers, RunGoesOn(w)
  PROVE  OneJobPerDocument'
<1>1. \A v \in Workers : At(v, "listener")' => At(v, "listener") /\ worker'[v].job = worker[v].job
  BY DEF RunGoesOn, Running, At
<1>2. \A i \in Job : Live(i)' => Live(i) /\ jobs'[i].data = jobs[i].data
  BY <1>1 DEF Live, RunGoesOn, dlq
<1>3. QED
  BY <1>2, NoNewJob

\* Whatever is live is known to the queue.
LEMMA LiveIsKnown ==
  ASSUME Inv, NEW i \in Job, Live(i)
  PROVE  jobs[i].state # "absent"
BY DEF Live, Inv, RunsAreActive, DeadLettersAreFinal

\* OneJobPerDocument is inductive until a replay is left half done.
LEMMA OneJobNext ==
  ASSUME Inv, OneJobPerDocument, Next, halfReplays' = 0
  PROVE  OneJobPerDocument'
<1>1. CASE Rows
  BY <1>1, RowsInv, QueuesAlone
<1>2. CASE Letters
  <2>1. UNCHANGED <<jobs, worker>>
    BY <1>2, LettersInv
  <2>2. \A i \in Job : deadLetter'[i] \in {"waiting", "failed"} /\ retrying' # i =>
          deadLetter[i] \in {"waiting", "failed"} /\ retrying # i
    <3>1. CASE \E k \in Job : StoreDeadLetter(k)
      <4>1. PICK k \in Job : StoreDeadLetter(k)
        BY <3>1
      <4>2. retrying' = retrying /\ deadLetter[k] = "waiting"
            /\ \A i \in Job : i # k => deadLetter'[i] = deadLetter[i]
        BY <4>1 DEF StoreDeadLetter, Inv, TypeOK
      <4>3. QED
        BY <4>2
    <3>2. CASE RemoveDeadLetter
      <4>1. retrying \in Job /\ deadLetter'[retrying] = "removed"
            /\ \A i \in Job : i # retrying => deadLetter'[i] = deadLetter[i]
        BY <3>2 DEF RemoveDeadLetter, Inv, TypeOK
      <4>2. QED
        BY <4>1
    <3>3. CASE ReplayFails
      <4>1. halfReplays' # 0
        BY <3>3 DEF ReplayFails, Inv, TypeOK
      <4>2. QED
        BY <4>1
    <3>4. QED
      BY <1>2, <3>1, <3>2, <3>3 DEF Letters
  <2>3. \A i \in Job : Live(i)' => Live(i) /\ jobs'[i].data = jobs[i].data
    BY <2>1, <2>2 DEF Live, At
  <2>4. QED
    BY <2>3, NoNewJob
<1>3. ASSUME NEW d \in Document, AddKnowledgeJob(d) PROVE OneJobPerDocument'
  <2>1. \A i \in Job : Live(i)' => Live(i) \/ (i = d /\ jobs'[i].data = d)
    BY <1>3, AddKnowledgeJobInv DEF Live, At, dlq
  <2>2. \A i \in Job : Live(i) => jobs'[i] = jobs[i] /\ jobs[i].data # d
    BY <1>3, AddKnowledgeJobInv, LiveIsKnown
  <2>3. QED
    BY <2>1, <2>2 DEF OneJobPerDocument
<1>4. ASSUME NEW w \in Workers, NEW i \in Job, StartJob(w, i) PROVE OneJobPerDocument'
  <2>1. \A v \in Workers : At(v, "listener")' => At(v, "listener") /\ worker'[v].job = worker[v].job
    BY <1>4, StartJobInv DEF At, Idle
  <2>2. Live(i)
    BY <1>4 DEF StartJob, Runnable, Live
  <2>3. \A k \in Job : Live(k)' => Live(k) /\ jobs'[k].data = jobs[k].data
    BY <1>4, <2>1, <2>2, StartJobInv DEF Live, dlq
  <2>4. QED
    BY <2>3, NoNewJob
<1>5. ASSUME NEW w \in Workers, RunStep(w) PROVE OneJobPerDocument'
  BY <1>5, RunStepInv, OneJobRun
<1>6. ASSUME NEW w \in Workers, SettleJob(w) PROVE OneJobPerDocument'
  <2>1. Live(worker[w].job)
    BY <1>6, SettleJobInv DEF Live
  <2>2. \A v \in Workers : At(v, "listener")' =>
          (v = w \/ At(v, "listener")) /\ worker'[v].job = worker[v].job
    BY <1>6, SettleJobInv DEF At
  <2>3. \A k \in Job : Live(k)' => Live(k) /\ jobs'[k].data = jobs[k].data
    BY <1>6, <2>1, <2>2, SettleJobInv DEF Live, dlq
  <2>4. QED
    BY <2>3, NoNewJob
<1>7. ASSUME NEW w \in Workers, AddDeadLetter(w) PROVE OneJobPerDocument'
  <2>1. \A v \in Workers : At(v, "listener")' => At(v, "listener") /\ worker'[v].job = worker[v].job
    BY <1>7, AddDeadLetterInv, BecomesIdle DEF At, Busy, PCs
  <2>2. \A k \in Job : k # worker[w].job => deadLetter'[k] = deadLetter[k]
    BY <1>7, AddDeadLetterInv DEF Inv, TypeOK
  <2>3. Live(worker[w].job)
    BY <1>7, AddDeadLetterInv DEF Live
  <2>4. \A k \in Job : Live(k)' => Live(k) /\ jobs'[k].data = jobs[k].data
    BY <1>7, <2>1, <2>2, <2>3, AddDeadLetterInv DEF Live
  <2>5. QED
    BY <2>4, NoNewJob
<1>8. ASSUME NEW w \in Workers, Drops(w) PROVE OneJobPerDocument'
  BY <1>8, OneJobIdle DEF Drops
<1>9. ASSUME NEW w \in Workers, CallFails(w) PROVE OneJobPerDocument'
  BY <1>8, <1>9, CallFailsInv, OneJobRun
<1>10. ASSUME NEW i \in Job, StalledCheck(i) PROVE OneJobPerDocument'
  <2>1. Live(i)
    BY <1>10, StalledCheckInv DEF Live
  <2>2. \A k \in Job : Live(k)' => Live(k) /\ jobs'[k].data = jobs[k].data
    BY <1>10, <2>1, StalledCheckInv DEF Live, At, dlq
  <2>3. QED
    BY <2>2, NoNewJob
<1>11. ASSUME NEW i \in Job, NEW id \in ReplayIds, ReplayDeadLetter(i, id)
       PROVE  OneJobPerDocument'
  <2>1. i # None /\ retrying = None /\ retrying' = i /\ deadLetter[i] = "failed"
    BY <1>11, ReplayInv, KnowledgeAssumption
  <2>2. Live(i) /\ jobs[i].state = "failed" /\ \A w \in Workers : Busy(w) => worker[w].job # i
    BY <2>1 DEF Live, Inv, DeadLettersAreFinal
  <2>3. ~Live(i)'
    <3>1. jobs'[i] = jobs[i] /\ UNCHANGED worker
      BY <1>11, <2>2, ReplayInv
    <3>2. QED
      BY <2>1, <2>2, <3>1 DEF Live, At, Busy, PCs
  <2>4. \A k \in Job \ {id} : Live(k)' => Live(k) /\ k # i /\ jobs'[k].data = jobs[k].data
    <3>1. \A k \in Job \ {id} : Live(k)' => Live(k)
      BY <1>11, <2>1, ReplayInv, KnowledgeAssumption DEF Live, At
    <3>2. QED
      BY <1>11, <2>3, <3>1, ReplayInv
  <2>5. jobs'[id].data = jobs[i].data
    BY <1>11, ReplayInv
  <2>6. QED
    BY <2>2, <2>4, <2>5 DEF OneJobPerDocument
<1>12. QED
  BY <1>1, <1>2, <1>3, <1>4, <1>5, <1>6, <1>7, <1>8, <1>9, <1>10, <1>11, NextCases

-----------------------------------------------------------------------------
(* What is stored of a document that is ready.                             *)

\* No two runs work on one document.
LEMMA OneRunPerDocument ==
  ASSUME Inv, OneJobPerDocument, NEW v \in Workers, NEW w \in Workers,
         Running(v), Running(w), Doc(v) = Doc(w)
  PROVE  v = w
<1>1. worker[v].job \in Job /\ worker[w].job \in Job
      /\ jobs[worker[v].job].state = "active" /\ jobs[worker[w].job].state = "active"
  BY DEF Inv, RunsAreActive
<1>2. worker[v].job = worker[w].job
  BY <1>1 DEF OneJobPerDocument, Live, Doc
<1>3. QED
  BY <1>2 DEF Inv, RunsAreActive, Running, Busy

\* The rows of a document among these.
IndexesOf(rs, d) == {r.index : r \in {e \in rs : e.document = d}}

\* The part of Stored that is about one worker, and the part about one document.
RunStored(w) ==
  /\ worker[w].pc \in {"find", "mark", "clear"} => worker[w].index = 0
  /\ worker[w].pc \in Trying => status[Doc(w)] \in {"processing", "deleted"}
  /\ worker[w].pc \in {"chunk", "embed", "ready"} /\ status[Doc(w)] # "deleted" =>
       IndexesOf(embeddings, Doc(w)) = 0..(worker[w].index - 1)
  /\ worker[w].pc = "ready" => worker[w].index = Count(Doc(w))

ReadyStored(d) == status[d] = "ready" => IndexesOf(embeddings, d) = 0..(Count(d) - 1)

\* Stored speaks of every worker and every document.
LEMMA StoredParts ==
  Stored <=> (\A w \in Workers : RunStored(w)) /\ (\A d \in Document : ReadyStored(d))
<1>1. \A d : Embedded(d) = IndexesOf(embeddings, d)
  BY DEF Embedded, IndexesOf
<1>2. QED
  BY <1>1 DEF Stored, RunStored, ReadyStored, At

\* The same of the state after a step.
LEMMA StoredAfter ==
  ASSUME \A w \in Workers : RunStored(w)', \A d \in Document : ReadyStored(d)'
  PROVE  Stored'
<1>1. \A d : Embedded(d)' = IndexesOf(embeddings', d)
  BY DEF Embedded, IndexesOf
<1>2. \A w \in Workers : Embedded(Doc(w))' = IndexesOf(embeddings', Doc(w)')
  BY DEF Embedded, IndexesOf
<1>3. QED
  BY <1>1, <1>2 DEF Stored, RunStored, ReadyStored, At

\* A run that stays where it is keeps its part, if nobody touches its document.
LEMMA UntouchedRun ==
  ASSUME NEW w \in Workers, RunStored(w), worker'[w] = worker[w],
         NEW d, d = Doc(w),
         worker[w].pc \in Trying =>
           /\ Doc(w)' = d
           /\ \/ status'[d] = "deleted"
              \/ status'[d] = status[d] /\ IndexesOf(embeddings', d) = IndexesOf(embeddings, d)
  PROVE  RunStored(w)'
<1>1. CASE worker[w].pc \in Trying
  <2>1. Doc(w)' = d
    BY <1>1
  <2>2. CASE status'[d] = "deleted"
    BY <1>1, <2>1, <2>2 DEF RunStored, Trying
  <2>3. CASE status'[d] = status[d] /\ IndexesOf(embeddings', d) = IndexesOf(embeddings, d)
    BY <1>1, <2>1, <2>3 DEF RunStored, Trying
  <2>4. QED
    BY <1>1, <2>2, <2>3
<1>2. CASE worker[w].pc \notin Trying
  BY <1>2 DEF RunStored, Trying
<1>3. QED
  BY <1>1, <1>2

\* Steps that write no row keep what is stored, if the workers they move are
\* not among the chunks afterwards.
LEMMA RowsAlone ==
  ASSUME Inv, Stored, UNCHANGED rows,
         \A v \in Workers :
           \/ worker'[v] = worker[v] /\ (Running(v) => Doc(v)' = Doc(v))
           \/ /\ worker'[v].pc \notin Trying
              /\ worker'[v].pc \in {"find", "mark"} => worker'[v].index = 0
  PROVE  Stored'
<1>1. UNCHANGED <<status, embeddings>>
  BY DEF rows
<1>2. \A d \in Document : ReadyStored(d)'
  BY <1>1, StoredParts DEF ReadyStored
<1>3. ASSUME NEW v \in Workers PROVE RunStored(v)'
  <2>1. RunStored(v)
    BY StoredParts
  <2>2. CASE worker'[v] = worker[v] /\ (Running(v) => Doc(v)' = Doc(v))
    <3>1. worker[v].pc \in Trying => Running(v)
      BY DEF Trying, Running, PCs
    <3>2. QED
      BY <1>1, <2>1, <2>2, <3>1, UntouchedRun
  <2>3. CASE /\ worker'[v].pc \notin Trying
             /\ worker'[v].pc \in {"find", "mark"} => worker'[v].index = 0
    BY <2>3 DEF RunStored, Trying
  <2>4. QED
    BY <2>2, <2>3
<1>4. QED
  BY <1>2, <1>3, StoredAfter

\* A step of a run touches no document but its own, so only its own part can
\* be disturbed.
LEMMA RunWrites ==
  ASSUME Inv, OneJobPerDocument, Stored, NEW w \in Workers, RunGoesOn(w),
         \A d \in Document : d # Doc(w) =>
           status'[d] = status[d] /\ IndexesOf(embeddings', d) = IndexesOf(embeddings, d),
         RunStored(w)', ReadyStored(Doc(w))'
  PROVE  Stored'
<1>1. Doc(w)' = Doc(w) /\ Doc(w) \in Document
  BY DocumentOfRun DEF RunGoesOn, Doc
<1>2. ASSUME NEW d \in Document, d # Doc(w) PROVE ReadyStored(d)'
  BY <1>2, StoredParts DEF ReadyStored
<1>3. ASSUME NEW v \in Workers, v # w PROVE RunStored(v)'
  <2>1. RunStored(v) /\ worker'[v] = worker[v]
    BY <1>3, StoredParts DEF RunGoesOn
  <2>2. Doc(v)' = Doc(v)
    BY <2>1 DEF Doc, RunGoesOn
  <2>3. worker[v].pc \in Trying => Doc(v) # Doc(w) /\ Doc(v) \in Document
    <3>1. worker[v].pc \in Trying => Running(v)
      BY DEF Trying, Running, PCs
    <3>2. QED
      BY <1>3, <3>1, OneRunPerDocument, DocumentOfRun DEF RunGoesOn
  <2>4. QED
    BY <2>1, <2>2, <2>3, UntouchedRun
<1>4. \A d \in Document : ReadyStored(d)'
  <2>1. ReadyStored(Doc(w))' <=> (status'[Doc(w)] = "ready" =>
          IndexesOf(embeddings', Doc(w)) = 0..(Count(Doc(w)) - 1))
    BY <1>1 DEF ReadyStored
  <2>2. QED
    BY <1>2, <2>1 DEF ReadyStored
<1>5. QED
  BY <1>3, <1>4, StoredAfter

\* Deleting documents spares the rows of the others.
LEMMA DeleteSpares ==
  ASSUME NEW docs, Delete(docs), NEW d, d \notin docs
  PROVE  IndexesOf(embeddings', d) = IndexesOf(embeddings, d)
<1>1. {e \in embeddings' : e.document = d} = {e \in embeddings : e.document = d}
  BY DEF Delete
<1>2. QED
  BY <1>1 DEF IndexesOf

\* Requests create documents nobody works on, and delete whole documents.
LEMMA StoredRows ==
  ASSUME Inv, Stored, Rows
  PROVE  Stored'
<1>1. UNCHANGED <<jobs, worker>>
  BY RowsInv
<1>2. ASSUME \A d \in Document :
               /\ status'[d] = "ready" => status[d] = "ready"
               /\ \/ status'[d] = "deleted"
                  \/ status'[d] = status[d] /\ IndexesOf(embeddings', d) = IndexesOf(embeddings, d)
                  \/ request[d] = "new" /\ status'[d] # "ready"
      PROVE  Stored'
  <2>1. \A d \in Document : ReadyStored(d)'
    BY <1>2, StoredParts DEF ReadyStored
  <2>2. ASSUME NEW v \in Workers PROVE RunStored(v)'
    <3>1. RunStored(v) /\ worker'[v] = worker[v] /\ Doc(v)' = Doc(v)
      BY <1>1, StoredParts DEF Doc
    <3>2. worker[v].pc \in Trying => Doc(v) \in Document /\ request[Doc(v)] # "new"
      BY DocumentOfRun DEF Trying, Running, PCs
    <3>3. QED
      BY <1>2, <3>1, <3>2, UntouchedRun
  <2>3. QED
    BY <2>1, <2>2, StoredAfter
<1>3. ASSUME NEW d \in Document, CreateDocument(d) PROVE Stored'
  <2>1. status'[d] = "pending" /\ request[d] = "new" /\ UNCHANGED embeddings
        /\ \A e \in Document : e # d => status'[e] = status[e]
    BY <1>3 DEF CreateDocument, Inv, TypeOK
  <2>2. QED
    BY <1>2, <2>1
<1>4. ASSUME NEW d \in Document, RequestFails(d) PROVE Stored'
  BY <1>2, <1>4 DEF RequestFails, rows
<1>5. ASSUME NEW docs, Delete(docs) PROVE Stored'
  <2>1. \A d \in Document : status'[d] = IF d \in docs THEN "deleted" ELSE status[d]
    BY <1>5 DEF Delete
  <2>2. \A d \in Document : d \notin docs => IndexesOf(embeddings', d) = IndexesOf(embeddings, d)
    BY <1>5, DeleteSpares
  <2>3. QED
    BY <1>2, <2>1, <2>2
<1>6. QED
  BY <1>3, <1>4, <1>5 DEF Rows, DeleteDocument, DeleteBase

-----------------------------------------------------------------------------
(* The steps of a run, and what they store.                                *)

\* A document that is there is going to be marked, with no chunk stored yet.
LEMMA FindDocumentStored ==
  ASSUME Inv, OneJobPerDocument, Stored, NEW w \in Workers, FindDocument(w)
  PROVE  Stored'
<1>1. RunGoesOn(w) /\ Running(w) /\ UNCHANGED jobs
  BY FindDocumentInv DEF RunGoesOn
<1>2. Doc(w) \in Document /\ Doc(w)' = Doc(w) /\ worker[w] \in Run
  BY <1>1, DocumentOfRun DEF RunGoesOn, Doc
<1>3. RunStored(w) /\ ReadyStored(Doc(w))
  BY <1>2, StoredParts
<1>4. worker'[w].pc \in {"mark", "settle"} /\ worker'[w].index = 0 /\ UNCHANGED rows
  BY <1>1, <1>2, <1>3 DEF FindDocument, Goto, Becomes, At, RunStored, Run, Inv, TypeOK
<1>5. \A v \in Workers \ {w} : worker'[v] = worker[v] /\ Doc(v)' = Doc(v)
  BY <1>1 DEF RunGoesOn, Doc
<1>6. QED
  BY <1>4, <1>5, RowsAlone DEF Trying

\* The run starts over: the document is not ready any more.
LEMMA MarkProcessingStored ==
  ASSUME Inv, OneJobPerDocument, Stored, NEW w \in Workers, MarkProcessing(w)
  PROVE  Stored'
<1>1. RunGoesOn(w) /\ Running(w) /\ UNCHANGED jobs
  BY MarkProcessingInv DEF RunGoesOn
<1>2. Doc(w) \in Document /\ Doc(w)' = Doc(w) /\ worker[w] \in Run
  BY <1>1, DocumentOfRun DEF RunGoesOn, Doc
<1>3. RunStored(w) /\ ReadyStored(Doc(w))
  BY <1>2, StoredParts
<1>4. \/ worker'[w].pc = "clear" /\ worker'[w].index = 0 /\ status'[Doc(w)] = "processing"
      \/ worker'[w].pc = "settle" /\ status' = status
  <2>1. CASE Goto(w, "clear") /\ status' = [status EXCEPT ![Doc(w)] = "processing"]
    BY <1>2, <1>3, <2>1 DEF MarkProcessing, At, Goto, Becomes, RunStored, Run, Inv, TypeOK
  <2>2. CASE Fails(w, "settle") /\ status' = status
    BY <1>1, <2>2, GoesTo DEF MarkProcessing, PCs
  <2>3. QED
    BY <2>1, <2>2 DEF MarkProcessing
<1>5. RunStored(w)' /\ ReadyStored(Doc(w))'
  BY <1>2, <1>3, <1>4 DEF MarkProcessing, RunStored, ReadyStored, Trying
<1>6. \A d \in Document : d # Doc(w) =>
        status'[d] = status[d] /\ IndexesOf(embeddings', d) = IndexesOf(embeddings, d)
  BY DEF MarkProcessing, Inv, TypeOK
<1>7. QED
  BY <1>1, <1>5, <1>6, RunWrites

\* Nothing of the document is left when the loop begins.
LEMMA ClearChunksStored ==
  ASSUME Inv, OneJobPerDocument, Stored, NEW w \in Workers, ClearChunks(w)
  PROVE  Stored'
<1>1. RunGoesOn(w) /\ Running(w) /\ UNCHANGED jobs
  BY ClearChunksInv DEF RunGoesOn
<1>2. Doc(w) \in Document /\ Doc(w)' = Doc(w) /\ worker[w] \in Run
  BY <1>1, DocumentOfRun DEF RunGoesOn, Doc
<1>3. RunStored(w) /\ ReadyStored(Doc(w))
  BY <1>2, StoredParts
<1>4. UNCHANGED status
  BY DEF ClearChunks
<1>5. CASE Fails(w, "catch") /\ UNCHANGED embeddings
  <2>1. worker'[w].pc = "catch"
    BY <1>1, <1>5, GoesTo DEF ClearChunks, PCs, Trying
  <2>2. RunStored(w)' /\ ReadyStored(Doc(w))'
    BY <1>2, <1>3, <1>4, <1>5, <2>1 DEF RunStored, ReadyStored, Trying
  <2>3. QED
    BY <1>1, <1>4, <1>5, <2>2, RunWrites
<1>6. CASE Goto(w, Loop(Doc(w), 0)) /\ embeddings' = embeddings \ ChunksOf(Doc(w))
  <2>1. Loop(Doc(w), 0) \in {"ready", "chunk"} /\ (Loop(Doc(w), 0) = "ready" => Count(Doc(w)) = 0)
    BY DEF Loop
  <2>2. worker'[w].pc = Loop(Doc(w), 0) /\ worker'[w].index = worker[w].index
    BY <1>1, <1>6, <2>1, GoesTo DEF ClearChunks, PCs, Trying
  <2>3. worker[w].index = 0 /\ status[Doc(w)] \in {"processing", "deleted"}
    BY <1>3 DEF ClearChunks, At, RunStored, Trying
  <2>4. IndexesOf(embeddings', Doc(w)) = {}
    BY <1>6 DEF IndexesOf, ChunksOf, Inv, TypeOK
  <2>5. \A d \in Document : d # Doc(w) => IndexesOf(embeddings', d) = IndexesOf(embeddings, d)
    <3>1. \A d \in Document : d # Doc(w) =>
            {e \in embeddings' : e.document = d} = {e \in embeddings : e.document = d}
      BY <1>6 DEF ChunksOf
    <3>2. QED
      BY <3>1 DEF IndexesOf
  <2>6. 0..(0 - 1) = {}
    OBVIOUS
  <2>7. RunStored(w)'
    BY <1>2, <1>4, <2>1, <2>2, <2>3, <2>4, <2>6 DEF RunStored, Trying
  <2>8. ReadyStored(Doc(w))'
    BY <1>2, <1>4, <2>3 DEF ReadyStored
  <2>9. QED
    BY <1>1, <1>4, <2>5, <2>7, <2>8, RunWrites
<1>7. QED
  BY <1>5, <1>6 DEF ClearChunks

\* A chunk without its embedding does not count yet.
LEMMA CreateChunkStored ==
  ASSUME Inv, OneJobPerDocument, Stored, NEW w \in Workers, CreateChunk(w)
  PROVE  Stored'
<1>1. RunGoesOn(w) /\ Running(w) /\ UNCHANGED jobs
  BY CreateChunkInv DEF RunGoesOn
<1>2. Doc(w) \in Document /\ Doc(w)' = Doc(w) /\ worker[w] \in Run
  BY <1>1, DocumentOfRun DEF RunGoesOn, Doc
<1>3. RunStored(w) /\ ReadyStored(Doc(w))
  BY <1>2, StoredParts
<1>4. UNCHANGED <<status, embeddings>>
  BY DEF CreateChunk
<1>5. worker'[w].pc \in {"embed", "catch"} /\ worker'[w].index = worker[w].index
  BY <1>1, GoesTo DEF CreateChunk, PCs, Trying
<1>6. RunStored(w)' /\ ReadyStored(Doc(w))'
  BY <1>2, <1>3, <1>4, <1>5 DEF CreateChunk, At, RunStored, ReadyStored, Trying
<1>7. QED
  BY <1>1, <1>4, <1>6, RunWrites

\* One more index is embedded, the one the run has come to.
LEMMA EmbedStored ==
  ASSUME Inv, OneJobPerDocument, Stored, NEW w \in Workers, Embed(w)
  PROVE  Stored'
<1>1. RunGoesOn(w) /\ Running(w) /\ UNCHANGED jobs
  BY EmbedInv DEF RunGoesOn
<1>2. Doc(w) \in Document /\ Doc(w)' = Doc(w) /\ worker[w] \in Run
  BY <1>1, DocumentOfRun DEF RunGoesOn, Doc
<1>3. RunStored(w) /\ ReadyStored(Doc(w))
  BY <1>2, StoredParts
<1>4. UNCHANGED status /\ worker[w].pc = "embed" /\ status[Doc(w)] \in {"processing", "deleted"}
  BY <1>3 DEF Embed, At, RunStored, Trying
<1>5. CASE Fails(w, "catch") /\ UNCHANGED embeddings
  <2>1. worker'[w].pc = "catch"
    BY <1>1, <1>5, GoesTo DEF Embed, PCs, Trying
  <2>2. RunStored(w)' /\ ReadyStored(Doc(w))'
    BY <1>2, <1>3, <1>4, <1>5, <2>1 DEF RunStored, ReadyStored, Trying
  <2>3. QED
    BY <1>1, <1>4, <1>5, <2>2, RunWrites
<1>6. CASE Row(w) \in chunks
  <2> DEFINE next == worker[w].index + 1
             pc == Loop(Doc(w), next)
             run == [worker[w] EXCEPT !.index = next, !.pc = pc]
  <2>1. embeddings' = embeddings \cup {Row(w)} /\ worker' = [worker EXCEPT ![w] = run]
    BY <1>6 DEF Embed, Becomes
  <2>2. next \in Nat /\ pc \in {"ready", "chunk"} /\ (pc = "ready" => next = Count(Doc(w)))
    BY <1>2 DEF Loop, Run
  <2>3. 0..(next - 1) = (0..(worker[w].index - 1)) \cup {worker[w].index}
    BY <1>2 DEF Run
  <2> HIDE DEF next, pc
  <2>4. worker'[w].pc = pc /\ worker'[w].index = next
    BY <1>2, <2>1 DEF Run, Inv, TypeOK
  <2>5. IndexesOf(embeddings', Doc(w)) = IndexesOf(embeddings, Doc(w)) \cup {worker[w].index}
    <3>1. Row(w) \in embeddings' /\ Row(w).document = Doc(w) /\ Row(w).index = worker[w].index
      BY <2>1 DEF Row
    <3>2. {e \in embeddings' : e.document = Doc(w)} =
            {e \in embeddings : e.document = Doc(w)} \cup {Row(w)}
      BY <2>1, <3>1
    <3>3. QED
      BY <3>1, <3>2 DEF IndexesOf
  <2>6. \A d \in Document : d # Doc(w) => IndexesOf(embeddings', d) = IndexesOf(embeddings, d)
    <3>1. \A d \in Document : d # Doc(w) =>
            {e \in embeddings' : e.document = d} = {e \in embeddings : e.document = d}
      BY <2>1 DEF Row
    <3>2. QED
      BY <3>1 DEF IndexesOf
  <2>7. status[Doc(w)] # "deleted" => IndexesOf(embeddings', Doc(w)) = 0..(next - 1)
    BY <1>3, <1>4, <2>3, <2>5 DEF RunStored
  <2>8. RunStored(w)'
    BY <1>2, <1>4, <2>2, <2>4, <2>7 DEF RunStored, Trying
  <2>9. ReadyStored(Doc(w))'
    BY <1>2, <1>4 DEF ReadyStored
  <2>10. QED
    BY <1>1, <1>4, <2>6, <2>8, <2>9, RunWrites
<1>7. QED
  BY <1>5, <1>6 DEF Embed

\* Every chunk of the document has its embedding when it is marked.
LEMMA MarkReadyStored ==
  ASSUME Inv, OneJobPerDocument, Stored, NEW w \in Workers, MarkReady(w)
  PROVE  Stored'
<1>1. RunGoesOn(w) /\ Running(w) /\ UNCHANGED jobs
  BY MarkReadyInv DEF RunGoesOn
<1>2. Doc(w) \in Document /\ Doc(w)' = Doc(w) /\ worker[w] \in Run
  BY <1>1, DocumentOfRun DEF RunGoesOn, Doc
<1>3. RunStored(w) /\ ReadyStored(Doc(w))
  BY <1>2, StoredParts
<1>4. worker[w].pc = "ready" /\ status[Doc(w)] \in {"processing", "deleted"} /\ UNCHANGED embeddings
  BY <1>3 DEF MarkReady, At, RunStored, Trying
<1>5. worker'[w].pc \in {"settle", "catch"}
  BY <1>1, GoesTo DEF MarkReady, PCs, Trying
<1>6. RunStored(w)'
  BY <1>5 DEF RunStored, Trying
<1>7. ReadyStored(Doc(w))'
  <2>1. status'[Doc(w)] = "ready" => status[Doc(w)] # "deleted"
    BY <1>4 DEF MarkReady, Exists
  <2>2. QED
    BY <1>2, <1>3, <1>4, <2>1 DEF RunStored, ReadyStored
<1>8. \A d \in Document : d # Doc(w) =>
        status'[d] = status[d] /\ IndexesOf(embeddings', d) = IndexesOf(embeddings, d)
  BY <1>4 DEF MarkReady, Inv, TypeOK
<1>9. QED
  BY <1>1, <1>6, <1>7, <1>8, RunWrites

\* A document whose run failed is not ready.
LEMMA CatchStored ==
  ASSUME Inv, OneJobPerDocument, Stored, NEW w \in Workers, Catch(w)
  PROVE  Stored'
<1>1. RunGoesOn(w) /\ Running(w) /\ UNCHANGED jobs
  BY CatchInv DEF RunGoesOn
<1>2. Doc(w) \in Document /\ Doc(w)' = Doc(w) /\ worker[w] \in Run
  BY <1>1, DocumentOfRun DEF RunGoesOn, Doc
<1>3. RunStored(w) /\ ReadyStored(Doc(w))
  BY <1>2, StoredParts
<1>4. worker'[w].pc = "settle" /\ UNCHANGED embeddings
  BY <1>1, GoesTo DEF Catch, PCs
<1>5. status'[Doc(w)] # "ready"
  BY <1>2 DEF Catch, Exists, Inv, TypeOK
<1>6. RunStored(w)' /\ ReadyStored(Doc(w))'
  BY <1>2, <1>4, <1>5 DEF RunStored, ReadyStored, Trying
<1>7. \A d \in Document : d # Doc(w) =>
        status'[d] = status[d] /\ IndexesOf(embeddings', d) = IndexesOf(embeddings, d)
  BY <1>4 DEF Catch, Inv, TypeOK
<1>8. QED
  BY <1>1, <1>6, <1>7, RunWrites

\* Stored is inductive for runs that have their documents to themselves.
LEMMA StoredNext ==
  ASSUME Inv, OneJobPerDocument, Stored, Next
  PROVE  Stored'
<1>1. ASSUME UNCHANGED <<rows, worker>>, \A k \in Job : jobs[k].state # "absent" => jobs'[k].data = jobs[k].data
      PROVE  Stored'
  <2>1. \A v \in Workers : Running(v) => Doc(v)' = Doc(v)
    BY <1>1 DEF Doc, Inv, RunsAreActive
  <2>2. QED
    BY <1>1, <2>1, RowsAlone
<1>2. ASSUME NEW w \in Workers, Becomes(w, Idle), UNCHANGED <<rows, jobs>> PROVE Stored'
  <2>1. worker'[w].pc = "idle"
    BY <1>2 DEF Becomes, Idle, Inv, TypeOK
  <2>2. \A v \in Workers \ {w} : worker'[v] = worker[v] /\ Doc(v)' = Doc(v)
    BY <1>2, BecomesIdle DEF Doc
  <2>3. QED
    BY <1>2, <2>1, <2>2, RowsAlone DEF Trying
<1>3. CASE Rows
  BY <1>3, StoredRows
<1>4. CASE Letters
  BY <1>1, <1>4, LettersInv
<1>5. ASSUME NEW d \in Document, AddKnowledgeJob(d) PROVE Stored'
  BY <1>1, <1>5, AddKnowledgeJobInv
<1>6. ASSUME NEW w \in Workers, NEW i \in Job, StartJob(w, i) PROVE Stored'
  <2>1. worker'[w].pc = "find" /\ worker'[w].index = 0
    BY <1>6, StartJobInv DEF Idle
  <2>2. \A v \in Workers \ {w} : worker'[v] = worker[v] /\ (Running(v) => Doc(v)' = Doc(v))
    <3>1. \A v \in Workers \ {w} : worker'[v] = worker[v]
      BY <1>6, StartJobInv
    <3>2. \A k \in Job : jobs'[k].data = jobs[k].data
      BY <1>6, StartJobInv
    <3>3. \A v \in Workers : Running(v) => worker[v].job \in Job
      BY DEF Inv, RunsAreActive
    <3>4. QED
      BY <3>1, <3>2, <3>3 DEF Doc
  <2>3. QED
    BY <1>6, <2>1, <2>2, StartJobInv, RowsAlone DEF Trying
<1>7. ASSUME NEW w \in Workers, RunStep(w) PROVE Stored'
  BY <1>7, FindDocumentStored, MarkProcessingStored, ClearChunksStored, CreateChunkStored,
     EmbedStored, MarkReadyStored, CatchStored
  DEF RunStep
<1>8. ASSUME NEW w \in Workers, SettleJob(w) PROVE Stored'
  <2>1. worker'[w].pc \notin Trying \cup {"find", "mark"}
    BY <1>8, SettleJobInv DEF Running, Trying, PCs
  <2>2. \A v \in Workers \ {w} : worker'[v] = worker[v] /\ (Running(v) => Doc(v)' = Doc(v))
    BY <1>8, SettleJobInv DEF Doc, Inv, RunsAreActive
  <2>3. QED
    BY <1>8, <2>1, <2>2, SettleJobInv, RowsAlone
<1>9. ASSUME NEW w \in Workers, AddDeadLetter(w) PROVE Stored'
  BY <1>2, <1>9, AddDeadLetterInv
<1>10. ASSUME NEW w \in Workers, Drops(w) PROVE Stored'
  BY <1>2, <1>10 DEF Drops
<1>11. ASSUME NEW w \in Workers, CallFails(w) PROVE Stored'
  <2>1. CASE Drops(w)
    BY <1>10, <2>1
  <2>2. CASE RunGoesOn(w) /\ worker'[w].pc \in {"catch", "settle"}
    <3>1. \A v \in Workers \ {w} : worker'[v] = worker[v] /\ Doc(v)' = Doc(v)
      BY <2>2 DEF RunGoesOn, Doc
    <3>2. QED
      BY <1>11, <2>2, <3>1, CallFailsInv, RowsAlone DEF Trying
  <2>3. QED
    BY <1>11, <2>1, <2>2, CallFailsInv
<1>12. ASSUME NEW i \in Job, StalledCheck(i) PROVE Stored'
  BY <1>1, <1>12, StalledCheckInv
<1>13. ASSUME NEW i \in Job, NEW id \in ReplayIds, ReplayDeadLetter(i, id) PROVE Stored'
  BY <1>1, <1>13, ReplayInv
<1>14. QED
  BY <1>3, <1>4, <1>5, <1>6, <1>7, <1>8, <1>9, <1>10, <1>11, <1>12, <1>13, NextCases

\* Replays that left their dead letter behind stay counted.
LEMMA HalfReplaysStay ==
  ASSUME Inv, Next, halfReplays' = 0
  PROVE  halfReplays = 0
<1>1. UNCHANGED halfReplays \/ ReplayFails
  BY NextCases, RowsInv, AddKnowledgeJobInv, StartJobInv, RunStepInv, SettleJobInv,
     AddDeadLetterInv, CallFailsInv, StalledCheckInv, ReplayInv
  DEF dlq, RunGoesOn, Drops, Letters, StoreDeadLetter, RemoveDeadLetter
<1>2. ~ReplayFails
  BY DEF ReplayFails, Inv, TypeOK
<1>3. QED
  BY <1>1, <1>2

\* A document that says "ready" can be searched from its first chunk to its
\* last: for any text, any number of workers, crashes, failed calls, deletions
\* and whole replays.
THEOREM ReadyDocuments == Spec => []ReadyIsComplete
<1>1. Init => StoredInv
  <2> SUFFICES ASSUME Init PROVE OneJobPerDocument /\ Stored
    BY InitInv DEF StoredInv
  <2>2. OneJobPerDocument
    <3>1. \A i \in Job : jobs[i].state = "absent" /\ deadLetter[i] = "none"
      BY DEF Init, NoJob
    <3>2. \A w \in Workers : worker[w].pc = "idle"
      BY DEF Init, Idle
    <3>3. QED
      BY <3>1, <3>2 DEF OneJobPerDocument, Live, At
  <2>3. Stored
    <3>1. \A w \in Workers : worker[w].pc = "idle"
      BY DEF Init, Idle
    <3>2. \A d \in Document : status[d] = "absent"
      BY DEF Init
    <3>3. QED
      BY <3>1, <3>2 DEF Stored, At, Trying
  <2>4. QED
    BY <2>2, <2>3
<1>2. StoredInv /\ [Next]_vars => StoredInv'
  <2>1. SUFFICES ASSUME StoredInv, [Next]_vars PROVE StoredInv'
    OBVIOUS
  <2>2. Inv'
    BY <2>1, NextInv DEF StoredInv
  <2>3. CASE Next
    BY <2>1, <2>2, <2>3, HalfReplaysStay, OneJobNext, StoredNext DEF StoredInv
  <2>4. CASE UNCHANGED vars
    <3>1. halfReplays' = 0 => OneJobPerDocument /\ Stored
      BY <2>1, <2>4 DEF vars, StoredInv
    <3>2. (OneJobPerDocument => OneJobPerDocument') /\ (Stored => Stored')
      BY <2>4 DEF vars, OneJobPerDocument, Live, At, Stored, Doc, Embedded
    <3>3. QED
      BY <2>2, <3>1, <3>2 DEF StoredInv
  <2>5. QED
    BY <2>1, <2>3, <2>4
<1>3. StoredInv => ReadyIsComplete
  BY DEF StoredInv, Stored, ReadyIsComplete
<1>4. QED
  BY <1>1, <1>2, <1>3, PTL DEF Spec
-----------------------------------------------------------------------------
(* No document is stranded without a failure of its own.                   *)

\* The places of a run that will come to the update of its document's status.
Working == {"find", "mark", "catch"} \cup Trying

\* The job will be run, or its run has the document's status still to write.
Serves(i) ==
  \/ jobs[i].state \in {"waiting", "delayed"}
  \/ \E w \in Workers : worker[w].job = i /\ worker[w].pc \in Working

Attended(d) == \E i \in Job : jobs[i].data = d /\ Serves(i)

\* Shown as being worked on while no job will write its status: a run that has
\* lost the status for good counts already while it comes to its end.
AtRisk(d) ==
  /\ status[d] \in {"pending", "processing"}
  /\ request[d] # "queue"
  /\ ~Attended(d)

Risky == {d \in Document : AtRisk(d)}

\* A document's own id is the id of its own job.
OwnJobs == \A d \in Document : jobs[d].state # "absent" => jobs[d].data = d

RisksAreCounted == IsFiniteSet(Risky) /\ Cardinality(Risky) <= faults

RiskInv == Inv /\ OwnJobs /\ RisksAreCounted

\* A worker at work runs an active job.
LEMMA WorkingRuns ==
  ASSUME Inv, NEW w \in Workers, worker[w].pc \in Working
  PROVE  /\ Running(w) /\ worker[w].job \in Job
         /\ jobs[worker[w].job].state = "active" /\ Doc(w) \in Document
<1>1. Running(w)
  BY DEF Working, Trying, Running, PCs
<1>2. QED
  BY <1>1, DocumentOfRun DEF Inv, RunsAreActive

\* Two workers at work have two jobs.
LEMMA WorkersApart ==
  ASSUME Inv, NEW v \in Workers, NEW w \in Workers,
         worker[v].pc \in Working, Running(w), worker[v].job = worker[w].job
  PROVE  v = w
<1>1. Busy(v) /\ Busy(w)
  BY DEF Working, Trying, Running, Busy, PCs
<1>2. QED
  BY <1>1 DEF Inv, RunsAreActive

\* A document stays attended when the jobs that serve it do.
LEMMA AttendedStays ==
  ASSUME NEW d, \A i \in Job : jobs[i].data = d /\ Serves(i) => Serves(i)' /\ jobs'[i].data = d,
         Attended(d)
  PROVE  Attended(d)'
BY DEF Attended

\* Nothing is at risk that was not, when the jobs serve on.
LEMMA RiskStays ==
  ASSUME \A i \in Job : Serves(i) => Serves(i)' /\ jobs'[i].data = jobs[i].data,
         \A d \in Document : status'[d] \in {"pending", "processing"} /\ request'[d] # "queue" =>
           status[d] \in {"pending", "processing"} /\ request[d] # "queue"
  PROVE  Risky' \subseteq Risky
<1>1. \A d \in Document : Attended(d) => Attended(d)'
  BY AttendedStays
<1>2. QED
  BY <1>1 DEF Risky, AtRisk

\* Requests: one that fails before it adds the job puts its document at risk.
LEMMA RowsRisk ==
  ASSUME Inv, Rows
  PROVE  \/ Risky' \subseteq Risky /\ faults' = faults
         \/ \E d : Risky' \subseteq Risky \cup {d} /\ faults' = faults + 1
<1>1. UNCHANGED <<jobs, worker>>
  BY RowsInv
<1>2. \A d \in Document : Attended(d)' <=> Attended(d)
  BY <1>1 DEF Attended, Serves
<1>3. ASSUME NEW d \in Document, CreateDocument(d) PROVE Risky' \subseteq Risky /\ faults' = faults
  <2>1. \A e \in Document : e # d => status'[e] = status[e] /\ request'[e] = request[e]
    BY <1>3 DEF CreateDocument, Inv, TypeOK
  <2>2. request'[d] = "queue" /\ faults' = faults
    BY <1>3 DEF CreateDocument, Inv, TypeOK
  <2>3. QED
    BY <1>2, <2>1, <2>2 DEF Risky, AtRisk
<1>4. ASSUME NEW d \in Document, RequestFails(d)
      PROVE  Risky' \subseteq Risky \cup {d} /\ faults' = faults + 1
  <2>1. \A e \in Document : e # d => request'[e] = request[e]
    BY <1>4 DEF RequestFails, Inv, TypeOK
  <2>2. status' = status /\ faults' = faults + 1
    BY <1>4 DEF RequestFails, rows
  <2>3. QED
    BY <1>2, <2>1, <2>2 DEF Risky, AtRisk
<1>5. ASSUME NEW docs, Delete(docs), UNCHANGED <<request, faults>>
      PROVE  Risky' \subseteq Risky /\ faults' = faults
  <2>1. \A e \in Document : status'[e] = status[e] \/ status'[e] = "deleted"
    BY <1>5 DEF Delete
  <2>2. QED
    BY <1>2, <1>5, <2>1 DEF Risky, AtRisk
<1>6. QED
  BY <1>3, <1>4, <1>5 DEF Rows, DeleteDocument, DeleteBase

\* A run that goes on attends its document, or has written its status, or puts
\* that one document at risk.
LEMMA RunRisk ==
  ASSUME Inv, NEW w \in Workers, RunGoesOn(w),
         \A d \in Document : d # Doc(w) => status'[d] = status[d]
  PROVE  /\ Risky' \subseteq Risky \cup {Doc(w)}
         /\ worker'[w].pc \in Working \/ status'[Doc(w)] \notin {"pending", "processing"} =>
              Risky' \subseteq Risky
<1>1. Running(w) /\ worker'[w].job = worker[w].job /\ UNCHANGED <<jobs, request>>
  BY DEF RunGoesOn
<1>2. Doc(w) \in Document /\ worker[w].job \in Job
  BY <1>1, DocumentOfRun
<1>3. ASSUME NEW d \in Document, d # Doc(w), Attended(d) PROVE Attended(d)'
  <2>1. ASSUME NEW i \in Job, jobs[i].data = d, Serves(i) PROVE Serves(i)' /\ jobs'[i].data = d
    <3>1. i # worker[w].job
      BY <1>3, <2>1 DEF Doc
    <3>2. QED
      BY <1>1, <2>1, <3>1 DEF Serves, RunGoesOn
  <2>2. QED
    BY <1>3, <2>1, AttendedStays
<1>4. Risky' \subseteq Risky \cup {Doc(w)}
  <2>1. \A d \in Document : d # Doc(w) /\ AtRisk(d)' => AtRisk(d)
    BY <1>1, <1>3 DEF AtRisk
  <2>2. QED
    BY <2>1 DEF Risky
<1>5. ASSUME worker'[w].pc \in Working, NEW d \in Document, d = Doc(w) PROVE Attended(d)'
  <2>1. PICK i \in Job : i = worker[w].job
    BY <1>2
  <2>2. jobs'[i].data = d /\ worker'[w].job = i
    BY <1>1, <1>5, <2>1 DEF Doc
  <2>3. Serves(i)'
    BY <1>5, <2>2 DEF Serves
  <2>4. QED
    BY <2>2, <2>3 DEF Attended
<1>6. PICK d \in Document : d = Doc(w)
  BY <1>2
<1>7. ASSUME worker'[w].pc \in Working \/ status'[Doc(w)] \notin {"pending", "processing"}
      PROVE  d \notin Risky'
  BY <1>5, <1>6, <1>7 DEF Risky, AtRisk
<1>8. QED
  BY <1>4, <1>6, <1>7

\* The steps of ingestDocument end with the status written.
LEMMA RunStepRisk ==
  ASSUME Inv, NEW w \in Workers, RunStep(w)
  PROVE  Risky' \subseteq Risky /\ faults' = faults
<1>1. RunGoesOn(w)
  BY RunStepInv
<1>2. Running(w) /\ Doc(w) \in Document /\ worker[w] \in Run
  BY <1>1, DocumentOfRun DEF RunGoesOn
<1>3. \A d \in Document : d # Doc(w) => status'[d] = status[d]
  BY DEF RunStep, FindDocument, MarkProcessing, ClearChunks, CreateChunk, Embed, MarkReady,
         Catch, rows, Inv, TypeOK
<1>4. faults' = faults
  BY DEF RunStep, FindDocument, MarkProcessing, ClearChunks, CreateChunk, Embed, MarkReady, Catch
<1>5. ASSUME NEW pc \in PCs \ {"idle", "listener"}, Goto(w, pc) \/ Fails(w, pc)
      PROVE  worker'[w].pc = pc
  <2>1. UNCHANGED <<jobs, request, dlq>>
    BY <1>1 DEF RunGoesOn
  <2>2. QED
    BY <1>2, <1>5, <2>1, GoesTo
<1>6. worker'[w].pc \in Working \/ status'[Doc(w)] \notin {"pending", "processing"}
  <2>1. CASE FindDocument(w)
    BY <1>5, <2>1 DEF FindDocument, Exists, rows, PCs, Working
  <2>2. CASE MarkProcessing(w)
    BY <1>5, <2>2 DEF MarkProcessing, Exists, PCs, Working, Trying
  <2>3. CASE ClearChunks(w)
    BY <1>5, <2>3 DEF ClearChunks, Loop, PCs, Working, Trying
  <2>4. CASE CreateChunk(w)
    BY <1>5, <2>4 DEF CreateChunk, PCs, Working, Trying
  <2>5. CASE Embed(w)
    <3>1. CASE Fails(w, "catch")
      BY <1>5, <3>1 DEF PCs, Working
    <3>2. CASE Becomes(w, [worker[w] EXCEPT !.index = worker[w].index + 1,
                                            !.pc = Loop(Doc(w), worker[w].index + 1)])
      <4> DEFINE pc == Loop(Doc(w), worker[w].index + 1)
                 index == worker[w].index + 1
      <4>1. pc \in Working
        BY DEF Loop, Working, Trying
      <4> HIDE DEF pc, index
      <4>2. worker' = [worker EXCEPT ![w] = [worker[w] EXCEPT !.index = index, !.pc = pc]]
        BY <3>2 DEF Becomes, pc, index
      <4>3. worker'[w].pc = pc
        BY <1>2, <4>2 DEF Run, Inv, TypeOK
      <4>4. QED
        BY <4>1, <4>3
    <3>3. QED
      BY <2>5, <3>1, <3>2 DEF Embed
  <2>6. CASE MarkReady(w)
    BY <1>2, <1>5, <2>6 DEF MarkReady, Exists, PCs, Working, Trying, Inv, TypeOK
  <2>7. CASE Catch(w)
    BY <1>2, <2>7 DEF Catch, Exists, Inv, TypeOK
  <2>8. QED
    BY <2>1, <2>2, <2>3, <2>4, <2>5, <2>6, <2>7 DEF RunStep
<1>7. QED
  BY <1>1, <1>3, <1>4, <1>6, RunRisk

\* A worker that loses its job puts the document of that job at risk.
LEMMA DropsRisk ==
  ASSUME Inv, NEW w \in Workers, Drops(w)
  PROVE  \E d : Risky' \subseteq Risky \cup {d} /\ faults' = faults + 1
<1>1. UNCHANGED <<status, request, jobs>> /\ faults' = faults + 1
  BY DEF Drops, rows
<1>2. \A v \in Workers \ {w} : worker'[v] = worker[v]
  BY BecomesIdle DEF Drops
<1>3. ASSUME NEW d \in Document, d # Doc(w), Attended(d) PROVE Attended(d)'
  <2>1. ASSUME NEW i \in Job, jobs[i].data = d, Serves(i) PROVE Serves(i)' /\ jobs'[i].data = d
    <3>1. i # worker[w].job
      BY <1>3, <2>1 DEF Doc
    <3>2. QED
      BY <1>1, <1>2, <2>1, <3>1 DEF Serves
  <2>2. QED
    BY <1>3, <2>1, AttendedStays
<1>4. Risky' \subseteq Risky \cup {Doc(w)}
  BY <1>1, <1>3 DEF Risky, AtRisk
<1>5. QED
  BY <1>1, <1>4

\* The jobs that are added, taken and let go.
LEMMA QueueRisk ==
  ASSUME Inv, OwnJobs,
         \/ \E d \in Document : AddKnowledgeJob(d)
         \/ \E w \in Workers, i \in Job : StartJob(w, i)
         \/ \E w \in Workers : SettleJob(w) \/ AddDeadLetter(w)
         \/ \E i \in Job : StalledCheck(i)
         \/ \E i \in Job, id \in ReplayIds : ReplayDeadLetter(i, id)
         \/ Letters
  PROVE  Risky' \subseteq Risky /\ faults' = faults
<1>1. faults' = faults
  BY DEF AddKnowledgeJob, StartJob, SettleJob, AddDeadLetter, StalledCheck, ReplayDeadLetter,
         Letters, StoreDeadLetter, RemoveDeadLetter, ReplayFails
<1>2. ASSUME NEW d \in Document, AddKnowledgeJob(d) PROVE Risky' \subseteq Risky
  <2>1. d \in Job /\ jobs[d].state = "absent"
    BY <1>2 DEF AddKnowledgeJob, OwnJobs, Job, Inv, Requested
  <2>2. jobs'[d] = Queued(d)
    BY <1>2, <2>1 DEF AddKnowledgeJob, Added, Inv, TypeOK
  <2>3. Serves(d)' /\ jobs'[d].data = d
    BY <2>2 DEF Serves, Queued
  <2>4. Attended(d)'
    BY <2>1, <2>3 DEF Attended
  <2>5. ASSUME NEW i \in Job, Serves(i) PROVE Serves(i)' /\ jobs'[i] = jobs[i]
    <3>1. jobs[i].state # "absent"
      BY <2>5, WorkingRuns DEF Serves
    <3>2. QED
      BY <1>2, <2>5, <3>1, AddKnowledgeJobInv DEF Serves
  <2>6. \A e \in Document : Attended(e) => Attended(e)'
    BY <2>5, AttendedStays
  <2>7. \A e \in Document : e # d => status'[e] = status[e] /\ request'[e] = request[e]
    BY <1>2 DEF AddKnowledgeJob, rows, Inv, TypeOK
  <2>8. QED
    BY <2>4, <2>6, <2>7 DEF Risky, AtRisk
<1>3. ASSUME NEW w \in Workers, NEW i \in Job, StartJob(w, i) PROVE Risky' \subseteq Risky
  <2>1. Serves(i)'
    <3>1. worker'[w] = [Idle EXCEPT !.pc = "find", !.job = i]
      BY <1>3, StartJobInv
    <3>2. worker'[w].pc = "find" /\ worker'[w].job = i
      BY <3>1 DEF Idle
    <3>3. QED
      BY <3>2 DEF Serves, Working
  <2>2. ASSUME NEW k \in Job, k # i, Serves(k) PROVE Serves(k)'
    <3>1. \A v \in Workers : worker[v].pc \in Working => v # w
      BY <1>3 DEF StartJob, At, Working, Trying
    <3>2. /\ \A v \in Workers \ {w} : worker'[v] = worker[v]
          /\ jobs'[k] = jobs[k]
      BY <1>3, <2>2, StartJobInv
    <3>3. QED
      BY <2>2, <3>1, <3>2 DEF Serves
  <2>3. QED
    BY <1>3, <2>1, <2>2, StartJobInv, RiskStays DEF rows
<1>4. ASSUME NEW w \in Workers, SettleJob(w) PROVE Risky' \subseteq Risky
  <2>1. Running(w) /\ worker[w].pc \notin Working
    BY <1>4 DEF SettleJob, At, Running, PCs, Working, Trying
  <2>2. ASSUME NEW k \in Job, Serves(k) PROVE Serves(k)'
    <3>1. k # worker[w].job
      BY <1>4, <2>1, <2>2, SettleJobInv, WorkersApart DEF Serves
    <3>2. QED
      BY <1>4, <2>1, <2>2, <3>1, SettleJobInv DEF Serves
  <2>3. QED
    BY <1>4, <2>2, SettleJobInv, RiskStays DEF rows
<1>5. ASSUME NEW w \in Workers, AddDeadLetter(w) PROVE Risky' \subseteq Risky
  <2>1. worker[w].pc \notin Working
    BY <1>5 DEF AddDeadLetter, At, Working, Trying
  <2>2. \A v \in Workers \ {w} : worker'[v] = worker[v]
    BY <1>5, AddDeadLetterInv, BecomesIdle
  <2>3. \A k \in Job : Serves(k) => Serves(k)' /\ jobs'[k].data = jobs[k].data
    BY <1>5, <2>1, <2>2, AddDeadLetterInv DEF Serves
  <2>4. QED
    BY <1>5, <2>3, AddDeadLetterInv, RiskStays DEF rows
<1>6. ASSUME NEW i \in Job, StalledCheck(i) PROVE Risky' \subseteq Risky
  <2>1. ~Serves(i)
    BY <1>6 DEF StalledCheck, Serves
  <2>2. \A k \in Job : Serves(k) => Serves(k)' /\ jobs'[k].data = jobs[k].data
    BY <1>6, <2>1, StalledCheckInv DEF Serves
  <2>3. QED
    BY <1>6, <2>2, StalledCheckInv, RiskStays DEF rows
<1>7. ASSUME NEW i \in Job, NEW id \in ReplayIds, ReplayDeadLetter(i, id)
      PROVE  Risky' \subseteq Risky
  <2>1. ~Serves(id)
    BY <1>7, ReplayInv, WorkingRuns DEF Serves
  <2>2. \A k \in Job : Serves(k) => Serves(k)' /\ jobs'[k].data = jobs[k].data
    BY <1>7, <2>1, ReplayInv DEF Serves
  <2>3. QED
    BY <1>7, <2>2, ReplayInv, RiskStays DEF rows
<1>8. CASE Letters
  <2>1. UNCHANGED <<rows, request, jobs, worker>>
    BY <1>8, LettersInv
  <2>2. \A k \in Job : Serves(k) => Serves(k)' /\ jobs'[k].data = jobs[k].data
    BY <2>1 DEF Serves
  <2>3. UNCHANGED <<status, request>>
    BY <2>1 DEF rows
  <2>4. QED
    BY <1>1, <2>2, <2>3, RiskStays
<1>9. QED
  BY <1>1, <1>2, <1>3, <1>4, <1>5, <1>6, <1>7, <1>8

\* A step puts at most one document at risk, and only when something fails.
LEMMA RiskNext ==
  ASSUME Inv, OwnJobs, Next
  PROVE  \/ Risky' \subseteq Risky /\ faults' = faults
         \/ \E d : Risky' \subseteq Risky \cup {d} /\ faults' = faults + 1
<1>1. ASSUME NEW w \in Workers, CallFails(w)
      PROVE  \E d : Risky' \subseteq Risky \cup {d} /\ faults' = faults + 1
  <2>1. CASE Drops(w)
    BY <2>1, DropsRisk
  <2>2. CASE RunGoesOn(w)
    <3>1. UNCHANGED status /\ faults' = faults + 1
      BY <1>1 DEF CallFails, rows
    <3>2. QED
      BY <2>2, <3>1, RunRisk
  <2>3. QED
    BY <1>1, <2>1, <2>2, CallFailsInv
<1>2. QED
  BY <1>1, NextCases, RowsRisk, RunStepRisk, QueueRisk, DropsRisk

\* Only replays bring in jobs under other ids.
LEMMA OwnJobsNext ==
  ASSUME Inv, OwnJobs, Next
  PROVE  OwnJobs'
<1>1. \A d \in Document : d \in Job /\ d \notin ReplayIds
  BY KnowledgeAssumption DEF Job
<1>2. ASSUME \A k \in Job : jobs'[k].data = jobs[k].data,
             \A k \in Job : jobs'[k].state # "absent" => jobs[k].state # "absent"
      PROVE  OwnJobs'
  BY <1>1, <1>2 DEF OwnJobs
<1>3. CASE UNCHANGED jobs
  BY <1>3 DEF OwnJobs
<1>4. ASSUME NEW d \in Document, AddKnowledgeJob(d) PROVE OwnJobs'
  BY <1>1, <1>4, AddKnowledgeJobInv DEF OwnJobs
<1>5. ASSUME NEW w \in Workers, NEW i \in Job, StartJob(w, i) PROVE OwnJobs'
  <2>1. jobs[i].state # "absent"
    BY <1>5 DEF StartJob, Runnable
  <2>2. QED
    BY <1>2, <1>5, <2>1, StartJobInv
<1>6. ASSUME NEW w \in Workers, SettleJob(w) PROVE OwnJobs'
  BY <1>2, <1>6, SettleJobInv
<1>7. ASSUME NEW i \in Job, StalledCheck(i) PROVE OwnJobs'
  BY <1>2, <1>7, StalledCheckInv
<1>8. ASSUME NEW i \in Job, NEW id \in ReplayIds, ReplayDeadLetter(i, id) PROVE OwnJobs'
  BY <1>1, <1>8, ReplayInv DEF OwnJobs
<1>9. QED
  BY <1>3, <1>4, <1>5, <1>6, <1>7, <1>8, NextCases, RowsInv, LettersInv, RunStepInv,
     AddDeadLetterInv, CallFailsInv
  DEF RunGoesOn, Drops

\* The count of the risks is inductive.
LEMMA RiskInvNext == RiskInv /\ [Next]_vars => RiskInv'
<1> SUFFICES ASSUME RiskInv, [Next]_vars PROVE RiskInv'
  OBVIOUS
<1>1. Inv' /\ faults \in Nat
  BY NextInv DEF RiskInv, Inv, TypeOK
<1>2. CASE Next
  <2>1. OwnJobs'
    BY <1>2, OwnJobsNext DEF RiskInv
  <2>2. IsFiniteSet(Risky) /\ Cardinality(Risky) \in Nat /\ Cardinality(Risky) <= faults
    BY FS_CardinalityType DEF RiskInv, RisksAreCounted
  <2>3. CASE Risky' \subseteq Risky /\ faults' = faults
    <3>1. IsFiniteSet(Risky') /\ Cardinality(Risky') <= Cardinality(Risky)
      BY <2>2, <2>3, FS_Subset
    <3>2. Cardinality(Risky') \in Nat
      BY <3>1, FS_CardinalityType
    <3>3. Cardinality(Risky') <= faults'
      BY <1>1, <2>2, <2>3, <3>1, <3>2
    <3>4. QED
      BY <1>1, <2>1, <3>1, <3>3 DEF RiskInv, RisksAreCounted
  <2>4. ASSUME NEW d, Risky' \subseteq Risky \cup {d}, faults' = faults + 1 PROVE RiskInv'
    <3>1. /\ IsFiniteSet(Risky \cup {d})
          /\ Cardinality(Risky \cup {d}) = IF d \in Risky THEN Cardinality(Risky)
                                                          ELSE Cardinality(Risky) + 1
      BY <2>2, FS_AddElement
    <3>2. IsFiniteSet(Risky') /\ Cardinality(Risky') <= Cardinality(Risky \cup {d})
      BY <2>4, <3>1, FS_Subset
    <3>3. Cardinality(Risky') \in Nat
      BY <3>2, FS_CardinalityType
    <3>4. Cardinality(Risky') <= faults'
      BY <1>1, <2>2, <2>4, <3>1, <3>2, <3>3
    <3>5. QED
      BY <1>1, <2>1, <3>2, <3>4 DEF RiskInv, RisksAreCounted
  <2>5. QED
    BY <1>2, <2>3, <2>4, RiskNext DEF RiskInv
<1>3. CASE UNCHANGED vars
  BY <1>1, <1>3 DEF vars, RiskInv, OwnJobs, RisksAreCounted, Risky, AtRisk, Attended, Serves
<1>4. QED
  BY <1>2, <1>3

\* A document that shows as being worked on, and that nothing works on, has
\* cost a failed call or a crash of its own: for any number of documents,
\* workers, attempts, stalls, deletions and replays.
THEOREM StrandedDocuments == Spec => []StrandedNeedFaults
<1>1. Init => RiskInv
  <2> SUFFICES ASSUME Init PROVE RiskInv
    OBVIOUS
  <2>1. Inv
    BY InitInv
  <2>2. OwnJobs
    <3>1. \A i \in Job : jobs[i].state = "absent"
      BY DEF Init, NoJob
    <3>2. QED
      BY <3>1 DEF OwnJobs, Job
  <2>3. Risky = {} /\ faults = 0
    BY DEF Init, Risky, AtRisk
  <2>4. RisksAreCounted
    BY <2>3, FS_EmptySet DEF RisksAreCounted
  <2>5. QED
    BY <2>1, <2>2, <2>4 DEF RiskInv
<1>2. RiskInv => StrandedNeedFaults
  <2> SUFFICES ASSUME RiskInv PROVE StrandedNeedFaults
    OBVIOUS
  <2>1. \A d \in Document : Stranded(d) => AtRisk(d)
    <3>1. ASSUME NEW d \in Document, Attended(d) PROVE Unsettled(d)
      <4>1. PICK i \in Job : jobs[i].data = d /\ Serves(i)
        BY <3>1 DEF Attended
      <4>2. jobs[i].state \in {"waiting", "active", "delayed"}
        BY <4>1, WorkingRuns DEF Serves, RiskInv
      <4>3. QED
        BY <4>1, <4>2 DEF Unsettled
    <3>2. QED
      BY <3>1 DEF Stranded, AtRisk
  <2> DEFINE S == {d \in Document : Stranded(d)}
  <2>2. S \subseteq Risky
    BY <2>1 DEF Risky
  <2>3. IsFiniteSet(Risky) /\ Cardinality(Risky) \in Nat /\ Cardinality(Risky) <= faults
    BY FS_CardinalityType DEF RiskInv, RisksAreCounted
  <2>4. IsFiniteSet(S) /\ Cardinality(S) <= Cardinality(Risky)
    BY <2>2, <2>3, FS_Subset
  <2>5. Cardinality(S) \in Nat /\ faults \in Nat
    BY <2>4, FS_CardinalityType DEF RiskInv, Inv, TypeOK
  <2>6. Cardinality(S) <= faults
    BY <2>3, <2>4, <2>5
  <2>7. QED
    BY <2>6 DEF StrandedNeedFaults
<1>3. QED
  BY <1>1, RiskInvNext, <1>2, PTL DEF Spec
-----------------------------------------------------------------------------
(* chunkText.  Its loop is a recursive function: that it has a value, and  *)
(* what it does with the text behind a position, is shown from the end of  *)
(* the text back to its beginning.                                         *)

\* What holds at the end of the text, and one position before wherever it holds,
\* holds at its beginning.
LEMMA DownToZero ==
  ASSUME NEW m \in Nat, NEW S, S \subseteq 0..m, m \in S,
         \A n \in 1..m : n \in S => n - 1 \in S
  PROVE  0 \in S
<1>1. S \subseteq Nat /\ S # {}
  OBVIOUS
<1>2. PICK n \in S : \A k \in S : <<k, n>> \notin OpToRel(<, Nat)
  BY <1>1, WFMin, NatLessThanWellFounded
<1>3. CASE n = 0
  BY <1>3
<1>4. CASE n # 0
  <2>1. n \in 1..m /\ n \in Nat /\ n - 1 \in Nat /\ n - 1 < n
    BY <1>1, <1>4
  <2>2. n - 1 \in S
    BY <2>1, <1>2
  <2>3. <<n - 1, n>> \in OpToRel(<, Nat)
    BY <2>1 DEF OpToRel
  <2>4. QED
    BY <2>2, <2>3, <1>2
<1>5. QED
  BY <1>3, <1>4

\* One turn of the loop: what it cuts off, and what it leaves to the next one.
End(text, start) == Smaller(start + ChunkSize, Len(text))
Piece(text, start) == (start + 1)..End(text, start)

FromHere(text, from, start) ==
  Kept(text, Piece(text, start)) \o
    (IF End(text, start) = Len(text) THEN <<>> ELSE from[NextStart(End(text, start))])

\* A turn moves forward, for the overlap is less than a chunk.
LEMMA EndOf ==
  ASSUME NEW text \in Seq(BOOLEAN), NEW start \in 0..Len(text)
  PROVE  /\ End(text, start) \in start..Len(text)
         /\ End(text, start) <= start + ChunkSize
         /\ End(text, start) # Len(text) =>
              /\ NextStart(End(text, start)) \in (start + 1)..Len(text)
              /\ NextStart(End(text, start)) = End(text, start) - Overlap
BY KnowledgeAssumption DEF End, Smaller, Larger, NextStart

\* The loop as a recursive function.
LEMMA ChunksFromDef ==
  ASSUME NEW text
  PROVE ChunksFrom(text) = CHOOSE f : f = [start \in 0..Len(text) |-> FromHere(text, f, start)]
BY DEF ChunksFrom, FromHere, End, Piece

\* The turns from position n on.
Solves(text, f, n) == f = [start \in n..Len(text) |-> FromHere(text, f, start)]

\* The loop ends: from the last position back, each turn has a result.
LEMMA LoopEnds ==
  ASSUME NEW text \in Seq(BOOLEAN)
  PROVE  Solves(text, ChunksFrom(text), 0)
<1> DEFINE S == {n \in 0..Len(text) : \E f : Solves(text, f, n)}
<1>0. Len(text) \in Nat
  OBVIOUS
<1>1. Len(text) \in S
  <2> DEFINE f == [start \in Len(text)..Len(text) |-> Kept(text, Piece(text, start)) \o <<>>]
  <2>1. ASSUME NEW start \in Len(text)..Len(text) PROVE FromHere(text, f, start) = f[start]
    <3>1. start \in 0..Len(text) /\ start = Len(text)
      BY <1>0
    <3>2. End(text, start) = Len(text)
      BY <3>1, EndOf
    <3>3. FromHere(text, f, start) = Kept(text, Piece(text, start)) \o <<>>
      BY <3>2 DEF FromHere
    <3>4. QED
      BY <3>3
  <2>2. f = [start \in Len(text)..Len(text) |-> FromHere(text, f, start)]
    BY <2>1
  <2>3. Solves(text, f, Len(text))
    BY <2>2 DEF Solves
  <2>4. QED
    BY <2>3, <1>0
<1>2. ASSUME NEW n \in 1..Len(text), n \in S PROVE n - 1 \in S
  <2>0. n \in Nat /\ n - 1 \in 0..Len(text) /\ (n - 1) + 1 = n
    BY <1>0
  <2>1. PICK f : Solves(text, f, n)
    BY <1>2
  <2>2. DOMAIN f = n..Len(text) /\ \A start \in n..Len(text) : f[start] = FromHere(text, f, start)
    BY <2>1 DEF Solves
  <2> DEFINE g == [start \in (n - 1)..Len(text) |->
                     IF start = n - 1 THEN FromHere(text, f, start) ELSE f[start]]
  <2>3. \A start \in n..Len(text) : g[start] = f[start]
    BY <2>0, <1>0
  <2>4. ASSUME NEW start \in (n - 1)..Len(text) PROVE FromHere(text, g, start) = FromHere(text, f, start)
    <3>1. start \in 0..Len(text)
      BY <2>0, <1>0
    <3>2. CASE End(text, start) = Len(text)
      BY <3>2 DEF FromHere
    <3>3. CASE End(text, start) # Len(text)
      <4>1. NextStart(End(text, start)) \in n..Len(text)
        BY <3>1, <3>3, EndOf, <2>0, <1>0
      <4>2. g[NextStart(End(text, start))] = f[NextStart(End(text, start))]
        BY <4>1, <2>3
      <4> HIDE DEF g
      <4>3. QED
        BY <4>2 DEF FromHere
    <3>4. QED
      BY <3>2, <3>3
  <2>5. ASSUME NEW start \in (n - 1)..Len(text) PROVE g[start] = FromHere(text, g, start)
    <3>1. CASE start = n - 1
      BY <3>1, <2>4
    <3>2. CASE start # n - 1
      <4>1. start \in n..Len(text)
        BY <3>2, <2>0, <1>0
      <4>2. QED
        BY <4>1, <2>2, <2>3, <2>4
    <3>3. QED
      BY <3>1, <3>2
  <2>6. DOMAIN g = (n - 1)..Len(text) /\ g = [start \in DOMAIN g |-> g[start]]
    OBVIOUS
  <2> HIDE DEF g
  <2>7. g = [start \in (n - 1)..Len(text) |-> FromHere(text, g, start)]
    BY <2>5, <2>6
  <2>8. QED
    BY <2>7, <2>0 DEF Solves
<1>3. 0 \in S
  <2>1. S \subseteq 0..Len(text)
    OBVIOUS
  <2>2. QED
    BY <1>0, <1>1, <1>2, <2>1, DownToZero
<1>4. PICK f : Solves(text, f, 0)
  BY <1>3
<1>5. ChunksFrom(text) = CHOOSE g : Solves(text, g, 0)
  BY ChunksFromDef DEF Solves
<1>6. QED
  BY <1>4, <1>5

\* No piece is longer than ChunkSize, and trimming does not make it longer.
LEMMA PieceSize ==
  ASSUME NEW text \in Seq(BOOLEAN), NEW start \in 0..Len(text)
  PROVE  LET chunk == Trimmed(text, Piece(text, start))
         IN  chunk \subseteq Nat /\ Cardinality(chunk) <= ChunkSize
<1> DEFINE piece == Piece(text, start)
<1> DEFINE chunk == Trimmed(text, piece)
<1>1. start \in Nat /\ End(text, start) \in Nat /\ start <= End(text, start)
      /\ End(text, start) <= start + ChunkSize /\ ChunkSize \in Nat
  BY EndOf, KnowledgeAssumption
<1>2. IsFiniteSet(piece) /\ Cardinality(piece) <= ChunkSize /\ Cardinality(piece) \in Nat
  <2>1. piece = (start + 1)..End(text, start) /\ start + 1 \in Int /\ End(text, start) \in Int
    BY <1>1 DEF Piece
  <2> HIDE DEF piece
  <2>2. /\ IsFiniteSet(piece)
        /\ Cardinality(piece) = IF start + 1 > End(text, start) THEN 0 ELSE End(text, start) - (start + 1) + 1
    BY <2>1, FS_Interval
  <2>3. QED
    BY <1>1, <2>2
<1>3. chunk \subseteq piece
  BY DEF Trimmed
<1>4. IsFiniteSet(chunk) /\ Cardinality(chunk) \in Nat /\ Cardinality(chunk) <= Cardinality(piece)
  BY <1>2, <1>3, FS_Subset, FS_CardinalityType
<1>5. piece \subseteq Nat
  BY <1>1 DEF Piece
<1>6. QED
  BY <1>1, <1>2, <1>3, <1>4, <1>5

\* The passages behind a position are in the chunks found from there.
PassagesFrom(text, found, start) ==
  \A a, b \in DOMAIN text :
    text[a] /\ text[b] /\ start < a /\ a <= b /\ b <= a + Overlap =>
      \E k \in DOMAIN found : a..b \subseteq found[k]

\* What the loop has achieved with the text behind a position.
Whole(text, found, start) ==
  /\ found \in Seq(SUBSET Nat)
  /\ \A k \in DOMAIN found : found[k] # {} /\ Cardinality(found[k]) <= ChunkSize
  /\ PassagesFrom(text, found, start)

\* A passage ends in the piece of this turn, or begins behind the start of the
\* next one, which goes back by the overlap.
LEMMA PieceOnTop ==
  ASSUME NEW text \in Seq(BOOLEAN), NEW start \in 0..Len(text), NEW rest,
         End(text, start) = Len(text) => rest = <<>>,
         End(text, start) # Len(text) => Whole(text, rest, NextStart(End(text, start)))
  PROVE  Whole(text, Kept(text, Piece(text, start)) \o rest, start)
<1> DEFINE end == End(text, start)
           piece == Piece(text, start)
           chunk == Trimmed(text, piece)
           first == Kept(text, piece)
           found == first \o rest
<1>0. /\ Len(text) \in Nat /\ start \in Nat /\ end \in Nat /\ Overlap \in Nat
      /\ DOMAIN text = 1..Len(text)
  BY EndOf, KnowledgeAssumption
<1>1. rest \in Seq(SUBSET Nat) /\ \A k \in DOMAIN rest : rest[k] # {} /\ Cardinality(rest[k]) <= ChunkSize
  <2>1. CASE end = Len(text)
    BY <2>1
  <2>2. CASE end # Len(text)
    BY <2>2 DEF Whole
  <2>3. QED
    BY <2>1, <2>2
<1>2. chunk \subseteq Nat /\ Cardinality(chunk) <= ChunkSize
  BY PieceSize
<1>3. /\ first \in Seq(SUBSET Nat)
      /\ \A k \in DOMAIN first : first[k] = chunk /\ chunk # {}
      /\ chunk # {} => 1 \in DOMAIN first /\ first[1] = chunk
  <2>1. CASE chunk = {}
    BY <2>1 DEF Kept
  <2>2. CASE chunk # {}
    <3>1. first = <<chunk>>
      BY <2>2 DEF Kept
    <3> HIDE DEF first, chunk
    <3>2. QED
      BY <3>1, <2>2, <1>2
  <2>3. QED
    BY <2>1, <2>2
<1>4. /\ found \in Seq(SUBSET Nat)
      /\ Len(found) = Len(first) + Len(rest)
      /\ \A i \in 1..(Len(first) + Len(rest)) :
           found[i] = IF i <= Len(first) THEN first[i] ELSE rest[i - Len(first)]
  <2> HIDE DEF first
  <2>1. QED
    BY <1>1, <1>3, ConcatProperties
<1>5. /\ Len(first) \in Nat /\ Len(rest) \in Nat
      /\ DOMAIN first = 1..Len(first) /\ DOMAIN rest = 1..Len(rest) /\ DOMAIN found = 1..Len(found)
  <2> HIDE DEF first, found
  <2>1. QED
    BY <1>1, <1>3, <1>4
<1> HIDE DEF found, first
<1>6. \A k \in DOMAIN first : k \in DOMAIN found /\ found[k] = first[k]
  BY <1>4, <1>5
<1>7. \A k \in DOMAIN rest : k + Len(first) \in DOMAIN found /\ found[k + Len(first)] = rest[k]
  BY <1>4, <1>5
<1>8. ASSUME NEW k \in DOMAIN found PROVE found[k] # {} /\ Cardinality(found[k]) <= ChunkSize
  <2>1. CASE k <= Len(first)
    <3>1. k \in DOMAIN first
      BY <2>1, <1>5
    <3>2. QED
      BY <3>1, <1>2, <1>3, <1>6
  <2>2. CASE ~(k <= Len(first))
    <3>1. k - Len(first) \in DOMAIN rest /\ found[k] = rest[k - Len(first)]
      BY <2>2, <1>4, <1>5
    <3>2. QED
      BY <3>1, <1>1
  <2>3. QED
    BY <2>1, <2>2
<1>9. ASSUME NEW a \in DOMAIN text, NEW b \in DOMAIN text,
             text[a], text[b], start < a, a <= b, b <= a + Overlap
      PROVE  \E k \in DOMAIN found : a..b \subseteq found[k]
  <2>1. CASE b <= end
    <3>1. a \in piece /\ b \in piece /\ a..b \subseteq piece
      BY <1>0, <1>9, <2>1 DEF Piece
    <3>2. a..b \subseteq chunk /\ chunk # {}
      BY <3>1, <1>0, <1>9 DEF Trimmed
    <3>3. QED
      BY <3>2, <1>3, <1>6
  <2>2. CASE end < b
    <3>1. end # Len(text)
      BY <1>0, <2>2
    <3>2. NextStart(end) = end - Overlap
      BY <3>1, EndOf
    <3>3. NextStart(end) < a
      BY <3>2, <1>0, <1>9, <2>2
    <3>4. PICK k \in DOMAIN rest : a..b \subseteq rest[k]
      BY <3>1, <3>3, <1>9 DEF Whole, PassagesFrom
    <3>5. QED
      BY <3>4, <1>7
  <2>3. QED
    BY <1>0, <2>1, <2>2
<1>10. QED
  BY <1>4, <1>8, <1>9 DEF Whole, PassagesFrom, found, first

\* From the last position back, every turn leaves passages whole.
LEMMA AllWhole ==
  ASSUME NEW text \in Seq(BOOLEAN)
  PROVE  Whole(text, chunkText(text), 0)
<1> DEFINE f == ChunksFrom(text)
           S == {n \in 0..Len(text) : \A start \in n..Len(text) : Whole(text, f[start], start)}
<1>0. Len(text) \in Nat
  OBVIOUS
<1>1. ASSUME NEW start \in 0..Len(text)
      PROVE  f[start] = FromHere(text, f, start)
  BY LoopEnds DEF Solves
<1> HIDE DEF f
<1>2. ASSUME NEW start \in 0..Len(text),
             \A later \in (start + 1)..Len(text) : Whole(text, f[later], later)
      PROVE  Whole(text, f[start], start)
  <2> DEFINE rest == IF End(text, start) = Len(text) THEN <<>> ELSE f[NextStart(End(text, start))]
  <2>1. f[start] = Kept(text, Piece(text, start)) \o rest
    BY <1>1 DEF FromHere
  <2>2. End(text, start) # Len(text) => Whole(text, rest, NextStart(End(text, start)))
    BY <1>2, EndOf
  <2>3. End(text, start) = Len(text) => rest = <<>>
    OBVIOUS
  <2> HIDE DEF rest
  <2>4. QED
    BY <2>1, <2>2, <2>3, PieceOnTop
<1>3. Len(text) \in S
  <2>1. ASSUME NEW start \in Len(text)..Len(text) PROVE Whole(text, f[start], start)
    <3>1. start \in 0..Len(text) /\ (start + 1)..Len(text) = {}
      BY <1>0
    <3>2. QED
      BY <3>1, <1>2
  <2>2. QED
    BY <2>1, <1>0
<1>4. ASSUME NEW n \in 1..Len(text), n \in S PROVE n - 1 \in S
  <2>0. n \in Nat /\ n - 1 \in 0..Len(text) /\ (n - 1) + 1 = n
    BY <1>0
  <2>1. Whole(text, f[n - 1], n - 1)
    BY <1>2, <1>4, <2>0
  <2>2. ASSUME NEW start \in (n - 1)..Len(text) PROVE Whole(text, f[start], start)
    <3>1. start = n - 1 \/ start \in n..Len(text)
      BY <1>0, <2>0
    <3>2. QED
      BY <3>1, <2>1, <1>4
  <2>3. QED
    BY <2>2, <2>0
<1>5. 0 \in S
  <2>1. S \subseteq 0..Len(text)
    OBVIOUS
  <2> HIDE DEF S
  <2>2. QED
    BY <1>0, <1>3, <1>4, <2>1, DownToZero
<1>6. Whole(text, f[0], 0)
  BY <1>5, <1>0
<1>7. QED
  BY <1>6 DEF chunkText, f

\* chunkText, for every text, chunk size and smaller overlap: a passage of up to
\* Overlap + 1 characters is found in one chunk, no chunk is empty or too long.
THEOREM ChunksKeepPassages ==
  ASSUME NEW text \in Seq(BOOLEAN)
  PROVE  /\ PassagesIn(ChunkSet(text), text)
         /\ \A chunk \in ChunkSet(text) : chunk # {} /\ Cardinality(chunk) <= ChunkSize
<1> DEFINE found == chunkText(text)
<1>1. Whole(text, found, 0)
  BY AllWhole
<1>2. ChunkSet(text) = {found[k] : k \in DOMAIN found}
  BY DEF ChunkSet
<1> HIDE DEF found
<1>3. \A chunk \in ChunkSet(text) : chunk # {} /\ Cardinality(chunk) <= ChunkSize
  BY <1>1, <1>2 DEF Whole
<1>4. ASSUME NEW a \in DOMAIN text, NEW b \in DOMAIN text,
             text[a], text[b], a <= b, b <= a + Overlap
      PROVE  \E chunk \in ChunkSet(text) : a..b \subseteq chunk
  <2>1. 0 < a
    OBVIOUS
  <2>2. PICK k \in DOMAIN found : a..b \subseteq found[k]
    BY <1>1, <1>4, <2>1 DEF Whole, PassagesFrom
  <2>3. QED
    BY <2>2, <1>2
<1>5. QED
  BY <1>3, <1>4 DEF PassagesIn

\* So does it for the texts of a run, however long.
THEOREM Passages == Spec => []PassagesStayWhole
<1>1. PassagesStayWhole
  <2>1. ASSUME NEW n \in 1..MaxLength, NEW text \in [1..n -> BOOLEAN]
        PROVE  text \in Seq(BOOLEAN)
    BY <2>1, KnowledgeAssumption
  <2>2. QED
    BY <2>1, ChunksKeepPassages DEF PassagesStayWhole
<1>2. QED
  BY <1>1, PTL
=============================================================================
