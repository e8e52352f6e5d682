--------------------------- MODULE MediaProcessing ---------------------------
(***************************************************************************)
(* The files of messages: rows of media_assets come with inbound messages  *)
(* or from the panel, MediaProcessor turns sound and images into text and  *)
(* keeps a copy of the file, and the agent's run waits for them before it  *)
(* builds its input.  One step per awaited call that changes a row, a file *)
(* or a job; calls may fail and processes may die.                         *)
(***************************************************************************)
EXTENDS BullJob, FiniteSets

CONSTANTS
  Asset,
  SourceOf,    \* where a row comes from: "message", "create", "upload"
  MimeOf,      \* "audio", "image" or "other", from mime_type
  HasUrl,      \* assets with a source_url
  HasPath,     \* assets the panel registers with a storage_path
  Keyed,       \* the kinds a provider key can be found for
  Storage,     \* "local", "supabase" or "none"
  Native,      \* the kinds the agent and its provider take as files
  Workers,
  Readers,     \* runs of the agent on the message
  None,
  MaxFaults    \* failed calls and crashes

Attached == {a \in Asset : SourceOf[a] = "message"}
Processable == {a \in Asset : MimeOf[a] \in {"audio", "image"}}

MediaAssumption ==
  /\ IsFiniteSet(Asset) /\ None \notin Asset
  /\ SourceOf \in [Asset -> {"message", "create", "upload"}]
  /\ MimeOf \in [Asset -> {"audio", "image", "other"}]
  /\ HasUrl \subseteq Asset
  /\ HasPath \subseteq {a \in Asset : SourceOf[a] = "create"}
  /\ Keyed \subseteq {"audio", "image"} /\ Native \subseteq {"audio", "image"}
  /\ Storage \in {"local", "supabase", "none"}
  /\ MaxFaults \in Nat

VARIABLES
  row,      \* media_assets: status, storage_path, transcript or ocr_text
  linked,   \* assets with a message_parts row
  files,    \* assets whose file is in the storage
  request,  \* the call that creates each asset
  jobs,     \* the queue in Redis, job id = asset id
  worker,   \* the local variables of each process()
  reader,   \* the local variables of each waiting run
  faults

rows == <<row, linked, files>>
vars == <<row, linked, files, request, jobs, worker, reader, faults>>

-----------------------------------------------------------------------------

Idle == [pc |-> "idle", job |-> None, path |-> FALSE, outcome |-> "ok"]

\* Inside the try of process().
Trying == {"perceive", "ready", "fetch", "upload", "path"}

Waiting == [pc |-> "idle", late |-> FALSE, got |-> [a \in Attached |-> "nothing"]]

Init ==
  /\ row = [a \in Asset |-> [status |-> "absent", path |-> FALSE, text |-> "none"]]
  /\ linked = {}
  /\ files = HasPath
  /\ request = [a \in Asset |-> "new"]
  /\ jobs = [a \in Asset |-> NoJob(a)]
  /\ worker = [w \in Workers |-> Idle]
  /\ reader = [r \in Readers |-> Waiting]
  /\ faults = 0

At(w, pc) == worker[w].pc = pc

Own(w) == worker[w].job

Becomes(w, local) == worker' = [worker EXCEPT ![w] = local]

Goto(w, pc) == Becomes(w, [worker[w] EXCEPT !.pc = pc])

Fails(w, pc) == Becomes(w, [worker[w] EXCEPT !.pc = pc, !.outcome = "error"])

Request(a, pc) == request' = [request EXCEPT ![a] = pc]

-----------------------------------------------------------------------------
(* Where assets come from.                                                 *)

\* addMessageParts: without a URL the row says "stored", with nothing stored.
CreateAttached(a) ==
  /\ SourceOf[a] = "message" /\ request[a] = "new"
  /\ row' = [row EXCEPT ![a].status = IF a \in HasUrl THEN "pending" ELSE "stored"]
  /\ Request(a, "part")
  /\ UNCHANGED <<linked, files, jobs, worker, reader, faults>>

LinkPart(a) ==
  /\ request[a] = "part"
  /\ linked' = linked \cup {a}
  /\ Request(a, "queue")
  /\ UNCHANGED <<row, files, jobs, worker, reader, faults>>

\* createAsset.
CreateAsset(a) ==
  /\ SourceOf[a] = "create" /\ request[a] = "new"
  /\ row' = [row EXCEPT ![a].status = IF a \in HasPath THEN "stored" ELSE "pending",
                        ![a].path = a \in HasPath]
  /\ Request(a, "queue")
  /\ UNCHANGED <<linked, files, jobs, worker, reader, faults>>

\* uploadAsset: the file first, then the row.
UploadFile(a) ==
  /\ SourceOf[a] = "upload" /\ request[a] = "new"
  /\ IF Storage = "none"
       THEN UNCHANGED files /\ Request(a, "failed")
       ELSE files' = files \cup {a} /\ Request(a, "row")
  /\ UNCHANGED <<row, linked, jobs, worker, reader, faults>>

CreateUploaded(a) ==
  /\ request[a] = "row"
  /\ row' = [row EXCEPT ![a].status = "stored", ![a].path = TRUE]
  /\ Request(a, "queue")
  /\ UNCHANGED <<linked, files, jobs, worker, reader, faults>>

\* enqueueProcessingIfNeeded, and the same test in the ingestion processor.
Enqueue(a) ==
  /\ request[a] = "queue"
  /\ jobs' = IF a \in Processable THEN [jobs EXCEPT ![a] = Added(jobs[a], a)] ELSE jobs
  /\ Request(a, "done")
  /\ UNCHANGED <<rows, worker, reader, faults>>

-----------------------------------------------------------------------------
(* MediaProcessor.process.                                                 *)

StartJob(w, a) ==
  /\ At(w, "idle")
  /\ Runnable(jobs[a])
  /\ jobs' = [jobs EXCEPT ![a] = Started(jobs[a])]
  /\ Becomes(w, [Idle EXCEPT !.pc = "find", !.job = a])
  /\ UNCHANGED <<rows, request, reader, faults>>

\* The row as it is found here is what the rest of the run goes by.
FindAsset(w) ==
  /\ At(w, "find")
  /\ Becomes(w, [worker[w] EXCEPT !.pc = "mark", !.path = row[Own(w)].path])
  /\ UNCHANGED <<rows, request, jobs, reader, faults>>

MarkProcessing(w) ==
  /\ At(w, "mark")
  /\ row' = [row EXCEPT ![Own(w)].status = "processing"]
  /\ Goto(w, "perceive")
  /\ UNCHANGED <<linked, files, request, jobs, reader, faults>>

\* loadAssetBytes: from the storage when the row has a path, else from the URL.
Loadable(w) == IF worker[w].path THEN Own(w) \in files /\ Storage # "none" ELSE Own(w) \in HasUrl

\* resolveClientApiKey: of the client, else of the environment.
HasKey(w) == MimeOf[Own(w)] \in Keyed

\* What is left of the provider's answer without its thinking and its preamble
\* in English, which may be nothing.
Outcomes == {"some", "empty"}

\* transcribeAudio and describeImage, up to the provider's answer.
Perceive(w) ==
  /\ At(w, "perceive")
  /\ IF HasKey(w) /\ Loadable(w) THEN Goto(w, "ready") ELSE Fails(w, "catch")
  /\ UNCHANGED <<rows, request, jobs, reader, faults>>

\* Mutant of MarkReady: the status is set before the text is there.
MarkReadyOnly(w) ==
  /\ At(w, "ready")
  /\ row' = [row EXCEPT ![Own(w)].status = "ready"]
  /\ Goto(w, "settle")
  /\ UNCHANGED <<linked, files, request, jobs, reader, faults>>

\* Text and status in one update; the text may be empty.
MarkReady(w) ==
  /\ At(w, "ready")
  /\ \E text \in Outcomes :
       row' = [row EXCEPT ![Own(w)].status = "ready", ![Own(w)].text = text]
  /\ Goto(w, IF worker[w].path \/ Own(w) \notin HasUrl THEN "settle" ELSE "fetch")
  /\ UNCHANGED <<linked, files, request, jobs, reader, faults>>

\* ensureAssetPersisted loads the bytes again; without a storage it is done.
FetchAgain(w) ==
  /\ At(w, "fetch")
  /\ Goto(w, IF Storage = "none" THEN "settle" ELSE "upload")
  /\ UNCHANGED <<rows, request, jobs, reader, faults>>

StoreCopy(w) ==
  /\ At(w, "upload")
  /\ files' = files \cup {Own(w)}
  /\ Goto(w, "path")
  /\ UNCHANGED <<row, linked, request, jobs, reader, faults>>

\* Mutant of StoreRefused: Supabase's error is only logged, too.
StoreRefusedGoesOn(w) ==
  /\ At(w, "upload")
  /\ faults < MaxFaults
  /\ faults' = faults + 1
  /\ Goto(w, "path")
  /\ UNCHANGED <<rows, request, jobs, reader>>

\* The storage answers with an error: Supabase's ends the copy, the local one's
\* is logged and the path is stored all the same.
StoreRefused(w) ==
  /\ At(w, "upload")
  /\ faults < MaxFaults
  /\ faults' = faults + 1
  /\ Goto(w, IF Storage = "local" THEN "path" ELSE "settle")
  /\ UNCHANGED <<rows, request, jobs, reader>>

StorePath(w) ==
  /\ At(w, "path")
  /\ row' = [row EXCEPT ![Own(w)].path = TRUE]
  /\ Goto(w, "settle")
  /\ UNCHANGED <<linked, files, request, jobs, reader, faults>>

\* Whatever failed, even after "ready", the row says "failed" until Bull retries.
Catch(w) ==
  /\ At(w, "catch")
  /\ row' = [row EXCEPT ![Own(w)].status = "failed"]
  /\ Goto(w, "settle")
  /\ UNCHANGED <<linked, files, request, jobs, reader, faults>>

SettleJob(w) ==
  /\ At(w, "settle")
  /\ jobs' = [jobs EXCEPT ![Own(w)] =
       IF worker[w].outcome = "ok" THEN Completed(@) ELSE AttemptFailed(@)]
  /\ Becomes(w, Idle)
  /\ UNCHANGED <<rows, request, reader, faults>>

-----------------------------------------------------------------------------
(* The agent's run on the message, once its ingestion is through.          *)

Unfinished == {"pending", "processing"}

\* Mutant of StillPending: what is being worked on is not waited for.
OnlyPending == \E a \in Attached : row[a].status = "pending"

\* What waitForMediaProcessing polls for, 'file' parts with a URL included.
StillPending == \E a \in Attached : row[a].status \in Unfinished

StartWaiting(r) ==
  /\ reader[r].pc = "idle"
  /\ \A a \in Attached : request[a] = "done"
  /\ reader' = [reader EXCEPT ![r].pc = "wait"]
  /\ UNCHANGED <<rows, request, jobs, worker, faults>>

StopWaiting(r) ==
  /\ reader[r].pc = "wait"
  /\ ~StillPending
  /\ reader' = [reader EXCEPT ![r].pc = "build"]
  /\ UNCHANGED <<rows, request, jobs, worker, faults>>

\* Fifteen seconds are over.
WaitTimesOut(r) ==
  /\ reader[r].pc = "wait"
  /\ StillPending
  /\ reader' = [reader EXCEPT ![r].pc = "build", ![r].late = TRUE]
  /\ UNCHANGED <<rows, request, jobs, worker, faults>>

\* buildInputParts: a kind the provider takes as a file is a file when the row
\* has a path and nothing at all otherwise; the others are their text, or say
\* that there is none.
InputPart(a) ==
  IF a \notin linked THEN "nothing"
  ELSE IF MimeOf[a] \in Native THEN IF row[a].path THEN "file" ELSE "nothing"
  ELSE IF MimeOf[a] = "other" THEN "name"
  ELSE IF row[a].text = "some" THEN "text" ELSE "no text"

BuildInput(r) ==
  /\ reader[r].pc = "build"
  /\ reader' = [reader EXCEPT ![r].pc = "done",
                              ![r].got = [a \in Attached |-> InputPart(a)]]
  /\ UNCHANGED <<rows, request, jobs, worker, faults>>

-----------------------------------------------------------------------------
(* Failures.                                                               *)

Fault == faults < MaxFaults /\ faults' = faults + 1

\* A failed call, or the death of the process, in the middle of a request.
RequestFails(a) ==
  /\ request[a] \in {"part", "row", "queue"}
  /\ Fault
  /\ Request(a, "failed")
  /\ UNCHANGED <<rows, jobs, worker, reader>>

CallFails(w) ==
  /\ worker[w].pc \in Trying \cup {"find", "mark", "catch"}
  /\ Fault
  /\ Fails(w, IF worker[w].pc \in Trying THEN "catch" ELSE "settle")
  /\ UNCHANGED <<rows, request, jobs, reader>>

Crash(w) ==
  /\ ~At(w, "idle")
  /\ Fault
  /\ Becomes(w, Idle)
  /\ UNCHANGED <<rows, request, jobs, reader>>

StalledCheck(a) ==
  /\ jobs[a].state = "active"
  /\ \A w \in Workers : Own(w) # a
  /\ jobs' = [jobs EXCEPT ![a] = Stalled(jobs[a])]
  /\ UNCHANGED <<rows, request, worker, reader, faults>>

-----------------------------------------------------------------------------

Step(w) ==
  \/ FindAsset(w) \/ MarkProcessing(w) \/ Perceive(w) \/ MarkReady(w) \/ FetchAgain(w)
  \/ StoreCopy(w) \/ StoreRefused(w) \/ StorePath(w) \/ Catch(w) \/ SettleJob(w)

Next ==
  \/ \E a \in Asset : CreateAttached(a) \/ LinkPart(a) \/ CreateAsset(a) \/ UploadFile(a)
  \/ \E a \in Asset : CreateUploaded(a) \/ Enqueue(a) \/ RequestFails(a) \/ StalledCheck(a)
  \/ \E w \in Workers, a \in Asset : StartJob(w, a)
  \/ \E w \in Workers : Step(w) \/ CallFails(w) \/ Crash(w)
  \/ \E r \in Readers : StartWaiting(r) \/ StopWaiting(r) \/ WaitTimesOut(r) \/ BuildInput(r)

Spec == Init /\ [][Next]_vars

-----------------------------------------------------------------------------
(* Properties.                                                             *)

TypeOK ==
  /\ row \in [Asset -> [status : {"absent", "pending", "stored", "processing", "ready", "failed"},
                        path : BOOLEAN, text : {"none", "some", "empty"}]]
  /\ linked \subseteq Attached
  /\ files \subseteq Asset
  /\ request \in [Asset -> {"new", "part", "row", "queue", "done", "failed"}]
  /\ jobs \in [Asset -> JobOf(Asset)]
  /\ worker \in [Workers -> [pc : Trying \cup {"idle", "find", "mark", "catch", "settle"},
                             job : Asset \cup {None}, path : BOOLEAN, outcome : {"ok", "error"}]]
  /\ reader \in [Readers -> [pc : {"idle", "wait", "build", "done"}, late : BOOLEAN,
                  got : [Attached -> {"nothing", "file", "text", "no text", "name"}]]]
  /\ faults \in 0..MaxFaults

\* The source of an asset can be read, and there is a model to read it with.
Readable(a) ==
  /\ MimeOf[a] \in Keyed
  /\ IF a \in HasPath \/ SourceOf[a] = "upload" THEN Storage # "none" ELSE a \in HasUrl

\* A run that waited, in time and without a failure, answers to what the
\* attached sound or image says: it is told of a missing text only when the
\* model had nothing to say or the asset cannot be read at all.  (A kind taken
\* as a file may be missed: "ready" is said before the file is copied.)
AnswersWaitForText ==
  \A r \in Readers, a \in Attached :
    reader[r].got[a] = "no text" /\ ~reader[r].late /\ faults = 0 =>
      row[a].text = "empty" \/ ~Readable(a)

Unsettled(a) == jobs[a].state \in {"waiting", "active", "delayed"}

\* One failure leaves at most one sound or image to be shown as being worked on
\* with nobody to do it: errors end in "failed", however often they are retried.
StuckNeedFaults ==
  Cardinality({a \in Processable : /\ row[a].status \in Unfinished
                                   /\ request[a] \in {"done", "failed"}
                                   /\ ~Unsettled(a)}) <= faults

\* A completed job has made its asset ready, with a text; one failure alone
\* never makes a job fail for good as long as the asset can be read.  (The local
\* storage may leave a path to nothing, and one more failure the job to run again.)
SettledJobsTell ==
  \A a \in Asset :
    /\ jobs[a].state = "completed" => row[a].status = "ready" /\ row[a].text # "none"
    /\ jobs[a].state = "failed" /\ Readable(a) =>
         \/ faults >= MaxAttempts \/ faults > MaxStalls
         \/ Storage = "local" /\ faults > 1

\* Who finds a storage path finds a file: only the local storage, whose errors
\* are logged and passed over, leaves a path to nothing.
PathsHaveFiles ==
  \A a \in Asset :
    row[a].path => a \in files \/ (Storage = "local" /\ faults > 0)

\* What a job did is told by its asset, whether it ended or was given up.
JobsTellTheirAsset == TypeOK /\ StuckNeedFaults /\ SettledJobsTell
=============================================================================
