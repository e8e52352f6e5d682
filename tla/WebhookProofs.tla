---------------------------- MODULE WebhookProofs ----------------------------
(***************************************************************************)
(* Proofs about WebhookDelivery, for every set of jobs, endpoints and      *)
(* hosts, every retry policy and every number of failures and deletions.   *)
(***************************************************************************)
EXTENDS WebhookDelivery, FiniteSetTheorems, TLAPS

-----------------------------------------------------------------------------
(* Jobs.                                                                   *)

\* Every operation of the queue returns a job.
LEMMA JobTypes ==
  ASSUME NEW D, NEW j \in JobOf(D), NEW d \in D
  PROVE  /\ NoJob(d) \in JobOf(D) /\ Queued(d) \in JobOf(D) /\ Added(j, d) \in JobOf(D)
         /\ Started(j) \in JobOf(D) /\ Completed(j) \in JobOf(D) /\ Stalled(j) \in JobOf(D)
         /\ j.attempts < MaxAttempts => AttemptFailed(j) \in JobOf(D)
<1>1. /\ NoJob(d) \in JobOf(D) /\ Queued(d) \in JobOf(D) /\ Added(j, d) \in JobOf(D)
      /\ Started(j) \in JobOf(D) /\ Completed(j) \in JobOf(D)
  BY BullAssumption DEF NoJob, Queued, Added, Started, Completed, JobOf, JobStates
<1>2. /\ j.stalls < MaxStalls => j.stalls + 1 \in 0..MaxStalls
      /\ j.attempts < MaxAttempts => j.attempts + 1 \in 0..MaxAttempts
  BY BullAssumption DEF JobOf
<1>3. Stalled(j) \in JobOf(D)
  BY <1>2 DEF Stalled, JobOf, JobStates
<1>4. j.attempts < MaxAttempts => AttemptFailed(j) \in JobOf(D)
  BY <1>2 DEF AttemptFailed, JobOf, JobStates
<1>5. QED
  BY <1>1, <1>3, <1>4

\* A failed attempt leaves attempts to make, or the job has settled.
LEMMA AttemptsAreLeft ==
  ASSUME NEW D, NEW j \in JobOf(D), j.attempts < MaxAttempts
  PROVE  ~Settled(AttemptFailed(j)) => AttemptFailed(j).attempts < MaxAttempts
BY BullAssumption DEF AttemptFailed, Settled, JobOf

-----------------------------------------------------------------------------
(* The invariants.                                                         *)

MaxRuns == MaxAttempts + MaxStalls

\* A host that is not idle runs an active job, no two hosts run one job, and
\* nothing has been thrown in a run that goes on.
RunsAreActive ==
  /\ \A h \in Hosts : ~At(h, "idle") =>
       dispatcher[h].job \in Job /\ jobs[dispatcher[h].job].state = "active"
  /\ \A g, h \in Hosts :
       ~At(g, "idle") /\ ~At(h, "idle") /\ dispatcher[g].job = dispatcher[h].job => g = h
  /\ \A h \in Hosts : ~At(h, "settle") => dispatcher[h].ok

\* A job that is not settled has attempts left, and none are used in advance.
UnsettledHaveAttempts ==
  \A j \in Job : /\ ~Settled(jobs[j]) => jobs[j].attempts < MaxAttempts
                 /\ jobs[j].state = "absent" => jobs[j].attempts = 0 /\ jobs[j].stalls = 0

ChainOf(j, e, k) == [job |-> j, endpoint |-> e, run |-> k]

\* The chains a job has begun for an endpoint.
Begun(j, e) == {c \in Chains : c.job = j /\ c.endpoint = e /\ deliveries[c] # <<>>}

Ended(j) == jobs[j].attempts + jobs[j].stalls

Runs(h, j) == ~At(h, "idle") /\ dispatcher[h].job = j

\* The job may still begin a chain to the endpoint in its present run.
StillToCome(j, e) == \E h \in Hosts : Runs(h, j) /\ (At(h, "endpoints") \/ e \in dispatcher[h].left)

\* The runs of a job use one chain after the other for an endpoint, and an
\* unsettled job has one left for its next run.
ChainsAreCounted ==
  \A j \in Job, e \in Endpoints :
    /\ \A k \in 1..MaxRuns : deliveries[ChainOf(j, e, k)] # <<>> <=> k < NewRun(j, e)
    /\ jobs[j].state = "active" => NewRun(j, e) <= Ended(j) + 2
    /\ ~Settled(jobs[j]) /\ (jobs[j].state = "active" => StillToCome(j, e))
         => NewRun(j, e) <= Ended(j) + 1

\* The n-th row of a chain is its n-th attempt, and there are not too many.
RowsAreNumbered ==
  \A c \in Chains :
    /\ Len(deliveries[c]) <= AttemptLimit(c.endpoint)
    /\ \A k \in 1..Len(deliveries[c]) : deliveries[c][k].attempt = k

\* The row can still get an outcome.
Open(i) == Row(i).status \in {"pending", "failed"}

\* Whoever may still decide on a row has the latest one of its chain.
HoldersDecide ==
  /\ \A h \in Hosts : dispatcher[h].pc \in Holding =>
       LET i == dispatcher[h].row IN
       /\ i \in Rows /\ i = Latest(i.chain) /\ Open(i) /\ i.n = 1
       /\ At(h, "schedule") => Row(i).status = "failed" /\ ~Last(i)
  /\ \A t \in timers : t.row = Latest(t.row.chain) /\ Open(t.row)
  /\ \A t \in retries : /\ t.pc # "failed" => t.row = Latest(t.row.chain)
                        /\ t.row = Latest(t.row.chain) => Open(t.row)
                        /\ t.pc = "schedule" => MayRetry(t.row)

\* Somebody has yet to act on the row.
Held(i) ==
  \/ \E h \in Hosts : dispatcher[h].pc \in Holding /\ dispatcher[h].row = i
  \/ \E t \in timers \cup retries : t.row = i

\* A row has one holder.
HoldersAreAlone ==
  /\ \A g, h \in Hosts :
       /\ dispatcher[g].pc \in Holding /\ dispatcher[h].pc \in Holding
       /\ dispatcher[g].row = dispatcher[h].row
       => g = h
  /\ \A h \in Hosts, t \in timers \cup retries :
       dispatcher[h].pc \in Holding => dispatcher[h].row # t.row
  /\ \A t, u \in timers : t.row = u.row => t = u
  /\ \A t, u \in retries : t.row = u.row => t = u
  /\ \A t \in timers, u \in retries : t.row # u.row

\* An endpoint is only deleted when its deliveries are, and gets no other.
DeletedAreEmpty ==
  \A i \in Rows : endpoints[i.chain.endpoint] = "deleted" => Row(i).deleted

\* Somebody may still send the latest row of the chain, or create the next.
Sending(c) ==
  \/ \E h \in Hosts : dispatcher[h].pc \in {"send", "failed", "schedule"} /\ dispatcher[h].row.chain = c
  \/ \E t \in timers : t.row.chain = c
  \/ \E t \in retries : t.pc \in {"send", "schedule"} /\ t.row.chain = c

Live(j, e) == {c \in Chains : c.job = j /\ c.endpoint = e /\ Sending(c)}

\* The job may still begin a chain to the endpoint, in this run or the next.
Due(j, e) ==
  /\ ~Settled(jobs[j])
  /\ jobs[j].state = "active" /\ (\E h \in Hosts : Runs(h, j)) =>
       \E h \in Hosts : /\ Runs(h, j)
                        /\ At(h, "endpoints") \/ e \in dispatcher[h].left \/ ~dispatcher[h].ok

One(b) == IF b THEN 1 ELSE 0

\* Two ways in which a deletion breaks a run: its row is deleted, or an
\* endpoint it has yet to come to is gone.
HasDeletedRow(j) ==
  \E h \in Hosts : Runs(h, j) /\ dispatcher[h].pc \in Holding /\ Row(dispatcher[h].row).deleted

MissesEndpoint(j) == \E h \in Hosts : Runs(h, j) /\ \E e \in dispatcher[h].left : ~Exists(e)

Breaks(j) == One(HasDeletedRow(j)) + One(MissesEndpoint(j)) + One(removing # None)

\* What has been sent, and what may still be sent without another failure.
Budget ==
  \A j \in Job, e \in Endpoints :
    received[<<j, e>>] + Cardinality(Live(j, e)) + One(Due(j, e)) + Breaks(j)
      <= 1 + faults + 2 * removals

IInv ==
  /\ TypeOK /\ RunsAreActive /\ UnsettledHaveAttempts /\ ChainsAreCounted
  /\ RowsAreNumbered /\ HoldersDecide /\ HoldersAreAlone /\ DeletedAreEmpty
  /\ NothingForgotten /\ Budget

-----------------------------------------------------------------------------
(* Rows.                                                                   *)

\* A row is a position in the list of its chain.
LEMMA InRows ==
  ASSUME deliveries \in [Chains -> Seq(Delivery)]
  PROVE  /\ \A i \in Rows : /\ i.chain \in Chains /\ i.n \in 1..Len(deliveries[i.chain])
                            /\ i = [chain |-> i.chain, n |-> i.n] /\ Row(i) \in Delivery
         /\ \A c \in Chains : \A k \in 1..Len(deliveries[c]) : [chain |-> c, n |-> k] \in Rows
<1>1. \A c \in Chains : DOMAIN deliveries[c] = 1..Len(deliveries[c])
  OBVIOUS
<1>2. \A c \in Chains : \A k \in 1..Len(deliveries[c]) : deliveries[c][k] \in Delivery
  OBVIOUS
<1>3. \A i \in Rows : /\ i.chain \in Chains /\ i.n \in 1..Len(deliveries[i.chain])
                      /\ i = [chain |-> i.chain, n |-> i.n] /\ Row(i) \in Delivery
  <2>1. TAKE i \in Rows
  <2>2. PICK c \in Chains : \E k \in 1..Len(deliveries[c]) : i = [chain |-> c, n |-> k]
    BY <1>1 DEF Rows, RowsOf
  <2>3. PICK k \in 1..Len(deliveries[c]) : i = [chain |-> c, n |-> k]
    BY <2>2
  <2>4. i.chain = c /\ i.n = k
    BY <2>3
  <2>5. QED
    BY <1>2, <2>3, <2>4 DEF Row
<1>4. \A c \in Chains : \A k \in 1..Len(deliveries[c]) : [chain |-> c, n |-> k] \in Rows
  <2>1. TAKE c \in Chains
  <2>2. TAKE k \in 1..Len(deliveries[c])
  <2>3. [chain |-> c, n |-> k] \in RowsOf(c)
    BY <1>1 DEF RowsOf
  <2>4. QED
    BY <2>3 DEF Rows
<1>5. QED
  BY <1>3, <1>4

\* The same, after a step.
LEMMA InRowsNext ==
  ASSUME deliveries' \in [Chains -> Seq(Delivery)]
  PROVE  /\ \A i \in Rows' : /\ i.chain \in Chains /\ i.n \in 1..Len(deliveries'[i.chain])
                             /\ i = [chain |-> i.chain, n |-> i.n] /\ Row(i)' \in Delivery
         /\ \A c \in Chains : \A k \in 1..Len(deliveries'[c]) : [chain |-> c, n |-> k] \in Rows'
<1>1. \A c \in Chains : DOMAIN deliveries'[c] = 1..Len(deliveries'[c])
  OBVIOUS
<1>2. \A c \in Chains : \A k \in 1..Len(deliveries'[c]) : deliveries'[c][k] \in Delivery
  OBVIOUS
<1>3. \A i \in Rows' : /\ i.chain \in Chains /\ i.n \in 1..Len(deliveries'[i.chain])
                       /\ i = [chain |-> i.chain, n |-> i.n] /\ Row(i)' \in Delivery
  <2>1. TAKE i \in Rows'
  <2>2. PICK c \in Chains : \E k \in 1..Len(deliveries'[c]) : i = [chain |-> c, n |-> k]
    BY <1>1 DEF Rows, RowsOf
  <2>3. PICK k \in 1..Len(deliveries'[c]) : i = [chain |-> c, n |-> k]
    BY <2>2
  <2>4. i.chain = c /\ i.n = k
    BY <2>3
  <2>5. QED
    BY <1>2, <2>3, <2>4 DEF Row
<1>4. \A c \in Chains : \A k \in 1..Len(deliveries'[c]) : [chain |-> c, n |-> k] \in Rows'
  <2>1. TAKE c \in Chains
  <2>2. TAKE k \in 1..Len(deliveries'[c])
  <2>3. [chain |-> c, n |-> k] \in RowsOf(c)'
    BY <1>1 DEF RowsOf
  <2>4. QED
    BY <2>3 DEF Rows
<1>5. QED
  BY <1>3, <1>4

\* Updating the status of a row.
LEMMA MarkedRows ==
  ASSUME deliveries \in [Chains -> Seq(Delivery)], NEW i \in Rows,
         NEW s \in {"delivered", "failed", "dead"}
  PROVE  /\ Marked(i, s) \in [Chains -> Seq(Delivery)]
         /\ \A c \in Chains :
              /\ Len(Marked(i, s)[c]) = Len(deliveries[c])
              /\ \A k \in 1..Len(deliveries[c]) :
                   Marked(i, s)[c][k] =
                     IF c = i.chain /\ k = i.n THEN [deliveries[c][k] EXCEPT !.status = s]
                     ELSE deliveries[c][k]
<1> DEFINE c0 == i.chain
           old == deliveries[c0]
           new == [old EXCEPT ![i.n].status = s]
<1>1. c0 \in Chains /\ i.n \in 1..Len(old) /\ old \in Seq(Delivery) /\ old[i.n] \in Delivery
  BY InRows DEF Row
<1>2. [old[i.n] EXCEPT !.status = s] \in Delivery
  BY <1>1 DEF Delivery
<1>3. new = [old EXCEPT ![i.n] = [old[i.n] EXCEPT !.status = s]]
  BY <1>1
<1>4. /\ new \in Seq(Delivery) /\ Len(new) = Len(old)
      /\ \A k \in 1..Len(old) :
           new[k] = IF k = i.n THEN [old[k] EXCEPT !.status = s] ELSE old[k]
  BY <1>1, <1>2, <1>3
<1>5. Marked(i, s) = [deliveries EXCEPT ![c0] = new]
  BY DEF Marked
<1> HIDE DEF new
<1>6. Marked(i, s) \in [Chains -> Seq(Delivery)]
  BY <1>1, <1>4, <1>5
<1>7. ASSUME NEW c \in Chains
      PROVE  Marked(i, s)[c] = IF c = c0 THEN new ELSE deliveries[c]
  BY <1>1, <1>5
<1>8. QED
  BY <1>4, <1>6, <1>7

\* Creating a row.
LEMMA CreatedRows ==
  ASSUME deliveries \in [Chains -> Seq(Delivery)], NEW c0 \in Chains, NEW a \in Nat
  PROVE  /\ Created(c0, a) \in [Chains -> Seq(Delivery)]
         /\ \A c \in Chains \ {c0} : Created(c0, a)[c] = deliveries[c]
         /\ Len(Created(c0, a)[c0]) = Len(deliveries[c0]) + 1
         /\ \A k \in 1..Len(deliveries[c0]) : Created(c0, a)[c0][k] = deliveries[c0][k]
         /\ Created(c0, a)[c0][Len(deliveries[c0]) + 1]
            = [attempt |-> a, status |-> "pending", deleted |-> FALSE]
<1> DEFINE row == [attempt |-> a, status |-> "pending", deleted |-> FALSE]
           old == deliveries[c0]
           new == Append(old, row)
<1>1. row \in Delivery /\ old \in Seq(Delivery)
  BY DEF Delivery
<1>2. Created(c0, a) = [deliveries EXCEPT ![c0] = new]
  BY DEF Created
<1> HIDE DEF row
<1>3. /\ new \in Seq(Delivery) /\ Len(new) = Len(old) + 1
      /\ \A k \in 1..Len(old) : new[k] = old[k]
      /\ new[Len(old) + 1] = row
  BY <1>1
<1> HIDE DEF new
<1>4. QED
  BY <1>2, <1>3 DEF row

-----------------------------------------------------------------------------
(* What a change of the rows means for rows, not for positions of lists.   *)

LEMMA MarkedStep ==
  ASSUME deliveries \in [Chains -> Seq(Delivery)], NEW i \in Rows,
         NEW s \in {"delivered", "failed", "dead"}, deliveries' = Marked(i, s)
  PROVE  /\ deliveries' \in [Chains -> Seq(Delivery)]
         /\ \A c \in Chains : Len(deliveries'[c]) = Len(deliveries[c])
         /\ Rows' = Rows
         /\ \A c \in Chains : Latest(c)' = Latest(c)
         /\ \A r \in Rows : /\ Row(r)'.attempt = Row(r).attempt
                            /\ Row(r)'.deleted = Row(r).deleted
                            /\ Row(r)'.status = IF r = i THEN s ELSE Row(r).status
<1>1. /\ deliveries' \in [Chains -> Seq(Delivery)]
      /\ \A c \in Chains : Len(deliveries'[c]) = Len(deliveries[c])
  BY MarkedRows
<1>2. Rows' = Rows
  <2>1. \A c \in Chains : DOMAIN deliveries'[c] = DOMAIN deliveries[c]
    BY <1>1
  <2>2. \A c \in Chains : RowsOf(c)' = RowsOf(c)
    BY <2>1 DEF RowsOf
  <2>3. QED
    BY <2>2 DEF Rows
<1>3. \A c \in Chains : Latest(c)' = Latest(c)
  BY <1>1 DEF Latest
<1>4. ASSUME NEW r \in Rows
      PROVE  /\ Row(r)'.attempt = Row(r).attempt
             /\ Row(r)'.deleted = Row(r).deleted
             /\ Row(r)'.status = IF r = i THEN s ELSE Row(r).status
  <2>1. /\ r.chain \in Chains /\ r.n \in 1..Len(deliveries[r.chain])
        /\ r = [chain |-> r.chain, n |-> r.n] /\ Row(r) \in Delivery
        /\ i = [chain |-> i.chain, n |-> i.n]
    BY InRows
  <2>2. Row(r)' = IF r.chain = i.chain /\ r.n = i.n THEN [Row(r) EXCEPT !.status = s] ELSE Row(r)
    <3>1. Row(r)' = Marked(i, s)[r.chain][r.n] /\ Row(r) = deliveries[r.chain][r.n]
      BY DEF Row
    <3>2. \A c \in Chains : \A k \in 1..Len(deliveries[c]) :
            Marked(i, s)[c][k] = IF c = i.chain /\ k = i.n THEN [deliveries[c][k] EXCEPT !.status = s]
                                 ELSE deliveries[c][k]
      BY MarkedRows
    <3>3. QED
      BY <2>1, <3>1, <3>2
  <2>3. r = i <=> r.chain = i.chain /\ r.n = i.n
    BY <2>1
  <2>4. QED
    BY <2>1, <2>2, <2>3 DEF Delivery
<1>5. QED
  BY <1>1, <1>2, <1>3, <1>4

LEMMA CreatedStep ==
  ASSUME deliveries \in [Chains -> Seq(Delivery)], NEW c0 \in Chains, NEW a \in Nat,
         deliveries' = Created(c0, a)
  PROVE  /\ deliveries' \in [Chains -> Seq(Delivery)]
         /\ Len(deliveries'[c0]) = Len(deliveries[c0]) + 1
         /\ \A c \in Chains \ {c0} : deliveries'[c] = deliveries[c] /\ Latest(c)' = Latest(c)
         /\ NewRow(c0) \notin Rows
         /\ Rows' = Rows \cup {NewRow(c0)}
         /\ Latest(c0)' = NewRow(c0)
         /\ NewRow(c0).chain = c0 /\ NewRow(c0).n = Len(deliveries[c0]) + 1
         /\ \A r \in Rows : Row(r)' = Row(r)
         /\ deliveries'[c0][Len(deliveries[c0]) + 1] = [attempt |-> a, status |-> "pending", deleted |-> FALSE]
<1>1. /\ deliveries' \in [Chains -> Seq(Delivery)]
      /\ \A c \in Chains \ {c0} : deliveries'[c] = deliveries[c]
      /\ Len(deliveries'[c0]) = Len(deliveries[c0]) + 1
      /\ \A k \in 1..Len(deliveries[c0]) : deliveries'[c0][k] = deliveries[c0][k]
      /\ deliveries'[c0][Len(deliveries[c0]) + 1]
         = [attempt |-> a, status |-> "pending", deleted |-> FALSE]
  BY CreatedRows
<1>2. NewRow(c0) \notin Rows
  BY InRows DEF NewRow
<1>3. /\ Latest(c0)' = NewRow(c0)
      /\ \A c \in Chains \ {c0} : Latest(c)' = Latest(c)
  BY <1>1 DEF Latest, NewRow
<1>4. NewRow(c0).chain = c0 /\ NewRow(c0).n = Len(deliveries[c0]) + 1
  BY DEF NewRow
<1>5. Len(deliveries[c0]) \in Nat
  OBVIOUS
<1>6. Rows' = Rows \cup {NewRow(c0)}
  <2>1. ASSUME NEW r \in Rows' PROVE r \in Rows \cup {NewRow(c0)}
    <3>1. r.chain \in Chains /\ r.n \in 1..Len(deliveries'[r.chain]) /\ r = [chain |-> r.chain, n |-> r.n]
      BY <1>1, InRowsNext
    <3>2. CASE r.chain # c0 \/ r.n # Len(deliveries[c0]) + 1
      <4>1. r.n \in 1..Len(deliveries[r.chain])
        BY <1>1, <1>5, <3>1, <3>2
      <4>2. QED
        BY <3>1, <4>1, InRows
    <3>3. CASE r.chain = c0 /\ r.n = Len(deliveries[c0]) + 1
      BY <3>1, <3>3 DEF NewRow
    <3>4. QED
      BY <3>2, <3>3
  <2>2. ASSUME NEW r \in Rows PROVE r \in Rows'
    <3>1. r.chain \in Chains /\ r.n \in 1..Len(deliveries[r.chain]) /\ r = [chain |-> r.chain, n |-> r.n]
      BY InRows
    <3>2. r.n \in 1..Len(deliveries'[r.chain])
      <4>1. CASE r.chain = c0
        BY <1>1, <1>5, <3>1, <4>1
      <4>2. CASE r.chain # c0
        BY <1>1, <3>1, <4>2
      <4>3. QED
        BY <4>1, <4>2
    <3>3. QED
      BY <1>1, <3>1, <3>2, InRowsNext
  <2>3. NewRow(c0) \in Rows'
    <3>1. Len(deliveries[c0]) + 1 \in 1..Len(deliveries'[c0])
      BY <1>1, <1>5
    <3>2. QED
      BY <1>1, <3>1, InRowsNext DEF NewRow
  <2>4. QED
    BY <2>1, <2>2, <2>3
<1>7. ASSUME NEW r \in Rows PROVE Row(r)' = Row(r)
  <2>1. r.chain \in Chains /\ r.n \in 1..Len(deliveries[r.chain])
    BY InRows
  <2>2. QED
    BY <1>1, <2>1 DEF Row
<1>8. QED
  BY <1>1, <1>2, <1>3, <1>4, <1>6, <1>7

\* Deleting the deliveries of an endpoint leaves them in the model.
LEMMA DeletedStep ==
  ASSUME deliveries \in [Chains -> Seq(Delivery)], NEW e \in Endpoints, DeleteDeliveries(e)
  PROVE  /\ deliveries' \in [Chains -> Seq(Delivery)]
         /\ \A c \in Chains : Len(deliveries'[c]) = Len(deliveries[c]) /\ Latest(c)' = Latest(c)
         /\ Rows' = Rows
         /\ \A r \in Rows : /\ Row(r)'.attempt = Row(r).attempt
                            /\ Row(r)'.status = Row(r).status
                            /\ Row(r)'.deleted = (Row(r).deleted \/ r.chain.endpoint = e)
<1>1. \A c \in Chains : deliveries'[c] =
        IF c.endpoint # e THEN deliveries[c]
        ELSE [k \in DOMAIN deliveries[c] |-> [deliveries[c][k] EXCEPT !.deleted = TRUE]]
  BY DEF DeleteDeliveries
<1>2. ASSUME NEW c \in Chains
      PROVE  /\ deliveries'[c] \in Seq(Delivery) /\ Len(deliveries'[c]) = Len(deliveries[c])
             /\ DOMAIN deliveries'[c] = DOMAIN deliveries[c]
             /\ \A k \in 1..Len(deliveries[c]) :
                  deliveries'[c][k] = IF c.endpoint # e THEN deliveries[c][k]
                                      ELSE [deliveries[c][k] EXCEPT !.deleted = TRUE]
  <2> DEFINE old == deliveries[c]
             new == [k \in DOMAIN old |-> [old[k] EXCEPT !.deleted = TRUE]]
  <2>1. old \in Seq(Delivery) /\ DOMAIN old = 1..Len(old) /\ Len(old) \in Nat
    OBVIOUS
  <2>2. CASE c.endpoint # e
    BY <1>1, <2>1, <2>2
  <2>3. CASE c.endpoint = e
    <3>1. deliveries'[c] = [k \in 1..Len(old) |-> [old[k] EXCEPT !.deleted = TRUE]]
      BY <1>1, <2>1, <2>3
    <3>2. \A k \in 1..Len(old) : [old[k] EXCEPT !.deleted = TRUE] \in Delivery
      <4>1. \A k \in 1..Len(old) : old[k] \in Delivery
        BY <2>1
      <4>2. QED
        BY <4>1 DEF Delivery
    <3>3. deliveries'[c] \in Seq(Delivery) /\ Len(deliveries'[c]) = Len(old)
      BY <2>1, <3>1, <3>2
    <3>4. QED
      BY <2>1, <2>3, <3>1, <3>3
  <2>4. QED
    BY <2>2, <2>3
<1>3. deliveries' \in [Chains -> Seq(Delivery)]
  BY <1>2 DEF DeleteDeliveries
<1>4. Rows' = Rows
  <2>1. \A c \in Chains : RowsOf(c)' = RowsOf(c)
    BY <1>2 DEF RowsOf
  <2>2. QED
    BY <2>1 DEF Rows
<1>5. \A c \in Chains : Latest(c)' = Latest(c)
  BY <1>2 DEF Latest
<1>6. ASSUME NEW r \in Rows
      PROVE  /\ Row(r)'.attempt = Row(r).attempt
             /\ Row(r)'.status = Row(r).status
             /\ Row(r)'.deleted = (Row(r).deleted \/ r.chain.endpoint = e)
  <2>1. r.chain \in Chains /\ r.n \in 1..Len(deliveries[r.chain]) /\ Row(r) \in Delivery
    BY InRows
  <2>2. Row(r)' = IF r.chain.endpoint # e THEN Row(r) ELSE [Row(r) EXCEPT !.deleted = TRUE]
    BY <1>2, <2>1 DEF Row
  <2>3. QED
    BY <2>1, <2>2 DEF Delivery
<1>7. QED
  BY <1>2, <1>3, <1>4, <1>5, <1>6

-----------------------------------------------------------------------------
(* The local variables of a host.                                          *)

OthersStay(h) == \A g \in Hosts : g # h => dispatcher'[g] = dispatcher[g]

LEMMA Moved ==
  ASSUME dispatcher \in [Hosts -> Run], NEW h \in Hosts
  PROVE  /\ \A r \in Run : Becomes(h, r) =>
              /\ dispatcher' \in [Hosts -> Run] /\ OthersStay(h)
              /\ dispatcher'[h] = r
         /\ \A pc \in PCs : Goto(h, pc) =>
              /\ dispatcher' \in [Hosts -> Run] /\ OthersStay(h)
              /\ dispatcher'[h].pc = pc /\ dispatcher'[h].job = dispatcher[h].job
              /\ dispatcher'[h].left = dispatcher[h].left /\ dispatcher'[h].row = dispatcher[h].row
              /\ dispatcher'[h].ok = dispatcher[h].ok
         /\ Finished(h) =>
              /\ dispatcher' \in [Hosts -> Run] /\ OthersStay(h)
              /\ dispatcher'[h].pc = "create" /\ dispatcher'[h].job = dispatcher[h].job
              /\ dispatcher'[h].left = dispatcher[h].left
              /\ dispatcher'[h].ok = dispatcher[h].ok
         /\ Throws(h) =>
              /\ dispatcher' \in [Hosts -> Run] /\ OthersStay(h)
              /\ dispatcher'[h].pc = "settle" /\ dispatcher'[h].job = dispatcher[h].job
              /\ dispatcher'[h].left = {}
              /\ dispatcher'[h].ok = FALSE
<1>1. \A r \in Run : Becomes(h, r) =>
        /\ dispatcher' \in [Hosts -> Run] /\ OthersStay(h)
        /\ dispatcher'[h] = r
  BY DEF Becomes, OthersStay
<1>2. dispatcher[h] \in Run
  OBVIOUS
<1>3. ASSUME NEW pc \in PCs
      PROVE  [dispatcher[h] EXCEPT !.pc = pc] \in Run
  BY <1>2 DEF Run
<1>4. [dispatcher[h] EXCEPT !.pc = "create", !.row = None] \in Run
  BY <1>2 DEF Run, PCs
<1>5. [dispatcher[h] EXCEPT !.pc = "settle", !.row = None, !.left = {}, !.ok = FALSE] \in Run
  BY <1>2 DEF Run, PCs
<1>6. ASSUME NEW pc \in PCs, Goto(h, pc)
      PROVE  /\ dispatcher' \in [Hosts -> Run] /\ OthersStay(h)
             /\ dispatcher'[h].pc = pc /\ dispatcher'[h].job = dispatcher[h].job
             /\ dispatcher'[h].left = dispatcher[h].left /\ dispatcher'[h].row = dispatcher[h].row
             /\ dispatcher'[h].ok = dispatcher[h].ok
  <2>1. /\ dispatcher' \in [Hosts -> Run] /\ OthersStay(h)
        /\ dispatcher'[h] = [dispatcher[h] EXCEPT !.pc = pc]
    BY <1>1, <1>3, <1>6 DEF Goto
  <2>2. QED
    BY <1>2, <2>1 DEF Run
<1>7. ASSUME Finished(h)
      PROVE  /\ dispatcher' \in [Hosts -> Run] /\ OthersStay(h)
             /\ dispatcher'[h].pc = "create" /\ dispatcher'[h].job = dispatcher[h].job
             /\ dispatcher'[h].left = dispatcher[h].left
             /\ dispatcher'[h].ok = dispatcher[h].ok
  <2>1. /\ dispatcher' \in [Hosts -> Run] /\ OthersStay(h)
        /\ dispatcher'[h] = [dispatcher[h] EXCEPT !.pc = "create", !.row = None]
    BY <1>1, <1>4, <1>7 DEF Finished
  <2>2. QED
    BY <1>2, <2>1 DEF Run
<1>8. ASSUME Throws(h)
      PROVE  /\ dispatcher' \in [Hosts -> Run] /\ OthersStay(h)
             /\ dispatcher'[h].pc = "settle" /\ dispatcher'[h].job = dispatcher[h].job
             /\ dispatcher'[h].left = {}
             /\ dispatcher'[h].ok = FALSE
  <2>1. /\ dispatcher' \in [Hosts -> Run] /\ OthersStay(h)
        /\ dispatcher'[h] = [dispatcher[h] EXCEPT !.pc = "settle", !.row = None, !.left = {}, !.ok = FALSE]
    BY <1>1, <1>5, <1>8 DEF Throws
  <2>2. QED
    BY <1>2, <2>1 DEF Run
<1>9. QED
  BY <1>1, <1>6, <1>7, <1>8

\* A host that has nothing to do.
LEMMA Idled ==
  Idle \in Run /\ Idle.pc = "idle" /\ Idle.job = None /\ Idle.left = {} /\ Idle.row = None /\ Idle.ok
BY DEF Idle, Run, PCs

LEMMA SameRows ==
  ASSUME UNCHANGED deliveries
  PROVE  /\ Rows' = Rows
         /\ \A i : Row(i)' = Row(i) /\ AttemptOf(i)' = AttemptOf(i)
         /\ \A c : Latest(c)' = Latest(c)
BY DEF Rows, RowsOf, Row, AttemptOf, Latest

LEMMA LimitsArePositive == \A e \in Endpoints : AttemptLimit(e) \in Nat \ {0}
BY WebhookAssumption DEF AttemptLimit

\* A row is the attempt with its number.
LEMMA Numbered ==
  ASSUME TypeOK, RowsAreNumbered, NEW i \in Rows
  PROVE  /\ AttemptOf(i) = i.n /\ LimitOf(i) \in Nat \ {0} /\ i.chain.endpoint \in Endpoints
         /\ i.n \in 1..Len(deliveries[i.chain]) /\ i.chain \in Chains
         /\ Len(deliveries[i.chain]) <= LimitOf(i)
<1>1. i.chain \in Chains /\ i.n \in 1..Len(deliveries[i.chain])
  BY InRows DEF TypeOK
<1>2. i.chain.endpoint \in Endpoints
  BY <1>1 DEF Chains
<1>3. QED
  BY <1>1, <1>2, LimitsArePositive DEF RowsAreNumbered, AttemptOf, LimitOf, Row

-----------------------------------------------------------------------------
(* Facts that the steps share.                                             *)

\* The endpoint takes a callback, or not.
LEMMA Posted ==
  ASSUME TypeOK, NEW c \in Chains, NEW ok \in BOOLEAN, Post(c, ok), UNCHANGED removals
  PROVE  /\ received' \in [Job \X Endpoints -> Nat]
         /\ removals' \in Nat /\ faults' \in Nat /\ faults' + removals' <= MaxUpsets
         /\ faults' = 0 => faults = 0
         /\ faults' >= faults
         /\ \A j \in Job, e \in Endpoints :
              /\ j # c.job \/ e # c.endpoint => received'[<<j, e>>] = received[<<j, e>>]
              /\ received'[<<j, e>>] <= received[<<j, e>>] + (faults' - faults) + (IF ok THEN 1 ELSE 0)
<1>1. c.job \in Job /\ c.endpoint \in Endpoints
  BY DEF Chains
<1>2. /\ received \in [Job \X Endpoints -> Nat] /\ faults \in Nat /\ removals \in Nat
      /\ faults + removals <= MaxUpsets /\ MaxUpsets \in Nat
  BY WebhookAssumption DEF TypeOK
<1>3. ASSUME received' = Taken(c)
      PROVE  /\ received' \in [Job \X Endpoints -> Nat]
             /\ \A j \in Job, e \in Endpoints :
                  received'[<<j, e>>] = received[<<j, e>>]
                                        + (IF j = c.job /\ e = c.endpoint THEN 1 ELSE 0)
  <2>1. received[<<c.job, c.endpoint>>] + 1 \in Nat
    BY <1>1, <1>2
  <2>2. QED
    BY <1>1, <1>2, <1>3, <2>1 DEF Taken
<1>4. CASE ok /\ received' = Taken(c) /\ UNCHANGED faults
  BY <1>2, <1>3, <1>4
<1>5. CASE ~ok /\ UNCHANGED <<received, faults>>
  BY <1>2, <1>5
<1>6. CASE ~ok /\ CanUpset /\ faults' = faults + 1 /\ received' = Taken(c)
  <2>1. faults' + removals' <= MaxUpsets
    BY <1>2, <1>6 DEF CanUpset
  <2>2. QED
    BY <1>2, <1>3, <1>6, <2>1
<1>7. QED
  BY <1>4, <1>5, <1>6 DEF Post

\* A failure, or a deletion, while one is allowed.
LEMMA Upsets ==
  ASSUME TypeOK, CanUpset
  PROVE  /\ faults + 1 \in Nat /\ removals + 1 \in Nat /\ faults + 1 # 0
         /\ (faults + 1) + removals <= MaxUpsets /\ faults + (removals + 1) <= MaxUpsets
BY WebhookAssumption DEF TypeOK, CanUpset

ChainsOf(j, e) == {c \in Chains : c.job = j /\ c.endpoint = e}

\* The chains of a job for an endpoint are few.
LEMMA FewChains ==
  ASSUME NEW j, NEW e, NEW S \in SUBSET ChainsOf(j, e), NEW T \in SUBSET ChainsOf(j, e)
  PROVE  /\ IsFiniteSet(S) /\ Cardinality(S) \in Nat
         /\ S \subseteq T => Cardinality(S) <= Cardinality(T)
         /\ \A c \in T : S \subseteq T \ {c} => Cardinality(S) + 1 <= Cardinality(T)
         /\ \A c : S \subseteq T \cup {c} => Cardinality(S) <= Cardinality(T) + 1
         /\ \A c : S = T \cup {c} /\ c \notin T => Cardinality(S) = Cardinality(T) + 1
<1> DEFINE All == ChainsOf(j, e)
           run == [c \in All |-> c.run]
<1>1. run \in Injection(All, 1..MaxRuns)
  <2>1. \A c \in All : c = [job |-> j, endpoint |-> e, run |-> c.run] /\ c.run \in 1..MaxRuns
    BY DEF ChainsOf, Chains, MaxRuns
  <2>2. run \in [All -> 1..MaxRuns]
    BY <2>1
  <2>3. ASSUME NEW b \in All, NEW c \in All, run[b] = run[c]
        PROVE  b = c
    BY <2>1, <2>3
  <2>4. QED
    BY <2>2, <2>3 DEF Injection, IsInjective
<1>2. IsFiniteSet(All)
  <2>1. IsFiniteSet(1..MaxRuns)
    BY FS_Interval, BullAssumption DEF MaxRuns
  <2>2. QED
    BY <1>1, <2>1, FS_Injection
<1>3. IsFiniteSet(S) /\ IsFiniteSet(T)
  BY <1>2, FS_Subset
<1>4. Cardinality(S) \in Nat /\ Cardinality(T) \in Nat
  BY <1>3, FS_CardinalityType
<1>5. S \subseteq T => Cardinality(S) <= Cardinality(T)
  BY <1>3, FS_Subset
<1>6. ASSUME NEW c \in T, S \subseteq T \ {c}
      PROVE  Cardinality(S) + 1 <= Cardinality(T)
  <2>1. IsFiniteSet(T \ {c}) /\ Cardinality(T \ {c}) = Cardinality(T) - 1
    BY <1>3, FS_RemoveElement
  <2>2. Cardinality(S) <= Cardinality(T \ {c})
    BY <1>6, <2>1, FS_Subset
  <2>3. QED
    BY <1>4, <2>1, <2>2
<1>7. ASSUME NEW c, S \subseteq T \cup {c}
      PROVE  Cardinality(S) <= Cardinality(T) + 1
  <2>1. IsFiniteSet(T \cup {c}) /\ Cardinality(T \cup {c}) \in {Cardinality(T), Cardinality(T) + 1}
    BY <1>3, FS_AddElement
  <2>2. Cardinality(S) <= Cardinality(T \cup {c})
    BY <1>7, <2>1, FS_Subset
  <2>3. QED
    BY <1>4, <2>1, <2>2
<1>8. ASSUME NEW c, S = T \cup {c}, c \notin T
      PROVE  Cardinality(S) = Cardinality(T) + 1
  BY <1>3, <1>8, FS_AddElement
<1>9. QED
  BY <1>3, <1>4, <1>5, <1>6, <1>7, <1>8

\* A host goes on with its job.
StepsOn(h) ==
  /\ UNCHANGED jobs /\ dispatcher' \in [Hosts -> Run] /\ OthersStay(h)
  /\ ~At(h, "idle") /\ dispatcher'[h].pc # "idle" /\ dispatcher'[h].job = dispatcher[h].job
  /\ dispatcher'[h].pc = "settle" \/ dispatcher'[h].ok

LEMMA StepsOnRuns ==
  ASSUME RunsAreActive, UnsettledHaveAttempts, NEW h \in Hosts, StepsOn(h)
  PROVE  /\ RunsAreActive' /\ UnsettledHaveAttempts'
         /\ \A g \in Hosts, j \in Job : Runs(g, j)' <=> Runs(g, j)
<1>1. \A g \in Hosts : /\ At(g, "idle")' <=> At(g, "idle")
                       /\ dispatcher'[g].job = dispatcher[g].job
                       /\ ~At(g, "settle")' => dispatcher'[g].ok
  BY DEF StepsOn, OthersStay, At, RunsAreActive
<1>2. RunsAreActive'
  BY <1>1 DEF RunsAreActive, StepsOn
<1>3. QED
  BY <1>1, <1>2 DEF UnsettledHaveAttempts, StepsOn, Runs

\* Nobody but the host runs its job.
LEMMA RunsAlone ==
  ASSUME RunsAreActive, NEW h \in Hosts, ~At(h, "idle")
  PROVE  /\ dispatcher[h].job \in Job /\ jobs[dispatcher[h].job].state = "active"
         /\ ~Settled(jobs[dispatcher[h].job])
         /\ Runs(h, dispatcher[h].job)
         /\ \A g \in Hosts, j \in Job : Runs(g, j) /\ (Runs(h, j) \/ j = dispatcher[h].job) => g = h
BY DEF RunsAreActive, Runs, Settled

LEMMA SameWork ==
  ASSUME UNCHANGED work
  PROVE  /\ RunsAreActive => RunsAreActive'
         /\ UnsettledHaveAttempts => UnsettledHaveAttempts'
         /\ \A g, j : Runs(g, j)' <=> Runs(g, j)
         /\ \A j, e : StillToCome(j, e)' <=> StillToCome(j, e)
         /\ \A j, e : Due(j, e)' <=> Due(j, e)
BY DEF work, RunsAreActive, UnsettledHaveAttempts, At, Runs, StillToCome, Due

\* The rows stay, as far as their number and their deletion are concerned.
RowsStay ==
  /\ deliveries' \in [Chains -> Seq(Delivery)]
  /\ Rows' = Rows
  /\ \A c \in Chains : Len(deliveries'[c]) = Len(deliveries[c]) /\ Latest(c)' = Latest(c)
  /\ \A r \in Rows : /\ Row(r)'.attempt = Row(r).attempt
                     /\ Row(r).deleted => Row(r)'.deleted

LEMMA StayingRows ==
  ASSUME deliveries \in [Chains -> Seq(Delivery)]
  PROVE  /\ UNCHANGED deliveries => RowsStay
         /\ \A i \in Rows, s \in {"delivered", "failed", "dead"} :
              deliveries' = Marked(i, s) => RowsStay
         /\ \A e \in Endpoints : DeleteDeliveries(e) => RowsStay
<1>1. UNCHANGED deliveries => RowsStay
  BY SameRows DEF RowsStay
<1>2. \A i \in Rows, s \in {"delivered", "failed", "dead"} : deliveries' = Marked(i, s) => RowsStay
  BY MarkedStep DEF RowsStay
<1>3. \A e \in Endpoints : DeleteDeliveries(e) => RowsStay
  BY DeletedStep DEF RowsStay
<1>4. QED
  BY <1>1, <1>2, <1>3

\* As long as no chain begins, the chains are counted as before.
LEMMA CountsStay ==
  ASSUME ChainsAreCounted, UNCHANGED jobs,
         \A c \in Chains : deliveries'[c] = <<>> <=> deliveries[c] = <<>>,
         \A j \in Job, e \in Endpoints : StillToCome(j, e)' => StillToCome(j, e)
  PROVE  ChainsAreCounted'
<1>1. \A j, e : Begun(j, e)' = Begun(j, e)
  BY DEF Begun
<1>2. \A j, e : NewRun(j, e)' = NewRun(j, e)
  BY <1>1 DEF NewRun, Begun
<1>3. \A j \in Job, e \in Endpoints, k \in 1..MaxRuns : ChainOf(j, e, k) \in Chains
  BY DEF ChainOf, Chains, MaxRuns
<1>4. ASSUME NEW j \in Job, NEW e \in Endpoints
      PROVE  /\ \A k \in 1..MaxRuns : deliveries'[ChainOf(j, e, k)] # <<>> <=> k < NewRun(j, e)
             /\ jobs'[j].state = "active" => NewRun(j, e) <= Ended(j)' + 2
             /\ ~Settled(jobs'[j]) /\ (jobs'[j].state = "active" => StillToCome(j, e)')
                  => NewRun(j, e) <= Ended(j)' + 1
  <2>1. Ended(j)' = Ended(j)
    BY DEF Ended
  <2>2. QED
    BY <1>3, <2>1 DEF ChainsAreCounted
<1>5. QED
  BY <1>2, <1>4 DEF ChainsAreCounted

LEMMA NoChainBegins ==
  ASSUME deliveries \in [Chains -> Seq(Delivery)], RowsStay
  PROVE  \A c \in Chains : deliveries'[c] = <<>> <=> deliveries[c] = <<>>
BY DEF RowsStay

\* Holders go on or leave, and nobody else comes.
HoldersStayOrGo ==
  /\ \A g \in Hosts : dispatcher'[g].pc \in Holding =>
       /\ dispatcher[g].pc \in Holding /\ dispatcher'[g].row = dispatcher[g].row
       /\ dispatcher'[g].pc # "delivered" => dispatcher[g].pc # "delivered"
       /\ dispatcher'[g].pc = "schedule" =>
            \/ dispatcher[g].pc = "schedule"
            \/ Row(dispatcher[g].row)'.status = "failed" /\ ~Last(dispatcher[g].row)
  /\ timers' \subseteq timers /\ retries' \subseteq retries

LEMMA NumbersStay ==
  ASSUME TypeOK, RowsAreNumbered, RowsStay
  PROVE  RowsAreNumbered'
<1>1. ASSUME NEW c \in Chains
      PROVE  /\ Len(deliveries'[c]) <= AttemptLimit(c.endpoint)
             /\ \A k \in 1..Len(deliveries'[c]) : deliveries'[c][k].attempt = k
  <2>1. Len(deliveries'[c]) = Len(deliveries[c])
    BY DEF RowsStay
  <2>2. Len(deliveries'[c]) <= AttemptLimit(c.endpoint)
    BY <2>1 DEF RowsAreNumbered
  <2>3. ASSUME NEW k \in 1..Len(deliveries[c]) PROVE deliveries'[c][k].attempt = k
    <3> DEFINE r == [chain |-> c, n |-> k]
    <3>1. r \in Rows
      BY InRows DEF TypeOK
    <3>2. Row(r)'.attempt = Row(r).attempt
      BY <3>1 DEF RowsStay
    <3>3. Row(r) = deliveries[c][k] /\ Row(r)' = deliveries'[c][k]
      BY DEF Row
    <3>4. QED
      BY <3>2, <3>3 DEF RowsAreNumbered
  <2>4. QED
    BY <2>1, <2>2, <2>3
<1>2. QED
  BY <1>1 DEF RowsAreNumbered

\* What a step may do to the status of a row that is still held.
Undecided(i) == Row(i)'.status = Row(i).status \/ Row(i)'.status = "failed"

\* Who is left decides on the same rows.
LEMMA HoldersStay ==
  ASSUME TypeOK, HoldersDecide, RowsStay, HoldersStayOrGo,
         \A i \in Rows : Held(i)' => Undecided(i)
  PROVE  HoldersDecide'
<1>1. ASSUME NEW h \in Hosts, dispatcher'[h].pc \in Holding, NEW i, i = dispatcher'[h].row
      PROVE  /\ i \in Rows' /\ i = Latest(i.chain)' /\ Open(i)' /\ i.n = 1
             /\ At(h, "schedule")' => Row(i)'.status = "failed" /\ ~Last(i)'
  <2>1. /\ dispatcher[h].pc \in Holding /\ dispatcher[h].row = i
        /\ At(h, "schedule")' => At(h, "schedule") \/ (Row(i)'.status = "failed" /\ ~Last(i))
    BY <1>1 DEF HoldersStayOrGo, At, Row
  <2>2. /\ i \in Rows /\ i = Latest(i.chain) /\ Open(i) /\ i.n = 1
        /\ At(h, "schedule") => Row(i).status = "failed" /\ ~Last(i)
    BY <1>1, <2>1 DEF HoldersDecide
  <2>3. Undecided(i) /\ Row(i)'.attempt = Row(i).attempt
    BY <1>1, <2>2 DEF Held, RowsStay
  <2>4. i.chain \in Chains
    BY <2>2, InRows DEF TypeOK
  <2>5. At(h, "schedule")' => Row(i)'.status = "failed" /\ ~Last(i)'
    BY <2>1, <2>2, <2>3 DEF Last, AttemptOf, Undecided
  <2>6. QED
    BY <2>2, <2>3, <2>4, <2>5 DEF RowsStay, Open, Undecided
<1>2. ASSUME NEW t \in timers'
      PROVE  t.row = Latest(t.row.chain)' /\ Open(t.row)'
  <2>1. t \in timers /\ t.row \in Rows
    BY DEF HoldersStayOrGo, TypeOK
  <2>2. Undecided(t.row)
    BY <2>1 DEF Held
  <2>3. t.row.chain \in Chains
    BY <2>1, InRows DEF TypeOK
  <2>4. QED
    BY <2>1, <2>2, <2>3 DEF HoldersDecide, RowsStay, Open, Undecided
<1>3. ASSUME NEW t \in retries'
      PROVE  /\ t.pc # "failed" => t.row = Latest(t.row.chain)'
             /\ t.row = Latest(t.row.chain)' => Open(t.row)'
             /\ t.pc = "schedule" => MayRetry(t.row)'
  <2>1. t \in retries /\ t.row \in Rows
    BY DEF HoldersStayOrGo, TypeOK
  <2>2. Undecided(t.row) /\ Row(t.row)'.attempt = Row(t.row).attempt
    BY <2>1 DEF Held, RowsStay
  <2>3. t.row.chain \in Chains
    BY <2>1, InRows DEF TypeOK
  <2>4. QED
    BY <2>1, <2>2, <2>3 DEF HoldersDecide, RowsStay, Open, Undecided, MayRetry, AttemptOf
<1>4. QED
  BY <1>1, <1>2, <1>3 DEF HoldersDecide

LEMMA HoldersStayAlone ==
  ASSUME HoldersAreAlone, HoldersStayOrGo
  PROVE  HoldersAreAlone'
BY DEF HoldersAreAlone, HoldersStayOrGo

\* Only one holder of a chain may still send.
LEMMA Senders ==
  ASSUME TypeOK, HoldersDecide, HoldersAreAlone
  PROVE  /\ \A h \in Hosts : dispatcher[h].pc \in Holding =>
              /\ \A g \in Hosts : dispatcher[g].pc \in Holding
                                  /\ dispatcher[g].row.chain = dispatcher[h].row.chain => g = h
              /\ \A t \in timers : t.row.chain # dispatcher[h].row.chain
              /\ \A t \in retries : t.pc # "failed" => t.row.chain # dispatcher[h].row.chain
         /\ \A u \in retries : u.pc # "failed" =>
              /\ \A h \in Hosts : dispatcher[h].pc \in Holding => dispatcher[h].row.chain # u.row.chain
              /\ \A t \in timers : t.row.chain # u.row.chain
              /\ \A t \in retries : t.pc # "failed" /\ t.row.chain = u.row.chain => t = u
         /\ \A u \in timers :
              /\ \A h \in Hosts : dispatcher[h].pc \in Holding => dispatcher[h].row.chain # u.row.chain
              /\ \A t \in retries : t.pc # "failed" => t.row.chain # u.row.chain
              /\ \A t \in timers : t.row.chain = u.row.chain => t = u
<1>1. /\ \A h \in Hosts : dispatcher[h].pc \in Holding =>
           dispatcher[h].row = Latest(dispatcher[h].row.chain)
      /\ \A t \in timers : t.row = Latest(t.row.chain)
      /\ \A t \in retries : t.pc # "failed" => t.row = Latest(t.row.chain)
  BY DEF HoldersDecide
<1>2. QED
  BY <1>1 DEF HoldersAreAlone

\* What holds of the rows, as long as holders only go.
LEMMA HoldersGo ==
  ASSUME TypeOK, RowsAreNumbered, HoldersDecide, HoldersAreAlone, RowsStay, HoldersStayOrGo,
         \A i \in Rows : Held(i)' => Undecided(i)
  PROVE  /\ RowsAreNumbered' /\ HoldersDecide' /\ HoldersAreAlone'
         /\ \A j, e : Live(j, e)' \subseteq Live(j, e)
<1>1. RowsAreNumbered' /\ HoldersDecide' /\ HoldersAreAlone'
  BY NumbersStay, HoldersStay, HoldersStayAlone
<1>2. \A c : Sending(c)' => Sending(c)
  BY DEF Sending, HoldersStayOrGo, Holding
<1>3. QED
  BY <1>1, <1>2 DEF Live

LEMMA DeletedStay ==
  ASSUME DeletedAreEmpty, RowsStay, UNCHANGED endpoints
  PROVE  DeletedAreEmpty'
BY DEF DeletedAreEmpty, RowsStay

LEMMA HeldRows == \A i : HoldersOf(i) # {} <=> Held(i)
BY DEF HoldersOf, Held

LEMMA HeldRowsNext == \A i : HoldersOf(i)' # {} <=> Held(i)'
BY DEF HoldersOf, Held

\* A row is forgotten in no other way than by a holder that goes.
LEMMA NoneForgotten ==
  ASSUME NothingForgotten, RowsStay, faults' = 0 => faults = 0,
         \A i \in Rows : Row(i)'.status = "pending" => Row(i).status = "pending",
         \A i \in Rows : /\ faults' = 0 /\ Held(i)
                         /\ Row(i)'.status = "pending" /\ ~Row(i)'.deleted
                         => Held(i)'
  PROVE  NothingForgotten'
<1>1. ASSUME faults' = 0, NEW i \in Rows', Row(i)'.status = "pending", ~Row(i)'.deleted
      PROVE  HoldersOf(i)' # {}
  <2>1. i \in Rows /\ Row(i).status = "pending" /\ ~Row(i).deleted /\ faults = 0
    BY <1>1 DEF RowsStay
  <2>2. Held(i)
    BY <2>1, HeldRows DEF NothingForgotten
  <2>3. QED
    BY <1>1, <2>1, <2>2, HeldRowsNext
<1>2. QED
  BY <1>1 DEF NothingForgotten

\* Whether the job of a host has chains to begin and breaks to come.
LEMMA OwnJob ==
  ASSUME RunsAreActive, NEW h \in Hosts, ~At(h, "idle"), NEW j, j = dispatcher[h].job
  PROVE  /\ \A e : Due(j, e) <=>
              At(h, "endpoints") \/ e \in dispatcher[h].left \/ ~dispatcher[h].ok
         /\ \A e : StillToCome(j, e) <=> At(h, "endpoints") \/ e \in dispatcher[h].left
         /\ HasDeletedRow(j) <=> dispatcher[h].pc \in Holding /\ Row(dispatcher[h].row).deleted
         /\ MissesEndpoint(j) <=> \E e \in dispatcher[h].left : ~Exists(e)
<1>1. /\ j \in Job /\ jobs[j].state = "active" /\ ~Settled(jobs[j]) /\ Runs(h, j)
      /\ \A g \in Hosts : Runs(g, j) => g = h
  BY RunsAlone
<1>2. QED
  BY <1>1 DEF Due, StillToCome, HasDeletedRow, MissesEndpoint

LEMMA OwnJobNext ==
  ASSUME RunsAreActive, UnsettledHaveAttempts, NEW h \in Hosts, StepsOn(h),
         NEW j, j = dispatcher[h].job
  PROVE  /\ \A e : Due(j, e)' <=>
              At(h, "endpoints")' \/ e \in dispatcher'[h].left \/ ~dispatcher'[h].ok
         /\ \A e : StillToCome(j, e)' <=> At(h, "endpoints")' \/ e \in dispatcher'[h].left
         /\ HasDeletedRow(j)' <=> dispatcher'[h].pc \in Holding /\ Row(dispatcher[h].row)'.deleted
         /\ MissesEndpoint(j)' <=> \E e \in dispatcher'[h].left : ~Exists(e)'
<1>1. /\ j \in Job /\ jobs[j].state = "active" /\ ~Settled(jobs[j]) /\ Runs(h, j)
      /\ \A g \in Hosts : Runs(g, j) => g = h
  BY RunsAlone DEF StepsOn
<1>2. \A g \in Hosts : Runs(g, j)' <=> Runs(g, j)
  BY <1>1, StepsOnRuns
<1>3. ~Settled(jobs[j])' /\ jobs'[j].state = "active"
  BY <1>1 DEF StepsOn
<1>4. Runs(h, j)' /\ \A g \in Hosts : Runs(g, j)' => g = h
  BY <1>1, <1>2
<1>5. \A e : Due(j, e)' <=>
        At(h, "endpoints")' \/ e \in dispatcher'[h].left \/ ~dispatcher'[h].ok
  BY <1>3, <1>4 DEF Due
<1>6. \A e : StillToCome(j, e)' <=> At(h, "endpoints")' \/ e \in dispatcher'[h].left
  BY <1>4 DEF StillToCome
<1>7. HasDeletedRow(j)' <=> dispatcher'[h].pc \in Holding /\ Row(dispatcher[h].row)'.deleted
  BY <1>4 DEF HasDeletedRow
<1>8. MissesEndpoint(j)' <=> \E e \in dispatcher'[h].left : ~Exists(e)'
  BY <1>4 DEF MissesEndpoint
<1>9. QED
  BY <1>5, <1>6, <1>7, <1>8

\* The jobs of the other hosts are not concerned.
LEMMA OtherJobs ==
  ASSUME RunsAreActive, UnsettledHaveAttempts, HoldersDecide, NEW h \in Hosts, StepsOn(h),
         UNCHANGED endpoints, \A r \in Rows : Row(r)'.deleted = Row(r).deleted,
         NEW j \in Job, j # dispatcher[h].job
  PROVE  /\ \A e : Due(j, e)' <=> Due(j, e)
         /\ \A e : StillToCome(j, e)' <=> StillToCome(j, e)
         /\ HasDeletedRow(j)' => HasDeletedRow(j)
         /\ MissesEndpoint(j)' <=> MissesEndpoint(j)
<1>1. \A g \in Hosts : /\ Runs(g, j)' <=> Runs(g, j)
                       /\ Runs(g, j) => dispatcher'[g] = dispatcher[g]
  BY StepsOnRuns DEF StepsOn, OthersStay, Runs
<1>2. UNCHANGED jobs
  BY DEF StepsOn
<1>3. \A e : Due(j, e)' <=> Due(j, e)
  BY <1>1, <1>2 DEF Due, At
<1>4. \A e : StillToCome(j, e)' <=> StillToCome(j, e)
  BY <1>1 DEF StillToCome, At
<1>5. HasDeletedRow(j)' => HasDeletedRow(j)
  BY <1>1 DEF HasDeletedRow, HoldersDecide
<1>6. MissesEndpoint(j)' <=> MissesEndpoint(j)
  BY <1>1 DEF MissesEndpoint, Exists
<1>7. QED
  BY <1>3, <1>4, <1>5, <1>6

-----------------------------------------------------------------------------
(* Steps after which the same or fewer holders are left.                   *)

LEMMA RowTypes ==
  ASSUME TypeOK, RowsStay, timers' \subseteq timers, retries' \subseteq retries
  PROVE  /\ deliveries' \in [Chains -> Seq(Delivery)]
         /\ \A i \in Rows' : AttemptOf(i)' \in 1..LimitOf(i)
         /\ timers' \subseteq [row : Rows', host : Hosts]
         /\ retries' \subseteq [row : Rows', host : Hosts,
                                pc : {"send", "delivered", "schedule", "failed"}]
BY DEF TypeOK, RowsStay, AttemptOf

LEMMA LiveCount ==
  \A j, e : Cardinality(Live(j, e)) \in Nat /\ Cardinality(Live(j, e)') \in Nat
            /\ (Live(j, e)' \subseteq Live(j, e) => Cardinality(Live(j, e)') <= Cardinality(Live(j, e)))
<1>1. TAKE j, e
<1>2. Live(j, e) \in SUBSET ChainsOf(j, e) /\ Live(j, e)' \in SUBSET ChainsOf(j, e)
  BY DEF Live, ChainsOf
<1>3. QED
  BY <1>2, FewChains

LEMMA Bounded ==
  ASSUME TypeOK, Budget, NEW j \in Job, NEW e \in Endpoints
  PROVE  /\ received[<<j, e>>] \in Nat /\ faults \in Nat /\ removals \in Nat
         /\ received[<<j, e>>] + Cardinality(Live(j, e)) + One(Due(j, e)) + Breaks(j)
              <= 1 + faults + 2 * removals
BY DEF TypeOK, Budget

\* Nothing is sent, and nothing more will be.
LEMMA BudgetStays ==
  ASSUME TypeOK, Budget, faults' \in Nat, faults' >= faults,
         received' = received, removals' = removals, removing' = removing,
         NEW j \in Job, NEW e \in Endpoints,
         Live(j, e)' \subseteq Live(j, e), Due(j, e)' => Due(j, e),
         HasDeletedRow(j)' => HasDeletedRow(j), MissesEndpoint(j)' => MissesEndpoint(j)
  PROVE  received'[<<j, e>>] + Cardinality(Live(j, e)') + One(Due(j, e)') + Breaks(j)'
           <= 1 + faults' + 2 * removals'
<1>1. Cardinality(Live(j, e)') <= Cardinality(Live(j, e))
      /\ Cardinality(Live(j, e)) \in Nat /\ Cardinality(Live(j, e)') \in Nat
  BY LiveCount
<1>2. One(Due(j, e)') <= One(Due(j, e)) /\ One(Due(j, e)') \in 0..1 /\ One(Due(j, e)) \in 0..1
  BY DEF One
<1>3. Breaks(j)' <= Breaks(j) /\ Breaks(j)' \in 0..3 /\ Breaks(j) \in 0..3
  BY DEF Breaks, One
<1>4. /\ received[<<j, e>>] \in Nat /\ faults \in Nat /\ removals \in Nat
      /\ received[<<j, e>>] + Cardinality(Live(j, e)) + One(Due(j, e)) + Breaks(j)
           <= 1 + faults + 2 * removals
  BY DEF TypeOK, Budget
<1>5. QED
  BY <1>1, <1>2, <1>3, <1>4

\* Something throws in a run: a call that failed, a row that has been deleted or
\* an endpoint that is gone.
LEMMA ThrowsInv ==
  ASSUME IInv, NEW h \in Hosts, ~At(h, "idle"), Throws(h),
         UNCHANGED <<jobs, admin, deliveries, memory, received>>,
         \/ /\ faults' = faults
            /\ \/ dispatcher[h].pc \in Holding /\ Row(dispatcher[h].row).deleted
               \/ dispatcher[h].pc \notin Holding /\ \E e \in dispatcher[h].left : ~Exists(e)
         \/ CanUpset /\ faults' = faults + 1
  PROVE  IInv'
<1> USE DEF IInv
<1>1. /\ dispatcher' \in [Hosts -> Run] /\ OthersStay(h)
      /\ dispatcher'[h].pc = "settle" /\ dispatcher'[h].job = dispatcher[h].job
      /\ dispatcher'[h].left = {}
      /\ dispatcher'[h].ok = FALSE
  BY Moved DEF TypeOK
<1>2. UNCHANGED <<endpoints, deliveries, timers, retries, removing, removals, received, jobs>>
  BY DEF admin, memory
<1>0. /\ faults' \in Nat /\ faults' >= faults /\ (faults' = 0 => faults = 0)
      /\ faults' + removals <= MaxUpsets
  <2>1. CASE CanUpset /\ faults' = faults + 1
    BY <2>1, Upsets DEF TypeOK
  <2>2. CASE faults' = faults
    BY <2>2 DEF TypeOK
  <2>3. QED
    BY <2>1, <2>2
<1>3. RowsStay /\ \A i : Row(i)' = Row(i)
  BY <1>2, StayingRows, SameRows DEF TypeOK
<1>4. TypeOK'
  BY <1>0, <1>1, <1>2, <1>3, RowTypes DEF TypeOK
<1>5. StepsOn(h)
  BY <1>1, <1>2 DEF StepsOn, At
<1>6. RunsAreActive' /\ UnsettledHaveAttempts'
  BY <1>5, StepsOnRuns
<1>7. HoldersStayOrGo
  BY <1>1, <1>2 DEF HoldersStayOrGo, OthersStay, Holding
<1>8. /\ RowsAreNumbered' /\ HoldersDecide' /\ HoldersAreAlone'
      /\ \A j, e : Live(j, e)' \subseteq Live(j, e)
  BY <1>3, <1>7, HoldersGo DEF Undecided
<1>9. DeletedAreEmpty'
  BY <1>2, <1>3, DeletedStay
<1>j. PICK j0 : j0 = dispatcher[h].job
  OBVIOUS
<1>10. /\ \A e : ~StillToCome(j0, e)'
       /\ ~HasDeletedRow(j0)' /\ ~MissesEndpoint(j0)'
       /\ \A j \in Job, e \in Endpoints : j # j0 =>
            /\ Due(j, e)' <=> Due(j, e)
            /\ StillToCome(j, e)' <=> StillToCome(j, e)
            /\ HasDeletedRow(j)' => HasDeletedRow(j)
            /\ MissesEndpoint(j)' <=> MissesEndpoint(j)
  <2>1. ~HasDeletedRow(j0)' /\ ~MissesEndpoint(j0)' /\ \A e : ~StillToCome(j0, e)'
    BY <1>1, <1>5, <1>j, OwnJobNext DEF At, Holding
  <2>2. QED
    BY <1>2, <1>3, <1>5, <1>j, <2>1, OtherJobs
<1>11. ChainsAreCounted'
  <2>1. \A j \in Job, e \in Endpoints : StillToCome(j, e)' => StillToCome(j, e)
    BY <1>10
  <2>2. QED
    BY <1>2, <1>3, <2>1, CountsStay, NoChainBegins DEF TypeOK
<1>12. NothingForgotten'
  <2>1. ASSUME NEW i \in Rows, faults' = 0, Held(i), Row(i)'.status = "pending", ~Row(i)'.deleted
        PROVE  Held(i)'
    <3>1. ~(dispatcher[h].pc \in Holding /\ dispatcher[h].row = i)
      BY <1>3, <2>1, Upsets
    <3>2. QED
      BY <1>1, <1>2, <2>1, <3>1 DEF Held, OthersStay
  <2>2. QED
    BY <1>0, <1>2, <1>3, <2>1, NoneForgotten
<1>13. Budget'
  <2>1. ASSUME NEW j \in Job, NEW e \in Endpoints
        PROVE  received'[<<j, e>>] + Cardinality(Live(j, e)') + One(Due(j, e)') + Breaks(j)'
                 <= 1 + faults' + 2 * removals'
    <3>1. CASE j # j0
      BY <1>0, <1>2, <1>8, <1>10, <3>1, BudgetStays
    <3>2. CASE j = j0
      <4>1. Cardinality(Live(j, e)') <= Cardinality(Live(j, e))
            /\ Cardinality(Live(j, e)) \in Nat /\ Cardinality(Live(j, e)') \in Nat
        BY <1>8, LiveCount
      <4>2. One(Due(j, e)') \in 0..1 /\ One(Due(j, e)) \in 0..1
        BY DEF One
      <4>3. Breaks(j)' = One(removing # None) /\ One(removing # None) \in 0..1
        BY <1>2, <1>10, <3>2 DEF Breaks, One
      <4>4. Breaks(j) \in 0..3 /\ Breaks(j) >= One(removing # None)
        BY DEF Breaks, One
      <4>5. CASE faults' = faults + 1
        BY <1>0, <1>2, <4>1, <4>2, <4>3, <4>4, <4>5 DEF TypeOK, Budget
      <4>6. CASE faults' = faults
        <5>1. HasDeletedRow(j) \/ MissesEndpoint(j)
          BY <1>j, <3>2, <4>6, OwnJob DEF TypeOK
        <5>2. Breaks(j) >= One(removing # None) + 1
          BY <5>1 DEF Breaks, One
        <5>3. QED
          BY <1>0, <1>2, <4>1, <4>2, <4>3, <4>4, <4>6, <5>2 DEF TypeOK, Budget
      <4>7. QED
        BY <4>5, <4>6
    <3>3. QED
      BY <3>1, <3>2
  <2>2. QED
    BY <2>1 DEF Budget
<1>14. QED
  BY <1>4, <1>6, <1>8, <1>9, <1>11, <1>12, <1>13

\* The first attempt of a chain gets its outcome, or is going to be repeated.
LEMMA MarkInv ==
  ASSUME IInv, NEW h \in Hosts, NEW i, i = dispatcher[h].row,
         dispatcher[h].pc \in {"delivered", "failed"},
         NEW s \in {"delivered", "failed", "dead"}, deliveries' = Marked(i, s),
         \/ s # "failed" /\ Finished(h)
         \/ s = "failed" /\ At(h, "failed") /\ ~Last(i) /\ Goto(h, "schedule"),
         UNCHANGED <<jobs, admin, memory, received, faults>>
  PROVE  IInv'
<1> USE DEF IInv
<1>1. dispatcher[h].pc \in Holding /\ i \in Rows /\ ~At(h, "idle") /\ ~At(h, "settle") /\ ~At(h, "endpoints")
  BY DEF HoldersDecide, Holding, At
<1>2. /\ dispatcher' \in [Hosts -> Run] /\ OthersStay(h)
      /\ dispatcher'[h].job = dispatcher[h].job /\ dispatcher'[h].left = dispatcher[h].left
      /\ dispatcher'[h].ok = dispatcher[h].ok
      /\ \/ s # "failed" /\ dispatcher'[h].pc = "create"
         \/ /\ s = "failed" /\ dispatcher[h].pc = "failed" /\ ~Last(i)
            /\ dispatcher'[h].pc = "schedule" /\ dispatcher'[h].row = i
  BY Moved DEF TypeOK, At, PCs, Holding
<1>3. UNCHANGED <<endpoints, timers, retries, removing, removals, received, jobs, faults>>
  BY DEF admin, memory
<1>4. RowsStay
  BY <1>1, StayingRows DEF TypeOK
<1>5. \A r \in Rows : /\ Row(r)'.deleted = Row(r).deleted
                      /\ Row(r)'.status = IF r = i THEN s ELSE Row(r).status
  BY <1>1, MarkedStep DEF TypeOK
<1>6. TypeOK'
  BY <1>2, <1>3, <1>4, RowTypes DEF TypeOK
<1>7. StepsOn(h)
  BY <1>1, <1>2, <1>3 DEF StepsOn, At, RunsAreActive
<1>8. RunsAreActive' /\ UnsettledHaveAttempts'
  BY <1>7, StepsOnRuns
<1>9. HoldersStayOrGo
  <2>1. ASSUME s = "failed"
        PROVE  Row(dispatcher[h].row)'.status = "failed"
    <3>1. dispatcher'[h].row = i /\ Row(i)'.status = "failed"
      BY <1>1, <1>2, <1>5, <2>1
    <3>2. QED
      BY <3>1 DEF Row
  <2>2. QED
    BY <1>1, <1>2, <1>3, <2>1 DEF HoldersStayOrGo, OthersStay, Holding
<1>10. \A r \in Rows : Held(r)' => Undecided(r)
  <2>1. CASE s = "failed"
    BY <1>5, <2>1 DEF Undecided
  <2>2. CASE s # "failed"
    <3>1. ~Held(i)'
      BY <1>1, <1>2, <1>3, <2>2 DEF Held, HoldersAreAlone, OthersStay, Holding
    <3>2. QED
      BY <1>5, <3>1 DEF Undecided
  <2>3. QED
    BY <2>1, <2>2
<1>11. /\ RowsAreNumbered' /\ HoldersDecide' /\ HoldersAreAlone'
       /\ \A j, e : Live(j, e)' \subseteq Live(j, e)
  BY <1>4, <1>9, <1>10, HoldersGo
<1>12. DeletedAreEmpty'
  BY <1>3, <1>4, DeletedStay
<1>j. PICK j0 : j0 = dispatcher[h].job
  OBVIOUS
<1>13. \A j \in Job, e \in Endpoints :
         /\ Due(j, e)' => Due(j, e)
         /\ StillToCome(j, e)' => StillToCome(j, e)
         /\ HasDeletedRow(j)' => HasDeletedRow(j)
         /\ MissesEndpoint(j)' => MissesEndpoint(j)
  <2>1. ASSUME NEW e
        PROVE  /\ Due(j0, e)' => Due(j0, e)
               /\ StillToCome(j0, e)' => StillToCome(j0, e)
    BY <1>1, <1>2, <1>7, <1>j, OwnJob, OwnJobNext DEF At
  <2>2. MissesEndpoint(j0)' => MissesEndpoint(j0)
    BY <1>1, <1>2, <1>3, <1>7, <1>j, OwnJob, OwnJobNext DEF Exists
  <2>3. HasDeletedRow(j0)' => HasDeletedRow(j0)
    <3>1. ASSUME HasDeletedRow(j0)' PROVE Row(i).deleted
      <4>1. dispatcher'[h].pc \in Holding /\ Row(dispatcher[h].row)'.deleted
        BY <1>7, <1>j, <3>1, OwnJobNext
      <4>2. dispatcher'[h].row = i
        BY <1>2, <4>1 DEF Holding
      <4>3. Row(i)'.deleted
        BY <4>1, <4>2 DEF Row
      <4>4. QED
        BY <1>1, <1>5, <4>3
    <3>2. QED
      BY <1>1, <1>j, <3>1, OwnJob
  <2>4. QED
    BY <1>3, <1>5, <1>7, <1>j, <2>1, <2>2, <2>3, OtherJobs
<1>14. ChainsAreCounted'
  BY <1>3, <1>4, <1>13, CountsStay, NoChainBegins DEF TypeOK
<1>15. NothingForgotten'
  <2>1. ASSUME NEW r \in Rows, Held(r), Row(r)'.status = "pending"
        PROVE  Held(r)'
    <3>1. r # i
      BY <1>5, <2>1
    <3>2. QED
      BY <1>2, <1>3, <2>1, <3>1 DEF Held, OthersStay
  <2>2. QED
    BY <1>3, <1>4, <1>5, <2>1, NoneForgotten
<1>16. Budget'
  <2>1. ASSUME NEW j \in Job, NEW e \in Endpoints
        PROVE  received'[<<j, e>>] + Cardinality(Live(j, e)') + One(Due(j, e)') + Breaks(j)'
                 <= 1 + faults' + 2 * removals'
    <3>1. faults \in Nat
      BY DEF TypeOK
    <3>2. QED
      BY <1>3, <1>11, <1>13, <3>1, BudgetStays
  <2>2. QED
    BY <2>1 DEF Budget
<1>17. QED
  BY <1>6, <1>8, <1>11, <1>12, <1>14, <1>15, <1>16

\* The first attempt is sent.  Whoever says that it was taken sends no more.
LEMMA SendFirstInv ==
  ASSUME IInv, NEW h \in Hosts, SendFirst(h)
  PROVE  IInv'
<1> USE DEF IInv
<1>1. PICK ok \in BOOLEAN : /\ Post(dispatcher[h].row.chain, ok)
                            /\ Goto(h, IF ok THEN "delivered" ELSE "failed")
  BY DEF SendFirst
<1>i. PICK i : i = dispatcher[h].row
  OBVIOUS
<1>2. /\ dispatcher[h].pc = "send" /\ dispatcher[h].pc \in Holding
      /\ ~At(h, "idle") /\ ~At(h, "settle") /\ ~At(h, "endpoints")
      /\ i \in Rows /\ i.chain \in Chains
  BY <1>i, InRows DEF HoldersDecide, SendFirst, Holding, At, TypeOK
<1>3. /\ dispatcher' \in [Hosts -> Run] /\ OthersStay(h)
      /\ dispatcher'[h].job = dispatcher[h].job /\ dispatcher'[h].left = dispatcher[h].left
      /\ dispatcher'[h].ok = dispatcher[h].ok /\ dispatcher'[h].row = i
      /\ dispatcher'[h].pc = IF ok THEN "delivered" ELSE "failed"
  BY <1>1, <1>i, Moved DEF TypeOK, PCs, Holding
<1>4. UNCHANGED <<deliveries, endpoints, timers, retries, removing, removals, jobs>>
  BY DEF SendFirst, admin, memory
<1>5. /\ received' \in [Job \X Endpoints -> Nat]
      /\ removals' \in Nat /\ faults' \in Nat /\ faults' + removals' <= MaxUpsets
      /\ faults' = 0 => faults = 0
      /\ faults' >= faults
      /\ \A j \in Job, e \in Endpoints :
           /\ j # i.chain.job \/ e # i.chain.endpoint => received'[<<j, e>>] = received[<<j, e>>]
           /\ received'[<<j, e>>] <= received[<<j, e>>] + (faults' - faults) + (IF ok THEN 1 ELSE 0)
  BY <1>1, <1>2, <1>4, <1>i, Posted
<1>6. RowsStay /\ \A r : Row(r)' = Row(r)
  BY <1>4, StayingRows, SameRows DEF TypeOK
<1>7. TypeOK'
  BY <1>3, <1>4, <1>5, <1>6, RowTypes DEF TypeOK
<1>8. StepsOn(h)
  BY <1>2, <1>3, <1>4 DEF StepsOn, At, RunsAreActive
<1>9. RunsAreActive' /\ UnsettledHaveAttempts'
  BY <1>8, StepsOnRuns
<1>10. HoldersStayOrGo
  BY <1>2, <1>3, <1>4, <1>i DEF HoldersStayOrGo, OthersStay, Holding
<1>11. /\ RowsAreNumbered' /\ HoldersDecide' /\ HoldersAreAlone'
       /\ \A j, e : Live(j, e)' \subseteq Live(j, e)
  BY <1>6, <1>10, HoldersGo DEF Undecided
<1>12. DeletedAreEmpty'
  BY <1>4, <1>6, DeletedStay
<1>j. PICK j0 : j0 = dispatcher[h].job
  OBVIOUS
<1>13. \A j \in Job, e \in Endpoints :
         /\ Due(j, e)' => Due(j, e)
         /\ StillToCome(j, e)' => StillToCome(j, e)
         /\ HasDeletedRow(j)' => HasDeletedRow(j)
         /\ MissesEndpoint(j)' => MissesEndpoint(j)
  <2>1. ASSUME NEW e
        PROVE  /\ Due(j0, e)' => Due(j0, e)
               /\ StillToCome(j0, e)' => StillToCome(j0, e)
    BY <1>2, <1>3, <1>8, <1>j, OwnJob, OwnJobNext DEF At
  <2>2. MissesEndpoint(j0)' => MissesEndpoint(j0)
    BY <1>2, <1>3, <1>4, <1>8, <1>j, OwnJob, OwnJobNext DEF Exists
  <2>3. HasDeletedRow(j0)' => HasDeletedRow(j0)
    <3>1. ASSUME HasDeletedRow(j0)' PROVE Row(i).deleted
      <4>1. Row(dispatcher[h].row)'.deleted
        BY <1>8, <1>j, <3>1, OwnJobNext
      <4>2. Row(i)'.deleted
        BY <1>3, <4>1 DEF Row
      <4>3. QED
        BY <1>6, <4>2
    <3>2. QED
      BY <1>2, <1>i, <1>j, <3>1, OwnJob
  <2>4. QED
    BY <1>4, <1>6, <1>8, <1>j, <2>1, <2>2, <2>3, OtherJobs
<1>14. ChainsAreCounted'
  BY <1>4, <1>6, <1>13, CountsStay, NoChainBegins DEF TypeOK
<1>15. NothingForgotten'
  <2>1. ASSUME NEW r \in Rows, Held(r) PROVE Held(r)'
    BY <1>2, <1>3, <1>4, <1>i, <2>1 DEF Held, OthersStay, Holding
  <2>2. QED
    BY <1>5, <1>6, <2>1, NoneForgotten
<1>16. Budget'
  <2>1. ASSUME NEW j \in Job, NEW e \in Endpoints
        PROVE  received'[<<j, e>>] + Cardinality(Live(j, e)') + One(Due(j, e)') + Breaks(j)'
                 <= 1 + faults' + 2 * removals'
    <3>1. One(Due(j, e)') <= One(Due(j, e)) /\ One(Due(j, e)') \in 0..1 /\ One(Due(j, e)) \in 0..1
      BY <1>13 DEF One
    <3>2. Breaks(j)' <= Breaks(j) /\ Breaks(j)' \in 0..3 /\ Breaks(j) \in 0..3
      BY <1>4, <1>13 DEF Breaks, One
    <3>3. /\ Cardinality(Live(j, e)') <= Cardinality(Live(j, e))
          /\ Cardinality(Live(j, e)) \in Nat /\ Cardinality(Live(j, e)') \in Nat
      BY <1>11, LiveCount
    <3>4. CASE ok /\ j = i.chain.job /\ e = i.chain.endpoint
      <4>1. i.chain \in Live(j, e)
        BY <1>2, <1>i, <3>4 DEF Live, Sending
      <4>2. ~Sending(i.chain)'
        <5>1. /\ \A g \in Hosts : dispatcher[g].pc \in Holding /\ dispatcher[g].row.chain = i.chain => g = h
              /\ \A t \in timers : t.row.chain # i.chain
              /\ \A t \in retries : t.pc # "failed" => t.row.chain # i.chain
          BY <1>2, <1>i, Senders
        <5>2. QED
          BY <1>3, <1>4, <3>4, <5>1 DEF Sending, OthersStay, Holding
      <4>3. Live(j, e)' \subseteq Live(j, e) \ {i.chain}
        BY <1>11, <4>2 DEF Live
      <4>4. Live(j, e) \in SUBSET ChainsOf(j, e) /\ Live(j, e)' \in SUBSET ChainsOf(j, e)
        BY DEF Live, ChainsOf
      <4>5. Cardinality(Live(j, e)') + 1 <= Cardinality(Live(j, e))
        BY <4>1, <4>3, <4>4, FewChains
      <4>6. QED
        BY <1>4, <1>5, <3>1, <3>2, <3>3, <3>4, <4>5, Bounded
    <3>5. CASE ~(ok /\ j = i.chain.job /\ e = i.chain.endpoint)
      <4>1. received'[<<j, e>>] <= received[<<j, e>>] + (faults' - faults)
        <5>1. received'[<<j, e>>] \in Nat /\ received[<<j, e>>] \in Nat /\ faults \in Nat
          BY <1>7 DEF TypeOK
        <5>2. CASE j # i.chain.job \/ e # i.chain.endpoint
          BY <1>5, <5>1, <5>2
        <5>3. CASE ~ok
          BY <1>5, <5>1, <5>3
        <5>4. QED
          BY <3>5, <5>2, <5>3
      <4>2. QED
        BY <1>4, <1>5, <3>1, <3>2, <3>3, <4>1, Bounded
    <3>6. QED
      BY <3>4, <3>5
  <2>2. QED
    BY <2>1 DEF Budget
<1>17. QED
  BY <1>7, <1>9, <1>11, <1>12, <1>14, <1>15, <1>16

-----------------------------------------------------------------------------
(* Steps that create a row.                                                *)

LEMMA CreatedKept ==
  ASSUME TypeOK, RowsAreNumbered, DeletedAreEmpty, NEW c0 \in Chains,
         NEW a, a = Len(deliveries[c0]) + 1, a <= AttemptLimit(c0.endpoint),
         Exists(c0.endpoint), deliveries' = Created(c0, a), UNCHANGED endpoints
  PROVE  /\ deliveries' \in [Chains -> Seq(Delivery)]
         /\ RowsAreNumbered' /\ DeletedAreEmpty'
         /\ \A i \in Rows' : AttemptOf(i)' \in 1..LimitOf(i)
         /\ \A r \in Rows : r \in Rows' /\ Row(r)' = Row(r)
         /\ NewRow(c0) \in Rows' /\ NewRow(c0) \notin Rows /\ NewRow(c0).chain = c0 /\ NewRow(c0).n = a
         /\ Latest(c0)' = NewRow(c0) /\ \A c \in Chains \ {c0} : Latest(c)' = Latest(c)
         /\ \A i \in Rows' : i \in Rows \/ i = NewRow(c0)
         /\ \A i : i = NewRow(c0) =>
              Row(i)'.attempt = a /\ Row(i)'.status = "pending" /\ ~Row(i)'.deleted
<1>1. c0.endpoint \in Endpoints /\ Len(deliveries[c0]) \in Nat /\ a \in Nat
  BY DEF Chains, TypeOK
<1>2. /\ deliveries' \in [Chains -> Seq(Delivery)]
      /\ Len(deliveries'[c0]) = Len(deliveries[c0]) + 1
      /\ \A c \in Chains \ {c0} : deliveries'[c] = deliveries[c] /\ Latest(c)' = Latest(c)
      /\ NewRow(c0) \notin Rows
      /\ Rows' = Rows \cup {NewRow(c0)}
      /\ Latest(c0)' = NewRow(c0)
      /\ NewRow(c0).chain = c0 /\ NewRow(c0).n = Len(deliveries[c0]) + 1
      /\ \A r \in Rows : Row(r)' = Row(r)
      /\ deliveries'[c0][Len(deliveries[c0]) + 1] = [attempt |-> a, status |-> "pending", deleted |-> FALSE]
  BY <1>1, CreatedStep DEF TypeOK
<1>3. \A i : i = NewRow(c0) =>
        Row(i)'.attempt = a /\ Row(i)'.status = "pending" /\ ~Row(i)'.deleted
  BY <1>2 DEF Row
<1>4. ASSUME NEW i \in Rows' PROVE AttemptOf(i)' \in 1..LimitOf(i)
  <2>1. CASE i \in Rows
    BY <1>2, <2>1 DEF AttemptOf, TypeOK
  <2>2. CASE i = NewRow(c0)
    BY <1>1, <1>2, <1>3, <2>2, LimitsArePositive DEF AttemptOf, LimitOf
  <2>3. QED
    BY <1>2, <2>1, <2>2
<1>5. RowsAreNumbered'
  <2>1. ASSUME NEW c \in Chains
        PROVE  /\ Len(deliveries'[c]) <= AttemptLimit(c.endpoint)
               /\ \A k \in 1..Len(deliveries'[c]) : deliveries'[c][k].attempt = k
    <3>1. CASE c # c0
      BY <1>2, <3>1 DEF RowsAreNumbered
    <3>2. CASE c = c0
      <4>1. \A k \in 1..Len(deliveries[c0]) : deliveries'[c0][k] = deliveries[c0][k]
        BY <1>1, CreatedRows DEF TypeOK
      <4>2. \A k \in 1..Len(deliveries[c0]) : deliveries'[c0][k].attempt = k
        BY <4>1 DEF RowsAreNumbered
      <4>3. deliveries'[c0][a].attempt = a
        BY <1>2
      <4>4. \A k \in 1..a : k \in 1..Len(deliveries[c0]) \/ k = a
        BY <1>1
      <4>5. QED
        BY <1>2, <3>2, <4>2, <4>3, <4>4
    <3>3. QED
      BY <3>1, <3>2
  <2>2. QED
    BY <2>1 DEF RowsAreNumbered
<1>6. DeletedAreEmpty'
  BY <1>2 DEF DeletedAreEmpty, Exists
<1>7. QED
  BY <1>2, <1>3, <1>4, <1>5, <1>6

\* Whoever holds a row of another chain is not concerned, and whoever holds a row
\* of this one has no more to decide.
LEMMA CreatedDecide ==
  ASSUME TypeOK, HoldersDecide, NEW c0 \in Chains,
         Latest(c0)' = NewRow(c0), \A c \in Chains \ {c0} : Latest(c)' = Latest(c),
         NewRow(c0) \notin Rows, NewRow(c0) \in Rows', NewRow(c0).chain = c0,
         \A r \in Rows : r \in Rows' /\ Row(r)' = Row(r),
         \A i : i = NewRow(c0) => Row(i)'.status = "pending",
         \A h \in Hosts : dispatcher'[h].pc \in Holding =>
           \/ dispatcher'[h] = dispatcher[h] /\ dispatcher[h].row.chain # c0
           \/ dispatcher'[h].pc = "send" /\ dispatcher'[h].row = NewRow(c0) /\ NewRow(c0).n = 1,
         \A t \in timers' : (t \in timers /\ t.row.chain # c0) \/ t.row = NewRow(c0),
         \A t \in retries' : \/ t \in retries /\ (t.pc = "failed" \/ t.row.chain # c0)
                             \/ t.pc = "failed" /\ t.row \in Rows /\ t.row.chain = c0
  PROVE  HoldersDecide'
<1>1. ASSUME NEW i \in Rows
      PROVE  /\ i \in Rows' /\ i.chain \in Chains
             /\ Row(i)'.status = Row(i).status
             /\ (Open(i)' <=> Open(i)) /\ (Last(i)' <=> Last(i)) /\ (MayRetry(i)' <=> MayRetry(i))
             /\ i.chain # c0 => Latest(i.chain)' = Latest(i.chain)
             /\ i.chain = c0 => i # Latest(i.chain)'
  <2>1. i \in Rows' /\ i.chain \in Chains /\ Row(i)' = Row(i)
    BY InRows DEF TypeOK
  <2>2. i.chain = c0 => i # Latest(i.chain)'
    <3>1. SUFFICES ASSUME i.chain = c0 PROVE i # Latest(c0)'
      OBVIOUS
    <3>2. QED
      OBVIOUS
  <2>3. QED
    BY <2>1, <2>2 DEF Open, Last, MayRetry, AttemptOf
<1>2. ASSUME NEW i, i = NewRow(c0)
      PROVE  i \in Rows' /\ i = Latest(i.chain)' /\ Open(i)'
  BY <1>2 DEF Open
<1>3. ASSUME NEW h \in Hosts, dispatcher'[h].pc \in Holding, NEW i, i = dispatcher'[h].row
      PROVE  /\ i \in Rows' /\ i = Latest(i.chain)' /\ Open(i)' /\ i.n = 1
             /\ At(h, "schedule")' => Row(i)'.status = "failed" /\ ~Last(i)'
  <2>1. CASE dispatcher'[h] = dispatcher[h] /\ dispatcher[h].row.chain # c0
    <3>1. /\ i \in Rows /\ i = Latest(i.chain) /\ Open(i) /\ i.n = 1 /\ i.chain # c0
          /\ At(h, "schedule")' => Row(i).status = "failed" /\ ~Last(i)
      BY <1>3, <2>1 DEF HoldersDecide, At
    <3>2. QED
      BY <1>1, <3>1
  <2>2. CASE dispatcher'[h].pc = "send" /\ dispatcher'[h].row = NewRow(c0) /\ NewRow(c0).n = 1
    BY <1>2, <1>3, <2>2 DEF At
  <2>3. QED
    BY <1>3, <2>1, <2>2
<1>4. ASSUME NEW t \in timers', NEW i, i = t.row
      PROVE  i = Latest(i.chain)' /\ Open(i)'
  <2>1. CASE t \in timers /\ t.row.chain # c0
    <3>1. i \in Rows /\ i = Latest(i.chain) /\ Open(i)
      BY <1>4, <2>1 DEF HoldersDecide, TypeOK
    <3>2. QED
      BY <1>1, <1>4, <2>1, <3>1
  <2>2. CASE t.row = NewRow(c0)
    BY <1>2, <1>4, <2>2
  <2>3. QED
    BY <2>1, <2>2
<1>5. ASSUME NEW t \in retries', NEW i, i = t.row
      PROVE  /\ t.pc # "failed" => i = Latest(i.chain)'
             /\ i = Latest(i.chain)' => Open(i)'
             /\ t.pc = "schedule" => MayRetry(i)'
  <2>1. CASE t \in retries /\ (t.pc = "failed" \/ t.row.chain # c0)
    <3>1. /\ i \in Rows /\ (t.pc # "failed" => i = Latest(i.chain))
          /\ i = Latest(i.chain) => Open(i)
          /\ t.pc = "schedule" => MayRetry(i)
      BY <1>5, <2>1 DEF HoldersDecide, TypeOK
    <3>2. QED
      BY <1>1, <1>5, <2>1, <3>1
  <2>2. CASE t.pc = "failed" /\ t.row \in Rows /\ t.row.chain = c0
    BY <1>1, <1>5, <2>2
  <2>3. QED
    BY <2>1, <2>2
<1>6. QED
  <2>1. \A h \in Hosts : dispatcher'[h].pc \in Holding =>
          \A i : i = dispatcher'[h].row =>
            /\ i \in Rows' /\ i = Latest(i.chain)' /\ Open(i)' /\ i.n = 1
            /\ At(h, "schedule")' => Row(i)'.status = "failed" /\ ~Last(i)'
    BY <1>3
  <2>2. \A t \in timers' : \A i : i = t.row => i = Latest(i.chain)' /\ Open(i)'
    BY <1>4
  <2>3. \A t \in retries' : \A i : i = t.row =>
             /\ t.pc # "failed" => i = Latest(i.chain)'
             /\ i = Latest(i.chain)' => Open(i)'
             /\ t.pc = "schedule" => MayRetry(i)'
    BY <1>5
  <2>4. QED
    BY <2>1, <2>2, <2>3 DEF HoldersDecide

\* A run has a chain of its own for each endpoint it has yet to come to.
LEMMA FreshChain ==
  ASSUME TypeOK, RunsAreActive, UnsettledHaveAttempts, ChainsAreCounted,
         NEW h \in Hosts, At(h, "create"), NEW e0 \in dispatcher[h].left,
         NEW j0, j0 = dispatcher[h].job, NEW c0, c0 = ChainOf(j0, e0, NewRun(j0, e0))
  PROVE  /\ j0 \in Job /\ e0 \in Endpoints /\ StillToCome(j0, e0) /\ Due(j0, e0)
         /\ NewRun(j0, e0) \in 1..MaxRuns /\ NewRun(j0, e0) <= Ended(j0) + 1
         /\ c0 \in Chains /\ c0.job = j0 /\ c0.endpoint = e0 /\ deliveries[c0] = <<>>
<1>1. /\ ~At(h, "idle") /\ e0 \in Endpoints /\ j0 \in Job
      /\ jobs[j0].state = "active" /\ ~Settled(jobs[j0])
  <2>1. dispatcher[h] \in Run
    BY DEF TypeOK
  <2>2. QED
    BY <2>1, RunsAlone DEF At, RunsAreActive, Run
<1>2. StillToCome(j0, e0) /\ Due(j0, e0)
  BY <1>1, OwnJob
<1>3. Cardinality(Begun(j0, e0)) \in Nat
  <2>1. Begun(j0, e0) \in SUBSET ChainsOf(j0, e0)
    BY DEF Begun, ChainsOf
  <2>2. QED
    BY <2>1, FewChains
<1>4. NewRun(j0, e0) \in Nat \ {0}
  BY <1>3 DEF NewRun, Begun
<1>5. NewRun(j0, e0) <= Ended(j0) + 1
  BY <1>1, <1>2 DEF ChainsAreCounted
<1>6. Ended(j0) + 1 <= MaxRuns /\ Ended(j0) \in Nat /\ MaxRuns \in Nat
  <2>1. jobs[j0] \in JobOf({0})
    BY <1>1 DEF TypeOK
  <2>2. jobs[j0].attempts < MaxAttempts
    BY <1>1 DEF UnsettledHaveAttempts
  <2>3. QED
    BY <2>1, <2>2, BullAssumption DEF JobOf, Ended, MaxRuns
<1>7. NewRun(j0, e0) \in 1..MaxRuns
  BY <1>4, <1>5, <1>6
<1>8. c0 \in Chains /\ c0.job = j0 /\ c0.endpoint = e0
  BY <1>1, <1>7 DEF ChainOf, Chains, MaxRuns
<1>9. deliveries[c0] = <<>>
  BY <1>1, <1>4, <1>7 DEF ChainsAreCounted
<1>10. QED
  BY <1>1, <1>2, <1>5, <1>7, <1>8, <1>9

\* The first attempt of a chain.
LEMMA CreateFirstInv ==
  ASSUME IInv, NEW h \in Hosts, At(h, "create"), NEW e0 \in dispatcher[h].left, Exists(e0),
         NEW j0, j0 = dispatcher[h].job, NEW c0, c0 = ChainOf(j0, e0, NewRun(j0, e0)),
         deliveries' = Created(c0, 1),
         Becomes(h, [dispatcher[h] EXCEPT !.pc = "send", !.row = NewRow(c0),
                                          !.left = dispatcher[h].left \ {e0}]),
         UNCHANGED <<jobs, admin, memory, received, faults>>
  PROVE  IInv'
<1> USE DEF IInv
<1>1. /\ ~At(h, "idle") /\ ~At(h, "settle") /\ ~At(h, "endpoints") /\ dispatcher[h].pc \notin Holding
      /\ dispatcher[h].ok /\ e0 \in Endpoints /\ j0 \in Job
      /\ jobs[j0].state = "active" /\ ~Settled(jobs[j0])
  <2>1. dispatcher[h] \in Run
    BY DEF TypeOK
  <2>2. QED
    BY <2>1, RunsAlone DEF At, Holding, RunsAreActive, Run
<1>2. UNCHANGED <<endpoints, timers, retries, removing, removals, received, jobs, faults>>
  BY DEF admin, memory
<1>3. StillToCome(j0, e0) /\ Due(j0, e0)
  BY <1>1, OwnJob
<1>4. /\ NewRun(j0, e0) \in 1..MaxRuns /\ NewRun(j0, e0) <= Ended(j0) + 1
      /\ c0 \in Chains /\ c0.job = j0 /\ c0.endpoint = e0 /\ deliveries[c0] = <<>>
  BY FreshChain
<1>5. 1 = Len(deliveries[c0]) + 1 /\ 1 <= AttemptLimit(c0.endpoint)
  BY <1>1, <1>4, LimitsArePositive
<1>6. /\ deliveries' \in [Chains -> Seq(Delivery)]
      /\ RowsAreNumbered' /\ DeletedAreEmpty'
      /\ \A i \in Rows' : AttemptOf(i)' \in 1..LimitOf(i)
      /\ \A r \in Rows : r \in Rows' /\ Row(r)' = Row(r)
      /\ NewRow(c0) \in Rows' /\ NewRow(c0) \notin Rows /\ NewRow(c0).chain = c0 /\ NewRow(c0).n = 1
      /\ Latest(c0)' = NewRow(c0) /\ \A c \in Chains \ {c0} : Latest(c)' = Latest(c)
      /\ \A i \in Rows' : i \in Rows \/ i = NewRow(c0)
      /\ \A i : i = NewRow(c0) =>
           Row(i)'.attempt = 1 /\ Row(i)'.status = "pending" /\ ~Row(i)'.deleted
  BY <1>2, <1>4, <1>5, CreatedKept
<1>7. PICK r : r = NewRow(c0)
  OBVIOUS
<1>8. /\ dispatcher' \in [Hosts -> Run] /\ OthersStay(h)
      /\ dispatcher'[h].pc = "send" /\ dispatcher'[h].row = r
      /\ dispatcher'[h].job = j0 /\ dispatcher'[h].left = dispatcher[h].left \ {e0}
      /\ dispatcher'[h].ok
  <2>1. dispatcher[h] \in Run
    BY DEF TypeOK
  <2>2. r \in RowId
    BY <1>4, <1>5, <1>7 DEF NewRow, RowId
  <2>3. [dispatcher[h] EXCEPT !.pc = "send", !.row = NewRow(c0),
                              !.left = dispatcher[h].left \ {e0}] \in Run
    BY <1>7, <2>1, <2>2 DEF Run, PCs, Holding
  <2>4. /\ dispatcher' \in [Hosts -> Run] /\ OthersStay(h)
        /\ dispatcher'[h] = [dispatcher[h] EXCEPT !.pc = "send", !.row = NewRow(c0),
                                                  !.left = dispatcher[h].left \ {e0}]
    BY <2>3, Moved DEF TypeOK
  <2>5. QED
    BY <1>1, <1>7, <2>1, <2>4 DEF Run
<1>9. TypeOK'
  BY <1>2, <1>6, <1>8 DEF TypeOK
<1>10. StepsOn(h)
  BY <1>1, <1>2, <1>8 DEF StepsOn
<1>11. RunsAreActive' /\ UnsettledHaveAttempts'
  BY <1>10, StepsOnRuns
<1>12. \A s \in Rows : s.chain # c0
  BY <1>4, InRows DEF TypeOK
<1>13. /\ \A g \in Hosts : dispatcher[g].pc \in Holding => dispatcher[g].row \in Rows
       /\ \A t \in timers \cup retries : t.row \in Rows
  BY DEF HoldersDecide, TypeOK
<1>14. \A g \in Hosts : dispatcher'[g].pc \in Holding =>
         \/ dispatcher'[g] = dispatcher[g] /\ dispatcher[g].pc \in Holding /\ g # h
         \/ g = h /\ dispatcher'[g].pc = "send" /\ dispatcher'[g].row = r
  BY <1>8 DEF OthersStay
<1>15. HoldersDecide'
  BY <1>2, <1>4, <1>6, <1>7, <1>12, <1>13, <1>14, CreatedDecide
<1>16. HoldersAreAlone'
  BY <1>2, <1>6, <1>7, <1>13, <1>14 DEF HoldersAreAlone
<1>17. NothingForgotten'
  <2>1. ASSUME NEW i \in Rows', faults' = 0, Row(i)'.status = "pending", ~Row(i)'.deleted
        PROVE  Held(i)'
    <3>1. CASE i = r
      BY <1>8, <3>1 DEF Held, Holding
    <3>2. CASE i \in Rows
      <4>1. Held(i)
        BY <1>2, <1>6, <2>1, <3>2, HeldRows DEF NothingForgotten
      <4>2. QED
        BY <1>1, <1>2, <1>8, <4>1 DEF Held, OthersStay
    <3>3. QED
      BY <1>6, <1>7, <2>1, <3>1, <3>2
  <2>2. QED
    BY <2>1, HeldRowsNext DEF NothingForgotten
<1>18. /\ \A e : e # e0 => (Due(j0, e)' => Due(j0, e)) /\ (StillToCome(j0, e)' => StillToCome(j0, e))
       /\ ~Due(j0, e0)' /\ ~StillToCome(j0, e0)'
       /\ ~HasDeletedRow(j0)' /\ (MissesEndpoint(j0)' => MissesEndpoint(j0))
       /\ \A j \in Job, e \in Endpoints : j # j0 =>
            /\ Due(j, e)' => Due(j, e)
            /\ StillToCome(j, e)' => StillToCome(j, e)
            /\ HasDeletedRow(j)' => HasDeletedRow(j)
            /\ MissesEndpoint(j)' => MissesEndpoint(j)
  <2>1. /\ \A e : e # e0 => (Due(j0, e)' => Due(j0, e)) /\ (StillToCome(j0, e)' => StillToCome(j0, e))
        /\ ~Due(j0, e0)' /\ ~StillToCome(j0, e0)'
    BY <1>1, <1>8, <1>10, OwnJob, OwnJobNext DEF At
  <2>2. MissesEndpoint(j0)' => MissesEndpoint(j0)
    BY <1>1, <1>2, <1>8, <1>10, OwnJob, OwnJobNext DEF Exists
  <2>3. ~HasDeletedRow(j0)'
    <3>1. HasDeletedRow(j0)' => Row(dispatcher[h].row)'.deleted
      BY <1>10, OwnJobNext
    <3>2. Row(dispatcher[h].row)'.deleted => Row(r)'.deleted
      BY <1>8 DEF Row
    <3>3. QED
      BY <1>6, <1>7, <3>1, <3>2
  <2>4. QED
    BY <1>2, <1>6, <1>10, <2>1, <2>2, <2>3, OtherJobs
<1>19. /\ deliveries'[c0] # <<>>
       /\ \A c \in Chains \ {c0} : deliveries'[c] = deliveries[c]
  <2>1. /\ Len(deliveries'[c0]) = Len(deliveries[c0]) + 1
        /\ \A c \in Chains \ {c0} : deliveries'[c] = deliveries[c]
    <3>1. ASSUME NEW a \in Nat, deliveries' = Created(c0, a)
          PROVE  /\ Len(deliveries'[c0]) = Len(deliveries[c0]) + 1
                 /\ \A c \in Chains \ {c0} : deliveries'[c] = deliveries[c]
      <4>1. deliveries \in [Chains -> Seq(Delivery)]
        BY DEF TypeOK
      <4>2. QED
        BY <1>4, <3>1, <4>1, CreatedStep
    <3>2. QED
      BY <3>1
  <2>2. QED
    BY <1>5, <2>1
<1>20. ChainsAreCounted'
  <2>1. ASSUME NEW j, NEW e, j # j0 \/ e # e0
        PROVE  Begun(j, e)' = Begun(j, e) /\ NewRun(j, e)' = NewRun(j, e)
    <3>1. Begun(j, e)' = Begun(j, e)
      BY <1>4, <1>19, <2>1 DEF Begun
    <3>2. QED
      BY <3>1 DEF NewRun, Begun
  <2>2. NewRun(j0, e0)' = NewRun(j0, e0) + 1
    <3>1. Begun(j0, e0)' = Begun(j0, e0) \cup {c0} /\ c0 \notin Begun(j0, e0)
      BY <1>4, <1>19 DEF Begun
    <3>2. Begun(j0, e0) \in SUBSET ChainsOf(j0, e0) /\ Begun(j0, e0)' \in SUBSET ChainsOf(j0, e0)
      BY DEF Begun, ChainsOf
    <3>3. ASSUME NEW S, NEW T, S = Begun(j0, e0)', T = Begun(j0, e0)
          PROVE  Cardinality(S) = Cardinality(T) + 1 /\ Cardinality(T) \in Nat
      <4>1. S \in SUBSET ChainsOf(j0, e0) /\ T \in SUBSET ChainsOf(j0, e0)
        BY <3>2, <3>3
      <4>2. IsFiniteSet(T) /\ Cardinality(T) \in Nat
        BY <4>1, FewChains
      <4>3. S = T \cup {c0} /\ c0 \notin T
        BY <3>1, <3>3
      <4>4. QED
        BY <4>2, <4>3, FS_AddElement
    <3>4. Cardinality(Begun(j0, e0)') = Cardinality(Begun(j0, e0)) + 1 /\ Cardinality(Begun(j0, e0)) \in Nat
      BY <3>3
    <3>5. NewRun(j0, e0) = 1 + Cardinality(Begun(j0, e0)) /\ NewRun(j0, e0)' = 1 + Cardinality(Begun(j0, e0)')
      BY DEF NewRun, Begun
    <3>6. QED
      BY <3>4, <3>5
  <2>3. \A j : Ended(j)' = Ended(j)
    BY <1>2 DEF Ended
  <2>4. ASSUME NEW j \in Job, NEW e \in Endpoints, j # j0 \/ e # e0
        PROVE  /\ \A k \in 1..MaxRuns : deliveries'[ChainOf(j, e, k)] # <<>> <=> k < NewRun(j, e)'
               /\ jobs'[j].state = "active" => NewRun(j, e)' <= Ended(j)' + 2
               /\ ~Settled(jobs'[j]) /\ (jobs'[j].state = "active" => StillToCome(j, e)')
                    => NewRun(j, e)' <= Ended(j)' + 1
    <3>1. \A k \in 1..MaxRuns : ChainOf(j, e, k) \in Chains \ {c0}
      BY <1>4, <2>4 DEF ChainOf, Chains, MaxRuns
    <3>2. StillToCome(j, e)' => StillToCome(j, e)
      BY <1>18, <2>4
    <3>3. QED
      BY <1>2, <1>19, <2>1, <2>3, <2>4, <3>1, <3>2 DEF ChainsAreCounted
  <2>5. /\ \A k \in 1..MaxRuns : deliveries'[ChainOf(j0, e0, k)] # <<>> <=> k < NewRun(j0, e0)'
        /\ jobs'[j0].state = "active" => NewRun(j0, e0)' <= Ended(j0)' + 2
        /\ ~Settled(jobs'[j0]) /\ (jobs'[j0].state = "active" => StillToCome(j0, e0)')
             => NewRun(j0, e0)' <= Ended(j0)' + 1
    <3>1. ASSUME NEW k \in 1..MaxRuns
          PROVE  deliveries'[ChainOf(j0, e0, k)] # <<>> <=> k < NewRun(j0, e0) + 1
      <4>1. CASE k = NewRun(j0, e0)
        BY <1>4, <1>19, <4>1
      <4>2. CASE k # NewRun(j0, e0)
        <5>1. ChainOf(j0, e0, k) \in Chains \ {c0}
          BY <1>1, <4>2 DEF ChainOf, Chains, MaxRuns
        <5>2. deliveries[ChainOf(j0, e0, k)] # <<>> <=> k < NewRun(j0, e0)
          BY <1>1 DEF ChainsAreCounted
        <5>3. k < NewRun(j0, e0) + 1 <=> k < NewRun(j0, e0)
          BY <1>4, <4>2
        <5>4. QED
          BY <1>19, <5>1, <5>2, <5>3
      <4>3. QED
        BY <4>1, <4>2
    <3>2. Ended(j0) \in Nat
      <4>1. jobs[j0] \in JobOf({0})
        BY <1>1 DEF TypeOK
      <4>2. QED
        BY <4>1, BullAssumption DEF JobOf, Ended
    <3>3. NewRun(j0, e0) + 1 <= Ended(j0) + 2
      BY <1>4, <3>2
    <3>4. QED
      BY <1>1, <1>2, <1>18, <2>2, <2>3, <3>1, <3>3
  <2>6. QED
    BY <2>4, <2>5 DEF ChainsAreCounted
<1>21. Budget'
  <2>1. \A c \in Chains \ {c0} : Sending(c)' => Sending(c)
    BY <1>2, <1>6, <1>7, <1>14 DEF Sending, Holding
  <2>2. ASSUME NEW j \in Job, NEW e \in Endpoints
        PROVE  received'[<<j, e>>] + Cardinality(Live(j, e)') + One(Due(j, e)') + Breaks(j)'
                 <= 1 + faults' + 2 * removals'
    <3>1. CASE j # j0 \/ e # e0
      <4>1. Live(j, e)' \subseteq Live(j, e)
        BY <1>4, <2>1, <3>1 DEF Live
      <4>2. faults \in Nat
        BY DEF TypeOK
      <4>3. QED
        BY <1>2, <1>18, <3>1, <4>1, <4>2, BudgetStays
    <3>2. CASE j = j0 /\ e = e0
      <4>1. Live(j, e)' \subseteq Live(j, e) \cup {c0}
        BY <2>1 DEF Live
      <4>2. Live(j, e) \in SUBSET ChainsOf(j, e) /\ Live(j, e)' \in SUBSET ChainsOf(j, e)
        BY DEF Live, ChainsOf
      <4>3. /\ Cardinality(Live(j, e)') <= Cardinality(Live(j, e)) + 1
            /\ Cardinality(Live(j, e)) \in Nat /\ Cardinality(Live(j, e)') \in Nat
        BY <4>1, <4>2, FewChains
      <4>4. One(Due(j, e)) = 1 /\ One(Due(j, e)') = 0
        BY <1>3, <1>18, <3>2 DEF One
      <4>5. Breaks(j)' <= Breaks(j) /\ Breaks(j)' \in 0..3 /\ Breaks(j) \in 0..3
        BY <1>2, <1>18, <3>2 DEF Breaks, One
      <4>6. QED
        BY <1>2, <4>3, <4>4, <4>5, Bounded
    <3>3. QED
      BY <3>1, <3>2
  <2>3. QED
    BY <2>2 DEF Budget
<1>22. QED
  BY <1>6, <1>9, <1>11, <1>15, <1>16, <1>17, <1>20, <1>21

\* The second attempt of a chain, for which a timer is set.
LEMMA CreateSecondInv ==
  ASSUME IInv, NEW h \in Hosts, At(h, "schedule"), NEW c0, c0 = dispatcher[h].row.chain,
         Exists(c0.endpoint), deliveries' = Created(c0, 2),
         timers' = timers \cup {[row |-> NewRow(c0), host |-> h]}, Finished(h),
         UNCHANGED <<jobs, admin, retries, received, faults>>
  PROVE  IInv'
<1> USE DEF IInv
<1>1. PICK i : i = dispatcher[h].row
  OBVIOUS
<1>2. /\ dispatcher[h].pc \in Holding /\ ~At(h, "idle") /\ ~At(h, "settle") /\ ~At(h, "endpoints")
      /\ i \in Rows /\ i = Latest(c0) /\ i.n = 1 /\ Row(i).status = "failed" /\ ~Last(i)
      /\ dispatcher[h].ok /\ c0 \in Chains /\ i.chain = c0
  BY <1>1, InRows DEF At, Holding, HoldersDecide, RunsAreActive, TypeOK
<1>3. UNCHANGED <<endpoints, retries, removing, removals, received, jobs, faults>>
  BY DEF admin
<1>4. Len(deliveries[c0]) = 1 /\ 2 <= AttemptLimit(c0.endpoint)
  <2>1. Len(deliveries[c0]) = 1
    BY <1>2 DEF Latest
  <2>2. AttemptOf(i) = 1 /\ LimitOf(i) \in Nat
    BY <1>2, Numbered
  <2>3. QED
    BY <1>2, <2>1, <2>2 DEF Last, LimitOf
<1>5. /\ deliveries' \in [Chains -> Seq(Delivery)]
      /\ RowsAreNumbered' /\ DeletedAreEmpty'
      /\ \A s \in Rows' : AttemptOf(s)' \in 1..LimitOf(s)
      /\ \A s \in Rows : s \in Rows' /\ Row(s)' = Row(s)
      /\ NewRow(c0) \in Rows' /\ NewRow(c0) \notin Rows /\ NewRow(c0).chain = c0
      /\ Latest(c0)' = NewRow(c0) /\ \A c \in Chains \ {c0} : Latest(c)' = Latest(c)
      /\ \A s \in Rows' : s \in Rows \/ s = NewRow(c0)
      /\ \A s : s = NewRow(c0) =>
           Row(s)'.attempt = 2 /\ Row(s)'.status = "pending" /\ ~Row(s)'.deleted
  <2>1. ASSUME NEW a, a = 2
        PROVE  a = Len(deliveries[c0]) + 1 /\ a <= AttemptLimit(c0.endpoint) /\ deliveries' = Created(c0, a)
    BY <1>4, <2>1
  <2>2. QED
    BY <1>2, <1>3, <2>1, CreatedKept
<1>6. PICK r : r = NewRow(c0)
  OBVIOUS
<1>7. /\ dispatcher' \in [Hosts -> Run] /\ OthersStay(h)
      /\ dispatcher'[h].pc = "create" /\ dispatcher'[h].job = dispatcher[h].job
      /\ dispatcher'[h].left = dispatcher[h].left
      /\ dispatcher'[h].ok = dispatcher[h].ok
  BY Moved DEF TypeOK
<1>8. TypeOK'
  BY <1>3, <1>5, <1>6, <1>7 DEF TypeOK
<1>9. StepsOn(h)
  BY <1>2, <1>3, <1>7 DEF StepsOn
<1>10. RunsAreActive' /\ UnsettledHaveAttempts'
  BY <1>9, StepsOnRuns
<1>11. /\ \A g \in Hosts : dispatcher[g].pc \in Holding => dispatcher[g].row \in Rows
       /\ \A t \in timers \cup retries : t.row \in Rows
  BY DEF HoldersDecide, TypeOK
<1>12. \A g \in Hosts : dispatcher'[g].pc \in Holding =>
         /\ dispatcher'[g] = dispatcher[g] /\ dispatcher[g].pc \in Holding /\ g # h
         /\ dispatcher[g].row.chain # c0
  BY <1>1, <1>2, <1>7, Senders DEF OthersStay, Holding
<1>13. /\ \A t \in timers : t.row.chain # c0
       /\ \A t \in retries : t.pc = "failed" \/ t.row.chain # c0
  BY <1>1, <1>2, Senders
<1>14. HoldersDecide'
  <2>1. \A t \in timers' : (t \in timers /\ t.row.chain # c0) \/ t.row = NewRow(c0)
    BY <1>13
  <2>2. QED
    BY <1>2, <1>3, <1>5, <1>12, <1>13, <2>1, CreatedDecide
<1>15. HoldersAreAlone'
  BY <1>3, <1>5, <1>6, <1>11, <1>12 DEF HoldersAreAlone
<1>16. NothingForgotten'
  <2>1. ASSUME NEW s \in Rows', faults' = 0, Row(s)'.status = "pending", ~Row(s)'.deleted
        PROVE  Held(s)'
    <3>1. CASE s = r
      <4>1. \E u \in timers' : u.row = s
        <5>1. [row |-> NewRow(c0), host |-> h] \in timers'
          OBVIOUS
        <5>2. QED
          BY <1>6, <3>1, <5>1
      <4>2. QED
        BY <4>1 DEF Held
    <3>2. CASE s \in Rows
      <4>1. Held(s) /\ s # i
        BY <1>2, <1>3, <1>5, <2>1, <3>2, HeldRows DEF NothingForgotten
      <4>2. QED
        BY <1>1, <1>3, <1>7, <4>1 DEF Held, OthersStay
    <3>3. QED
      BY <1>5, <1>6, <3>1, <3>2
  <2>2. QED
    BY <2>1, HeldRowsNext DEF NothingForgotten
<1>j. PICK j0 : j0 = dispatcher[h].job
  OBVIOUS
<1>17. \A j \in Job, e \in Endpoints :
         /\ Due(j, e)' => Due(j, e)
         /\ StillToCome(j, e)' => StillToCome(j, e)
         /\ HasDeletedRow(j)' => HasDeletedRow(j)
         /\ MissesEndpoint(j)' => MissesEndpoint(j)
  <2>1. ASSUME NEW e
        PROVE  /\ Due(j0, e)' => Due(j0, e)
               /\ StillToCome(j0, e)' => StillToCome(j0, e)
    BY <1>2, <1>7, <1>9, <1>j, OwnJob, OwnJobNext DEF At
  <2>2. MissesEndpoint(j0)' => MissesEndpoint(j0)
    BY <1>2, <1>3, <1>7, <1>9, <1>j, OwnJob, OwnJobNext DEF Exists
  <2>3. ~HasDeletedRow(j0)'
    BY <1>7, <1>9, <1>j, OwnJobNext DEF Holding
  <2>4. QED
    BY <1>3, <1>5, <1>9, <1>j, <2>1, <2>2, <2>3, OtherJobs
<1>18. ChainsAreCounted'
  <2>1. \A c \in Chains : deliveries'[c] = <<>> <=> deliveries[c] = <<>>
    <3>1. ASSUME NEW a \in Nat, deliveries' = Created(c0, a)
          PROVE  /\ Len(deliveries'[c0]) = Len(deliveries[c0]) + 1
                 /\ \A c \in Chains \ {c0} : deliveries'[c] = deliveries[c]
      <4>1. deliveries \in [Chains -> Seq(Delivery)]
        BY DEF TypeOK
      <4>2. QED
        BY <1>2, <3>1, <4>1, CreatedStep
    <3>2. QED
      BY <1>4, <3>1
  <2>2. QED
    BY <1>3, <1>17, <2>1, CountsStay
<1>19. Budget'
  <2>1. \A c : Sending(c)' => Sending(c)
    <3>1. \A t \in timers' : t \in timers \/ t.row.chain = c0
      BY <1>5
    <3>2. Sending(c0)
      BY <1>1, <1>2 DEF Sending, At
    <3>3. QED
      BY <1>3, <1>12, <3>1, <3>2 DEF Sending, Holding
  <2>2. \A j, e : Live(j, e)' \subseteq Live(j, e)
    BY <2>1 DEF Live
  <2>3. ASSUME NEW j \in Job, NEW e \in Endpoints
        PROVE  received'[<<j, e>>] + Cardinality(Live(j, e)') + One(Due(j, e)') + Breaks(j)'
                 <= 1 + faults' + 2 * removals'
    <3>1. faults \in Nat
      BY DEF TypeOK
    <3>2. QED
      BY <1>3, <1>17, <2>2, <3>1, BudgetStays
  <2>4. QED
    BY <2>3 DEF Budget
<1>20. QED
  BY <1>5, <1>8, <1>10, <1>14, <1>15, <1>16, <1>18, <1>19

\* A later attempt of a chain, which a retry creates.
LEMMA CreateNextInv ==
  ASSUME IInv, NEW t \in retries, t.pc = "schedule", NEW c0, c0 = t.row.chain,
         Exists(c0.endpoint), deliveries' = Created(c0, AttemptOf(t.row) + 1),
         timers' = timers \cup {[row |-> NewRow(c0), host |-> t.host]}, GoesOn(t, "failed"),
         UNCHANGED <<work, admin, received, faults>>
  PROVE  IInv'
<1> USE DEF IInv
<1>1. PICK i : i = t.row
  OBVIOUS
<1>2. /\ i \in Rows /\ i = Latest(c0) /\ c0 \in Chains /\ i.chain = c0 /\ MayRetry(i)
      /\ t.host \in Hosts /\ t = [row |-> i, host |-> t.host, pc |-> "schedule"]
  BY <1>1, InRows DEF HoldersDecide, TypeOK
<1>3. UNCHANGED <<endpoints, removing, removals, received, jobs, dispatcher, faults>>
  BY DEF admin, work
<1>4. PICK a : a = AttemptOf(i) + 1
  OBVIOUS
<1>5. a = Len(deliveries[c0]) + 1 /\ a <= AttemptLimit(c0.endpoint) /\ Len(deliveries[c0]) \in Nat \ {0}
  <2>1. i.n = Len(deliveries[c0])
    BY <1>2 DEF Latest
  <2>2. AttemptOf(i) = i.n /\ i.n \in 1..Len(deliveries[c0])
    BY <1>2, Numbered
  <2>3. Len(deliveries[c0]) \in Nat
    BY <1>2 DEF TypeOK
  <2>4. QED
    BY <1>2, <1>4, <2>1, <2>2, <2>3 DEF MayRetry, LimitOf
<1>6. /\ deliveries' \in [Chains -> Seq(Delivery)]
      /\ RowsAreNumbered' /\ DeletedAreEmpty'
      /\ \A s \in Rows' : AttemptOf(s)' \in 1..LimitOf(s)
      /\ \A s \in Rows : s \in Rows' /\ Row(s)' = Row(s)
      /\ NewRow(c0) \in Rows' /\ NewRow(c0) \notin Rows /\ NewRow(c0).chain = c0
      /\ Latest(c0)' = NewRow(c0) /\ \A c \in Chains \ {c0} : Latest(c)' = Latest(c)
      /\ \A s \in Rows' : s \in Rows \/ s = NewRow(c0)
      /\ \A s : s = NewRow(c0) => Row(s)'.status = "pending" /\ ~Row(s)'.deleted
  <2>1. deliveries' = Created(c0, a)
    BY <1>1, <1>4
  <2>2. QED
    BY <1>2, <1>3, <1>5, <2>1, CreatedKept
<1>7. PICK r : r = NewRow(c0)
  OBVIOUS
<1>8. PICK u : u = [row |-> i, host |-> t.host, pc |-> "failed"]
  OBVIOUS
<1>9. retries' = (retries \ {t}) \cup {u}
  <2>1. [t EXCEPT !.pc = "failed"] = u
    BY <1>2, <1>8
  <2>2. QED
    BY <2>1 DEF GoesOn
<1>10. TypeOK'
  BY <1>2, <1>3, <1>6, <1>7, <1>8, <1>9 DEF TypeOK
<1>11. /\ RunsAreActive' /\ UnsettledHaveAttempts'
       /\ \A j, e : StillToCome(j, e)' <=> StillToCome(j, e)
       /\ \A j, e : Due(j, e)' <=> Due(j, e)
       /\ \A g, j : Runs(g, j)' <=> Runs(g, j)
  BY SameWork
<1>12. /\ \A g \in Hosts : dispatcher[g].pc \in Holding => dispatcher[g].row \in Rows
       /\ \A v \in timers \cup retries : v.row \in Rows
  BY DEF HoldersDecide, TypeOK
<1>13. /\ \A g \in Hosts : dispatcher[g].pc \in Holding => dispatcher[g].row.chain # c0
       /\ \A v \in timers : v.row.chain # c0
       /\ \A v \in retries \ {t} : v.pc = "failed" \/ v.row.chain # c0
  BY <1>1, <1>2, Senders
<1>14. HoldersDecide'
  <2>1. \A v \in timers' : (v \in timers /\ v.row.chain # c0) \/ v.row = NewRow(c0)
    BY <1>13
  <2>2. \A v \in retries' : \/ v \in retries /\ (v.pc = "failed" \/ v.row.chain # c0)
                            \/ v.pc = "failed" /\ v.row \in Rows /\ v.row.chain = c0
    BY <1>2, <1>8, <1>9, <1>13
  <2>3. QED
    BY <1>2, <1>3, <1>6, <1>13, <2>1, <2>2, CreatedDecide
<1>15. HoldersAreAlone'
  <2>1. \A v \in retries \ {t} : v.row # i
    BY <1>1 DEF HoldersAreAlone
  <2>2. \A v \in timers : v.row # i
    BY <1>1 DEF HoldersAreAlone
  <2>3. \A g \in Hosts : dispatcher[g].pc \in Holding => dispatcher[g].row # i
    BY <1>1 DEF HoldersAreAlone
  <2>4. r \notin Rows /\ \A v \in timers' : v \in timers \/ v = [row |-> r, host |-> t.host]
    BY <1>6, <1>7
  <2>5. \A v \in retries' : v \in retries \ {t} \/ v = u
    BY <1>9
  <2>6. QED
    BY <1>2, <1>3, <1>8, <1>12, <2>1, <2>2, <2>3, <2>4, <2>5 DEF HoldersAreAlone
<1>16. NothingForgotten'
  <2>1. ASSUME NEW s \in Rows', faults' = 0, Row(s)'.status = "pending", ~Row(s)'.deleted
        PROVE  Held(s)'
    <3>1. CASE s = r
      <4>1. \E v \in timers' : v.row = s
        <5>1. [row |-> NewRow(c0), host |-> t.host] \in timers'
          OBVIOUS
        <5>2. QED
          BY <1>7, <3>1, <5>1
      <4>2. QED
        BY <4>1 DEF Held
    <3>2. CASE s \in Rows
      <4>1. Held(s)
        BY <1>3, <1>6, <2>1, <3>2, HeldRows DEF NothingForgotten
      <4>2. QED
        BY <1>1, <1>3, <1>8, <1>9, <4>1 DEF Held
    <3>3. QED
      BY <1>6, <1>7, <3>1, <3>2
  <2>2. QED
    BY <2>1, HeldRowsNext DEF NothingForgotten
<1>17. ChainsAreCounted'
  <2>1. \A c \in Chains : deliveries'[c] = <<>> <=> deliveries[c] = <<>>
    <3>1. a \in Nat /\ deliveries' = Created(c0, a) /\ deliveries \in [Chains -> Seq(Delivery)]
      BY <1>1, <1>4, <1>5 DEF TypeOK
    <3>2. /\ Len(deliveries'[c0]) = Len(deliveries[c0]) + 1
          /\ \A c \in Chains \ {c0} : deliveries'[c] = deliveries[c]
      BY <1>2, <3>1, CreatedStep
    <3>3. QED
      BY <1>5, <3>2
  <2>2. QED
    BY <1>3, <1>11, <2>1, CountsStay
<1>18. Budget'
  <2>1. \A c : Sending(c)' => Sending(c)
    BY <1>1, <1>2, <1>3, <1>6, <1>8, <1>9 DEF Sending
  <2>2. \A j, e : Live(j, e)' \subseteq Live(j, e)
    BY <2>1 DEF Live
  <2>3. \A j : (HasDeletedRow(j)' => HasDeletedRow(j)) /\ (MissesEndpoint(j)' => MissesEndpoint(j))
    <3>1. \A g \in Hosts : dispatcher[g].pc \in Holding => Row(dispatcher[g].row)' = Row(dispatcher[g].row)
      <4>1. \A g \in Hosts : dispatcher'[g] = dispatcher[g]
        BY <1>3
      <4>2. QED
        BY <1>6, <1>12, <4>1 DEF Row
    <3>2. QED
      BY <1>3, <1>11, <3>1 DEF HasDeletedRow, MissesEndpoint, Exists
  <2>4. ASSUME NEW j \in Job, NEW e \in Endpoints
        PROVE  received'[<<j, e>>] + Cardinality(Live(j, e)') + One(Due(j, e)') + Breaks(j)'
                 <= 1 + faults' + 2 * removals'
    <3>1. faults \in Nat
      BY DEF TypeOK
    <3>2. QED
      BY <1>3, <1>11, <2>2, <2>3, <3>1, BudgetStays
  <2>5. QED
    BY <2>4 DEF Budget
<1>19. QED
  BY <1>6, <1>10, <1>11, <1>14, <1>15, <1>16, <1>17, <1>18

-----------------------------------------------------------------------------
(* Steps of timers and retries, which leave the jobs and the hosts alone.  *)

LEMMA SameBreaks ==
  ASSUME HoldersDecide, UNCHANGED <<work, endpoints>>,
         \A r \in Rows : Row(r)'.deleted = Row(r).deleted
  PROVE  \A j : /\ HasDeletedRow(j)' => HasDeletedRow(j)
                /\ MissesEndpoint(j)' => MissesEndpoint(j)
<1>1. \A g \in Hosts : dispatcher[g].pc \in Holding =>
        (Row(dispatcher[g].row)'.deleted => Row(dispatcher[g].row).deleted)
  <2>1. ASSUME NEW g \in Hosts, dispatcher[g].pc \in Holding, NEW i, i = dispatcher[g].row,
               Row(dispatcher[g].row)'.deleted
        PROVE  Row(i).deleted
    <3>1. i \in Rows /\ dispatcher'[g] = dispatcher[g]
      BY <2>1 DEF HoldersDecide, work
    <3>2. Row(i)'.deleted
      BY <2>1, <3>1 DEF Row
    <3>3. QED
      BY <3>1, <3>2
  <2>2. QED
    BY <2>1
<1>2. dispatcher' = dispatcher /\ \A g, j : Runs(g, j)' <=> Runs(g, j)
  BY SameWork DEF work
<1>3. QED
  BY <1>1, <1>2 DEF HasDeletedRow, MissesEndpoint, Exists

\* A timer or a retry is done, and has perhaps decided on its row.
LEMMA GoInv ==
  ASSUME IInv, UNCHANGED <<work, admin, received>>,
         timers' \subseteq timers, retries' \subseteq retries, RowsStay,
         faults' \in Nat, faults' >= faults, faults' + removals <= MaxUpsets,
         \A r \in Rows : Row(r)'.deleted = Row(r).deleted,
         \A r \in Rows : Held(r)' => Undecided(r),
         \A r \in Rows : Row(r)'.status = "pending" => Row(r).status = "pending",
         \A r \in Rows : /\ faults' = 0 /\ Held(r)
                         /\ Row(r)'.status = "pending" /\ ~Row(r)'.deleted
                         => Held(r)'
  PROVE  IInv'
<1> USE DEF IInv
<1>1. UNCHANGED <<jobs, dispatcher, endpoints, removing, removals, received>>
  BY DEF work, admin
<1>2. TypeOK'
  BY <1>1, RowTypes DEF TypeOK
<1>3. /\ RunsAreActive' /\ UnsettledHaveAttempts'
      /\ \A j, e : StillToCome(j, e)' <=> StillToCome(j, e)
      /\ \A j, e : Due(j, e)' <=> Due(j, e)
  BY SameWork
<1>4. HoldersStayOrGo
  BY <1>1 DEF HoldersStayOrGo
<1>5. /\ RowsAreNumbered' /\ HoldersDecide' /\ HoldersAreAlone'
      /\ \A j, e : Live(j, e)' \subseteq Live(j, e)
  BY <1>4, HoldersGo
<1>6. DeletedAreEmpty'
  BY <1>1, DeletedStay
<1>7. ChainsAreCounted'
  BY <1>1, <1>3, CountsStay, NoChainBegins DEF TypeOK
<1>8. faults \in Nat
  BY DEF TypeOK
<1>9. NothingForgotten'
  BY <1>8, NoneForgotten
<1>10. Budget'
  <2>1. ASSUME NEW j \in Job, NEW e \in Endpoints
        PROVE  received'[<<j, e>>] + Cardinality(Live(j, e)') + One(Due(j, e)') + Breaks(j)'
                 <= 1 + faults' + 2 * removals'
    BY <1>1, <1>3, <1>5, SameBreaks, BudgetStays
  <2>2. QED
    BY <2>1 DEF Budget
<1>11. QED
  BY <1>2, <1>3, <1>5, <1>6, <1>7, <1>9, <1>10

\* Something is given up: after a failure, or with a row that is not pending or
\* has been deleted.
LEMMA DropInv ==
  ASSUME IInv, UNCHANGED <<work, admin, deliveries, received>>,
         timers' \subseteq timers, retries' \subseteq retries,
         \/ CanUpset /\ faults' = faults + 1
         \/ /\ UNCHANGED faults
            /\ \A t \in (timers \ timers') \cup (retries \ retries') :
                 Row(t.row).status # "pending" \/ Row(t.row).deleted
  PROVE  IInv'
<1>1. RowsStay /\ \A r : Row(r)' = Row(r)
  BY StayingRows, SameRows DEF IInv, TypeOK
<1>2. faults' \in Nat /\ faults' >= faults /\ faults' + removals <= MaxUpsets
  <2>1. CASE CanUpset /\ faults' = faults + 1
    BY <2>1, Upsets DEF IInv, TypeOK
  <2>2. CASE UNCHANGED faults
    BY <2>2 DEF IInv, TypeOK
  <2>3. QED
    BY <2>1, <2>2
<1>3. ASSUME NEW r \in Rows, faults' = 0, Held(r), Row(r)'.status = "pending", ~Row(r)'.deleted
      PROVE  Held(r)'
  <2>1. /\ UNCHANGED dispatcher
        /\ \A t \in (timers \ timers') \cup (retries \ retries') :
             Row(t.row).status # "pending" \/ Row(t.row).deleted
    BY <1>3, Upsets DEF work, IInv
  <2>2. QED
    BY <1>1, <1>3, <2>1 DEF Held
<1>4. QED
  BY <1>1, <1>2, <1>3, GoInv DEF Undecided

\* A retry ends by updating its row.
LEMMA RetryMarkInv ==
  ASSUME IInv, NEW t \in retries, Ends(t), NEW s \in {"delivered", "failed", "dead"},
         deliveries' = IF CanUpdate(t.row) THEN Marked(t.row, s) ELSE deliveries,
         UNCHANGED <<work, admin, timers, received, faults>>
  PROVE  IInv'
<1>1. CASE ~CanUpdate(t.row)
  <2>1. \A u \in retries \ retries' : Row(u.row).deleted
    BY <1>1 DEF Ends, CanUpdate
  <2>2. QED
    BY <1>1, <2>1, DropInv DEF Ends
<1>2. CASE CanUpdate(t.row)
  <2>1. PICK i : i = t.row
    OBVIOUS
  <2>2. i \in Rows /\ deliveries' = Marked(i, s)
    BY <1>2, <2>1 DEF IInv, TypeOK
  <2>3. deliveries \in [Chains -> Seq(Delivery)]
    BY DEF IInv, TypeOK
  <2>4. RowsStay
    BY <2>2, <2>3, StayingRows
  <2>5. \A r \in Rows : /\ Row(r)'.deleted = Row(r).deleted
                        /\ Row(r)'.status = IF r = i THEN s ELSE Row(r).status
    BY <2>2, <2>3, MarkedStep
  <2>6. UNCHANGED dispatcher /\ timers' = timers /\ retries' = retries \ {t}
    BY DEF work, Ends
  <2>7. ~Held(i)'
    BY <2>1, <2>6 DEF Held, IInv, HoldersAreAlone
  <2>8. \A r \in Rows : Held(r)' => Undecided(r)
    BY <2>5, <2>7 DEF Undecided
  <2>9. ASSUME NEW r \in Rows, Held(r), Row(r)'.status = "pending"
        PROVE  Held(r)'
    <3>1. r # i
      BY <2>5, <2>9
    <3>2. QED
      BY <2>1, <2>6, <2>9, <3>1 DEF Held
  <2>10. \A r \in Rows : Row(r)'.status = "pending" => Row(r).status = "pending"
    BY <2>5
  <2>11. faults' \in Nat /\ faults' >= faults /\ faults' + removals <= MaxUpsets
    BY DEF IInv, TypeOK
  <2>12. QED
    BY <2>4, <2>5, <2>6, <2>8, <2>9, <2>10, <2>11, GoInv
<1>3. QED
  BY <1>1, <1>2

\* A timer fires, or a retry has sent its attempt: everything but the budget.
LEMMA PassedOn ==
  ASSUME IInv, UNCHANGED <<work, admin, deliveries>>, NEW t, NEW p, NEW u,
         u = [row |-> t.row, host |-> t.host, pc |-> p],
         p \in {"send", "delivered", "schedule", "failed"}, p = "schedule" => MayRetry(t.row),
         \/ t \in timers /\ timers' = timers \ {t} /\ retries' = retries \cup {u}
         \/ t \in retries /\ t.pc = "send" /\ timers' = timers /\ retries' = (retries \ {t}) \cup {u},
         received' \in [Job \X Endpoints -> Nat],
         faults' \in Nat, faults' >= faults, faults' + removals <= MaxUpsets
  PROVE  /\ TypeOK' /\ RunsAreActive' /\ UnsettledHaveAttempts' /\ ChainsAreCounted'
         /\ RowsAreNumbered' /\ HoldersDecide' /\ HoldersAreAlone' /\ DeletedAreEmpty'
         /\ NothingForgotten'
         /\ \A c : c # t.row.chain => (Sending(c)' => Sending(c))
         /\ Sending(t.row.chain)
         /\ p \in {"delivered", "failed"} => ~Sending(t.row.chain)'
         /\ \A j : /\ HasDeletedRow(j)' => HasDeletedRow(j)
                   /\ MissesEndpoint(j)' => MissesEndpoint(j)
         /\ \A j, e : Due(j, e)' <=> Due(j, e)
<1> USE DEF IInv
<1>1. UNCHANGED <<jobs, dispatcher, endpoints, removing, removals, deliveries>>
  BY DEF work, admin
<1>2. PICK i : i = t.row
  OBVIOUS
<1>3. i \in Rows /\ t.host \in Hosts /\ i = Latest(i.chain) /\ Open(i)
  BY <1>2 DEF TypeOK, HoldersDecide
<1>4. u.row = i /\ u.pc = p /\ u = [row |-> i, host |-> t.host, pc |-> p]
  BY <1>2
<1>5. RowsStay /\ (\A r : Row(r)' = Row(r)) /\ Rows' = Rows /\ \A c : Latest(c)' = Latest(c)
  BY <1>1, StayingRows, SameRows DEF TypeOK
<1>6. timers' \subseteq timers /\ \A v \in retries' : v \in retries \/ v = u
  OBVIOUS
<1>7. TypeOK'
  <2>1. retries' \subseteq [row : Rows', host : Hosts, pc : {"send", "delivered", "schedule", "failed"}]
    BY <1>3, <1>4, <1>5, <1>6 DEF TypeOK
  <2>2. timers' \subseteq [row : Rows', host : Hosts]
    BY <1>5, <1>6 DEF TypeOK
  <2>3. \A r \in Rows' : AttemptOf(r)' \in 1..LimitOf(r)
    BY <1>5 DEF TypeOK, AttemptOf
  <2>4. QED
    BY <1>1, <2>1, <2>2, <2>3 DEF TypeOK
<1>8. /\ RunsAreActive' /\ UnsettledHaveAttempts'
      /\ \A j, e : StillToCome(j, e)' <=> StillToCome(j, e)
      /\ \A j, e : Due(j, e)' <=> Due(j, e)
  BY SameWork
<1>9. ChainsAreCounted'
  BY <1>1, <1>5, <1>8, CountsStay, NoChainBegins DEF TypeOK
<1>10. RowsAreNumbered'
  BY <1>5, NumbersStay
<1>11. \A r : (Open(r)' <=> Open(r)) /\ (Last(r)' <=> Last(r)) /\ (MayRetry(r)' <=> MayRetry(r))
  BY <1>5 DEF Open, Last, MayRetry, AttemptOf
<1>12. HoldersDecide'
  <2>1. \A h \in Hosts : dispatcher'[h].pc \in Holding =>
          \A r : r = dispatcher'[h].row =>
            /\ r \in Rows' /\ r = Latest(r.chain)' /\ Open(r)' /\ r.n = 1
            /\ At(h, "schedule")' => Row(r)'.status = "failed" /\ ~Last(r)'
    BY <1>1, <1>5, <1>11 DEF HoldersDecide, At
  <2>2. \A v \in timers' : v.row = Latest(v.row.chain)' /\ Open(v.row)'
    BY <1>5, <1>6, <1>11 DEF HoldersDecide
  <2>3. \A v \in retries' : /\ v.pc # "failed" => v.row = Latest(v.row.chain)'
                            /\ v.row = Latest(v.row.chain)' => Open(v.row)'
                            /\ v.pc = "schedule" => MayRetry(v.row)'
    BY <1>2, <1>3, <1>4, <1>5, <1>6, <1>11 DEF HoldersDecide
  <2>4. QED
    BY <2>1, <2>2, <2>3 DEF HoldersDecide
<1>13. HoldersAreAlone'
  <2>1. \A v \in timers' : v.row # i
    BY <1>2 DEF HoldersAreAlone
  <2>2. \A v \in retries' : v = u \/ (v \in retries /\ v.row # i)
    BY <1>2 DEF HoldersAreAlone
  <2>3. \A g \in Hosts : dispatcher[g].pc \in Holding => dispatcher[g].row # i
    BY <1>2 DEF HoldersAreAlone
  <2>4. QED
    BY <1>1, <1>4, <1>6, <2>1, <2>2, <2>3 DEF HoldersAreAlone
<1>14. DeletedAreEmpty'
  BY <1>1, <1>5, DeletedStay
<1>15. NothingForgotten'
  <2>1. ASSUME NEW r \in Rows, Held(r) PROVE Held(r)'
    <3>1. u \in retries'
      OBVIOUS
    <3>2. \A v \in timers \cup retries : v \in timers' \cup retries' \/ v = t
      OBVIOUS
    <3>3. QED
      BY <1>1, <1>2, <1>4, <2>1, <3>1, <3>2 DEF Held
  <2>2. faults \in Nat
    BY DEF TypeOK
  <2>3. QED
    BY <1>5, <2>1, <2>2, NoneForgotten
<1>16. \A c : c # t.row.chain => (Sending(c)' => Sending(c))
  BY <1>1, <1>2, <1>4, <1>6 DEF Sending
<1>17. Sending(t.row.chain)
  BY DEF Sending
<1>18. p \in {"delivered", "failed"} => ~Sending(t.row.chain)'
  <2>1. SUFFICES ASSUME p \in {"delivered", "failed"} PROVE ~Sending(i.chain)'
    BY <1>2
  <2>2. \A g \in Hosts : dispatcher[g].pc \in Holding => dispatcher[g].row.chain # i.chain
    BY <1>2, Senders
  <2>3. \A v \in timers' : v.row.chain # i.chain
    BY <1>2, Senders
  <2>4. \A v \in retries' : v.pc \in {"send", "schedule"} => v.row.chain # i.chain
    BY <1>2, <1>4, <2>1, Senders
  <2>5. QED
    BY <1>1, <2>2, <2>3, <2>4 DEF Sending, Holding
<1>19. \A j : /\ HasDeletedRow(j)' => HasDeletedRow(j)
              /\ MissesEndpoint(j)' => MissesEndpoint(j)
  BY <1>1, <1>5, SameBreaks
<1>20. QED
  BY <1>7, <1>8, <1>9, <1>10, <1>12, <1>13, <1>14, <1>15, <1>16, <1>17, <1>18, <1>19

LEMMA FireInv ==
  ASSUME IInv, NEW t \in timers, FireTimer(t)
  PROVE  IInv'
<1>1. UNCHANGED <<work, admin, deliveries, received, faults>> /\ timers' = timers \ {t}
  BY DEF FireTimer
<1>2. CASE (~CanUpdate(t.row) \/ Row(t.row).status # "pending") /\ UNCHANGED retries
  BY <1>1, <1>2, DropInv DEF CanUpdate
<1>3. CASE retries' = retries \cup {[row |-> t.row, host |-> t.host, pc |-> "send"]}
  <2>1. faults \in Nat /\ faults + removals <= MaxUpsets /\ received \in [Job \X Endpoints -> Nat]
    BY DEF IInv, TypeOK
  <2>2. PICK u : u = [row |-> t.row, host |-> t.host, pc |-> "send"]
    OBVIOUS
  <2>3. faults' \in Nat /\ faults' >= faults /\ faults' + removals <= MaxUpsets
        /\ received' \in [Job \X Endpoints -> Nat]
    BY <1>1, <2>1
  <2>4. retries' = retries \cup {u}
    BY <1>3, <2>2
  <2>5. PICK p : p = "send"
    OBVIOUS
  <2>6. u = [row |-> t.row, host |-> t.host, pc |-> p] /\ p \in {"send", "delivered", "schedule", "failed"}
        /\ p # "schedule"
    BY <2>2, <2>5
  <2>7. /\ TypeOK' /\ RunsAreActive' /\ UnsettledHaveAttempts' /\ ChainsAreCounted'
        /\ RowsAreNumbered' /\ HoldersDecide' /\ HoldersAreAlone' /\ DeletedAreEmpty'
        /\ NothingForgotten'
        /\ \A c : c # t.row.chain => (Sending(c)' => Sending(c))
        /\ Sending(t.row.chain)
        /\ \A j : /\ HasDeletedRow(j)' => HasDeletedRow(j)
                  /\ MissesEndpoint(j)' => MissesEndpoint(j)
        /\ \A j, e : Due(j, e)' <=> Due(j, e)
    BY <1>1, <2>3, <2>4, <2>6, PassedOn
  <2>8. Budget'
    <3>1. ASSUME NEW j \in Job, NEW e \in Endpoints
          PROVE  received'[<<j, e>>] + Cardinality(Live(j, e)') + One(Due(j, e)') + Breaks(j)'
                   <= 1 + faults' + 2 * removals'
      <4>1. Live(j, e)' \subseteq Live(j, e)
        BY <2>7 DEF Live
      <4>2. received' = received /\ removals' = removals /\ removing' = removing
        BY <1>1 DEF admin
      <4>3. QED
        BY <2>3, <2>7, <4>1, <4>2, BudgetStays DEF IInv
    <3>2. QED
      BY <3>1 DEF Budget
  <2>9. QED
    BY <2>7, <2>8 DEF IInv
<1>4. QED
  BY <1>2, <1>3 DEF FireTimer

\* As with the first attempt, whoever says that it was taken sends no more.
LEMMA SendAgainInv ==
  ASSUME IInv, NEW t \in retries, SendAgain(t)
  PROVE  IInv'
<1>1. PICK ok \in BOOLEAN :
        /\ Post(t.row.chain, ok)
        /\ GoesOn(t, IF ok THEN "delivered" ELSE IF MayRetry(t.row) THEN "schedule" ELSE "failed")
  BY DEF SendAgain
<1>2. PICK p : p = IF ok THEN "delivered" ELSE IF MayRetry(t.row) THEN "schedule" ELSE "failed"
  OBVIOUS
<1>3. PICK u : u = [row |-> t.row, host |-> t.host, pc |-> p]
  OBVIOUS
<1>4. PICK c0 : c0 = t.row.chain
  OBVIOUS
<1>5. UNCHANGED <<work, admin, deliveries>> /\ timers' = timers /\ t.pc = "send"
  BY DEF SendAgain
<1>6. retries' = (retries \ {t}) \cup {u}
  <2>1. [t EXCEPT !.pc = p] = u
    BY <1>3 DEF IInv, TypeOK
  <2>2. QED
    BY <1>1, <1>2, <2>1 DEF GoesOn
<1>7. c0 \in Chains
  <2>1. t.row \in Rows /\ deliveries \in [Chains -> Seq(Delivery)]
    BY DEF IInv, TypeOK
  <2>2. QED
    BY <1>4, <2>1, InRows
<1>8. /\ received' \in [Job \X Endpoints -> Nat]
      /\ removals' = removals /\ removing' = removing /\ faults' \in Nat /\ faults' + removals <= MaxUpsets
      /\ faults' >= faults
      /\ \A j \in Job, e \in Endpoints :
           /\ j # c0.job \/ e # c0.endpoint => received'[<<j, e>>] = received[<<j, e>>]
           /\ received'[<<j, e>>] <= received[<<j, e>>] + (faults' - faults) + (IF ok THEN 1 ELSE 0)
  <2>1. UNCHANGED <<removals, removing>>
    BY <1>5 DEF admin
  <2>2. QED
    BY <1>1, <1>4, <1>7, <2>1, Posted DEF IInv
<1>9. /\ TypeOK' /\ RunsAreActive' /\ UnsettledHaveAttempts' /\ ChainsAreCounted'
      /\ RowsAreNumbered' /\ HoldersDecide' /\ HoldersAreAlone' /\ DeletedAreEmpty'
      /\ NothingForgotten'
      /\ \A c : c # c0 => (Sending(c)' => Sending(c))
      /\ Sending(c0)
      /\ p \in {"delivered", "failed"} => ~Sending(c0)'
      /\ \A j : /\ HasDeletedRow(j)' => HasDeletedRow(j)
                /\ MissesEndpoint(j)' => MissesEndpoint(j)
      /\ \A j, e : Due(j, e)' <=> Due(j, e)
  BY <1>2, <1>3, <1>4, <1>5, <1>6, <1>8, PassedOn
<1>10. Budget'
  <2>1. ASSUME NEW j \in Job, NEW e \in Endpoints
        PROVE  received'[<<j, e>>] + Cardinality(Live(j, e)') + One(Due(j, e)') + Breaks(j)'
                 <= 1 + faults' + 2 * removals'
    <3>1. Live(j, e)' \subseteq Live(j, e)
      BY <1>9 DEF Live
    <3>2. One(Due(j, e)') <= One(Due(j, e)) /\ One(Due(j, e)') \in 0..1 /\ One(Due(j, e)) \in 0..1
      BY <1>9 DEF One
    <3>3. Breaks(j)' <= Breaks(j) /\ Breaks(j)' \in 0..3 /\ Breaks(j) \in 0..3
      BY <1>8, <1>9 DEF Breaks, One
    <3>4. /\ Cardinality(Live(j, e)') <= Cardinality(Live(j, e))
          /\ Cardinality(Live(j, e)) \in Nat /\ Cardinality(Live(j, e)') \in Nat
      BY <3>1, LiveCount
    <3>5. received[<<j, e>>] \in Nat /\ received'[<<j, e>>] \in Nat /\ faults \in Nat
      BY <1>9 DEF IInv, TypeOK
    <3>6. CASE ok /\ j = c0.job /\ e = c0.endpoint
      <4>1. c0 \in Live(j, e) /\ c0 \notin Live(j, e)'
        BY <1>2, <1>7, <1>9, <3>6 DEF Live
      <4>2. Live(j, e)' \subseteq Live(j, e) \ {c0}
        BY <3>1, <4>1
      <4>3. Live(j, e) \in SUBSET ChainsOf(j, e) /\ Live(j, e)' \in SUBSET ChainsOf(j, e)
        BY DEF Live, ChainsOf
      <4>4. Cardinality(Live(j, e)') + 1 <= Cardinality(Live(j, e))
        BY <4>1, <4>2, <4>3, FewChains
      <4>5. QED
        BY <1>8, <3>2, <3>3, <3>4, <3>5, <3>6, <4>4, Bounded DEF IInv
    <3>7. CASE ~(ok /\ j = c0.job /\ e = c0.endpoint)
      <4>1. received'[<<j, e>>] <= received[<<j, e>>] + (faults' - faults)
        BY <1>8, <3>5, <3>7
      <4>2. QED
        BY <1>8, <3>2, <3>3, <3>4, <3>5, <4>1, Bounded DEF IInv
    <3>8. QED
      BY <3>6, <3>7
  <2>2. QED
    BY <2>1 DEF Budget
<1>11. QED
  BY <1>9, <1>10 DEF IInv

-----------------------------------------------------------------------------
(* Steps of the jobs, which leave the rows and their holders alone.        *)

LEMMA RunNumbers ==
  /\ \A j, e : NewRun(j, e) \in Nat
  /\ UNCHANGED deliveries => \A j, e : NewRun(j, e)' = NewRun(j, e)
<1>1. ASSUME NEW j, NEW e PROVE NewRun(j, e) \in Nat
  <2>1. Begun(j, e) \in SUBSET ChainsOf(j, e)
    BY DEF Begun, ChainsOf
  <2>2. Cardinality(Begun(j, e)) \in Nat
    BY <2>1, FewChains
  <2>3. QED
    BY <2>2 DEF NewRun, Begun
<1>2. ASSUME UNCHANGED deliveries, NEW j, NEW e PROVE NewRun(j, e)' = NewRun(j, e)
  BY <1>2 DEF NewRun
<1>3. QED
  BY <1>1, <1>2

LEMMA JobNumbers ==
  ASSUME TypeOK, NEW j \in Job
  PROVE  jobs[j] \in JobOf({0}) /\ Ended(j) \in Nat
<1>1. jobs[j] \in JobOf({0})
  BY DEF TypeOK
<1>2. QED
  BY <1>1, BullAssumption DEF JobOf, Ended

\* What remains to be shown of a step that leaves the rows and their holders.
LEMMA WorkInv ==
  ASSUME IInv, UNCHANGED <<admin, deliveries, memory, received, faults>>,
         jobs' \in [Job -> JobOf({0})], dispatcher' \in [Hosts -> Run],
         RunsAreActive', UnsettledHaveAttempts',
         \A g \in Hosts : dispatcher[g].pc \in Holding \/ dispatcher'[g].pc \in Holding
                            => dispatcher'[g] = dispatcher[g],
         \A j \in Job, e \in Endpoints :
           /\ jobs'[j].state = "active" => NewRun(j, e) <= Ended(j)' + 2
           /\ ~Settled(jobs'[j]) /\ (jobs'[j].state = "active" => StillToCome(j, e)')
                => NewRun(j, e) <= Ended(j)' + 1
           /\ Due(j, e)' => Due(j, e),
         \A j \in Job : /\ HasDeletedRow(j)' => HasDeletedRow(j)
                        /\ MissesEndpoint(j)' => MissesEndpoint(j)
  PROVE  IInv'
<1> USE DEF IInv
<1>1. UNCHANGED <<endpoints, removing, removals, deliveries, timers, retries, received, faults>>
  BY DEF admin, memory
<1>2. RowsStay /\ \A r : Row(r)' = Row(r)
  BY <1>1, StayingRows, SameRows DEF TypeOK
<1>3. TypeOK'
  BY <1>1, <1>2, RowTypes DEF TypeOK
<1>4. HoldersStayOrGo
  BY <1>1 DEF HoldersStayOrGo
<1>5. /\ RowsAreNumbered' /\ HoldersDecide' /\ HoldersAreAlone'
      /\ \A j, e : Live(j, e)' \subseteq Live(j, e)
  BY <1>2, <1>4, HoldersGo DEF Undecided
<1>6. DeletedAreEmpty'
  BY <1>1, <1>2, DeletedStay
<1>7. NothingForgotten'
  <2>1. \A r : Held(r) => Held(r)'
    BY <1>1 DEF Held
  <2>2. QED
    BY <1>1, <1>2, <2>1, NoneForgotten
<1>8. ChainsAreCounted'
  <2>1. \A j, e : NewRun(j, e)' = NewRun(j, e)
    BY <1>1, RunNumbers
  <2>2. \A j \in Job, e \in Endpoints, k \in 1..MaxRuns : ChainOf(j, e, k) \in Chains
    BY DEF ChainOf, Chains, MaxRuns
  <2>3. QED
    BY <1>1, <2>1, <2>2 DEF ChainsAreCounted
<1>9. Budget'
  <2>1. ASSUME NEW j \in Job, NEW e \in Endpoints
        PROVE  received'[<<j, e>>] + Cardinality(Live(j, e)') + One(Due(j, e)') + Breaks(j)'
                 <= 1 + faults' + 2 * removals'
    <3>1. faults \in Nat
      BY DEF TypeOK
    <3>2. QED
      BY <1>1, <1>5, <3>1, BudgetStays
  <2>2. QED
    BY <2>1 DEF Budget
<1>10. QED
  BY <1>3, <1>5, <1>6, <1>7, <1>8, <1>9

LEMMA AddJobInv ==
  ASSUME IInv, NEW j0 \in Job, AddDispatchJob(j0)
  PROVE  IInv'
<1> USE DEF IInv
<1>1. /\ jobs[j0].state = "absent" /\ jobs' = [jobs EXCEPT ![j0] = Queued(0)]
      /\ UNCHANGED <<dispatcher, admin, deliveries, memory, received, faults>>
  BY DEF AddDispatchJob
<1>2. jobs[j0] \in JobOf({0}) /\ Queued(0) \in JobOf({0})
  <2>1. 0 \in {0}
    OBVIOUS
  <2>2. QED
    BY <2>1, JobTypes, JobNumbers
<1>3. /\ jobs' \in [Job -> JobOf({0})] /\ jobs'[j0] = Queued(0)
      /\ \A j \in Job : j # j0 => jobs'[j] = jobs[j]
  BY <1>1, <1>2 DEF TypeOK
<1>4. Queued(0).state = "waiting" /\ Queued(0).attempts = 0 /\ Queued(0).stalls = 0
  BY DEF Queued
<1>5. jobs[j0].attempts = 0 /\ jobs[j0].stalls = 0
  BY <1>1 DEF UnsettledHaveAttempts
<1>6. \A j \in Job : Ended(j)' = Ended(j)
  BY <1>3, <1>4, <1>5 DEF Ended
<1>7. \A g \in Hosts : ~Runs(g, j0)
  BY <1>1 DEF RunsAreActive, Runs
<1>8. RunsAreActive'
  BY <1>1, <1>3, <1>7 DEF RunsAreActive, At, Runs
<1>9. UnsettledHaveAttempts'
  BY <1>3, <1>4, BullAssumption DEF UnsettledHaveAttempts
<1>10. \A g, j : Runs(g, j)' <=> Runs(g, j)
  BY <1>1 DEF Runs, At
<1>11. ~Settled(jobs[j0]) /\ jobs[j0].state # "active" /\ ~Settled(jobs'[j0]) /\ jobs'[j0].state # "active"
  BY <1>1, <1>3, <1>4 DEF Settled
<1>12. \A j \in Job, e \in Endpoints :
         /\ StillToCome(j, e)' <=> StillToCome(j, e)
         /\ Due(j, e)' => Due(j, e)
  BY <1>1, <1>3, <1>10, <1>11 DEF StillToCome, Due, At
<1>13. \A j \in Job, e \in Endpoints :
         /\ jobs'[j].state = "active" => NewRun(j, e) <= Ended(j)' + 2
         /\ ~Settled(jobs'[j]) /\ (jobs'[j].state = "active" => StillToCome(j, e)')
              => NewRun(j, e) <= Ended(j)' + 1
  BY <1>3, <1>6, <1>11, <1>12 DEF ChainsAreCounted
<1>14. \A j \in Job : /\ HasDeletedRow(j)' => HasDeletedRow(j)
                      /\ MissesEndpoint(j)' => MissesEndpoint(j)
  BY <1>1, <1>10 DEF HasDeletedRow, MissesEndpoint, Row, Exists, admin
<1>15. dispatcher' \in [Hosts -> Run] /\ \A g \in Hosts : dispatcher'[g] = dispatcher[g]
  BY <1>1 DEF TypeOK
<1>16. QED
  BY <1>1, <1>3, <1>8, <1>9, <1>12, <1>13, <1>14, <1>15, WorkInv

LEMMA StartInv ==
  ASSUME IInv, NEW h \in Hosts, NEW j0 \in Job, StartJob(h, j0)
  PROVE  IInv'
<1> USE DEF IInv
<1>1. /\ At(h, "idle") /\ Runnable(jobs[j0]) /\ jobs' = [jobs EXCEPT ![j0] = Started(jobs[j0])]
      /\ Becomes(h, [Idle EXCEPT !.pc = "endpoints", !.job = j0])
      /\ UNCHANGED <<admin, deliveries, memory, received, faults>>
  BY DEF StartJob
<1>2. jobs[j0] \in JobOf({0}) /\ Started(jobs[j0]) \in JobOf({0})
  BY JobTypes, JobNumbers
<1>3. /\ jobs' \in [Job -> JobOf({0})] /\ jobs'[j0] = Started(jobs[j0])
      /\ \A j \in Job : j # j0 => jobs'[j] = jobs[j]
  BY <1>1, <1>2 DEF TypeOK
<1>4. /\ Started(jobs[j0]).state = "active" /\ Started(jobs[j0]).attempts = jobs[j0].attempts
      /\ Started(jobs[j0]).stalls = jobs[j0].stalls
  BY <1>2 DEF Started, JobOf
<1>5. /\ dispatcher' \in [Hosts -> Run] /\ OthersStay(h)
      /\ dispatcher'[h].pc = "endpoints" /\ dispatcher'[h].job = j0
      /\ dispatcher'[h].left = {} /\ dispatcher'[h].ok
  <2>1. [Idle EXCEPT !.pc = "endpoints", !.job = j0] \in Run
    BY DEF Idle, Run, PCs
  <2>2. /\ dispatcher' \in [Hosts -> Run] /\ OthersStay(h)
        /\ dispatcher'[h] = [Idle EXCEPT !.pc = "endpoints", !.job = j0]
    BY <1>1, <2>1, Moved DEF TypeOK
  <2>3. QED
    BY <2>2 DEF Idle
<1>6. \A j \in Job : Ended(j)' = Ended(j)
  BY <1>3, <1>4 DEF Ended
<1>7. jobs[j0].state # "active" /\ ~Settled(jobs[j0]) /\ jobs[j0].state # "absent"
  BY <1>1 DEF Runnable, Settled
<1>8. /\ \A g \in Hosts : ~Runs(g, j0)
      /\ \A g \in Hosts : Runs(g, j0)' <=> g = h
      /\ \A g \in Hosts, j \in Job : j # j0 =>
           /\ Runs(g, j)' <=> Runs(g, j)
           /\ Runs(g, j) => g # h /\ dispatcher'[g] = dispatcher[g]
  BY <1>1, <1>5, <1>7 DEF RunsAreActive, Runs, At, OthersStay
<1>9. RunsAreActive'
  BY <1>3, <1>4, <1>5, <1>8 DEF RunsAreActive, At, OthersStay, Runs
<1>10. UnsettledHaveAttempts'
  BY <1>3, <1>4, <1>7 DEF UnsettledHaveAttempts
<1>11. \A j \in Job, e \in Endpoints : j # j0 =>
         /\ StillToCome(j, e)' <=> StillToCome(j, e)
         /\ Due(j, e)' <=> Due(j, e)
  BY <1>3, <1>8 DEF StillToCome, Due, At
<1>12. \A e \in Endpoints : Due(j0, e)
  BY <1>7 DEF Due
<1>13. \A e \in Endpoints : NewRun(j0, e) <= Ended(j0) + 1 /\ NewRun(j0, e) <= Ended(j0) + 2
  <2>1. \A e \in Endpoints : NewRun(j0, e) <= Ended(j0) + 1
    BY <1>7 DEF ChainsAreCounted
  <2>2. QED
    BY <2>1, RunNumbers, JobNumbers
<1>14. \A j \in Job, e \in Endpoints :
         /\ jobs'[j].state = "active" => NewRun(j, e) <= Ended(j)' + 2
         /\ ~Settled(jobs'[j]) /\ (jobs'[j].state = "active" => StillToCome(j, e)')
              => NewRun(j, e) <= Ended(j)' + 1
         /\ Due(j, e)' => Due(j, e)
  BY <1>3, <1>6, <1>11, <1>12, <1>13 DEF ChainsAreCounted
<1>15. UNCHANGED <<endpoints, deliveries>>
  BY <1>1 DEF admin
<1>16. \A j \in Job : /\ HasDeletedRow(j)' => HasDeletedRow(j)
                      /\ MissesEndpoint(j)' => MissesEndpoint(j)
  BY <1>5, <1>8, <1>15 DEF HasDeletedRow, MissesEndpoint, Row, Exists, Holding
<1>17. \A g \in Hosts : dispatcher[g].pc \in Holding \/ dispatcher'[g].pc \in Holding
                          => dispatcher'[g] = dispatcher[g]
  BY <1>1, <1>5 DEF OthersStay, Holding, At
<1>18. QED
  BY <1>1, <1>3, <1>5, <1>9, <1>10, <1>14, <1>16, <1>17, WorkInv

\* The endpoints that are found exist.
LEMMA FindInv ==
  ASSUME IInv, NEW h \in Hosts, FindEndpoints(h)
  PROVE  IInv'
<1> USE DEF IInv
<1>1. /\ At(h, "endpoints")
      /\ Becomes(h, [dispatcher[h] EXCEPT !.pc = "create",
                                          !.left = {e \in Endpoints : endpoints[e] = "enabled"}])
      /\ UNCHANGED <<jobs, admin, deliveries, memory, received, faults>>
  BY DEF FindEndpoints
<1>2. /\ dispatcher' \in [Hosts -> Run] /\ OthersStay(h)
      /\ dispatcher'[h].pc = "create" /\ dispatcher'[h].job = dispatcher[h].job
      /\ dispatcher'[h].left = {e \in Endpoints : endpoints[e] = "enabled"}
      /\ dispatcher'[h].ok = dispatcher[h].ok
  <2>1. dispatcher[h] \in Run
    BY DEF TypeOK
  <2>2. [dispatcher[h] EXCEPT !.pc = "create",
                              !.left = {e \in Endpoints : endpoints[e] = "enabled"}] \in Run
    BY <2>1 DEF Run, PCs
  <2>3. /\ dispatcher' \in [Hosts -> Run] /\ OthersStay(h)
        /\ dispatcher'[h] = [dispatcher[h] EXCEPT !.pc = "create",
                                                  !.left = {e \in Endpoints : endpoints[e] = "enabled"}]
    BY <1>1, <2>2, Moved DEF TypeOK
  <2>4. QED
    BY <2>1, <2>3 DEF Run
<1>3. UNCHANGED <<jobs, endpoints, deliveries>> /\ ~At(h, "idle") /\ ~At(h, "settle")
      /\ dispatcher[h].pc \notin Holding
  BY <1>1 DEF admin, At, Holding
<1>4. StepsOn(h)
  BY <1>2, <1>3 DEF StepsOn, RunsAreActive
<1>5. RunsAreActive' /\ UnsettledHaveAttempts'
  BY <1>4, StepsOnRuns
<1>j. PICK j0 : j0 = dispatcher[h].job
  OBVIOUS
<1>6. \A e : Due(j0, e) /\ StillToCome(j0, e)
  BY <1>1, <1>3, <1>j, OwnJob
<1>7. ~MissesEndpoint(j0)' /\ ~HasDeletedRow(j0)'
  BY <1>2, <1>3, <1>4, <1>j, OwnJobNext DEF Exists, Holding
<1>8. \A r \in Rows : Row(r)'.deleted = Row(r).deleted
  BY <1>3, SameRows
<1>9. \A j \in Job, e \in Endpoints :
        /\ Due(j, e)' => Due(j, e)
        /\ StillToCome(j, e)' => StillToCome(j, e)
        /\ HasDeletedRow(j)' => HasDeletedRow(j)
        /\ MissesEndpoint(j)' => MissesEndpoint(j)
  BY <1>3, <1>4, <1>6, <1>7, <1>8, <1>j, OtherJobs
<1>10. \A j \in Job : /\ HasDeletedRow(j)' => HasDeletedRow(j)
                      /\ MissesEndpoint(j)' => MissesEndpoint(j)
  BY <1>3, <1>4, <1>7, <1>8, <1>j, OtherJobs
<1>11. \A j \in Job, e \in Endpoints :
         /\ jobs'[j].state = "active" => NewRun(j, e) <= Ended(j)' + 2
         /\ ~Settled(jobs'[j]) /\ (jobs'[j].state = "active" => StillToCome(j, e)')
              => NewRun(j, e) <= Ended(j)' + 1
         /\ Due(j, e)' => Due(j, e)
  BY <1>3, <1>9 DEF ChainsAreCounted, Ended
<1>12. \A g \in Hosts : dispatcher[g].pc \in Holding \/ dispatcher'[g].pc \in Holding
                          => dispatcher'[g] = dispatcher[g]
  BY <1>2, <1>3 DEF OthersStay, Holding
<1>13. jobs' \in [Job -> JobOf({0})]
  BY <1>3 DEF TypeOK
<1>14. QED
  BY <1>1, <1>2, <1>5, <1>10, <1>11, <1>12, <1>13, WorkInv

\* A run ends; after a failed one the job may begin one more chain.
LEMMA SettleInv ==
  ASSUME IInv, NEW h \in Hosts, SettleJob(h)
  PROVE  IInv'
<1> USE DEF IInv
<1>j. PICK j0 : j0 = dispatcher[h].job
  OBVIOUS
<1>1. /\ At(h, "settle") \/ At(h, "create")
      /\ jobs' = [jobs EXCEPT ![j0] =
                    IF dispatcher[h].ok THEN Completed(jobs[j0]) ELSE AttemptFailed(jobs[j0])]
      /\ Becomes(h, Idle)
      /\ UNCHANGED <<admin, deliveries, memory, received, faults>>
  BY <1>j DEF SettleJob
<1>2. /\ ~At(h, "idle") /\ dispatcher[h].pc \notin Holding
      /\ j0 \in Job /\ jobs[j0].state = "active" /\ ~Settled(jobs[j0]) /\ Runs(h, j0)
      /\ \A g \in Hosts : Runs(g, j0) => g = h
  <2>1. ~At(h, "idle") /\ dispatcher[h].pc \notin Holding
    BY <1>1 DEF At, Holding
  <2>2. QED
    BY <2>1, <1>j, RunsAlone
<1>3. jobs[j0] \in JobOf({0}) /\ jobs[j0].attempts < MaxAttempts
  BY <1>2, JobNumbers DEF UnsettledHaveAttempts
<1>4. PICK job : job = IF dispatcher[h].ok THEN Completed(jobs[j0]) ELSE AttemptFailed(jobs[j0])
  OBVIOUS
<1>5. /\ job \in JobOf({0}) /\ job.state \in {"completed", "delayed", "failed"}
      /\ ~Settled(job) => /\ ~dispatcher[h].ok /\ job.attempts < MaxAttempts
                          /\ job.attempts + job.stalls = Ended(j0) + 1
  <2>1. CASE dispatcher[h].ok
    <3>1. job = Completed(jobs[j0])
      BY <1>4, <2>1
    <3>2. job \in JobOf({0}) /\ job.state = "completed"
      BY <1>3, <3>1, JobTypes DEF Completed, JobOf
    <3>3. QED
      BY <3>2 DEF Settled
  <2>2. CASE ~dispatcher[h].ok
    <3>1. job = AttemptFailed(jobs[j0])
      BY <1>4, <2>2
    <3>2. job \in JobOf({0}) /\ (~Settled(job) => job.attempts < MaxAttempts)
      BY <1>3, <3>1, JobTypes, AttemptsAreLeft
    <3>3. /\ job.attempts = jobs[j0].attempts + 1 /\ job.stalls = jobs[j0].stalls
          /\ job.state \in {"delayed", "failed"}
      BY <1>3, <3>1 DEF AttemptFailed, JobOf
    <3>4. jobs[j0].attempts \in Nat /\ jobs[j0].stalls \in Nat
      BY <1>3, BullAssumption DEF JobOf
    <3>5. QED
      BY <2>2, <3>2, <3>3, <3>4 DEF Ended
  <2>3. QED
    BY <2>1, <2>2
<1>6. /\ jobs' \in [Job -> JobOf({0})] /\ jobs'[j0] = job
      /\ \A j \in Job : j # j0 => jobs'[j] = jobs[j]
  BY <1>1, <1>2, <1>4, <1>5 DEF TypeOK
<1>7. /\ dispatcher' \in [Hosts -> Run] /\ OthersStay(h) /\ dispatcher'[h].pc = "idle"
  BY <1>1, Moved, Idled DEF TypeOK
<1>8. /\ \A g \in Hosts : ~Runs(g, j0)'
      /\ \A g \in Hosts, j \in Job : j # j0 =>
           /\ Runs(g, j)' <=> Runs(g, j)
           /\ Runs(g, j) => g # h /\ dispatcher'[g] = dispatcher[g]
  <2>1. ASSUME NEW g \in Hosts, g # h PROVE dispatcher'[g] = dispatcher[g]
    BY <1>7, <2>1 DEF OthersStay
  <2>2. QED
    BY <1>2, <1>7, <1>j, <2>1 DEF Runs, At
<1>9. RunsAreActive'
  <2>1. ASSUME NEW g \in Hosts, ~At(g, "idle")'
        PROVE  g # h /\ dispatcher'[g] = dispatcher[g] /\ ~At(g, "idle") /\ dispatcher[g].job # j0
    <3>1. g # h /\ dispatcher'[g] = dispatcher[g] /\ ~At(g, "idle")
      BY <1>7, <2>1 DEF At, OthersStay
    <3>2. QED
      BY <1>2, <3>1 DEF Runs
  <2>2. \A g \in Hosts : ~At(g, "idle")' =>
          dispatcher'[g].job \in Job /\ jobs'[dispatcher'[g].job].state = "active"
    BY <1>6, <2>1 DEF RunsAreActive
  <2>3. \A f, g \in Hosts :
          ~At(f, "idle")' /\ ~At(g, "idle")' /\ dispatcher'[f].job = dispatcher'[g].job => f = g
    BY <2>1 DEF RunsAreActive
  <2>4. \A g \in Hosts : ~At(g, "settle")' => dispatcher'[g].ok
    <3>1. dispatcher'[h].ok
      BY <1>1, Moved, Idled DEF TypeOK
    <3>2. QED
      BY <1>7, <3>1 DEF RunsAreActive, At, OthersStay
  <2>5. QED
    BY <2>2, <2>3, <2>4 DEF RunsAreActive
<1>10. UnsettledHaveAttempts'
  BY <1>5, <1>6 DEF UnsettledHaveAttempts
<1>11. \A j \in Job, e \in Endpoints : j # j0 =>
         /\ StillToCome(j, e)' <=> StillToCome(j, e)
         /\ Due(j, e)' <=> Due(j, e)
  BY <1>6, <1>8 DEF StillToCome, Due, At
<1>12. ASSUME NEW e \in Endpoints
       PROVE  /\ jobs'[j0].state # "active"
              /\ ~Settled(jobs'[j0]) => NewRun(j0, e) <= Ended(j0)' + 1
              /\ Due(j0, e)' => Due(j0, e)
  <2>1. jobs'[j0].state # "active"
    BY <1>5, <1>6
  <2>2. ASSUME ~Settled(jobs'[j0]) PROVE NewRun(j0, e) <= Ended(j0)' + 1
    <3>1. Ended(j0)' = Ended(j0) + 1
      BY <1>5, <1>6, <2>2 DEF Ended
    <3>2. NewRun(j0, e) <= Ended(j0) + 2
      BY <1>2 DEF ChainsAreCounted
    <3>3. QED
      BY <1>2, <3>1, <3>2, JobNumbers, RunNumbers
  <2>3. ASSUME Due(j0, e)' PROVE Due(j0, e)
    <3>1. ~dispatcher[h].ok
      BY <1>5, <1>6, <2>3 DEF Due
    <3>2. QED
      BY <1>2, <1>j, <3>1, OwnJob
  <2>4. QED
    BY <2>1, <2>2, <2>3
<1>13. \A j \in Job, e \in Endpoints :
         /\ jobs'[j].state = "active" => NewRun(j, e) <= Ended(j)' + 2
         /\ ~Settled(jobs'[j]) /\ (jobs'[j].state = "active" => StillToCome(j, e)')
              => NewRun(j, e) <= Ended(j)' + 1
         /\ Due(j, e)' => Due(j, e)
  <2>1. \A j \in Job : j # j0 => Ended(j)' = Ended(j)
    BY <1>6 DEF Ended
  <2>2. QED
    BY <1>6, <1>11, <1>12, <2>1 DEF ChainsAreCounted
<1>14. UNCHANGED <<endpoints, deliveries>>
  BY <1>1 DEF admin
<1>15. \A j \in Job : /\ HasDeletedRow(j)' => HasDeletedRow(j)
                      /\ MissesEndpoint(j)' => MissesEndpoint(j)
  BY <1>8, <1>14 DEF HasDeletedRow, MissesEndpoint, Row, Exists
<1>16. \A g \in Hosts : dispatcher[g].pc \in Holding \/ dispatcher'[g].pc \in Holding
                          => dispatcher'[g] = dispatcher[g]
  BY <1>2, <1>7 DEF OthersStay, Holding
<1>17. QED
  BY <1>1, <1>6, <1>7, <1>9, <1>10, <1>13, <1>15, <1>16, WorkInv

\* A run that nobody makes any more is repeated.
LEMMA StalledInv ==
  ASSUME IInv, NEW j0 \in Job, StalledCheck(j0)
  PROVE  IInv'
<1> USE DEF IInv
<1>1. /\ jobs[j0].state = "active" /\ \A h \in Hosts : dispatcher[h].job # j0
      /\ jobs' = [jobs EXCEPT ![j0] = Stalled(jobs[j0])]
      /\ UNCHANGED <<dispatcher, admin, deliveries, memory, received, faults>>
  BY DEF StalledCheck
<1>2. jobs[j0] \in JobOf({0}) /\ Stalled(jobs[j0]) \in JobOf({0}) /\ ~Settled(jobs[j0])
      /\ jobs[j0].attempts < MaxAttempts
  BY <1>1, JobTypes, JobNumbers DEF Settled, UnsettledHaveAttempts
<1>3. PICK job : job = Stalled(jobs[j0])
  OBVIOUS
<1>4. /\ job.state \in {"waiting", "failed"} /\ job.attempts = jobs[j0].attempts
      /\ ~Settled(job) => job.attempts + job.stalls = Ended(j0) + 1
  <2>1. jobs[j0].attempts \in Nat /\ jobs[j0].stalls \in Nat
    BY <1>2, BullAssumption DEF JobOf
  <2>2. CASE jobs[j0].stalls < MaxStalls
    <3>1. job.state = "waiting" /\ job.attempts = jobs[j0].attempts /\ job.stalls = jobs[j0].stalls + 1
      BY <1>2, <1>3, <2>2 DEF Stalled, JobOf
    <3>2. QED
      BY <2>1, <3>1 DEF Ended
  <2>3. CASE ~(jobs[j0].stalls < MaxStalls)
    <3>1. job.state = "failed" /\ job.attempts = jobs[j0].attempts
      BY <1>2, <1>3, <2>3 DEF Stalled, JobOf
    <3>2. QED
      BY <3>1 DEF Settled
  <2>4. QED
    BY <2>2, <2>3
<1>5. /\ jobs' \in [Job -> JobOf({0})] /\ jobs'[j0] = job
      /\ \A j \in Job : j # j0 => jobs'[j] = jobs[j]
  BY <1>1, <1>2, <1>3 DEF TypeOK
<1>6. /\ \A g, j : Runs(g, j)' <=> Runs(g, j)
      /\ \A g \in Hosts : ~Runs(g, j0)
  BY <1>1 DEF Runs, At
<1>7. RunsAreActive'
  BY <1>1, <1>5 DEF RunsAreActive, At
<1>8. UnsettledHaveAttempts'
  BY <1>2, <1>4, <1>5 DEF UnsettledHaveAttempts
<1>9. \A j \in Job, e \in Endpoints : j # j0 =>
        /\ StillToCome(j, e)' <=> StillToCome(j, e)
        /\ Due(j, e)' <=> Due(j, e)
  BY <1>1, <1>5, <1>6 DEF StillToCome, Due, At
<1>10. ASSUME NEW e \in Endpoints
       PROVE  /\ jobs'[j0].state # "active"
              /\ ~Settled(jobs'[j0]) => NewRun(j0, e) <= Ended(j0)' + 1
              /\ Due(j0, e)
  <2>1. jobs'[j0].state # "active"
    BY <1>4, <1>5
  <2>2. ASSUME ~Settled(jobs'[j0]) PROVE NewRun(j0, e) <= Ended(j0)' + 1
    <3>1. Ended(j0)' = Ended(j0) + 1
      BY <1>4, <1>5, <2>2 DEF Ended
    <3>2. NewRun(j0, e) <= Ended(j0) + 2
      BY <1>1 DEF ChainsAreCounted
    <3>3. QED
      BY <3>1, <3>2, JobNumbers, RunNumbers
  <2>3. Due(j0, e)
    BY <1>2, <1>6 DEF Due
  <2>4. QED
    BY <2>1, <2>2, <2>3
<1>11. \A j \in Job, e \in Endpoints :
         /\ jobs'[j].state = "active" => NewRun(j, e) <= Ended(j)' + 2
         /\ ~Settled(jobs'[j]) /\ (jobs'[j].state = "active" => StillToCome(j, e)')
              => NewRun(j, e) <= Ended(j)' + 1
         /\ Due(j, e)' => Due(j, e)
  <2>1. \A j \in Job : j # j0 => Ended(j)' = Ended(j)
    BY <1>5 DEF Ended
  <2>2. QED
    BY <1>5, <1>9, <1>10, <2>1 DEF ChainsAreCounted
<1>12. \A j \in Job : /\ HasDeletedRow(j)' => HasDeletedRow(j)
                      /\ MissesEndpoint(j)' => MissesEndpoint(j)
  BY <1>1, <1>6 DEF HasDeletedRow, MissesEndpoint, Row, Exists, admin
<1>13. dispatcher' \in [Hosts -> Run] /\ \A g \in Hosts : dispatcher'[g] = dispatcher[g]
  BY <1>1 DEF TypeOK
<1>14. QED
  BY <1>1, <1>5, <1>7, <1>8, <1>11, <1>12, <1>13, WorkInv

-----------------------------------------------------------------------------
(* Crashes, and what operators do.                                         *)

\* A process restarts: one failure, which allows one more callback of each job.
LEMMA CrashInv ==
  ASSUME IInv, NEW h \in Hosts, Crash(h)
  PROVE  IInv'
<1> USE DEF IInv
<1>1. /\ CanUpset /\ faults' = faults + 1 /\ Becomes(h, Idle)
      /\ timers' \subseteq timers /\ retries' \subseteq retries
      /\ UNCHANGED <<jobs, admin, deliveries, received>>
  BY DEF Crash
<1>2. UNCHANGED <<endpoints, removing, removals, deliveries, received, jobs>>
  BY <1>1 DEF admin
<1>3. /\ faults' \in Nat /\ faults' >= faults /\ faults' # 0 /\ faults' + removals <= MaxUpsets
      /\ faults \in Nat
  BY <1>1, Upsets DEF TypeOK
<1>4. /\ dispatcher' \in [Hosts -> Run] /\ OthersStay(h) /\ dispatcher'[h].pc = "idle"
      /\ dispatcher'[h].ok
  BY <1>1, Moved, Idled DEF TypeOK
<1>5. RowsStay /\ \A r : Row(r)' = Row(r)
  BY <1>2, StayingRows, SameRows DEF TypeOK
<1>6. TypeOK'
  BY <1>1, <1>2, <1>3, <1>4, <1>5, RowTypes DEF TypeOK
<1>7. \A g \in Hosts : dispatcher'[g].pc # "idle" =>
        dispatcher'[g] = dispatcher[g] /\ dispatcher[g].pc # "idle"
  BY <1>4 DEF OthersStay
<1>8. RunsAreActive'
  BY <1>2, <1>4, <1>7 DEF RunsAreActive, At, OthersStay
<1>9. UnsettledHaveAttempts'
  BY <1>2 DEF UnsettledHaveAttempts
<1>10. HoldersStayOrGo
  BY <1>1, <1>7 DEF HoldersStayOrGo, Holding
<1>11. /\ RowsAreNumbered' /\ HoldersDecide' /\ HoldersAreAlone'
       /\ \A j, e : Live(j, e)' \subseteq Live(j, e)
  BY <1>5, <1>10, HoldersGo DEF Undecided
<1>12. DeletedAreEmpty'
  BY <1>2, <1>5, DeletedStay
<1>13. NothingForgotten'
  BY <1>3 DEF NothingForgotten
<1>14. /\ \A g \in Hosts, j \in Job : Runs(g, j)' => Runs(g, j) /\ dispatcher'[g] = dispatcher[g]
       /\ \A j \in Job, e \in Endpoints : StillToCome(j, e)' => StillToCome(j, e)
  BY <1>7 DEF Runs, StillToCome, At
<1>15. ChainsAreCounted'
  BY <1>2, <1>5, <1>14, CountsStay, NoChainBegins DEF TypeOK
<1>16. \A j \in Job : /\ HasDeletedRow(j)' => HasDeletedRow(j)
                      /\ MissesEndpoint(j)' => MissesEndpoint(j)
  BY <1>2, <1>5, <1>14 DEF HasDeletedRow, MissesEndpoint, Exists
<1>17. Budget'
  <2>1. ASSUME NEW j \in Job, NEW e \in Endpoints
        PROVE  received'[<<j, e>>] + Cardinality(Live(j, e)') + One(Due(j, e)') + Breaks(j)'
                 <= 1 + faults' + 2 * removals'
    <3>1. /\ Cardinality(Live(j, e)') <= Cardinality(Live(j, e))
          /\ Cardinality(Live(j, e)) \in Nat /\ Cardinality(Live(j, e)') \in Nat
      BY <1>11, LiveCount
    <3>2. One(Due(j, e)') \in 0..1 /\ One(Due(j, e)) \in 0..1
      BY DEF One
    <3>3. Breaks(j)' <= Breaks(j) /\ Breaks(j)' \in 0..3 /\ Breaks(j) \in 0..3
      BY <1>2, <1>16 DEF Breaks, One
    <3>4. QED
      BY <1>1, <1>2, <1>3, <3>1, <3>2, <3>3, Bounded
  <2>2. QED
    BY <2>1 DEF Budget
<1>18. QED
  BY <1>6, <1>8, <1>9, <1>11, <1>12, <1>13, <1>15, <1>17

\* What remains to be shown of a step that only changes the endpoints.
LEMMA AdminInv ==
  ASSUME IInv, UNCHANGED <<work, deliveries, memory, received, removals, faults>>,
         endpoints' \in [Endpoints -> {"enabled", "disabled", "deleted"}],
         removing' \in Endpoints \cup {None}, DeletedAreEmpty',
         \A j \in Job : Breaks(j)' <= Breaks(j)
  PROVE  IInv'
<1> USE DEF IInv
<1>1. UNCHANGED <<jobs, dispatcher, deliveries, timers, retries, received, removals, faults>>
  BY DEF work, memory
<1>2. RowsStay /\ \A r : Row(r)' = Row(r)
  BY <1>1, StayingRows, SameRows DEF TypeOK
<1>3. TypeOK'
  BY <1>1, <1>2, RowTypes DEF TypeOK
<1>4. /\ RunsAreActive' /\ UnsettledHaveAttempts'
      /\ \A j, e : StillToCome(j, e)' <=> StillToCome(j, e)
      /\ \A j, e : Due(j, e)' <=> Due(j, e)
  BY SameWork
<1>5. HoldersStayOrGo
  BY <1>1 DEF HoldersStayOrGo
<1>6. /\ RowsAreNumbered' /\ HoldersDecide' /\ HoldersAreAlone'
      /\ \A j, e : Live(j, e)' \subseteq Live(j, e)
  BY <1>2, <1>5, HoldersGo DEF Undecided
<1>7. ChainsAreCounted'
  BY <1>1, <1>2, <1>4, CountsStay, NoChainBegins DEF TypeOK
<1>8. NothingForgotten'
  <2>1. \A r : Held(r) => Held(r)'
    BY <1>1 DEF Held
  <2>2. QED
    BY <1>1, <1>2, <2>1, NoneForgotten
<1>9. Budget'
  <2>1. ASSUME NEW j \in Job, NEW e \in Endpoints
        PROVE  received'[<<j, e>>] + Cardinality(Live(j, e)') + One(Due(j, e)') + Breaks(j)'
                 <= 1 + faults' + 2 * removals'
    <3>1. /\ Cardinality(Live(j, e)') <= Cardinality(Live(j, e))
          /\ Cardinality(Live(j, e)) \in Nat /\ Cardinality(Live(j, e)') \in Nat
      BY <1>6, LiveCount
    <3>2. One(Due(j, e)') <= One(Due(j, e)) /\ One(Due(j, e)') \in 0..1 /\ One(Due(j, e)) \in 0..1
      BY <1>4 DEF One
    <3>3. Breaks(j)' <= Breaks(j) /\ Breaks(j)' \in 0..3 /\ Breaks(j) \in 0..3
      BY DEF Breaks, One
    <3>4. QED
      BY <1>1, <3>1, <3>2, <3>3, Bounded
  <2>2. QED
    BY <2>1 DEF Budget
<1>10. QED
  BY <1>3, <1>4, <1>6, <1>7, <1>8, <1>9

LEMMA UpdateEndpointInv ==
  ASSUME IInv, NEW e0 \in Endpoints, UpdateEndpoint(e0)
  PROVE  IInv'
<1>1. /\ Exists(e0) /\ UNCHANGED <<work, deliveries, memory, received, removing, removals, faults>>
      /\ endpoints' = [endpoints EXCEPT ![e0] = IF endpoints[e0] = "enabled" THEN "disabled" ELSE "enabled"]
  BY DEF UpdateEndpoint
<1>2. endpoints \in [Endpoints -> {"enabled", "disabled", "deleted"}] /\ removing \in Endpoints \cup {None}
  BY DEF IInv, TypeOK
<1>3. endpoints' \in [Endpoints -> {"enabled", "disabled", "deleted"}] /\ removing' \in Endpoints \cup {None}
  BY <1>1, <1>2
<1>4. \A e \in Endpoints : endpoints'[e] = "deleted" <=> endpoints[e] = "deleted"
  BY <1>1, <1>2 DEF Exists
<1>5. /\ Rows' = Rows /\ (\A r : Row(r)' = Row(r))
      /\ \A r \in Rows : r.chain.endpoint \in Endpoints
  <2>1. \A r \in Rows : r.chain.endpoint \in Endpoints
    BY InRows DEF IInv, TypeOK, Chains
  <2>2. QED
    BY <1>1, <2>1, SameRows
<1>6. DeletedAreEmpty'
  BY <1>4, <1>5 DEF IInv, DeletedAreEmpty
<1>7. ASSUME NEW j \in Job PROVE Breaks(j)' <= Breaks(j)
  <2>1. UNCHANGED dispatcher /\ \A g, k : Runs(g, k)' <=> Runs(g, k)
    BY <1>1, SameWork DEF work
  <2>2. HasDeletedRow(j)' <=> HasDeletedRow(j)
    BY <1>5, <2>1 DEF HasDeletedRow, Row
  <2>3. \A g \in Hosts : dispatcher[g].left \subseteq Endpoints
    BY DEF IInv, TypeOK, Run
  <2>4. MissesEndpoint(j)' <=> MissesEndpoint(j)
    BY <1>4, <2>1, <2>3 DEF MissesEndpoint, Exists
  <2>5. QED
    BY <1>1, <2>2, <2>4 DEF Breaks, One
<1>8. QED
  BY <1>1, <1>3, <1>6, <1>7, AdminInv

\* An endpoint whose deliveries are gone goes, too: a run that has yet to come to
\* it breaks, and the request is over.
LEMMA DeleteEndpointInv ==
  ASSUME IInv, DeleteEndpoint
  PROVE  IInv'
<1>1. /\ removing # None /\ removing' = None
      /\ UNCHANGED <<work, deliveries, memory, received, removals, faults>>
      /\ \/ /\ \A i \in Rows : i.chain.endpoint = removing => Row(i).deleted
            /\ endpoints' = [endpoints EXCEPT ![removing] = "deleted"]
         \/ UNCHANGED endpoints
  BY DEF DeleteEndpoint
<1>2. endpoints \in [Endpoints -> {"enabled", "disabled", "deleted"}] /\ removing \in Endpoints
  BY <1>1 DEF IInv, TypeOK
<1>3. endpoints' \in [Endpoints -> {"enabled", "disabled", "deleted"}] /\ removing' \in Endpoints \cup {None}
  BY <1>1, <1>2
<1>4. Rows' = Rows /\ \A r : Row(r)' = Row(r)
  BY <1>1, SameRows
<1>5. \A r \in Rows : r.chain.endpoint \in Endpoints
  BY InRows DEF IInv, TypeOK, Chains
<1>6. DeletedAreEmpty'
  BY <1>1, <1>2, <1>4, <1>5 DEF IInv, DeletedAreEmpty
<1>7. ASSUME NEW j \in Job PROVE Breaks(j)' <= Breaks(j)
  <2>1. UNCHANGED dispatcher /\ \A g, k : Runs(g, k)' <=> Runs(g, k)
    BY <1>1, SameWork DEF work
  <2>2. HasDeletedRow(j)' <=> HasDeletedRow(j)
    BY <1>4, <2>1 DEF HasDeletedRow, Row
  <2>3. One(removing # None) = 1 /\ One(removing # None)' = 0
    BY <1>1 DEF One
  <2>4. One(MissesEndpoint(j)) \in 0..1 /\ One(MissesEndpoint(j))' \in 0..1 /\ One(HasDeletedRow(j)) \in 0..1
        /\ One(HasDeletedRow(j))' = One(HasDeletedRow(j))
    BY <2>2 DEF One
  <2>5. QED
    BY <2>3, <2>4 DEF Breaks
<1>8. QED
  BY <1>1, <1>3, <1>6, <1>7, AdminInv

\* A request to delete an endpoint breaks a run at its row, if it has one, and
\* perhaps again when it deletes the endpoint.
LEMMA DeleteDeliveriesInv ==
  ASSUME IInv, NEW e0 \in Endpoints, DeleteDeliveries(e0)
  PROVE  IInv'
<1> USE DEF IInv
<1>1. /\ removing = None /\ CanUpset /\ removals' = removals + 1 /\ removing' = e0
      /\ UNCHANGED <<work, endpoints, memory, received, faults>>
  BY DEF DeleteDeliveries
<1>2. UNCHANGED <<jobs, dispatcher, endpoints, timers, retries, received, faults>>
  BY <1>1 DEF work, memory
<1>3. /\ removals' \in Nat /\ removals \in Nat /\ faults \in Nat /\ faults + removals' <= MaxUpsets
      /\ removing' # None /\ removing' \in Endpoints
  BY <1>1, Upsets, WebhookAssumption DEF TypeOK
<1>4. RowsStay
  BY StayingRows DEF TypeOK
<1>5. \A r \in Rows : /\ Row(r)'.status = Row(r).status
                      /\ Row(r)'.deleted = (Row(r).deleted \/ r.chain.endpoint = e0)
  BY DeletedStep DEF TypeOK
<1>6. TypeOK'
  BY <1>2, <1>3, <1>4, RowTypes DEF TypeOK
<1>7. /\ RunsAreActive' /\ UnsettledHaveAttempts'
      /\ \A j, e : StillToCome(j, e)' <=> StillToCome(j, e)
      /\ \A j, e : Due(j, e)' <=> Due(j, e)
      /\ \A g, j : Runs(g, j)' <=> Runs(g, j)
  BY <1>1, SameWork
<1>8. HoldersStayOrGo
  BY <1>2 DEF HoldersStayOrGo
<1>9. /\ RowsAreNumbered' /\ HoldersDecide' /\ HoldersAreAlone'
      /\ \A j, e : Live(j, e)' \subseteq Live(j, e)
  BY <1>4, <1>5, <1>8, HoldersGo DEF Undecided
<1>10. DeletedAreEmpty'
  BY <1>2, <1>4, DeletedStay
<1>11. ChainsAreCounted'
  BY <1>2, <1>4, <1>7, CountsStay, NoChainBegins DEF TypeOK
<1>12. NothingForgotten'
  <2>1. \A r : Held(r) => Held(r)'
    BY <1>2 DEF Held
  <2>2. QED
    BY <1>2, <1>4, <1>5, <2>1, NoneForgotten
<1>13. Budget'
  <2>1. ASSUME NEW j \in Job, NEW e \in Endpoints
        PROVE  received'[<<j, e>>] + Cardinality(Live(j, e)') + One(Due(j, e)') + Breaks(j)'
                 <= 1 + faults' + 2 * removals'
    <3>1. /\ Cardinality(Live(j, e)') <= Cardinality(Live(j, e))
          /\ Cardinality(Live(j, e)) \in Nat /\ Cardinality(Live(j, e)') \in Nat
      BY <1>9, LiveCount
    <3>2. One(Due(j, e)') <= One(Due(j, e)) /\ One(Due(j, e)') \in 0..1 /\ One(Due(j, e)) \in 0..1
      BY <1>7 DEF One
    <3>3. MissesEndpoint(j)' <=> MissesEndpoint(j)
      BY <1>2, <1>7 DEF MissesEndpoint, Exists
    <3>4. Breaks(j)' <= Breaks(j) + 2 /\ Breaks(j)' \in 0..3 /\ Breaks(j) \in 0..3
      <4>1. One(removing # None) = 0 /\ One(removing # None)' = 1
        BY <1>1, <1>3 DEF One
      <4>2. One(MissesEndpoint(j)) \in 0..1 /\ One(MissesEndpoint(j))' = One(MissesEndpoint(j))
            /\ One(HasDeletedRow(j)) \in 0..1 /\ One(HasDeletedRow(j))' \in 0..1
        BY <3>3 DEF One
      <4>3. QED
        BY <4>1, <4>2 DEF Breaks
    <3>5. QED
      BY <1>1, <1>2, <1>3, <3>1, <3>2, <3>4, Bounded
  <2>2. QED
    BY <2>1 DEF Budget
<1>14. QED
  BY <1>6, <1>7, <1>9, <1>10, <1>11, <1>12, <1>13

-----------------------------------------------------------------------------
(* The inductive invariant.                                                *)

LEMMA InitInv == Init => IInv
<1> SUFFICES ASSUME Init PROVE IInv
  OBVIOUS
<1>1. Rows = {} /\ \A c \in Chains : deliveries[c] = <<>> /\ Len(deliveries[c]) = 0
  BY DEF Init, Rows, RowsOf
<1>2. TypeOK
  <2>1. jobs \in [Job -> JobOf({0})]
    BY BullAssumption DEF Init, NoJob, JobOf, JobStates
  <2>2. MaxUpsets >= 0
    BY WebhookAssumption
  <2>3. deliveries \in [Chains -> Seq(Delivery)]
    BY DEF Init
  <2>4. QED
    BY <1>1, <2>1, <2>2, <2>3, Idled DEF Init, TypeOK
<1>3. \A h \in Hosts : At(h, "idle") /\ dispatcher[h].pc \notin Holding /\ dispatcher[h].ok
  BY Idled DEF Init, At, Holding
<1>4. \A j \in Job : jobs[j].state = "absent" /\ jobs[j].attempts = 0 /\ jobs[j].stalls = 0
  BY DEF Init, NoJob
<1>5. RunsAreActive /\ UnsettledHaveAttempts
  BY <1>3, <1>4, BullAssumption DEF RunsAreActive, UnsettledHaveAttempts
<1>6. \A j, e : NewRun(j, e) = 1
  <2>1. \A j, e : {c \in Chains : c.job = j /\ c.endpoint = e /\ deliveries[c] # <<>>} = {}
    BY <1>1
  <2>2. QED
    BY <2>1, FS_EmptySet DEF NewRun
<1>7. ChainsAreCounted
  <2>1. ASSUME NEW j \in Job, NEW e \in Endpoints, NEW k \in 1..MaxRuns
        PROVE  deliveries[ChainOf(j, e, k)] # <<>> <=> k < NewRun(j, e)
    <3>1. ChainOf(j, e, k) \in Chains
      BY DEF ChainOf, Chains, MaxRuns
    <3>2. k >= 1
      BY BullAssumption DEF MaxRuns
    <3>3. QED
      BY <1>1, <1>6, <3>1, <3>2
  <2>2. \A j \in Job : Ended(j) = 0
    BY <1>4 DEF Ended
  <2>3. QED
    BY <1>6, <2>1, <2>2 DEF ChainsAreCounted
<1>8. RowsAreNumbered
  <2>1. \A c \in Chains : AttemptLimit(c.endpoint) \in Nat
    BY LimitsArePositive DEF Chains
  <2>2. QED
    BY <1>1, <2>1 DEF RowsAreNumbered
<1>9. HoldersDecide /\ HoldersAreAlone
  BY <1>3 DEF Init, HoldersDecide, HoldersAreAlone
<1>10. DeletedAreEmpty /\ NothingForgotten
  BY <1>1 DEF DeletedAreEmpty, NothingForgotten
<1>11. Budget
  <2>1. ASSUME NEW j \in Job, NEW e \in Endpoints
        PROVE  received[<<j, e>>] + Cardinality(Live(j, e)) + One(Due(j, e)) + Breaks(j)
                 <= 1 + faults + 2 * removals
    <3>1. Live(j, e) = {}
      BY <1>3 DEF Init, Live, Sending, Holding, At
    <3>2. Cardinality(Live(j, e)) = 0
      BY <3>1, FS_EmptySet
    <3>3. One(Due(j, e)) \in 0..1
      BY DEF One
    <3>4. \A g \in Hosts : ~Runs(g, j)
      BY <1>3 DEF Runs
    <3>5. Breaks(j) = 0
      BY <3>4 DEF Init, Breaks, HasDeletedRow, MissesEndpoint, One
    <3>6. received[<<j, e>>] = 0 /\ faults = 0 /\ removals = 0
      BY DEF Init
    <3>7. QED
      BY <3>2, <3>3, <3>5, <3>6
  <2>2. QED
    BY <2>1 DEF Budget
<1>12. QED
  BY <1>2, <1>5, <1>7, <1>8, <1>9, <1>10, <1>11 DEF IInv

\* The steps of a host.
LEMMA StepInv ==
  ASSUME IInv, NEW h \in Hosts, Step(h)
  PROVE  IInv'
<1>1. CASE CreateDelivery(h)
  <2>1. PICK j0 : j0 = dispatcher[h].job
    OBVIOUS
  <2>2. PICK e0 \in dispatcher[h].left :
          \/ /\ Exists(e0)
             /\ deliveries' = Created(ChainOf(j0, e0, NewRun(j0, e0)), 1)
             /\ Becomes(h, [dispatcher[h] EXCEPT !.pc = "send",
                                                 !.row = NewRow(ChainOf(j0, e0, NewRun(j0, e0))),
                                                 !.left = dispatcher[h].left \ {e0}])
          \/ ~Exists(e0) /\ Throws(h) /\ UNCHANGED deliveries
    BY <1>1, <2>1 DEF CreateDelivery, ChainOf
  <2>3. At(h, "create") /\ UNCHANGED <<jobs, admin, memory, received, faults>>
    BY <1>1 DEF CreateDelivery
  <2>4. CASE ~Exists(e0) /\ Throws(h) /\ UNCHANGED deliveries
    BY <2>2, <2>3, <2>4, ThrowsInv DEF At, Holding
  <2>5. CASE /\ Exists(e0)
             /\ deliveries' = Created(ChainOf(j0, e0, NewRun(j0, e0)), 1)
             /\ Becomes(h, [dispatcher[h] EXCEPT !.pc = "send",
                                                 !.row = NewRow(ChainOf(j0, e0, NewRun(j0, e0))),
                                                 !.left = dispatcher[h].left \ {e0}])
    <3>1. PICK c0 : c0 = ChainOf(j0, e0, NewRun(j0, e0))
      OBVIOUS
    <3>2. QED
      BY <2>1, <2>2, <2>3, <2>5, <3>1, CreateFirstInv
  <2>6. QED
    BY <2>2, <2>4, <2>5
<1>2. CASE MarkDelivered(h)
  <2>1. PICK i : i = dispatcher[h].row
    OBVIOUS
  <2>2. CASE CanUpdate(i) /\ deliveries' = Marked(i, "delivered") /\ Finished(h)
    <3>1. PICK s : s = "delivered"
      OBVIOUS
    <3>2. QED
      BY <1>2, <2>1, <2>2, <3>1, MarkInv DEF MarkDelivered, At
  <2>3. CASE ~CanUpdate(i) /\ Throws(h) /\ UNCHANGED deliveries
    BY <1>2, <2>1, <2>3, ThrowsInv DEF MarkDelivered, At, Holding, CanUpdate
  <2>4. QED
    BY <1>2, <2>1, <2>2, <2>3 DEF MarkDelivered
<1>3. CASE MarkFailed(h)
  <2>1. PICK i : i = dispatcher[h].row
    OBVIOUS
  <2>2. CASE deliveries' = Marked(i, "dead") /\ Finished(h)
    <3>1. PICK s : s = "dead"
      OBVIOUS
    <3>2. QED
      BY <1>3, <2>1, <2>2, <3>1, MarkInv DEF MarkFailed, At
  <2>3. CASE ~Last(i) /\ deliveries' = Marked(i, "failed") /\ Goto(h, "schedule")
    <3>1. PICK s : s = "failed"
      OBVIOUS
    <3>2. QED
      BY <1>3, <2>1, <2>3, <3>1, MarkInv DEF MarkFailed, At
  <2>4. CASE ~CanUpdate(i) /\ Throws(h) /\ UNCHANGED deliveries
    BY <1>3, <2>1, <2>4, ThrowsInv DEF MarkFailed, At, Holding, CanUpdate
  <2>5. QED
    BY <1>3, <2>1, <2>2, <2>3, <2>4 DEF MarkFailed
<1>4. CASE ScheduleFirst(h)
  <2>1. PICK c0 : c0 = dispatcher[h].row.chain
    OBVIOUS
  <2>2. At(h, "schedule") /\ UNCHANGED <<jobs, admin, retries, received, faults>>
    BY <1>4 DEF ScheduleFirst
  <2>3. CASE /\ Exists(c0.endpoint)
             /\ deliveries' = Created(c0, 2)
             /\ timers' = timers \cup {[row |-> NewRow(c0), host |-> h]}
             /\ Finished(h)
    BY <2>1, <2>2, <2>3, CreateSecondInv
  <2>4. CASE ~Exists(c0.endpoint) /\ Throws(h) /\ UNCHANGED <<deliveries, timers>>
    <3>1. PICK i : i = dispatcher[h].row
      OBVIOUS
    <3>2. dispatcher[h].pc \in Holding /\ ~At(h, "idle")
      BY <2>2 DEF At, Holding
    <3>3. i \in Rows
      BY <3>1, <3>2 DEF IInv, HoldersDecide
    <3>4. endpoints[i.chain.endpoint] = "deleted"
      BY <2>1, <2>4, <3>1 DEF Exists
    <3>5. Row(dispatcher[h].row).deleted
      BY <3>1, <3>3, <3>4 DEF IInv, DeletedAreEmpty
    <3>6. QED
      BY <2>2, <2>4, <3>2, <3>5, ThrowsInv DEF memory
  <2>5. QED
    BY <1>4, <2>1, <2>3, <2>4 DEF ScheduleFirst
<1>5. QED
  BY <1>1, <1>2, <1>3, <1>4, FindInv, SendFirstInv, SettleInv DEF Step

\* The steps of a retry.
LEMMA RetryInv ==
  ASSUME IInv, NEW t \in retries, RetryStep(t)
  PROVE  IInv'
<1>1. CASE RetryDelivered(t)
  <2>1. PICK s : s = "delivered"
    OBVIOUS
  <2>2. QED
    BY <1>1, <2>1, RetryMarkInv DEF RetryDelivered
<1>2. CASE RetryFailed(t)
  <2>1. PICK s : s = IF MayRetry(t.row) THEN "failed" ELSE "dead"
    OBVIOUS
  <2>2. QED
    BY <1>2, <2>1, RetryMarkInv DEF RetryFailed
<1>3. CASE ScheduleNext(t)
  <2>1. PICK c0 : c0 = t.row.chain
    OBVIOUS
  <2>2. t.pc = "schedule" /\ UNCHANGED <<work, admin, received, faults>>
    BY <1>3 DEF ScheduleNext
  <2>3. CASE /\ Exists(c0.endpoint)
             /\ deliveries' = Created(c0, AttemptOf(t.row) + 1)
             /\ timers' = timers \cup {[row |-> NewRow(c0), host |-> t.host]}
             /\ GoesOn(t, "failed")
    BY <2>1, <2>2, <2>3, CreateNextInv
  <2>4. CASE ~Exists(c0.endpoint) /\ Ends(t) /\ UNCHANGED <<deliveries, timers>>
    <3>1. Row(t.row).deleted
      BY <2>1, <2>4 DEF IInv, TypeOK, DeletedAreEmpty, Exists
    <3>2. QED
      BY <2>2, <2>4, <3>1, DropInv DEF Ends
  <2>5. QED
    BY <1>3, <2>1, <2>3, <2>4 DEF ScheduleNext
<1>4. QED
  BY <1>1, <1>2, <1>3, SendAgainInv DEF RetryStep

LEMMA NextInv ==
  ASSUME IInv, Next
  PROVE  IInv'
<1>1. ASSUME NEW h \in Hosts, CallFails(h) PROVE IInv'
  BY <1>1, ThrowsInv DEF CallFails, At
<1>2. ASSUME NEW t \in timers, FindFails(t) PROVE IInv'
  BY <1>2, DropInv DEF FindFails
<1>3. ASSUME NEW t \in retries, RetryCallFails(t) PROVE IInv'
  BY <1>3, DropInv DEF RetryCallFails, Ends
<1>4. \A e \in Switchable : e \in Endpoints
  BY WebhookAssumption
<1>5. QED
  BY <1>1, <1>2, <1>3, <1>4, StepInv, RetryInv, CrashInv, StartInv, AddJobInv, StalledInv, FireInv,
     DeleteDeliveriesInv, UpdateEndpointInv, DeleteEndpointInv DEF Next

LEMMA StutterInv ==
  ASSUME IInv, UNCHANGED vars
  PROVE  IInv'
<1>1. UNCHANGED <<work, admin, deliveries, memory, received, removals, faults>>
  BY DEF vars, work, admin, memory
<1>2. timers' \subseteq timers /\ retries' \subseteq retries
      /\ (timers \ timers') \cup (retries \ retries') = {}
  BY DEF vars
<1>3. QED
  BY <1>1, <1>2, DropInv

\* What the host, the timers and the retries do to the rows, whatever fails and
\* whatever is deleted, keeps the invariant.
THEOREM Inductive == Spec => []IInv
<1>1. IInv /\ [Next]_vars => IInv'
  BY NextInv, StutterInv
<1>2. QED
  BY <1>1, InitInv, PTL DEF Spec

\* A row never has two holders, and the one of an earlier row only updates it.
LEMMA LiveAttempt == IInv => OneLiveAttempt
<1> SUFFICES ASSUME IInv, NEW i \in Rows
             PROVE  /\ Cardinality(HoldersOf(i)) <= 1
                    /\ i # Latest(i.chain) => HoldersOf(i) \subseteq {t \in retries : t.pc = "failed"}
  BY DEF OneLiveAttempt
<1>1. \A x, y \in HoldersOf(i) : x = y
  BY DEF IInv, HoldersAreAlone, HoldersOf
<1>2. Cardinality(HoldersOf(i)) <= 1
  <2>1. CASE HoldersOf(i) = {}
    BY <2>1, FS_EmptySet
  <2>2. CASE HoldersOf(i) # {}
    <3>1. PICK x : x \in HoldersOf(i)
      BY <2>2
    <3>2. HoldersOf(i) = {x}
      BY <1>1, <3>1
    <3>3. QED
      BY <3>2, FS_Singleton
  <2>3. QED
    BY <2>1, <2>2
<1>3. i # Latest(i.chain) => HoldersOf(i) \subseteq {t \in retries : t.pc = "failed"}
  BY DEF IInv, HoldersDecide, HoldersOf
<1>4. QED
  BY <1>2, <1>3

\* What has been sent is what the budget allows.
LEMMA WithinBudget == IInv => DeliveredOnce
<1> SUFFICES ASSUME IInv, NEW j \in Job, NEW e \in Endpoints
             PROVE  received[<<j, e>>] <= 1 + faults + 2 * removals
  BY DEF DeliveredOnce
<1>1. Cardinality(Live(j, e)) \in Nat
  BY LiveCount
<1>2. One(Due(j, e)) \in 0..1 /\ Breaks(j) \in 0..3
  BY DEF One, Breaks
<1>3. QED
  BY <1>1, <1>2, Bounded DEF IInv

\* Attempts need no lock and none is forgotten without a failure; an endpoint
\* gets a callback once, once more for each failure, twice more for each deletion.
THEOREM Orderly == Spec => []AttemptsAreOrderly
<1>1. IInv => AttemptsAreOrderly
  BY LiveAttempt, WithinBudget DEF IInv, AttemptsAreOrderly
<1>2. QED
  BY <1>1, Inductive, PTL

-----------------------------------------------------------------------------
(* Chains: the steps of WebhookDelivery are steps of DeliveryChain.        *)

ChainSteps == \A c \in Chains : Chain(c)!Next \/ UNCHANGED <<Attempt(c), Outcome(c)>>

LEMMA ChainInits == Init => \A c \in Chains : Chain(c)!Init
BY DEF Init, Chain!Init, Attempt, Outcome

LEMMA SameChains ==
  ASSUME NEW c, deliveries'[c] = deliveries[c]
  PROVE  UNCHANGED <<Attempt(c), Outcome(c)>>
<1>1. Latest(c)' = Latest(c) /\ Latest(c).chain = c
  BY DEF Latest
<1>2. Row(Latest(c))' = Row(Latest(c))
  BY <1>1 DEF Row
<1>3. QED
  BY <1>1, <1>2 DEF Attempt, Outcome, AttemptOf

\* The latest row of a chain, as the chain shows it.
LEMMA ChainAt ==
  ASSUME TypeOK, RowsAreNumbered, NEW i \in Rows, i = Latest(i.chain)
  PROVE  /\ i.chain \in Chains /\ i.chain.endpoint \in Endpoints
         /\ Attempt(i.chain) = i.n /\ i.n \in 1..AttemptLimit(i.chain.endpoint)
         /\ AttemptLimit(i.chain.endpoint) \in Nat
         /\ Outcome(i.chain) = IF Open(i) THEN "trying" ELSE Row(i).status
<1>1. /\ AttemptOf(i) = i.n /\ AttemptLimit(i.chain.endpoint) \in Nat /\ i.chain.endpoint \in Endpoints
      /\ i.n \in 1..Len(deliveries[i.chain]) /\ i.chain \in Chains
      /\ Len(deliveries[i.chain]) <= AttemptLimit(i.chain.endpoint)
  BY Numbered DEF LimitOf
<1>2. Len(deliveries[i.chain]) \in Nat /\ deliveries[i.chain] # <<>>
  BY <1>1 DEF TypeOK
<1>3. QED
  BY <1>1, <1>2 DEF Attempt, Outcome, Open

\* An update of the latest row goes on, delivers or gives up after the last
\* attempt; an update of an earlier row changes nothing.
LEMMA MarkedChain ==
  ASSUME TypeOK, RowsAreNumbered, NEW i \in Rows, NEW s \in {"delivered", "failed", "dead"},
         deliveries' = Marked(i, s),
         i = Latest(i.chain) => Open(i) /\ (s = "dead" => AttemptOf(i) >= LimitOf(i))
  PROVE  ChainSteps
<1>1. deliveries \in [Chains -> Seq(Delivery)]
  BY DEF TypeOK
<1>2. /\ i.chain \in Chains /\ i.n \in 1..Len(deliveries[i.chain]) /\ i = [chain |-> i.chain, n |-> i.n]
  BY <1>1, InRows
<1>3. ASSUME NEW c \in Chains, c # i.chain
      PROVE  UNCHANGED <<Attempt(c), Outcome(c)>>
  <2>1. deliveries'[c] = deliveries[c]
    BY <1>1, <1>3 DEF Marked
  <2>2. QED
    BY <2>1, SameChains
<1>4. PICK r : r = Latest(i.chain)
  OBVIOUS
<1>5. r \in Rows /\ r.chain = i.chain /\ deliveries[i.chain] # <<>> /\ deliveries'[i.chain] # <<>>
  <2>1. Len(deliveries[i.chain]) \in 1..Len(deliveries[i.chain])
    BY <1>1, <1>2
  <2>2. Len(deliveries'[i.chain]) = Len(deliveries[i.chain])
    BY <1>1, <1>2, MarkedStep
  <2>3. QED
    BY <1>1, <1>2, <1>4, <2>1, <2>2, InRows DEF Latest
<1>6. /\ Latest(i.chain)' = r /\ AttemptOf(r)' = AttemptOf(r)
      /\ Row(r)'.status = IF r = i THEN s ELSE Row(r).status
  BY <1>1, <1>2, <1>4, <1>5, MarkedStep DEF AttemptOf
<1>7. /\ Attempt(i.chain)' = AttemptOf(r)
      /\ Outcome(i.chain)' = IF Row(r)'.status \in {"pending", "failed"} THEN "trying" ELSE Row(r)'.status
  <2>1. AttemptOf(Latest(i.chain))' = AttemptOf(r)' /\ Row(Latest(i.chain))' = Row(r)'
    BY <1>6 DEF AttemptOf, Row
  <2>2. QED
    BY <1>5, <1>6, <2>1 DEF Attempt, Outcome
<1>8. /\ Attempt(i.chain) = AttemptOf(r)
      /\ Outcome(i.chain) = IF Row(r).status \in {"pending", "failed"} THEN "trying" ELSE Row(r).status
  BY <1>4, <1>5 DEF Attempt, Outcome
<1>9. Chain(i.chain)!Next \/ UNCHANGED <<Attempt(i.chain), Outcome(i.chain)>>
  <2>1. CASE r # i
    BY <1>6, <1>7, <1>8, <2>1
  <2>2. CASE r = i
    <3>1. Open(i) /\ Outcome(i.chain) = "trying" /\ Attempt(i.chain)' = Attempt(i.chain)
      BY <1>4, <1>7, <1>8, <2>2 DEF Open
    <3>2. CASE s = "failed"
      BY <1>6, <1>7, <2>2, <3>1, <3>2
    <3>3. CASE s = "delivered"
      <4>1. Outcome(i.chain)' = "delivered"
        BY <1>6, <1>7, <2>2, <3>3
      <4>2. QED
        BY <3>1, <4>1 DEF Chain!Next, Chain!Deliver
    <3>4. CASE s = "dead"
      <4>1. Outcome(i.chain)' = "dead"
        BY <1>6, <1>7, <2>2, <3>4
      <4>2. Attempt(i.chain) = AttemptLimit(i.chain.endpoint)
        BY <1>4, <1>8, <2>2, <3>4, Numbered, ChainAt DEF LimitOf
      <4>3. QED
        BY <3>1, <4>1, <4>2 DEF Chain!Next, Chain!GiveUp
    <3>5. QED
      BY <3>2, <3>3, <3>4
  <2>3. QED
    BY <2>1, <2>2
<1>10. QED
  BY <1>3, <1>9 DEF ChainSteps

\* A row is created first, or while the chain is trying and below its limit.
LEMMA CreatedChain ==
  ASSUME TypeOK, RowsAreNumbered, NEW c0 \in Chains, NEW a, a = Len(deliveries[c0]) + 1,
         a <= AttemptLimit(c0.endpoint), deliveries' = Created(c0, a),
         deliveries[c0] = <<>> \/ Outcome(c0) = "trying"
  PROVE  ChainSteps
<1>1. deliveries \in [Chains -> Seq(Delivery)] /\ Len(deliveries[c0]) \in Nat /\ a \in Nat
  BY DEF TypeOK
<1>2. /\ Len(deliveries'[c0]) = Len(deliveries[c0]) + 1
      /\ \A c \in Chains \ {c0} : deliveries'[c] = deliveries[c]
      /\ deliveries'[c0][Len(deliveries[c0]) + 1] = [attempt |-> a, status |-> "pending", deleted |-> FALSE]
  BY <1>1, CreatedStep
<1>3. Attempt(c0)' = a /\ Outcome(c0)' = "trying"
  <2>1. deliveries'[c0] # <<>>
    BY <1>1, <1>2
  <2>2. Latest(c0)'.chain = c0 /\ Latest(c0)'.n = a
    BY <1>2 DEF Latest
  <2>3. Row(Latest(c0))' = deliveries'[c0][a]
    BY <2>2 DEF Row
  <2>4. QED
    BY <1>2, <2>1, <2>3 DEF Attempt, Outcome, AttemptOf
<1>4. ASSUME NEW c \in Chains, c # c0 PROVE UNCHANGED <<Attempt(c), Outcome(c)>>
  BY <1>2, <1>4, SameChains
<1>5. Chain(c0)!Next
  <2>1. CASE deliveries[c0] = <<>>
    <3>1. Outcome(c0) = "none" /\ a = 1
      BY <2>1 DEF Outcome
    <3>2. QED
      BY <1>3, <3>1 DEF Chain!Next, Chain!Begin
  <2>2. CASE deliveries[c0] # <<>> /\ Outcome(c0) = "trying"
    <3>1. PICK r : r = Latest(c0)
      OBVIOUS
    <3>2. r \in Rows /\ r.chain = c0 /\ r.n = Len(deliveries[c0])
      <4>1. Len(deliveries[c0]) \in 1..Len(deliveries[c0])
        BY <1>1, <2>2
      <4>2. QED
        BY <1>1, <3>1, <4>1, InRows DEF Latest
    <3>3. Attempt(c0) = Len(deliveries[c0])
      BY <3>1, <3>2, ChainAt
    <3>4. Attempt(c0) < AttemptLimit(c0.endpoint) /\ a = Attempt(c0) + 1
      <4>1. c0.endpoint \in Endpoints
        BY DEF Chains
      <4>2. QED
        BY <1>1, <3>3, <4>1, LimitsArePositive
    <3>5. QED
      BY <1>3, <2>2, <3>4 DEF Chain!Next, Chain!TryAgain
  <2>3. QED
    BY <2>1, <2>2
<1>6. QED
  BY <1>4, <1>5 DEF ChainSteps

LEMMA NoChainMoves ==
  ASSUME UNCHANGED deliveries
  PROVE  ChainSteps
BY SameChains DEF ChainSteps

\* The steps of a host.
LEMMA HostChains ==
  ASSUME IInv, NEW h \in Hosts, Step(h)
  PROVE  ChainSteps
<1> USE DEF IInv
<1>1. CASE CreateDelivery(h)
  <2>1. PICK j0 : j0 = dispatcher[h].job
    OBVIOUS
  <2>2. PICK e0 \in dispatcher[h].left :
          \/ deliveries' = Created(ChainOf(j0, e0, NewRun(j0, e0)), 1)
          \/ UNCHANGED deliveries
    BY <1>1, <2>1 DEF CreateDelivery, ChainOf
  <2>3. CASE UNCHANGED deliveries
    BY <2>3, NoChainMoves
  <2>4. CASE deliveries' = Created(ChainOf(j0, e0, NewRun(j0, e0)), 1)
    <3>1. PICK c0 : c0 = ChainOf(j0, e0, NewRun(j0, e0))
      OBVIOUS
    <3>2. c0 \in Chains /\ deliveries[c0] = <<>>
      BY <1>1, <2>1, <3>1, FreshChain DEF CreateDelivery
    <3>3. PICK a : a = 1
      OBVIOUS
    <3>4. a = Len(deliveries[c0]) + 1 /\ a <= AttemptLimit(c0.endpoint)
      BY <3>2, <3>3, LimitsArePositive DEF Chains
    <3>5. QED
      BY <2>4, <3>1, <3>2, <3>3, <3>4, CreatedChain
  <2>5. QED
    BY <2>2, <2>3, <2>4
<1>2. CASE MarkDelivered(h)
  <2>1. PICK i : i = dispatcher[h].row
    OBVIOUS
  <2>2. i \in Rows /\ Open(i)
    BY <1>2, <2>1 DEF MarkDelivered, At, Holding, HoldersDecide
  <2>3. CASE deliveries' = Marked(i, "delivered")
    <3>1. PICK s : s = "delivered"
      OBVIOUS
    <3>2. QED
      BY <2>2, <2>3, <3>1, MarkedChain
  <2>4. CASE UNCHANGED deliveries
    BY <2>4, NoChainMoves
  <2>5. QED
    BY <1>2, <2>1, <2>3, <2>4 DEF MarkDelivered
<1>3. CASE MarkFailed(h)
  <2>1. PICK i : i = dispatcher[h].row
    OBVIOUS
  <2>2. i \in Rows /\ Open(i)
    BY <1>3, <2>1 DEF MarkFailed, At, Holding, HoldersDecide
  <2>3. CASE Last(i) /\ deliveries' = Marked(i, "dead")
    <3>1. PICK s : s = "dead"
      OBVIOUS
    <3>2. QED
      BY <2>2, <2>3, <3>1, MarkedChain DEF Last
  <2>4. CASE deliveries' = Marked(i, "failed")
    <3>1. PICK s : s = "failed"
      OBVIOUS
    <3>2. QED
      BY <2>2, <2>4, <3>1, MarkedChain
  <2>5. CASE UNCHANGED deliveries
    BY <2>5, NoChainMoves
  <2>6. QED
    BY <1>3, <2>1, <2>3, <2>4, <2>5 DEF MarkFailed
<1>4. CASE ScheduleFirst(h)
  <2>1. PICK i : i = dispatcher[h].row
    OBVIOUS
  <2>2. /\ i \in Rows /\ i = Latest(i.chain) /\ i.n = 1 /\ Open(i) /\ ~Last(i)
    BY <1>4, <2>1 DEF ScheduleFirst, At, Holding, HoldersDecide
  <2>3. CASE deliveries' = Created(i.chain, 2)
    <3>1. PICK c0 : c0 = i.chain
      OBVIOUS
    <3>2. c0 \in Chains /\ Outcome(c0) = "trying"
      BY <2>2, <3>1, ChainAt
    <3>3. Len(deliveries[c0]) = 1 /\ 2 <= AttemptLimit(c0.endpoint)
      <4>1. Len(deliveries[c0]) = i.n
        <5>1. i = Latest(c0)
          BY <2>2, <3>1
        <5>2. QED
          BY <5>1 DEF Latest
      <4>2. AttemptOf(i) = 1 /\ LimitOf(i) \in Nat
        BY <2>2, Numbered
      <4>3. QED
        BY <2>2, <3>1, <4>1, <4>2 DEF Last, LimitOf
    <3>4. PICK a : a = 2
      OBVIOUS
    <3>5. a = Len(deliveries[c0]) + 1 /\ a <= AttemptLimit(c0.endpoint) /\ deliveries' = Created(c0, a)
      BY <2>3, <3>1, <3>3, <3>4
    <3>6. QED
      BY <3>2, <3>5, CreatedChain
  <2>4. CASE UNCHANGED deliveries
    BY <2>4, NoChainMoves
  <2>5. QED
    BY <1>4, <2>1, <2>3, <2>4 DEF ScheduleFirst
<1>5. QED
  BY <1>1, <1>2, <1>3, <1>4, NoChainMoves DEF Step, FindEndpoints, SendFirst, SettleJob

\* The steps of a retry.
LEMMA RetryChains ==
  ASSUME IInv, NEW t \in retries, RetryStep(t)
  PROVE  ChainSteps
<1> USE DEF IInv
<1>1. PICK i : i = t.row
  OBVIOUS
<1>2. i \in Rows /\ (t.pc # "failed" => i = Latest(i.chain)) /\ (i = Latest(i.chain) => Open(i))
  BY <1>1 DEF TypeOK, HoldersDecide
<1>3. CASE RetryDelivered(t)
  <2>1. CASE deliveries' = Marked(i, "delivered")
    <3>1. PICK s : s = "delivered"
      OBVIOUS
    <3>2. QED
      BY <1>2, <2>1, <3>1, MarkedChain
  <2>2. QED
    BY <1>1, <1>3, <2>1, NoChainMoves DEF RetryDelivered
<1>4. CASE RetryFailed(t)
  <2>1. CASE deliveries' = Marked(i, IF MayRetry(i) THEN "failed" ELSE "dead")
    <3>1. PICK s : s = IF MayRetry(i) THEN "failed" ELSE "dead"
      OBVIOUS
    <3>2. s = "dead" => AttemptOf(i) >= LimitOf(i)
      BY <1>2, <3>1, Numbered DEF MayRetry
    <3>3. QED
      BY <1>2, <2>1, <3>1, <3>2, MarkedChain
  <2>2. QED
    BY <1>1, <1>4, <2>1, NoChainMoves DEF RetryFailed
<1>5. CASE ScheduleNext(t)
  <2>1. CASE deliveries' = Created(i.chain, AttemptOf(i) + 1)
    <3>1. PICK c0 : c0 = i.chain
      OBVIOUS
    <3>2. PICK a : a = AttemptOf(i) + 1
      OBVIOUS
    <3>3. i = Latest(c0) /\ MayRetry(i)
      BY <1>1, <1>2, <1>5, <3>1 DEF ScheduleNext, HoldersDecide
    <3>4. c0 \in Chains /\ Outcome(c0) = "trying"
      BY <1>2, <3>1, <3>3, ChainAt
    <3>5. a = Len(deliveries[c0]) + 1 /\ a <= AttemptLimit(c0.endpoint)
      <4>1. Len(deliveries[c0]) = i.n
        BY <3>1, <3>3 DEF Latest
      <4>2. AttemptOf(i) = i.n
        BY <1>2, Numbered
      <4>3. QED
        BY <3>1, <3>2, <3>3, <4>1, <4>2 DEF MayRetry, LimitOf
    <3>6. QED
      BY <2>1, <3>1, <3>2, <3>4, <3>5, CreatedChain
  <2>2. QED
    BY <1>1, <1>5, <2>1, NoChainMoves DEF ScheduleNext
<1>6. QED
  BY <1>3, <1>4, <1>5, NoChainMoves DEF RetryStep, SendAgain

\* A deletion ends no chain.
LEMMA DeletionChains ==
  ASSUME IInv, NEW e0 \in Endpoints, DeleteDeliveries(e0)
  PROVE  ChainSteps
<1>1. deliveries \in [Chains -> Seq(Delivery)]
  BY DEF IInv, TypeOK
<1>2. ASSUME NEW c \in Chains PROVE UNCHANGED <<Attempt(c), Outcome(c)>>
  <2>1. PICK r : r = Latest(c)
    OBVIOUS
  <2>2. Latest(c)' = r /\ Len(deliveries'[c]) = Len(deliveries[c]) /\ Len(deliveries[c]) \in Nat
        /\ deliveries'[c] \in Seq(Delivery)
    BY <1>1, <2>1, DeletedStep
  <2>3. CASE deliveries[c] = <<>>
    <3>1. deliveries'[c] = <<>>
      BY <1>1, <2>2, <2>3
    <3>2. QED
      BY <2>3, <3>1 DEF Attempt, Outcome
  <2>4. CASE deliveries[c] # <<>>
    <3>1. deliveries'[c] # <<>>
      BY <1>1, <2>2, <2>4
    <3>2. r \in Rows
      <4>1. Len(deliveries[c]) \in 1..Len(deliveries[c])
        BY <1>1, <2>4
      <4>2. QED
        BY <1>1, <2>1, <4>1, InRows DEF Latest
    <3>3. Row(r)'.attempt = Row(r).attempt /\ Row(r)'.status = Row(r).status
      BY <1>1, <3>2, DeletedStep
    <3>4. AttemptOf(Latest(c))' = Row(r)'.attempt /\ Row(Latest(c))' = Row(r)'
      BY <2>2 DEF AttemptOf, Row
    <3>5. QED
      BY <2>1, <2>4, <3>1, <3>3, <3>4 DEF Attempt, Outcome, AttemptOf
  <2>5. QED
    BY <2>3, <2>4
<1>3. QED
  BY <1>2 DEF ChainSteps

\* Every step of delivery is a step of each chain, or leaves it as it is.
LEMMA NextChains ==
  ASSUME IInv, Next
  PROVE  ChainSteps
<1>1. UNCHANGED deliveries => ChainSteps
  BY NoChainMoves
<1>2. ASSUME NEW h \in Hosts, CallFails(h) \/ Crash(h) PROVE ChainSteps
  BY <1>1, <1>2 DEF CallFails, Crash
<1>3. ASSUME NEW h \in Hosts, NEW j \in Job, StartJob(h, j) PROVE ChainSteps
  BY <1>1, <1>3 DEF StartJob
<1>4. ASSUME NEW j \in Job, AddDispatchJob(j) \/ StalledCheck(j) PROVE ChainSteps
  BY <1>1, <1>4 DEF AddDispatchJob, StalledCheck
<1>5. ASSUME NEW t \in timers, FireTimer(t) \/ FindFails(t) PROVE ChainSteps
  BY <1>1, <1>5 DEF FireTimer, FindFails
<1>6. ASSUME NEW t \in retries, RetryCallFails(t) PROVE ChainSteps
  BY <1>1, <1>6 DEF RetryCallFails
<1>7. ASSUME NEW e \in Switchable, UpdateEndpoint(e) PROVE ChainSteps
  BY <1>1, <1>7 DEF UpdateEndpoint
<1>8. ASSUME DeleteEndpoint PROVE ChainSteps
  BY <1>1, <1>8 DEF DeleteEndpoint
<1>9. QED
  BY <1>2, <1>3, <1>4, <1>5, <1>6, <1>7, <1>8, HostChains, RetryChains, DeletionChains DEF Next

\* Whatever fires, fails, restarts or is deleted, the attempts of a run make a
\* chain: one after the other, up to the limit, none after a delivery.
THEOREM Implements == Spec => ImplementsChains
<1>1. IInv /\ [Next]_vars => [ChainSteps]_vars
  BY NextChains
<1>2. ChainSteps <=> \A c \in Chains : Chain(c)!Next \/ UNCHANGED <<Attempt(c), Outcome(c)>>
  BY DEF ChainSteps
<1>3. IInv /\ [Next]_vars =>
        [\A c \in Chains : Chain(c)!Next \/ UNCHANGED <<Attempt(c), Outcome(c)>>]_vars
  BY <1>1, <1>2
<1>4. QED
  BY <1>3, ChainInits, Inductive, PTL DEF Spec, ImplementsChains
=============================================================================
