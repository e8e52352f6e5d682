------------------------------- MODULE Handoff -------------------------------
(***************************************************************************)
(* Conversations handed to human operators: OperatorPresenceService (keys  *)
(* in Redis that expire), HandoffDistributorService and the handoff half   *)
(* of ConversationsService.  A request is a process that takes one step    *)
(* per awaited call whose result can change; the message_events rows it    *)
(* also writes are never read back and are left out.                       *)
(***************************************************************************)
EXTENDS Integers, FiniteSets

CONSTANTS
  Conversations,  \* numbered in the order of created_at
  Operators,      \* user ids with a presence key at some time
  Members,        \* those that are users of the company
  Requests,       \* HTTP requests and agent tool calls served at a time
  MaxChats,       \* metadata.max_concurrent_chats of the client
  Targets,        \* assigned_to of a handoff request, None when left out
  Asked,          \* status of a heartbeat, None when left out
  StatusInputs,   \* status of a PATCH
  ModeInputs,     \* mode of a PATCH
  Routes,         \* the routes that are called
  None,
  MaxFaults

ASSUME HandoffAssumption ==
  /\ Conversations \subseteq Nat
  /\ IsFiniteSet(Conversations) /\ IsFiniteSet(Requests)
  /\ Members \subseteq Operators
  /\ MaxChats \in Nat \ {0}
  /\ Targets \subseteq Members \cup {None}
  /\ Asked \subseteq {"available", "finishing", None}
  /\ StatusInputs \subseteq {"active", "closed"}
  /\ ModeInputs \subseteq {"auto", "manual"}
  /\ None \notin Operators
  /\ None \notin {"available", "finishing"}
  /\ MaxFaults \in Nat

VARIABLES
  conv,      \* conversations: mode, status, assigned_to
  presence,  \* operator:presence:<company>:<user>, "off" when there is no key
  lastSeen,  \* operator:last_seen:<user>, "old" beyond five minutes or missing
  request,   \* the local variables of each request
  faults

vars == <<conv, presence, lastSeen, request, faults>>

Row ==
  [mode : {"auto", "manual"}, status : {"active", "closed"}, assigned : Operators \cup {None}]

Idle ==
  [pc |-> "idle", kind |-> "handoff", conv |-> 0, operator |-> None, asked |-> None,
   todo |-> {}, candidates |-> {}, uncounted |-> {}, loads |-> [o \in Operators |-> 0]]

PCs == {"idle", "handoff", "release", "beat", "drain", "queue", "sweep", "seen", "list",
        "count", "clear"}

At(p, pc) == request[p].pc = pc

Becomes(p, r) == request' = [request EXCEPT ![p] = r]

\* What the distributor counts as a chat of operator o.
Chats(o) ==
  {c \in Conversations :
     conv[c].mode = "manual" /\ conv[c].status = "active" /\ conv[c].assigned = o}

\* conversations.count for one operator.
Load(o) == Cardinality(Chats(o))

\* Mutant of Waiting: conversations that have an operator wait, too.
ManualAndActive(c) == conv[c].mode = "manual" /\ conv[c].status = "active"

Waiting(c) ==
  conv[c].mode = "manual" /\ conv[c].status = "active" /\ conv[c].assigned = None

Init ==
  /\ conv = [c \in Conversations |-> [mode |-> "auto", status |-> "active", assigned |-> None]]
  /\ presence = [o \in Operators |-> "off"]
  /\ lastSeen = [o \in Operators |-> "old"]
  /\ request = [p \in Requests |-> Idle]
  /\ faults = 0

-----------------------------------------------------------------------------
(* Handoff, release and the edits of the panel.                            *)

\* requestHandoff, first half: findById, and the operator it will be pinned to.
RequestHandoff(p, c, target) ==
  /\ At(p, "idle") /\ "handoff" \in Routes
  /\ Becomes(p, [Idle EXCEPT !.pc = "handoff", !.conv = c,
                             !.operator = IF target # None THEN target ELSE conv[c].assigned])
  /\ UNCHANGED <<conv, presence, lastSeen, faults>>

\* Second half: the update, and distribute() when nobody was pinned.
SetManual(p) ==
  /\ At(p, "handoff")
  /\ LET c == request[p].conv
         o == request[p].operator
     IN /\ conv' = [conv EXCEPT ![c].mode = "manual", ![c].assigned = o]
        /\ Becomes(p, IF o = None THEN [Idle EXCEPT !.pc = "list", !.conv = c] ELSE Idle)
  /\ UNCHANGED <<presence, lastSeen, faults>>

\* releaseHandoff refuses a conversation that is not manual when it reads it.
RequestRelease(p, c) ==
  /\ At(p, "idle") /\ "release" \in Routes
  /\ conv[c].mode = "manual"
  /\ Becomes(p, [Idle EXCEPT !.pc = "release", !.conv = c])
  /\ UNCHANGED <<conv, presence, lastSeen, faults>>

Release(p) ==
  /\ At(p, "release")
  /\ conv' = [conv EXCEPT ![request[p].conv].mode = "auto",
                          ![request[p].conv].assigned = None]
  /\ Becomes(p, Idle)
  /\ UNCHANGED <<presence, lastSeen, faults>>

\* reassignConversation: what it reads first only has to exist.
Reassign(c, o) ==
  /\ "reassign" \in Routes
  /\ o \in Members
  /\ conv' = [conv EXCEPT ![c].mode = "manual", ![c].assigned = o]
  /\ UNCHANGED <<presence, lastSeen, request, faults>>

\* updateConversation writes either column as it comes and keeps assigned_to.
UpdateStatus(c, s) ==
  /\ conv[c].status # s
  /\ conv' = [conv EXCEPT ![c].status = s]
  /\ UNCHANGED <<presence, lastSeen, request, faults>>

UpdateMode(c, m) ==
  /\ conv[c].mode # m
  /\ conv' = [conv EXCEPT ![c].mode = m]
  /\ UNCHANGED <<presence, lastSeen, request, faults>>

-----------------------------------------------------------------------------
(* Presence.                                                               *)

\* POST operator/heartbeat and operator/status, with or without a status.
RequestHeartbeat(p, route, o, status) ==
  /\ At(p, "idle") /\ route \in Routes
  /\ Becomes(p, [Idle EXCEPT !.pc = "beat", !.kind = route, !.operator = o, !.asked = status])
  /\ UNCHANGED <<conv, presence, lastSeen, faults>>

\* A default parameter turns a missing status into "available"; the status the
\* key already holds is read and not used.
StatusToSet(p) == IF request[p].asked = None THEN "available" ELSE request[p].asked

\* Mutant of Drains: only an explicit change of status empties the queue.
DrainsOnRequest(p) == request[p].kind = "status" /\ request[p].asked = "available"

\* Whether redistributeQueue follows: operator/status looks at the status it was
\* given, operator/heartbeat at the default as well.
Drains(p) ==
  \/ request[p].asked = "available"
  \/ request[p].kind = "heartbeat" /\ StatusToSet(p) = "available"

\* The pipeline that sets both keys.
Heartbeat(p) ==
  /\ At(p, "beat")
  /\ LET o == request[p].operator
     IN /\ presence' = [presence EXCEPT ![o] = StatusToSet(p)]
        /\ lastSeen' = [lastSeen EXCEPT ![o] = "recent"]
  /\ Becomes(p, IF Drains(p) THEN [Idle EXCEPT !.pc = "drain", !.kind = "queue"] ELSE Idle)
  /\ UNCHANGED <<conv, faults>>

\* setOffline deletes the presence key and leaves the other.
GoOffline(o) ==
  /\ presence[o] # "off" /\ "offline" \in Routes
  /\ presence' = [presence EXCEPT ![o] = "off"]
  /\ UNCHANGED <<conv, lastSeen, request, faults>>

\* 35 s without a heartbeat.
PresenceExpires(o) ==
  /\ presence[o] # "off"
  /\ presence' = [presence EXCEPT ![o] = "off"]
  /\ UNCHANGED <<conv, lastSeen, request, faults>>

\* Five minutes without one: the presence key is long gone.
LastSeenAges(o) ==
  /\ presence[o] = "off" /\ lastSeen[o] = "recent"
  /\ lastSeen' = [lastSeen EXCEPT ![o] = "old"]
  /\ UNCHANGED <<conv, presence, request, faults>>

-----------------------------------------------------------------------------
(* redistributeQueue and checkAndRedistributeAbandoned: a list read once,  *)
(* then one conversation after the other.                                  *)

\* The conversations of the queue, each with the operator it has: none.
FindWaiting(p) ==
  /\ At(p, "drain")
  /\ Becomes(p, [request[p] EXCEPT !.pc = "queue",
                   !.todo = {<<c, None>> : c \in {d \in Conversations : Waiting(d)}}])
  /\ UNCHANGED <<conv, presence, lastSeen, faults>>

\* Oldest first.
NextWaiting(p) ==
  /\ At(p, "queue")
  /\ \/ /\ request[p].todo = {}
        /\ Becomes(p, Idle)
     \/ \E t \in request[p].todo :
          /\ \A u \in request[p].todo : t[1] <= u[1]
          /\ Becomes(p, [request[p] EXCEPT !.pc = "list", !.conv = t[1],
                                           !.todo = request[p].todo \ {t}])
  /\ UNCHANGED <<conv, presence, lastSeen, faults>>

\* GET conversations looks for abandoned ones first.
RequestListing(p) ==
  /\ At(p, "idle") /\ "listing" \in Routes
  /\ LET assigned == {c \in Conversations : \E o \in Operators : c \in Chats(o)}
     IN Becomes(p, [Idle EXCEPT !.pc = "sweep", !.kind = "sweep",
                                !.todo = {<<c, conv[c].assigned>> : c \in assigned}])
  /\ UNCHANGED <<conv, presence, lastSeen, faults>>

\* isOnline of the operator the list names.
NextAssigned(p) ==
  /\ At(p, "sweep")
  /\ \/ /\ request[p].todo = {}
        /\ Becomes(p, Idle)
     \/ \E t \in request[p].todo :
          Becomes(p, [request[p] EXCEPT !.pc = IF presence[t[2]] = "off" THEN "seen" ELSE "sweep",
                                       !.conv = t[1], !.operator = t[2],
                                       !.todo = request[p].todo \ {t}])
  /\ UNCHANGED <<conv, presence, lastSeen, faults>>

\* Mutant of CheckLastSeen: operators seen recently are the abandoned ones.
CheckLastSeenSwapped(p) ==
  /\ At(p, "seen")
  /\ Becomes(p, [request[p] EXCEPT
                   !.pc = IF lastSeen[request[p].operator] = "old" THEN "sweep" ELSE "list"])
  /\ UNCHANGED <<conv, presence, lastSeen, faults>>

\* getLastSeen: gone for more than five minutes, or never seen.
CheckLastSeen(p) ==
  /\ At(p, "seen")
  /\ Becomes(p, [request[p] EXCEPT
                   !.pc = IF lastSeen[request[p].operator] = "old" THEN "list" ELSE "sweep"])
  /\ UNCHANGED <<conv, presence, lastSeen, faults>>

-----------------------------------------------------------------------------
(* distribute.                                                             *)

\* Where it returns to: its caller's loop, or the end of requestHandoff.
Return(p) ==
  IF request[p].kind = "handoff"
    THEN Becomes(p, Idle)
    ELSE Becomes(p, [Idle EXCEPT !.pc = request[p].kind, !.kind = request[p].kind,
                                 !.todo = request[p].todo])

\* listAvailable, and the users of the company among them.
ListAvailable(p) ==
  /\ At(p, "list")
  /\ LET available == {o \in Operators : presence[o] = "available"}
         known == available \cap Members
     IN \/ /\ available = {}
           /\ Becomes(p, [request[p] EXCEPT !.pc = "clear"])
        \/ /\ available # {} /\ known = {}
           /\ Return(p)
        \/ /\ known # {}
           /\ Becomes(p, [request[p] EXCEPT !.pc = "count", !.candidates = known,
                                            !.uncounted = known])
  /\ UNCHANGED <<conv, presence, lastSeen, faults>>

\* Nobody available: the conversation goes back to the queue.
Clear(p) ==
  /\ At(p, "clear")
  /\ conv' = [conv EXCEPT ![request[p].conv].assigned = None]
  /\ Return(p)
  /\ UNCHANGED <<presence, lastSeen, faults>>

\* The counts of Promise.all are queries of their own.
CountLoad(p, o) ==
  /\ At(p, "count") /\ o \in request[p].uncounted
  /\ Becomes(p, [request[p] EXCEPT !.loads[o] = Load(o),
                                   !.uncounted = request[p].uncounted \ {o}])
  /\ UNCHANGED <<conv, presence, lastSeen, faults>>

\* Mutant of Eligible: off by one.
EligibleAtLimit(p) == {o \in request[p].candidates : request[p].loads[o] <= MaxChats}

Eligible(p) == {o \in request[p].candidates : request[p].loads[o] < MaxChats}

LeastLoaded(p) ==
  {o \in Eligible(p) : \A q \in Eligible(p) : request[p].loads[o] <= request[p].loads[q]}

\* The assignment is written over whatever the conversation has become.
Assign(p) ==
  /\ At(p, "count") /\ request[p].uncounted = {}
  /\ \/ /\ Eligible(p) = {}
        /\ conv' = [conv EXCEPT ![request[p].conv].assigned = None]
     \/ \E o \in LeastLoaded(p) :
          conv' = [conv EXCEPT ![request[p].conv].assigned = o]
  /\ Return(p)
  /\ UNCHANGED <<presence, lastSeen, faults>>

\* A query rejects: the request ends with an error, and its loop with it.
RequestFails(p) ==
  /\ ~At(p, "idle")
  /\ faults < MaxFaults
  /\ faults' = faults + 1
  /\ Becomes(p, Idle)
  /\ UNCHANGED <<conv, presence, lastSeen>>

-----------------------------------------------------------------------------
Step(p) ==
  \/ SetManual(p) \/ Release(p) \/ Heartbeat(p)
  \/ FindWaiting(p) \/ NextWaiting(p) \/ NextAssigned(p) \/ CheckLastSeen(p)
  \/ ListAvailable(p) \/ Clear(p) \/ Assign(p)
  \/ \E o \in Operators : CountLoad(p, o)

Start(p) ==
  \/ \E c \in Conversations, o \in Targets : RequestHandoff(p, c, o)
  \/ \E c \in Conversations : RequestRelease(p, c)
  \/ \E route \in {"heartbeat", "status"}, o \in Operators, s \in Asked :
       RequestHeartbeat(p, route, o, s)
  \/ RequestListing(p)

Panel ==
  \/ \E c \in Conversations, o \in Operators : Reassign(c, o)
  \/ \E c \in Conversations, s \in StatusInputs : UpdateStatus(c, s)
  \/ \E c \in Conversations, m \in ModeInputs : UpdateMode(c, m)

Presence ==
  \E o \in Operators : GoOffline(o) \/ PresenceExpires(o) \/ LastSeenAges(o)

Next ==
  \/ \E p \in Requests : Start(p) \/ Step(p) \/ RequestFails(p)
  \/ Panel
  \/ Presence

Spec == Init /\ [][Next]_vars

\* A request that began is served to its end.
FairSpec == Spec /\ \A p \in Requests : WF_vars(Step(p))

-----------------------------------------------------------------------------
(* Properties.                                                             *)

\* Rows, keys and requests have the expected shape.
TypeOK ==
  /\ conv \in [Conversations -> Row]
  /\ presence \in [Operators -> {"off", "available", "finishing"}]
  /\ lastSeen \in [Operators -> {"recent", "old"}]
  /\ \A p \in Requests :
       /\ request[p].pc \in PCs
       /\ request[p].kind \in {"handoff", "heartbeat", "status", "queue", "sweep"}
       /\ request[p].operator \in Operators \cup {None}
       /\ request[p].asked \in Asked \cup {None}
       /\ request[p].todo \subseteq Conversations \X (Operators \cup {None})
       /\ request[p].uncounted \subseteq request[p].candidates
       /\ request[p].candidates \subseteq Members
       /\ request[p].loads \in [Operators -> Nat]
  /\ faults \in 0..MaxFaults

\* In this step, request p gives its conversation to operator o.
Gives(p, o) ==
  /\ At(p, "count") /\ request[p].uncounted = {}
  /\ ~At(p, "count")' /\ faults' = faults
  /\ conv'[request[p].conv].assigned = o

\* A conversation goes to an operator who has, at that moment, no more chats
\* than any other the distributor found available.
LeastLoadedWins ==
  [][\A p \in Requests, o \in Operators :
       Gives(p, o) => \A q \in request[p].candidates : Load(o) <= Load(q)]_vars

\* The queue and handoffs without an operator give away conversations that wait
\* for one: manual, and nobody's.
OnlyWaitingAreDistributed ==
  [][\A p \in Requests, o \in Operators :
       Gives(p, o) /\ request[p].kind # "sweep" =>
         /\ conv[request[p].conv].mode = "manual"
         /\ conv[request[p].conv].assigned = None]_vars

\* Distributions that do not overlap go where they should, and nowhere else.
DistributionIsOrderly == LeastLoadedWins /\ OnlyWaitingAreDistributed

\* Counts and assignments are separate calls, so distributions that overlap can
\* exceed the limit, but by no more than one chat for each other request.
OverCapacityNeedsOverlap ==
  \A o \in Operators : Load(o) <= MaxChats + Cardinality(Requests) - 1

\* Whoever keeps sending heartbeats and has room empties the queue: a
\* conversation does not wait for ever, whatever fails or overlaps.
QueueDrains ==
  \A c \in Conversations, o \in Members :
    /\ <>[](presence[o] = "available" /\ Load(o) < MaxChats)
    /\ []<>(\E p \in Requests : At(p, "beat") /\ request[p].operator = o)
    => []<>(~Waiting(c))

\* A conversation does not stay for ever with an operator who has gone, as long
\* as somebody lists conversations.
AbandonedAreMoved ==
  \A c \in Conversations, o \in Operators :
    []<>(\E p \in Requests : At(p, "sweep")) =>
      []<>~(c \in Chats(o) /\ presence[o] = "off" /\ lastSeen[o] = "old")
=============================================================================
