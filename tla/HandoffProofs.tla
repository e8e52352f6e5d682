---------------------------- MODULE HandoffProofs ----------------------------
(***************************************************************************)
(* For any number of conversations, operators and requests: distributions  *)
(* that overlap exceed max_concurrent_chats by at most one chat for each   *)
(* other request.  An operator's chats and the conversations a handoff     *)
(* request is about to write back to them are counted together with the    *)
(* requests that have seen room for one more chat.  Distributions that do  *)
(* not overlap act on loads and conversations that are still what they     *)
(* were when they were read.                                               *)
(***************************************************************************)
EXTENDS Handoff, FiniteSetTheorems, TLAPS

\* The panel neither pins nor frees nor reopens: every operator was given by the
\* distributor.
NothingByHand ==
  /\ Targets = {None}
  /\ Routes \cap {"release", "reassign"} = {}
  /\ StatusInputs \subseteq {"closed"}
  /\ ModeInputs = {}

\* Active conversations some request is about to write back to operator o.
Pinned(o) ==
  {c \in Conversations :
     /\ conv[c].status = "active"
     /\ \E p \in Requests : At(p, "handoff") /\ request[p].conv = c /\ request[p].operator = o}

Reach(o) == Chats(o) \cup Pinned(o)

\* Requests that counted the chats of operator o and found room.
SawRoom(o) ==
  {p \in Requests :
     /\ At(p, "count")
     /\ o \in request[p].candidates \ request[p].uncounted
     /\ request[p].loads[o] < MaxChats}

Pinning(o) == {p \in Requests : At(p, "handoff") /\ request[p].operator = o}

Entries == Conversations \X (Operators \cup {None})
AssignedEntries == Conversations \X Operators

Local ==
  [pc : PCs, kind : {"handoff", "heartbeat", "status", "queue", "sweep"},
   conv : Conversations \cup {0}, operator : Operators \cup {None},
   asked : {"available", "finishing", None},
   todo : SUBSET Entries,
   candidates : SUBSET Operators, uncounted : SUBSET Operators,
   loads : [Operators -> Nat]]

\* The local variables of one request, and which of them a step may rely on.
LocalOK(r) ==
  /\ r \in Local
  /\ r.pc \in {"handoff", "release", "seen", "list", "count", "clear"} => r.conv \in Conversations
  /\ r.pc \in {"beat", "seen"} => r.operator \in Operators
  /\ r.pc \in {"queue", "sweep"} => r.kind = r.pc
  /\ r.pc = "drain" => r.kind = "queue"
  /\ r.pc = "seen" => r.kind = "sweep"
  /\ r.pc \in {"list", "count", "clear"} => r.kind \in {"handoff", "queue", "sweep"}
  /\ r.kind = "sweep" => r.todo \subseteq AssignedEntries

Typed ==
  /\ conv \in [Conversations -> Row]
  /\ request \in [Requests -> Local]
  /\ \A p \in Requests : LocalOK(request[p])

\* Whatever a distribution works on is manual already, and nobody goes back.
ManualStays ==
  /\ \A c \in Conversations : conv[c].mode = "auto" => conv[c].assigned = None
  /\ \A p \in Requests :
       /\ request[p].pc # "release"
       /\ request[p].pc \in {"seen", "list", "count", "clear"} => conv[request[p].conv].mode = "manual"
       /\ \A t \in request[p].todo : conv[t[1]].mode = "manual"

RoomBound ==
  \A o \in Operators :
    Cardinality(Reach(o)) + Cardinality(SawRoom(o)) <= MaxChats - 1 + Cardinality(Requests)

BoundInv == Typed /\ ManualStays /\ RoomBound
-----------------------------------------------------------------------------
\* One request moves on; the conversations keep their shape.
LEMMA Turn ==
  ASSUME Typed, NEW p \in Requests, NEW r, LocalOK(r), Becomes(p, r),
         conv' \in [Conversations -> Row]
  PROVE  Typed'
BY DEF Typed, Becomes, LocalOK

\* A list of assigned conversations is a list of conversations.
LEMMA AssignedAreEntries == AssignedEntries \subseteq Entries
BY DEF AssignedEntries, Entries

\* A request that serves nothing is well formed.
LEMMA IdleOK == LocalOK(Idle)
BY HandoffAssumption DEF LocalOK, Local, Idle, PCs

\* Load is a number of conversations.
LEMMA LoadIsNat ==
  ASSUME NEW o PROVE Load(o) \in Nat
<1>1. IsFiniteSet(Chats(o))
  BY HandoffAssumption, FS_Subset DEF Chats
<1> QED BY <1>1, FS_CardinalityType DEF Load

\* The initial state has the types.
LEMMA TypedInit == Init => Typed
BY IdleOK DEF Init, Typed, Row, LocalOK

\* Every step keeps the types.
LEMMA TypedStep == Typed /\ [Next]_vars => Typed'
<1> SUFFICES ASSUME Typed, [Next]_vars PROVE Typed'
  OBVIOUS
<1> USE DEF Typed
<1>conv. ASSUME NEW c \in Conversations, NEW o \in Operators \cup {None}
         PROVE  [conv EXCEPT ![c].assigned = o] \in [Conversations -> Row]
  BY DEF Row
<1>start. ASSUME NEW p \in Requests, Start(p) PROVE Typed'
  <2>1. CASE \E c \in Conversations, o \in Targets : RequestHandoff(p, c, o)
    <3> PICK c \in Conversations, o \in Targets : RequestHandoff(p, c, o)
      BY <2>1
    <3> DEFINE t == IF o # None THEN o ELSE conv[c].assigned
    <3>1. t \in Operators \cup {None}
      BY HandoffAssumption DEF Row
    <3> HIDE DEF t
    <3>2. LocalOK([Idle EXCEPT !.pc = "handoff", !.conv = c, !.operator = t])
      BY <3>1, IdleOK DEF LocalOK, Local, Idle, PCs
    <3> QED BY <3>2, Turn DEF RequestHandoff, t
  <2>2. CASE \E c \in Conversations : RequestRelease(p, c)
    <3> PICK c \in Conversations : RequestRelease(p, c)
      BY <2>2
    <3>1. LocalOK([Idle EXCEPT !.pc = "release", !.conv = c])
      BY IdleOK DEF LocalOK, Local, Idle, PCs
    <3> QED BY <3>1, Turn DEF RequestRelease
  <2>3. CASE \E route \in {"heartbeat", "status"}, o \in Operators, s \in Asked :
               RequestHeartbeat(p, route, o, s)
    <3> PICK route \in {"heartbeat", "status"}, o \in Operators, s \in Asked :
               RequestHeartbeat(p, route, o, s)
      BY <2>3
    <3>1. LocalOK([Idle EXCEPT !.pc = "beat", !.kind = route, !.operator = o, !.asked = s])
      BY IdleOK, HandoffAssumption DEF LocalOK, Local, Idle, PCs
    <3> QED BY <3>1, Turn DEF RequestHeartbeat
  <2>4. CASE RequestListing(p)
    <3> DEFINE list == {<<c, conv[c].assigned>> :
                          c \in {d \in Conversations : \E o \in Operators : d \in Chats(o)}}
    <3>1. list \in SUBSET AssignedEntries
      BY DEF Chats, AssignedEntries
    <3>3. Becomes(p, [Idle EXCEPT !.pc = "sweep", !.kind = "sweep", !.todo = list])
      BY <2>4 DEF RequestListing
    <3> HIDE DEF list
    <3>2. LocalOK([Idle EXCEPT !.pc = "sweep", !.kind = "sweep", !.todo = list])
      BY <3>1, IdleOK, AssignedAreEntries DEF LocalOK, Local, Idle, PCs
    <3> QED BY <3>2, <3>3, <2>4, Turn DEF RequestListing
  <2> QED BY <1>start, <2>1, <2>2, <2>3, <2>4 DEF Start
<1>return. ASSUME NEW p \in Requests, Return(p), conv' \in [Conversations -> Row],
                  request[p].kind \in {"handoff", "queue", "sweep"}
           PROVE  Typed'
  <2>1. CASE request[p].kind = "handoff"
    BY <1>return, <2>1, IdleOK, Turn DEF Return
  <2>2. CASE request[p].kind # "handoff"
    <3>1. LocalOK([Idle EXCEPT !.pc = request[p].kind, !.kind = request[p].kind,
                               !.todo = request[p].todo])
      BY <1>return, <2>2, IdleOK DEF LocalOK, Local, Idle, PCs
    <3> QED BY <1>return, <2>2, <3>1, Turn DEF Return
  <2> QED BY <2>1, <2>2
<1>step. ASSUME NEW p \in Requests, Step(p) PROVE Typed'
  <2> USE DEF LocalOK
  <2>1. CASE SetManual(p)
    <3> DEFINE c == request[p].conv
               o == request[p].operator
    <3>1. c \in Conversations /\ o \in Operators \cup {None}
      BY <2>1 DEF SetManual, At, Local
    <3>2. conv' \in [Conversations -> Row]
      BY <2>1, <3>1 DEF SetManual, Row
    <3>3. LocalOK([Idle EXCEPT !.pc = "list", !.conv = c])
      BY <3>1, IdleOK DEF Local, Idle, PCs
    <3>4. Becomes(p, IF o = None THEN [Idle EXCEPT !.pc = "list", !.conv = c] ELSE Idle)
      BY <2>1 DEF SetManual
    <3> QED BY <3>2, <3>3, <3>4, IdleOK, Turn
  <2>2. CASE Release(p)
    <3>1. conv' \in [Conversations -> Row]
      BY <2>2 DEF Release, At, Row
    <3> QED BY <2>2, <3>1, IdleOK, Turn DEF Release
  <2>3. CASE Heartbeat(p)
    <3>1. LocalOK([Idle EXCEPT !.pc = "drain", !.kind = "queue"])
      BY IdleOK DEF Local, Idle, PCs
    <3> QED BY <2>3, <3>1, IdleOK, Turn DEF Heartbeat
  <2>4. CASE FindWaiting(p)
    <3> DEFINE list == {<<c, None>> : c \in {d \in Conversations : Waiting(d)}}
    <3>1. list \in SUBSET Entries
      BY DEF Entries
    <3>3. Becomes(p, [request[p] EXCEPT !.pc = "queue", !.todo = list])
      BY <2>4 DEF FindWaiting
    <3> HIDE DEF list
    <3>2. LocalOK([request[p] EXCEPT !.pc = "queue", !.todo = list])
      BY <2>4, <3>1 DEF FindWaiting, At, Local, PCs
    <3> QED BY <2>4, <3>2, <3>3, Turn DEF FindWaiting
  <2>5. CASE NextWaiting(p)
    <3>1. CASE Becomes(p, Idle)
      BY <2>5, <3>1, IdleOK, Turn DEF NextWaiting
    <3>2. CASE ~Becomes(p, Idle)
      <4> PICK t \in request[p].todo :
                 Becomes(p, [request[p] EXCEPT !.pc = "list", !.conv = t[1],
                                               !.todo = request[p].todo \ {t}])
        BY <2>5, <3>2 DEF NextWaiting
      <4> DEFINE c == t[1]
                 rest == request[p].todo \ {t}
      <4>1. c \in Conversations /\ rest \in SUBSET Entries /\ (request[p].kind # "sweep" \/ rest \in SUBSET AssignedEntries)
        BY DEF Local, Entries
      <4>2. Becomes(p, [request[p] EXCEPT !.pc = "list", !.conv = c, !.todo = rest])
        OBVIOUS
      <4> HIDE DEF c, rest
      <4>3. LocalOK([request[p] EXCEPT !.pc = "list", !.conv = c, !.todo = rest])
        BY <2>5, <4>1 DEF NextWaiting, At, Local, PCs
      <4> QED BY <2>5, <4>2, <4>3, Turn DEF NextWaiting
    <3> QED BY <3>1, <3>2
  <2>6. CASE NextAssigned(p)
    <3>1. CASE Becomes(p, Idle)
      BY <2>6, <3>1, IdleOK, Turn DEF NextAssigned
    <3>2. CASE ~Becomes(p, Idle)
      <4> PICK t \in request[p].todo :
            Becomes(p, [request[p] EXCEPT !.pc = IF presence[t[2]] = "off" THEN "seen" ELSE "sweep",
                                          !.conv = t[1], !.operator = t[2],
                                          !.todo = request[p].todo \ {t}])
        BY <2>6, <3>2 DEF NextAssigned
      <4> DEFINE c == t[1]
                 o == t[2]
                 rest == request[p].todo \ {t}
                 pc == IF presence[t[2]] = "off" THEN "seen" ELSE "sweep"
      <4>1. /\ c \in Conversations /\ o \in Operators
            /\ rest \in SUBSET AssignedEntries
            /\ pc \in {"seen", "sweep"}
        BY <2>6 DEF NextAssigned, At, AssignedEntries
      <4>2. Becomes(p, [request[p] EXCEPT !.pc = pc, !.conv = c, !.operator = o, !.todo = rest])
        OBVIOUS
      <4> HIDE DEF c, o, rest, pc
      <4>3. LocalOK([request[p] EXCEPT !.pc = pc, !.conv = c, !.operator = o, !.todo = rest])
        BY <2>6, <4>1, AssignedAreEntries DEF NextAssigned, At, Local, PCs
      <4> QED BY <2>6, <4>2, <4>3, Turn DEF NextAssigned
    <3> QED BY <3>1, <3>2
  <2>7. CASE CheckLastSeen(p)
    <3> DEFINE pc == IF lastSeen[request[p].operator] = "old" THEN "list" ELSE "sweep"
    <3>1. pc \in {"list", "sweep"} /\ Becomes(p, [request[p] EXCEPT !.pc = pc])
      BY <2>7 DEF CheckLastSeen
    <3> HIDE DEF pc
    <3>2. LocalOK([request[p] EXCEPT !.pc = pc])
      BY <2>7, <3>1 DEF CheckLastSeen, At, Local, PCs
    <3> QED BY <2>7, <3>1, <3>2, Turn DEF CheckLastSeen
  <2>8. CASE ListAvailable(p)
    <3>kind. request[p].kind \in {"handoff", "queue", "sweep"} /\ request[p].conv \in Conversations
      BY <2>8 DEF ListAvailable, At
    <3> DEFINE known == {o \in Operators : presence[o] = "available"} \cap Members
    <3>1. CASE Return(p)
      BY <2>8, <3>1, <3>kind, <1>return DEF ListAvailable
    <3>2. LocalOK([request[p] EXCEPT !.pc = "clear"])
      BY <3>kind DEF Local, PCs
    <3>4. \/ Return(p)
          \/ Becomes(p, [request[p] EXCEPT !.pc = "clear"])
          \/ Becomes(p, [request[p] EXCEPT !.pc = "count", !.candidates = known, !.uncounted = known])
      BY <2>8 DEF ListAvailable
    <3>5. known \in SUBSET Operators
      OBVIOUS
    <3> HIDE DEF known
    <3>3. LocalOK([request[p] EXCEPT !.pc = "count", !.candidates = known, !.uncounted = known])
      BY <3>kind, <3>5 DEF Local, PCs
    <3> QED BY <2>8, <3>1, <3>2, <3>3, <3>4, Turn DEF ListAvailable
  <2>9. CASE Clear(p)
    <3>1. request[p].kind \in {"handoff", "queue", "sweep"} /\ request[p].conv \in Conversations
      BY <2>9 DEF Clear, At
    <3>2. conv' \in [Conversations -> Row]
      BY <2>9, <3>1, <1>conv DEF Clear
    <3> QED BY <2>9, <3>1, <3>2, <1>return DEF Clear
  <2>10. CASE Assign(p)
    <3>1. request[p].kind \in {"handoff", "queue", "sweep"} /\ request[p].conv \in Conversations
      BY <2>10 DEF Assign, At
    <3>2. \A o \in LeastLoaded(p) : o \in Operators
      BY DEF LeastLoaded, Eligible, Local
    <3>3. \E o \in Operators \cup {None} :
            conv' = [conv EXCEPT ![request[p].conv].assigned = o]
      BY <2>10, <3>2 DEF Assign
    <3>4. conv' \in [Conversations -> Row]
      BY <3>1, <3>3, <1>conv
    <3> QED BY <2>10, <3>1, <3>4, <1>return DEF Assign
  <2>11. ASSUME NEW o \in Operators, CountLoad(p, o) PROVE Typed'
    <3> DEFINE loads == [request[p].loads EXCEPT ![o] = Load(o)]
               rest == request[p].uncounted \ {o}
    <3>1. loads \in [Operators -> Nat] /\ rest \in SUBSET Operators
      BY LoadIsNat DEF Local
    <3>2. Becomes(p, [request[p] EXCEPT !.loads = loads, !.uncounted = rest])
      BY <2>11 DEF CountLoad
    <3> HIDE DEF loads, rest
    <3>3. LocalOK([request[p] EXCEPT !.loads = loads, !.uncounted = rest])
      BY <2>11, <3>1 DEF CountLoad, At, Local
    <3> QED BY <2>11, <3>2, <3>3, Turn DEF CountLoad
  <2> QED BY <1>step, <2>1, <2>2, <2>3, <2>4, <2>5, <2>6, <2>7, <2>8, <2>9, <2>10, <2>11 DEF Step
<1>1. ASSUME NEW p \in Requests, RequestFails(p) PROVE Typed'
  BY <1>1, IdleOK, Turn DEF RequestFails
<1>2. CASE Panel
  <2>1. UNCHANGED request
    BY <1>2 DEF Panel, Reassign, UpdateStatus, UpdateMode
  <2>2. ASSUME NEW c \in Conversations, NEW o \in Operators, Reassign(c, o)
        PROVE  conv' \in [Conversations -> Row]
    BY <2>2 DEF Reassign, Row
  <2>3. ASSUME NEW c \in Conversations, NEW x \in StatusInputs, UpdateStatus(c, x)
        PROVE  conv' \in [Conversations -> Row]
    BY <2>3, HandoffAssumption DEF UpdateStatus, Row
  <2>4. ASSUME NEW c \in Conversations, NEW m \in ModeInputs, UpdateMode(c, m)
        PROVE  conv' \in [Conversations -> Row]
    BY <2>4, HandoffAssumption DEF UpdateMode, Row
  <2> QED BY <1>2, <2>1, <2>2, <2>3, <2>4 DEF Panel
<1>3. CASE Presence
  BY <1>3 DEF Presence, GoOffline, PresenceExpires, LastSeenAges
<1>4. CASE UNCHANGED vars
  BY <1>4 DEF vars
<1> QED BY <1>start, <1>step, <1>1, <1>2, <1>3, <1>4 DEF Next

-----------------------------------------------------------------------------
(* Nobody goes back to the model's automatic mode.                         *)

\* A request moves on, to local variables that name manual conversations only.
LEMMA ManualTurn ==
  ASSUME Typed, ManualStays, NEW p \in Requests, NEW r, Becomes(p, r),
         \A c \in Conversations : conv[c].mode = "manual" => conv'[c].mode = "manual",
         \A c \in Conversations : conv'[c].mode = "auto" => conv'[c].assigned = None,
         r.pc # "release",
         r.pc \in {"seen", "list", "count", "clear"} => conv'[r.conv].mode = "manual",
         \A t \in r.todo : conv'[t[1]].mode = "manual"
  PROVE  ManualStays'
<1>1. \A q \in Requests : request'[q] = IF q = p THEN r ELSE request[q]
  BY DEF Becomes, Typed
<1>2. ASSUME NEW q \in Requests, request[q].pc \in {"seen", "list", "count", "clear"}
      PROVE  conv'[request[q].conv].mode = "manual"
  BY <1>2 DEF ManualStays, Typed, LocalOK
<1>3. ASSUME NEW q \in Requests, NEW t \in request[q].todo
      PROVE  conv'[t[1]].mode = "manual"
  <2>1. t[1] \in Conversations
    BY DEF Typed, LocalOK, Local, Entries
  <2> QED BY <2>1 DEF ManualStays
<1> QED BY <1>1, <1>2, <1>3 DEF ManualStays

\* Every conversation starts automatic and nobody's.
LEMMA ManualInit == Init => ManualStays
BY DEF Init, ManualStays, Idle

\* What the steps of one request leave alone.
LEMMA ManualStep ==
  ASSUME NothingByHand, Typed, ManualStays, [Next]_vars PROVE ManualStays'
<1> USE DEF Typed
<1>none. None \notin Operators
  BY HandoffAssumption
<1>idle. Idle.todo = {} /\ Idle.pc = "idle"
  BY DEF Idle
<1>start. ASSUME NEW p \in Requests, Start(p) PROVE ManualStays'
  <2>1. CASE RequestListing(p)
    <3> DEFINE list == {<<c, conv[c].assigned>> :
                          c \in {d \in Conversations : \E o \in Operators : d \in Chats(o)}}
    <3>1. \A t \in list : conv[t[1]].mode = "manual"
      BY DEF Chats
    <3>2. Becomes(p, [Idle EXCEPT !.pc = "sweep", !.kind = "sweep", !.todo = list])
      BY <2>1 DEF RequestListing
    <3> HIDE DEF list
    <3>3. [Idle EXCEPT !.pc = "sweep", !.kind = "sweep", !.todo = list].todo = list
      BY DEF Idle
    <3>4. [Idle EXCEPT !.pc = "sweep", !.kind = "sweep", !.todo = list].pc = "sweep"
      BY DEF Idle
    <3> QED BY <2>1, <3>1, <3>2, <3>3, <3>4, ManualTurn DEF RequestListing, ManualStays
  <2>2. CASE ~RequestListing(p)
    <3>1. UNCHANGED conv
      BY <1>start, <2>2 DEF Start, RequestHandoff, RequestRelease, RequestHeartbeat
    <3>2. ASSUME NEW c \in Conversations, NEW x \in Targets, RequestHandoff(p, c, x)
          PROVE  \E r : Becomes(p, r) /\ r.pc \in {"handoff", "beat"} /\ r.todo = {}
      <4> DEFINE y == IF x # None THEN x ELSE conv[c].assigned
                 r == [Idle EXCEPT !.pc = "handoff", !.conv = c, !.operator = y]
      <4>1. Becomes(p, r) /\ r.pc = "handoff" /\ r.todo = {}
        BY <3>2 DEF RequestHandoff, Idle
      <4> QED BY <4>1
    <3>3. ASSUME NEW route \in {"heartbeat", "status"}, NEW o \in Operators, NEW x \in Asked,
                 RequestHeartbeat(p, route, o, x)
          PROVE  \E r : Becomes(p, r) /\ r.pc \in {"handoff", "beat"} /\ r.todo = {}
      <4> DEFINE r == [Idle EXCEPT !.pc = "beat", !.kind = route, !.operator = o, !.asked = x]
      <4>1. Becomes(p, r) /\ r.pc = "beat" /\ r.todo = {}
        BY <3>3 DEF RequestHeartbeat, Idle
      <4> QED BY <4>1
    <3>4. \E r : Becomes(p, r) /\ r.pc \in {"handoff", "beat"} /\ r.todo = {}
      BY <1>start, <2>2, <3>2, <3>3 DEF Start, RequestRelease, NothingByHand
    <3> QED BY <3>1, <3>4, ManualTurn DEF ManualStays
  <2> QED BY <2>1, <2>2
<1>return. ASSUME NEW p \in Requests, Return(p), request[p].kind \in {"handoff", "queue", "sweep"},
                  \A c \in Conversations : conv'[c].mode = conv[c].mode,
                  \A c \in Conversations : conv'[c].mode = "auto" => conv'[c].assigned = None
           PROVE  ManualStays'
  <2>0. ASSUME request[p].kind # "handoff"
        PROVE  \E r : /\ Becomes(p, r) /\ r.pc \in {"idle", "queue", "sweep"}
                      /\ r.todo \subseteq request[p].todo
    <3> DEFINE r == [Idle EXCEPT !.pc = request[p].kind, !.kind = request[p].kind,
                                 !.todo = request[p].todo]
    <3>1. Becomes(p, r) /\ r.pc = request[p].kind /\ r.todo = request[p].todo
      BY <1>return, <2>0 DEF Return, Idle
    <3> QED BY <1>return, <2>0, <3>1
  <2>1. \E r : /\ Becomes(p, r) /\ r.pc \in {"idle", "queue", "sweep"}
               /\ r.todo \subseteq request[p].todo
    BY <1>return, <1>idle, <2>0 DEF Return
  <2>2. \A t \in request[p].todo : t[1] \in Conversations
    BY DEF LocalOK, Local, Entries
  <2> QED BY <1>return, <2>1, <2>2, ManualTurn DEF ManualStays
<1>step. ASSUME NEW p \in Requests, Step(p) PROVE ManualStays'
  <2>todo. \A t \in request[p].todo : t[1] \in Conversations /\ conv[t[1]].mode = "manual"
    BY DEF ManualStays, LocalOK, Local, Entries
  <2>1. CASE SetManual(p)
    <3>1. request[p].conv \in Conversations
      BY <2>1 DEF SetManual, At, LocalOK
    <3>2. conv' = [conv EXCEPT ![request[p].conv].mode = "manual",
                               ![request[p].conv].assigned = request[p].operator]
      BY <2>1 DEF SetManual
    <3>3. \A c \in Conversations :
            /\ conv[c].mode = "manual" => conv'[c].mode = "manual"
            /\ conv'[c].mode = "auto" => conv'[c].assigned = None
      BY <3>1, <3>2 DEF ManualStays, Row
    <3>4. conv'[request[p].conv].mode = "manual"
      BY <3>1, <3>2 DEF Row
    <3> DEFINE r == [Idle EXCEPT !.pc = "list", !.conv = request[p].conv]
    <3>5. r.pc = "list" /\ r.conv = request[p].conv /\ r.todo = {}
      BY DEF Idle
    <3>6. Becomes(p, r) \/ Becomes(p, Idle)
      BY <2>1 DEF SetManual
    <3> HIDE DEF r
    <3> QED BY <1>idle, <3>3, <3>4, <3>5, <3>6, ManualTurn
  <2>2. CASE Release(p)
    BY <2>2 DEF Release, At, ManualStays
  <2>3. CASE Heartbeat(p)
    <3> DEFINE r == [Idle EXCEPT !.pc = "drain", !.kind = "queue"]
    <3>1. r.pc = "drain" /\ r.todo = {}
      BY DEF Idle
    <3>2. UNCHANGED conv /\ (Becomes(p, r) \/ Becomes(p, Idle))
      BY <2>3 DEF Heartbeat
    <3> HIDE DEF r
    <3> QED BY <1>idle, <3>1, <3>2, ManualTurn DEF ManualStays
  <2>4. CASE FindWaiting(p)
    <3> DEFINE list == {<<c, None>> : c \in {d \in Conversations : Waiting(d)}}
    <3>1. \A t \in list : conv[t[1]].mode = "manual"
      BY DEF Waiting
    <3>2. UNCHANGED conv /\ Becomes(p, [request[p] EXCEPT !.pc = "queue", !.todo = list])
      BY <2>4 DEF FindWaiting
    <3> HIDE DEF list
    <3>3. /\ [request[p] EXCEPT !.pc = "queue", !.todo = list].todo = list
          /\ [request[p] EXCEPT !.pc = "queue", !.todo = list].pc = "queue"
      BY DEF LocalOK, Local
    <3> QED BY <3>1, <3>2, <3>3, ManualTurn DEF ManualStays
  <2>5. CASE NextWaiting(p) \/ NextAssigned(p)
    <3>0. UNCHANGED conv
      BY <2>5 DEF NextWaiting, NextAssigned
    <3>1. CASE Becomes(p, Idle)
      BY <3>0, <3>1, <1>idle, ManualTurn DEF ManualStays
    <3>2. CASE ~Becomes(p, Idle)
      <4>1. PICK t \in request[p].todo, pc \in {"list", "seen", "sweep"},
                 o \in Operators \cup {None} :
              Becomes(p, [request[p] EXCEPT !.pc = pc, !.conv = t[1], !.operator = o,
                                            !.todo = request[p].todo \ {t}])
        <5>1. CASE NextWaiting(p)
          <6> PICK t \in request[p].todo :
                Becomes(p, [request[p] EXCEPT !.pc = "list", !.conv = t[1],
                                              !.todo = request[p].todo \ {t}])
            BY <3>2, <5>1 DEF NextWaiting
          <6>1. [request[p] EXCEPT !.pc = "list", !.conv = t[1], !.todo = request[p].todo \ {t}]
                  = [request[p] EXCEPT !.pc = "list", !.conv = t[1],
                                       !.operator = request[p].operator,
                                       !.todo = request[p].todo \ {t}]
            BY DEF LocalOK, Local
          <6>2. request[p].operator \in Operators \cup {None}
            BY DEF LocalOK, Local
          <6> QED BY <6>1, <6>2
        <5>2. CASE NextAssigned(p)
          <6> PICK t \in request[p].todo :
                Becomes(p, [request[p] EXCEPT
                              !.pc = IF presence[t[2]] = "off" THEN "seen" ELSE "sweep",
                              !.conv = t[1], !.operator = t[2],
                              !.todo = request[p].todo \ {t}])
            BY <3>2, <5>2 DEF NextAssigned
          <6> DEFINE pc == IF presence[t[2]] = "off" THEN "seen" ELSE "sweep"
          <6>1. pc \in {"list", "seen", "sweep"} /\ t[2] \in Operators \cup {None}
            BY DEF LocalOK, Local, Entries
          <6> QED BY <6>1
        <5> QED BY <2>5, <5>1, <5>2
      <4> DEFINE r == [request[p] EXCEPT !.pc = pc, !.conv = t[1], !.operator = o,
                                         !.todo = request[p].todo \ {t}]
      <4>2. r.pc = pc /\ r.conv = t[1] /\ r.todo \subseteq request[p].todo
        BY DEF LocalOK, Local
      <4> HIDE DEF r
      <4> QED BY <3>0, <4>1, <4>2, <2>todo, ManualTurn DEF ManualStays, r
    <3> QED BY <3>1, <3>2
  <2>kept. ASSUME NEW r, Becomes(p, r), UNCHANGED conv, r.todo = request[p].todo, r.pc # "release",
                   r.pc \in {"seen", "list", "count", "clear"} => conv[r.conv].mode = "manual"
           PROVE  ManualStays'
    BY <2>kept, <2>todo, ManualTurn DEF ManualStays
  <2>6. CASE CheckLastSeen(p)
    <3> DEFINE pc == IF lastSeen[request[p].operator] = "old" THEN "list" ELSE "sweep"
               r == [request[p] EXCEPT !.pc = pc]
    <3>1. pc # "release" /\ UNCHANGED conv /\ Becomes(p, r)
      BY <2>6 DEF CheckLastSeen
    <3>2. conv[request[p].conv].mode = "manual"
      BY <2>6 DEF CheckLastSeen, At, ManualStays
    <3> HIDE DEF pc
    <3>3. r.pc = pc /\ r.conv = request[p].conv /\ r.todo = request[p].todo
      BY DEF LocalOK, Local
    <3> QED BY <3>1, <3>2, <3>3, <2>kept
  <2>7. CASE ListAvailable(p)
    <3>0. /\ request[p].kind \in {"handoff", "queue", "sweep"}
          /\ conv[request[p].conv].mode = "manual" /\ UNCHANGED conv
      BY <2>7 DEF ListAvailable, At, ManualStays, LocalOK
    <3> DEFINE known == {o \in Operators : presence[o] = "available"} \cap Members
               clear == [request[p] EXCEPT !.pc = "clear"]
               count == [request[p] EXCEPT !.pc = "count", !.candidates = known, !.uncounted = known]
    <3>1. \/ Return(p) \/ Becomes(p, clear) \/ Becomes(p, count)
      BY <2>7 DEF ListAvailable
    <3> HIDE DEF known
    <3>2. \A r \in {clear, count} : /\ r.pc \in {"clear", "count"} /\ r.conv = request[p].conv
                                   /\ r.todo = request[p].todo
      BY DEF LocalOK, Local
    <3>3. CASE Return(p)
      BY <3>0, <3>3, <1>return DEF ManualStays
    <3> HIDE DEF clear, count
    <3> QED BY <3>0, <3>1, <3>2, <3>3, <2>kept
  <2>8. CASE Clear(p) \/ Assign(p)
    <3>0. /\ request[p].kind \in {"handoff", "queue", "sweep"}
          /\ request[p].conv \in Conversations /\ conv[request[p].conv].mode = "manual"
      BY <2>8 DEF Clear, Assign, At, ManualStays, LocalOK
    <3>1. Return(p) /\ \E o : conv' = [conv EXCEPT ![request[p].conv].assigned = o]
      BY <2>8 DEF Clear, Assign
    <3>2. \A c \in Conversations :
            /\ conv'[c].mode = conv[c].mode
            /\ conv'[c].mode = "auto" => conv'[c].assigned = None
      BY <3>0, <3>1 DEF ManualStays, Row
    <3> QED BY <3>0, <3>1, <3>2, <1>return
  <2>9. ASSUME NEW o \in Operators, CountLoad(p, o) PROVE ManualStays'
    <3> DEFINE loads == [request[p].loads EXCEPT ![o] = Load(o)]
               rest == request[p].uncounted \ {o}
               r == [request[p] EXCEPT !.loads = loads, !.uncounted = rest]
    <3>1. /\ Becomes(p, r) /\ UNCHANGED conv
          /\ request[p].pc = "count" /\ conv[request[p].conv].mode = "manual"
      BY <2>9 DEF CountLoad, At, ManualStays
    <3> HIDE DEF loads, rest
    <3>2. r.pc = request[p].pc /\ r.conv = request[p].conv /\ r.todo = request[p].todo
      BY DEF LocalOK, Local
    <3> HIDE DEF r
    <3> QED BY <3>1, <3>2, <2>kept
  <2> QED BY <1>step, <2>1, <2>2, <2>3, <2>4, <2>5, <2>6, <2>7, <2>8, <2>9 DEF Step
<1>1. ASSUME NEW p \in Requests, RequestFails(p) PROVE ManualStays'
  BY <1>1, <1>idle, ManualTurn DEF RequestFails, ManualStays
<1>2. CASE Panel
  <2>1. PICK c \in Conversations, x \in StatusInputs : UpdateStatus(c, x)
    BY <1>2 DEF Panel, NothingByHand, Reassign
  <2>2. \A d \in Conversations : /\ conv'[d].mode = conv[d].mode
                                 /\ conv'[d].assigned = conv[d].assigned
    BY <2>1 DEF UpdateStatus, Row
  <2>3. \A q \in Requests : \A t \in request[q].todo : t[1] \in Conversations
    BY DEF LocalOK, Local, Entries
  <2> QED BY <2>1, <2>2, <2>3 DEF UpdateStatus, ManualStays, LocalOK
<1>3. CASE UNCHANGED <<conv, request>>
  BY <1>3 DEF ManualStays
<1>4. Presence \/ UNCHANGED vars => UNCHANGED <<conv, request>>
  BY DEF Presence, GoOffline, PresenceExpires, LastSeenAges, vars
<1> QED BY <1>start, <1>step, <1>1, <1>2, <1>3, <1>4 DEF Next

-----------------------------------------------------------------------------
(* The bound.                                                              *)

\* Every set the bound counts is finite.
LEMMA Sizes ==
  ASSUME NEW o
  PROVE  /\ IsFiniteSet(Chats(o)) /\ Cardinality(Chats(o)) \in Nat
         /\ IsFiniteSet(Pinned(o)) /\ Cardinality(Pinned(o)) \in Nat
         /\ IsFiniteSet(Reach(o)) /\ Cardinality(Reach(o)) \in Nat
         /\ IsFiniteSet(SawRoom(o)) /\ Cardinality(SawRoom(o)) \in Nat
         /\ IsFiniteSet(Pinning(o)) /\ Cardinality(Pinning(o)) \in Nat
         /\ IsFiniteSet(Requests) /\ Cardinality(Requests) \in Nat
<1>1. IsFiniteSet(Conversations) /\ IsFiniteSet(Requests)
  BY HandoffAssumption
<1>2. /\ IsFiniteSet(Chats(o)) /\ IsFiniteSet(Pinned(o)) /\ IsFiniteSet(Reach(o))
  BY <1>1, FS_Subset DEF Chats, Pinned, Reach
<1>3. IsFiniteSet(SawRoom(o)) /\ IsFiniteSet(Pinning(o))
  BY <1>1, FS_Subset DEF SawRoom, Pinning
<1> QED BY <1>1, <1>2, <1>3, FS_CardinalityType

\* A step that adds neither to the reach of o nor to the requests that saw
\* room keeps the bound for o.
LEMMA Shrinks ==
  ASSUME RoomBound, NEW o \in Operators,
         Reach(o)' \subseteq Reach(o), SawRoom(o)' \subseteq SawRoom(o)
  PROVE  Cardinality(Reach(o)') + Cardinality(SawRoom(o)') <= MaxChats - 1 + Cardinality(Requests)
<1>1. /\ IsFiniteSet(Reach(o)') /\ Cardinality(Reach(o)') <= Cardinality(Reach(o))
  BY Sizes, FS_Subset
<1>2. /\ IsFiniteSet(SawRoom(o)') /\ Cardinality(SawRoom(o)') <= Cardinality(SawRoom(o))
  BY Sizes, FS_Subset
<1>3. Cardinality(Reach(o)') \in Nat /\ Cardinality(SawRoom(o)') \in Nat
  BY <1>1, <1>2, FS_CardinalityType
<1> QED BY <1>1, <1>2, <1>3, Sizes, HandoffAssumption DEF RoomBound

\* A request that moves on, not to a pinning handoff, leaves no more pinned
\* conversations than there were.
LEMMA PinnedShrinks ==
  ASSUME Typed, NEW p \in Requests, NEW r, Becomes(p, r), NEW o,
         r.pc = "handoff" => r.operator = None,
         \A c \in Conversations : conv'[c].status = conv[c].status,
         o \in Operators
  PROVE  Pinned(o)' \subseteq Pinned(o)
<1>1. \A q \in Requests : request'[q] = IF q = p THEN r ELSE request[q]
  BY DEF Becomes, Typed
<1> QED BY <1>1, HandoffAssumption DEF Pinned, At

\* A request that moves on, not to finished counts, has no longer seen room.
LEMMA SawRoomShrinks ==
  ASSUME Typed, NEW p \in Requests, NEW r, Becomes(p, r), NEW o,
         r.pc = "count" => r.candidates \subseteq r.uncounted
  PROVE  SawRoom(o)' \subseteq SawRoom(o) \ {p}
<1>1. \A q \in Requests : request'[q] = IF q = p THEN r ELSE request[q]
  BY DEF Becomes, Typed
<1> QED BY <1>1 DEF SawRoom, At

\* Steps that count nothing and write nothing.
LEMMA Quiet ==
  ASSUME Typed, RoomBound, NEW p \in Requests, NEW r, Becomes(p, r), UNCHANGED conv,
         r.pc = "handoff" => r.operator = None,
         r.pc = "count" => r.candidates \subseteq r.uncounted
  PROVE  RoomBound'
<1> SUFFICES ASSUME NEW o \in Operators
             PROVE  Cardinality(Reach(o)') + Cardinality(SawRoom(o)')
                      <= MaxChats - 1 + Cardinality(Requests)
  BY DEF RoomBound
<1>1. Pinned(o)' \subseteq Pinned(o)
  BY PinnedShrinks
<1>2. Chats(o)' = Chats(o)
  BY DEF Chats
<1>3. SawRoom(o)' \subseteq SawRoom(o)
  BY SawRoomShrinks
<1> QED BY <1>1, <1>2, <1>3, Shrinks DEF Reach

\* The write of one conversation's operator, on behalf of request p.
LEMMA Written ==
  ASSUME Typed, RoomBound, NEW p \in Requests, NEW r, Becomes(p, r), r.pc \notin {"handoff", "count"},
         NEW c \in Conversations, NEW x \in Operators \cup {None},
         \A d \in Conversations : conv'[d].status = conv[d].status,
         \A d \in Conversations \ {c} : conv'[d] = conv[d],
         conv'[c].assigned = x,
         x = None \/ p \in SawRoom(x) \/ c \in Reach(x) \/ conv[c].status # "active"
  PROVE  RoomBound'
<1> SUFFICES ASSUME NEW o \in Operators
             PROVE  Cardinality(Reach(o)') + Cardinality(SawRoom(o)')
                      <= MaxChats - 1 + Cardinality(Requests)
  BY DEF RoomBound
<1>1. Pinned(o)' \subseteq Pinned(o)
  BY PinnedShrinks
<1>2. SawRoom(o)' \subseteq SawRoom(o) \ {p}
  BY SawRoomShrinks
<1>3. Chats(o)' \subseteq IF o = x /\ conv[c].status = "active" THEN Chats(o) \cup {c} ELSE Chats(o)
  BY DEF Chats
<1>4. CASE o # x \/ conv[c].status # "active" \/ c \in Reach(o)
  <2>1. Reach(o)' \subseteq Reach(o)
    BY <1>1, <1>3, <1>4 DEF Reach
  <2> QED BY <2>1, <1>2, Shrinks
<1>5. CASE o = x /\ conv[c].status = "active" /\ c \notin Reach(o)
  <2>1. p \in SawRoom(o)
    BY <1>5, HandoffAssumption
  <2>2. Reach(o)' \subseteq Reach(o) \cup {c}
    BY <1>1, <1>3, <1>5 DEF Reach
  <2>3. /\ IsFiniteSet(Reach(o) \cup {c})
        /\ Cardinality(Reach(o) \cup {c}) = Cardinality(Reach(o)) + 1
    BY <1>5, Sizes, FS_AddElement
  <2>4. /\ IsFiniteSet(SawRoom(o) \ {p})
        /\ Cardinality(SawRoom(o) \ {p}) = Cardinality(SawRoom(o)) - 1
    BY <2>1, Sizes, FS_RemoveElement
  <2>5. IsFiniteSet(Reach(o)') /\ Cardinality(Reach(o)') <= Cardinality(Reach(o)) + 1
    BY <2>2, <2>3, FS_Subset
  <2>6. IsFiniteSet(SawRoom(o)') /\ Cardinality(SawRoom(o)') <= Cardinality(SawRoom(o)) - 1
    BY <1>2, <2>4, FS_Subset
  <2>7. Cardinality(Reach(o)') \in Nat /\ Cardinality(SawRoom(o)') \in Nat
    BY <2>5, <2>6, FS_CardinalityType
  <2> QED BY <2>5, <2>6, <2>7, Sizes, HandoffAssumption DEF RoomBound
<1> QED BY <1>4, <1>5

\* At most one conversation is pinned by each pinning request.
LEMMA PinnedByRequests ==
  ASSUME NEW o PROVE Cardinality(Pinned(o)) <= Cardinality(Pinning(o))
<1> DEFINE f == [p \in Pinning(o) |-> request[p].conv]
           T == {f[p] : p \in Pinning(o)}
<1>1. f \in Surjection(Pinning(o), T)
  BY DEF Surjection
<1>2. IsFiniteSet(T) /\ Cardinality(T) <= Cardinality(Pinning(o))
  BY <1>1, Sizes, FS_Surjection
<1>3. Pinned(o) \subseteq T
  BY DEF Pinned, Pinning
<1>4. Cardinality(Pinned(o)) <= Cardinality(T) /\ Cardinality(T) \in Nat
  <2> HIDE DEF T
  <2> QED BY <1>2, <1>3, FS_Subset, FS_CardinalityType
<1> QED BY <1>2, <1>4, Sizes

\* The count of one operator's chats: the only step after which more requests
\* have seen room, and the limit holds at that moment.
LEMMA Counted ==
  ASSUME Typed, RoomBound, NEW p \in Requests, NEW x \in Operators, CountLoad(p, x)
  PROVE  RoomBound'
<1> SUFFICES ASSUME NEW o \in Operators
             PROVE  Cardinality(Reach(o)') + Cardinality(SawRoom(o)')
                      <= MaxChats - 1 + Cardinality(Requests)
  BY DEF RoomBound
<1> DEFINE loads == [request[p].loads EXCEPT ![x] = Load(x)]
           rest == request[p].uncounted \ {x}
           r == [request[p] EXCEPT !.loads = loads, !.uncounted = rest]
<1>1. /\ Becomes(p, r) /\ UNCHANGED conv /\ request[p].pc = "count"
  BY DEF CountLoad, At
<1>2. /\ loads \in [Operators -> Nat]
      /\ loads[x] = Load(x) /\ \A y \in Operators \ {x} : loads[y] = request[p].loads[y]
  BY LoadIsNat DEF Typed, LocalOK, Local
<1> HIDE DEF loads
<1>3. /\ r.pc = "count" /\ r.loads = loads /\ r.uncounted = rest
      /\ r.candidates = request[p].candidates
  BY <1>1 DEF Typed, LocalOK, Local
<1> HIDE DEF r
<1>4. Pinned(o)' \subseteq Pinned(o)
  BY <1>1, <1>3, PinnedShrinks
<1>5. Chats(o)' = Chats(o)
  BY <1>1 DEF Chats
<1>6. Reach(o)' \subseteq Reach(o)
  BY <1>4, <1>5 DEF Reach
<1>7. \A q \in Requests : request'[q] = IF q = p THEN r ELSE request[q]
  BY <1>1 DEF Becomes, Typed
<1>8. SawRoom(o)' \subseteq IF o = x /\ Load(o) < MaxChats THEN SawRoom(o) \cup {p} ELSE SawRoom(o)
  <2> SUFFICES ASSUME NEW q \in SawRoom(o)', q \notin SawRoom(o)
               PROVE  q = p /\ o = x /\ Load(o) < MaxChats
    OBVIOUS
  <2>1. q = p
    BY <1>7 DEF SawRoom, At
  <2>2. o \in request[p].candidates \ rest /\ loads[o] < MaxChats
    BY <1>3, <1>7, <2>1 DEF SawRoom
  <2>3. o = x
    BY <1>1, <1>2, <2>1, <2>2 DEF SawRoom, At
  <2> QED BY <1>2, <2>1, <2>2, <2>3
<1>9. CASE ~(o = x /\ Load(o) < MaxChats)
  BY <1>6, <1>8, <1>9, Shrinks
<1>10. CASE o = x /\ Load(o) < MaxChats
  <2>1. Pinning(o) \cap (SawRoom(o) \cup {p}) = {}
    BY <1>1 DEF Pinning, SawRoom, At
  <2>2. Cardinality(Pinning(o)) + Cardinality(SawRoom(o) \cup {p}) <= Cardinality(Requests)
    <3>1. IsFiniteSet(SawRoom(o) \cup {p})
      BY Sizes, FS_AddElement
    <3>2. Cardinality(Pinning(o) \cup (SawRoom(o) \cup {p}))
            = Cardinality(Pinning(o)) + Cardinality(SawRoom(o) \cup {p})
      <4>1. Cardinality(Pinning(o) \cap (SawRoom(o) \cup {p})) = 0
        BY <2>1, FS_EmptySet
      <4>2. /\ Cardinality(Pinning(o)) \in Nat
            /\ Cardinality(SawRoom(o) \cup {p}) \in Nat
        BY <3>1, Sizes, FS_CardinalityType
      <4>3. Cardinality(Pinning(o) \cup (SawRoom(o) \cup {p}))
              = Cardinality(Pinning(o)) + Cardinality(SawRoom(o) \cup {p})
                  - Cardinality(Pinning(o) \cap (SawRoom(o) \cup {p}))
        BY <3>1, Sizes, FS_Union
      <4> QED BY <4>1, <4>2, <4>3
    <3>3. Pinning(o) \cup (SawRoom(o) \cup {p}) \subseteq Requests
      BY DEF Pinning, SawRoom
    <3> QED BY <3>2, <3>3, Sizes, FS_Subset
  <2>3. Cardinality(Reach(o)) <= Cardinality(Chats(o)) + Cardinality(Pinned(o))
    <3>1. Cardinality(Chats(o) \cap Pinned(o)) \in Nat
      BY Sizes, FS_Subset, FS_CardinalityType
    <3>2. Cardinality(Chats(o) \cup Pinned(o))
            = Cardinality(Chats(o)) + Cardinality(Pinned(o)) - Cardinality(Chats(o) \cap Pinned(o))
      BY Sizes, FS_Union
    <3> QED BY <3>1, <3>2, Sizes DEF Reach
  <2>4. Cardinality(Reach(o)') <= Cardinality(Reach(o)) /\ Cardinality(Reach(o)') \in Nat
    BY <1>6, Sizes, FS_Subset, FS_CardinalityType
  <2>5. /\ Cardinality(SawRoom(o)') <= Cardinality(SawRoom(o) \cup {p})
        /\ Cardinality(SawRoom(o)') \in Nat /\ Cardinality(SawRoom(o) \cup {p}) \in Nat
    BY <1>8, <1>10, Sizes, FS_AddElement, FS_Subset, FS_CardinalityType
  <2>6. Cardinality(Chats(o)) <= MaxChats - 1
    BY <1>10, Sizes, HandoffAssumption DEF Load
  <2> QED BY <2>2, <2>3, <2>4, <2>5, <2>6, PinnedByRequests, Sizes, HandoffAssumption
<1> QED BY <1>9, <1>10

\* Nobody has chats at first.
LEMMA RoomInit == Init => RoomBound
<1> SUFFICES ASSUME Init, NEW o \in Operators
             PROVE  Cardinality(Reach(o)) + Cardinality(SawRoom(o))
                      <= MaxChats - 1 + Cardinality(Requests)
  BY DEF RoomBound
<1>1. Reach(o) = {} /\ SawRoom(o) = {}
  BY DEF Init, Idle, Reach, Chats, Pinned, SawRoom, At
<1>2. Cardinality({}) = 0
  BY FS_EmptySet
<1> QED BY <1>1, <1>2, Sizes, HandoffAssumption

\* A handoff request reads the operator of its conversation: one it counts
\* among that operator's chats already.
LEMMA HandoffRequested ==
  ASSUME NothingByHand, BoundInv, NEW p \in Requests, NEW c \in Conversations,
         NEW t \in Targets, RequestHandoff(p, c, t)
  PROVE  RoomBound'
<1> USE DEF BoundInv
<1> DEFINE a == conv[c].assigned
           r == [Idle EXCEPT !.pc = "handoff", !.conv = c, !.operator = a]
<1>1. Becomes(p, r) /\ UNCHANGED conv
  BY DEF RequestHandoff, NothingByHand
<1>2. r.pc = "handoff" /\ r.conv = c /\ r.operator = a
  BY DEF Idle
<1>3. conv[c].mode \in {"auto", "manual"} /\ (a # None => conv[c].mode = "manual")
  BY DEF Typed, Row, ManualStays
<1> HIDE DEF r
<1>4. \A q \in Requests : request'[q] = IF q = p THEN r ELSE request[q]
  BY <1>1 DEF Becomes, Typed
<1> SUFFICES ASSUME NEW o \in Operators
             PROVE  Cardinality(Reach(o)') + Cardinality(SawRoom(o)')
                      <= MaxChats - 1 + Cardinality(Requests)
  BY DEF RoomBound
<1>5. Chats(o)' = Chats(o)
  BY <1>1 DEF Chats
<1>6. Pinned(o)' \subseteq Reach(o)
  <2> SUFFICES ASSUME NEW d \in Pinned(o)', d \notin Pinned(o) PROVE d \in Chats(o)
    BY DEF Reach
  <2>1. conv[d].status = "active" /\ d \in Conversations
    BY <1>1 DEF Pinned
  <2>2. d = c /\ a = o
    BY <1>1, <1>2, <1>4 DEF Pinned, At
  <2> QED BY <2>1, <2>2, <1>3, HandoffAssumption DEF Chats
<1>7. SawRoom(o)' \subseteq SawRoom(o)
  BY <1>1, <1>2, SawRoomShrinks
<1> QED BY <1>5, <1>6, <1>7, Shrinks DEF Reach

\* The end of a distribution, whose conversation may have got operator x.
LEMMA Distributed ==
  ASSUME BoundInv, NEW p \in Requests, Return(p), request[p].conv \in Conversations,
         request[p].kind \in {"handoff", "queue", "sweep"},
         NEW x \in Operators \cup {None},
         conv' = [conv EXCEPT ![request[p].conv].assigned = x],
         x = None \/ p \in SawRoom(x)
  PROVE  RoomBound'
<1> DEFINE c == request[p].conv
<1>1. PICK r : Becomes(p, r) /\ r.pc \in {"idle", "queue", "sweep"}
  <2>1. CASE request[p].kind = "handoff"
    BY <2>1 DEF Return, Idle
  <2>2. CASE request[p].kind # "handoff"
    <3> DEFINE r == [Idle EXCEPT !.pc = request[p].kind, !.kind = request[p].kind,
                                 !.todo = request[p].todo]
    <3>1. Becomes(p, r)
      BY <2>2 DEF Return
    <3>2. r.pc = request[p].kind
      BY DEF Idle
    <3> HIDE DEF r
    <3> QED BY <2>2, <3>1, <3>2
  <2> QED BY <2>1, <2>2
<1>2. /\ \A d \in Conversations : conv'[d].status = conv[d].status
      /\ \A d \in Conversations \ {c} : conv'[d] = conv[d]
      /\ conv'[c].assigned = x
  BY DEF BoundInv, Typed, Row
<1> HIDE DEF c
<1> QED BY <1>1, <1>2, Written DEF c, BoundInv

\* Every step keeps the bound.
LEMMA RoomStep == NothingByHand /\ BoundInv /\ [Next]_vars => RoomBound'
<1> SUFFICES ASSUME NothingByHand, BoundInv, [Next]_vars PROVE RoomBound'
  OBVIOUS
<1> USE DEF BoundInv
<1>quiet. ASSUME NEW p \in Requests, NEW r, Becomes(p, r), UNCHANGED conv,
                 r.pc \notin {"handoff", "count"}
          PROVE  RoomBound'
  BY <1>quiet, Quiet
<1>idle. Idle.pc = "idle"
  BY DEF Idle
<1>start. ASSUME NEW p \in Requests, Start(p) PROVE RoomBound'
  <2>1. ASSUME NEW c \in Conversations, NEW o \in Targets, RequestHandoff(p, c, o)
        PROVE  RoomBound'
    BY <2>1, HandoffRequested
  <2>2. ASSUME NEW c \in Conversations, RequestRelease(p, c) PROVE RoomBound'
    BY <2>2 DEF RequestRelease, NothingByHand
  <2>3. ASSUME NEW route, NEW o, NEW s, RequestHeartbeat(p, route, o, s) PROVE RoomBound'
    <3> DEFINE r == [Idle EXCEPT !.pc = "beat", !.kind = route, !.operator = o, !.asked = s]
    <3>1. r.pc = "beat" /\ Becomes(p, r) /\ UNCHANGED conv
      BY <2>3 DEF RequestHeartbeat, Idle
    <3> HIDE DEF r
    <3> QED BY <3>1, <1>quiet
  <2>4. CASE RequestListing(p)
    <3> PICK list : Becomes(p, [Idle EXCEPT !.pc = "sweep", !.kind = "sweep", !.todo = list])
      BY <2>4 DEF RequestListing
    <3> DEFINE r == [Idle EXCEPT !.pc = "sweep", !.kind = "sweep", !.todo = list]
    <3>1. r.pc = "sweep" /\ Becomes(p, r) /\ UNCHANGED conv
      BY <2>4 DEF RequestListing, Idle
    <3> HIDE DEF r
    <3> QED BY <3>1, <1>quiet
  <2> QED BY <1>start, <2>1, <2>2, <2>3, <2>4 DEF Start
<1>returns. ASSUME NEW p \in Requests, Return(p), UNCHANGED conv, LocalOK(request[p]),
                   request[p].pc = "list"
            PROVE  RoomBound'
  <2>1. CASE request[p].kind = "handoff"
    BY <1>returns, <2>1, <1>idle, <1>quiet DEF Return
  <2>2. CASE request[p].kind # "handoff"
    <3> DEFINE r == [Idle EXCEPT !.pc = request[p].kind, !.kind = request[p].kind,
                                 !.todo = request[p].todo]
    <3>1. r.pc = request[p].kind /\ Becomes(p, r)
      BY <1>returns, <2>2 DEF Return, Idle
    <3>2. request[p].kind \in {"queue", "sweep"}
      BY <1>returns, <2>2 DEF LocalOK
    <3> HIDE DEF r
    <3> QED BY <1>returns, <3>1, <3>2, <1>quiet
  <2> QED BY <2>1, <2>2
<1>step. ASSUME NEW p \in Requests, Step(p) PROVE RoomBound'
  <2>0. LocalOK(request[p]) /\ request[p] \in Local
    BY DEF Typed
  <2>1. CASE SetManual(p)
    <3> DEFINE c == request[p].conv
               o == request[p].operator
               next == IF o = None THEN [Idle EXCEPT !.pc = "list", !.conv = c] ELSE Idle
    <3>1. c \in Conversations /\ o \in Operators \cup {None} /\ request[p].pc = "handoff"
      BY <2>0, <2>1 DEF SetManual, At, LocalOK, Local
    <3>2. Becomes(p, next) /\ next.pc \in {"list", "idle"}
      BY <2>1 DEF SetManual, Idle
    <3>3. /\ \A d \in Conversations : conv'[d].status = conv[d].status
          /\ \A d \in Conversations \ {c} : conv'[d] = conv[d]
          /\ conv'[c].assigned = o
      BY <2>1, <3>1 DEF SetManual, Typed, Row
    <3>4. o = None \/ c \in Reach(o) \/ conv[c].status # "active"
      BY <3>1 DEF Reach, Pinned, At
    <3> HIDE DEF c, o, next
    <3> QED BY <3>1, <3>2, <3>3, <3>4, Written
  <2>2. CASE Release(p)
    BY <2>2 DEF Release, At, ManualStays
  <2>3. CASE Heartbeat(p)
    <3> DEFINE r == IF Drains(p) THEN [Idle EXCEPT !.pc = "drain", !.kind = "queue"] ELSE Idle
    <3>1. r.pc \in {"drain", "idle"} /\ Becomes(p, r) /\ UNCHANGED conv
      BY <2>3 DEF Heartbeat, Idle
    <3> HIDE DEF r
    <3> QED BY <3>1, <1>quiet
  <2>4. CASE FindWaiting(p)
    <3> PICK list : Becomes(p, [request[p] EXCEPT !.pc = "queue", !.todo = list])
      BY <2>4 DEF FindWaiting
    <3> DEFINE r == [request[p] EXCEPT !.pc = "queue", !.todo = list]
    <3>1. r.pc = "queue" /\ Becomes(p, r) /\ UNCHANGED conv
      BY <2>0, <2>4 DEF FindWaiting, Local
    <3> HIDE DEF r
    <3> QED BY <3>1, <1>quiet
  <2>5. CASE NextWaiting(p)
    <3>1. CASE Becomes(p, Idle)
      BY <2>5, <3>1, <1>idle, <1>quiet DEF NextWaiting
    <3>2. CASE ~Becomes(p, Idle)
      <4> PICK c, rest : Becomes(p, [request[p] EXCEPT !.pc = "list", !.conv = c, !.todo = rest])
        BY <2>5, <3>2 DEF NextWaiting
      <4> DEFINE r == [request[p] EXCEPT !.pc = "list", !.conv = c, !.todo = rest]
      <4>1. r.pc = "list" /\ Becomes(p, r) /\ UNCHANGED conv
        BY <2>0, <2>5 DEF NextWaiting, Local
      <4> HIDE DEF r
      <4> QED BY <4>1, <1>quiet
    <3> QED BY <3>1, <3>2
  <2>6. CASE NextAssigned(p)
    <3>1. CASE Becomes(p, Idle)
      BY <2>6, <3>1, <1>idle, <1>quiet DEF NextAssigned
    <3>2. CASE ~Becomes(p, Idle)
      <4> PICK t \in request[p].todo :
            Becomes(p, [request[p] EXCEPT !.pc = IF presence[t[2]] = "off" THEN "seen" ELSE "sweep",
                                          !.conv = t[1], !.operator = t[2],
                                          !.todo = request[p].todo \ {t}])
        BY <2>6, <3>2 DEF NextAssigned
      <4> DEFINE r == [request[p] EXCEPT !.pc = IF presence[t[2]] = "off" THEN "seen" ELSE "sweep",
                                         !.conv = t[1], !.operator = t[2],
                                         !.todo = request[p].todo \ {t}]
      <4>1. r.pc \in {"seen", "sweep"} /\ Becomes(p, r) /\ UNCHANGED conv
        BY <2>0, <2>6 DEF NextAssigned, Local
      <4> HIDE DEF r
      <4> QED BY <4>1, <1>quiet
    <3> QED BY <3>1, <3>2
  <2>7. CASE CheckLastSeen(p)
    <3> DEFINE r == [request[p] EXCEPT
                       !.pc = IF lastSeen[request[p].operator] = "old" THEN "list" ELSE "sweep"]
    <3>1. r.pc \in {"list", "sweep"} /\ Becomes(p, r) /\ UNCHANGED conv
      BY <2>0, <2>7 DEF CheckLastSeen, Local
    <3> HIDE DEF r
    <3> QED BY <3>1, <1>quiet
  <2>8. CASE ListAvailable(p)
    <3> DEFINE known == {o \in Operators : presence[o] = "available"} \cap Members
               clear == [request[p] EXCEPT !.pc = "clear"]
               count == [request[p] EXCEPT !.pc = "count", !.candidates = known, !.uncounted = known]
    <3>1. /\ Return(p) \/ Becomes(p, clear) \/ Becomes(p, count)
          /\ UNCHANGED conv /\ request[p].pc = "list"
      BY <2>8 DEF ListAvailable, At
    <3> HIDE DEF known
    <3>2. clear.pc = "clear" /\ count.candidates = known /\ count.uncounted = known /\ count.pc = "count"
      BY <2>0 DEF Local
    <3> HIDE DEF clear, count
    <3> QED BY <2>0, <3>1, <3>2, <1>quiet, <1>returns, Quiet
  <2>9. CASE Clear(p)
    <3>1. /\ request[p].kind \in {"handoff", "queue", "sweep"} /\ request[p].conv \in Conversations
      BY <2>0, <2>9 DEF Clear, At, LocalOK
    <3> QED BY <2>9, <3>1, Distributed DEF Clear
  <2>10. CASE Assign(p)
    <3>1. /\ request[p].kind \in {"handoff", "queue", "sweep"} /\ request[p].conv \in Conversations
          /\ request[p].candidates \subseteq Operators
      BY <2>0, <2>10 DEF Assign, At, LocalOK, Local
    <3>2. \A o \in LeastLoaded(p) : o \in Operators /\ p \in SawRoom(o)
      BY <2>10, <3>1 DEF LeastLoaded, Eligible, SawRoom, Assign
    <3>3. \E x \in Operators \cup {None} :
            /\ conv' = [conv EXCEPT ![request[p].conv].assigned = x]
            /\ x = None \/ p \in SawRoom(x)
      BY <2>10, <3>2 DEF Assign
    <3> QED BY <2>10, <3>1, <3>3, Distributed DEF Assign
  <2>11. ASSUME NEW o \in Operators, CountLoad(p, o) PROVE RoomBound'
    BY <2>11, Counted
  <2> QED BY <1>step, <2>1, <2>2, <2>3, <2>4, <2>5, <2>6, <2>7, <2>8, <2>9, <2>10, <2>11 DEF Step
<1>1. ASSUME NEW p \in Requests, RequestFails(p) PROVE RoomBound'
  BY <1>1, <1>idle, <1>quiet DEF RequestFails
<1>2. CASE Panel
  <2>1. PICK c \in Conversations : UpdateStatus(c, "closed")
    BY <1>2 DEF Panel, NothingByHand, Reassign
  <2>2. \A d \in Conversations : /\ conv'[d].mode = conv[d].mode
                                 /\ conv'[d].assigned = conv[d].assigned
                                 /\ conv'[d].status = "active" => conv[d].status = "active"
    BY <2>1 DEF UpdateStatus, Typed, Row
  <2>3. UNCHANGED request
    BY <2>1 DEF UpdateStatus
  <2> SUFFICES ASSUME NEW o \in Operators
               PROVE  Cardinality(Reach(o)') + Cardinality(SawRoom(o)')
                        <= MaxChats - 1 + Cardinality(Requests)
    BY DEF RoomBound
  <2>4. Reach(o)' \subseteq Reach(o)
    BY <2>2, <2>3 DEF Reach, Chats, Pinned, At
  <2>5. SawRoom(o)' \subseteq SawRoom(o)
    BY <2>3 DEF SawRoom, At
  <2> QED BY <2>4, <2>5, Shrinks
<1>3. CASE UNCHANGED <<conv, request>>
  BY <1>3 DEF RoomBound, Reach, Chats, Pinned, SawRoom, At
<1>4. Presence \/ UNCHANGED vars => UNCHANGED <<conv, request>>
  BY DEF Presence, GoOffline, PresenceExpires, LastSeenAges, vars
<1> QED BY <1>start, <1>step, <1>1, <1>2, <1>3, <1>4 DEF Next

-----------------------------------------------------------------------------
(* Distributions that do not overlap.                                      *)

\* One request at a time, and nobody edits the conversations in the panel.
OneAtATime ==
  /\ \A p, q \in Requests : p = q
  /\ "reassign" \notin Routes
  /\ StatusInputs = {} /\ ModeInputs = {}

\* Manual, and nobody's.
Free(c) == conv[c].mode = "manual" /\ conv[c].assigned = None

\* The loads a request has counted are those the operators have, and what it has
\* yet to distribute, unless it moves conversations of operators who have gone,
\* still waits for an operator.
Current(r) ==
  /\ r.pc = "count" => \A o \in r.candidates \ r.uncounted : r.loads[o] = Load(o)
  /\ r.kind # "sweep" =>
       /\ \A t \in r.todo : Free(t[1]) /\ t[2] = None
       /\ r.pc \in {"list", "count", "clear"} =>
            Free(r.conv) /\ \A t \in r.todo : t[1] # r.conv

SerialInv == Typed /\ faults \in Nat /\ \A p \in Requests : Current(request[p])

\* The only request moves on.
LEMMA SerialTurn ==
  ASSUME OneAtATime, Typed, NEW p \in Requests, NEW r, Becomes(p, r), Current(r)'
  PROVE  \A q \in Requests : Current(request[q])'
<1> SUFFICES ASSUME NEW q \in Requests PROVE Current(request[q])'
  OBVIOUS
<1>1. request'[q] = r
  BY DEF OneAtATime, Becomes, Typed
<1> QED BY <1>1 DEF Current

\* A request that works on no conversation has nothing that could be stale.
LEMMA NothingStale ==
  ASSUME NEW r, r.pc \notin {"list", "count", "clear"}, r.todo = {}
  PROVE  Current(r)'
BY DEF Current

\* Where distribute() returns to, the rest of the list still waits.
LEMMA Returned ==
  ASSUME OneAtATime, Typed, NEW p \in Requests, Return(p),
         request[p].kind \in {"handoff", "queue", "sweep"},
         request[p].kind = "queue" => \A t \in request[p].todo : Free(t[1])' /\ t[2] = None
  PROVE  \A q \in Requests : Current(request[q])'
<1>1. CASE request[p].kind = "handoff"
  <2>1. Becomes(p, Idle)
    BY <1>1 DEF Return
  <2>2. Idle.pc = "idle" /\ Idle.todo = {}
    BY DEF Idle
  <2> QED BY <2>1, <2>2, NothingStale, SerialTurn
<1>2. CASE request[p].kind # "handoff"
  <2> PICK r : r = [Idle EXCEPT !.pc = request[p].kind, !.kind = request[p].kind,
                                !.todo = request[p].todo]
    OBVIOUS
  <2>1. /\ Becomes(p, r) /\ r.pc = request[p].kind /\ r.kind = request[p].kind
        /\ r.todo = request[p].todo
    BY <1>2 DEF Return, Idle
  <2>2. request[p].kind \notin {"list", "count", "clear"}
    BY <1>2
  <2>3. Current(r)'
    BY <1>2, <2>1, <2>2 DEF Current
  <2> QED BY <2>1, <2>3, SerialTurn
<1> QED BY <1>1, <1>2

LEMMA SerialInit == Init => \A p \in Requests : Current(request[p])
BY DEF Init, Idle, Current

\* Every step of a request that is alone keeps what it knows up to date.
LEMMA SerialStep ==
  ASSUME OneAtATime, SerialInv, [Next]_vars
  PROVE  \A p \in Requests : Current(request[p])'
<1> USE DEF SerialInv
<1>idle. ASSUME NEW p \in Requests, Becomes(p, Idle)
         PROVE  \A q \in Requests : Current(request[q])'
  <2>1. Idle.pc = "idle" /\ Idle.todo = {}
    BY DEF Idle
  <2> QED BY <1>idle, <2>1, NothingStale, SerialTurn
<1>start. ASSUME NEW p \in Requests, Start(p)
          PROVE  \A q \in Requests : Current(request[q])'
  <2>1. CASE \E c \in Conversations, o \in Targets : RequestHandoff(p, c, o)
    <3> PICK c \in Conversations, o \in Targets : RequestHandoff(p, c, o)
      BY <2>1
    <3> PICK t : t = IF o # None THEN o ELSE conv[c].assigned
      OBVIOUS
    <3> PICK r : r = [Idle EXCEPT !.pc = "handoff", !.conv = c, !.operator = t]
      OBVIOUS
    <3>1. Becomes(p, r) /\ r.pc = "handoff" /\ r.todo = {}
      BY DEF RequestHandoff, Idle
    <3> QED BY <3>1, NothingStale, SerialTurn
  <2>2. CASE \E c \in Conversations : RequestRelease(p, c)
    <3> PICK c \in Conversations : RequestRelease(p, c)
      BY <2>2
    <3> PICK r : r = [Idle EXCEPT !.pc = "release", !.conv = c]
      OBVIOUS
    <3>1. Becomes(p, r) /\ r.pc = "release" /\ r.todo = {}
      BY DEF RequestRelease, Idle
    <3> QED BY <3>1, NothingStale, SerialTurn
  <2>3. CASE \E route \in {"heartbeat", "status"}, o \in Operators, s \in Asked :
               RequestHeartbeat(p, route, o, s)
    <3> PICK route \in {"heartbeat", "status"}, o \in Operators, s \in Asked :
               RequestHeartbeat(p, route, o, s)
      BY <2>3
    <3> PICK r : r = [Idle EXCEPT !.pc = "beat", !.kind = route, !.operator = o, !.asked = s]
      OBVIOUS
    <3>1. Becomes(p, r) /\ r.pc = "beat" /\ r.todo = {}
      BY DEF RequestHeartbeat, Idle
    <3> QED BY <3>1, NothingStale, SerialTurn
  <2>4. CASE RequestListing(p)
    <3> PICK list : list = {<<c, conv[c].assigned>> :
                          c \in {d \in Conversations : \E o \in Operators : d \in Chats(o)}}
      OBVIOUS
    <3> PICK r : r = [Idle EXCEPT !.pc = "sweep", !.kind = "sweep", !.todo = list]
      OBVIOUS
    <3>1. Becomes(p, r) /\ r.pc = "sweep" /\ r.kind = "sweep"
      BY <2>4 DEF RequestListing, Idle
    <3>2. Current(r)'
      BY <3>1 DEF Current
    <3> QED BY <3>1, <3>2, SerialTurn
  <2> QED BY <1>start, <2>1, <2>2, <2>3, <2>4 DEF Start
<1>step. ASSUME NEW p \in Requests, Step(p)
         PROVE  \A q \in Requests : Current(request[q])'
  <2>0. request[p] \in Local /\ LocalOK(request[p]) /\ Current(request[p])
    BY DEF Typed, LocalOK
  <2>1. CASE SetManual(p)
    <3> PICK c : c = request[p].conv
      OBVIOUS
    <3> PICK r : r = [Idle EXCEPT !.pc = "list", !.conv = c]
      OBVIOUS
    <3>1. CASE request[p].operator = None
      <4>1. Becomes(p, r) /\ r.conv = c /\ r.pc = "list" /\ r.todo = {}
        BY <2>1, <3>1 DEF SetManual, Idle
      <4>2. c \in Conversations
        BY <2>0, <2>1 DEF SetManual, At, LocalOK
      <4>3. Free(c)'
        BY <2>1, <3>1, <4>2 DEF SetManual, Free, Typed, Row
      <4>4. Current(r)'
        BY <4>1, <4>3 DEF Current
      <4> QED BY <4>1, <4>4, SerialTurn
    <3>2. CASE request[p].operator # None
      BY <2>1, <3>2, <1>idle DEF SetManual
    <3> QED BY <3>1, <3>2
  <2>2. CASE Release(p)
    BY <2>2, <1>idle DEF Release
  <2>3. CASE Heartbeat(p)
    <3> PICK r : r = [Idle EXCEPT !.pc = "drain", !.kind = "queue"]
      OBVIOUS
    <3>1. r.pc = "drain" /\ r.todo = {}
      BY DEF Idle
    <3>2. Becomes(p, r) \/ Becomes(p, Idle)
      BY <2>3 DEF Heartbeat
    <3> QED BY <3>1, <3>2, <1>idle, NothingStale, SerialTurn
  <2>4. CASE FindWaiting(p)
    <3> PICK list : list = {<<c, None>> : c \in {d \in Conversations : Waiting(d)}}
      OBVIOUS
    <3> PICK r : r = [request[p] EXCEPT !.pc = "queue", !.todo = list]
      OBVIOUS
    <3>1. Becomes(p, r) /\ r.pc = "queue" /\ r.todo = list
      BY <2>0, <2>4 DEF FindWaiting, Local
    <3>2. \A t \in list : Free(t[1])' /\ t[2] = None
      BY <2>4 DEF FindWaiting, Waiting, Free
    <3>3. Current(r)'
      BY <3>1, <3>2 DEF Current
    <3> QED BY <3>1, <3>3, SerialTurn
  <2>5. CASE NextWaiting(p)
    <3>1. CASE Becomes(p, Idle)
      BY <3>1, <1>idle
    <3>2. CASE ~Becomes(p, Idle)
      <4> PICK t \in request[p].todo :
                 Becomes(p, [request[p] EXCEPT !.pc = "list", !.conv = t[1],
                                               !.todo = request[p].todo \ {t}])
        BY <2>5, <3>2 DEF NextWaiting
      <4> PICK r : r = [request[p] EXCEPT !.pc = "list", !.conv = t[1],
                                         !.todo = request[p].todo \ {t}]
        OBVIOUS
      <4>1. /\ Becomes(p, r) /\ r.pc = "list" /\ r.conv = t[1]
            /\ r.todo = request[p].todo \ {t} /\ r.kind = request[p].kind
        BY <2>0 DEF Local
      <4>2. UNCHANGED conv /\ request[p].pc = "queue"
        BY <2>5 DEF NextWaiting, At
      <4>3. request[p].kind = "queue"
        BY <2>0, <4>2 DEF LocalOK
      <4>4. \A u \in request[p].todo : Free(u[1])' /\ u[2] = None
        BY <2>0, <4>2, <4>3 DEF Current, Free
      <4>5. \A u \in request[p].todo \ {t} : u[1] # t[1]
        BY <2>0, <4>4 DEF Local, Entries
      <4>6. Current(r)'
        BY <4>1, <4>4, <4>5 DEF Current
      <4> QED BY <4>1, <4>6, SerialTurn
    <3> QED BY <3>1, <3>2
  <2>6. CASE NextAssigned(p)
    <3>1. CASE Becomes(p, Idle)
      BY <3>1, <1>idle
    <3>2. CASE ~Becomes(p, Idle)
      <4> PICK t \in request[p].todo :
            Becomes(p, [request[p] EXCEPT !.pc = IF presence[t[2]] = "off" THEN "seen" ELSE "sweep",
                                          !.conv = t[1], !.operator = t[2],
                                          !.todo = request[p].todo \ {t}])
        BY <2>6, <3>2 DEF NextAssigned
      <4> PICK r : r = [request[p] EXCEPT !.pc = IF presence[t[2]] = "off" THEN "seen" ELSE "sweep",
                                         !.conv = t[1], !.operator = t[2],
                                         !.todo = request[p].todo \ {t}]
        OBVIOUS
      <4>1. request[p].kind = "sweep"
        BY <2>0, <2>6 DEF NextAssigned, At, LocalOK
      <4>2. Becomes(p, r) /\ r.pc \in {"seen", "sweep"} /\ r.kind = "sweep"
        BY <2>0, <4>1 DEF Local
      <4>3. Current(r)'
        BY <4>2 DEF Current
      <4> QED BY <4>2, <4>3, SerialTurn
    <3> QED BY <3>1, <3>2
  <2>7. CASE CheckLastSeen(p)
    <3> PICK r : r = [request[p] EXCEPT
                       !.pc = IF lastSeen[request[p].operator] = "old" THEN "list" ELSE "sweep"]
      OBVIOUS
    <3>1. request[p].kind = "sweep"
      BY <2>0, <2>7 DEF CheckLastSeen, At, LocalOK
    <3>2. Becomes(p, r) /\ r.pc \in {"list", "sweep"} /\ r.kind = "sweep"
      BY <2>0, <2>7, <3>1 DEF CheckLastSeen, Local
    <3>3. Current(r)'
      BY <3>2 DEF Current
    <3> QED BY <3>2, <3>3, SerialTurn
  <2>8. CASE ListAvailable(p)
    <3> PICK d : d = request[p].conv
      OBVIOUS
    <3> PICK known : known = {o \in Operators : presence[o] = "available"} \cap Members
      OBVIOUS
    <3> PICK clear : clear = [request[p] EXCEPT !.pc = "clear"]
      OBVIOUS
    <3> PICK count : count = [request[p] EXCEPT !.pc = "count", !.candidates = known, !.uncounted = known]
      OBVIOUS
    <3>1. /\ Return(p) \/ Becomes(p, clear) \/ Becomes(p, count)
          /\ UNCHANGED conv /\ request[p].pc = "list"
      BY <2>8 DEF ListAvailable, At
    <3>2. /\ clear.pc = "clear" /\ clear.kind = request[p].kind
          /\ clear.conv = request[p].conv /\ clear.todo = request[p].todo
          /\ count.pc = "count" /\ count.kind = request[p].kind
          /\ count.conv = request[p].conv /\ count.todo = request[p].todo
          /\ count.candidates = known /\ count.uncounted = known
      BY <2>0 DEF Local
    <3>3. request[p].kind \in {"handoff", "queue", "sweep"}
      BY <2>0, <3>1 DEF LocalOK
    <3>4. request[p].kind # "sweep" =>
            /\ \A t \in request[p].todo : Free(t[1])' /\ t[2] = None /\ t[1] # request[p].conv
            /\ Free(d)'
      BY <2>0, <3>1 DEF Current, Free
    <3>5. Current(clear)' /\ Current(count)'
      BY <3>2, <3>4 DEF Current
    <3>6. CASE Return(p)
      BY <3>3, <3>4, <3>6, Returned
    <3> QED BY <3>1, <3>5, <3>6, SerialTurn
  <2>9. CASE Clear(p)
    <3>1. request[p].pc = "clear" /\ Return(p)
      BY <2>9 DEF Clear, At
    <3>2. /\ request[p].kind \in {"handoff", "queue", "sweep"}
          /\ request[p].conv \in Conversations
          /\ request[p].todo \subseteq Entries
      BY <2>0, <3>1 DEF LocalOK, Local
    <3>3. ASSUME request[p].kind = "queue", NEW t \in request[p].todo
          PROVE  Free(t[1])' /\ t[2] = None
      <4>1. Free(t[1]) /\ t[2] = None /\ t[1] # request[p].conv
        BY <2>0, <3>1, <3>3 DEF Current
      <4>2. t[1] \in Conversations
        BY <3>2 DEF Entries
      <4> QED BY <2>9, <4>1, <4>2 DEF Clear, Free, Typed
    <3> QED BY <3>1, <3>2, <3>3, Returned
  <2>10. CASE Assign(p)
    <3>1. request[p].pc = "count" /\ Return(p)
      BY <2>10 DEF Assign, At
    <3>2. /\ request[p].kind \in {"handoff", "queue", "sweep"}
          /\ request[p].conv \in Conversations
          /\ request[p].todo \subseteq Entries
      BY <2>0, <3>1 DEF LocalOK, Local
    <3>3. \E x : conv' = [conv EXCEPT ![request[p].conv].assigned = x]
      BY <2>10 DEF Assign
    <3>4. ASSUME request[p].kind = "queue", NEW t \in request[p].todo
          PROVE  Free(t[1])' /\ t[2] = None
      <4>1. Free(t[1]) /\ t[2] = None /\ t[1] # request[p].conv
        BY <2>0, <3>1, <3>4 DEF Current
      <4>2. t[1] \in Conversations
        BY <3>2 DEF Entries
      <4> QED BY <3>3, <4>1, <4>2 DEF Free, Typed
    <3> QED BY <3>1, <3>2, <3>4, Returned
  <2>11. ASSUME NEW o \in Operators, CountLoad(p, o)
         PROVE  \A q \in Requests : Current(request[q])'
    <3> PICK d : d = request[p].conv
      OBVIOUS
    <3> PICK loads : loads = [request[p].loads EXCEPT ![o] = Load(o)]
      OBVIOUS
    <3> PICK rest : rest = request[p].uncounted \ {o}
      OBVIOUS
    <3> PICK r : r = [request[p] EXCEPT !.loads = loads, !.uncounted = rest]
      OBVIOUS
    <3>1. Becomes(p, r) /\ UNCHANGED conv /\ request[p].pc = "count"
      BY <2>11 DEF CountLoad, At
    <3>2. /\ r.pc = "count" /\ r.kind = request[p].kind /\ r.conv = request[p].conv
          /\ r.todo = request[p].todo /\ r.candidates = request[p].candidates
          /\ r.loads = loads /\ r.uncounted = rest
      BY <2>0, <3>1 DEF Local
    <3>3. \A x \in Operators : Load(x)' = Load(x)
      BY <3>1 DEF Load, Chats
    <3>4. ASSUME NEW x \in request[p].candidates \ rest
          PROVE  loads[x] = Load(x)'
      <4>1. x \in Operators /\ request[p].loads \in [Operators -> Nat]
        BY <2>0 DEF Local
      <4>2. x # o => request[p].loads[x] = Load(x)
        BY <2>0, <3>1 DEF Current
      <4> QED BY <3>3, <4>1, <4>2
    <3>5. request[p].kind # "sweep" =>
            /\ \A t \in request[p].todo : Free(t[1])' /\ t[2] = None /\ t[1] # request[p].conv
            /\ Free(d)'
      BY <2>0, <3>1 DEF Current, Free
    <3>6. Current(r)'
      BY <3>2, <3>4, <3>5 DEF Current
    <3> QED BY <3>1, <3>6, SerialTurn
  <2> QED BY <1>step, <2>1, <2>2, <2>3, <2>4, <2>5, <2>6, <2>7, <2>8, <2>9, <2>10, <2>11 DEF Step
<1>1. ASSUME NEW p \in Requests, RequestFails(p)
      PROVE  \A q \in Requests : Current(request[q])'
  BY <1>1, <1>idle DEF RequestFails
<1>2. ~Panel
  BY DEF Panel, OneAtATime, Reassign
<1>3. CASE UNCHANGED <<conv, request>>
  BY <1>3 DEF Current, Free, Load, Chats
<1>4. Presence \/ UNCHANGED vars => UNCHANGED <<conv, request>>
  BY DEF Presence, GoOffline, PresenceExpires, LastSeenAges, vars
<1> QED BY <1>start, <1>step, <1>1, <1>2, <1>3, <1>4 DEF Next

\* Only the assignment of a request that has counted gives its conversation to
\* somebody.
LEMMA GivenByAssign ==
  ASSUME OneAtATime, Typed, faults \in Nat, [Next]_vars,
         NEW p \in Requests, NEW o \in Operators, Gives(p, o)
  PROVE  o \in LeastLoaded(p)
<1>1. request[p].pc = "count" /\ request[p].uncounted = {} /\ faults' = faults
  BY DEF Gives, At
<1>2. Assign(p)
  <2>1. ~UNCHANGED request
    BY DEF Gives, At
  <2>2. \E q \in Requests : Start(q) \/ Step(q) \/ RequestFails(q)
    BY <2>1 DEF Next, vars, Panel, Reassign, UpdateStatus, UpdateMode,
                Presence, GoOffline, PresenceExpires, LastSeenAges
  <2>3. Start(p) \/ Step(p) \/ RequestFails(p)
    BY <2>2 DEF OneAtATime
  <2>4. ~Start(p)
    BY <1>1 DEF Start, RequestHandoff, RequestRelease, RequestHeartbeat, RequestListing, At
  <2>5. ~RequestFails(p)
    <3>1. faults + 1 # faults
      OBVIOUS
    <3> QED BY <1>1, <3>1 DEF RequestFails
  <2>6. Step(p)
    BY <2>3, <2>4, <2>5
  <2> QED BY <1>1, <2>6 DEF Step, SetManual, Release, Heartbeat, FindWaiting, NextWaiting,
                            NextAssigned, CheckLastSeen, ListAvailable, Clear, CountLoad, At
<1>3. request[p].conv \in Conversations
  BY <1>1 DEF Typed, LocalOK
<1>4. \A x : conv' = [conv EXCEPT ![request[p].conv].assigned = x]
               => conv'[request[p].conv].assigned = x
  BY <1>3 DEF Typed, Row
<1>5. o # None
  BY HandoffAssumption
<1> QED BY <1>2, <1>4, <1>5 DEF Assign, Gives

\* Failed calls are counted.
LEMMA FaultsStep == faults \in Nat /\ [Next]_vars => faults' \in Nat
<1>1. ASSUME NEW p \in Requests, Start(p) PROVE faults' = faults
  BY <1>1 DEF Start, RequestHandoff, RequestRelease, RequestHeartbeat, RequestListing
<1>2. ASSUME NEW p \in Requests, Step(p) PROVE faults' = faults
  BY <1>2 DEF Step, SetManual, Release, Heartbeat, FindWaiting, NextWaiting, NextAssigned,
              CheckLastSeen, ListAvailable, Clear, Assign, CountLoad
<1>3. ASSUME NEW p \in Requests, RequestFails(p) PROVE faults' = faults + 1
  BY <1>3 DEF RequestFails
<1>4. Panel \/ Presence \/ UNCHANGED vars => faults' = faults
  BY DEF Panel, Reassign, UpdateStatus, UpdateMode, Presence, GoOffline, PresenceExpires,
         LastSeenAges, vars
<1> QED BY <1>1, <1>2, <1>3, <1>4 DEF Next

\* What the distributor knows when it assigns is what holds.
LEMMA GivenInOrder ==
  ASSUME OneAtATime, SerialInv, [Next]_vars,
         NEW p \in Requests, NEW o \in Operators, Gives(p, o)
  PROVE  /\ \A q \in request[p].candidates : Load(o) <= Load(q)
         /\ request[p].kind # "sweep" => Free(request[p].conv)
<1>1. o \in LeastLoaded(p)
  BY GivenByAssign DEF SerialInv
<1>2. request[p].pc = "count" /\ request[p].uncounted = {}
  BY DEF Gives, At
<1>3. request[p].candidates \subseteq Operators
  BY DEF SerialInv, Typed, Local
<1>4. \A q \in request[p].candidates : request[p].loads[q] = Load(q)
  BY <1>2 DEF SerialInv, Current
<1>5. request[p].kind # "sweep" => Free(request[p].conv)
  BY <1>2 DEF SerialInv, Current
<1>6. ASSUME NEW q \in request[p].candidates PROVE Load(o) <= Load(q)
  <2>1. o \in request[p].candidates /\ Load(o) < MaxChats
    BY <1>1, <1>4 DEF LeastLoaded, Eligible
  <2>2. Load(q) < MaxChats => Load(o) <= Load(q)
    BY <1>1, <1>4, <2>1 DEF LeastLoaded, Eligible
  <2>3. Load(o) \in Nat /\ Load(q) \in Nat /\ MaxChats \in Nat
    BY LoadIsNat, HandoffAssumption
  <2> QED BY <2>1, <2>2, <2>3
<1> QED BY <1>5, <1>6

-----------------------------------------------------------------------------
(* The theorems.                                                           *)

\* The local variables of every request stay of their types, whichever routes
\* are called: what distribute() works on is a conversation, and what the
\* sweep for abandoned conversations looks up is an operator.
THEOREM RequestsTyped == Spec => []Typed
<1>1. Init => Typed
  BY TypedInit
<1>2. Typed /\ [Next]_vars => Typed'
  BY TypedStep
<1> QED BY <1>1, <1>2, PTL DEF Spec

\* HandoffDistributorService counts an operator's chats and assigns in separate
\* calls.  However many distributions overlap, an operator ends up with at most
\* one chat more than the limit for each other request in progress, as long as
\* nobody assigns, frees or reopens conversations by hand.
THEOREM OverlapBound ==
  ASSUME NothingByHand
  PROVE  Spec => []OverCapacityNeedsOverlap
<1>1. Init => BoundInv
  BY TypedInit, ManualInit, RoomInit DEF BoundInv
<1>2. BoundInv /\ [Next]_vars => BoundInv'
  BY TypedStep, ManualStep, RoomStep DEF BoundInv
<1>3. BoundInv => OverCapacityNeedsOverlap
  <2> SUFFICES ASSUME BoundInv, NEW o \in Operators
               PROVE  Load(o) <= MaxChats + Cardinality(Requests) - 1
    BY DEF OverCapacityNeedsOverlap
  <2>1. Cardinality(Chats(o)) <= Cardinality(Reach(o))
    BY Sizes, FS_Subset DEF Reach
  <2> QED BY <2>1, Sizes, HandoffAssumption DEF BoundInv, RoomBound, Load
<1> QED BY <1>1, <1>2, <1>3, PTL DEF Spec

\* Distributions that do not overlap choose the least loaded of the operators
\* they found available, whatever failed before, and those of the queue and of
\* handoffs without an operator give away conversations that wait for one: with
\* one request at a time, redistributeQueue() and distribute() act on what is.
THEOREM OrderWithoutOverlap ==
  ASSUME OneAtATime
  PROVE  Spec => DistributionIsOrderly
<1>1. Init => SerialInv
  BY TypedInit, SerialInit DEF SerialInv, Init
<1>2. SerialInv /\ [Next]_vars => SerialInv'
  BY TypedStep, SerialStep, FaultsStep DEF SerialInv
<1>3. SerialInv /\ [Next]_vars =>
        \A p \in Requests, o \in Operators :
          Gives(p, o) => \A q \in request[p].candidates : Load(o) <= Load(q)
  BY GivenInOrder
<1>4. SerialInv /\ [Next]_vars =>
        \A p \in Requests, o \in Operators :
          Gives(p, o) /\ request[p].kind # "sweep" =>
            /\ conv[request[p].conv].mode = "manual"
            /\ conv[request[p].conv].assigned = None
  BY GivenInOrder DEF Free
<1> QED BY <1>1, <1>2, <1>3, <1>4, PTL
        DEF Spec, DistributionIsOrderly, LeastLoadedWins, OnlyWaitingAreDistributed
=============================================================================
