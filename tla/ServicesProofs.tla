--------------------------- MODULE ServicesProofs ---------------------------
(***************************************************************************)
(* Proofs about the components of Services, each for every value of its    *)
(* parameters: ClientSettings, for any number of providers, agents, calls  *)
(* and failures; VoiceSession, for any number of calls; MediaProcessing,   *)
(* for any assets and workers; AgentTurn, for any runs, agents,            *)
(* conditions, variables and tools.                                        *)
(***************************************************************************)
EXTENDS Services, FiniteSetTheorems, WellFoundedInduction, TLAPS

-----------------------------------------------------------------------------
(* The settings of a client: once everybody has finished, the keys of the  *)
(* metadata agree with the table, the generated part with the agents, and  *)
(* one agent at most is the initial one.                                   *)

Row == [key : Saves \cup {Old, None}, models : Saves \cup {Old, None}]

Local ==
  [pc : {"idle", "client", "row", "sync", "unique", "generate", "read", "write", "done"},
   seen : [llm : [Provider -> Row], generated : Nat],
   body : [Provider -> {"new", "masked", "empty", "absent"}],
   todo : SUBSET Provider, row : Row, agent : Provider \cup PanelAgents \cup {None}, met : BOOLEAN]

\* Where each kind of call can be.
Places(x) ==
  {"idle", "done"} \cup
    IF x \in Edits THEN {"unique", "generate", "read", "write"}
    ELSE {"client", "row"} \cup IF x \in Saves THEN {"sync"} ELSE {}

TypeOK ==
  /\ credential \in [Provider -> Row]
  /\ metadata \in [llm : [Provider -> Row], generated : Nat]
  /\ initial \subseteq PanelAgents
  /\ version \in Nat
  /\ process \in [Settings!Processes -> Local]
  /\ last \in [Provider -> Saves \cup {Old, None}]
  /\ excused \subseteq Provider
  /\ dated \in BOOLEAN
  /\ faults \in Nat
  /\ \A x \in Settings!Processes : process[x].pc \in Places(x)

\* Of two calls under way each has met another.
Meeting == \A x, y \in Settings!UnderWay : x = y \/ process[x].met

Unmet(x) == x \in Settings!UnderWay /\ ~process[x].met

Agree(p) ==
  /\ Settings!resolveApiKey(p) = last[p] /\ metadata.llm[p].key = last[p]
  /\ credential[p] # Settings!Nothing => credential[p] = metadata.llm[p]

\* Only a save takes the keys apart before it brings them together.
NoSave == Saves \cap Settings!UnderWay = {}

KeysRest == NoSave => \A p \in Provider \ excused : Agree(p)

\* Providers of a save whose row is still as the save found it.
Pending(s) == process[s].todo \cup IF Settings!At(s, "sync") THEN {process[s].agent} ELSE {}

Sent(s, p) == process[s].body[p] # "absent"

Untouched(s, p) == p \in Pending(s) \/ ~Sent(s, p)

\* A row the save has synchronised, ahead of the metadata it will write.
Synced(s, p) ==
  IF process[s].body[p] = "new"
    THEN credential[p] = [key |-> s, models |-> s] /\ last[p] = s
    ELSE p \notin excused =>
           /\ metadata.llm[p].key = last[p]
           /\ credential[p] # Settings!Nothing => credential[p] = [key |-> last[p], models |-> s]

\* A save that meets nobody has seen what is there, row by row.
Knows(s) ==
  /\ \A p \in Pending(s) : Sent(s, p)
  /\ \A p \in Provider : Untouched(s, p) /\ p \notin excused => Agree(p)
  /\ \A p \in Provider : ~Untouched(s, p) => Synced(s, p)
  /\ ~Settings!At(s, "client") => process[s].seen = metadata
  /\ Settings!At(s, "sync") => /\ process[s].agent \in Provider \ process[s].todo
                      /\ process[s].row = credential[process[s].agent]

SavesKnow == \A s \in Saves : Unmet(s) => Knows(s)

EditsKnow ==
  \A e \in Edits : Unmet(e) =>
    /\ Settings!At(e, "read") \/ Settings!At(e, "write") => process[e].seen.generated = version
    /\ Settings!At(e, "write") => process[e].seen.llm = metadata.llm

MigrationsKnow ==
  \A m \in Migrations : Unmet(m) /\ Settings!At(m, "row") =>
    /\ process[m].seen = metadata
    /\ \A p \in process[m].todo : metadata.llm[p].key # None

GeneratedRests == Edits \cap Settings!UnderWay = {} /\ ~dated => metadata.generated = version

\* Two initial agents wait for a call that will clear all but one.
OneLeft ==
  faults = 0 => \/ \A a, b \in initial : a = b
                \/ \E e \in Edits : Settings!At(e, "unique")

IInv ==
  /\ TypeOK /\ Meeting /\ KeysRest /\ SavesKnow /\ EditsKnow /\ MigrationsKnow
  /\ GeneratedRests /\ OneLeft

-----------------------------------------------------------------------------
(* How a step moves the calls.                                             *)

LEMMA IdleTyped == Settings!Nothing \in Row /\ Settings!Idle \in Local /\ [Settings!Idle EXCEPT !.pc = "done"] \in Local
<1>1. Settings!Nothing \in Row
  BY DEF Settings!Nothing, Row
<1>2. QED
  BY <1>1 DEF Settings!Idle, Local

\* The three kinds of calls are different calls, at places of their own.
LEMMA Kinds ==
  ASSUME Settings!SettingsAssumption, NEW x \in Settings!Processes
  PROVE  /\ x \in Saves => x \notin Edits /\ x \notin Migrations
         /\ x \in Edits => x \notin Saves /\ x \notin Migrations
         /\ x \in Migrations => x \notin Saves /\ x \notin Edits
BY DEF Settings!SettingsAssumption

\* A step of a call that is under way: the others stay where they are, and if
\* somebody has met nobody it is this call.
LEMMA Stepping ==
  ASSUME TypeOK, Meeting, NEW x \in Settings!UnderWay, NEW local \in Local,
         local.pc \in Places(x) \ {"idle"},
         local.pc = "done" \/ local.met = process[x].met,
         Settings!Becomes(x, local)
  PROVE  /\ process' \in [Settings!Processes -> Local]
         /\ process'[x] = local
         /\ \A y \in Settings!Processes : y # x => process'[y] = process[y]
         /\ \A y \in Settings!Processes : process'[y].pc \in Places(y)
         /\ Meeting'
         /\ \A y \in Settings!Processes : Unmet(y)' => y = x /\ local.pc # "done" /\ Unmet(x)
         /\ Settings!UnderWay' = IF local.pc = "done" THEN Settings!UnderWay \ {x} ELSE Settings!UnderWay
<1>1. x \in Settings!Processes /\ process \in [Settings!Processes -> Local]
  BY DEF Settings!UnderWay, TypeOK
<1>2. process' = [process EXCEPT ![x] = local]
  BY DEF Settings!Becomes
<1>3. process' \in [Settings!Processes -> Local]
  BY <1>1, <1>2
<1>4. process'[x] = local
  BY <1>1, <1>2
<1>5. \A y \in Settings!Processes : y # x => process'[y] = process[y]
  BY <1>1, <1>2
<1>6. \A y \in Settings!Processes : process'[y].pc \in Places(y)
  BY <1>4, <1>5 DEF TypeOK
<1>7. Settings!UnderWay' = IF local.pc = "done" THEN Settings!UnderWay \ {x} ELSE Settings!UnderWay
  BY <1>1, <1>4, <1>5 DEF Settings!UnderWay
<1>8. Settings!UnderWay' \subseteq Settings!UnderWay
  BY <1>7
<1>9. Meeting'
  <2>1. SUFFICES ASSUME NEW y \in Settings!UnderWay', NEW z \in Settings!UnderWay', y # z
                 PROVE  process'[y].met
    BY DEF Meeting
  <2>2. y \in Settings!Processes /\ process[y].met
    BY <1>8, <2>1 DEF Meeting, Settings!UnderWay
  <2>3. CASE y = x
    <3>1. local.pc # "done"
      BY <1>7, <2>3
    <3>2. QED
      BY <1>4, <2>2, <2>3, <3>1
  <2>4. CASE y # x
    BY <1>5, <2>2, <2>4
  <2>5. QED
    BY <2>3, <2>4
<1>10. ASSUME NEW y \in Settings!Processes, Unmet(y)'
       PROVE  y = x /\ local.pc # "done" /\ Unmet(x)
  <2>1. y \in Settings!UnderWay' /\ ~process'[y].met
    BY <1>10 DEF Unmet
  <2>2. y = x
    <3>1. CASE y # x
      <4>1. y \in Settings!UnderWay /\ process'[y] = process[y]
        BY <1>5, <1>8, <2>1, <3>1
      <4>2. process[y].met
        BY <3>1, <4>1 DEF Meeting
      <4>3. QED
        BY <2>1, <4>1, <4>2
    <3>2. QED
      BY <3>1
  <2>3. local.pc # "done"
    BY <1>7, <2>1, <2>2
  <2>4. ~process[x].met
    BY <1>4, <2>1, <2>2, <2>3
  <2>5. QED
    BY <2>2, <2>3, <2>4 DEF Unmet
<1>11. QED
  BY <1>3, <1>4, <1>5, <1>6, <1>7, <1>9, <1>10

\* A call begins: everybody under way has met it, and it has met them.
LEMMA Beginning ==
  ASSUME TypeOK, Meeting, NEW x \in Settings!Processes, Settings!At(x, "idle"), NEW local \in Local,
         local.pc \in Places(x) \ {"idle", "done"},
         Settings!Begins(x, local)
  PROVE  /\ process' \in [Settings!Processes -> Local]
         /\ process'[x] = [local EXCEPT !.met = Settings!UnderWay # {}]
         /\ \A y \in Settings!Processes : y # x =>
              process'[y] = [process[y] EXCEPT !.met = process[y].met \/ y \in Settings!UnderWay]
         /\ \A y \in Settings!Processes : process'[y].pc \in Places(y)
         /\ Meeting'
         /\ \A y \in Settings!Processes : Unmet(y)' => y = x /\ Settings!UnderWay = {}
         /\ Settings!UnderWay' = Settings!UnderWay \cup {x}
<1>1. process \in [Settings!Processes -> Local] /\ x \notin Settings!UnderWay
  BY DEF Settings!UnderWay, TypeOK, Settings!At
<1>2. process' = [y \in Settings!Processes |->
        IF y = x THEN [local EXCEPT !.met = Settings!UnderWay # {}]
        ELSE [process[y] EXCEPT !.met = process[y].met \/ y \in Settings!UnderWay]]
  BY <1>1 DEF Settings!Begins, Local
<1>3. process'[x] = [local EXCEPT !.met = Settings!UnderWay # {}]
  BY <1>2
<1>4. \A y \in Settings!Processes : y # x =>
        process'[y] = [process[y] EXCEPT !.met = process[y].met \/ y \in Settings!UnderWay]
  BY <1>2
<1>5. [local EXCEPT !.met = Settings!UnderWay # {}] \in Local
  BY DEF Local
<1>6. ASSUME NEW y \in Settings!Processes
      PROVE  [process[y] EXCEPT !.met = process[y].met \/ y \in Settings!UnderWay] \in Local
  <2>1. process[y] \in Local
    BY <1>1
  <2>2. (process[y].met \/ y \in Settings!UnderWay) \in BOOLEAN
    OBVIOUS
  <2>3. QED
    BY <2>1, <2>2 DEF Local
<1>7. process' \in [Settings!Processes -> Local]
  BY <1>2, <1>5, <1>6
<1>8. process'[x].pc = local.pc /\ (process'[x].met <=> Settings!UnderWay # {})
  BY <1>3 DEF Local
<1>9. \A y \in Settings!Processes : y # x =>
        process'[y].pc = process[y].pc /\ (process'[y].met <=> process[y].met \/ y \in Settings!UnderWay)
  <2>1. SUFFICES ASSUME NEW y \in Settings!Processes, y # x
                 PROVE  /\ process'[y].pc = process[y].pc
                        /\ process'[y].met <=> process[y].met \/ y \in Settings!UnderWay
    OBVIOUS
  <2> DEFINE met == process[y].met \/ y \in Settings!UnderWay
  <2>2. process[y] \in Local
    BY <1>1
  <2>3. process'[y] = [process[y] EXCEPT !.met = met]
    BY <1>4, <2>1
  <2> HIDE DEF met
  <2>4. process'[y].pc = process[y].pc /\ process'[y].met = met
    BY <2>2, <2>3 DEF Local
  <2>5. QED
    BY <2>4 DEF met
<1>10. \A y \in Settings!Processes : process'[y].pc \in Places(y)
  BY <1>8, <1>9 DEF TypeOK
<1>11. Settings!UnderWay' = Settings!UnderWay \cup {x}
  BY <1>8, <1>9 DEF Settings!UnderWay
<1>12. Meeting'
  <2>1. SUFFICES ASSUME NEW y \in Settings!UnderWay \cup {x}, NEW z \in Settings!UnderWay \cup {x}, y # z
                 PROVE  process'[y].met
    BY <1>11 DEF Meeting
  <2>2. y \in Settings!Processes
    BY DEF Settings!UnderWay
  <2>3. CASE y = x
    <3>1. z \in Settings!UnderWay
      BY <2>1, <2>3
    <3>2. QED
      BY <1>8, <2>3, <3>1
  <2>4. CASE y # x
    BY <1>9, <2>2, <2>4
  <2>5. QED
    BY <2>3, <2>4
<1>13. ASSUME NEW y \in Settings!Processes, Unmet(y)'
       PROVE  y = x /\ Settings!UnderWay = {}
  <2>1. y \in Settings!UnderWay' /\ ~process'[y].met
    BY <1>13 DEF Unmet
  <2>2. y = x
    BY <1>9, <1>11, <2>1
  <2>3. QED
    BY <1>8, <2>1, <2>2
<1>14. QED
  BY <1>3, <1>4, <1>7, <1>10, <1>11, <1>12, <1>13

-----------------------------------------------------------------------------
(* What the steps have in common.                                          *)

LEMMA InitialKept ==
  ASSUME OneLeft, initial' = initial, faults' = faults,
         \A e \in Edits : Settings!At(e, "unique") => Settings!At(e, "unique")'
  PROVE  OneLeft'
BY DEF OneLeft

LEMMA GeneratedKept ==
  ASSUME GeneratedRests, metadata'.generated = metadata.generated, version' = version,
         dated' = dated, Edits \cap Settings!UnderWay' = Edits \cap Settings!UnderWay
  PROVE  GeneratedRests'
BY DEF GeneratedRests

\* Keys that nobody has touched still agree, as far as they did.
LEMMA KeysKept ==
  ASSUME KeysRest, credential' = credential, metadata' = metadata, last' = last,
         excused \subseteq excused', Saves \cap Settings!UnderWay' = Saves \cap Settings!UnderWay
  PROVE  KeysRest'
BY DEF KeysRest, NoSave, Agree, Settings!resolveApiKey

\* A call that has ended knows nothing any more.
LEMMA NobodyKnows ==
  ASSUME Settings!SettingsAssumption, \A y \in Settings!Processes : ~Unmet(y)'
  PROVE  SavesKnow' /\ EditsKnow' /\ MigrationsKnow'
BY DEF SavesKnow, EditsKnow, MigrationsKnow, Settings!Processes

-----------------------------------------------------------------------------
(* The steps of a save.                                                    *)

LEMMA SaveBegins ==
  ASSUME Settings!SettingsAssumption, IInv, NEW s \in Saves, Settings!BeginSave(s)
  PROVE  IInv'
<1> USE DEF IInv
<1>1. s \in Settings!Processes /\ Settings!At(s, "idle")
  BY DEF Settings!Processes, Settings!BeginSave
<1>2. s \notin Edits /\ s \notin Migrations
  BY <1>1, Kinds
<1>3. PICK body \in [Provider -> {"new", "masked", "empty", "absent"}] :
        Settings!Begins(s, [Settings!Idle EXCEPT !.pc = "client", !.body = body,
                               !.todo = {p \in Provider : body[p] # "absent"}])
  BY DEF Settings!BeginSave
<1> DEFINE local == [Settings!Idle EXCEPT !.pc = "client", !.body = body,
                                 !.todo = {p \in Provider : body[p] # "absent"}]
<1>4. /\ local \in Local /\ local.pc = "client" /\ local.body = body
      /\ local.todo = {p \in Provider : body[p] # "absent"}
  BY IdleTyped DEF Settings!Idle, Local
<1>5. Settings!Begins(s, local)
  BY <1>3
<1> HIDE DEF local
<1>6. local.pc \in Places(s) \ {"idle", "done"}
  BY <1>4, <1>2 DEF Places
<1>7. /\ process' \in [Settings!Processes -> Local]
      /\ process'[s] = [local EXCEPT !.met = Settings!UnderWay # {}]
      /\ \A y \in Settings!Processes : y # s =>
           process'[y] = [process[y] EXCEPT !.met = process[y].met \/ y \in Settings!UnderWay]
      /\ \A y \in Settings!Processes : process'[y].pc \in Places(y)
      /\ Meeting'
      /\ \A y \in Settings!Processes : Unmet(y)' => y = s /\ Settings!UnderWay = {}
      /\ Settings!UnderWay' = Settings!UnderWay \cup {s}
  BY <1>1, <1>4, <1>6, <1>5, Beginning
<1>8. /\ process'[s].pc = "client" /\ process'[s].body = body
      /\ process'[s].todo = {p \in Provider : body[p] # "absent"}
  BY <1>4, <1>7 DEF Local
<1>9. UNCHANGED <<credential, metadata, initial, version, last, excused, dated, faults>>
  BY DEF Settings!BeginSave, Settings!ghosts
<1>10. TypeOK'
  BY <1>7, <1>9 DEF TypeOK
<1>11. KeysRest'
  BY <1>7 DEF KeysRest, NoSave
<1>12. SavesKnow'
  <2>1. SUFFICES ASSUME NEW t \in Saves, Unmet(t)' PROVE Knows(t)'
    BY DEF SavesKnow
  <2>2. t = s /\ Settings!UnderWay = {}
    BY <1>7, <2>1 DEF Settings!Processes
  <2>3. Pending(s)' = {p \in Provider : body[p] # "absent"} /\ Settings!At(s, "client")'
    BY <1>8 DEF Pending, Settings!At
  <2>4. \A p \in Provider : Untouched(s, p)' /\ (Sent(s, p)' <=> body[p] # "absent")
    BY <1>8, <2>3 DEF Untouched, Sent
  <2>5. \A p \in Provider \ excused' : Agree(p)'
    BY <1>9, <2>2 DEF KeysRest, NoSave, Agree, Settings!resolveApiKey
  <2>6. QED
    BY <2>2, <2>3, <2>4, <2>5 DEF Knows, Settings!At
<1>13. EditsKnow' /\ MigrationsKnow'
  BY <1>7, <1>2 DEF EditsKnow, MigrationsKnow, Settings!Processes
<1>14. GeneratedRests'
  BY <1>7, <1>9, <1>2, GeneratedKept
<1>15. \A e \in Edits : Settings!At(e, "unique") => Settings!At(e, "unique")'
  <2>1. SUFFICES ASSUME NEW e \in Edits, process[e].pc = "unique" PROVE process'[e].pc = "unique"
    BY DEF Settings!At
  <2>2. e # s /\ e \in Settings!Processes /\ process[e] \in Local
    BY <1>2 DEF Settings!Processes, TypeOK
  <2>3. process'[e] = [process[e] EXCEPT !.met = process[e].met \/ e \in Settings!UnderWay]
    BY <1>7, <2>2
  <2>4. QED
    BY <2>1, <2>2, <2>3 DEF Local
<1>16. QED
  BY <1>7, <1>9, <1>10, <1>11, <1>12, <1>13, <1>14, <1>15, InitialKept

\* A step that only reads.
LEMMA Reading ==
  ASSUME Settings!SettingsAssumption, IInv, NEW x \in Settings!UnderWay, ~Settings!At(x, "unique"), NEW local \in Local,
         local.pc \in Places(x) \ {"idle", "done"}, local.met = process[x].met,
         Settings!Becomes(x, local),
         UNCHANGED <<credential, metadata, initial, version, last, excused, dated, faults>>
  PROVE  /\ TypeOK' /\ Meeting' /\ KeysRest' /\ GeneratedRests' /\ OneLeft'
         /\ process'[x] = local
         /\ \A y \in Settings!Processes : Unmet(y)' => y = x /\ Unmet(x)
<1> USE DEF IInv
<1>1. x \in Settings!Processes
  BY DEF Settings!UnderWay
<1>2. /\ process' \in [Settings!Processes -> Local] /\ process'[x] = local
      /\ \A y \in Settings!Processes : y # x => process'[y] = process[y]
      /\ \A y \in Settings!Processes : process'[y].pc \in Places(y)
      /\ Meeting'
      /\ \A y \in Settings!Processes : Unmet(y)' => y = x /\ local.pc # "done" /\ Unmet(x)
      /\ Settings!UnderWay' = IF local.pc = "done" THEN Settings!UnderWay \ {x} ELSE Settings!UnderWay
  BY Stepping
<1>3. Settings!UnderWay' = Settings!UnderWay
  BY <1>2
<1>4. TypeOK'
  BY <1>2 DEF TypeOK
<1>5. KeysRest' /\ GeneratedRests'
  BY <1>3, KeysKept, GeneratedKept
<1>6. \A e \in Edits : Settings!At(e, "unique") => Settings!At(e, "unique")'
  BY <1>2 DEF Settings!At, Settings!Processes
<1>7. OneLeft'
  BY <1>6, InitialKept
<1>8. QED
  BY <1>2, <1>4, <1>5, <1>7

LEMMA ClientRead ==
  ASSUME Settings!SettingsAssumption, IInv, NEW x \in Settings!Processes, Settings!ReadClient(x)
  PROVE  IInv'
<1> USE DEF IInv
<1>1. x \in Saves \cup Migrations /\ x \in Settings!UnderWay /\ process[x].pc = "client"
  BY DEF Settings!ReadClient, Settings!At, Settings!UnderWay
<1>2. x \notin Edits
  BY <1>1, Kinds
<1> DEFINE local == [process[x] EXCEPT !.pc = "row", !.seen = metadata,
                       !.todo = IF x \in Saves THEN process[x].todo
                                ELSE {p \in Provider : metadata.llm[p].key # None}]
<1>3. process[x] \in Local
  BY DEF TypeOK
<1>4. /\ local \in Local /\ local.pc = "row" /\ local.seen = metadata
      /\ local.body = process[x].body
      /\ x \in Saves => local.todo = process[x].todo
      /\ x \notin Saves => local.todo = {p \in Provider : metadata.llm[p].key # None}
      /\ local.met = process[x].met
  BY <1>3 DEF Local, TypeOK
<1>5. Settings!Becomes(x, local)
  BY <1>3 DEF Settings!ReadClient, Local
<1> HIDE DEF local
<1>6. local.pc \in Places(x) \ {"idle", "done"}
  BY <1>1, <1>2, <1>4 DEF Places
<1>7. UNCHANGED <<credential, metadata, initial, version, last, excused, dated, faults>>
  BY DEF Settings!ReadClient, Settings!ghosts
<1>8. /\ TypeOK' /\ Meeting' /\ KeysRest' /\ GeneratedRests' /\ OneLeft'
      /\ process'[x] = local
      /\ \A y \in Settings!Processes : Unmet(y)' => y = x /\ Unmet(x)
  <2>1. ~Settings!At(x, "unique")
    BY <1>1 DEF Settings!At
  <2>2. QED
    BY <1>1, <1>4, <1>5, <1>6, <1>7, <2>1, Reading
<1>9. SavesKnow'
  <2>1. SUFFICES ASSUME NEW t \in Saves, Unmet(t)' PROVE Knows(t)'
    BY DEF SavesKnow
  <2>2. t = x /\ Unmet(x)
    BY <1>8, <2>1 DEF Settings!Processes
  <2>3. Knows(x)
    BY <2>1, <2>2 DEF SavesKnow
  <2>4. Pending(x)' = Pending(x) /\ \A p \in Provider : Sent(x, p)' = Sent(x, p)
    BY <1>1, <1>4, <1>8, <2>1, <2>2 DEF Pending, Sent, Settings!At
  <2>5. \A p \in Provider : (Untouched(x, p)' <=> Untouched(x, p)) /\ Agree(p)' = Agree(p)
    BY <1>7, <2>4 DEF Untouched, Agree, Settings!resolveApiKey
  <2>6. \A p \in Provider : Synced(x, p)' <=> Synced(x, p)
    BY <1>4, <1>7, <1>8 DEF Synced
  <2>7. \A p \in Pending(x) : p \in Provider
    BY <1>1, <1>3 DEF Pending, Settings!At, Local
  <2>8. \A p \in Pending(x)' : Sent(x, p)'
    BY <2>3, <2>4, <2>7 DEF Knows
  <2>9. /\ \A p \in Provider : Untouched(x, p)' /\ p \notin excused' => Agree(p)'
        /\ \A p \in Provider : ~Untouched(x, p)' => Synced(x, p)'
    BY <1>7, <2>3, <2>5, <2>6 DEF Knows
  <2>10. process'[x].seen = metadata' /\ ~Settings!At(x, "sync")'
    BY <1>4, <1>7, <1>8 DEF Settings!At
  <2>11. QED
    BY <2>2, <2>8, <2>9, <2>10 DEF Knows
<1>10. EditsKnow'
  BY <1>2, <1>8 DEF EditsKnow, Settings!Processes
<1>11. MigrationsKnow'
  <2>1. SUFFICES ASSUME NEW m \in Migrations, Unmet(m)'
                 PROVE  /\ process'[m].seen = metadata'
                        /\ \A p \in process'[m].todo : metadata'.llm[p].key # None
    BY DEF MigrationsKnow
  <2>2. m = x
    BY <1>8, <2>1 DEF Settings!Processes
  <2>3. x \notin Saves
    BY <2>1, <2>2, Kinds
  <2>4. QED
    BY <1>4, <1>7, <1>8, <2>2, <2>3
<1>12. QED
  BY <1>8, <1>9, <1>10, <1>11

LEMMA CredentialFound ==
  ASSUME Settings!SettingsAssumption, IInv, NEW s \in Saves, Settings!FindCredential(s)
  PROVE  IInv'
<1> USE DEF IInv
<1>1. s \in Settings!Processes /\ s \in Settings!UnderWay /\ process[s].pc = "row"
  BY DEF Settings!FindCredential, Settings!At, Settings!UnderWay, Settings!Processes
<1>2. s \notin Edits /\ s \notin Migrations
  BY <1>1, Kinds
<1>3. process[s] \in Local
  BY <1>1 DEF TypeOK
<1>4. PICK q \in process[s].todo :
        Settings!Becomes(s, [process[s] EXCEPT !.pc = "sync", !.row = credential[q],
                                      !.todo = process[s].todo \ {q}, !.agent = q])
  BY <1>3 DEF Settings!FindCredential, Local
<1> DEFINE local == [process[s] EXCEPT !.pc = "sync", !.row = credential[q],
                                      !.todo = process[s].todo \ {q}, !.agent = q]
<1>5. q \in Provider
  BY <1>3, <1>4 DEF Local
<1>6. /\ local \in Local /\ local.pc = "sync" /\ local.row = credential[q]
      /\ local.todo = process[s].todo \ {q} /\ local.agent = q
      /\ local.body = process[s].body /\ local.seen = process[s].seen
      /\ local.met = process[s].met
  BY <1>3, <1>5 DEF Local, TypeOK
<1>7. Settings!Becomes(s, local)
  BY <1>4
<1> HIDE DEF local
<1>8. local.pc \in Places(s) \ {"idle", "done"}
  BY <1>2, <1>6 DEF Places
<1>9. UNCHANGED <<credential, metadata, initial, version, last, excused, dated, faults>>
  BY DEF Settings!FindCredential, Settings!ghosts
<1>10. /\ TypeOK' /\ Meeting' /\ KeysRest' /\ GeneratedRests' /\ OneLeft'
       /\ process'[s] = local
       /\ \A y \in Settings!Processes : Unmet(y)' => y = s /\ Unmet(s)
  <2>1. ~Settings!At(s, "unique")
    BY <1>1 DEF Settings!At
  <2>2. QED
    BY <1>1, <1>6, <1>7, <1>8, <1>9, <2>1, Reading
<1>11. SavesKnow'
  <2>1. SUFFICES ASSUME NEW t \in Saves, Unmet(t)' PROVE Knows(t)'
    BY DEF SavesKnow
  <2>2. t = s /\ Unmet(s)
    BY <1>10, <2>1 DEF Settings!Processes
  <2>3. Knows(s)
    BY <2>2 DEF SavesKnow
  <2>4. Pending(s)' = Pending(s) /\ \A p \in Provider : Sent(s, p)' = Sent(s, p)
    BY <1>1, <1>4, <1>6, <1>10 DEF Pending, Sent, Settings!At
  <2>5. \A p \in Provider : (Untouched(s, p)' <=> Untouched(s, p)) /\ Agree(p)' = Agree(p)
    BY <1>9, <2>4 DEF Untouched, Agree, Settings!resolveApiKey
  <2>6. \A p \in Provider : Synced(s, p)' <=> Synced(s, p)
    BY <1>6, <1>9, <1>10 DEF Synced
  <2>7. \A p \in Pending(s) : p \in Provider
    BY <1>1, <1>3 DEF Pending, Settings!At, Local
  <2>8. \A p \in Pending(s)' : Sent(s, p)'
    BY <2>3, <2>4, <2>7 DEF Knows
  <2>9. /\ \A p \in Provider : Untouched(s, p)' /\ p \notin excused' => Agree(p)'
        /\ \A p \in Provider : ~Untouched(s, p)' => Synced(s, p)'
    BY <1>9, <2>3, <2>5, <2>6 DEF Knows
  <2>10. process'[s].seen = metadata'
    BY <1>1, <1>6, <1>9, <1>10, <2>3 DEF Knows, Settings!At
  <2>11. /\ process'[s].agent \in Provider \ process'[s].todo
         /\ process'[s].row = credential'[process'[s].agent]
    BY <1>5, <1>6, <1>9, <1>10
  <2>12. QED
    BY <2>2, <2>8, <2>9, <2>10, <2>11 DEF Knows
<1>12. EditsKnow' /\ MigrationsKnow'
  BY <1>2, <1>10 DEF EditsKnow, MigrationsKnow, Settings!Processes
<1>13. QED
  BY <1>10, <1>11, <1>12

LEMMA CredentialSynced ==
  ASSUME Settings!SettingsAssumption, IInv, NEW s \in Saves, Settings!SyncCredential(s)
  PROVE  IInv'
<1> USE DEF IInv
<1>1. s \in Settings!Processes /\ s \in Settings!UnderWay /\ process[s].pc = "sync"
  BY DEF Settings!SyncCredential, Settings!At, Settings!UnderWay, Settings!Processes
<1>2. s \notin Edits /\ s \notin Migrations
  BY <1>1, Kinds
<1>3. process[s] \in Local
  BY <1>1 DEF TypeOK
<1>0. PICK q : q = process[s].agent
  OBVIOUS
<1> DEFINE local == [process[s] EXCEPT !.pc = "row", !.row = Settings!Nothing, !.agent = None]
           new == process[s].body[q] = "new"
<1>4. /\ local \in Local /\ local.pc = "row"
      /\ local.todo = process[s].todo /\ local.body = process[s].body
      /\ local.seen = process[s].seen /\ local.met = process[s].met
  BY <1>3, IdleTyped DEF Local
<1>5. Settings!Becomes(s, local)
  BY DEF Settings!SyncCredential
<1> HIDE DEF local
<1>6. local.pc \in Places(s) \ {"idle", "done"}
  BY <1>2, <1>4 DEF Places
<1>7. /\ credential' = IF new THEN [credential EXCEPT ![q] = [key |-> s, models |-> s]]
                       ELSE IF process[s].row # Settings!Nothing THEN [credential EXCEPT ![q].models = s]
                       ELSE credential
      /\ last' = IF new THEN [last EXCEPT ![q] = s] ELSE last
      /\ UNCHANGED <<metadata, initial, version, excused, dated, faults>>
  BY <1>0 DEF Settings!SyncCredential
<1>8. /\ process' \in [Settings!Processes -> Local] /\ process'[s] = local
      /\ \A y \in Settings!Processes : y # s => process'[y] = process[y]
      /\ \A y \in Settings!Processes : process'[y].pc \in Places(y)
      /\ Meeting'
      /\ \A y \in Settings!Processes : Unmet(y)' => y = s /\ local.pc # "done" /\ Unmet(s)
      /\ Settings!UnderWay' = IF local.pc = "done" THEN Settings!UnderWay \ {s} ELSE Settings!UnderWay
  BY <1>1, <1>4, <1>5, <1>6, Stepping
<1>9. Settings!UnderWay' = Settings!UnderWay
  BY <1>4, <1>8
<1>10. TypeOK'
  <2>1. credential' \in [Provider -> Row]
    BY <1>7 DEF TypeOK, Row
  <2>2. last' \in [Provider -> Saves \cup {Old, None}]
    BY <1>7 DEF TypeOK
  <2>3. QED
    BY <1>7, <1>8, <2>1, <2>2 DEF TypeOK
<1>11. KeysRest'
  BY <1>1, <1>9 DEF KeysRest, NoSave
<1>12. SavesKnow'
  <2>1. SUFFICES ASSUME NEW t \in Saves, Unmet(t)' PROVE Knows(t)'
    BY DEF SavesKnow
  <2>2. t = s /\ Unmet(s)
    BY <1>8, <2>1 DEF Settings!Processes
  <2>3. Knows(s)
    BY <2>2 DEF SavesKnow
  <2>4. q \in Provider \ process[s].todo /\ process[s].row = credential[q]
    BY <1>0, <1>1, <2>3 DEF Knows, Settings!At
  <2>5. Pending(s) = process[s].todo \cup {q} /\ Pending(s)' = process[s].todo
    BY <1>0, <1>1, <1>4, <1>8 DEF Pending, Settings!At
  <2>6. \A p \in Provider : Sent(s, p)' = Sent(s, p)
    BY <1>4, <1>8 DEF Sent
  <2>7. Sent(s, q)
    BY <2>3, <2>5 DEF Knows
  <2>8. /\ \A p \in Provider \ {q} : Untouched(s, p)' <=> Untouched(s, p)
        /\ Untouched(s, q) /\ ~Untouched(s, q)'
    BY <2>4, <2>5, <2>6, <2>7 DEF Untouched
  <2>9. \A p \in Provider \ {q} : credential'[p] = credential[p] /\ last'[p] = last[p]
    BY <1>7 DEF TypeOK
  <2>10. \A p \in Provider \ {q} : Agree(p)' = Agree(p)
    BY <1>7, <2>9 DEF Agree, Settings!resolveApiKey
  <2>11. \A p \in Provider \ {q} : Synced(s, p)' <=> Synced(s, p)
    BY <1>4, <1>7, <1>8, <2>9 DEF Synced
  <2>12. Synced(s, q)'
    <3>1. CASE new
      <4>1. credential'[q] = [key |-> s, models |-> s] /\ last'[q] = s
        BY <1>7, <2>4, <3>1 DEF TypeOK
      <4>2. process'[s].body[q] = "new"
        BY <1>4, <1>8, <3>1
      <4>3. QED
        BY <4>1, <4>2 DEF Synced
    <3>2. CASE ~new
      <4>1. process'[s].body[q] # "new" /\ last' = last /\ metadata' = metadata /\ excused' = excused
        BY <1>4, <1>7, <1>8, <3>2
      <4>2. SUFFICES ASSUME q \notin excused
                     PROVE  /\ metadata.llm[q].key = last[q]
                            /\ credential'[q] # Settings!Nothing =>
                                 credential'[q] = [key |-> last[q], models |-> s]
        BY <4>1 DEF Synced
      <4>3. Agree(q)
        BY <2>3, <2>4, <2>8, <4>2 DEF Knows
      <4>4. credential[q] \in Row
        BY <2>4 DEF TypeOK
      <4>5. CASE credential[q] = Settings!Nothing
        BY <1>7, <2>4, <3>2, <4>3, <4>5 DEF Agree
      <4>6. CASE credential[q] # Settings!Nothing
        <5>1. credential'[q] = [credential[q] EXCEPT !.models = s]
          BY <1>7, <2>4, <3>2, <4>6 DEF TypeOK
        <5>2. credential[q].key = last[q]
          BY <4>3, <4>6 DEF Agree
        <5>3. QED
          BY <4>3, <4>4, <5>1, <5>2 DEF Agree, Row
      <4>7. QED
        BY <4>5, <4>6
    <3>3. QED
      BY <3>1, <3>2
  <2>13. \A p \in Pending(s)' : Sent(s, p)'
    <3>1. SUFFICES ASSUME NEW p \in process[s].todo PROVE Sent(s, p)'
      BY <2>5
    <3>2. p \in Provider /\ p \in Pending(s)
      BY <1>3, <2>5 DEF Local
    <3>3. QED
      BY <2>3, <2>6, <3>2 DEF Knows
  <2>14. \A p \in Provider : Untouched(s, p)' /\ p \notin excused' => Agree(p)'
    BY <1>7, <2>3, <2>8, <2>10 DEF Knows
  <2>15. \A p \in Provider : ~Untouched(s, p)' => Synced(s, p)'
    BY <2>3, <2>8, <2>11, <2>12 DEF Knows
  <2>16. process'[s].seen = metadata' /\ ~Settings!At(s, "sync")'
    BY <1>1, <1>4, <1>7, <1>8, <2>3 DEF Knows, Settings!At
  <2>17. QED
    BY <2>2, <2>13, <2>14, <2>15, <2>16 DEF Knows
<1>13. EditsKnow' /\ MigrationsKnow'
  BY <1>2, <1>8 DEF EditsKnow, MigrationsKnow, Settings!Processes
<1>14. GeneratedRests'
  BY <1>7, <1>9, GeneratedKept
<1>15. \A e \in Edits : Settings!At(e, "unique") => Settings!At(e, "unique")'
  BY <1>2, <1>8 DEF Settings!At, Settings!Processes
<1>16. QED
  BY <1>7, <1>8, <1>10, <1>11, <1>12, <1>13, <1>14, <1>15, InitialKept

LEMMA MetadataWritten ==
  ASSUME Settings!SettingsAssumption, IInv, NEW s \in Saves, Settings!WriteMetadata(s)
  PROVE  IInv'
<1> USE DEF IInv
<1>1. /\ s \in Settings!Processes /\ s \in Settings!UnderWay /\ process[s].pc = "row"
      /\ process[s].todo = {}
  BY DEF Settings!WriteMetadata, Settings!At, Settings!UnderWay, Settings!Processes
<1>2. s \notin Edits /\ s \notin Migrations
  BY <1>1, Kinds
<1>3. process[s] \in Local
  BY <1>1 DEF TypeOK
<1> DEFINE local == [Settings!Idle EXCEPT !.pc = "done"]
           sent(kind) == {p \in Provider : process[s].body[p] = kind}
<1>4. local \in Local /\ local.pc = "done"
  BY IdleTyped DEF Settings!Idle
<1>5. Settings!Becomes(s, local)
  BY DEF Settings!WriteMetadata, Settings!Done
<1> HIDE DEF local
<1>6. local.pc \in Places(s) \ {"idle"}
  BY <1>2, <1>4 DEF Places
<1>7. /\ metadata' = [process[s].seen EXCEPT !.llm = [p \in Provider |-> Settings!Entry(s, p)]]
      /\ excused' = IF process[s].met THEN Provider
                    ELSE (excused \ sent("new")) \cup sent("absent")
      /\ dated' = (dated \/ process[s].met)
      /\ UNCHANGED <<credential, initial, version, last, faults>>
  BY DEF Settings!WriteMetadata
<1>8. /\ process' \in [Settings!Processes -> Local] /\ process'[s] = local
      /\ \A y \in Settings!Processes : y # s => process'[y] = process[y]
      /\ \A y \in Settings!Processes : process'[y].pc \in Places(y)
      /\ Meeting'
      /\ \A y \in Settings!Processes : Unmet(y)' => y = s /\ local.pc # "done" /\ Unmet(s)
      /\ Settings!UnderWay' = Settings!UnderWay \ {s}
  BY <1>1, <1>4, <1>5, <1>6, Stepping
<1>9. /\ metadata' \in [llm : [Provider -> Row], generated : Nat]
      /\ \A p \in Provider : metadata'.llm[p] = Settings!Entry(s, p)
      /\ metadata'.generated = process[s].seen.generated
  <2>1. \A p \in Provider : Settings!Entry(s, p) \in Row
    <3>1. SUFFICES ASSUME NEW p \in Provider PROVE Settings!Entry(s, p) \in Row
      OBVIOUS
    <3>2. process[s].seen.llm[p] \in Row
      BY <1>3 DEF Local
    <3>3. QED
      BY <3>2, IdleTyped DEF Settings!Entry, Row
  <2>2. process[s].seen \in [llm : [Provider -> Row], generated : Nat]
    BY <1>3 DEF Local
  <2>3. QED
    BY <1>7, <2>1, <2>2
<1>10. TypeOK'
  <2>1. excused' \subseteq Provider
    BY <1>7 DEF TypeOK
  <2>2. dated' \in BOOLEAN
    BY <1>7
  <2>3. QED
    BY <1>7, <1>8, <1>9, <2>1, <2>2 DEF TypeOK
<1>11. KeysRest'
  <2>1. SUFFICES ASSUME NEW p \in Provider, p \notin excused' PROVE Agree(p)'
    BY DEF KeysRest
  <2>2. ~process[s].met
    BY <1>7, <2>1
  <2>3. Unmet(s)
    BY <1>1, <2>2 DEF Unmet
  <2>4. Knows(s) /\ process[s].seen = metadata
    BY <1>1, <2>3 DEF SavesKnow, Knows, Settings!At
  <2>5. process[s].body[p] # "absent"
    BY <1>7, <2>1, <2>2
  <2>6. Synced(s, p)
    <3>1. ~Untouched(s, p)
      BY <1>1, <2>5 DEF Untouched, Pending, Sent, Settings!At
    <3>2. QED
      BY <2>4, <3>1 DEF Knows
  <2>7. CASE process[s].body[p] = "new"
    <3>1. credential'[p] = [key |-> s, models |-> s] /\ last'[p] = s
      BY <1>7, <2>6, <2>7 DEF Synced
    <3>2. metadata'.llm[p] = [key |-> s, models |-> s]
      BY <1>9, <2>7 DEF Settings!Entry
    <3>3. QED
      BY <3>1, <3>2 DEF Agree, Settings!resolveApiKey
  <2>8. CASE process[s].body[p] # "new"
    <3>1. p \notin excused
      BY <1>7, <2>1, <2>2, <2>8
    <3>2. /\ metadata.llm[p].key = last[p]
          /\ credential[p] # Settings!Nothing => credential[p] = [key |-> last[p], models |-> s]
      BY <2>6, <2>8, <3>1 DEF Synced
    <3>3. metadata'.llm[p] = [key |-> last[p], models |-> s]
      BY <1>9, <2>4, <2>5, <2>8, <3>2 DEF Settings!Entry
    <3>4. credential[p] = Settings!Nothing => credential[p].key = None
      BY DEF Settings!Nothing
    <3>5. credential[p] # Settings!Nothing => credential[p].key = last[p]
      BY <3>2
    <3>6. Settings!resolveApiKey(p)' = last'[p]
      BY <1>7, <3>3, <3>4, <3>5 DEF Settings!resolveApiKey
    <3>7. QED
      BY <1>7, <3>2, <3>3, <3>6 DEF Agree, Settings!Nothing
  <2>9. QED
    BY <2>7, <2>8
<1>12. SavesKnow' /\ EditsKnow' /\ MigrationsKnow'
  BY <1>4, <1>8, NobodyKnows
<1>13. GeneratedRests'
  <2>1. SUFFICES ASSUME Edits \cap Settings!UnderWay' = {}, ~dated'
                 PROVE  metadata'.generated = version
    BY <1>7 DEF GeneratedRests
  <2>2. ~dated /\ ~process[s].met
    BY <1>7, <2>1
  <2>3. metadata.generated = version
    BY <1>2, <1>8, <2>1, <2>2 DEF GeneratedRests
  <2>4. Unmet(s)
    BY <1>1, <2>2 DEF Unmet
  <2>5. process[s].seen = metadata
    BY <1>1, <2>4 DEF SavesKnow, Knows, Settings!At
  <2>6. QED
    BY <1>9, <2>3, <2>5
<1>14. \A e \in Edits : Settings!At(e, "unique") => Settings!At(e, "unique")'
  BY <1>2, <1>8 DEF Settings!At, Settings!Processes
<1>15. QED
  BY <1>7, <1>8, <1>10, <1>11, <1>12, <1>13, <1>14, InitialKept

-----------------------------------------------------------------------------
(* The steps of an edit.                                                   *)

LEMMA EditBegins ==
  ASSUME Settings!SettingsAssumption, IInv, NEW e \in Edits, Settings!BeginEdit(e)
  PROVE  IInv'
<1> USE DEF IInv
<1>1. e \in Settings!Processes /\ Settings!At(e, "idle") /\ e \notin Saves /\ e \notin Migrations
  BY Kinds DEF Settings!Processes, Settings!BeginEdit
<1>2. /\ version' = version + 1
      /\ UNCHANGED <<credential, metadata, last, excused, dated, faults>>
  BY DEF Settings!BeginEdit, Settings!ghosts
<1>3. PICK local \in Local :
        /\ Settings!Begins(e, local)
        /\ \/ local.pc = "unique" /\ \E a \in PanelAgents : initial' = initial \cup {a}
           \/ local.pc = "generate" /\ \E a \in PanelAgents : initial' = initial \ {a}
  <2>1. CASE \E a \in PanelAgents :
               /\ initial' = initial \cup {a}
               /\ Settings!Begins(e, [Settings!Idle EXCEPT !.pc = "unique", !.agent = a])
    <3>1. PICK a \in PanelAgents : /\ initial' = initial \cup {a}
                              /\ Settings!Begins(e, [Settings!Idle EXCEPT !.pc = "unique", !.agent = a])
      BY <2>1
    <3>2. /\ [Settings!Idle EXCEPT !.pc = "unique", !.agent = a] \in Local
          /\ [Settings!Idle EXCEPT !.pc = "unique", !.agent = a].pc = "unique"
      BY IdleTyped DEF Settings!Idle, Local
    <3>3. QED
      BY <3>1, <3>2
  <2>2. CASE /\ \E a \in PanelAgents : initial' = initial \ {a}
             /\ Settings!Begins(e, [Settings!Idle EXCEPT !.pc = "generate"])
    <3>1. /\ [Settings!Idle EXCEPT !.pc = "generate"] \in Local
          /\ [Settings!Idle EXCEPT !.pc = "generate"].pc = "generate"
      BY IdleTyped DEF Settings!Idle, Local
    <3>2. QED
      BY <2>2, <3>1
  <2>3. QED
    BY <2>1, <2>2 DEF Settings!BeginEdit
<1>4. local.pc \in Places(e) \ {"idle", "done"}
  BY <1>3 DEF Places
<1>5. /\ process' \in [Settings!Processes -> Local]
      /\ process'[e] = [local EXCEPT !.met = Settings!UnderWay # {}]
      /\ \A y \in Settings!Processes : y # e =>
           process'[y] = [process[y] EXCEPT !.met = process[y].met \/ y \in Settings!UnderWay]
      /\ \A y \in Settings!Processes : process'[y].pc \in Places(y)
      /\ Meeting'
      /\ \A y \in Settings!Processes : Unmet(y)' => y = e /\ Settings!UnderWay = {}
      /\ Settings!UnderWay' = Settings!UnderWay \cup {e}
  BY <1>1, <1>3, <1>4, Beginning
<1>6. process'[e].pc = local.pc
  BY <1>5 DEF Local
<1>7. TypeOK'
  <2>1. version' \in Nat /\ initial' \subseteq PanelAgents
    BY <1>2, <1>3 DEF TypeOK
  <2>2. QED
    BY <1>2, <1>5, <2>1 DEF TypeOK
<1>8. KeysRest'
  <2>1. Saves \cap Settings!UnderWay' = Saves \cap Settings!UnderWay
    BY <1>1, <1>5
  <2>2. QED
    BY <1>2, <2>1, KeysKept
<1>9. SavesKnow' /\ MigrationsKnow'
  BY <1>1, <1>5 DEF SavesKnow, MigrationsKnow, Settings!Processes
<1>10. EditsKnow'
  <2>1. SUFFICES ASSUME NEW d \in Edits, Unmet(d)'
                 PROVE  process'[d].pc \notin {"read", "write"}
    BY DEF EditsKnow, Settings!At
  <2>2. d = e
    BY <1>5, <2>1 DEF Settings!Processes
  <2>3. QED
    BY <1>3, <1>6, <2>2
<1>11. GeneratedRests'
  BY <1>5 DEF GeneratedRests
<1>12. OneLeft'
  <2>1. CASE local.pc = "unique"
    BY <1>6, <2>1 DEF OneLeft, Settings!At
  <2>2. CASE local.pc = "generate" /\ \E a \in PanelAgents : initial' = initial \ {a}
    <3>1. initial' \subseteq initial
      BY <2>2
    <3>2. ASSUME NEW d \in Edits, Settings!At(d, "unique") PROVE Settings!At(d, "unique")'
      <4>1. d # e /\ d \in Settings!Processes /\ process[d] \in Local /\ process[d].pc = "unique"
        BY <1>1, <3>2 DEF Settings!At, Settings!Processes, TypeOK
      <4>2. process'[d] = [process[d] EXCEPT !.met = process[d].met \/ d \in Settings!UnderWay]
        BY <1>5, <4>1
      <4>3. process'[d].pc = "unique"
        BY <4>1, <4>2 DEF Local
      <4>4. QED
        BY <4>3 DEF Settings!At
    <3>3. QED
      BY <1>2, <3>1, <3>2 DEF OneLeft
  <2>3. QED
    BY <1>3, <2>1, <2>2
<1>13. QED
  BY <1>5, <1>7, <1>8, <1>9, <1>10, <1>11, <1>12

LEMMA UniquenessEnforced ==
  ASSUME Settings!SettingsAssumption, IInv, NEW e \in Edits, Settings!EnforceUniqueness(e)
  PROVE  IInv'
<1> USE DEF IInv
<1>1. e \in Settings!Processes /\ e \in Settings!UnderWay /\ e \notin Saves /\ e \notin Migrations
  BY Kinds DEF Settings!Processes, Settings!EnforceUniqueness, Settings!UnderWay, Settings!At
<1>2. process[e] \in Local
  BY <1>1 DEF TypeOK
<1>3. /\ initial' = initial \cap {process[e].agent} /\ version' = version + 1
      /\ UNCHANGED <<credential, metadata, last, excused, dated, faults>>
  BY DEF Settings!EnforceUniqueness, Settings!ghosts
<1> DEFINE local == [process[e] EXCEPT !.pc = "generate", !.agent = None]
<1>4. local \in Local /\ local.pc = "generate" /\ local.met = process[e].met
  BY <1>2 DEF Local
<1>5. Settings!Becomes(e, local)
  BY DEF Settings!EnforceUniqueness
<1> HIDE DEF local
<1>6. local.pc \in Places(e) \ {"idle"}
  BY <1>4 DEF Places
<1>7. /\ process' \in [Settings!Processes -> Local] /\ process'[e] = local
      /\ \A y \in Settings!Processes : process'[y].pc \in Places(y)
      /\ Meeting'
      /\ \A y \in Settings!Processes : Unmet(y)' => y = e /\ local.pc # "done" /\ Unmet(e)
      /\ Settings!UnderWay' = IF local.pc = "done" THEN Settings!UnderWay \ {e} ELSE Settings!UnderWay
  BY <1>1, <1>4, <1>5, <1>6, Stepping
<1>8. Settings!UnderWay' = Settings!UnderWay
  BY <1>4, <1>7
<1>9. TypeOK'
  <2>1. version' \in Nat /\ initial' \subseteq PanelAgents
    BY <1>3 DEF TypeOK
  <2>2. QED
    BY <1>3, <1>7, <2>1 DEF TypeOK
<1>10. KeysRest'
  BY <1>3, <1>8, KeysKept
<1>11. SavesKnow' /\ MigrationsKnow'
  BY <1>1, <1>7 DEF SavesKnow, MigrationsKnow, Settings!Processes
<1>12. EditsKnow'
  <2>1. SUFFICES ASSUME NEW d \in Edits, Unmet(d)'
                 PROVE  process'[d].pc \notin {"read", "write"}
    BY DEF EditsKnow, Settings!At
  <2>2. d = e
    BY <1>7, <2>1 DEF Settings!Processes
  <2>3. QED
    BY <1>4, <1>7, <2>2
<1>13. GeneratedRests'
  BY <1>1, <1>8 DEF GeneratedRests
<1>14. OneLeft'
  BY <1>3 DEF OneLeft
<1>15. QED
  BY <1>7, <1>9, <1>10, <1>11, <1>12, <1>13, <1>14

LEMMA Generated ==
  ASSUME Settings!SettingsAssumption, IInv, NEW e \in Edits, Settings!Generate(e)
  PROVE  IInv'
<1> USE DEF IInv
<1>1. e \in Settings!Processes /\ e \in Settings!UnderWay /\ e \notin Saves /\ e \notin Migrations
  BY Kinds DEF Settings!Processes, Settings!Generate, Settings!UnderWay, Settings!At
<1>2. process[e] \in Local /\ process[e].pc = "generate"
  BY <1>1 DEF TypeOK, Settings!Generate, Settings!At
<1> DEFINE local == [process[e] EXCEPT !.pc = "read", !.seen.generated = version]
<1>3. /\ local \in Local /\ local.pc = "read" /\ local.met = process[e].met
      /\ local.seen.generated = version
  BY <1>2 DEF Local, TypeOK
<1>4. Settings!Becomes(e, local)
  BY DEF Settings!Generate
<1> HIDE DEF local
<1>5. local.pc \in Places(e) \ {"idle", "done"}
  BY <1>3 DEF Places
<1>6. UNCHANGED <<credential, metadata, initial, version, last, excused, dated, faults>>
  BY DEF Settings!Generate, Settings!ghosts
<1>7. ~Settings!At(e, "unique")
  BY <1>2 DEF Settings!At
<1>8. /\ TypeOK' /\ Meeting' /\ KeysRest' /\ GeneratedRests' /\ OneLeft'
      /\ process'[e] = local
      /\ \A y \in Settings!Processes : Unmet(y)' => y = e /\ Unmet(e)
  BY <1>1, <1>3, <1>4, <1>5, <1>6, <1>7, Reading
<1>9. SavesKnow' /\ MigrationsKnow'
  BY <1>1, <1>8 DEF SavesKnow, MigrationsKnow, Settings!Processes
<1>10. EditsKnow'
  <2>1. SUFFICES ASSUME NEW d \in Edits, Unmet(d)'
                 PROVE  process'[d].pc # "write" /\ process'[d].seen.generated = version
    BY <1>6 DEF EditsKnow, Settings!At
  <2>2. d = e
    BY <1>8, <2>1 DEF Settings!Processes
  <2>3. QED
    BY <1>3, <1>8, <2>2
<1>11. QED
  BY <1>8, <1>9, <1>10

LEMMA MetadataRead ==
  ASSUME Settings!SettingsAssumption, IInv, NEW e \in Edits, Settings!ReadMetadata(e)
  PROVE  IInv'
<1> USE DEF IInv
<1>1. e \in Settings!Processes /\ e \in Settings!UnderWay /\ e \notin Saves /\ e \notin Migrations
  BY Kinds DEF Settings!Processes, Settings!ReadMetadata, Settings!UnderWay, Settings!At
<1>2. process[e] \in Local /\ process[e].pc = "read"
  BY <1>1 DEF TypeOK, Settings!ReadMetadata, Settings!At
<1> DEFINE local == [process[e] EXCEPT !.pc = "write", !.seen.llm = metadata.llm]
<1>3. /\ local \in Local /\ local.pc = "write" /\ local.met = process[e].met
      /\ local.seen.generated = process[e].seen.generated /\ local.seen.llm = metadata.llm
  BY <1>2 DEF Local, TypeOK
<1>4. Settings!Becomes(e, local)
  BY DEF Settings!ReadMetadata
<1> HIDE DEF local
<1>5. local.pc \in Places(e) \ {"idle", "done"}
  BY <1>3 DEF Places
<1>6. UNCHANGED <<credential, metadata, initial, version, last, excused, dated, faults>>
  BY DEF Settings!ReadMetadata, Settings!ghosts
<1>7. ~Settings!At(e, "unique")
  BY <1>2 DEF Settings!At
<1>8. /\ TypeOK' /\ Meeting' /\ KeysRest' /\ GeneratedRests' /\ OneLeft'
      /\ process'[e] = local
      /\ \A y \in Settings!Processes : Unmet(y)' => y = e /\ Unmet(e)
  BY <1>1, <1>3, <1>4, <1>5, <1>6, <1>7, Reading
<1>9. SavesKnow' /\ MigrationsKnow'
  BY <1>1, <1>8 DEF SavesKnow, MigrationsKnow, Settings!Processes
<1>10. EditsKnow'
  <2>1. SUFFICES ASSUME NEW d \in Edits, Unmet(d)'
                 PROVE  process'[d].seen.generated = version /\ process'[d].seen.llm = metadata.llm
    BY <1>6 DEF EditsKnow, Settings!At
  <2>2. d = e /\ Unmet(e)
    BY <1>8, <2>1 DEF Settings!Processes
  <2>3. process[e].seen.generated = version
    BY <1>2, <2>2 DEF EditsKnow, Settings!At
  <2>4. QED
    BY <1>3, <1>8, <2>2, <2>3
<1>11. QED
  BY <1>8, <1>9, <1>10

LEMMA RefreshWritten ==
  ASSUME Settings!SettingsAssumption, IInv, NEW e \in Edits, Settings!WriteRefreshed(e)
  PROVE  IInv'
<1> USE DEF IInv
<1>1. e \in Settings!Processes /\ e \in Settings!UnderWay /\ e \notin Saves /\ e \notin Migrations
  BY Kinds DEF Settings!Processes, Settings!WriteRefreshed, Settings!UnderWay, Settings!At
<1>2. process[e] \in Local /\ process[e].pc = "write"
  BY <1>1 DEF TypeOK, Settings!WriteRefreshed, Settings!At
<1> DEFINE local == [Settings!Idle EXCEPT !.pc = "done"]
<1>3. local \in Local /\ local.pc = "done"
  BY IdleTyped DEF Settings!Idle
<1>4. Settings!Becomes(e, local)
  BY DEF Settings!WriteRefreshed, Settings!Done
<1> HIDE DEF local
<1>5. local.pc \in Places(e) \ {"idle"}
  BY <1>3 DEF Places
<1>6. /\ metadata' = process[e].seen
      /\ excused' = IF process[e].met THEN Provider ELSE excused
      /\ dated' = process[e].met
      /\ UNCHANGED <<credential, initial, version, last, faults>>
  BY DEF Settings!WriteRefreshed
<1>7. /\ process' \in [Settings!Processes -> Local] /\ process'[e] = local
      /\ \A y \in Settings!Processes : y # e => process'[y] = process[y]
      /\ \A y \in Settings!Processes : process'[y].pc \in Places(y)
      /\ Meeting'
      /\ \A y \in Settings!Processes : Unmet(y)' => y = e /\ local.pc # "done" /\ Unmet(e)
      /\ Settings!UnderWay' = Settings!UnderWay \ {e}
  BY <1>1, <1>3, <1>4, <1>5, Stepping
<1>8. ~process[e].met =>
        process[e].seen.llm = metadata.llm /\ process[e].seen.generated = version
  BY <1>1, <1>2 DEF EditsKnow, Unmet, Settings!At
<1>9. TypeOK'
  <2>1. metadata' \in [llm : [Provider -> Row], generated : Nat]
    BY <1>2, <1>6 DEF Local
  <2>2. excused' \subseteq Provider
    BY <1>6 DEF TypeOK
  <2>3. dated' \in BOOLEAN
    BY <1>2, <1>6 DEF Local
  <2>4. QED
    BY <1>6, <1>7, <2>1, <2>2, <2>3 DEF TypeOK
<1>10. KeysRest'
  <2>1. SUFFICES ASSUME NoSave, NEW p \in Provider, p \notin excused' PROVE Agree(p)'
    BY <1>1, <1>7 DEF KeysRest, NoSave
  <2>2. ~process[e].met /\ p \notin excused
    BY <1>6, <2>1
  <2>3. Agree(p)
    BY <2>1, <2>2 DEF KeysRest
  <2>4. metadata'.llm = metadata.llm
    BY <1>6, <1>8, <2>2
  <2>5. QED
    BY <1>6, <2>3, <2>4 DEF Agree, Settings!resolveApiKey
<1>11. SavesKnow' /\ EditsKnow' /\ MigrationsKnow'
  BY <1>3, <1>7, NobodyKnows
<1>12. GeneratedRests'
  BY <1>6, <1>8 DEF GeneratedRests
<1>13. \A d \in Edits : Settings!At(d, "unique") => Settings!At(d, "unique")'
  BY <1>2, <1>7 DEF Settings!At, Settings!Processes
<1>14. QED
  BY <1>6, <1>7, <1>9, <1>10, <1>11, <1>12, <1>13, InitialKept

-----------------------------------------------------------------------------
(* The migration, and failures.                                            *)

LEMMA MigrationBegins ==
  ASSUME Settings!SettingsAssumption, IInv, NEW m \in Migrations, Settings!BeginMigration(m)
  PROVE  IInv'
<1> USE DEF IInv
<1>1. m \in Settings!Processes /\ Settings!At(m, "idle") /\ m \notin Saves /\ m \notin Edits
  BY Kinds DEF Settings!Processes, Settings!BeginMigration
<1> DEFINE local == [Settings!Idle EXCEPT !.pc = "client"]
<1>2. local \in Local /\ local.pc = "client"
  BY IdleTyped DEF Settings!Idle, Local
<1>3. Settings!Begins(m, local)
  BY DEF Settings!BeginMigration
<1> HIDE DEF local
<1>4. local.pc \in Places(m) \ {"idle", "done"}
  BY <1>1, <1>2 DEF Places
<1>5. /\ process' \in [Settings!Processes -> Local]
      /\ process'[m] = [local EXCEPT !.met = Settings!UnderWay # {}]
      /\ \A y \in Settings!Processes : y # m =>
           process'[y] = [process[y] EXCEPT !.met = process[y].met \/ y \in Settings!UnderWay]
      /\ \A y \in Settings!Processes : process'[y].pc \in Places(y)
      /\ Meeting'
      /\ \A y \in Settings!Processes : Unmet(y)' => y = m /\ Settings!UnderWay = {}
      /\ Settings!UnderWay' = Settings!UnderWay \cup {m}
  BY <1>1, <1>2, <1>3, <1>4, Beginning
<1>6. process'[m].pc = "client"
  BY <1>2, <1>5 DEF Local
<1>7. UNCHANGED <<credential, metadata, initial, version, last, excused, dated, faults>>
  BY DEF Settings!BeginMigration, Settings!ghosts
<1>8. TypeOK'
  BY <1>5, <1>7 DEF TypeOK
<1>9. Saves \cap Settings!UnderWay' = Saves \cap Settings!UnderWay /\ Edits \cap Settings!UnderWay' = Edits \cap Settings!UnderWay
  BY <1>1, <1>5
<1>10. KeysRest' /\ GeneratedRests'
  BY <1>7, <1>9, KeysKept, GeneratedKept
<1>11. SavesKnow' /\ EditsKnow'
  BY <1>1, <1>5 DEF SavesKnow, EditsKnow, Settings!Processes
<1>12. MigrationsKnow'
  <2>1. SUFFICES ASSUME NEW n \in Migrations, Unmet(n)' PROVE process'[n].pc # "row"
    BY DEF MigrationsKnow, Settings!At
  <2>2. n = m
    BY <1>5, <2>1 DEF Settings!Processes
  <2>3. QED
    BY <1>6, <2>2
<1>13. ASSUME NEW e \in Edits, Settings!At(e, "unique") PROVE Settings!At(e, "unique")'
  <2>1. e # m /\ e \in Settings!Processes /\ process[e] \in Local /\ process[e].pc = "unique"
    BY <1>1, <1>13 DEF Settings!At, Settings!Processes, TypeOK
  <2>2. process'[e] = [process[e] EXCEPT !.met = process[e].met \/ e \in Settings!UnderWay]
    BY <1>5, <2>1
  <2>3. process'[e].pc = "unique"
    BY <2>1, <2>2 DEF Local
  <2>4. QED
    BY <2>3 DEF Settings!At
<1>14. QED
  BY <1>5, <1>7, <1>8, <1>10, <1>11, <1>12, <1>13, InitialKept

\* The script is through with its providers.
LEMMA MigrationEnds ==
  ASSUME Settings!SettingsAssumption, IInv, NEW m \in Migrations, Settings!At(m, "row"), Settings!Done(m),
         UNCHANGED <<credential, metadata, initial, version, last, excused, dated, faults>>
  PROVE  IInv'
<1> USE DEF IInv
<1>1. m \in Settings!Processes /\ m \in Settings!UnderWay /\ m \notin Saves /\ m \notin Edits
  BY Kinds DEF Settings!Processes, Settings!UnderWay, Settings!At
<1> DEFINE local == [Settings!Idle EXCEPT !.pc = "done"]
<1>2. local \in Local /\ local.pc = "done"
  BY IdleTyped DEF Settings!Idle
<1>3. Settings!Becomes(m, local)
  BY DEF Settings!Done
<1> HIDE DEF local
<1>4. local.pc \in Places(m) \ {"idle"}
  BY <1>2 DEF Places
<1>5. /\ process' \in [Settings!Processes -> Local] /\ process'[m] = local
      /\ \A y \in Settings!Processes : y # m => process'[y] = process[y]
      /\ \A y \in Settings!Processes : process'[y].pc \in Places(y)
      /\ Meeting'
      /\ \A y \in Settings!Processes : Unmet(y)' => y = m /\ local.pc # "done" /\ Unmet(m)
      /\ Settings!UnderWay' = Settings!UnderWay \ {m}
  BY <1>1, <1>2, <1>3, <1>4, Stepping
<1>6. TypeOK'
  BY <1>5 DEF TypeOK
<1>7. Saves \cap Settings!UnderWay' = Saves \cap Settings!UnderWay /\ Edits \cap Settings!UnderWay' = Edits \cap Settings!UnderWay
  BY <1>1, <1>5
<1>8. KeysRest' /\ GeneratedRests'
  BY <1>7, KeysKept, GeneratedKept
<1>9. SavesKnow' /\ EditsKnow' /\ MigrationsKnow'
  BY <1>2, <1>5, NobodyKnows
<1>10. \A e \in Edits : Settings!At(e, "unique") => Settings!At(e, "unique")'
  BY <1>1, <1>5 DEF Settings!At, Settings!Processes
<1>11. QED
  BY <1>5, <1>6, <1>8, <1>9, <1>10, InitialKept

LEMMA Migrated ==
  ASSUME Settings!SettingsAssumption, IInv, NEW m \in Migrations, Settings!Migrate(m)
  PROVE  IInv'
<1> USE DEF IInv
<1>1. CASE process[m].todo = {}
  <2>1. Settings!Done(m) /\ Settings!At(m, "row")
    BY <1>1 DEF Settings!Migrate
  <2>2. UNCHANGED <<credential, metadata, initial, version, last, excused, dated, faults>>
    BY <1>1 DEF Settings!Migrate
  <2>3. QED
    BY <2>1, <2>2, MigrationEnds
<1>2. CASE process[m].todo # {}
  <2>1. m \in Settings!Processes /\ m \in Settings!UnderWay /\ m \notin Saves /\ m \notin Edits
    BY Kinds DEF Settings!Processes, Settings!UnderWay, Settings!Migrate, Settings!At
  <2>2. process[m] \in Local /\ process[m].pc = "row"
    BY <2>1 DEF TypeOK, Settings!Migrate, Settings!At
  <2>3. PICK q \in process[m].todo :
          /\ credential' = [credential EXCEPT ![q] = process[m].seen.llm[q]]
          /\ excused' = IF process[m].met THEN Provider ELSE excused
          /\ Settings!Becomes(m, [process[m] EXCEPT !.todo = process[m].todo \ {q}])
    BY <1>2, <2>2 DEF Settings!Migrate, Local
  <2>4. q \in Provider
    BY <2>2, <2>3 DEF Local
  <2> DEFINE local == [process[m] EXCEPT !.todo = process[m].todo \ {q}]
  <2>5. /\ local \in Local /\ local.pc = "row" /\ local.met = process[m].met
        /\ local.seen = process[m].seen /\ local.todo = process[m].todo \ {q}
    BY <2>2 DEF Local
  <2>6. Settings!Becomes(m, local)
    BY <2>3
  <2> HIDE DEF local
  <2>7. local.pc \in Places(m) \ {"idle"}
    BY <2>1, <2>5 DEF Places
  <2>8. UNCHANGED <<metadata, initial, version, last, dated, faults>>
    BY DEF Settings!Migrate
  <2>9. /\ process' \in [Settings!Processes -> Local] /\ process'[m] = local
        /\ \A y \in Settings!Processes : y # m => process'[y] = process[y]
        /\ \A y \in Settings!Processes : process'[y].pc \in Places(y)
        /\ Meeting'
        /\ \A y \in Settings!Processes : Unmet(y)' => y = m /\ local.pc # "done" /\ Unmet(m)
        /\ Settings!UnderWay' = IF local.pc = "done" THEN Settings!UnderWay \ {m} ELSE Settings!UnderWay
    BY <2>1, <2>5, <2>6, <2>7, Stepping
  <2>10. Settings!UnderWay' = Settings!UnderWay
    BY <2>5, <2>9
  <2>11. ~process[m].met => process[m].seen = metadata /\ metadata.llm[q].key # None
    BY <2>1, <2>2, <2>3 DEF MigrationsKnow, Unmet, Settings!At
  <2>12. TypeOK'
    <3>1. process[m].seen.llm[q] \in Row
      BY <2>2, <2>4 DEF Local
    <3>2. credential' \in [Provider -> Row]
      BY <2>3, <2>4, <3>1 DEF TypeOK
    <3>3. excused' \subseteq Provider
      BY <2>3 DEF TypeOK
    <3>4. QED
      BY <2>8, <2>9, <3>2, <3>3 DEF TypeOK
  <2>13. KeysRest'
    <3>1. SUFFICES ASSUME NoSave, NEW p \in Provider, p \notin excused' PROVE Agree(p)'
      BY <2>10 DEF KeysRest, NoSave
    <3>2. ~process[m].met /\ p \notin excused
      BY <2>3, <3>1
    <3>3. Agree(p)
      BY <3>1, <3>2 DEF KeysRest
    <3>4. CASE p = q
      <4>1. credential'[p] = metadata.llm[p] /\ metadata.llm[p].key # None
        BY <2>3, <2>4, <2>11, <3>2, <3>4 DEF TypeOK
      <4>2. QED
        BY <2>8, <3>3, <4>1 DEF Agree, Settings!resolveApiKey
    <3>5. CASE p # q
      <4>1. credential'[p] = credential[p]
        BY <2>3, <3>5 DEF TypeOK
      <4>2. QED
        BY <2>8, <3>3, <4>1 DEF Agree, Settings!resolveApiKey
    <3>6. QED
      BY <3>4, <3>5
  <2>14. SavesKnow' /\ EditsKnow'
    BY <2>1, <2>9 DEF SavesKnow, EditsKnow, Settings!Processes
  <2>15. MigrationsKnow'
    <3>1. SUFFICES ASSUME NEW n \in Migrations, Unmet(n)'
                   PROVE  /\ process'[n].seen = metadata
                          /\ \A p \in process'[n].todo : metadata.llm[p].key # None
      BY <2>8 DEF MigrationsKnow
    <3>2. n = m /\ Unmet(m)
      BY <2>9, <3>1 DEF Settings!Processes
    <3>3. /\ process[m].seen = metadata
          /\ \A p \in process[m].todo : metadata.llm[p].key # None
      BY <2>2, <3>2 DEF MigrationsKnow, Settings!At
    <3>4. QED
      BY <2>5, <2>9, <3>2, <3>3
  <2>16. GeneratedRests'
    BY <2>8, <2>10, GeneratedKept
  <2>17. \A e \in Edits : Settings!At(e, "unique") => Settings!At(e, "unique")'
    BY <2>1, <2>9 DEF Settings!At, Settings!Processes
  <2>18. QED
    BY <2>8, <2>9, <2>12, <2>13, <2>14, <2>15, <2>16, <2>17, InitialKept
<1>3. QED
  BY <1>1, <1>2

LEMMA Failed ==
  ASSUME Settings!SettingsAssumption, IInv, NEW x \in Settings!Processes, Settings!Fails(x)
  PROVE  IInv'
<1> USE DEF IInv
<1>1. x \in Settings!UnderWay /\ process[x] \in Local
  BY DEF Settings!Fails, TypeOK
<1> DEFINE local == [Settings!Idle EXCEPT !.pc = "done"]
<1>2. local \in Local /\ local.pc = "done"
  BY IdleTyped DEF Settings!Idle
<1>3. Settings!Becomes(x, local)
  BY DEF Settings!Fails, Settings!Done
<1> HIDE DEF local
<1>4. local.pc \in Places(x) \ {"idle"}
  BY <1>2 DEF Places
<1>5. /\ faults' = faults + 1
      /\ excused' = IF x \in Edits THEN excused ELSE Provider
      /\ dated' = (dated \/ x \in Edits)
      /\ UNCHANGED <<credential, metadata, initial, version, last>>
  BY DEF Settings!Fails
<1>6. /\ process' \in [Settings!Processes -> Local] /\ process'[x] = local
      /\ \A y \in Settings!Processes : process'[y].pc \in Places(y)
      /\ Meeting'
      /\ \A y \in Settings!Processes : Unmet(y)' => y = x /\ local.pc # "done" /\ Unmet(x)
      /\ Settings!UnderWay' = Settings!UnderWay \ {x}
  BY <1>1, <1>2, <1>3, <1>4, Stepping
<1>7. TypeOK'
  <2>1. excused' \subseteq Provider /\ dated' \in BOOLEAN /\ faults' \in Nat
    BY <1>5 DEF TypeOK
  <2>2. QED
    BY <1>5, <1>6, <2>1 DEF TypeOK
<1>8. KeysRest'
  <2>1. CASE x \in Edits
    <3>1. Saves \cap Settings!UnderWay' = Saves \cap Settings!UnderWay
      BY <1>6, <2>1, Kinds
    <3>2. QED
      BY <1>5, <2>1, <3>1, KeysKept
  <2>2. CASE x \notin Edits
    BY <1>5, <2>2 DEF KeysRest
  <2>3. QED
    BY <2>1, <2>2
<1>9. SavesKnow' /\ EditsKnow' /\ MigrationsKnow'
  BY <1>2, <1>6, NobodyKnows
<1>10. GeneratedRests'
  <2>1. CASE x \in Edits
    BY <1>5, <2>1 DEF GeneratedRests
  <2>2. CASE x \notin Edits
    <3>1. Edits \cap Settings!UnderWay' = Edits \cap Settings!UnderWay
      BY <1>6, <2>2
    <3>2. dated' <=> dated
      BY <1>5, <2>2
    <3>3. QED
      BY <1>5, <3>1, <3>2 DEF GeneratedRests
  <2>3. QED
    BY <2>1, <2>2
<1>11. OneLeft'
  BY <1>5 DEF OneLeft, TypeOK
<1>12. QED
  BY <1>6, <1>7, <1>8, <1>9, <1>10, <1>11

-----------------------------------------------------------------------------

LEMMA Initially == Settings!SettingsAssumption /\ Settings!Init => IInv
<1> SUFFICES ASSUME Settings!SettingsAssumption, Settings!Init PROVE IInv
  OBVIOUS
<1>1. PICK legacy \in SUBSET Provider :
        /\ metadata = [llm |-> [p \in Provider |-> IF p \in legacy
                                  THEN [key |-> Old, models |-> Old] ELSE Settings!Nothing],
                       generated |-> 0]
        /\ last = [p \in Provider |-> IF p \in legacy THEN Old ELSE None]
  BY DEF Settings!Init
<1>2. \A p \in Provider : process = [x \in Settings!Processes |-> Settings!Idle] /\ credential[p] = Settings!Nothing
  BY DEF Settings!Init
<1>3. Settings!UnderWay = {}
  BY DEF Settings!Init, Settings!UnderWay, Settings!Idle
<1>4. TypeOK
  <2>1. metadata \in [llm : [Provider -> Row], generated : Nat]
    BY <1>1, IdleTyped DEF Row
  <2>2. last \in [Provider -> Saves \cup {Old, None}]
    BY <1>1
  <2>3. \A x \in Settings!Processes : process[x].pc \in Places(x)
    BY DEF Settings!Init, Settings!Idle, Places
  <2>4. QED
    BY <2>1, <2>2, <2>3, IdleTyped DEF Settings!Init, TypeOK
<1>5. KeysRest
  <2>1. SUFFICES ASSUME NEW p \in Provider PROVE Agree(p)
    BY DEF KeysRest
  <2>2. /\ credential[p] = Settings!Nothing
        /\ metadata.llm[p] = IF p \in legacy THEN [key |-> Old, models |-> Old] ELSE Settings!Nothing
        /\ last[p] = IF p \in legacy THEN Old ELSE None
    BY <1>1, <1>2
  <2>3. metadata.llm[p].key = last[p] /\ credential[p].key = None
    BY <2>2 DEF Settings!Nothing
  <2>4. QED
    BY <2>2, <2>3 DEF Agree, Settings!resolveApiKey
<1>6. Meeting /\ SavesKnow /\ EditsKnow /\ MigrationsKnow
  BY <1>3 DEF Meeting, SavesKnow, EditsKnow, MigrationsKnow, Unmet
<1>7. GeneratedRests /\ OneLeft
  BY <1>1 DEF Settings!Init, GeneratedRests, OneLeft
<1>8. QED
  BY <1>4, <1>5, <1>6, <1>7 DEF IInv

LEMMA Inductive == Settings!SettingsAssumption /\ IInv /\ [Settings!Next]_Settings!vars => IInv'
<1> SUFFICES ASSUME Settings!SettingsAssumption, IInv, [Settings!Next]_Settings!vars PROVE IInv'
  OBVIOUS
<1>1. ASSUME NEW s \in Saves,
             Settings!BeginSave(s) \/ Settings!FindCredential(s) \/ Settings!SyncCredential(s) \/ Settings!WriteMetadata(s)
      PROVE  IInv'
  BY <1>1, SaveBegins, CredentialFound, CredentialSynced, MetadataWritten
<1>2. ASSUME NEW e \in Edits,
             \/ Settings!BeginEdit(e) \/ Settings!EnforceUniqueness(e) \/ Settings!Generate(e)
             \/ Settings!ReadMetadata(e) \/ Settings!WriteRefreshed(e)
      PROVE  IInv'
  BY <1>2, EditBegins, UniquenessEnforced, Generated, MetadataRead, RefreshWritten
<1>3. ASSUME NEW m \in Migrations, Settings!BeginMigration(m) \/ Settings!Migrate(m)
      PROVE  IInv'
  BY <1>3, MigrationBegins, Migrated
<1>4. ASSUME NEW x \in Settings!Processes, Settings!ReadClient(x) \/ Settings!Fails(x)
      PROVE  IInv'
  BY <1>4, ClientRead, Failed
<1>5. CASE UNCHANGED Settings!vars
  <2>1. UNCHANGED <<credential, metadata, initial, version, process, last, excused, dated, faults>>
    BY <1>5 DEF Settings!vars
  <2>2. TypeOK' /\ Meeting' /\ KeysRest'
    BY <2>1 DEF IInv, TypeOK, Meeting, KeysRest, NoSave, Settings!UnderWay, Agree, Settings!resolveApiKey
  <2>3. SavesKnow'
    BY <2>1 DEF IInv, SavesKnow, Knows, Unmet, Settings!UnderWay, Pending, Sent, Untouched, Synced,
                Settings!At, Agree, Settings!resolveApiKey
  <2>4. EditsKnow' /\ MigrationsKnow'
    BY <2>1 DEF IInv, EditsKnow, MigrationsKnow, Unmet, Settings!UnderWay, Settings!At
  <2>5. GeneratedRests' /\ OneLeft'
    BY <2>1 DEF IInv, GeneratedRests, OneLeft, Settings!UnderWay, Settings!At
  <2>6. QED
    BY <2>2, <2>3, <2>4, <2>5 DEF IInv
<1>6. QED
  BY <1>1, <1>2, <1>3, <1>4, <1>5 DEF Settings!Next

\* Between calls the keys agree, and the generated part is that of the agents.
LEMMA SettingsRest == ASSUME Settings!SettingsAssumption, IInv PROVE Settings!SettingsAgree
<1>1. SUFFICES ASSUME Settings!AtRest PROVE Settings!SettingsAgree
  BY DEF Settings!SettingsAgree, Settings!KeysAgree, Settings!MetadataIsCurrent
<1>2. NoSave /\ Edits \cap Settings!UnderWay = {}
  BY <1>1 DEF Settings!AtRest, NoSave
<1>3. Settings!KeysAgree
  BY <1>1, <1>2 DEF IInv, KeysRest, Settings!KeysAgree, Agree
<1>4. Settings!MetadataIsCurrent
  BY <1>1, <1>2 DEF IInv, GeneratedRests, Settings!MetadataIsCurrent
<1>5. QED
  BY <1>3, <1>4 DEF Settings!SettingsAgree

\* Unless the call that clears the others fails, one agent at most is initial
\* between calls.
LEMMA InitialAgentRests == ASSUME Settings!SettingsAssumption, IInv PROVE Settings!OneInitialAgent
<1>1. SUFFICES ASSUME Settings!AtRest, faults = 0 PROVE Cardinality(initial) <= 1
  <2>1. Settings!Cardinality(initial) = Cardinality(initial)
    BY DEF Settings!Cardinality, Cardinality
  <2>2. QED
    BY <2>1 DEF Settings!OneInitialAgent
<1>2. \A e \in Edits : ~Settings!At(e, "unique")
  BY <1>1 DEF Settings!AtRest, Settings!UnderWay, Settings!At, Settings!Processes
<1>3. \A a, b \in initial : a = b
  BY <1>1, <1>2 DEF IInv, OneLeft
<1>4. CASE initial = {}
  BY <1>4, FS_EmptySet
<1>5. CASE initial # {}
  <2>1. PICK a \in initial : TRUE
    BY <1>5
  <2>2. initial = {a}
    BY <1>3, <2>1
  <2>3. Cardinality(initial) = 1
    BY <2>2, FS_Singleton, Zenon
  <2>4. QED
    BY <2>3
<1>6. QED
  BY <1>4, <1>5

\* However saves, refreshes, edits and the migration overlapped (saveLlmConfig,
\* refresh, enforceInitialAgentUniqueness): once they are over, each provider that no
\* overlapping calls and no failure touched has one key in both places, the
\* generated part is that of the agents unless the last refresh met another call
\* or failed, and two agents are initial only after a failure.
THEOREM SettingsSettle == ASSUME Settings!SettingsAssumption PROVE Settings!Spec => []SettingsHold
<1>1. IInv => Settings!SettingsHold
  BY SettingsRest, InitialAgentRests DEF Settings!SettingsHold
<1>2. QED
  BY <1>1, Initially, Inductive, PTL DEF Settings!Spec, SettingsHold

-----------------------------------------------------------------------------
(* A call by voice: the sockets to Google.                                 *)

\* Only the session's own socket is listened to; a session that is ready has one
\* whose setup Google has taken; no socket is set up before it is open.
Linked ==
  /\ \A g \in Voice!Sockets : google[g].heard => g = current
  /\ ready => current # 0 /\ google[current].setup = "complete"
  /\ \A g \in Voice!Sockets : google[g].state = "connecting" => google[g].setup = "no"

\* CallsAreOrderly alone is not inductive: what makes a late event harmless is
\* that its socket is not listened to any more.
CallInv == Voice!CallsAreOrderly /\ Linked

-----------------------------------------------------------------------------
\* A socket that is released is a socket on its way out, unheard.
LEMMA Releasing ==
  ASSUME Voice!TypeOK, NEW g \in Voice!Sockets
  PROVE  /\ Voice!Released(g) \in Voice!Socket
         /\ Voice!Released(g).state \notin {"connecting", "open"}
         /\ ~Voice!Released(g).heard
         /\ Voice!Released(g).early = google[g].early
         /\ Voice!Released(g).setup = google[g].setup
<1>1. google[g] \in Voice!Socket
  BY DEF Voice!TypeOK
<1>2. QED
  BY <1>1 DEF Voice!Released, Voice!Socket

\* After closeGoogleSession nothing is heard, connecting or open.
LEMMA ClosingSession ==
  ASSUME CallInv
  PROVE  /\ Voice!closeGoogleSession \in [Voice!Sockets -> Voice!Socket]
         /\ \A g \in Voice!Sockets :
              /\ Voice!closeGoogleSession[g].state \notin {"connecting", "open"}
              /\ ~Voice!closeGoogleSession[g].heard /\ ~Voice!closeGoogleSession[g].early
<1>1. Voice!TypeOK /\ google \in [Voice!Sockets -> Voice!Socket]
  BY DEF CallInv, Voice!CallsAreOrderly, Voice!TypeOK
<1>2. CASE current = 0
  <2>1. Voice!closeGoogleSession = google
    BY <1>2 DEF Voice!closeGoogleSession
  <2>2. \A g \in Voice!Sockets : g # current
    BY <1>2 DEF Voice!Sockets
  <2>3. QED
    BY <1>1, <2>1, <2>2 DEF CallInv, Voice!CallsAreOrderly, Voice!OneCall, Voice!NothingBeforeSetup, Linked
<1>3. CASE current # 0
  <2>1. current \in Voice!Sockets
    BY <1>1, <1>3 DEF Voice!TypeOK, Voice!Sockets
  <2>2. Voice!closeGoogleSession = [google EXCEPT ![current] = Voice!Released(current)]
    BY <1>3 DEF Voice!closeGoogleSession
  <2>3. Voice!Released(current) \in Voice!Socket
    BY <1>1, <2>1, Releasing
  <2>4. Voice!closeGoogleSession \in [Voice!Sockets -> Voice!Socket]
    BY <1>1, <2>1, <2>2, <2>3
  <2>5. ASSUME NEW g \in Voice!Sockets
        PROVE  /\ Voice!closeGoogleSession[g].state \notin {"connecting", "open"}
               /\ ~Voice!closeGoogleSession[g].heard /\ ~Voice!closeGoogleSession[g].early
    <3>1. CASE g = current
      <4>1. Voice!closeGoogleSession[g] = Voice!Released(g)
        BY <1>1, <2>1, <2>2, <3>1
      <4>2. QED
        BY <1>1, <4>1, Releasing DEF CallInv, Voice!CallsAreOrderly, Voice!NothingBeforeSetup
    <3>2. CASE g # current
      <4>1. Voice!closeGoogleSession[g] = google[g]
        BY <1>1, <2>1, <2>2, <3>2
      <4>2. QED
        BY <3>2, <4>1 DEF CallInv, Voice!CallsAreOrderly, Voice!OneCall, Voice!NothingBeforeSetup, Linked
    <3>3. QED
      BY <3>1, <3>2
  <2>6. QED
    BY <2>4, <2>5
<1>4. QED
  BY <1>2, <1>3

\* Closing a session leaves it unready.
LEMMA Unready ==
  ASSUME CallInv
  PROVE  ~Voice!StaysReady
BY DEF CallInv, Linked, Voice!StaysReady

-----------------------------------------------------------------------------
LEMMA CallsBegin ==
  ASSUME Voice!VoiceAssumption
  PROVE  Voice!Init => CallInv
<1>1. SUFFICES ASSUME Voice!Init PROVE CallInv
  OBVIOUS
<1>2. Voice!Unused \in Voice!Socket
  BY DEF Voice!Unused, Voice!Socket
<1>3. google \in [Voice!Sockets -> Voice!Socket]
  BY <1>1, <1>2 DEF Voice!Init
<1>4. Voice!TypeOK
  <2>1. current \in 0..MaxStarts /\ starts \in 0..MaxStarts /\ faults \in 0..MaxFaults
    BY <1>1 DEF Voice!VoiceAssumption, Voice!Init
  <2>2. browser \in BOOLEAN /\ ready \in BOOLEAN /\ told = "nothing"
    BY <1>1 DEF Voice!Init
  <2>3. QED
    BY <1>3, <2>1, <2>2 DEF Voice!TypeOK
<1>5. \A g \in Voice!Sockets : google[g].state = "none" /\ ~google[g].heard /\ ~google[g].early
  BY <1>1 DEF Voice!Init, Voice!Unused
<1>6. Voice!OneCall /\ Voice!NothingBeforeSetup /\ Voice!StatusIsTrue /\ Linked
  BY <1>1, <1>5 DEF Voice!Init, Voice!OneCall, Voice!NothingBeforeSetup, Voice!StatusIsTrue, Linked
<1>7. QED
  BY <1>4, <1>6 DEF CallInv, Voice!CallsAreOrderly

\* A browser that begins a call: whatever was before is released.
LEMMA Starting ==
  ASSUME Voice!VoiceAssumption, CallInv, Voice!Start
  PROVE  CallInv'
<1>0. Voice!TypeOK /\ MaxStarts \in Nat /\ MaxFaults \in Nat
  BY DEF CallInv, Voice!CallsAreOrderly, Voice!VoiceAssumption
<1> DEFINE new == [Voice!Unused EXCEPT !.state = "connecting", !.heard = TRUE]
<1>1. starts' \in Voice!Sockets /\ current' = starts' /\ ready' = FALSE /\ told' = "connecting"
      /\ browser' = browser /\ browser /\ faults' = faults
  BY <1>0, Unready DEF Voice!Start, Voice!TypeOK, Voice!Sockets
<1>2. new \in Voice!Socket /\ new.state = "connecting" /\ new.setup = "no" /\ ~new.early
  BY DEF Voice!Unused, Voice!Socket
<1>3. google' = [Voice!closeGoogleSession EXCEPT ![starts'] = new]
  BY DEF Voice!Start
<1> HIDE DEF new
<1>4. google' \in [Voice!Sockets -> Voice!Socket]
  BY <1>1, <1>2, <1>3, ClosingSession
<1>5. google'[starts'] = new
  BY <1>1, <1>3, ClosingSession
<1>6. \A g \in Voice!Sockets : g # starts' => google'[g] = Voice!closeGoogleSession[g]
  BY <1>1, <1>3, ClosingSession
<1>7. Voice!TypeOK'
  <2>1. starts' \in 0..MaxStarts /\ current' \in 0..MaxStarts
    BY <1>0, <1>1 DEF Voice!Sockets
  <2>2. browser' \in BOOLEAN /\ ready' \in BOOLEAN /\ faults' \in 0..MaxFaults
    BY <1>0, <1>1 DEF Voice!TypeOK
  <2>3. QED
    BY <1>1, <1>4, <2>1, <2>2 DEF Voice!TypeOK
<1>8. Voice!OneCall' /\ Voice!NothingBeforeSetup'
  BY <1>1, <1>2, <1>5, <1>6, ClosingSession DEF Voice!OneCall, Voice!NothingBeforeSetup
<1>9. Voice!StatusIsTrue' /\ Linked'
  BY <1>1, <1>2, <1>5, <1>6, ClosingSession DEF Voice!StatusIsTrue, Linked
<1>10. QED
  BY <1>7, <1>8, <1>9 DEF CallInv, Voice!CallsAreOrderly

\* A call that ends, is refused or is left by its browser.
LEMMA Ending ==
  ASSUME Voice!VoiceAssumption, CallInv, Voice!StartRefused \/ Voice!Stop \/ Voice!Leave
  PROVE  CallInv'
<1>0. Voice!TypeOK /\ MaxStarts \in Nat /\ MaxFaults \in Nat
  BY DEF CallInv, Voice!CallsAreOrderly, Voice!VoiceAssumption
<1>1. google' = Voice!closeGoogleSession /\ current' = 0 /\ ready' = FALSE
  BY Unready DEF Voice!StartRefused, Voice!Stop, Voice!Leave
<1>2. starts' \in 0..MaxStarts /\ faults' \in 0..MaxFaults
  BY <1>0 DEF Voice!StartRefused, Voice!Stop, Voice!Leave, Voice!TypeOK
<1>3. browser' \in BOOLEAN /\ (browser' => told' \in {"error", "connecting", "disconnected"})
      /\ told' \in {"nothing", "connecting", "connected", "disconnected", "error"}
  BY <1>0 DEF Voice!StartRefused, Voice!Stop, Voice!Leave, Voice!TypeOK
<1>4. Voice!TypeOK'
  <2>1. current' \in 0..MaxStarts
    BY <1>0, <1>1
  <2>2. google' \in [Voice!Sockets -> Voice!Socket] /\ ready' \in BOOLEAN
    BY <1>1, ClosingSession
  <2>3. QED
    BY <1>2, <1>3, <2>1, <2>2 DEF Voice!TypeOK
<1>5. Voice!OneCall' /\ Voice!NothingBeforeSetup'
  BY <1>1, ClosingSession DEF Voice!OneCall, Voice!NothingBeforeSetup
<1>6. Voice!StatusIsTrue' /\ Linked'
  BY <1>1, <1>3, ClosingSession DEF Voice!StatusIsTrue, Linked
<1>7. QED
  BY <1>4, <1>5, <1>6 DEF CallInv, Voice!CallsAreOrderly

\* What a socket to Google emits, and what is said into the session's own one.
LEMMA OnSocket ==
  ASSUME Voice!VoiceAssumption, CallInv, NEW g \in Voice!Sockets,
         Voice!OnOpen(g) \/ Voice!OnSetupComplete(g) \/ Voice!OnAbort(g) \/ Voice!OnError(g) \/ Voice!OnClose(g)
           \/ (Voice!Speak /\ g = current)
  PROVE  CallInv'
<1>0. Voice!TypeOK /\ google \in [Voice!Sockets -> Voice!Socket] /\ google[g] \in Voice!Socket
      /\ MaxStarts \in Nat /\ MaxFaults \in Nat
  BY DEF CallInv, Voice!CallsAreOrderly, Voice!TypeOK, Voice!VoiceAssumption
<1>1. google' \in [Voice!Sockets -> Voice!Socket]
  <2>1. PICK socket \in Voice!Socket : google' = [google EXCEPT ![g] = socket]
    <3>1. CASE Voice!Speak /\ g = current
      BY <1>0, <3>1 DEF Voice!Speak, Voice!Socket
    <3>2. CASE Voice!OnOpen(g)
      BY <1>0, <3>2 DEF Voice!OnOpen, Voice!Socket
    <3>3. CASE Voice!OnSetupComplete(g)
      BY <1>0, <3>3 DEF Voice!OnSetupComplete, Voice!Socket
    <3>4. CASE Voice!OnAbort(g)
      BY <1>0, <3>4 DEF Voice!OnAbort, Voice!Socket
    <3>5. CASE Voice!OnError(g) \/ Voice!OnClose(g)
      BY <1>0, <3>5 DEF Voice!OnError, Voice!OnClose, Voice!Socket
    <3>6. QED
      BY <3>1, <3>2, <3>3, <3>4, <3>5
  <2>2. QED
    BY <1>0, <2>1
<1>2. /\ \A h \in Voice!Sockets : h # g => google'[h] = google[h]
      /\ google'[g].heard = google[g].heard
      /\ google'[g].state \in {"connecting", "open"} => google[g].state \in {"connecting", "open"}
      /\ google'[g].state = "connecting" => google[g].state = "connecting"
  BY <1>0 DEF Voice!OnOpen, Voice!OnSetupComplete, Voice!OnAbort, Voice!OnError, Voice!OnClose, Voice!Speak, Voice!Socket
<1>3. current' = current /\ browser' = browser /\ starts' = starts
  BY DEF Voice!OnOpen, Voice!OnSetupComplete, Voice!OnAbort, Voice!OnError, Voice!OnClose, Voice!Speak
<1>4. ready' \in BOOLEAN /\ faults' \in 0..MaxFaults
      /\ told' \in {"nothing", "connecting", "connected", "disconnected", "error"}
  <2>1. ready' \in BOOLEAN
    BY <1>0 DEF Voice!OnOpen, Voice!OnSetupComplete, Voice!OnAbort, Voice!OnError, Voice!OnClose, Voice!Speak, Voice!TypeOK
  <2>2. faults' \in 0..MaxFaults
    BY <1>0 DEF Voice!OnOpen, Voice!OnSetupComplete, Voice!OnAbort, Voice!OnError, Voice!OnClose, Voice!Speak, Voice!TypeOK
  <2>3. told' \in {"nothing", "connecting", "connected", "disconnected", "error"}
    BY <1>0 DEF Voice!OnOpen, Voice!OnSetupComplete, Voice!OnAbort, Voice!OnError, Voice!OnClose, Voice!Speak, Voice!Tell, Voice!TypeOK
  <2>4. QED
    BY <2>1, <2>2, <2>3
<1>5. Voice!TypeOK'
  <2>1. current' \in 0..MaxStarts /\ starts' \in 0..MaxStarts /\ browser' \in BOOLEAN
    BY <1>0, <1>3 DEF Voice!TypeOK
  <2>2. QED
    BY <1>1, <1>4, <2>1 DEF Voice!TypeOK
<1>6. Voice!OneCall'
  BY <1>2, <1>3 DEF CallInv, Voice!CallsAreOrderly, Voice!OneCall
<1>7. ~google'[g].early
  <2>1. CASE Voice!Speak /\ g = current
    BY <2>1, <1>0 DEF CallInv, Voice!CallsAreOrderly, Voice!NothingBeforeSetup, Linked, Voice!Speak, Voice!Socket
  <2>2. CASE ~(Voice!Speak /\ g = current)
    BY <2>2, <1>0 DEF CallInv, Voice!CallsAreOrderly, Voice!NothingBeforeSetup, Voice!OnOpen, Voice!OnSetupComplete, Voice!OnAbort,
                      Voice!OnError, Voice!OnClose, Voice!Socket
  <2>3. QED
    BY <2>1, <2>2
<1>8. Voice!NothingBeforeSetup'
  BY <1>2, <1>7 DEF CallInv, Voice!CallsAreOrderly, Voice!NothingBeforeSetup
<1>9. Voice!StatusIsTrue'
  BY DEF CallInv, Voice!CallsAreOrderly, Voice!StatusIsTrue, Voice!OnOpen, Voice!OnSetupComplete, Voice!OnAbort, Voice!OnError, Voice!OnClose,
         Voice!Speak, Voice!Tell
<1>10. google'[g].state = "connecting" => google'[g].setup = "no"
  BY <1>0, <1>2 DEF CallInv, Linked, Voice!OnOpen, Voice!OnSetupComplete, Voice!OnAbort, Voice!OnError, Voice!OnClose, Voice!Speak, Voice!Socket
<1>11. ready' => current' # 0 /\ google'[current'].setup = "complete"
  <2>1. CASE Voice!OnSetupComplete(g) /\ google[g].heard
    <3>1. g = current /\ g # 0
      BY <2>1 DEF CallInv, Linked, Voice!Sockets
    <3>2. google'[g].setup = "complete"
      BY <1>0, <2>1 DEF Voice!OnSetupComplete
    <3>3. QED
      BY <1>3, <3>1, <3>2
  <2>2. CASE ~(Voice!OnSetupComplete(g) /\ google[g].heard)
    <3>1. ready' => ready
      BY <2>2 DEF Voice!OnOpen, Voice!OnSetupComplete, Voice!OnAbort, Voice!OnError, Voice!OnClose, Voice!Speak
    <3>2. google[g].setup = "complete" => google'[g].setup = "complete"
      BY <1>0 DEF CallInv, Linked, Voice!OnOpen, Voice!OnSetupComplete, Voice!OnAbort, Voice!OnError, Voice!OnClose, Voice!Speak, Voice!Socket
    <3>3. current # 0 => current \in Voice!Sockets
      BY <1>0 DEF Voice!TypeOK, Voice!Sockets
    <3>4. QED
      BY <1>2, <1>3, <3>1, <3>2, <3>3 DEF CallInv, Linked
  <2>3. QED
    BY <2>1, <2>2
<1>12. Linked'
  BY <1>2, <1>3, <1>10, <1>11 DEF CallInv, Linked
<1>13. QED
  BY <1>5, <1>6, <1>8, <1>9, <1>12 DEF CallInv, Voice!CallsAreOrderly

LEMMA CallsStep ==
  ASSUME Voice!VoiceAssumption
  PROVE  CallInv /\ [Voice!Next]_Voice!vars => CallInv'
<1>1. SUFFICES ASSUME CallInv, [Voice!Next]_Voice!vars PROVE CallInv'
  OBVIOUS
<1>2. CASE Voice!Start
  BY <1>1, <1>2, Starting
<1>3. CASE Voice!StartRefused \/ Voice!Stop \/ Voice!Leave
  BY <1>1, <1>3, Ending
<1>4. CASE Voice!Speak
  <2>1. current \in Voice!Sockets
    BY <1>1, <1>4 DEF Voice!Speak, CallInv, Voice!CallsAreOrderly, Voice!TypeOK, Voice!Sockets
  <2>2. QED
    BY <1>1, <1>4, <2>1, OnSocket
<1>5. ASSUME NEW g \in Voice!Sockets,
             Voice!OnOpen(g) \/ Voice!OnSetupComplete(g) \/ Voice!OnAbort(g) \/ Voice!OnError(g) \/ Voice!OnClose(g)
      PROVE  CallInv'
  BY <1>1, <1>5, OnSocket
<1>6. CASE UNCHANGED Voice!vars
  BY <1>1, <1>6 DEF Voice!vars, CallInv, Voice!CallsAreOrderly, Voice!TypeOK, Voice!OneCall, Voice!NothingBeforeSetup, Voice!StatusIsTrue,
                    Linked
<1>7. QED
  BY <1>1, <1>2, <1>3, <1>4, <1>5, <1>6 DEF Voice!Next

\* For any number of calls and failed connections: at most one socket to Google
\* is open or will be, none when the browser has left; no call hears anything
\* before its setup is taken; and the browser is told "connected" only while it
\* can speak, however late the events of earlier sockets come.
THEOREM OrderlyCalls ==
  ASSUME Voice!VoiceAssumption
  PROVE  Voice!Spec => []CallsAreOrderly
<1>1. Voice!Init => CallInv
  BY CallsBegin
<1>2. CallInv /\ [Voice!Next]_Voice!vars => CallInv'
  BY CallsStep
<1>3. CallInv => Voice!CallsAreOrderly
  BY DEF CallInv
<1>4. QED
  BY <1>1, <1>2, <1>3, PTL DEF Voice!Spec, CallsAreOrderly

-----------------------------------------------------------------------------
(* Media: the inductive invariant.                                         *)

MediaFits == Media!MediaAssumption /\ MaxAttempts \in Nat \ {0} /\ MaxStalls \in Nat

Runs(w) == worker[w].pc # "idle"

\* A run has a job that is active, which nobody else runs.
MediaRuns ==
  /\ \A w \in Workers : Runs(w) => Media!Own(w) \in Asset /\ jobs[Media!Own(w)].state = "active"
  /\ \A w \in Workers : ~Runs(w) => Media!Own(w) = None
  /\ \A v, w \in Workers : Runs(v) /\ Media!Own(v) = Media!Own(w) => v = w

\* A job comes after its request and, until it is settled, has an attempt left.
JobIsDue(a) ==
  /\ jobs[a].data = a
  /\ jobs[a].state # "absent" => request[a] = "done" /\ a \in Media!Processable
  /\ jobs[a].state \in {"waiting", "active", "delayed"} => jobs[a].attempts < MaxAttempts
  /\ jobs[a].state = "absent" => jobs[a].attempts = 0 /\ jobs[a].stalls = 0

\* The panel knows a path in the storage for it.
IsRegistered(a) == a \in HasPath \/ SourceOf[a] = "upload"

\* What the request of an asset has written, and what it has not.
RowIsDue(a) ==
  /\ request[a] \in {"new", "row"} => row[a].status = "absent" /\ ~row[a].path
  /\ request[a] = "row" => a \in files /\ SourceOf[a] = "upload" /\ Storage # "none"
  /\ request[a] = "part" => SourceOf[a] = "message"
  /\ request[a] \in {"part", "queue", "done"} => row[a].status # "absent"
  /\ jobs[a].state = "absent" =>
       row[a].text = "none" /\ row[a].status \in {"absent", "pending", "stored"}
  /\ IsRegistered(a) => /\ request[a] \in {"queue", "done"} => row[a].path
                        /\ row[a].path => a \in files
  /\ a \in HasPath => a \in files
  /\ row[a].path => IsRegistered(a) \/ Storage # "none"
  /\ a \in HasUrl /\ a \in Media!Attached => row[a].status # "stored"

\* The text is there.
HasRead == {"fetch", "upload", "path", "settle"}

\* What the run of an asset knows and has done.
RunIsDue(a) ==
  \A w \in Workers : Media!Own(w) = a =>
    /\ worker[w].outcome = "ok" /\ worker[w].pc \in HasRead =>
         row[a].status = "ready" /\ row[a].text # "none"
    /\ worker[w].outcome = "ok" => worker[w].pc # "catch"
    /\ worker[w].outcome = "error" => worker[w].pc \in {"catch", "settle"}
    /\ worker[w].path => row[a].path
    /\ IsRegistered(a) /\ worker[w].pc # "find" /\ worker[w].outcome = "ok" => worker[w].path
    /\ worker[w].pc \in {"fetch", "upload", "path"} => ~IsRegistered(a)
    /\ worker[w].pc \in {"upload", "path"} => Storage # "none"
    /\ worker[w].pc = "path" => a \in files \/ (Storage = "local" /\ faults > 0)

\* A completed job has told its asset, and a path leads to a file.
AssetIsTold(a) ==
  /\ jobs[a].state = "completed" => row[a].status = "ready" /\ row[a].text # "none"
  /\ row[a].path => a \in files \/ (Storage = "local" /\ faults > 0)

\* The local storage has left a path to nothing, or is about to.
Broken(a) ==
  /\ a \notin files
  /\ row[a].path \/ \E w \in Workers : Media!Own(w) = a /\ worker[w].pc = "path"

\* Nobody is going to complete the job that somebody has begun.
IsGivenUp(a) ==
  jobs[a].state = "active" /\ \A w \in Workers : Media!Own(w) = a => worker[w].outcome = "error"

One(b) == IF b THEN 1 ELSE 0

\* The failures it took for a job to get where it is.
Cost(a) == jobs[a].attempts + jobs[a].stalls + One(IsGivenUp(a)) + One(Broken(a))

CostIsPaid(a) ==
  Media!Readable(a) /\ ~(Storage = "local" /\ faults > 1) =>
    /\ Cost(a) <= faults
    /\ jobs[a].state = "failed" => faults >= MaxAttempts \/ faults > MaxStalls

\* A path to nothing is the last thing of a run.
BrokenIsLate(a) ==
  Broken(a) =>
    \/ jobs[a].attempts + jobs[a].stalls > 0
    \/ jobs[a].state \in {"completed", "failed"}
    \/ /\ jobs[a].state = "active"
       /\ \A w \in Workers : Media!Own(w) = a => worker[w].pc \in {"path", "catch", "settle"}

\* Without a failure an asset is read once, if it can be.
IsReadOnce(a) ==
  faults = 0 =>
    /\ jobs[a].state = "active" => \E w \in Workers : Media!Own(w) = a
    /\ row[a].text # "none" =>
         \/ jobs[a].state = "completed"
         \/ /\ jobs[a].state = "active"
            /\ \A w \in Workers : Media!Own(w) = a => worker[w].pc \in HasRead /\ worker[w].outcome = "ok"
    /\ row[a].status = "ready" => row[a].text # "none"
    /\ row[a].status = "failed" => ~Media!Readable(a)
    /\ request[a] = "failed" => row[a].status = "absent"

AssetInv(a) ==
  /\ JobIsDue(a) /\ RowIsDue(a) /\ RunIsDue(a) /\ AssetIsTold(a)
  /\ CostIsPaid(a) /\ BrokenIsLate(a) /\ IsReadOnce(a)

\* Somebody will still write the status of the asset.
Attended(a) ==
  \/ jobs[a].state \in {"waiting", "delayed"}
  \/ \E w \in Workers : Media!Own(w) = a /\ worker[w].pc \in Media!Trying \cup {"find", "mark", "catch"}

AtRisk(a) ==
  /\ row[a].status \in Media!Unfinished /\ request[a] \in {"done", "failed"} /\ ~Attended(a)

RisksAreCounted == Cardinality({a \in Media!Processable : AtRisk(a)}) <= faults

\* Who has waited has waited for a text.
ReadersWait ==
  \A r \in Readers :
    /\ reader[r].pc # "idle" => \A a \in Media!Attached : request[a] = "done"
    /\ reader[r].pc = "build" /\ ~reader[r].late /\ faults = 0 =>
         \A a \in Media!Attached : Media!Readable(a) /\ a \in Media!Processable => row[a].text # "none"

MediaInv ==
  /\ Media!TypeOK /\ MediaRuns /\ \A a \in Asset : AssetInv(a)
  /\ RisksAreCounted /\ ReadersWait /\ Media!AnswersWaitForText

-----------------------------------------------------------------------------
(* Types.                                                                  *)

Assets == [status : {"absent", "pending", "stored", "processing", "ready", "failed"},
           path : BOOLEAN, text : {"none", "some", "empty"}]

RunOfAsset == [pc : Media!Trying \cup {"idle", "find", "mark", "catch", "settle"},
          job : Asset \cup {None}, path : BOOLEAN, outcome : {"ok", "error"}]

LEMMA JobTypes ==
  ASSUME MediaFits, NEW job \in Media!JobOf(Asset), NEW a \in Asset
  PROVE  /\ Media!NoJob(a) \in Media!JobOf(Asset) /\ Media!Added(job, a) \in Media!JobOf(Asset)
         /\ Media!Started(job) \in Media!JobOf(Asset) /\ Media!Completed(job) \in Media!JobOf(Asset)
         /\ job.attempts < MaxAttempts => Media!AttemptFailed(job) \in Media!JobOf(Asset)
         /\ Media!Stalled(job) \in Media!JobOf(Asset)
<1>1. 0 \in 0..MaxAttempts /\ 0 \in 0..MaxStalls
  BY DEF MediaFits
<1>2. Media!NoJob(a) \in Media!JobOf(Asset) /\ Media!Added(job, a) \in Media!JobOf(Asset)
  BY <1>1 DEF Media!NoJob, Media!Added, Media!Queued, Media!JobOf, Media!JobStates
<1>3. Media!Started(job) \in Media!JobOf(Asset) /\ Media!Completed(job) \in Media!JobOf(Asset)
  BY DEF Media!Started, Media!Completed, Media!JobOf, Media!JobStates
<1>4. ASSUME job.attempts < MaxAttempts PROVE Media!AttemptFailed(job) \in Media!JobOf(Asset)
  <2>1. job.attempts + 1 \in 0..MaxAttempts
    BY <1>4 DEF MediaFits, Media!JobOf
  <2>2. QED
    BY <2>1 DEF Media!AttemptFailed, Media!JobOf, Media!JobStates
<1>5. Media!Stalled(job) \in Media!JobOf(Asset)
  <2>1. job.stalls < MaxStalls => job.stalls + 1 \in 0..MaxStalls
    BY DEF MediaFits, Media!JobOf
  <2>2. QED
    BY <2>1 DEF Media!Stalled, Media!JobOf, Media!JobStates
<1>6. QED
  BY <1>2, <1>3, <1>4, <1>5

\* What a worker's local variables become.
LEMMA LocalTypes ==
  ASSUME Media!TypeOK, NEW w \in Workers
  PROVE  /\ worker[w] \in RunOfAsset /\ Media!Idle \in RunOfAsset
         /\ \A pc \in {"find", "mark", "catch", "settle"} \cup Media!Trying :
              /\ [worker[w] EXCEPT !.pc = pc] \in RunOfAsset
              /\ [worker[w] EXCEPT !.pc = pc, !.outcome = "error"] \in RunOfAsset
              /\ \A p \in BOOLEAN : [worker[w] EXCEPT !.pc = pc, !.path = p] \in RunOfAsset
<1>1. worker[w] \in RunOfAsset
  BY DEF Media!TypeOK, RunOfAsset
<1>2. QED
  BY <1>1 DEF Media!Idle, RunOfAsset, Media!Trying

LEMMA WorkerTypes ==
  ASSUME Media!TypeOK, NEW w \in Workers, NEW l \in RunOfAsset, Media!Becomes(w, l)
  PROVE  worker' \in [Workers -> RunOfAsset]
BY DEF Media!TypeOK, RunOfAsset, Media!Becomes

LEMMA AssetRowTypes ==
  ASSUME Media!TypeOK, NEW a \in Asset
  PROVE  /\ \A p \in BOOLEAN : [row EXCEPT ![a].path = p] \in [Asset -> Assets]
         /\ \A s \in {"absent", "pending", "stored", "processing", "ready", "failed"} :
              /\ [row EXCEPT ![a].status = s] \in [Asset -> Assets]
              /\ \A p \in BOOLEAN : [row EXCEPT ![a].status = s, ![a].path = p] \in [Asset -> Assets]
              /\ \A t \in {"none", "some", "empty"} :
                   [row EXCEPT ![a].status = s, ![a].text = t] \in [Asset -> Assets]
<1>1. row \in [Asset -> Assets]
  BY DEF Media!TypeOK, Assets
<1>2. ASSUME NEW p \in BOOLEAN PROVE [row EXCEPT ![a].path = p] \in [Asset -> Assets]
  BY <1>1 DEF Assets
<1>3. ASSUME NEW s \in {"absent", "pending", "stored", "processing", "ready", "failed"}
      PROVE  [row EXCEPT ![a].status = s] \in [Asset -> Assets]
  BY <1>1 DEF Assets
<1>4. ASSUME NEW s \in {"absent", "pending", "stored", "processing", "ready", "failed"}, NEW p \in BOOLEAN
      PROVE  [row EXCEPT ![a].status = s, ![a].path = p] \in [Asset -> Assets]
  BY <1>1 DEF Assets
<1>5. ASSUME NEW s \in {"absent", "pending", "stored", "processing", "ready", "failed"},
NEW t \in {"none", "some", "empty"}
      PROVE  [row EXCEPT ![a].status = s, ![a].text = t] \in [Asset -> Assets]
  BY <1>1 DEF Assets
<1>6. QED
  BY <1>2, <1>3, <1>4, <1>5

\* Types of the variables one by one.
Run == [pc : {"idle", "wait", "build", "done"}, late : BOOLEAN,
        got : [Media!Attached -> {"nothing", "file", "text", "no text", "name"}]]

MediaTyped ==
  /\ row \in [Asset -> Assets] /\ worker \in [Workers -> RunOfAsset]
  /\ jobs \in [Asset -> Media!JobOf(Asset)]
  /\ linked \subseteq Media!Attached /\ files \subseteq Asset
  /\ request \in [Asset -> {"new", "part", "row", "queue", "done", "failed"}]
  /\ reader \in [Readers -> Run]
  /\ faults \in 0..MaxFaults

LEMMA TypedAsAWhole == (MediaTyped <=> Media!TypeOK) /\ (MediaTyped' <=> Media!TypeOK')
BY DEF MediaTyped, Media!TypeOK, Assets, RunOfAsset, Run

LEMMA Counters ==
  ASSUME MediaFits, Media!TypeOK
  PROVE  /\ faults \in Nat /\ MaxAttempts \in Nat /\ MaxStalls \in Nat
         /\ \A a \in Asset : jobs[a].attempts \in Nat /\ jobs[a].stalls \in Nat
<1>1. MaxFaults \in Nat /\ MaxAttempts \in Nat /\ MaxStalls \in Nat
  BY DEF MediaFits, Media!MediaAssumption
<1>2. faults \in 0..MaxFaults
  BY DEF Media!TypeOK
<1>3. ASSUME NEW a \in Asset PROVE jobs[a].attempts \in Nat /\ jobs[a].stalls \in Nat
  <2>1. jobs[a] \in Media!JobOf(Asset)
    BY DEF Media!TypeOK
  <2>2. jobs[a].attempts \in 0..MaxAttempts /\ jobs[a].stalls \in 0..MaxStalls
    BY <2>1 DEF Media!JobOf
  <2>3. QED
    BY <1>1, <2>2
<1>4. QED
  BY <1>1, <1>2, <1>3

LEMMA FaultTypes ==
  ASSUME MediaFits, Media!TypeOK, Media!Fault
  PROVE  faults' \in 0..MaxFaults /\ faults' = faults + 1
<1>1. MaxFaults \in Nat /\ faults \in 0..MaxFaults
  BY DEF MediaFits, Media!MediaAssumption, Media!TypeOK
<1>2. QED
  BY <1>1 DEF Media!Fault

\* The own asset of a run.
LEMMA OwnTypes ==
  ASSUME MediaInv, NEW w \in Workers, Runs(w)
  PROVE  Media!Own(w) \in Asset /\ jobs[Media!Own(w)].state = "active" /\ jobs[Media!Own(w)].attempts < MaxAttempts
BY DEF MediaInv, MediaRuns, AssetInv, JobIsDue

LEMMA MediaTypes ==
  ASSUME MediaFits, MediaInv, Media!Next
  PROVE  Media!TypeOK'
<1>1. Media!TypeOK /\ MediaTyped
  BY TypedAsAWhole DEF MediaInv
<1>2. ASSUME NEW a \in Asset,
Media!CreateAttached(a) \/ Media!LinkPart(a) \/ Media!CreateAsset(a) \/ Media!UploadFile(a)
                             \/ Media!CreateUploaded(a)
      PROVE  MediaTyped'
  <2>1. UNCHANGED <<jobs, worker, reader,
  faults>> /\ linked' \subseteq Media!Attached /\ files' \subseteq Asset
    <3>1. request[a] = "part" => a \in Media!Attached
      BY DEF Media!Attached, MediaInv, AssetInv, RowIsDue
    <3>2. QED
      BY <1>1, <1>2, <3>1 DEF Media!CreateAttached, Media!LinkPart, Media!CreateAsset, Media!UploadFile,
         Media!CreateUploaded,
           MediaTyped
  <2>2. row' \in [Asset -> Assets]
    <3>1. CASE UNCHANGED row
      BY <1>1, <3>1 DEF MediaTyped
    <3>2. CASE Media!CreateAttached(a)
      BY <1>1, <3>2, AssetRowTypes DEF Media!CreateAttached
    <3>3. CASE Media!CreateAsset(a)
      <4>1. (a \in HasPath) \in BOOLEAN
        OBVIOUS
      <4>2. QED
        BY <1>1, <3>3, <4>1, AssetRowTypes DEF Media!CreateAsset
    <3>4. CASE Media!CreateUploaded(a)
      BY <1>1, <3>4, AssetRowTypes DEF Media!CreateUploaded
    <3>5. QED
      BY <1>2, <3>1, <3>2, <3>3, <3>4 DEF Media!LinkPart, Media!UploadFile
  <2>3. request' \in [Asset -> {"new", "part", "row", "queue", "done", "failed"}]
    BY <1>1, <1>2 DEF Media!CreateAttached, Media!LinkPart, Media!CreateAsset, Media!UploadFile,
       Media!CreateUploaded, Media!Request,
         MediaTyped
  <2>4. QED
    BY <1>1, <2>1, <2>2, <2>3 DEF MediaTyped
<1>3. ASSUME NEW a \in Asset, Media!Enqueue(a) PROVE MediaTyped'
  <2>1. jobs' \in [Asset -> Media!JobOf(Asset)]
    BY <1>1, <1>3, JobTypes DEF Media!Enqueue, MediaTyped
  <2>2. QED
    BY <1>1, <1>3, <2>1 DEF Media!Enqueue, Media!Request, Media!rows, MediaTyped
<1>4. ASSUME NEW a \in Asset, Media!RequestFails(a) PROVE MediaTyped'
  BY <1>1, <1>4, FaultTypes DEF Media!RequestFails, Media!Request, Media!rows, MediaTyped
<1>5. ASSUME NEW a \in Asset, Media!StalledCheck(a) PROVE MediaTyped'
  <2>1. jobs' \in [Asset -> Media!JobOf(Asset)]
    BY <1>1, <1>5, JobTypes DEF Media!StalledCheck, MediaTyped
  <2>2. QED
    BY <1>1, <1>5, <2>1 DEF Media!StalledCheck, Media!rows, MediaTyped
<1>6. ASSUME NEW w \in Workers, NEW a \in Asset, Media!StartJob(w, a) PROVE MediaTyped'
  <2>1. jobs' \in [Asset -> Media!JobOf(Asset)]
    BY <1>1, <1>6, JobTypes DEF Media!StartJob, MediaTyped
  <2>2. [Media!Idle EXCEPT !.pc = "find", !.job = a] \in RunOfAsset
    BY DEF Media!Idle, RunOfAsset
  <2>3. worker' \in [Workers -> RunOfAsset]
    BY <1>1, <1>6, <2>2, WorkerTypes DEF Media!StartJob
  <2>4. QED
    BY <1>1, <1>6, <2>1, <2>3 DEF Media!StartJob, Media!rows, MediaTyped
<1>7. ASSUME NEW w \in Workers, Media!SettleJob(w) PROVE MediaTyped'
  <2>1. Media!Own(w) \in Asset /\ jobs[Media!Own(w)] \in Media!JobOf(Asset) /\ jobs[Media!Own(w)].attempts < MaxAttempts
    BY <1>1, <1>7, OwnTypes DEF Media!SettleJob, Media!At, Runs, MediaTyped
  <2>2. jobs' \in [Asset -> Media!JobOf(Asset)]
    BY <1>1, <1>7, <2>1, JobTypes DEF Media!SettleJob, MediaTyped
  <2>3. worker' \in [Workers -> RunOfAsset]
    BY <1>1, <1>7, LocalTypes, WorkerTypes DEF Media!SettleJob
  <2>4. QED
    BY <1>1, <1>7, <2>2, <2>3 DEF Media!SettleJob, Media!rows, MediaTyped
<1>8. ASSUME NEW w \in Workers, NEW pc \in {"find", "mark", "catch", "settle"} \cup Media!Trying,
             Media!Goto(w, pc) \/ Media!Fails(w, pc)
      PROVE  worker' \in [Workers -> RunOfAsset]
  BY <1>1, <1>8, LocalTypes, WorkerTypes DEF Media!Goto, Media!Fails
<1>9. ASSUME NEW w \in Workers, Media!FindAsset(w) PROVE MediaTyped'
  <2>1. row[Media!Own(w)].path \in BOOLEAN
    BY <1>1, <1>9, OwnTypes DEF Media!FindAsset, Media!At, Runs, MediaTyped, Assets
  <2>2. worker' \in [Workers -> RunOfAsset]
    BY <1>1, <1>9, <2>1, LocalTypes, WorkerTypes DEF Media!FindAsset
  <2>3. QED
    BY <1>1, <1>9, <2>2 DEF Media!FindAsset, Media!rows, MediaTyped
<1>10. ASSUME NEW w \in Workers,
Media!MarkProcessing(w) \/ Media!MarkReady(w) \/ Media!StorePath(w) \/ Media!Catch(w)
       PROVE  MediaTyped'
  <2>1. Media!Own(w) \in Asset
    BY <1>10, OwnTypes DEF Media!MarkProcessing, Media!MarkReady, Media!StorePath, Media!Catch, Media!At, Runs
  <2>2. row' \in [Asset -> Assets]
    <3>1. PICK a \in Asset : a = Media!Own(w)
      BY <2>1
    <3>2. ASSUME NEW s \in {"absent", "pending", "stored", "processing", "ready", "failed"},
                 row' = [row EXCEPT ![a].status = s]
          PROVE  row' \in [Asset -> Assets]
      BY <1>1, <3>2, AssetRowTypes
    <3>3. ASSUME NEW s \in {"absent", "pending", "stored", "processing", "ready", "failed"},
    NEW t \in {"none", "some", "empty"},
                 row' = [row EXCEPT ![a].status = s, ![a].text = t]
          PROVE  row' \in [Asset -> Assets]
      BY <1>1, <3>3, AssetRowTypes
    <3>4. CASE row' = [row EXCEPT ![a].path = TRUE]
      BY <1>1, <3>4, AssetRowTypes
    <3>5. QED
      BY <1>10, <3>1, <3>2, <3>3, <3>4 DEF Media!MarkProcessing, Media!MarkReady, Media!StorePath,
         Media!Catch, Media!Outcomes
  <2>3. worker' \in [Workers -> RunOfAsset]
    BY <1>8, <1>10 DEF Media!MarkProcessing, Media!MarkReady, Media!StorePath, Media!Catch, Media!Trying
  <2>4. QED
    BY <1>1, <1>10, <2>2, <2>3 DEF Media!MarkProcessing, Media!MarkReady, Media!StorePath, Media!Catch,
       MediaTyped
<1>11. ASSUME NEW w \in Workers,
Media!Perceive(w) \/ Media!FetchAgain(w) \/ Media!StoreCopy(w) PROVE MediaTyped'
  <2>1. Media!Own(w) \in Asset
    BY <1>11, OwnTypes DEF Media!Perceive, Media!FetchAgain, Media!StoreCopy, Media!At, Runs
  <2>2. worker' \in [Workers -> RunOfAsset]
    BY <1>8, <1>11 DEF Media!Perceive, Media!FetchAgain, Media!StoreCopy, Media!Trying
  <2>3. QED
    BY <1>1, <1>11, <2>1, <2>2 DEF Media!Perceive, Media!FetchAgain, Media!StoreCopy, Media!rows, MediaTyped
<1>12. ASSUME NEW w \in Workers,
Media!StoreRefused(w) \/ Media!CallFails(w) \/ Media!Crash(w) PROVE MediaTyped'
  <2>1. faults' \in 0..MaxFaults
    BY <1>1, <1>12, FaultTypes DEF Media!StoreRefused, Media!CallFails, Media!Crash, Media!Fault
  <2>2. worker' \in [Workers -> RunOfAsset]
    BY <1>1, <1>8, <1>12, LocalTypes, WorkerTypes DEF Media!StoreRefused, Media!CallFails, Media!Crash,
       Media!Trying
  <2>3. QED
    BY <1>1, <1>12, <2>1, <2>2 DEF Media!StoreRefused, Media!CallFails, Media!Crash, Media!rows, MediaTyped
<1>13. ASSUME NEW r \in Readers, NEW l \in Run, reader' = [reader EXCEPT ![r] = l],
              UNCHANGED <<Media!rows, request, jobs, worker, faults>>
       PROVE  MediaTyped'
  BY <1>1, <1>13 DEF Media!rows, MediaTyped
<1>14. ASSUME NEW r \in Readers,
Media!StartWaiting(r) \/ Media!StopWaiting(r) \/ Media!WaitTimesOut(r) \/ Media!BuildInput(r)
       PROVE  MediaTyped'
  <2>1. reader[r] \in Run
    BY <1>1 DEF MediaTyped
  <2>2. ASSUME NEW pc \in {"wait", "build", "done"}
        PROVE  /\ [reader[r] EXCEPT !.pc = pc] \in Run
               /\ [[reader[r] EXCEPT !.pc = pc] EXCEPT !.late = TRUE] \in Run
               /\ \A got \in [Media!Attached -> {"nothing", "file", "text", "no text", "name"}] :
                    [[reader[r] EXCEPT !.pc = pc] EXCEPT !.got = got] \in Run
    BY <2>1 DEF Run
  <2>3. [a \in Media!Attached |-> Media!InputPart(a)] \in [Media!Attached -> {"nothing", "file", "text",
  "no text", "name"}]
    BY DEF Media!InputPart
  <2>4. CASE Media!StartWaiting(r) \/ Media!StopWaiting(r)
    <3>1. \E pc \in {"wait", "build"} : reader' = [reader EXCEPT ![r] = [reader[r] EXCEPT !.pc = pc]]
      BY <2>4 DEF Media!StartWaiting, Media!StopWaiting
    <3>2. QED
      BY <1>13, <2>2, <2>4, <3>1 DEF Media!StartWaiting, Media!StopWaiting
  <2>5. CASE Media!WaitTimesOut(r)
    <3>1. reader' = [reader EXCEPT ![r] = [[reader[r] EXCEPT !.pc = "build"] EXCEPT !.late = TRUE]]
      BY <1>1, <2>5 DEF Media!WaitTimesOut, MediaTyped, Run
    <3>2. QED
      BY <1>13, <2>2, <2>5, <3>1 DEF Media!WaitTimesOut
  <2>6. CASE Media!BuildInput(r)
    <3>1. PICK got \in [Media!Attached -> {"nothing", "file", "text", "no text", "name"}] :
            got = [a \in Media!Attached |-> Media!InputPart(a)]
      BY <2>3
    <3>2. reader' = [reader EXCEPT ![r] = [[reader[r] EXCEPT !.pc = "done"] EXCEPT !.got = got]]
      BY <1>1, <2>6, <3>1 DEF Media!BuildInput, MediaTyped, Run
    <3>3. QED
      BY <1>13, <2>2, <2>6, <3>2 DEF Media!BuildInput
  <2>7. QED
    BY <1>14, <2>4, <2>5, <2>6
<1>15. QED
  BY <1>2, <1>3, <1>4, <1>5, <1>6, <1>7, <1>9, <1>10, <1>11, <1>12, <1>14, TypedAsAWhole
  DEF Media!Next, Media!Step

-----------------------------------------------------------------------------
(* Steps on one asset.                                                     *)

AssetStays(b) ==
  /\ row'[b] = row[b] /\ request'[b] = request[b] /\ jobs'[b] = jobs[b]
  /\ b \in files' <=> b \in files
  /\ \A w \in Workers : Media!Own(w) = b \/ worker'[w].job = b => worker'[w] = worker[w]

\* The instance counts what the library counts.
LEMMA MediaFiniteSets ==
  ASSUME NEW S
  PROVE  (Media!IsFiniteSet(S) <=> IsFiniteSet(S)) /\ Media!Cardinality(S) = Cardinality(S)
<1>1. Media!IsFiniteSet(S) <=> IsFiniteSet(S)
  BY DEF Media!IsFiniteSet, IsFiniteSet
<1>2. Media!Cardinality(S) = Cardinality(S)
  BY DEF Media!Cardinality, Cardinality
<1>3. QED
  BY <1>1, <1>2

\* A step that leaves an asset, its job and its run alone.
LEMMA AssetFrame ==
  ASSUME MediaFits, Media!TypeOK, NEW b \in Asset, AssetInv(b), AssetStays(b),
         faults' \in Nat, faults' >= faults
  PROVE  AssetInv(b)' /\ (AtRisk(b)' => AtRisk(b))
<1>1. faults \in Nat /\ MaxAttempts \in Nat /\ MaxStalls \in Nat
  BY Counters
<1>2. \A w \in Workers : worker'[w].job = b <=> Media!Own(w) = b
  BY DEF AssetStays, Media!Own
<1>3. \A w \in Workers : Media!Own(w) = b => worker'[w] = worker[w]
  BY DEF AssetStays
<1>4. JobIsDue(b)' /\ RowIsDue(b)'
  BY DEF AssetInv, AssetStays, JobIsDue, RowIsDue
<1>5. faults' = 0 => faults = 0
  BY <1>1
<1>6. faults > 0 => faults' > 0
  BY <1>1
<1>7. RunIsDue(b)'
  BY <1>2, <1>3, <1>6 DEF AssetInv, AssetStays, RunIsDue, Media!Own
<1>8. AssetIsTold(b)'
  BY <1>6 DEF AssetInv, AssetStays, AssetIsTold
<1>9. (Broken(b)' <=> Broken(b)) /\ (IsGivenUp(b)' <=> IsGivenUp(b))
  BY <1>2, <1>3 DEF AssetStays, Broken, IsGivenUp, Media!Own
<1>10. CostIsPaid(b)'
  <2>1. Cost(b)' = Cost(b)
    BY <1>9 DEF Cost, One, AssetStays
  <2>2. Cost(b) \in Nat
    <3>1. jobs[b].attempts \in Nat /\ jobs[b].stalls \in Nat
      BY Counters
    <3>2. QED
      BY <3>1 DEF Cost, One
  <2>3. \A n \in Nat : n <= faults => n <= faults'
    BY <1>1
  <2>4. faults >= MaxAttempts \/ faults > MaxStalls => faults' >= MaxAttempts \/ faults' > MaxStalls
    BY <1>1
  <2>5. faults > 1 => faults' > 1
    BY <1>1
  <2>6. QED
    BY <2>1, <2>2, <2>3, <2>4, <2>5 DEF AssetInv, CostIsPaid, AssetStays, Media!Readable
<1>11. BrokenIsLate(b)'
  BY <1>2, <1>3, <1>9 DEF AssetInv, AssetStays, BrokenIsLate, Media!Own
<1>12. IsReadOnce(b)'
  BY <1>2, <1>3, <1>5 DEF AssetInv, AssetStays, IsReadOnce, Media!Readable, Media!Own
<1>13. AtRisk(b)' => AtRisk(b)
  BY <1>2, <1>3 DEF AssetStays, AtRisk, Attended, Media!Own
<1>14. QED
  BY <1>4, <1>7, <1>8, <1>10, <1>11, <1>12, <1>13 DEF AssetInv

\* A step on one asset: a failure puts no other one at risk.
LEMMA OneAsset ==
  ASSUME MediaFits, MediaInv, Media!TypeOK', NEW a \in Asset,
         \A b \in Asset \ {a} : AssetStays(b), AssetInv(a)',
         \/ faults' = faults /\ (a \in Media!Processable /\ AtRisk(a)' => AtRisk(a))
         \/ faults' = faults + 1
  PROVE  (\A b \in Asset : AssetInv(b)') /\ RisksAreCounted'
<1>1. faults \in Nat /\ faults' \in Nat /\ faults' >= faults
  <2>1. faults \in Nat
    BY Counters DEF MediaInv
  <2>2. QED
    BY <2>1
<1>2. \A b \in Asset \ {a} : AssetInv(b)' /\ (AtRisk(b)' => AtRisk(b))
  BY <1>1, AssetFrame DEF MediaInv
<1>3. PICK S : S = {b \in Media!Processable : AtRisk(b)}
  OBVIOUS
<1>4. PICK T : T = {b \in Media!Processable : AtRisk(b)'}
  OBVIOUS
<1>5. IsFiniteSet(S) /\ Cardinality(S) <= faults
  <2>1. S \subseteq Asset /\ IsFiniteSet(Asset)
    BY <1>3, MediaFiniteSets DEF Media!Processable, MediaFits, Media!MediaAssumption
  <2>2. QED
    BY <1>3, <2>1, FS_Subset DEF MediaInv, RisksAreCounted
<1>6. T \subseteq S \cup {a} /\ (faults' = faults => T \subseteq S)
  BY <1>1, <1>2, <1>3, <1>4 DEF Media!Processable
<1>7. Cardinality(S) \in Nat
  BY <1>5, FS_CardinalityType
<1>8. Cardinality(T) <= faults'
  <2>1. CASE T \subseteq S
    <3>1. IsFiniteSet(T) /\ Cardinality(T) <= Cardinality(S)
      BY <1>5, <2>1, FS_Subset
    <3>2. Cardinality(T) \in Nat
      BY <3>1, FS_CardinalityType
    <3>3. QED
      BY <1>1, <1>5, <1>7, <3>1, <3>2
  <2>2. CASE faults' = faults + 1 /\ a \notin S
    <3>1. IsFiniteSet(S \cup {a}) /\ Cardinality(S \cup {a}) = Cardinality(S) + 1
      BY <1>5, <2>2, FS_AddElement
    <3>2. IsFiniteSet(T) /\ Cardinality(T) <= Cardinality(S \cup {a})
      BY <1>6, <3>1, FS_Subset
    <3>3. Cardinality(T) \in Nat
      BY <3>2, FS_CardinalityType
    <3>4. QED
      BY <1>1, <1>5, <1>7, <2>2, <3>1, <3>2, <3>3
  <2>3. QED
    BY <1>1, <1>6, <2>1, <2>2
<1>9. QED
  BY <1>2, <1>4, <1>8 DEF RisksAreCounted

\* A step of a run that goes on.
RunGoesOn(w, a) ==
  /\ Runs(w) /\ a = Media!Own(w)
  /\ UNCHANGED <<request, jobs>>
  /\ worker' = [worker EXCEPT ![w] = worker'[w]]
  /\ worker'[w].job = a /\ worker'[w].pc # "idle"

LEMMA RunMoves ==
  ASSUME MediaInv, Media!TypeOK', NEW w \in Workers, NEW a, RunGoesOn(w, a)
  PROVE  /\ MediaRuns' /\ a \in Asset
         /\ \A v \in Workers : (worker'[v].job = a) <=> (v = w)
         /\ \A v \in Workers : (Media!Own(v) = a) <=> (v = w)
         /\ \A b \in Asset \ {a}, v \in Workers :
              Media!Own(v) = b \/ worker'[v].job = b => worker'[v] = worker[v]
<1>1. worker \in [Workers -> RunOfAsset] /\ worker' = [worker EXCEPT ![w] = worker'[w]]
  BY TypedAsAWhole DEF MediaInv, MediaTyped, RunGoesOn
<1>2. MediaRuns
  BY DEF MediaInv
<1>3. a \in Asset /\ \A v \in Workers : (Media!Own(v) = a) <=> (v = w)
  BY <1>2 DEF MediaRuns, RunGoesOn
<1>4. \A v \in Workers : v # w => worker'[v] = worker[v]
  BY <1>1
<1>5. \A v \in Workers : worker'[v].job = Media!Own(v)
  BY <1>4 DEF Media!Own, RunGoesOn
<1>6. \A v \in Workers : (worker'[v].pc # "idle") <=> Runs(v)
  BY <1>4 DEF Runs, RunGoesOn
<1>7. jobs' = jobs
  BY DEF RunGoesOn
<1>8. MediaRuns'
  BY <1>2, <1>5, <1>6, <1>7 DEF MediaRuns, Media!Own, Runs
<1>9. \A v \in Workers : (worker'[v].job = a) <=> (v = w)
  BY <1>3, <1>5
<1>10. \A b \in Asset \ {a}, v \in Workers :
         Media!Own(v) = b \/ worker'[v].job = b => worker'[v] = worker[v]
  BY <1>3, <1>4, <1>5
<1>11. QED
  BY <1>3, <1>8, <1>9, <1>10

\* Where a step leads to.
LEMMA RunGoes ==
  ASSUME MediaFits, MediaInv, Media!TypeOK', NEW w \in Workers, Runs(w), NEW a, a = Media!Own(w),
         UNCHANGED <<request, jobs>>,
         NEW pc \in Media!Trying \cup {"mark", "catch", "settle"}, Media!Goto(w, pc) \/ Media!Fails(w, pc)
  PROVE  /\ RunGoesOn(w, a) /\ worker'[w].pc = pc /\ worker'[w].path = worker[w].path
         /\ Media!Goto(w, pc) => worker'[w].outcome = worker[w].outcome
         /\ Media!Fails(w, pc) => worker'[w].outcome = "error"
<1>1. worker \in [Workers -> RunOfAsset]
  BY TypedAsAWhole DEF MediaInv, MediaTyped
<1>2. PICK l : \/ l = [worker[w] EXCEPT !.pc = pc] /\ Media!Goto(w, pc)
               \/ l = [worker[w] EXCEPT !.pc = pc, !.outcome = "error"] /\ Media!Fails(w, pc)
  OBVIOUS
<1>3. l.pc = pc /\ l.job = worker[w].job /\ l.path = worker[w].path
  BY <1>1, <1>2 DEF RunOfAsset
<1>4. worker' = [worker EXCEPT ![w] = l]
  BY <1>2 DEF Media!Goto, Media!Fails, Media!Becomes
<1>5. worker'[w] = l
  BY <1>1, <1>4
<1>6. RunGoesOn(w, a)
  <2>1. pc # "idle"
    BY DEF Media!Trying
  <2>2. worker' = [worker EXCEPT ![w] = worker'[w]]
    BY <1>4, <1>5
  <2>3. worker'[w].job = a /\ worker'[w].pc # "idle"
    BY <1>3, <1>5, <2>1 DEF Media!Own
  <2>4. QED
    BY <2>2, <2>3 DEF RunGoesOn
<1>7. ASSUME Media!Goto(w, pc) PROVE worker'[w].outcome = worker[w].outcome
  <2>1. worker'[w] = [worker[w] EXCEPT !.pc = pc]
    BY <1>1, <1>7 DEF Media!Goto, Media!Becomes
  <2>2. QED
    BY <1>1, <2>1 DEF RunOfAsset
<1>8. ASSUME Media!Fails(w, pc) PROVE worker'[w].outcome = "error"
  <2>1. worker'[w] = [worker[w] EXCEPT !.pc = pc, !.outcome = "error"]
    BY <1>1, <1>8 DEF Media!Fails, Media!Becomes
  <2>2. QED
    BY <1>1, <2>1 DEF RunOfAsset
<1>9. QED
  BY <1>3, <1>5, <1>6, <1>7, <1>8

\* What is known of the run of an asset before a step.
LEMMA RunKnows ==
  ASSUME MediaFits, MediaInv, NEW w \in Workers, Runs(w), NEW a, a = Media!Own(w)
  PROVE  /\ a \in Asset /\ AssetInv(a) /\ jobs[a].state = "active" /\ request[a] = "done"
         /\ worker[w] \in RunOfAsset /\ row[a] \in Assets /\ faults \in Nat
         /\ row \in [Asset -> Assets] /\ worker \in [Workers -> RunOfAsset]
BY TypedAsAWhole, Counters DEF MediaInv, MediaRuns, AssetInv, JobIsDue, MediaTyped

\* What a step of a run may cost.
LEMMA RunCosts ==
  ASSUME MediaFits, MediaInv, Media!TypeOK', NEW w \in Workers, NEW a, RunGoesOn(w, a),
         faults' = faults \/ faults' = faults + 1,
         Media!Readable(a) /\ ~(Storage = "local" /\ faults' > 1) =>
           One(worker'[w].outcome = "error") + One(Broken(a)') + faults
             <= One(worker[w].outcome = "error") + One(Broken(a)) + faults'
  PROVE  CostIsPaid(a)'
<1>0. /\ Runs(w) /\ a = Media!Own(w) /\ jobs' = jobs /\ a \in Asset
      /\ \A v \in Workers : (worker'[v].job = a) <=> (v = w)
      /\ \A v \in Workers : (Media!Own(v) = a) <=> (v = w)
  BY RunMoves DEF RunGoesOn
<1>1. faults \in Nat /\ faults' \in Nat /\ faults' >= faults
  BY Counters DEF MediaInv
<1>11. jobs[a].attempts \in Nat /\ jobs[a].stalls \in Nat
  BY <1>0, Counters DEF MediaInv
<1>2. jobs[a].state = "active" /\ CostIsPaid(a)
  BY <1>0, RunKnows DEF AssetInv
<1>3. IsGivenUp(a) <=> worker[w].outcome = "error"
  BY <1>0, <1>2 DEF IsGivenUp, Media!Own
<1>4. IsGivenUp(a)' <=> worker'[w].outcome = "error"
  BY <1>0, <1>2 DEF IsGivenUp, Media!Own
<1>5. ASSUME Media!Readable(a), ~(Storage = "local" /\ faults' > 1) PROVE Cost(a)' <= faults'
  <2>1. ~(Storage = "local" /\ faults > 1)
    BY <1>1, <1>5
  <2>2. Cost(a) <= faults
    BY <1>2, <1>5, <2>1 DEF CostIsPaid
  <2>3. PICK p \in Nat, q \in Nat, r \in Nat, s \in Nat :
          /\ p = One(worker[w].outcome = "error") /\ q = One(Broken(a))
          /\ r = One(worker'[w].outcome = "error") /\ s = One(Broken(a)')
    BY DEF One
  <2>4. Cost(a) = jobs[a].attempts + jobs[a].stalls + p + q
    BY <1>3, <2>3 DEF Cost, One
  <2>5. Cost(a)' = jobs[a].attempts + jobs[a].stalls + r + s
    BY <1>0, <1>4, <2>3 DEF Cost, One
  <2>6. r + s + faults <= p + q + faults'
    BY <1>5, <2>3
  <2>7. PICK c, d : c = Cost(a) /\ d = Cost(a)'
    OBVIOUS
  <2>8. /\ c <= faults /\ c = jobs[a].attempts + jobs[a].stalls + p + q
        /\ d = jobs[a].attempts + jobs[a].stalls + r + s
    BY <2>2, <2>4, <2>5, <2>7
  <2>9. d <= faults'
    BY <1>1, <1>11, <2>6, <2>8
  <2>10. QED
    BY <2>7, <2>9
<1>6. QED
  BY <1>0, <1>2, <1>5 DEF CostIsPaid, Media!Readable

\* What is left to show for a step of a run.
LEMMA RunStepKeeps ==
  ASSUME MediaFits, MediaInv, Media!TypeOK', NEW w \in Workers, NEW a, RunGoesOn(w, a),
         \A b \in Asset \ {a} : row'[b] = row[b] /\ (b \in files' <=> b \in files),
         RowIsDue(a)', RunIsDue(a)', AssetIsTold(a)', CostIsPaid(a)', BrokenIsLate(a)', IsReadOnce(a)',
         \/ faults' = faults /\ (a \in Media!Processable /\ AtRisk(a)' => AtRisk(a))
         \/ faults' = faults + 1
  PROVE  MediaRuns' /\ (\A b \in Asset : AssetInv(b)') /\ RisksAreCounted'
<1>1. a \in Asset /\ AssetInv(a) /\ UNCHANGED <<request, jobs>>
  BY RunKnows DEF RunGoesOn
<1>2. /\ MediaRuns'
      /\ \A b \in Asset \ {a}, v \in Workers :
              Media!Own(v) = b \/ worker'[v].job = b => worker'[v] = worker[v]
  BY RunMoves
<1>3. JobIsDue(a)'
  BY <1>1 DEF AssetInv, JobIsDue
<1>4. \A b \in Asset \ {a} : AssetStays(b)
  BY <1>1, <1>2 DEF AssetStays
<1>5. AssetInv(a)'
  BY <1>3 DEF AssetInv
<1>6. QED
  BY <1>1, <1>2, <1>4, <1>5, OneAsset

\* A step of a run that changes its place only, or its knowledge of the path.
LEMMA FindAssetKeeps ==
  ASSUME MediaFits, MediaInv, Media!TypeOK', NEW w \in Workers, Media!FindAsset(w)
  PROVE  MediaRuns' /\ (\A b \in Asset : AssetInv(b)') /\ RisksAreCounted'
<1>1. PICK a : a = Media!Own(w)
  OBVIOUS
<1>2. Runs(w) /\ worker[w].pc = "find"
  BY DEF Media!FindAsset, Media!At, Runs
<1>3. /\ a \in Asset /\ AssetInv(a) /\ jobs[a].state = "active" /\ request[a] = "done"
      /\ worker[w] \in RunOfAsset /\ row[a] \in Assets /\ faults \in Nat /\ worker \in [Workers -> RunOfAsset]
  BY <1>1, <1>2, RunKnows
<1>4. PICK l : /\ l = [worker[w] EXCEPT !.pc = "mark", !.path = row[a].path] /\ Media!Becomes(w, l)
  BY <1>1 DEF Media!FindAsset
<1>5. l.pc = "mark" /\ l.job = a /\ l.path = row[a].path /\ l.outcome = worker[w].outcome
  BY <1>1, <1>3, <1>4 DEF RunOfAsset, Media!Own
<1>6. UNCHANGED <<row, files, request, jobs, faults>>
  BY DEF Media!FindAsset, Media!rows
<1>7. RunGoesOn(w, a) /\ worker'[w] = l
  <2>1. worker' = [worker EXCEPT ![w] = l] /\ worker'[w] = l
    BY <1>3, <1>4 DEF Media!Becomes
  <2>2. QED
    BY <1>1, <1>2, <1>5, <1>6, <2>1 DEF RunGoesOn
<1>8. /\ \A v \in Workers : (worker'[v].job = a) <=> (v = w)
      /\ \A v \in Workers : (Media!Own(v) = a) <=> (v = w)
  BY <1>7, RunMoves
<1>9. worker[w].outcome = "ok"
  BY <1>2, <1>3, <1>8 DEF AssetInv, RunIsDue, RunOfAsset
<1>10. RowIsDue(a)' /\ AssetIsTold(a)'
  BY <1>3, <1>6 DEF AssetInv, RowIsDue, IsRegistered, AssetIsTold
<1>11. RunIsDue(a)'
  BY <1>3, <1>5, <1>6, <1>7, <1>8, <1>9 DEF AssetInv, RowIsDue, RunIsDue, Media!Own, HasRead
<1>12. Broken(a)' <=> Broken(a)
  BY <1>2, <1>5, <1>6, <1>7, <1>8 DEF Broken, Media!Own
<1>13. CostIsPaid(a)'
  BY <1>3, <1>5, <1>6, <1>7, <1>12, RunCosts DEF One
<1>14. BrokenIsLate(a)' /\ IsReadOnce(a)'
  BY <1>2, <1>3, <1>5, <1>6, <1>7, <1>8, <1>12
  DEF AssetInv, BrokenIsLate, IsReadOnce, Media!Own, HasRead, Media!Readable
<1>15. AtRisk(a)' => AtRisk(a)
  BY <1>2, <1>5, <1>6, <1>7, <1>8 DEF AtRisk, Attended, Media!Own
<1>16. QED
  BY <1>6, <1>7, <1>10, <1>11, <1>13, <1>14, <1>15, RunStepKeeps

LEMMA MarkProcessingKeeps ==
  ASSUME MediaFits, MediaInv, Media!TypeOK', NEW w \in Workers, Media!MarkProcessing(w)
  PROVE  MediaRuns' /\ (\A b \in Asset : AssetInv(b)') /\ RisksAreCounted'
<1>1. PICK a : a = Media!Own(w)
  OBVIOUS
<1>2. Runs(w) /\ worker[w].pc = "mark"
  BY DEF Media!MarkProcessing, Media!At, Runs, Media!Trying
<1>3. /\ a \in Asset /\ AssetInv(a) /\ jobs[a].state = "active" /\ request[a] = "done"
      /\ worker[w] \in RunOfAsset /\ row[a] \in Assets /\ faults \in Nat
      /\ row \in [Asset -> Assets] /\ worker \in [Workers -> RunOfAsset]
  BY <1>1, <1>2, RunKnows
<1>4. /\ UNCHANGED <<files, request, jobs, faults>> /\ Media!Goto(w, "perceive")
      /\ row' = [row EXCEPT ![a].status = "processing"]
  BY <1>1 DEF Media!MarkProcessing
<1>5. /\ RunGoesOn(w, a) /\ worker'[w].pc = "perceive" /\ worker'[w].path = worker[w].path
      /\ worker'[w].outcome = worker[w].outcome
  BY <1>1, <1>2, <1>4, RunGoes DEF Media!Trying
<1>6. /\ \A v \in Workers : (worker'[v].job = a) <=> (v = w)
      /\ \A v \in Workers : (Media!Own(v) = a) <=> (v = w)
  BY <1>5, RunMoves
<1>7. /\ row'[a].status = "processing" /\ row'[a].path = row[a].path /\ row'[a].text = row[a].text
      /\ \A b \in Asset \ {a} : row'[b] = row[b]
  BY <1>3, <1>4 DEF Assets
<1>8. worker[w].outcome = "ok"
  BY <1>2, <1>3, <1>6 DEF AssetInv, RunIsDue, RunOfAsset
<1>9. RowIsDue(a)' /\ AssetIsTold(a)'
  BY <1>3, <1>4, <1>7 DEF AssetInv, RowIsDue, IsRegistered, AssetIsTold
<1>10. RunIsDue(a)'
  BY <1>2, <1>3, <1>4, <1>5, <1>6, <1>7, <1>8 DEF AssetInv, RunIsDue, Media!Own, HasRead, IsRegistered
<1>11. Broken(a)' <=> Broken(a)
  BY <1>2, <1>4, <1>5, <1>6, <1>7 DEF Broken, Media!Own
<1>12. CostIsPaid(a)'
  BY <1>3, <1>4, <1>5, <1>11, RunCosts DEF One
<1>13. BrokenIsLate(a)' /\ IsReadOnce(a)'
  BY <1>2, <1>3, <1>4, <1>5, <1>6, <1>7, <1>11
  DEF AssetInv, BrokenIsLate, IsReadOnce, Media!Own, HasRead, Media!Readable
<1>14. ~AtRisk(a)'
  BY <1>5, <1>6 DEF AtRisk, Attended, Media!Own, Media!Trying
<1>15. QED
  BY <1>4, <1>5, <1>7, <1>9, <1>10, <1>12, <1>13, <1>14, RunStepKeeps

\* What can be read is read: only a failure before, or a path to nothing, prevents it.
LEMMA PerceiveKeeps ==
  ASSUME MediaFits, MediaInv, Media!TypeOK', NEW w \in Workers, Media!Perceive(w)
  PROVE  MediaRuns' /\ (\A b \in Asset : AssetInv(b)') /\ RisksAreCounted'
<1>1. PICK a : a = Media!Own(w)
  OBVIOUS
<1>2. Runs(w) /\ worker[w].pc = "perceive"
  BY DEF Media!Perceive, Media!At, Runs, Media!Trying
<1>3. /\ a \in Asset /\ AssetInv(a) /\ jobs[a].state = "active" /\ request[a] = "done"
      /\ worker[w] \in RunOfAsset /\ row[a] \in Assets /\ faults \in Nat
      /\ row \in [Asset -> Assets] /\ worker \in [Workers -> RunOfAsset]
  BY <1>1, <1>2, RunKnows
<1>4. /\ UNCHANGED <<row, files, request, jobs, faults>>
      /\ IF Media!HasKey(w) /\ Media!Loadable(w) THEN Media!Goto(w, "ready") ELSE Media!Fails(w, "catch")
  BY DEF Media!Perceive, Media!rows
<1>5. PICK pc \in {"ready", "catch"} :
        /\ pc = "ready" <=> Media!HasKey(w) /\ Media!Loadable(w)
        /\ IF pc = "ready" THEN Media!Goto(w, pc) ELSE Media!Fails(w, pc)
  BY <1>4
<1>51. /\ RunGoesOn(w, a) /\ worker'[w].pc = pc /\ worker'[w].path = worker[w].path
       /\ worker'[w].outcome = IF pc = "ready" THEN worker[w].outcome ELSE "error"
  BY <1>1, <1>2, <1>4, <1>5, RunGoes DEF Media!Trying
<1>6. /\ \A v \in Workers : (worker'[v].job = a) <=> (v = w)
      /\ \A v \in Workers : (Media!Own(v) = a) <=> (v = w)
  BY <1>51, RunMoves
<1>8. worker[w].outcome = "ok" /\ (IsRegistered(a) => worker[w].path)
  BY <1>2, <1>3, <1>6 DEF AssetInv, RunIsDue, RunOfAsset
<1>9. RowIsDue(a)' /\ AssetIsTold(a)'
  BY <1>3, <1>4 DEF AssetInv, RowIsDue, IsRegistered, AssetIsTold
<1>10. RunIsDue(a)'
  BY <1>2, <1>3, <1>4, <1>5, <1>51, <1>6, <1>8 DEF AssetInv, RunIsDue, Media!Own, HasRead, IsRegistered
<1>11. Broken(a)' <=> Broken(a)
  BY <1>2, <1>4, <1>5, <1>51, <1>6 DEF Broken, Media!Own
<1>12. Broken(a) => jobs[a].attempts + jobs[a].stalls > 0 /\ Storage = "local" /\ faults > 0
  BY <1>2, <1>3, <1>6 DEF AssetInv, BrokenIsLate, Broken, AssetIsTold, Media!Own
<1>13. ASSUME Media!Readable(a), ~(Storage = "local" /\ faults > 1) PROVE pc = "ready"
  <2>1. ~Broken(a)
    <3>1. SUFFICES ASSUME Broken(a) PROVE FALSE
      OBVIOUS
    <3>2. Cost(a) <= faults /\ ~(faults > 1)
      BY <1>3, <1>12, <1>13, <3>1 DEF AssetInv, CostIsPaid
    <3>3. jobs[a].attempts \in Nat /\ jobs[a].stalls \in Nat
      BY <1>3, Counters DEF MediaInv
    <3>4. Cost(a) >= jobs[a].attempts + jobs[a].stalls + 1
      BY <3>1, <3>3 DEF Cost, One
    <3>5. jobs[a].attempts + jobs[a].stalls > 0
      BY <1>12, <3>1
    <3>6. PICK c : c = Cost(a)
      OBVIOUS
    <3>7. c <= faults /\ ~(faults > 1) /\ c >= jobs[a].attempts + jobs[a].stalls + 1
      BY <3>2, <3>4, <3>6
    <3>8. c \in Nat
      BY <3>3, <3>6 DEF Cost, One
    <3>9. QED
      BY <1>3, <3>3, <3>5, <3>7, <3>8
  <2>2. Media!HasKey(w)
    BY <1>1, <1>13 DEF Media!Readable, Media!HasKey
  <2>3. CASE worker[w].path
    <3>1. row[a].path
      BY <1>3, <1>6, <2>3 DEF AssetInv, RunIsDue
    <3>2. a \in files
      BY <2>1, <3>1 DEF Broken
    <3>3. Storage # "none"
      BY <1>3, <1>13, <3>1 DEF AssetInv, RowIsDue, Media!Readable, IsRegistered
    <3>4. QED
      BY <1>1, <1>5, <2>2, <2>3, <3>2, <3>3 DEF Media!Loadable
  <2>4. CASE ~worker[w].path
    BY <1>1, <1>5, <1>8, <1>13, <2>2, <2>4 DEF Media!Loadable, IsRegistered, Media!Readable
  <2>5. QED
    BY <2>3, <2>4
<1>14. CostIsPaid(a)'
  <2>1. ASSUME Media!Readable(a), ~(Storage = "local" /\ faults' > 1)
        PROVE  One(worker'[w].outcome = "error") = One(worker[w].outcome = "error")
    BY <1>4, <1>13, <1>51, <2>1
  <2>2. One(Broken(a)') = One(Broken(a)) /\ One(Broken(a)) \in Nat
        /\ One(worker[w].outcome = "error") \in Nat
    BY <1>11 DEF One
  <2>3. Media!Readable(a) /\ ~(Storage = "local" /\ faults' > 1) =>
           One(worker'[w].outcome = "error") + One(Broken(a)') + faults
             <= One(worker[w].outcome = "error") + One(Broken(a)) + faults'
    <3>1. faults' = faults
      BY <1>4
    <3>2. QED
      BY <1>3, <2>1, <2>2, <3>1
  <2>4. QED
    BY <1>4, <1>51, <2>3, RunCosts
<1>15. BrokenIsLate(a)' /\ IsReadOnce(a)'
  BY <1>2, <1>3, <1>4, <1>51, <1>6, <1>11, <1>12
  DEF AssetInv, BrokenIsLate, IsReadOnce, Media!Own, HasRead, Media!Readable
<1>16. AtRisk(a)' => AtRisk(a)
  BY <1>2, <1>4, <1>5, <1>51, <1>6 DEF AtRisk, Attended, Media!Own, Media!Trying
<1>17. QED
  BY <1>4, <1>51, <1>9, <1>10, <1>14, <1>15, <1>16, RunStepKeeps

LEMMA MarkReadyKeeps ==
  ASSUME MediaFits, MediaInv, Media!TypeOK', NEW w \in Workers, Media!MarkReady(w)
  PROVE  MediaRuns' /\ (\A b \in Asset : AssetInv(b)') /\ RisksAreCounted'
<1>1. PICK a : a = Media!Own(w)
  OBVIOUS
<1>2. Runs(w) /\ worker[w].pc = "ready"
  BY DEF Media!MarkReady, Media!At, Runs, Media!Trying
<1>3. /\ a \in Asset /\ AssetInv(a) /\ jobs[a].state = "active" /\ request[a] = "done"
      /\ worker[w] \in RunOfAsset /\ row[a] \in Assets /\ faults \in Nat
      /\ row \in [Asset -> Assets] /\ worker \in [Workers -> RunOfAsset]
  BY <1>1, <1>2, RunKnows
<1>4. PICK text \in Media!Outcomes, pc \in {"settle", "fetch"} :
        /\ row' = [row EXCEPT ![a].status = "ready", ![a].text = text]
        /\ Media!Goto(w, pc) /\ (pc = "fetch" => ~worker[w].path)
        /\ UNCHANGED <<files, request, jobs, faults>>
  BY <1>1 DEF Media!MarkReady
<1>5. /\ RunGoesOn(w, a) /\ worker'[w].pc = pc /\ worker'[w].path = worker[w].path
      /\ worker'[w].outcome = worker[w].outcome
  BY <1>1, <1>2, <1>4, RunGoes DEF Media!Trying
<1>6. /\ \A v \in Workers : (worker'[v].job = a) <=> (v = w)
      /\ \A v \in Workers : (Media!Own(v) = a) <=> (v = w)
  BY <1>5, RunMoves
<1>7. /\ row'[a].status = "ready" /\ row'[a].path = row[a].path /\ row'[a].text # "none"
      /\ \A b \in Asset \ {a} : row'[b] = row[b]
  BY <1>3, <1>4 DEF Assets, Media!Outcomes
<1>8. worker[w].outcome = "ok" /\ (pc = "fetch" => ~IsRegistered(a))
  BY <1>2, <1>3, <1>4, <1>6 DEF AssetInv, RunIsDue, RunOfAsset
<1>9. RowIsDue(a)' /\ AssetIsTold(a)'
  BY <1>3, <1>4, <1>7 DEF AssetInv, RowIsDue, IsRegistered, AssetIsTold
<1>10. RunIsDue(a)'
  BY <1>2, <1>3, <1>4, <1>5, <1>6, <1>7, <1>8 DEF AssetInv, RunIsDue, Media!Own, HasRead, IsRegistered
<1>11. Broken(a)' <=> Broken(a)
  BY <1>2, <1>4, <1>5, <1>6, <1>7 DEF Broken, Media!Own
<1>12. CostIsPaid(a)'
  BY <1>3, <1>4, <1>5, <1>11, RunCosts DEF One
<1>13. BrokenIsLate(a)' /\ IsReadOnce(a)'
  BY <1>2, <1>3, <1>4, <1>5, <1>6, <1>7, <1>8, <1>11
  DEF AssetInv, BrokenIsLate, IsReadOnce, Media!Own, HasRead, Media!Readable
<1>14. ~AtRisk(a)'
  BY <1>7 DEF AtRisk, Media!Unfinished
<1>15. QED
  BY <1>4, <1>5, <1>7, <1>9, <1>10, <1>12, <1>13, <1>14, RunStepKeeps

LEMMA FetchAgainKeeps ==
  ASSUME MediaFits, MediaInv, Media!TypeOK', NEW w \in Workers, Media!FetchAgain(w)
  PROVE  MediaRuns' /\ (\A b \in Asset : AssetInv(b)') /\ RisksAreCounted'
<1>1. PICK a : a = Media!Own(w)
  OBVIOUS
<1>2. Runs(w) /\ worker[w].pc = "fetch"
  BY DEF Media!FetchAgain, Media!At, Runs, Media!Trying
<1>3. /\ a \in Asset /\ AssetInv(a) /\ jobs[a].state = "active" /\ request[a] = "done"
      /\ worker[w] \in RunOfAsset /\ row[a] \in Assets /\ faults \in Nat
      /\ row \in [Asset -> Assets] /\ worker \in [Workers -> RunOfAsset]
  BY <1>1, <1>2, RunKnows
<1>4. PICK pc \in {"settle", "upload"} :
        /\ Media!Goto(w, pc) /\ (pc = "upload" => Storage # "none")
        /\ UNCHANGED <<row, files, request, jobs, faults>>
  BY DEF Media!FetchAgain, Media!rows
<1>5. /\ RunGoesOn(w, a) /\ worker'[w].pc = pc /\ worker'[w].path = worker[w].path
      /\ worker'[w].outcome = worker[w].outcome
  BY <1>1, <1>2, <1>4, RunGoes DEF Media!Trying
<1>6. /\ \A v \in Workers : (worker'[v].job = a) <=> (v = w)
      /\ \A v \in Workers : (Media!Own(v) = a) <=> (v = w)
  BY <1>5, RunMoves
<1>7. worker[w].outcome = "ok" /\ row[a].status = "ready" /\ row[a].text # "none" /\ ~IsRegistered(a)
  BY <1>2, <1>3, <1>6 DEF AssetInv, RunIsDue, RunOfAsset, HasRead
<1>9. RowIsDue(a)' /\ AssetIsTold(a)'
  BY <1>3, <1>4, <1>7 DEF AssetInv, RowIsDue, IsRegistered, AssetIsTold
<1>10. RunIsDue(a)'
  BY <1>2, <1>3, <1>4, <1>5, <1>6, <1>7 DEF AssetInv, RunIsDue, Media!Own, HasRead, IsRegistered
<1>11. Broken(a)' <=> Broken(a)
  BY <1>2, <1>4, <1>5, <1>6, <1>7 DEF Broken, Media!Own
<1>12. CostIsPaid(a)'
  BY <1>3, <1>4, <1>5, <1>11, RunCosts DEF One
<1>13. BrokenIsLate(a)' /\ IsReadOnce(a)'
  BY <1>2, <1>3, <1>4, <1>5, <1>6, <1>7, <1>11
  DEF AssetInv, BrokenIsLate, IsReadOnce, Media!Own, HasRead, Media!Readable
<1>14. ~AtRisk(a)'
  BY <1>4, <1>7 DEF AtRisk, Media!Unfinished
<1>15. QED
  BY <1>4, <1>5, <1>9, <1>10, <1>12, <1>13, <1>14, RunStepKeeps

LEMMA StoreCopyKeeps ==
  ASSUME MediaFits, MediaInv, Media!TypeOK', NEW w \in Workers, Media!StoreCopy(w)
  PROVE  MediaRuns' /\ (\A b \in Asset : AssetInv(b)') /\ RisksAreCounted'
<1>1. PICK a : a = Media!Own(w)
  OBVIOUS
<1>2. Runs(w) /\ worker[w].pc = "upload"
  BY DEF Media!StoreCopy, Media!At, Runs, Media!Trying
<1>3. /\ a \in Asset /\ AssetInv(a) /\ jobs[a].state = "active" /\ request[a] = "done"
      /\ worker[w] \in RunOfAsset /\ row[a] \in Assets /\ faults \in Nat
      /\ row \in [Asset -> Assets] /\ worker \in [Workers -> RunOfAsset]
  BY <1>1, <1>2, RunKnows
<1>4. /\ Media!Goto(w, "path") /\ files' = files \cup {a}
      /\ UNCHANGED <<row, request, jobs, faults>>
  BY <1>1 DEF Media!StoreCopy
<1>5. /\ RunGoesOn(w, a) /\ worker'[w].pc = "path" /\ worker'[w].path = worker[w].path
      /\ worker'[w].outcome = worker[w].outcome
  BY <1>1, <1>2, <1>4, RunGoes DEF Media!Trying
<1>6. /\ \A v \in Workers : (worker'[v].job = a) <=> (v = w)
      /\ \A v \in Workers : (Media!Own(v) = a) <=> (v = w)
  BY <1>5, RunMoves
<1>7. worker[w].outcome = "ok" /\ row[a].status = "ready" /\ row[a].text # "none" /\ ~IsRegistered(a)
      /\ Storage # "none"
  BY <1>2, <1>3, <1>6 DEF AssetInv, RunIsDue, RunOfAsset, HasRead
<1>9. RowIsDue(a)' /\ AssetIsTold(a)'
  BY <1>3, <1>4, <1>7 DEF AssetInv, RowIsDue, IsRegistered, AssetIsTold
<1>10. RunIsDue(a)'
  BY <1>2, <1>3, <1>4, <1>5, <1>6, <1>7 DEF AssetInv, RunIsDue, Media!Own, HasRead, IsRegistered
<1>11. ~Broken(a)'
  BY <1>4 DEF Broken
<1>12. CostIsPaid(a)'
  BY <1>3, <1>4, <1>5, <1>11, RunCosts DEF One
<1>13. BrokenIsLate(a)' /\ IsReadOnce(a)'
  BY <1>2, <1>3, <1>4, <1>5, <1>6, <1>7, <1>11
  DEF AssetInv, BrokenIsLate, IsReadOnce, Media!Own, HasRead, Media!Readable
<1>14. ~AtRisk(a)'
  BY <1>4, <1>7 DEF AtRisk, Media!Unfinished
<1>15. QED
  BY <1>4, <1>5, <1>9, <1>10, <1>12, <1>13, <1>14, RunStepKeeps

LEMMA StoreRefusedKeeps ==
  ASSUME MediaFits, MediaInv, Media!TypeOK', NEW w \in Workers, Media!StoreRefused(w)
  PROVE  MediaRuns' /\ (\A b \in Asset : AssetInv(b)') /\ RisksAreCounted'
<1>1. PICK a : a = Media!Own(w)
  OBVIOUS
<1>2. Runs(w) /\ worker[w].pc = "upload"
  BY DEF Media!StoreRefused, Media!At, Runs, Media!Trying
<1>3. /\ a \in Asset /\ AssetInv(a) /\ jobs[a].state = "active" /\ request[a] = "done"
      /\ worker[w] \in RunOfAsset /\ row[a] \in Assets /\ faults \in Nat
      /\ row \in [Asset -> Assets] /\ worker \in [Workers -> RunOfAsset]
  BY <1>1, <1>2, RunKnows
<1>4. PICK pc \in {"settle", "path"} :
        /\ Media!Goto(w, pc) /\ (pc = "path" => Storage = "local")
        /\ UNCHANGED <<row, files, request, jobs>> /\ faults' = faults + 1
  BY DEF Media!StoreRefused, Media!rows
<1>5. /\ RunGoesOn(w, a) /\ worker'[w].pc = pc /\ worker'[w].path = worker[w].path
      /\ worker'[w].outcome = worker[w].outcome
  BY <1>1, <1>2, <1>4, RunGoes DEF Media!Trying
<1>6. /\ \A v \in Workers : (worker'[v].job = a) <=> (v = w)
      /\ \A v \in Workers : (Media!Own(v) = a) <=> (v = w)
  BY <1>5, RunMoves
<1>7. worker[w].outcome = "ok" /\ row[a].status = "ready" /\ row[a].text # "none" /\ ~IsRegistered(a)
      /\ Storage # "none"
  BY <1>2, <1>3, <1>6 DEF AssetInv, RunIsDue, RunOfAsset, HasRead
<1>8. faults' \in Nat /\ faults' > 0
  BY <1>3, <1>4
<1>9. RowIsDue(a)' /\ AssetIsTold(a)'
  BY <1>3, <1>4, <1>7, <1>8 DEF AssetInv, RowIsDue, IsRegistered, AssetIsTold
<1>10. RunIsDue(a)'
  BY <1>2, <1>3, <1>4, <1>5, <1>6, <1>7, <1>8 DEF AssetInv, RunIsDue, Media!Own, HasRead, IsRegistered
<1>12. CostIsPaid(a)'
  <2>1. PICK p \in 0..1, q \in 0..1, r \in 0..1 :
          /\ p = One(worker[w].outcome = "error") /\ q = One(Broken(a)) /\ r = One(Broken(a)')
    BY DEF One
  <2>2. One(worker'[w].outcome = "error") = p
    BY <1>5, <2>1
  <2>3. p + r + faults <= p + q + faults'
    BY <1>3, <1>4
  <2>4. QED
    BY <1>4, <1>5, <2>1, <2>2, <2>3, RunCosts
<1>13. BrokenIsLate(a)' /\ IsReadOnce(a)'
  BY <1>2, <1>3, <1>4, <1>5, <1>6, <1>7, <1>8
  DEF AssetInv, BrokenIsLate, IsReadOnce, Media!Own, HasRead, Media!Readable
<1>15. QED
  BY <1>4, <1>5, <1>9, <1>10, <1>12, <1>13, RunStepKeeps

LEMMA StorePathKeeps ==
  ASSUME MediaFits, MediaInv, Media!TypeOK', NEW w \in Workers, Media!StorePath(w)
  PROVE  MediaRuns' /\ (\A b \in Asset : AssetInv(b)') /\ RisksAreCounted'
<1>1. PICK a : a = Media!Own(w)
  OBVIOUS
<1>2. Runs(w) /\ worker[w].pc = "path"
  BY DEF Media!StorePath, Media!At, Runs, Media!Trying
<1>3. /\ a \in Asset /\ AssetInv(a) /\ jobs[a].state = "active" /\ request[a] = "done"
      /\ worker[w] \in RunOfAsset /\ row[a] \in Assets /\ faults \in Nat
      /\ row \in [Asset -> Assets] /\ worker \in [Workers -> RunOfAsset]
  BY <1>1, <1>2, RunKnows
<1>4. /\ Media!Goto(w, "settle") /\ row' = [row EXCEPT ![a].path = TRUE]
      /\ UNCHANGED <<files, request, jobs, faults>>
  BY <1>1 DEF Media!StorePath
<1>5. /\ RunGoesOn(w, a) /\ worker'[w].pc = "settle" /\ worker'[w].path = worker[w].path
      /\ worker'[w].outcome = worker[w].outcome
  BY <1>1, <1>2, <1>4, RunGoes DEF Media!Trying
<1>6. /\ \A v \in Workers : (worker'[v].job = a) <=> (v = w)
      /\ \A v \in Workers : (Media!Own(v) = a) <=> (v = w)
  BY <1>5, RunMoves
<1>7. worker[w].outcome = "ok" /\ row[a].status = "ready" /\ row[a].text # "none" /\ ~IsRegistered(a)
      /\ Storage # "none" /\ (a \in files \/ (Storage = "local" /\ faults > 0))
  BY <1>2, <1>3, <1>6 DEF AssetInv, RunIsDue, RunOfAsset, HasRead
<1>8. /\ row'[a].status = row[a].status /\ row'[a].path /\ row'[a].text = row[a].text
      /\ \A b \in Asset \ {a} : row'[b] = row[b]
  BY <1>3, <1>4 DEF Assets
<1>9. RowIsDue(a)' /\ AssetIsTold(a)'
  BY <1>3, <1>4, <1>7, <1>8 DEF AssetInv, RowIsDue, IsRegistered, AssetIsTold
<1>10. RunIsDue(a)'
  BY <1>2, <1>3, <1>4, <1>5, <1>6, <1>7, <1>8 DEF AssetInv, RunIsDue, Media!Own, HasRead, IsRegistered
<1>11. Broken(a)' <=> Broken(a)
  BY <1>2, <1>4, <1>5, <1>6, <1>8 DEF Broken, Media!Own
<1>12. CostIsPaid(a)'
  BY <1>3, <1>4, <1>5, <1>11, RunCosts DEF One
<1>13. BrokenIsLate(a)' /\ IsReadOnce(a)'
  BY <1>2, <1>3, <1>4, <1>5, <1>6, <1>7, <1>8, <1>11
  DEF AssetInv, BrokenIsLate, IsReadOnce, Media!Own, HasRead, Media!Readable
<1>14. ~AtRisk(a)'
  BY <1>7, <1>8 DEF AtRisk, Media!Unfinished
<1>15. QED
  BY <1>4, <1>5, <1>8, <1>9, <1>10, <1>12, <1>13, <1>14, RunStepKeeps

\* Without a failure only what cannot be read is said to have failed.
LEMMA CatchKeeps ==
  ASSUME MediaFits, MediaInv, Media!TypeOK', NEW w \in Workers, Media!Catch(w)
  PROVE  MediaRuns' /\ (\A b \in Asset : AssetInv(b)') /\ RisksAreCounted'
<1>1. PICK a : a = Media!Own(w)
  OBVIOUS
<1>2. Runs(w) /\ worker[w].pc = "catch"
  BY DEF Media!Catch, Media!At, Runs, Media!Trying
<1>3. /\ a \in Asset /\ AssetInv(a) /\ jobs[a].state = "active" /\ request[a] = "done"
      /\ worker[w] \in RunOfAsset /\ row[a] \in Assets /\ faults \in Nat
      /\ row \in [Asset -> Assets] /\ worker \in [Workers -> RunOfAsset]
  BY <1>1, <1>2, RunKnows
<1>4. /\ Media!Goto(w, "settle") /\ row' = [row EXCEPT ![a].status = "failed"]
      /\ UNCHANGED <<files, request, jobs, faults>>
  BY <1>1 DEF Media!Catch
<1>5. /\ RunGoesOn(w, a) /\ worker'[w].pc = "settle" /\ worker'[w].path = worker[w].path
      /\ worker'[w].outcome = worker[w].outcome
  BY <1>1, <1>2, <1>4, RunGoes DEF Media!Trying
<1>6. /\ \A v \in Workers : (worker'[v].job = a) <=> (v = w)
      /\ \A v \in Workers : (Media!Own(v) = a) <=> (v = w)
  BY <1>5, RunMoves
<1>7. worker[w].outcome = "error"
  BY <1>2, <1>3, <1>6 DEF AssetInv, RunIsDue, RunOfAsset
<1>8. /\ row'[a].status = "failed" /\ row'[a].path = row[a].path /\ row'[a].text = row[a].text
      /\ \A b \in Asset \ {a} : row'[b] = row[b]
  BY <1>3, <1>4 DEF Assets
<1>9. RowIsDue(a)' /\ AssetIsTold(a)'
  BY <1>3, <1>4, <1>7, <1>8 DEF AssetInv, RowIsDue, IsRegistered, AssetIsTold
<1>10. RunIsDue(a)'
  BY <1>2, <1>3, <1>4, <1>5, <1>6, <1>7, <1>8 DEF AssetInv, RunIsDue, Media!Own, HasRead, IsRegistered
<1>11. Broken(a)' <=> Broken(a)
  BY <1>2, <1>4, <1>5, <1>6, <1>8 DEF Broken, Media!Own
<1>12. CostIsPaid(a)'
  BY <1>3, <1>4, <1>5, <1>11, RunCosts DEF One
<1>13. faults = 0 => ~Media!Readable(a)
  <2>1. SUFFICES ASSUME faults = 0, Media!Readable(a) PROVE FALSE
    OBVIOUS
  <2>2. IsGivenUp(a)
    BY <1>3, <1>6, <1>7 DEF IsGivenUp
  <2>3. Cost(a) <= 0
    BY <1>3, <2>1 DEF AssetInv, CostIsPaid
  <2>4. jobs[a].attempts \in Nat /\ jobs[a].stalls \in Nat
    BY <1>3, Counters DEF MediaInv
  <2>5. Cost(a) >= 1
    BY <2>2, <2>4 DEF Cost, One
  <2>6. Cost(a) \in Nat
    BY <2>4 DEF Cost, One
  <2>7. QED
    BY <2>3, <2>5, <2>6
<1>14. BrokenIsLate(a)' /\ IsReadOnce(a)'
  BY <1>2, <1>3, <1>4, <1>5, <1>6, <1>7, <1>8, <1>11, <1>13
  DEF AssetInv, BrokenIsLate, IsReadOnce, Media!Own, HasRead, Media!Readable
<1>15. ~AtRisk(a)'
  BY <1>8 DEF AtRisk, Media!Unfinished
<1>16. QED
  BY <1>4, <1>5, <1>8, <1>9, <1>10, <1>12, <1>14, <1>15, RunStepKeeps

LEMMA CallFailsKeeps ==
  ASSUME MediaFits, MediaInv, Media!TypeOK', NEW w \in Workers, Media!CallFails(w)
  PROVE  MediaRuns' /\ (\A b \in Asset : AssetInv(b)') /\ RisksAreCounted'
<1>1. PICK a : a = Media!Own(w)
  OBVIOUS
<1>2. Runs(w) /\ worker[w].pc \in Media!Trying \cup {"find", "mark", "catch"}
  BY DEF Media!CallFails, Media!At, Runs, Media!Trying
<1>3. /\ a \in Asset /\ AssetInv(a) /\ jobs[a].state = "active" /\ request[a] = "done"
      /\ worker[w] \in RunOfAsset /\ row[a] \in Assets /\ faults \in Nat
      /\ row \in [Asset -> Assets] /\ worker \in [Workers -> RunOfAsset]
  BY <1>1, <1>2, RunKnows
<1>4. PICK pc \in {"catch", "settle"} :
        Media!Fails(w, pc) /\ UNCHANGED <<row, files, request, jobs>> /\ faults' = faults + 1
  BY DEF Media!CallFails, Media!Fault, Media!rows
<1>5. /\ RunGoesOn(w, a) /\ worker'[w].pc = pc /\ worker'[w].path = worker[w].path
      /\ worker'[w].outcome = "error"
  BY <1>1, <1>2, <1>4, RunGoes DEF Media!Trying
<1>6. /\ \A v \in Workers : (worker'[v].job = a) <=> (v = w)
      /\ \A v \in Workers : (Media!Own(v) = a) <=> (v = w)
  BY <1>5, RunMoves
<1>8. faults' \in Nat /\ faults' > 0
  BY <1>3, <1>4
<1>9. RowIsDue(a)' /\ AssetIsTold(a)'
  BY <1>3, <1>4, <1>8 DEF AssetInv, RowIsDue, IsRegistered, AssetIsTold
<1>10. RunIsDue(a)'
  BY <1>3, <1>4, <1>5, <1>6, <1>8 DEF AssetInv, RunIsDue, Media!Own, HasRead, IsRegistered
<1>11. Broken(a)' => Broken(a)
  BY <1>4, <1>5, <1>6 DEF Broken, Media!Own
<1>12. CostIsPaid(a)'
  <2>1. PICK p \in 0..1, q \in 0..1, r \in 0..1 :
          /\ p = One(worker[w].outcome = "error") /\ q = One(Broken(a)) /\ r = One(Broken(a)')
          /\ r <= q
    BY <1>11 DEF One
  <2>2. One(worker'[w].outcome = "error") = 1
    BY <1>5 DEF One
  <2>3. 1 + r + faults <= p + q + faults'
    BY <1>3, <1>4, <2>1
  <2>4. QED
    BY <1>4, <1>5, <2>1, <2>2, <2>3, RunCosts
<1>13. BrokenIsLate(a)' /\ IsReadOnce(a)'
  BY <1>3, <1>4, <1>5, <1>6, <1>8, <1>11
  DEF AssetInv, BrokenIsLate, IsReadOnce, Media!Own
<1>15. QED
  BY <1>4, <1>5, <1>9, <1>10, <1>12, <1>13, RunStepKeeps

-----------------------------------------------------------------------------
(* Media: the queue and the requests.                                      *)

LEMMA StartJobKeeps ==
  ASSUME MediaFits, MediaInv, Media!TypeOK', NEW w \in Workers, NEW a \in Asset, Media!StartJob(w, a)
  PROVE  MediaRuns' /\ (\A b \in Asset : AssetInv(b)') /\ RisksAreCounted'
<1>1. PICK l : /\ l = [Media!Idle EXCEPT !.pc = "find", !.job = a] /\ Media!Becomes(w, l)
  BY DEF Media!StartJob
<1>2. l.pc = "find" /\ l.job = a /\ ~l.path /\ l.outcome = "ok"
  BY <1>1 DEF Media!Idle
<1>3. /\ UNCHANGED <<row, files, request, faults>> /\ ~Runs(w)
      /\ jobs' = [jobs EXCEPT ![a] = Media!Started(jobs[a])] /\ jobs[a].state \in {"waiting", "delayed"}
  BY DEF Media!StartJob, Media!rows, Media!At, Runs, Media!Runnable
<1>4. /\ worker' = [worker EXCEPT ![w] = l] /\ worker \in [Workers -> RunOfAsset]
      /\ jobs \in [Asset -> Media!JobOf(Asset)] /\ None \notin Asset
  BY <1>1, TypedAsAWhole DEF MediaInv, MediaTyped, Media!Becomes, MediaFits, Media!MediaAssumption
<1>5. /\ worker'[w] = l /\ \A v \in Workers \ {w} : worker'[v] = worker[v]
      /\ \A b \in Asset \ {a} : jobs'[b] = jobs[b]
  BY <1>3, <1>4
<1>6. /\ jobs'[a].state = "active" /\ jobs'[a].attempts = jobs[a].attempts
      /\ jobs'[a].stalls = jobs[a].stalls /\ jobs'[a].data = jobs[a].data
  BY <1>3, <1>4 DEF Media!Started, Media!JobOf
<1>7. AssetInv(a) /\ MediaRuns
  BY DEF MediaInv
<1>8. /\ \A v \in Workers : Media!Own(v) # a
      /\ \A v \in Workers : (worker'[v].job = a) <=> (v = w)
      /\ Media!Own(w) = None
  <2>1. \A v \in Workers : Media!Own(v) # a
    BY <1>3, <1>4, <1>7 DEF MediaRuns
  <2>2. QED
    BY <1>2, <1>3, <1>5, <1>7, <2>1 DEF MediaRuns, Media!Own
<1>9. MediaRuns'
  <2>1. \A v \in Workers \ {w} : (Runs(v)' <=> Runs(v)) /\ Media!Own(v)' = Media!Own(v)
    BY <1>5 DEF Runs, Media!Own
  <2>2. Runs(w)' /\ Media!Own(w)' = a /\ \A v \in Workers : Media!Own(v)' = a => v = w
    BY <1>2, <1>5, <1>8 DEF Runs, Media!Own
  <2>3. \A v \in Workers : Runs(v)' => Media!Own(v)' \in Asset /\ jobs'[Media!Own(v)'].state = "active"
    BY <1>5, <1>6, <1>7, <2>1, <2>2 DEF MediaRuns
  <2>4. \A v \in Workers : ~Runs(v)' => Media!Own(v)' = None
    BY <1>7, <2>1, <2>2 DEF MediaRuns
  <2>5. \A u, v \in Workers : Runs(u)' /\ Media!Own(u)' = Media!Own(v)' => u = v
    BY <1>7, <1>8, <2>1, <2>2 DEF MediaRuns
  <2>6. QED
    BY <2>3, <2>4, <2>5 DEF MediaRuns
<1>10. \A b \in Asset \ {a} : AssetStays(b)
  <2>1. \A v \in Workers, b \in Asset \ {a} : Media!Own(v) = b \/ worker'[v].job = b => v # w
    BY <1>2, <1>4, <1>5, <1>8
  <2>2. QED
    BY <1>3, <1>5, <2>1 DEF AssetStays
<1>11. JobIsDue(a)'
  BY <1>3, <1>6, <1>7 DEF AssetInv, JobIsDue
<1>12. RowIsDue(a)' /\ AssetIsTold(a)'
  BY <1>3, <1>6, <1>7 DEF AssetInv, RowIsDue, AssetIsTold, IsRegistered
<1>13. RunIsDue(a)'
  BY <1>2, <1>5, <1>8 DEF RunIsDue, Media!Own, HasRead
<1>14. (Broken(a)' => Broken(a)) /\ ~IsGivenUp(a) /\ ~IsGivenUp(a)'
  BY <1>2, <1>3, <1>5, <1>8 DEF Broken, IsGivenUp, Media!Own
<1>15. CostIsPaid(a)'
  <2>1. One(Broken(a)') <= One(Broken(a)) /\ One(Broken(a)) \in Nat /\ One(Broken(a)') \in Nat
        /\ One(IsGivenUp(a)) = One(IsGivenUp(a)')
    BY <1>14 DEF One
  <2>2. PICK p \in Nat, q \in Nat : p = One(Broken(a)) /\ q = One(Broken(a)') /\ q <= p
    BY <2>1
  <2>3. Cost(a)' <= Cost(a) /\ Cost(a) \in Nat /\ Cost(a)' \in Nat
    <3>1. jobs[a].attempts \in Nat /\ jobs[a].stalls \in Nat
      BY Counters DEF MediaInv
    <3>2. Cost(a) = jobs[a].attempts + jobs[a].stalls + p
      BY <1>14, <2>2, <3>1 DEF Cost, One
    <3>3. Cost(a)' = jobs[a].attempts + jobs[a].stalls + q
      BY <1>6, <1>14, <2>2, <3>1 DEF Cost, One
    <3>4. QED
      BY <2>2, <3>1, <3>2, <3>3
  <2>4. faults' = faults /\ faults \in Nat
    BY <1>3, Counters DEF MediaInv
  <2>5. \A n \in Nat, m \in Nat : n <= m /\ m <= faults => n <= faults'
    BY <2>4
  <2>6. QED
    BY <1>3, <1>6, <1>7, <2>3, <2>5 DEF AssetInv, CostIsPaid, Media!Readable
<1>16. BrokenIsLate(a)'
  BY <1>3, <1>6, <1>7, <1>14 DEF AssetInv, BrokenIsLate
<1>17. IsReadOnce(a)'
  BY <1>3, <1>5, <1>6, <1>7, <1>8 DEF AssetInv, IsReadOnce, Media!Own, Media!Readable
<1>18. ~AtRisk(a)'
  BY <1>2, <1>5, <1>8 DEF AtRisk, Attended, Media!Own
<1>19. AssetInv(a)'
  BY <1>11, <1>12, <1>13, <1>15, <1>16, <1>17 DEF AssetInv
<1>20. QED
  BY <1>3, <1>9, <1>10, <1>18, <1>19, OneAsset

\* A run that is over, settled or not.
LEMMA RunEnds ==
  ASSUME MediaFits, MediaInv, Media!TypeOK', NEW w \in Workers, Runs(w), NEW a, a = Media!Own(w),
         Media!Becomes(w, Media!Idle), UNCHANGED <<row, files, request>>,
         \A b \in Asset \ {a} : jobs'[b] = jobs[b]
  PROVE  /\ MediaRuns' /\ a \in Asset /\ AssetInv(a)
         /\ \A v \in Workers : Media!Own(v) = a <=> v = w
         /\ \A v \in Workers : worker'[v].job # a
         /\ \A b \in Asset \ {a} : AssetStays(b)
         /\ RunIsDue(a)' /\ (Broken(a)' => Broken(a) /\ row[a].path)
         /\ jobs[a].state = "active" /\ request[a] = "done"
<1>1. /\ worker' = [worker EXCEPT ![w] = Media!Idle] /\ worker \in [Workers -> RunOfAsset] /\ None \notin Asset
  BY TypedAsAWhole DEF MediaInv, MediaTyped, Media!Becomes, MediaFits, Media!MediaAssumption
<1>2. worker'[w] = Media!Idle /\ \A v \in Workers \ {w} : worker'[v] = worker[v]
  BY <1>1
<1>3. MediaRuns /\ a \in Asset /\ AssetInv(a)
  BY RunKnows DEF MediaInv
<1>4. \A v \in Workers : (Media!Own(v) = a) <=> (v = w)
  BY <1>3 DEF MediaRuns
<1>5. \A v \in Workers : worker'[v].job # a
  BY <1>1, <1>2, <1>3, <1>4 DEF Media!Own, Media!Idle
<1>6. MediaRuns'
  <2>1. \A v \in Workers \ {w} : (Runs(v)' <=> Runs(v)) /\ Media!Own(v)' = Media!Own(v)
    BY <1>2 DEF Runs, Media!Own
  <2>2. ~Runs(w)' /\ Media!Own(w)' = None
    BY <1>2 DEF Runs, Media!Own, Media!Idle
  <2>3. \A v \in Workers : Runs(v)' => Media!Own(v)' \in Asset /\ jobs'[Media!Own(v)'].state = "active"
    BY <1>3, <1>4, <2>1, <2>2 DEF MediaRuns
  <2>4. \A v \in Workers : ~Runs(v)' => Media!Own(v)' = None
    BY <1>3, <2>1, <2>2 DEF MediaRuns
  <2>5. \A u, v \in Workers : Runs(u)' /\ Media!Own(u)' = Media!Own(v)' => u = v
    BY <1>1, <1>3, <2>1, <2>2, <2>3 DEF MediaRuns
  <2>6. QED
    BY <2>3, <2>4, <2>5 DEF MediaRuns
<1>7. \A b \in Asset \ {a} : AssetStays(b)
  <2>1. \A v \in Workers, b \in Asset \ {a} : Media!Own(v) = b \/ worker'[v].job = b => v # w
    BY <1>1, <1>2, <1>4 DEF Media!Idle
  <2>2. QED
    BY <1>2, <2>1 DEF AssetStays
<1>8. RunIsDue(a)'
  BY <1>5 DEF RunIsDue, Media!Own
<1>9. Broken(a)' => Broken(a) /\ row[a].path
  BY <1>5 DEF Broken, Media!Own
<1>10. jobs[a].state = "active" /\ request[a] = "done"
  BY RunKnows
<1>11. QED
  BY <1>3, <1>4, <1>5, <1>6, <1>7, <1>8, <1>9, <1>10

LEMMA SettleJobKeeps ==
  ASSUME MediaFits, MediaInv, Media!TypeOK', NEW w \in Workers, Media!SettleJob(w)
  PROVE  MediaRuns' /\ (\A b \in Asset : AssetInv(b)') /\ RisksAreCounted'
<1>1. PICK a : a = Media!Own(w)
  OBVIOUS
<1>2. Runs(w) /\ worker[w].pc = "settle" /\ Media!Becomes(w, Media!Idle) /\ UNCHANGED <<row, files,
request, faults>>
  BY DEF Media!SettleJob, Media!At, Runs, Media!rows
<1>3. PICK job : job = IF worker[w].outcome = "ok" THEN Media!Completed(jobs[a]) ELSE Media!AttemptFailed(jobs[a])
  OBVIOUS
<1>4. a \in Asset /\ jobs \in [Asset -> Media!JobOf(Asset)] /\ worker[w] \in RunOfAsset
  BY <1>1, <1>2, RunKnows, TypedAsAWhole DEF MediaInv, MediaTyped
<1>5. jobs' = [jobs EXCEPT ![a] = job]
  BY <1>1, <1>3, <1>4 DEF Media!SettleJob
<1>6. jobs'[a] = job /\ \A b \in Asset \ {a} : jobs'[b] = jobs[b]
  BY <1>4, <1>5
<1>7. /\ MediaRuns' /\ AssetInv(a)
      /\ \A v \in Workers : (Media!Own(v) = a) <=> (v = w)
      /\ \A v \in Workers : worker'[v].job # a
      /\ \A b \in Asset \ {a} : AssetStays(b)
      /\ RunIsDue(a)' /\ (Broken(a)' => Broken(a) /\ row[a].path)
      /\ jobs[a].state = "active" /\ request[a] = "done"
  BY <1>1, <1>2, <1>6, RunEnds
<1>8. /\ jobs[a].attempts \in Nat /\ jobs[a].stalls \in Nat /\ faults \in Nat
      /\ jobs[a].attempts < MaxAttempts /\ MaxAttempts \in Nat
  BY <1>4, <1>7, Counters DEF MediaInv, AssetInv, JobIsDue
<1>9. CASE worker[w].outcome = "ok"
  <2>1. /\ jobs'[a].state = "completed" /\ jobs'[a].attempts = jobs[a].attempts
        /\ jobs'[a].stalls = jobs[a].stalls /\ jobs'[a].data = jobs[a].data
    BY <1>3, <1>4, <1>6, <1>9 DEF Media!Completed, Media!JobOf
  <2>2. row[a].status = "ready" /\ row[a].text # "none"
    BY <1>2, <1>7, <1>9 DEF AssetInv, RunIsDue, HasRead
  <2>3. JobIsDue(a)' /\ RowIsDue(a)' /\ AssetIsTold(a)'
    BY <1>2, <1>7, <2>1, <2>2 DEF AssetInv, JobIsDue, RowIsDue, AssetIsTold, IsRegistered
  <2>4. CostIsPaid(a)'
    <3>1. PICK p \in 0..1, q \in 0..1 : p = One(Broken(a)) /\ q = One(Broken(a)') /\ q <= p
      BY <1>7 DEF One
    <3>2. ~IsGivenUp(a) /\ ~IsGivenUp(a)'
      BY <1>7, <1>9, <2>1 DEF IsGivenUp
    <3>3. Cost(a) = jobs[a].attempts + jobs[a].stalls + p
      BY <1>8, <3>1, <3>2 DEF Cost, One
    <3>4. Cost(a)' = jobs[a].attempts + jobs[a].stalls + q
      BY <1>8, <2>1, <3>1, <3>2 DEF Cost, One
    <3>5. Cost(a)' <= Cost(a) /\ Cost(a) \in Nat /\ Cost(a)' \in Nat
      BY <1>8, <3>1, <3>3, <3>4
    <3>6. \A n \in Nat, m \in Nat : n <= m /\ m <= faults => n <= faults'
      BY <1>2, <1>8
    <3>7. QED
      BY <1>2, <1>7, <2>1, <3>5, <3>6 DEF AssetInv, CostIsPaid, Media!Readable
  <2>5. BrokenIsLate(a)' /\ IsReadOnce(a)'
    BY <1>2, <1>7, <2>1, <2>2 DEF AssetInv, BrokenIsLate, IsReadOnce, Media!Readable
  <2>6. ~AtRisk(a)'
    BY <1>2, <2>2 DEF AtRisk, Media!Unfinished
  <2>7. AssetInv(a)'
    BY <1>7, <2>3, <2>4, <2>5 DEF AssetInv
  <2>8. QED
    BY <1>2, <1>4, <1>7, <2>6, <2>7, OneAsset
<1>10. CASE worker[w].outcome = "error"
  <2>1. /\ jobs'[a].attempts = jobs[a].attempts + 1
        /\ jobs'[a].stalls = jobs[a].stalls /\ jobs'[a].data = jobs[a].data
    BY <1>3, <1>4, <1>6, <1>10 DEF Media!AttemptFailed, Media!JobOf
  <2>2. jobs'[a].state = IF jobs[a].attempts + 1 < MaxAttempts THEN "delayed" ELSE "failed"
    BY <1>3, <1>4, <1>6, <1>10 DEF Media!AttemptFailed, Media!JobOf
  <2>21. jobs'[a].state = "delayed" => jobs'[a].attempts < MaxAttempts
    BY <2>1, <2>2
  <2>22. jobs'[a].state \in {"delayed", "failed"}
    BY <2>2
  <2>23. jobs'[a].state = "failed" => jobs[a].attempts + 1 >= MaxAttempts
    BY <1>8, <2>2
  <2>24. jobs'[a].attempts > 0 /\ jobs'[a].attempts + jobs'[a].stalls > 0
    BY <1>8, <2>1
  <2>3. JobIsDue(a)'
    BY <1>2, <1>7, <2>1, <2>21, <2>22 DEF AssetInv, JobIsDue
  <2>31. RowIsDue(a)' /\ AssetIsTold(a)'
    BY <1>2, <1>7, <2>22 DEF AssetInv, RowIsDue, AssetIsTold, IsRegistered
  <2>32. IsGivenUp(a) /\ ~IsGivenUp(a)'
    BY <1>7, <1>10, <2>22 DEF IsGivenUp
  <2>33. Cost(a)' <= Cost(a) /\ Cost(a) \in Nat /\ Cost(a)' \in Nat /\ Cost(a) >= jobs[a].attempts + 1
    <3>1. PICK p \in 0..1, q \in 0..1 : p = One(Broken(a)) /\ q = One(Broken(a)') /\ q <= p
      BY <1>7 DEF One
    <3>2. Cost(a) = jobs[a].attempts + jobs[a].stalls + 1 + p
      BY <1>8, <2>32, <3>1 DEF Cost, One
    <3>3. Cost(a)' = jobs[a].attempts + 1 + jobs[a].stalls + q
      BY <1>8, <2>1, <2>32, <3>1 DEF Cost, One
    <3>4. QED
      BY <1>8, <3>1, <3>2, <3>3
  <2>4. CostIsPaid(a)'
    <3>1. SUFFICES ASSUME Media!Readable(a), ~(Storage = "local" /\ faults > 1)
          PROVE  Cost(a)' <= faults /\ (jobs'[a].state = "failed" => faults >= MaxAttempts)
      BY <1>2 DEF CostIsPaid, Media!Readable
    <3>2. Cost(a) <= faults
      BY <1>7, <3>1 DEF AssetInv, CostIsPaid
    <3>3. PICK c, d : c = Cost(a) /\ d = Cost(a)'
      OBVIOUS
    <3>4. c <= faults /\ d <= c /\ c \in Nat /\ d \in Nat /\ c >= jobs[a].attempts + 1
      BY <2>33, <3>2, <3>3
    <3>5. d <= faults /\ (jobs[a].attempts + 1 >= MaxAttempts => faults >= MaxAttempts)
      BY <1>8, <3>4
    <3>6. QED
      BY <2>23, <3>3, <3>5
  <2>5. BrokenIsLate(a)'
    BY <2>24 DEF BrokenIsLate
  <2>6. IsReadOnce(a)'
    BY <1>2, <1>7, <1>10, <2>22 DEF AssetInv, IsReadOnce, Media!Readable
  <2>7. AtRisk(a)' => AtRisk(a)
    BY <1>2, <1>7 DEF AtRisk, Attended, Media!Own, Media!Trying
  <2>8. AssetInv(a)'
    BY <1>7, <2>3, <2>31, <2>4, <2>5, <2>6 DEF AssetInv
  <2>9. QED
    BY <1>2, <1>4, <1>7, <2>7, <2>8, OneAsset
<1>11. QED
  BY <1>4, <1>9, <1>10 DEF RunOfAsset

LEMMA MediaCrashKeeps ==
  ASSUME MediaFits, MediaInv, Media!TypeOK', NEW w \in Workers, Media!Crash(w)
  PROVE  MediaRuns' /\ (\A b \in Asset : AssetInv(b)') /\ RisksAreCounted'
<1>1. PICK a : a = Media!Own(w)
  OBVIOUS
<1>2. Runs(w) /\ Media!Becomes(w, Media!Idle) /\ UNCHANGED <<row, files, request,
jobs>> /\ faults' = faults + 1
  BY DEF Media!Crash, Media!At, Runs, Media!rows, Media!Fault
<1>7. /\ MediaRuns' /\ AssetInv(a) /\ a \in Asset
      /\ \A v \in Workers : worker'[v].job # a
      /\ \A b \in Asset \ {a} : AssetStays(b)
      /\ RunIsDue(a)' /\ (Broken(a)' => Broken(a) /\ row[a].path)
      /\ jobs[a].state = "active" /\ request[a] = "done"
  BY <1>1, <1>2, RunEnds
<1>8. /\ jobs[a].attempts \in Nat /\ jobs[a].stalls \in Nat /\ faults \in Nat /\ faults' \in Nat /\ faults' > 0
      /\ (faults > 1 => faults' > 1)
  BY <1>2, <1>7, Counters DEF MediaInv
<1>9. JobIsDue(a)' /\ RowIsDue(a)' /\ AssetIsTold(a)'
  BY <1>2, <1>7, <1>8 DEF AssetInv, JobIsDue, RowIsDue, AssetIsTold, IsRegistered
<1>10. CostIsPaid(a)'
  <2>1. PICK p \in 0..1, q \in 0..1, r \in 0..1, s \in 0..1 :
          /\ p = One(Broken(a)) /\ q = One(Broken(a)') /\ q <= p
          /\ r = One(IsGivenUp(a)) /\ s = One(IsGivenUp(a)')
    BY <1>7 DEF One
  <2>2. Cost(a) = jobs[a].attempts + jobs[a].stalls + r + p
    BY <2>1 DEF Cost
  <2>3. Cost(a)' = jobs[a].attempts + jobs[a].stalls + s + q
    BY <1>2, <2>1 DEF Cost
  <2>4. SUFFICES ASSUME Media!Readable(a), ~(Storage = "local" /\ faults' > 1) PROVE Cost(a)' <= faults'
    BY <1>2, <1>7 DEF CostIsPaid, Media!Readable
  <2>5. Cost(a) <= faults
    BY <1>7, <1>8, <2>4 DEF AssetInv, CostIsPaid
  <2>6. PICK c, d : c = Cost(a) /\ d = Cost(a)'
    OBVIOUS
  <2>7. d <= faults'
    BY <1>2, <1>8, <2>1, <2>2, <2>3, <2>5, <2>6
  <2>8. QED
    BY <2>6, <2>7
<1>11. BrokenIsLate(a)' /\ IsReadOnce(a)'
  BY <1>2, <1>7, <1>8 DEF BrokenIsLate, IsReadOnce, Media!Own
<1>12. QED
  <2>1. AssetInv(a)'
    BY <1>7, <1>9, <1>10, <1>11 DEF AssetInv
  <2>2. QED
    BY <1>2, <1>7, <2>1, OneAsset

\* A step on an asset that nobody works on.
JobAtRest(a) ==
  /\ \A w \in Workers : Media!Own(w) # a
  /\ worker' = worker
  /\ \A b \in Asset \ {a} : /\ row'[b] = row[b] /\ request'[b] = request[b] /\ jobs'[b] = jobs[b]
                            /\ b \in files' <=> b \in files

LEMMA Resting ==
  ASSUME MediaFits, MediaInv, NEW a \in Asset, jobs[a].state # "active"
  PROVE  \A w \in Workers : Media!Own(w) # a
BY DEF MediaInv, MediaRuns, MediaFits, Media!MediaAssumption

LEMMA RestKeeps ==
  ASSUME MediaFits, MediaInv, Media!TypeOK', NEW a \in Asset, JobAtRest(a)
  PROVE  /\ MediaRuns' /\ AssetInv(a)
         /\ \A b \in Asset \ {a} : AssetStays(b)
         /\ RunIsDue(a)'
         /\ Broken(a) <=> a \notin files /\ row[a].path
         /\ Broken(a)' <=> a \notin files' /\ row'[a].path
         /\ IsGivenUp(a) <=> jobs[a].state = "active"
         /\ IsGivenUp(a)' <=> jobs'[a].state = "active"
         /\ ~Attended(a) <=> jobs[a].state \notin {"waiting", "delayed"}
         /\ ~Attended(a)' <=> jobs'[a].state \notin {"waiting", "delayed"}
<1>1. AssetInv(a) /\ MediaRuns
  BY DEF MediaInv
<1>2. \A w \in Workers : worker'[w] = worker[w] /\ worker'[w].job # a /\ Media!Own(w) # a
  BY DEF JobAtRest, Media!Own
<1>3. \A w \in Workers : Runs(w) => jobs'[Media!Own(w)] = jobs[Media!Own(w)]
  BY <1>1, <1>2 DEF MediaRuns, JobAtRest
<1>4. MediaRuns'
  BY <1>1, <1>3 DEF MediaRuns, JobAtRest, Runs, Media!Own
<1>5. \A b \in Asset \ {a} : AssetStays(b)
  BY <1>2 DEF JobAtRest, AssetStays
<1>6. RunIsDue(a)'
  BY <1>2 DEF RunIsDue, Media!Own
<1>7. /\ Broken(a) <=> a \notin files /\ row[a].path
      /\ Broken(a)' <=> a \notin files' /\ row'[a].path
  BY <1>2 DEF Broken, Media!Own
<1>8. /\ IsGivenUp(a) <=> jobs[a].state = "active"
      /\ IsGivenUp(a)' <=> jobs'[a].state = "active"
  BY <1>2 DEF IsGivenUp, Media!Own
<1>9. /\ ~Attended(a) <=> jobs[a].state \notin {"waiting", "delayed"}
      /\ ~Attended(a)' <=> jobs'[a].state \notin {"waiting", "delayed"}
  BY <1>2 DEF Attended, Media!Own
<1>10. QED
  BY <1>1, <1>4, <1>5, <1>6, <1>7, <1>8, <1>9

\* A stall costs the failure that left the job behind.
LEMMA StalledCheckKeeps ==
  ASSUME MediaFits, MediaInv, Media!TypeOK', NEW a \in Asset, Media!StalledCheck(a)
  PROVE  MediaRuns' /\ (\A b \in Asset : AssetInv(b)') /\ RisksAreCounted'
<1>1. /\ jobs[a].state = "active" /\ \A w \in Workers : Media!Own(w) # a
      /\ jobs' = [jobs EXCEPT ![a] = Media!Stalled(jobs[a])]
      /\ UNCHANGED <<row, files, request, worker, faults>>
  BY DEF Media!StalledCheck, Media!rows
<1>2. jobs \in [Asset -> Media!JobOf(Asset)]
  BY TypedAsAWhole DEF MediaInv, MediaTyped
<1>3. jobs'[a] = Media!Stalled(jobs[a]) /\ \A b \in Asset \ {a} : jobs'[b] = jobs[b]
  BY <1>1, <1>2
<1>4. JobAtRest(a)
  BY <1>1, <1>3 DEF JobAtRest
<1>5. /\ MediaRuns' /\ AssetInv(a)
      /\ \A b \in Asset \ {a} : AssetStays(b)
      /\ RunIsDue(a)'
      /\ Broken(a) <=> a \notin files /\ row[a].path
      /\ Broken(a)' <=> a \notin files' /\ row'[a].path
      /\ IsGivenUp(a) <=> jobs[a].state = "active"
      /\ IsGivenUp(a)' <=> jobs'[a].state = "active"
      /\ ~Attended(a) <=> jobs[a].state \notin {"waiting", "delayed"}
      /\ ~Attended(a)' <=> jobs'[a].state \notin {"waiting", "delayed"}
  BY <1>4, RestKeeps
<1>6. /\ jobs[a].attempts \in Nat /\ jobs[a].stalls \in Nat /\ faults \in Nat
      /\ MaxStalls \in Nat /\ MaxAttempts \in Nat
  BY Counters DEF MediaInv
<1>7. jobs'[a].attempts = jobs[a].attempts /\ jobs'[a].data = jobs[a].data
      /\ jobs'[a].state \in {"waiting", "failed"}
  BY <1>2, <1>3 DEF Media!Stalled, Media!JobOf
<1>8. /\ jobs'[a].state = "waiting" => jobs'[a].stalls = jobs[a].stalls + 1
      /\ jobs'[a].state = "failed" => jobs'[a].stalls = jobs[a].stalls
  BY <1>2, <1>3 DEF Media!Stalled, Media!JobOf
<1>9. jobs'[a].state = "failed" => ~(jobs[a].stalls < MaxStalls)
  BY <1>2, <1>3 DEF Media!Stalled, Media!JobOf
<1>10. JobIsDue(a)' /\ RowIsDue(a)' /\ AssetIsTold(a)'
  BY <1>1, <1>5, <1>7 DEF AssetInv, JobIsDue, RowIsDue, AssetIsTold, IsRegistered
<1>11. CostIsPaid(a)'
  <2>1. PICK p \in 0..1 : p = One(Broken(a)) /\ p = One(Broken(a)')
    BY <1>1, <1>5 DEF One
  <2>2. IsGivenUp(a) /\ ~IsGivenUp(a)'
    BY <1>1, <1>5, <1>7
  <2>3. Cost(a) = jobs[a].attempts + jobs[a].stalls + 1 + p
    BY <1>6, <2>1, <2>2 DEF Cost, One
  <2>4. Cost(a)' = jobs[a].attempts + jobs'[a].stalls + p
    BY <1>6, <1>7, <2>1, <2>2, <1>8 DEF Cost, One
  <2>5. jobs'[a].stalls \in {jobs[a].stalls, jobs[a].stalls + 1}
    BY <1>7, <1>8
  <2>6. SUFFICES ASSUME Media!Readable(a), ~(Storage = "local" /\ faults > 1)
        PROVE  Cost(a)' <= faults /\ (jobs'[a].state = "failed" => faults > MaxStalls)
    BY <1>1 DEF CostIsPaid, Media!Readable
  <2>7. Cost(a) <= faults
    BY <1>5, <2>6 DEF AssetInv, CostIsPaid
  <2>8. PICK c, d : c = Cost(a) /\ d = Cost(a)'
    OBVIOUS
  <2>9. d <= faults /\ (~(jobs[a].stalls < MaxStalls) => faults > MaxStalls)
    BY <1>6, <2>1, <2>3, <2>4, <2>5, <2>7, <2>8
  <2>10. QED
    BY <1>9, <2>8, <2>9
<1>12. BrokenIsLate(a)'
  <2>1. jobs'[a].state = "waiting" => jobs'[a].attempts + jobs'[a].stalls > 0
    BY <1>6, <1>7, <1>8
  <2>2. QED
    BY <1>7, <2>1 DEF BrokenIsLate
<1>13. IsReadOnce(a)'
  BY <1>1, <1>5 DEF AssetInv, IsReadOnce, Media!Own
<1>14. AtRisk(a)' => AtRisk(a)
  BY <1>1, <1>5 DEF AtRisk
<1>15. AssetInv(a)'
  BY <1>5, <1>10, <1>11, <1>12, <1>13 DEF AssetInv
<1>16. QED
  BY <1>1, <1>5, <1>14, <1>15, OneAsset

\* A step of a request: its job is not there yet, and what it stores is there
\* before the row says so.
RequestMoves(a) ==
  /\ request[a] \notin {"done", "failed"}
  /\ UNCHANGED worker
  /\ \A b \in Asset \ {a} : /\ row'[b] = row[b] /\ request'[b] = request[b] /\ jobs'[b] = jobs[b]
                            /\ b \in files' <=> b \in files
  /\ jobs'[a].data = a /\ jobs'[a].attempts = 0 /\ jobs'[a].stalls = 0
  /\ jobs'[a].state = "absent" \/ (jobs'[a].state = "waiting" /\ request'[a] = "done" /\ a \in Media!Processable)
  /\ row'[a].path => a \in files'
  /\ row'[a].text = "none" /\ row'[a].status \in {"absent", "pending", "stored"}
  /\ faults' = faults \/ faults' = faults + 1
  /\ request'[a] = "failed" => row'[a].status = "absent" \/ faults' = faults + 1
  /\ request'[a] = "done" /\ a \in Media!Processable => jobs'[a].state = "waiting"

LEMMA NewAssets ==
  ASSUME MediaFits, MediaInv, NEW a \in Asset, request[a] \notin {"done", "failed"}
  PROVE  /\ jobs[a].state = "absent" /\ jobs[a].attempts = 0 /\ jobs[a].stalls = 0 /\ jobs[a].data = a
         /\ row[a].text = "none" /\ row[a].status \in {"absent", "pending", "stored"}
         /\ row[a].path => a \in files
<1>1. AssetInv(a)
  BY DEF MediaInv
<1>2. /\ jobs[a].state = "absent" /\ jobs[a].attempts = 0 /\ jobs[a].stalls = 0 /\ jobs[a].data = a
      /\ row[a].text = "none" /\ row[a].status \in {"absent", "pending", "stored"}
  BY <1>1 DEF AssetInv, JobIsDue, RowIsDue
<1>3. \A w \in Workers : Media!Own(w) # a
  BY <1>2, Resting
<1>4. row[a].path => a \in files
  BY <1>1, <1>2, <1>3 DEF AssetInv, BrokenIsLate, Broken
<1>5. QED
  BY <1>2, <1>4

LEMMA RequestKeeps ==
  ASSUME MediaFits, MediaInv, Media!TypeOK', NEW a \in Asset, RequestMoves(a), RowIsDue(a)'
  PROVE  MediaRuns' /\ (\A b \in Asset : AssetInv(b)') /\ RisksAreCounted'
<1>1. /\ jobs[a].state = "absent" /\ jobs[a].attempts = 0 /\ jobs[a].stalls = 0
      /\ row[a].path => a \in files
  BY NewAssets DEF RequestMoves
<1>2. \A w \in Workers : Media!Own(w) # a
  BY <1>1, Resting
<1>3. JobAtRest(a)
  BY <1>2 DEF JobAtRest, RequestMoves
<1>4. /\ MediaRuns' /\ AssetInv(a)
      /\ \A b \in Asset \ {a} : AssetStays(b)
      /\ RunIsDue(a)'
      /\ Broken(a)' <=> a \notin files' /\ row'[a].path
      /\ IsGivenUp(a)' <=> jobs'[a].state = "active"
      /\ ~Attended(a)' <=> jobs'[a].state \notin {"waiting", "delayed"}
  BY <1>3, RestKeeps
<1>5. MaxAttempts \in Nat \ {0} /\ faults \in Nat
  BY Counters DEF MediaInv, MediaFits
<1>6. jobs'[a].state \in {"absent", "waiting"} /\ jobs'[a].attempts = 0 /\ jobs'[a].stalls = 0
  BY DEF RequestMoves
<1>7. JobIsDue(a)'
  <2>1. jobs'[a].attempts < MaxAttempts
    BY <1>5, <1>6
  <2>2. QED
    BY <2>1 DEF JobIsDue, RequestMoves
<1>8. ~Broken(a)' /\ ~IsGivenUp(a)'
  BY <1>4, <1>6 DEF RequestMoves
<1>9. AssetIsTold(a)' /\ BrokenIsLate(a)'
  BY <1>6, <1>8 DEF AssetIsTold, BrokenIsLate, RequestMoves
<1>10. CostIsPaid(a)'
  <2>1. Cost(a)' = 0
    BY <1>6, <1>8 DEF Cost, One
  <2>2. 0 <= faults'
    BY <1>5 DEF RequestMoves
  <2>3. QED
    BY <1>6, <2>1, <2>2 DEF CostIsPaid
<1>11. IsReadOnce(a)'
  <2>1. faults' = 0 => faults' # faults + 1
    BY <1>5
  <2>2. QED
    BY <1>6, <2>1 DEF IsReadOnce, RequestMoves
<1>12. AssetInv(a)'
  BY <1>4, <1>7, <1>9, <1>10, <1>11 DEF AssetInv
<1>13. faults' = faults + 1 \/ (a \in Media!Processable /\ AtRisk(a)' => AtRisk(a))
  BY <1>4 DEF AtRisk, RequestMoves, Media!Unfinished
<1>14. faults' = faults \/ faults' = faults + 1
  BY DEF RequestMoves
<1>15. QED
  BY <1>4, <1>12, <1>13, <1>14, OneAsset

LEMMA RequestStepKeeps ==
  ASSUME MediaFits, MediaInv, Media!TypeOK', NEW a \in Asset,
         Media!CreateAttached(a) \/ Media!LinkPart(a) \/ Media!CreateAsset(a) \/ Media!UploadFile(a) \/ Media!CreateUploaded(a)
           \/ Media!Enqueue(a) \/ Media!RequestFails(a)
  PROVE  MediaRuns' /\ (\A b \in Asset : AssetInv(b)') /\ RisksAreCounted'
<1>1. request[a] \notin {"done", "failed"}
  BY DEF Media!CreateAttached, Media!LinkPart, Media!CreateAsset, Media!UploadFile, Media!CreateUploaded,
     Media!Enqueue, Media!RequestFails
<1>2. /\ jobs[a].state = "absent" /\ jobs[a].attempts = 0 /\ jobs[a].stalls = 0 /\ jobs[a].data = a
      /\ row[a].text = "none" /\ row[a].status \in {"absent", "pending", "stored"}
      /\ row[a].path => a \in files
  BY <1>1, NewAssets
<1>3. /\ row \in [Asset -> Assets] /\ jobs \in [Asset -> Media!JobOf(Asset)]
      /\ request \in [Asset -> {"new", "part", "row", "queue", "done", "failed"}]
  BY TypedAsAWhole DEF MediaInv, MediaTyped
<1>4. RowIsDue(a)
  BY DEF MediaInv, AssetInv
<1>5. \A pc : Media!Request(a, pc) => request'[a] = pc /\ \A b \in Asset \ {a} : request'[b] = request[b]
  BY <1>3 DEF Media!Request
<1>6. SourceOf[a] = "create" \/ a \notin HasPath
  BY DEF MediaFits, Media!MediaAssumption
<1>7. CASE Media!CreateAttached(a)
  <2>1. /\ UNCHANGED <<files, jobs, worker, faults>> /\ SourceOf[a] = "message"
        /\ request[a] = "new" /\ Media!Request(a, "part")
    BY <1>7 DEF Media!CreateAttached
  <2>2. PICK s \in {"pending", "stored"} :
          s = (IF a \in HasUrl THEN "pending" ELSE "stored") /\ row' = [row EXCEPT ![a].status = s]
    BY <1>7 DEF Media!CreateAttached
  <2>3. /\ row'[a].status = s /\ row'[a].path = row[a].path /\ row'[a].text = row[a].text
        /\ \A b \in Asset \ {a} : row'[b] = row[b]
    BY <1>3, <2>2 DEF Assets
  <2>4. request'[a] = "part" /\ \A b \in Asset \ {a} : request'[b] = request[b]
    BY <1>5, <2>1
  <2>5. RowIsDue(a)'
    BY <1>2, <1>4, <1>6, <2>1, <2>2, <2>3, <2>4 DEF RowIsDue, IsRegistered
  <2>6. RequestMoves(a)
    BY <1>1, <1>2, <2>1, <2>2, <2>3, <2>4 DEF RequestMoves
  <2>7. QED
    BY <2>5, <2>6, RequestKeeps
<1>8. CASE Media!LinkPart(a)
  <2>1. UNCHANGED <<row, files, jobs, worker, faults>> /\ request[a] = "part" /\ Media!Request(a, "queue")
    BY <1>8 DEF Media!LinkPart
  <2>2. request'[a] = "queue" /\ \A b \in Asset \ {a} : request'[b] = request[b]
    BY <1>5, <2>1
  <2>3. RowIsDue(a)'
    BY <1>2, <1>4, <1>6, <2>1, <2>2 DEF RowIsDue, IsRegistered
  <2>4. RequestMoves(a)
    BY <1>1, <1>2, <2>1, <2>2 DEF RequestMoves
  <2>5. QED
    BY <2>3, <2>4, RequestKeeps
<1>9. CASE Media!CreateAsset(a)
  <2>1. /\ UNCHANGED <<files, jobs, worker, faults>> /\ SourceOf[a] = "create"
        /\ request[a] = "new" /\ Media!Request(a, "queue")
    BY <1>9 DEF Media!CreateAsset
  <2>11. PICK s \in {"pending", "stored"} : s = IF a \in HasPath THEN "stored" ELSE "pending"
    OBVIOUS
  <2>12. PICK p \in BOOLEAN : p = (a \in HasPath)
    <3>1. (a \in HasPath) \in BOOLEAN
      OBVIOUS
    <3>2. QED
      BY <3>1, Zenon
  <2>2. (p <=> a \in HasPath) /\ row' = [row EXCEPT ![a].status = s, ![a].path = p]
    BY <1>9, <2>11, <2>12 DEF Media!CreateAsset
  <2>3. /\ row'[a].status = s /\ row'[a].path = p /\ row'[a].text = row[a].text
        /\ \A b \in Asset \ {a} : row'[b] = row[b]
    BY <1>3, <2>2 DEF Assets
  <2>4. request'[a] = "queue" /\ \A b \in Asset \ {a} : request'[b] = request[b]
    BY <1>5, <2>1
  <2>5. RowIsDue(a)'
    BY <1>2, <1>4, <1>6, <2>1, <2>2, <2>3, <2>4 DEF RowIsDue, IsRegistered, Media!Attached
  <2>6. RequestMoves(a)
    BY <1>1, <1>2, <1>4, <2>1, <2>2, <2>3, <2>4 DEF RequestMoves, RowIsDue
  <2>7. QED
    BY <2>5, <2>6, RequestKeeps
<1>10. CASE Media!UploadFile(a)
  <2>1. UNCHANGED <<row, jobs, worker, faults>> /\ SourceOf[a] = "upload" /\ request[a] = "new"
    BY <1>10 DEF Media!UploadFile
  <2>2. \/ Storage = "none" /\ files' = files /\ Media!Request(a, "failed")
        \/ Storage # "none" /\ files' = files \cup {a} /\ Media!Request(a, "row")
    BY <1>10 DEF Media!UploadFile
  <2>3. /\ request'[a] = (IF Storage = "none" THEN "failed" ELSE "row")
        /\ \A b \in Asset \ {a} : request'[b] = request[b]
    BY <1>5, <2>2
  <2>4. \A b \in Asset \ {a} : b \in files' <=> b \in files
    BY <2>2
  <2>5. RowIsDue(a)'
    BY <1>2, <1>4, <1>6, <2>1, <2>2, <2>3 DEF RowIsDue, IsRegistered
  <2>6. RequestMoves(a)
    BY <1>1, <1>2, <1>4, <2>1, <2>2, <2>3, <2>4 DEF RequestMoves, RowIsDue
  <2>7. QED
    BY <2>5, <2>6, RequestKeeps
<1>11. CASE Media!CreateUploaded(a)
  <2>1. UNCHANGED <<files, jobs, worker, faults>> /\ request[a] = "row" /\ Media!Request(a, "queue")
    BY <1>11 DEF Media!CreateUploaded
  <2>2. row' = [row EXCEPT ![a].status = "stored", ![a].path = TRUE]
    BY <1>11 DEF Media!CreateUploaded
  <2>3. /\ row'[a].status = "stored" /\ row'[a].path /\ row'[a].text = row[a].text
        /\ \A b \in Asset \ {a} : row'[b] = row[b]
    BY <1>3, <2>2 DEF Assets
  <2>4. request'[a] = "queue" /\ \A b \in Asset \ {a} : request'[b] = request[b]
    BY <1>5, <2>1
  <2>5. RowIsDue(a)'
    BY <1>2, <1>4, <1>6, <2>1, <2>3, <2>4 DEF RowIsDue, IsRegistered, Media!Attached
  <2>6. RequestMoves(a)
    BY <1>1, <1>2, <1>4, <2>1, <2>3, <2>4 DEF RequestMoves, RowIsDue
  <2>7. QED
    BY <2>5, <2>6, RequestKeeps
<1>12. CASE Media!Enqueue(a)
  <2>1. UNCHANGED <<row, files, worker, faults>> /\ request[a] = "queue" /\ Media!Request(a, "done")
    BY <1>12 DEF Media!Enqueue, Media!rows
  <2>2. jobs' = IF a \in Media!Processable THEN [jobs EXCEPT ![a] = Media!Queued(a)] ELSE jobs
    BY <1>2, <1>12 DEF Media!Enqueue, Media!Added
  <2>3. /\ jobs'[a] = (IF a \in Media!Processable THEN Media!Queued(a) ELSE jobs[a])
        /\ \A b \in Asset \ {a} : jobs'[b] = jobs[b]
    BY <1>3, <2>2
  <2>4. /\ jobs'[a].data = a /\ jobs'[a].attempts = 0 /\ jobs'[a].stalls = 0
        /\ jobs'[a].state = IF a \in Media!Processable THEN "waiting" ELSE "absent"
    BY <1>2, <2>3 DEF Media!Queued
  <2>5. request'[a] = "done" /\ \A b \in Asset \ {a} : request'[b] = request[b]
    BY <1>5, <2>1
  <2>6. RowIsDue(a)'
    BY <1>2, <1>4, <2>1, <2>4, <2>5 DEF RowIsDue, IsRegistered
  <2>7. RequestMoves(a)
    BY <1>1, <1>2, <2>1, <2>3, <2>4, <2>5 DEF RequestMoves
  <2>8. QED
    BY <2>6, <2>7, RequestKeeps
<1>13. CASE Media!RequestFails(a)
  <2>1. UNCHANGED <<row, files, jobs, worker>> /\ faults' = faults + 1 /\ Media!Request(a, "failed")
    BY <1>13 DEF Media!RequestFails, Media!rows, Media!Fault
  <2>2. request'[a] = "failed" /\ \A b \in Asset \ {a} : request'[b] = request[b]
    BY <1>5, <2>1
  <2>3. RowIsDue(a)'
    BY <1>2, <1>4, <2>1, <2>2 DEF RowIsDue, IsRegistered
  <2>4. RequestMoves(a)
    BY <1>1, <1>2, <2>1, <2>2 DEF RequestMoves
  <2>5. QED
    BY <2>3, <2>4, RequestKeeps
<1>14. QED
  BY <1>7, <1>8, <1>9, <1>10, <1>11, <1>12, <1>13

-----------------------------------------------------------------------------
(* Media: who waits.                                                       *)

\* A request that is through stays so, and without a failure a text that is
\* there stays as it is.
TextsStay ==
  /\ faults' = 0 => faults = 0
  /\ \A a \in Asset : request[a] = "done" => request'[a] = "done"
  /\ \A a \in Asset : faults' = 0 /\ row[a].text # "none" => row'[a].text = row[a].text

LEMMA TextsAreKept ==
  ASSUME MediaFits, MediaInv, Media!Next
  PROVE  TextsStay
<1>1. /\ row \in [Asset -> Assets] /\ faults \in Nat
      /\ request \in [Asset -> {"new", "part", "row", "queue", "done", "failed"}]
  BY TypedAsAWhole, Counters DEF MediaInv, MediaTyped
<1>2. ASSUME NEW a \in Asset, request[a] # "done", NEW pc, Media!Request(a, pc)
      PROVE  \A b \in Asset : request[b] = "done" => request'[b] = "done"
  BY <1>1, <1>2 DEF Media!Request
<1>3. faults' = faults \/ faults' = faults + 1
  BY DEF Media!Next, Media!Step, Media!CreateAttached, Media!LinkPart, Media!CreateAsset,
     Media!UploadFile, Media!CreateUploaded, Media!Enqueue,
     Media!RequestFails, Media!StalledCheck, Media!StartJob, Media!FindAsset, Media!MarkProcessing,
     Media!Perceive, Media!MarkReady, Media!FetchAgain,
     Media!StoreCopy, Media!StoreRefused, Media!StorePath, Media!Catch, Media!SettleJob, Media!CallFails,
     Media!Crash, Media!StartWaiting,
     Media!StopWaiting, Media!WaitTimesOut, Media!BuildInput, Media!Fault
<1>4. faults' = 0 => faults = 0
  BY <1>1, <1>3
<1>5. \A a \in Asset : request[a] = "done" => request'[a] = "done"
  <2>1. CASE UNCHANGED request
    BY <2>1
  <2>2. CASE \E a \in Asset : Media!CreateAttached(a) \/ Media!LinkPart(a) \/ Media!CreateAsset(a) \/ Media!UploadFile(a)
                              \/ Media!CreateUploaded(a) \/ Media!Enqueue(a) \/ Media!RequestFails(a)
    BY <1>2, <2>2 DEF Media!CreateAttached, Media!LinkPart, Media!CreateAsset, Media!UploadFile,
       Media!CreateUploaded, Media!Enqueue,
       Media!RequestFails
  <2>3. QED
    BY <2>1, <2>2 DEF Media!Next, Media!Step, Media!StalledCheck, Media!StartJob, Media!FindAsset,
       Media!MarkProcessing, Media!Perceive, Media!MarkReady,
       Media!FetchAgain, Media!StoreCopy, Media!StoreRefused, Media!StorePath, Media!Catch,
       Media!SettleJob, Media!CallFails, Media!Crash, Media!StartWaiting,
       Media!StopWaiting, Media!WaitTimesOut, Media!BuildInput
<1>6. \A a \in Asset : faults' = 0 /\ row[a].text # "none" => row'[a].text = row[a].text
  <2>1. CASE UNCHANGED row
    BY <2>1
  <2>2. ASSUME NEW a \in Asset, Media!CreateAttached(a) \/ Media!CreateAsset(a) \/ Media!CreateUploaded(a)
        PROVE  \A b \in Asset : row'[b].text = row[b].text
    BY <1>1, <2>2 DEF Media!CreateAttached, Media!CreateAsset, Media!CreateUploaded, Assets
  <2>3. ASSUME NEW w \in Workers, Media!MarkProcessing(w) \/ Media!StorePath(w) \/ Media!Catch(w)
        PROVE  \A b \in Asset : row'[b].text = row[b].text
    <3>1. PICK a \in Asset : a = Media!Own(w)
      BY <2>3, OwnTypes DEF Media!MarkProcessing, Media!StorePath, Media!Catch, Media!At, Runs
    <3>2. QED
      BY <1>1, <2>3, <3>1 DEF Media!MarkProcessing, Media!StorePath, Media!Catch, Assets
  <2>4. ASSUME NEW w \in Workers, Media!MarkReady(w), faults = 0, NEW b \in Asset, row[b].text # "none"
        PROVE  row'[b].text = row[b].text
    <3>1. PICK a \in Asset : a = Media!Own(w)
      BY <2>4, OwnTypes DEF Media!MarkReady, Media!At, Runs
    <3>2. AssetInv(a) /\ jobs[a].state = "active" /\ worker[w].pc = "ready"
      BY <2>4, <3>1, OwnTypes DEF Media!MarkReady, Media!At, Runs, MediaInv
    <3>3. row[a].text = "none"
      BY <2>4, <3>1, <3>2 DEF AssetInv, IsReadOnce, HasRead
    <3>4. \E text \in Media!Outcomes : row' = [row EXCEPT ![a].status = "ready", ![a].text = text]
      BY <2>4, <3>1 DEF Media!MarkReady
    <3>5. row'[b] = row[b]
      BY <1>1, <2>4, <3>3, <3>4
    <3>6. QED
      BY <3>5
  <2>5. \/ UNCHANGED row
        \/ \E a \in Asset : Media!CreateAttached(a) \/ Media!CreateAsset(a) \/ Media!CreateUploaded(a)
        \/ \E w \in Workers : Media!MarkProcessing(w) \/ Media!StorePath(w) \/ Media!Catch(w)
        \/ \E w \in Workers : Media!MarkReady(w)
    BY DEF Media!Next, Media!Step, Media!LinkPart, Media!UploadFile, Media!Enqueue, Media!RequestFails,
       Media!StalledCheck, Media!StartJob, Media!FindAsset,
       Media!Perceive, Media!FetchAgain, Media!StoreCopy, Media!StoreRefused, Media!SettleJob,
       Media!CallFails, Media!Crash, Media!StartWaiting,
       Media!StopWaiting, Media!WaitTimesOut, Media!BuildInput, Media!rows
  <2>6. QED
    BY <1>4, <2>1, <2>2, <2>3, <2>4, <2>5
<1>7. QED
  BY <1>4, <1>5, <1>6 DEF TextsStay

\* What nobody is working on any more has been told.
LEMMA NothingPending ==
  ASSUME MediaFits, MediaInv, NEW a \in Media!Attached, faults = 0, request[a] = "done",
         row[a].status \notin Media!Unfinished, Media!Readable(a)
  PROVE  row[a].text # "none"
<1>1. a \in Asset /\ SourceOf[a] = "message"
  BY DEF Media!Attached
<1>2. AssetInv(a) /\ row[a] \in Assets
  BY <1>1, TypedAsAWhole DEF MediaInv, MediaTyped
<1>3. a \in HasUrl
  BY <1>1 DEF Media!Readable, MediaFits, Media!MediaAssumption
<1>4. row[a].status \notin {"absent", "stored", "failed"}
  BY <1>2, <1>3 DEF AssetInv, RowIsDue, IsReadOnce
<1>5. row[a].status = "ready"
  BY <1>2, <1>4 DEF Assets, Media!Unfinished
<1>6. QED
  BY <1>2, <1>5 DEF AssetInv, IsReadOnce

LEMMA ReadersKeep ==
  ASSUME MediaFits, MediaInv, Media!TypeOK', Media!Next
  PROVE  ReadersWait' /\ Media!AnswersWaitForText'
<1>1. /\ reader \in [Readers -> Run] /\ faults \in Nat /\ ReadersWait /\ Media!AnswersWaitForText
  BY TypedAsAWhole, Counters DEF MediaInv, MediaTyped
<1>2. TextsStay /\ \A a \in Media!Attached : a \in Asset
  BY TextsAreKept DEF Media!Attached
<1>3. CASE UNCHANGED reader
  <2>1. ReadersWait'
    BY <1>1, <1>2, <1>3 DEF ReadersWait, TextsStay, Media!Readable
  <2>2. ASSUME NEW r \in Readers, NEW a \in Media!Attached,
               reader[r].got[a] = "no text", ~reader[r].late, faults' = 0
        PROVE  row'[a].text = "empty" \/ ~Media!Readable(a)
    <3>1. faults = 0
      BY <1>2, <2>2 DEF TextsStay
    <3>2. row[a].text = "empty" \/ ~Media!Readable(a)
      BY <1>1, <2>2, <3>1 DEF Media!AnswersWaitForText
    <3>3. QED
      BY <1>2, <2>2, <3>2 DEF TextsStay
  <2>3. Media!AnswersWaitForText'
    BY <1>3, <2>2 DEF Media!AnswersWaitForText, Media!Readable
  <2>4. QED
    BY <2>1, <2>3
<1>4. ASSUME NEW r \in Readers, NEW l \in Run, reader' = [reader EXCEPT ![r] = l],
             UNCHANGED <<row, request, faults>>,
             \A a \in Media!Attached : request[a] = "done",
             l.pc = "build" /\ ~l.late /\ faults = 0 =>
               \A a \in Media!Attached : Media!Readable(a) /\ a \in Media!Processable => row[a].text # "none",
             \A a \in Media!Attached : l.got[a] = "no text" /\ ~l.late /\ faults = 0 =>
               row[a].text = "empty" \/ ~Media!Readable(a)
      PROVE  ReadersWait' /\ Media!AnswersWaitForText'
  <2>1. reader'[r] = l /\ \A q \in Readers \ {r} : reader'[q] = reader[q]
    BY <1>1, <1>4
  <2>2. ReadersWait'
    BY <1>1, <1>4, <2>1 DEF ReadersWait, Media!Readable
  <2>3. Media!AnswersWaitForText'
    BY <1>1, <1>4, <2>1 DEF Media!AnswersWaitForText, Media!Readable
  <2>4. QED
    BY <2>2, <2>3
<1>5. ASSUME NEW r \in Readers PROVE reader[r] \in Run
  BY <1>1
<1>6. ASSUME NEW r \in Readers, Media!StartWaiting(r) PROVE ReadersWait' /\ Media!AnswersWaitForText'
  <2>1. PICK l : l = [reader[r] EXCEPT !.pc = "wait"]
    OBVIOUS
  <2>2. l \in Run /\ l.pc = "wait" /\ l.late = reader[r].late /\ l.got = reader[r].got
    BY <1>5, <2>1 DEF Run
  <2>3. reader' = [reader EXCEPT ![r] = l] /\ UNCHANGED <<row, request, faults>>
        /\ \A a \in Media!Attached : request[a] = "done"
    BY <1>6, <2>1 DEF Media!StartWaiting, Media!rows
  <2>4. \A a \in Media!Attached : l.got[a] = "no text" /\ ~l.late /\ faults = 0 =>
           row[a].text = "empty" \/ ~Media!Readable(a)
    BY <1>1, <2>2 DEF Media!AnswersWaitForText
  <2>5. QED
    BY <1>4, <2>2, <2>3, <2>4
<1>7. ASSUME NEW r \in Readers, Media!StopWaiting(r) PROVE ReadersWait' /\ Media!AnswersWaitForText'
  <2>1. PICK l : l = [reader[r] EXCEPT !.pc = "build"]
    OBVIOUS
  <2>2. l \in Run /\ l.pc = "build" /\ l.late = reader[r].late /\ l.got = reader[r].got
    BY <1>5, <2>1 DEF Run
  <2>3. reader' = [reader EXCEPT ![r] = l] /\ UNCHANGED <<row, request, faults>> /\ reader[r].pc = "wait"
        /\ ~Media!StillPending
    BY <1>7, <2>1 DEF Media!StopWaiting, Media!rows
  <2>4. \A a \in Media!Attached : l.got[a] = "no text" /\ ~l.late /\ faults = 0 =>
           row[a].text = "empty" \/ ~Media!Readable(a)
    BY <1>1, <2>2 DEF Media!AnswersWaitForText
  <2>5. \A a \in Media!Attached : request[a] = "done" /\ row[a].status \notin Media!Unfinished
    BY <1>1, <2>3 DEF ReadersWait, Media!StillPending
  <2>6. faults = 0 => \A a \in Media!Attached : Media!Readable(a) => row[a].text # "none"
    BY <2>5, NothingPending
  <2>7. QED
    BY <1>4, <2>2, <2>3, <2>4, <2>5, <2>6
<1>8. ASSUME NEW r \in Readers, Media!WaitTimesOut(r) PROVE ReadersWait' /\ Media!AnswersWaitForText'
  <2>1. PICK l : l = [[reader[r] EXCEPT !.pc = "build"] EXCEPT !.late = TRUE]
    OBVIOUS
  <2>2. l \in Run /\ l.late
    BY <1>5, <2>1 DEF Run
  <2>3. reader' = [reader EXCEPT ![r] = [[reader[r] EXCEPT !.pc = "build"] EXCEPT !.late = TRUE]]
    BY <1>1, <1>8 DEF Media!WaitTimesOut, Run
  <2>4. reader' = [reader EXCEPT ![r] = l] /\ UNCHANGED <<row, request, faults>> /\ reader[r].pc = "wait"
    BY <1>8, <2>1, <2>3 DEF Media!WaitTimesOut, Media!rows
  <2>5. \A a \in Media!Attached : request[a] = "done"
    BY <1>1, <2>4 DEF ReadersWait
  <2>6. QED
    BY <1>4, <2>2, <2>4, <2>5
<1>9. ASSUME NEW r \in Readers, Media!BuildInput(r) PROVE ReadersWait' /\ Media!AnswersWaitForText'
  <2>1. PICK got \in [Media!Attached -> {"nothing", "file", "text", "no text", "name"}] :
          got = [a \in Media!Attached |-> Media!InputPart(a)]
    BY DEF Media!InputPart
  <2>2. PICK l : l = [[reader[r] EXCEPT !.pc = "done"] EXCEPT !.got = got]
    OBVIOUS
  <2>3. l \in Run /\ l.pc = "done" /\ l.late = reader[r].late /\ l.got = got
    BY <1>5, <2>2 DEF Run
  <2>4. reader' = [reader EXCEPT ![r] = [[reader[r] EXCEPT !.pc = "done"] EXCEPT !.got = got]]
    BY <1>1, <1>9, <2>1 DEF Media!BuildInput, Run
  <2>5. reader' = [reader EXCEPT ![r] = l] /\ UNCHANGED <<row, request, faults>> /\ reader[r].pc = "build"
    BY <1>9, <2>2, <2>4 DEF Media!BuildInput, Media!rows
  <2>6. \A a \in Media!Attached : request[a] = "done"
    BY <1>1, <2>5 DEF ReadersWait
  <2>7. ASSUME NEW a \in Media!Attached, got[a] = "no text", ~l.late, faults = 0, Media!Readable(a)
        PROVE  row[a].text = "empty"
    <3>1. Media!InputPart(a) = "no text"
      BY <2>1, <2>7
    <3>2. row[a].text # "some"
      BY <3>1 DEF Media!InputPart
    <3>3. a \in Media!Processable
      BY <2>7 DEF Media!Readable, Media!Processable, Media!Attached, MediaFits, Media!MediaAssumption
    <3>4. row[a].text # "none"
      BY <1>1, <2>3, <2>5, <2>7, <3>3 DEF ReadersWait
    <3>5. row[a] \in Assets
      BY <1>2, TypedAsAWhole DEF MediaInv, MediaTyped
    <3>6. QED
      BY <3>2, <3>4, <3>5 DEF Assets
  <2>8. QED
    BY <1>4, <2>3, <2>5, <2>6, <2>7
<1>10. QED
  BY <1>3, <1>6, <1>7, <1>8, <1>9 DEF Media!Next, Media!Step, Media!CreateAttached, Media!LinkPart,
     Media!CreateAsset, Media!UploadFile,
     Media!CreateUploaded, Media!Enqueue, Media!RequestFails, Media!StalledCheck, Media!StartJob,
     Media!FindAsset, Media!MarkProcessing, Media!Perceive,
     Media!MarkReady, Media!FetchAgain, Media!StoreCopy, Media!StoreRefused, Media!StorePath,
     Media!Catch, Media!SettleJob, Media!CallFails, Media!Crash

\* The readers leave the assets alone.
LEMMA MediaReadingKeeps ==
  ASSUME MediaFits, MediaInv, Media!TypeOK', UNCHANGED <<row, files, request, jobs, worker, faults>>
  PROVE  MediaRuns' /\ (\A b \in Asset : AssetInv(b)') /\ RisksAreCounted'
<1>1. MediaRuns'
  BY DEF MediaInv, MediaRuns, Runs, Media!Own
<1>2. \A b \in Asset : AssetStays(b)
  BY DEF AssetStays
<1>3. \A b \in Asset : AssetInv(b)'
  BY <1>2, AssetFrame, Counters DEF MediaInv
<1>4. {a \in Media!Processable : AtRisk(a)'} = {a \in Media!Processable : AtRisk(a)}
  BY DEF AtRisk, Attended, Media!Own
<1>5. RisksAreCounted'
  BY <1>4 DEF MediaInv, RisksAreCounted
<1>6. QED
  BY <1>1, <1>3, <1>5

LEMMA MediaBegins ==
  ASSUME MediaFits, Media!Init
  PROVE  MediaInv
<1>1. MediaTyped
  <2>1. row \in [Asset -> Assets] /\ worker \in [Workers -> RunOfAsset]
    BY DEF Media!Init, Assets, RunOfAsset, Media!Idle
  <2>2. jobs \in [Asset -> Media!JobOf(Asset)]
    <3>1. 0 \in 0..MaxAttempts /\ 0 \in 0..MaxStalls
      BY DEF MediaFits
    <3>2. QED
      BY <3>1 DEF Media!Init, Media!NoJob, Media!JobOf, Media!JobStates
  <2>3. reader \in [Readers -> Run]
    BY DEF Media!Init, Media!Waiting, Run
  <2>4. faults \in 0..MaxFaults
    BY DEF Media!Init, MediaFits, Media!MediaAssumption
  <2>5. linked \subseteq Media!Attached /\ files \subseteq Asset
    BY DEF Media!Init, MediaFits, Media!MediaAssumption
  <2>6. request \in [Asset -> {"new", "part", "row", "queue", "done", "failed"}]
    BY DEF Media!Init
  <2>7. QED
    BY <2>1, <2>2, <2>3, <2>4, <2>5, <2>6 DEF MediaTyped
<1>2. /\ \A w \in Workers : ~Runs(w) /\ Media!Own(w) = None
      /\ None \notin Asset /\ faults = 0 /\ MaxAttempts \in Nat \ {0}
  BY DEF Media!Init, Runs, Media!Own, Media!Idle, MediaFits, Media!MediaAssumption
<1>3. MediaRuns
  BY <1>2 DEF MediaRuns
<1>4. ASSUME NEW a \in Asset PROVE AssetInv(a)
  <2>1. /\ row[a].status = "absent" /\ ~row[a].path /\ row[a].text = "none"
        /\ request[a] = "new" /\ files = HasPath
        /\ jobs[a].state = "absent" /\ jobs[a].attempts = 0 /\ jobs[a].stalls = 0 /\ jobs[a].data = a
    BY DEF Media!Init, Media!NoJob
  <2>2. \A w \in Workers : Media!Own(w) # a
    BY <1>2
  <2>3. JobIsDue(a) /\ RowIsDue(a) /\ RunIsDue(a) /\ AssetIsTold(a)
    BY <2>1, <2>2 DEF JobIsDue, RowIsDue, RunIsDue, AssetIsTold, IsRegistered
  <2>4. ~Broken(a) /\ ~IsGivenUp(a)
    BY <2>1, <2>2 DEF Broken, IsGivenUp
  <2>5. CostIsPaid(a)
    <3>1. Cost(a) = 0
      BY <2>1, <2>4 DEF Cost, One
    <3>2. QED
      BY <1>2, <2>1, <3>1 DEF CostIsPaid
  <2>6. BrokenIsLate(a) /\ IsReadOnce(a)
    BY <2>1, <2>4 DEF BrokenIsLate, IsReadOnce
  <2>7. QED
    BY <2>3, <2>5, <2>6 DEF AssetInv
<1>5. RisksAreCounted
  <2>1. {a \in Media!Processable : AtRisk(a)} = {}
    BY DEF AtRisk, Media!Processable, Media!Init
  <2>2. QED
    BY <1>2, <2>1, FS_EmptySet DEF RisksAreCounted
<1>6. ReadersWait /\ Media!AnswersWaitForText
  BY DEF Media!Init, Media!Waiting, ReadersWait, Media!AnswersWaitForText
<1>7. QED
  BY <1>1, <1>3, <1>4, <1>5, <1>6, TypedAsAWhole DEF MediaInv

LEMMA MediaGoesOn ==
  ASSUME MediaFits, MediaInv, [Media!Next]_Media!vars
  PROVE  MediaInv'
<1>1. CASE Media!Next
  <2>1. Media!TypeOK'
    BY <1>1, MediaTypes
  <2>2. ReadersWait' /\ Media!AnswersWaitForText'
    BY <1>1, <2>1, ReadersKeep
  <2>3. MediaRuns' /\ (\A b \in Asset : AssetInv(b)') /\ RisksAreCounted'
    <3>1. ASSUME NEW a \in Asset,
                 Media!CreateAttached(a) \/ Media!LinkPart(a) \/ Media!CreateAsset(a) \/ Media!UploadFile(a)
                   \/ Media!CreateUploaded(a) \/ Media!Enqueue(a) \/ Media!RequestFails(a)
          PROVE  MediaRuns' /\ (\A b \in Asset : AssetInv(b)') /\ RisksAreCounted'
      BY <2>1, <3>1, RequestStepKeeps
    <3>2. ASSUME NEW a \in Asset, Media!StalledCheck(a)
          PROVE  MediaRuns' /\ (\A b \in Asset : AssetInv(b)') /\ RisksAreCounted'
      BY <2>1, <3>2, StalledCheckKeeps
    <3>3. ASSUME NEW w \in Workers, NEW a \in Asset, Media!StartJob(w, a)
          PROVE  MediaRuns' /\ (\A b \in Asset : AssetInv(b)') /\ RisksAreCounted'
      BY <2>1, <3>3, StartJobKeeps
    <3>4. ASSUME NEW w \in Workers, Media!Step(w)
          PROVE  MediaRuns' /\ (\A b \in Asset : AssetInv(b)') /\ RisksAreCounted'
      BY <2>1, <3>4, FindAssetKeeps, MarkProcessingKeeps, PerceiveKeeps, MarkReadyKeeps, FetchAgainKeeps,
         StoreCopyKeeps, StoreRefusedKeeps, StorePathKeeps, CatchKeeps, SettleJobKeeps DEF Media!Step
    <3>5. ASSUME NEW w \in Workers, Media!CallFails(w) \/ Media!Crash(w)
          PROVE  MediaRuns' /\ (\A b \in Asset : AssetInv(b)') /\ RisksAreCounted'
      BY <2>1, <3>5, CallFailsKeeps, MediaCrashKeeps
    <3>6. ASSUME NEW r \in Readers,
    Media!StartWaiting(r) \/ Media!StopWaiting(r) \/ Media!WaitTimesOut(r) \/ Media!BuildInput(r)
          PROVE  MediaRuns' /\ (\A b \in Asset : AssetInv(b)') /\ RisksAreCounted'
      <4>1. UNCHANGED <<row, files, request, jobs, worker, faults>>
        BY <3>6 DEF Media!StartWaiting, Media!StopWaiting, Media!WaitTimesOut, Media!BuildInput, Media!rows
      <4>2. QED
        BY <2>1, <4>1, MediaReadingKeeps
    <3>7. QED
      BY <1>1, <3>1, <3>2, <3>3, <3>4, <3>5, <3>6 DEF Media!Next
  <2>4. QED
    BY <2>1, <2>2, <2>3 DEF MediaInv
<1>2. CASE UNCHANGED Media!vars
  <2>1. UNCHANGED <<row, linked, files, request, jobs, worker, reader, faults>>
    BY <1>2 DEF Media!vars
  <2>2. Media!TypeOK'
    BY <2>1 DEF MediaInv, Media!TypeOK
  <2>3. MediaRuns' /\ (\A b \in Asset : AssetInv(b)') /\ RisksAreCounted'
    BY <2>1, <2>2, MediaReadingKeeps
  <2>4. ReadersWait' /\ Media!AnswersWaitForText'
    BY <2>1 DEF MediaInv, ReadersWait, Media!AnswersWaitForText, Media!Readable
  <2>5. QED
    BY <2>2, <2>3, <2>4 DEF MediaInv
<1>3. QED
  BY <1>1, <1>2

LEMMA MediaTells ==
  ASSUME MediaFits, MediaInv
  PROVE  Media!JobsTellTheirAsset /\ Media!PathsHaveFiles /\ Media!AnswersWaitForText
<1>1. Media!StuckNeedFaults
  <2>1. PICK S : S = {a \in Media!Processable : AtRisk(a)}
    OBVIOUS
  <2>2. PICK T : T = {a \in Media!Processable : /\ row[a].status \in Media!Unfinished
                                   /\ request[a] \in {"done", "failed"}
                                   /\ ~Media!Unsettled(a)}
    OBVIOUS
  <2>3. T \subseteq S
    <3>1. ASSUME NEW a \in Asset, ~Media!Unsettled(a) PROVE ~Attended(a)
      <4>1. jobs[a].state \notin {"waiting", "active", "delayed"}
        BY <3>1 DEF Media!Unsettled
      <4>2. \A w \in Workers : Media!Own(w) # a
        BY <4>1, Resting
      <4>3. QED
        BY <4>1, <4>2 DEF Attended
    <3>2. QED
      BY <2>1, <2>2, <3>1 DEF AtRisk, Media!Processable
  <2>4. S \subseteq Asset /\ IsFiniteSet(Asset)
    BY <2>1, MediaFiniteSets DEF Media!Processable, MediaFits, Media!MediaAssumption
  <2>5. IsFiniteSet(S)
    BY <2>4, FS_Subset
  <2>6. Cardinality(T) <= Cardinality(S) /\ IsFiniteSet(T)
    BY <2>3, <2>5, FS_Subset
  <2>7. Cardinality(T) \in Nat /\ Cardinality(S) \in Nat
    BY <2>5, <2>6, FS_CardinalityType
  <2>8. Cardinality(S) <= faults /\ faults \in Nat
    BY <2>1, Counters DEF MediaInv, RisksAreCounted
  <2>9. Cardinality(T) <= faults
    BY <2>6, <2>7, <2>8
  <2>10. QED
    BY <2>2, <2>9, MediaFiniteSets DEF Media!StuckNeedFaults
<1>2. Media!SettledJobsTell
  BY DEF MediaInv, AssetInv, AssetIsTold, CostIsPaid, Media!SettledJobsTell
<1>3. Media!PathsHaveFiles
  BY DEF MediaInv, AssetInv, AssetIsTold, Media!PathsHaveFiles
<1>4. QED
  BY <1>1, <1>2, <1>3 DEF Media!JobsTellTheirAsset, MediaInv

LEMMA MediaHolds ==
  ASSUME MediaFits
  PROVE  Media!Spec => []MediaInv
<1>1. Media!Init => MediaInv
  BY MediaBegins
<1>2. MediaInv /\ [Media!Next]_Media!vars => MediaInv'
  BY MediaGoesOn
<1>3. QED
  BY <1>1, <1>2, PTL DEF Media!Spec

\* For any assets, workers, attempts and failures, and each kind of storage: a
\* completed media job has made its asset ready with a text, one whose asset can
\* be read is given up only after as many failures as it has attempts or stalls,
\* and no more assets are shown as being worked on for ever than there were
\* failures (process() of media.processor.ts, its catch and Bull's retries).
THEOREM MediaJobsTell ==
  ASSUME MediaFits
  PROVE  Media!Spec => []JobsTellTheirAsset
<1>1. MediaInv => Media!JobsTellTheirAsset
  BY MediaTells
<1>2. QED
  BY <1>1, MediaHolds, PTL DEF JobsTellTheirAsset

\* A storage path leads to a file, unless the local storage has swallowed an error.
THEOREM MediaPathsLead ==
  ASSUME MediaFits
  PROVE  Media!Spec => []PathsHaveFiles
<1>1. MediaInv => Media!PathsHaveFiles
  BY MediaTells
<1>2. QED
  BY <1>1, MediaHolds, PTL DEF PathsHaveFiles

\* A run that waited for the sound or image of its message, in time and without
\* a failure, is told of a missing text only when there is none: for any number
\* of runs, attachments and workers (waitForMediaProcessing, buildInputParts).
THEOREM MediaAnswersWait ==
  ASSUME MediaFits
  PROVE  Media!Spec => []AnswersWaitForText
<1>1. MediaInv => Media!AnswersWaitForText
  BY MediaTells
<1>2. QED
  BY <1>1, MediaHolds, PTL DEF AnswersWaitForText

-----------------------------------------------------------------------------
(* AgentTurn: the inductive invariant.                                     *)

Preparing == {"read", "choose", "save"}

Searches == {"embed", "text", "close", "giveup"}

Talking == {"rag", "ask", "tool", "write", "reply", "answer"} \cup Searches

Locals ==
  [pc : {"idle", "answered", "failed"} \cup Preparing \cup Talking, seen : Turn!States,
   agent : Turn!ClientAgents \cup {Default, None}, owed : Turn!ClientAgents \cup {None}, met : BOOLEAN,
   attempt : Nat, round : Seq(Calls), asked : Nat, used : Nat, overtaken : Nat, provider : Nat,
   context : BOOLEAN]

TurnTypes == Turn!TypeOK /\ turn \in [Turns -> Locals]

\* Calls are counted, and are there when a tool is to be called.
Counted(l) ==
  /\ l.asked = l.used + l.overtaken + Len(l.round)
  /\ l.context => l.pc \in {"rag"} \cup Searches
  /\ l.pc \in {"idle", "answered", "failed", "ask", "answer"} \cup Preparing => l.round = <<>>
  /\ l.context => l.round = <<>>
  /\ l.pc \in {"tool", "write", "reply"} => l.round # <<>>
  /\ l.pc \in {"rag"} \cup Searches /\ ~l.context => l.round # <<>>
  /\ l.pc = "write" /\ Head(l.round).tool = "switch_agent" => Head(l.round).arg \in Turn!ClientAgents

CallsCounted == \A t \in Turns : Counted(turn[t])

Searched(t) == turn[t].pc \in Searches

\* A search that is under way has a row of its own.
SearchesCounted ==
  \A t \in Turns :
    /\ Searched(t) => running[t] >= 1
    /\ running[t] <= faults + One(Searched(t))

Holding == {"choose", "save", "write"}

\* Runs that overlap know it; a run that met no other has seen the state as it is.
Meetings ==
  /\ \A s, t \in Turn!UnderWay : s # t => turn[s].met /\ turn[t].met
  /\ \A t \in Turns : turn[t].pc \in Holding /\ ~turn[t].met => turn[t].seen = conv

\* The state has an agent once a run has saved one.
AgentsSaved ==
  /\ \A t \in Turns : turn[t].pc = "save" => turn[t].agent # None
  /\ \A t \in Turns : turn[t].pc \in Talking => conv.current # None
  /\ \A t \in Turns : turn[t].pc = "write" => turn[t].seen.current # None

\* What was announced is in the state, as long as nobody else could undo it.
Announced ==
  announced # None =>
    conv.pending = announced /\ conv.current # None /\ \A t \in Turn!UnderWay : ~turn[t].met

\* What a run owes is in the state it is going to read, and in every state
\* another one may still write.
Owing ==
  \A t \in Turns : Turn!At(t, "read") /\ turn[t].owed # None =>
    /\ conv.pending = turn[t].owed /\ conv.current # None
    /\ \A s \in Turns : turn[s].pc \in Holding => turn[s].seen.pending = turn[t].owed

\* The agent a run chose is the one it owes.
Chosen ==
  \A t \in Turns :
    /\ Turn!At(t, "choose") /\ turn[t].owed # None =>
         turn[t].seen.pending = turn[t].owed /\ turn[t].seen.current # None
    /\ turn[t].pc \in {"save"} \cup Talking /\ turn[t].owed \in active => turn[t].agent = turn[t].owed

SwitchInv == AgentsSaved /\ Announced /\ Owing /\ Chosen

TurnInv == TurnTypes /\ CallsCounted /\ SearchesCounted /\ Meetings /\ SwitchInv

-----------------------------------------------------------------------------
(* Types.                                                                  *)

LEMMA TurnLocal ==
  ASSUME TurnTypes, NEW t \in Turns
  PROVE  turn[t] \in Locals
BY DEF TurnTypes

LEMMA TurnBecomes ==
  ASSUME TurnTypes, NEW t \in Turns, NEW local, Turn!Becomes(t, local)
  PROVE  /\ turn'[t] = local
         /\ \A s \in Turns : s # t => turn'[s] = turn[s]
         /\ local \in Locals => turn' \in [Turns -> Locals]
BY DEF Turn!Becomes, TurnTypes

\* The agents of the client are in the order of execution.
LEMMA AgentsInOrder ==
  ASSUME Turn!TurnAssumption
  PROVE  /\ Order \in Seq(Turn!ClientAgents)
         /\ None \notin Turn!ClientAgents /\ Default \notin Turn!ClientAgents /\ Default # None
BY DEF Turn!TurnAssumption

\* The first of some agents is one of them.
LEMMA FirstOfSome ==
  ASSUME NEW n \in Nat, Order \in [1..n -> Turn!ClientAgents], NEW S, S \cap Turn!ClientAgents # {}
  PROVE  Turn!First(S) \in S /\ Turn!First(S) \in Turn!ClientAgents
<1> DEFINE T == {i \in 1..n : Order[i] \in S}
<1>1. DOMAIN Order = 1..n
  OBVIOUS
<1>2. PICK a \in Turn!ClientAgents : a \in S
  OBVIOUS
<1>3. PICK k \in 1..n : Order[k] = a
  BY <1>1, <1>2 DEF Turn!ClientAgents
<1>4. k \in T
  BY <1>2, <1>3
<1>5. T \subseteq Nat /\ T # {}
  BY <1>4
<1>6. PICK i \in T : \A j \in T : <<j, i>> \notin OpToRel(<, Nat)
  BY <1>5, WFMin, NatLessThanWellFounded
<1>7. i \in 1..n /\ Order[i] \in S
  BY <1>6
<1>8. ASSUME NEW j \in 1..(i - 1)
      PROVE  Order[j] \notin S
  <2>1. j \in 1..n /\ j < i /\ j \in Nat /\ i \in Nat
    BY <1>7
  <2>2. CASE Order[j] \in S
    <3>1. j \in T
      BY <2>1, <2>2
    <3>2. <<j, i>> \in OpToRel(<, Nat)
      BY <2>1 DEF OpToRel
    <3>3. QED
      BY <3>1, <3>2, <1>6
  <2>3. QED
    BY <2>2
<1>9. \E m \in DOMAIN Order : Order[m] \in S /\ \A j \in 1..(m - 1) : Order[j] \notin S
  BY <1>1, <1>7, <1>8
<1>10. Order[CHOOSE m \in DOMAIN Order : Order[m] \in S /\ \A j \in 1..(m - 1) : Order[j] \notin S]
         \in S \cap Turn!ClientAgents
  <2> DEFINE m0 == CHOOSE m \in DOMAIN Order : Order[m] \in S /\ \A j \in 1..(m - 1) : Order[j] \notin S
  <2>1. m0 \in DOMAIN Order /\ Order[m0] \in S
    BY <1>9
  <2> HIDE DEF m0
  <2>2. Order[m0] \in Turn!ClientAgents
    BY <2>1, <1>1
  <2>3. QED
    BY <2>1, <2>2 DEF m0
<1>11. QED
  BY <1>10 DEF Turn!First

\* The agent that is chosen is one of the client's, or the default one; it is
\* the pending one, if there is one and the conversation has begun.
LEMMA ChosenAgent ==
  ASSUME Turn!TurnAssumption, TurnTypes, NEW state \in Turn!States
  PROVE  /\ Turn!resolveAgentConfig(state) \in Turn!ClientAgents \cup {Default}
         /\ Turn!resolveAgentConfig(state) # None
         /\ state.current # None /\ state.pending \in active =>
              Turn!resolveAgentConfig(state) = state.pending
<1>1. Order \in Seq(Turn!ClientAgents) /\ active \subseteq Turn!ClientAgents
  BY AgentsInOrder DEF TurnTypes, Turn!TypeOK
<1>2. PICK n \in Nat : Order \in [1..n -> Turn!ClientAgents]
  BY <1>1
<1>3. ASSUME active # {}
      PROVE  Turn!First(active) \in Turn!ClientAgents
  BY <1>1, <1>2, <1>3, FirstOfSome
<1>4. ASSUME active # {}
      PROVE  Turn!First(IF active \cap Initial # {} THEN active \cap Initial ELSE active) \in Turn!ClientAgents
  <2>1. (IF active \cap Initial # {} THEN active \cap Initial ELSE active) \cap Turn!ClientAgents # {}
    BY <1>1, <1>4
  <2>2. QED
    BY <1>2, <2>1, FirstOfSome
<1>5. ASSUME Turn!TakingOver(state) # {}
      PROVE  Turn!First(Turn!TakingOver(state)) \in Turn!ClientAgents
  <2>1. Turn!TakingOver(state) \subseteq active
    BY DEF Turn!TakingOver
  <2>2. QED
    BY <1>1, <1>2, <1>5, <2>1, FirstOfSome
<1>6. Turn!resolveAgentConfig(state) \in Turn!ClientAgents \cup {Default}
  BY <1>1, <1>3, <1>4, <1>5 DEF Turn!resolveAgentConfig
<1>7. state.current # None /\ state.pending \in active => Turn!resolveAgentConfig(state) = state.pending
  BY DEF Turn!resolveAgentConfig
<1>8. QED
  BY <1>6, <1>7, AgentsInOrder

\* What a step is.
LEMMA TurnStep ==
  ASSUME [Turn!Next]_Turn!vars
  PROVE  \/ UNCHANGED Turn!vars
         \/ \E t \in Turns : Turn!Step(t) \/ Turn!ProviderFails(t) \/ Turn!CallFails(t) \/ Turn!Crash(t)
         \/ Turn!LockExpires
         \/ \E a \in Turn!ClientAgents : Turn!Deactivate(a)
BY DEF Turn!Next

LEMMA NothingSeen ==
  ASSUME Turn!TurnAssumption
  PROVE  /\ Turn!Idle.seen \in Turn!States /\ Turn!Idle.seen.current = None /\ Turn!Idle.seen.pending = None
         /\ Turn!Idle \in Locals
         /\ \A pc \in {"idle", "answered", "failed", "read"} : [Turn!Idle EXCEPT !.pc = pc] \in Locals
<1>1. None \in Turn!ClientAgents \cup {None} /\ [v \in Vars |-> None] \in [Vars -> Values \cup {None}]
  OBVIOUS
<1>2. Turn!Idle.seen = [current |-> None, pending |-> None, vars |-> [v \in Vars |-> None]]
  BY DEF Turn!Idle
<1>3. Turn!Idle.seen \in Turn!States
  BY <1>1, <1>2 DEF Turn!States
<1>4. PICK none : none = [current |-> None, pending |-> None, vars |-> [v \in Vars |-> None]]
  OBVIOUS
<1>5. Turn!Idle = [pc |-> "idle", seen |-> none, agent |-> None, owed |-> None, met |-> FALSE, attempt |-> 0,
              round |-> <<>>, asked |-> 0, used |-> 0, overtaken |-> 0, provider |-> 0, context |-> FALSE]
  BY <1>4 DEF Turn!Idle
<1>6. none = Turn!Idle.seen
  BY <1>5
<1>7. <<>> \in Seq(Calls) /\ 0 \in Nat
  OBVIOUS
<1>8. Turn!Idle \in Locals
  BY <1>3, <1>7, <1>5, <1>6 DEF Locals
<1>9. ASSUME NEW pc \in {"idle", "answered", "failed", "read"}
      PROVE  [Turn!Idle EXCEPT !.pc = pc] \in Locals
  BY <1>8 DEF Locals, Preparing
<1>10. QED
  BY <1>2, <1>3, <1>8, <1>9

\* What a run that fails an attempt, or ends, becomes.
LEMMA AttemptFailsTo ==
  ASSUME Turn!TurnAssumption, TurnTypes, NEW t \in Turns, Turn!AttemptFails(t)
  PROVE  \E local \in Locals :
           /\ Turn!Becomes(t, local)
           /\ \/ /\ local.pc = "ask" /\ local.round = <<>> /\ local.context = FALSE
                 /\ local.used = turn[t].asked /\ local.asked = turn[t].asked
                 /\ local.overtaken = 0 /\ local.agent = turn[t].agent
                 /\ local.owed = turn[t].owed /\ local.met = turn[t].met
              \/ local = [Turn!Idle EXCEPT !.pc = "failed"]
<1>1. turn[t] \in Locals
  BY TurnLocal
<1>2. Turn!Idle.seen \in Turn!States /\ [Turn!Idle EXCEPT !.pc = "failed"] \in Locals
  BY NothingSeen
<1>3. CASE turn[t].attempt < Turn!LastAttempt
  <2> DEFINE local == [turn[t] EXCEPT !.pc = "ask", !.attempt = @ + 1, !.round = <<>>,
                                       !.used = turn[t].asked, !.overtaken = 0,
                                       !.provider = 0, !.context = FALSE, !.seen = Turn!Idle.seen]
  <2>1. Turn!Becomes(t, local)
    BY <1>3 DEF Turn!AttemptFails
  <2>2. local \in Locals
    <3>1. PICK n \in Nat : turn[t].attempt + 1 = n
      <4>1. turn[t].attempt \in Nat
        BY <1>1 DEF Locals
      <4>2. QED
        BY <4>1
    <3>2. local = [turn[t] EXCEPT !.pc = "ask", !.attempt = n, !.round = <<>>,
                                  !.used = turn[t].asked, !.overtaken = 0,
                                  !.provider = 0, !.context = FALSE, !.seen = Turn!Idle.seen]
      BY <3>1
    <3>3. <<>> \in Seq(Calls) /\ 0 \in Nat /\ "ask" \in Talking
      BY DEF Talking
    <3>4. QED
      BY <1>1, <1>2, <3>2, <3>3 DEF Locals
  <2>3. /\ local.pc = "ask" /\ local.round = <<>> /\ local.context = FALSE
        /\ local.used = turn[t].asked /\ local.asked = turn[t].asked
        /\ local.overtaken = 0 /\ local.agent = turn[t].agent
        /\ local.owed = turn[t].owed /\ local.met = turn[t].met
    BY <1>1 DEF Locals
  <2> HIDE DEF local
  <2>4. QED
    BY <2>1, <2>2, <2>3
<1>4. CASE ~(turn[t].attempt < Turn!LastAttempt)
  BY <1>2, <1>4 DEF Turn!AttemptFails, Turn!Ends
<1>5. QED
  BY <1>3, <1>4

\* What the model calls next.
LEMMA RepliesAreCalls ==
  ASSUME NEW t \in Turns, NEW reply \in Turn!Replies(t)
  PROVE  reply \in Seq(Calls) /\ Len(reply) \in Nat
<1>1. reply = <<>> \/ (\E c \in Calls : reply = <<c>>) \/ reply \in Calls \X Calls
  BY DEF Turn!Replies
<1>2. CASE reply = <<>>
  BY <1>2
<1>3. CASE \E c \in Calls : reply = <<c>>
  BY <1>3
<1>4. CASE reply \in Calls \X Calls
  <2>1. PICK c \in Calls, d \in Calls : reply = <<c, d>>
    BY <1>4
  <2>2. QED
    BY <2>1
<1>5. QED
  BY <1>1, <1>2, <1>3, <1>4

-----------------------------------------------------------------------------
(* Steps that leave the state of the conversation alone.                   *)

SameCalls(l, m) ==
  /\ m.agent = l.agent /\ m.owed = l.owed /\ m.met = l.met
  /\ m.round = l.round /\ m.asked = l.asked /\ m.used = l.used /\ m.overtaken = l.overtaken

\* A run in its exchange stays there, without a state to write, or ends.
GoesOn(l, m) ==
  /\ Counted(m)
  /\ \/ m.pc \in {"answered", "failed"}
     \/ /\ l.pc \in Talking /\ m.pc \in Talking \ {"write"}
        /\ m.agent = l.agent /\ m.owed = l.owed /\ m.met = l.met

\* What happens to the rows of searches that are shown as running.
RowsMove(t, m) ==
  \/ running' = running /\ faults' = faults /\ (Searched(t) <=> m.pc \in Searches)
  \/ running' = running /\ faults' = faults + 1 /\ (m.pc \in Searches => Searched(t))
  \/ /\ running' = [running EXCEPT ![t] = @ + 1] /\ faults' = faults
     /\ ~Searched(t) /\ m.pc \in Searches
  \/ /\ running' = [running EXCEPT ![t] = @ - 1] /\ faults' = faults
     /\ Searched(t) /\ m.pc \notin Searches

QuietStep(t) ==
  /\ UNCHANGED <<conv, active, announced>>
  /\ mode' \in {"auto", "manual"} /\ lock' \in BOOLEAN /\ faults' \in 0..MaxFaults
  /\ \E m \in Locals : Turn!Becomes(t, m) /\ GoesOn(turn[t], m) /\ RowsMove(t, m)

LEMMA StaysCounted ==
  ASSUME NEW l \in Locals, Counted(l), NEW m \in Locals, SameCalls(l, m),
         l.pc \in Talking, m.pc \in Talking \ {"write"},
         m.context => l.context /\ m.pc \in {"rag"} \cup Searches,
         m.pc \in {"ask", "answer"} => l.round = <<>>,
         m.pc \notin {"ask", "answer"} /\ ~m.context => l.round # <<>>
  PROVE  GoesOn(l, m)
<1>1. m.asked = m.used + m.overtaken + Len(m.round)
  BY DEF SameCalls, Counted
<1>2. m.context => m.round = <<>>
  BY DEF SameCalls, Counted
<1>3. m.pc \in {"idle", "answered", "failed", "ask", "answer"} \cup Preparing => m.round = <<>>
  BY DEF SameCalls, Talking, Preparing, Searches
<1>4. m.pc \in {"tool", "write", "reply"} => m.round # <<>>
  BY DEF SameCalls, Talking, Searches
<1>5. m.pc \in {"rag"} \cup Searches /\ ~m.context => m.round # <<>>
  BY DEF SameCalls, Searches
<1>6. Counted(m)
  BY <1>1, <1>2, <1>3, <1>4, <1>5 DEF Counted
<1>7. QED
  BY <1>6 DEF GoesOn, SameCalls

LEMMA EndIsCounted ==
  ASSUME Turn!TurnAssumption, NEW l \in Locals, NEW pc \in {"answered", "failed"}
  PROVE  /\ [Turn!Idle EXCEPT !.pc = pc] \in Locals
         /\ [Turn!Idle EXCEPT !.pc = pc].pc = pc
         /\ GoesOn(l, [Turn!Idle EXCEPT !.pc = pc])
<1> DEFINE m == [Turn!Idle EXCEPT !.pc = pc]
<1>1. m \in Locals
  BY NothingSeen
<1>2. /\ m.pc = pc /\ m.round = <<>> /\ m.context = FALSE
      /\ m.asked = 0 /\ m.used = 0 /\ m.overtaken = 0
  BY DEF Turn!Idle
<1> HIDE DEF m
<1>3. m.asked = m.used + m.overtaken + Len(m.round)
  <2>1. Len(m.round) = 0
    BY <1>2
  <2>2. QED
    BY <1>2, <2>1
<1>4. Counted(m)
  BY <1>2, <1>3 DEF Counted, Searches
<1>5. GoesOn(l, m)
  BY <1>2, <1>4 DEF GoesOn
<1>6. QED
  BY <1>1, <1>2, <1>5 DEF m

LEMMA AttemptFailsQuietly ==
  ASSUME Turn!TurnAssumption, TurnTypes, NEW t \in Turns, Turn!AttemptFails(t), turn[t].pc \in Talking
  PROVE  \E m \in Locals : Turn!Becomes(t, m) /\ GoesOn(turn[t], m) /\ m.pc \in {"ask", "failed"}
<1>1. PICK m \in Locals :
        /\ Turn!Becomes(t, m)
        /\ \/ /\ m.pc = "ask" /\ m.round = <<>> /\ m.context = FALSE
              /\ m.used = turn[t].asked /\ m.asked = turn[t].asked
              /\ m.overtaken = 0 /\ m.agent = turn[t].agent
              /\ m.owed = turn[t].owed /\ m.met = turn[t].met
           \/ m = [Turn!Idle EXCEPT !.pc = "failed"]
  BY AttemptFailsTo
<1>2. turn[t] \in Locals
  BY TurnLocal
<1>3. CASE m = [Turn!Idle EXCEPT !.pc = "failed"]
  BY <1>1, <1>2, <1>3, EndIsCounted
<1>4. CASE /\ m.pc = "ask" /\ m.round = <<>> /\ m.context = FALSE
           /\ m.used = turn[t].asked /\ m.asked = turn[t].asked
           /\ m.overtaken = 0 /\ m.agent = turn[t].agent
           /\ m.owed = turn[t].owed /\ m.met = turn[t].met
  <2>1. m.asked = m.used + m.overtaken + Len(m.round)
    <3>1. Len(m.round) = 0 /\ m.overtaken = 0
      BY <1>4
    <3>2. m.used \in Nat /\ m.asked = m.used
      BY <1>4, <1>1 DEF Locals
    <3>3. QED
      BY <3>1, <3>2
  <2>2. Counted(m)
    BY <1>4, <2>1 DEF Counted, Searches
  <2>3. GoesOn(turn[t], m)
    BY <1>4, <2>2 DEF GoesOn, Talking
  <2>4. QED
    BY <1>1, <1>4, <2>3
<1>5. QED
  BY <1>1, <1>3, <1>4

\* What the invariant says of one run.
LEMMA OneTurn ==
  ASSUME TurnInv, NEW t \in Turns
  PROVE  /\ turn[t] \in Locals /\ Counted(turn[t]) /\ turn[t].met \in BOOLEAN
         /\ running[t] \in Nat /\ faults \in 0..MaxFaults
         /\ mode \in {"auto", "manual"} /\ lock \in BOOLEAN
         /\ Searched(t) => running[t] >= 1
BY TurnLocal DEF TurnInv, TurnTypes, Turn!TypeOK, CallsCounted, SearchesCounted, Locals

LEMMA OpenSearchIsQuiet ==
  ASSUME Turn!TurnAssumption, TurnInv, NEW t \in Turns, Turn!OpenSearch(t)
  PROVE  QuietStep(t)
<1>1. turn[t] \in Locals /\ Counted(turn[t]) /\ turn[t].pc = "rag"
  BY OneTurn DEF Turn!OpenSearch, Turn!At
<1>2. /\ UNCHANGED <<conv, active, announced>>
      /\ mode' \in {"auto", "manual"} /\ lock' \in BOOLEAN /\ faults' \in 0..MaxFaults
      /\ faults' = faults
  BY OneTurn DEF Turn!OpenSearch
<1>3. CASE turn[t].agent \notin Searching \/ Embedders = 0
  <2> DEFINE m == [turn[t] EXCEPT !.pc = Turn!AfterSearch(t), !.context = FALSE]
  <2>1. Turn!Becomes(t, m) /\ running' = running
    BY <1>3 DEF Turn!OpenSearch
  <2>2. m \in Locals
    BY <1>1 DEF Locals, Talking, Turn!AfterSearch
  <2>3. SameCalls(turn[t], m) /\ m.pc = Turn!AfterSearch(t) /\ m.context = FALSE
    BY <1>1 DEF Locals, SameCalls
  <2> HIDE DEF m
  <2>4. GoesOn(turn[t], m)
    BY <1>1, <2>2, <2>3, StaysCounted DEF Turn!AfterSearch, Talking, Counted
  <2>5. RowsMove(t, m)
    BY <1>1, <1>2, <2>1, <2>3 DEF RowsMove, Searched, Searches, Turn!AfterSearch
  <2>6. QED
    BY <1>2, <2>1, <2>2, <2>4, <2>5 DEF QuietStep
<1>4. CASE ~(turn[t].agent \notin Searching \/ Embedders = 0)
  <2> DEFINE m == [turn[t] EXCEPT !.pc = "embed", !.provider = 1]
  <2>1. Turn!Becomes(t, m) /\ running' = [running EXCEPT ![t] = @ + 1]
    BY <1>4 DEF Turn!OpenSearch
  <2>2. m \in Locals
    BY <1>1 DEF Locals, Talking, Searches
  <2>3. SameCalls(turn[t], m) /\ m.pc = "embed" /\ m.context = turn[t].context
    BY <1>1 DEF Locals, SameCalls
  <2> HIDE DEF m
  <2>4. GoesOn(turn[t], m)
    BY <1>1, <2>2, <2>3, StaysCounted DEF Talking, Searches, Counted
  <2>5. RowsMove(t, m)
    BY <1>1, <1>2, <2>1, <2>3 DEF RowsMove, Searched, Searches
  <2>6. QED
    BY <1>2, <2>1, <2>2, <2>4, <2>5 DEF QuietStep
<1>5. QED
  BY <1>3, <1>4

\* A failed embedding: the next provider, or the textual search.
LEMMA TryNextGoesOn ==
  ASSUME Turn!TurnAssumption, TurnInv, NEW t \in Turns, Turn!TryNext(t), turn[t].pc \in {"embed", "close"}
  PROVE  \E m \in Locals : Turn!Becomes(t, m) /\ GoesOn(turn[t], m) /\ m.pc \in Searches
<1> DEFINE pc == IF turn[t].provider < Embedders THEN "embed" ELSE "text"
           p == IF turn[t].provider < Embedders THEN turn[t].provider + 1 ELSE 0
           m == [turn[t] EXCEPT !.pc = pc, !.provider = p]
<1>1. turn[t] \in Locals /\ Counted(turn[t])
  BY OneTurn
<1>2. p \in Nat
  BY <1>1 DEF Locals
<1>3. pc \in {"embed", "text"}
  OBVIOUS
<1>4. Turn!Becomes(t, m)
  BY DEF Turn!TryNext
<1> HIDE DEF pc, p
<1>5. m \in Locals
  BY <1>1, <1>2, <1>3 DEF Locals, Talking, Searches
<1>6. SameCalls(turn[t], m) /\ m.pc = pc /\ m.context = turn[t].context
  BY <1>1 DEF Locals, SameCalls
<1> HIDE DEF m
<1>7. GoesOn(turn[t], m)
  BY <1>1, <1>3, <1>5, <1>6, StaysCounted DEF Talking, Searches, Counted
<1>8. QED
  BY <1>3, <1>4, <1>5, <1>6, <1>7 DEF Searches

\* A step to another place in the exchange.
LEMMA GotoGoesOn ==
  ASSUME Turn!TurnAssumption, TurnInv, NEW t \in Turns, NEW pc \in Talking \ {"write"},
         Turn!Goto(t, pc), turn[t].pc \in Talking,
         turn[t].context => pc \in {"rag"} \cup Searches,
         pc \in {"ask", "answer"} => turn[t].round = <<>>,
         pc \notin {"ask", "answer"} /\ ~turn[t].context => turn[t].round # <<>>
  PROVE  \E m \in Locals : Turn!Becomes(t, m) /\ GoesOn(turn[t], m) /\ m.pc = pc
<1> DEFINE m == [turn[t] EXCEPT !.pc = pc]
<1>1. turn[t] \in Locals /\ Counted(turn[t])
  BY OneTurn
<1>2. Turn!Becomes(t, m)
  BY DEF Turn!Goto
<1>3. m \in Locals
  BY <1>1 DEF Locals, Talking
<1>4. SameCalls(turn[t], m) /\ m.pc = pc /\ m.context = turn[t].context
  BY <1>1 DEF Locals, SameCalls
<1> HIDE DEF m
<1>5. GoesOn(turn[t], m)
  BY <1>1, <1>3, <1>4, StaysCounted
<1>6. QED
  BY <1>2, <1>3, <1>4, <1>5

LEMMA EmbedIsQuiet ==
  ASSUME Turn!TurnAssumption, TurnInv, NEW t \in Turns, Turn!Embed(t)
  PROVE  QuietStep(t)
<1>1. turn[t].pc = "embed" /\ Counted(turn[t]) /\ turn[t] \in Locals
  BY OneTurn DEF Turn!Embed, Turn!At
<1>2. PICK m \in Locals : Turn!Becomes(t, m) /\ GoesOn(turn[t], m) /\ m.pc \in Searches
  <2>1. CASE Turn!Goto(t, "close")
    <3>1. ~turn[t].context => turn[t].round # <<>>
      BY <1>1 DEF Counted, Searches
    <3>2. QED
      BY <1>1, <2>1, <3>1, GotoGoesOn DEF Talking, Searches
  <2>2. CASE Turn!TryNext(t)
    BY <1>1, <2>2, TryNextGoesOn
  <2>3. QED
    BY <2>1, <2>2 DEF Turn!Embed
<1>3. UNCHANGED <<conv, mode, active, lock, running, announced, faults>>
  BY DEF Turn!Embed
<1>4. RowsMove(t, m)
  BY <1>1, <1>2, <1>3 DEF RowsMove, Searched, Searches
<1>5. QED
  BY <1>2, <1>3, <1>4, OneTurn DEF QuietStep

LEMMA SearchTextIsQuiet ==
  ASSUME Turn!TurnAssumption, TurnInv, NEW t \in Turns, Turn!SearchText(t)
  PROVE  QuietStep(t)
<1>1. turn[t].pc = "text" /\ Counted(turn[t]) /\ turn[t] \in Locals
  BY OneTurn DEF Turn!SearchText, Turn!At
<1>2. PICK m \in Locals : Turn!Becomes(t, m) /\ GoesOn(turn[t], m) /\ m.pc = "close"
  <2>1. ~turn[t].context => turn[t].round # <<>>
    BY <1>1 DEF Counted, Searches
  <2>2. QED
    BY <1>1, <2>1, GotoGoesOn DEF Talking, Searches, Turn!SearchText
<1>3. UNCHANGED <<conv, mode, active, lock, running, announced, faults>>
  BY DEF Turn!SearchText
<1>4. RowsMove(t, m)
  BY <1>1, <1>2, <1>3 DEF RowsMove, Searched, Searches
<1>5. QED
  BY <1>2, <1>3, <1>4, OneTurn DEF QuietStep

LEMMA CloseSearchIsQuiet ==
  ASSUME Turn!TurnAssumption, TurnInv, NEW t \in Turns, Turn!CloseSearch(t)
  PROVE  QuietStep(t)
<1>1. turn[t] \in Locals /\ Counted(turn[t]) /\ turn[t].pc \in {"close", "giveup"}
  BY OneTurn DEF Turn!CloseSearch
<1>2. /\ UNCHANGED <<conv, active, announced>>
      /\ mode' \in {"auto", "manual"} /\ lock' \in BOOLEAN /\ faults' \in 0..MaxFaults
      /\ faults' = faults /\ running' = [running EXCEPT ![t] = @ - 1]
  BY OneTurn DEF Turn!CloseSearch
<1> DEFINE m == [turn[t] EXCEPT !.pc = Turn!AfterSearch(t), !.context = FALSE, !.provider = 0]
<1>3. Turn!Becomes(t, m)
  BY DEF Turn!CloseSearch
<1>4. m \in Locals
  BY <1>1 DEF Locals, Talking, Turn!AfterSearch
<1>5. SameCalls(turn[t], m) /\ m.pc = Turn!AfterSearch(t) /\ m.context = FALSE
  BY <1>1 DEF Locals, SameCalls
<1> HIDE DEF m
<1>6. GoesOn(turn[t], m)
  BY <1>1, <1>4, <1>5, StaysCounted DEF Turn!AfterSearch, Talking, Searches, Counted
<1>7. RowsMove(t, m)
  BY <1>1, <1>2, <1>5 DEF RowsMove, Searched, Searches, Turn!AfterSearch
<1>8. QED
  BY <1>2, <1>3, <1>4, <1>6, <1>7 DEF QuietStep

\* A step that changes no more than the run, and opens or closes no search.
LEMMA QuietRun ==
  ASSUME TurnInv, NEW t \in Turns, UNCHANGED <<conv, active, running, announced>>,
         mode' \in {"auto", "manual"}, lock' \in BOOLEAN, faults' \in 0..MaxFaults,
         NEW m \in Locals, Turn!Becomes(t, m), GoesOn(turn[t], m),
         \/ faults' = faults /\ (Searched(t) <=> m.pc \in Searches)
         \/ faults' = faults + 1 /\ (m.pc \in Searches => Searched(t))
  PROVE  QuietStep(t)
<1>1. RowsMove(t, m)
  BY DEF RowsMove
<1>2. QED
  BY <1>1 DEF QuietStep

LEMMA ContinuesTo ==
  ASSUME Turn!TurnAssumption, TurnInv, NEW t \in Turns, NEW rest \in Seq(Calls), NEW reply \in Seq(Calls),
         turn[t].pc \in {"ask", "reply"}
  PROVE  LET m == Turn!Continues(t, rest, reply)
         IN  /\ m \in Locals
             /\ m.pc = (IF rest = <<>> THEN "answer" ELSE "tool") /\ m.round = rest
             /\ m.asked = turn[t].asked + Len(reply)
             /\ m.used = turn[t].used /\ m.overtaken = turn[t].overtaken
             /\ m.agent = turn[t].agent /\ m.owed = turn[t].owed /\ m.met = turn[t].met
             /\ m.context = turn[t].context
<1>1. turn[t] \in Locals
  BY OneTurn
<1>2. PICK n \in Nat : n = turn[t].asked + Len(reply)
  <2>1. turn[t].asked \in Nat
    BY <1>1 DEF Locals
  <2>2. QED
    BY <2>1
<1> DEFINE m == [turn[t] EXCEPT !.pc = IF rest = <<>> THEN "answer" ELSE "tool", !.round = rest,
                                !.asked = n]
<1>3. Turn!Continues(t, rest, reply) = m
  BY <1>2 DEF Turn!Continues
<1>4. m \in Locals
  BY <1>1 DEF Locals, Talking
<1>5. /\ m.pc = (IF rest = <<>> THEN "answer" ELSE "tool") /\ m.round = rest
      /\ m.asked = n
      /\ m.used = turn[t].used /\ m.overtaken = turn[t].overtaken
      /\ m.agent = turn[t].agent /\ m.owed = turn[t].owed /\ m.met = turn[t].met
      /\ m.context = turn[t].context
  BY <1>1 DEF Locals
<1> HIDE DEF m
<1>6. QED
  BY <1>2, <1>3, <1>4, <1>5

\* A run whose model answered goes on with what is called.
LEMMA AnswerGoesOn ==
  ASSUME NEW l \in Locals, NEW m \in Locals, l.pc \in {"ask", "reply"},
         m.pc = (IF m.round = <<>> THEN "answer" ELSE "tool"), m.context = FALSE,
         m.agent = l.agent, m.owed = l.owed, m.met = l.met,
         m.asked = m.used + m.overtaken + Len(m.round)
  PROVE  GoesOn(l, m) /\ m.pc \notin Searches /\ l.pc \notin Searches
<1>1. m.pc \in {"answer", "tool"} /\ (m.pc = "answer" => m.round = <<>>) /\ (m.pc = "tool" => m.round # <<>>)
  OBVIOUS
<1>2. Counted(m)
  BY <1>1 DEF Counted, Preparing, Searches
<1>3. QED
  BY <1>1, <1>2 DEF GoesOn, Talking, Searches

LEMMA AskIsQuiet ==
  ASSUME Turn!TurnAssumption, TurnInv, NEW t \in Turns, Turn!Ask(t)
  PROVE  QuietStep(t)
<1>1. turn[t] \in Locals /\ Counted(turn[t]) /\ turn[t].pc = "ask"
  BY OneTurn DEF Turn!Ask, Turn!At
<1>2. PICK reply \in Turn!Replies(t) : Turn!Becomes(t, Turn!Continues(t, reply, reply))
  BY DEF Turn!Ask
<1>3. reply \in Seq(Calls)
  BY <1>2, RepliesAreCalls
<1> DEFINE m == Turn!Continues(t, reply, reply)
<1>4. /\ m \in Locals
      /\ m.pc = (IF reply = <<>> THEN "answer" ELSE "tool") /\ m.round = reply
      /\ m.asked = turn[t].asked + Len(reply)
      /\ m.used = turn[t].used /\ m.overtaken = turn[t].overtaken
      /\ m.agent = turn[t].agent /\ m.owed = turn[t].owed /\ m.met = turn[t].met
      /\ m.context = turn[t].context
  BY <1>1, <1>3, ContinuesTo
<1>5. Turn!Becomes(t, m)
  BY <1>2
<1> HIDE DEF m
<1>6. turn[t].round = <<>> /\ turn[t].context = FALSE
  <2>1. turn[t].context \in BOOLEAN
    BY <1>1 DEF Locals
  <2>2. QED
    BY <1>1, <2>1 DEF Counted, Searches
<1>7. m.asked = m.used + m.overtaken + Len(m.round)
  <2>1. turn[t].asked = turn[t].used + turn[t].overtaken + Len(turn[t].round)
    BY <1>1 DEF Counted
  <2>2. Len(turn[t].round) = 0
    BY <1>6
  <2>3. turn[t].used \in Nat /\ turn[t].overtaken \in Nat /\ turn[t].asked \in Nat /\ Len(reply) \in Nat
    BY <1>1, <1>3 DEF Locals
  <2>4. m.asked = turn[t].asked + Len(reply) /\ m.used = turn[t].used /\ m.overtaken = turn[t].overtaken
        /\ m.round = reply
    BY <1>4
  <2>5. QED
    BY <2>1, <2>2, <2>3, <2>4
<1>8. GoesOn(turn[t], m) /\ m.pc \notin Searches /\ ~Searched(t)
  BY <1>1, <1>4, <1>6, <1>7, AnswerGoesOn DEF Searched
<1>9. UNCHANGED <<conv, mode, active, lock, running, announced, faults>>
  BY DEF Turn!Ask
<1>10. QED
  BY <1>4, <1>5, <1>8, <1>9, QuietRun, OneTurn

\* A round has one call less, or begins again with what is called next.
LEMMA RoundBalance ==
  ASSUME NEW asked \in Nat, NEW used \in Nat, NEW overtaken \in Nat, NEW k \in Nat, NEW n \in Nat,
         k >= 1, asked = used + overtaken + k
  PROVE  asked + n = (used + 1) + (overtaken + (IF k > 1 THEN n ELSE 0)) + (IF k > 1 THEN k - 1 ELSE n)
OBVIOUS

LEMMA SendResultIsQuiet ==
  ASSUME Turn!TurnAssumption, TurnInv, NEW t \in Turns, Turn!SendResult(t)
  PROVE  QuietStep(t)
<1>1. turn[t] \in Locals /\ Counted(turn[t]) /\ turn[t].pc = "reply"
  BY OneTurn DEF Turn!SendResult, Turn!At
<1>2. PICK reply \in Turn!Replies(t) :
        Turn!Becomes(t, [Turn!Continues(t, Turn!Rest(t, reply), reply) EXCEPT
                      !.used = @ + 1,
                      !.overtaken = @ + (IF Len(turn[t].round) > 1 THEN Len(reply) ELSE 0)])
  BY DEF Turn!SendResult
<1>3. reply \in Seq(Calls) /\ Len(reply) \in Nat
  BY <1>2, RepliesAreCalls
<1>4. turn[t].round \in Seq(Calls) /\ turn[t].round # <<>>
  BY <1>1 DEF Counted, Locals
<1>5. PICK k \in Nat : k = Len(turn[t].round) /\ k >= 1
  BY <1>4
<1>6. PICK rest \in Seq(Calls) : rest = Turn!Rest(t, reply)
  <2>1. Tail(turn[t].round) \in Seq(Calls)
    BY <1>4
  <2>2. Turn!Rest(t, reply) \in Seq(Calls)
    BY <1>3, <2>1 DEF Turn!Rest
  <2>3. QED
    BY <2>2
<1>7. Len(rest) = (IF k > 1 THEN k - 1 ELSE Len(reply))
  <2>1. k > 1 => Len(Tail(turn[t].round)) = k - 1
    BY <1>4, <1>5
  <2>2. rest = (IF k > 1 THEN Tail(turn[t].round) ELSE reply)
    BY <1>5, <1>6 DEF Turn!Rest
  <2>3. QED
    BY <2>1, <2>2
<1>8. PICK c : c = Turn!Continues(t, rest, reply)
  OBVIOUS
<1>9. /\ c \in Locals
      /\ c.pc = (IF rest = <<>> THEN "answer" ELSE "tool") /\ c.round = rest
      /\ c.asked = turn[t].asked + Len(reply)
      /\ c.used = turn[t].used /\ c.overtaken = turn[t].overtaken
      /\ c.agent = turn[t].agent /\ c.owed = turn[t].owed /\ c.met = turn[t].met
      /\ c.context = turn[t].context
  BY <1>1, <1>3, <1>6, <1>8, ContinuesTo
<1>10. PICK u \in Nat, o \in Nat :
         /\ u = turn[t].used + 1
         /\ o = turn[t].overtaken + (IF k > 1 THEN Len(reply) ELSE 0)
  <2>1. turn[t].used \in Nat /\ turn[t].overtaken \in Nat
    BY <1>1 DEF Locals
  <2>2. turn[t].used + 1 \in Nat /\ turn[t].overtaken + (IF k > 1 THEN Len(reply) ELSE 0) \in Nat
    BY <1>3, <2>1
  <2>3. QED
    BY <2>2
<1> DEFINE m == [c EXCEPT !.used = u, !.overtaken = o]
<1>11. Turn!Becomes(t, m)
  <2>1. [c EXCEPT !.used = @ + 1, !.overtaken = @ + (IF Len(turn[t].round) > 1 THEN Len(reply) ELSE 0)] = m
    BY <1>5, <1>9, <1>10
  <2>2. QED
    BY <1>2, <1>6, <1>8, <2>1
<1>12. m \in Locals
  BY <1>9 DEF Locals
<1>13. /\ m.pc = (IF m.round = <<>> THEN "answer" ELSE "tool") /\ m.context = turn[t].context
       /\ m.agent = turn[t].agent /\ m.owed = turn[t].owed /\ m.met = turn[t].met
       /\ m.asked = turn[t].asked + Len(reply) /\ m.used = u /\ m.overtaken = o /\ m.round = rest
  BY <1>9 DEF Locals
<1> HIDE DEF m
<1>14. turn[t].context = FALSE
  <2>1. turn[t].context \in BOOLEAN
    BY <1>1 DEF Locals
  <2>2. QED
    BY <1>1, <2>1 DEF Counted, Searches
<1>15. m.asked = m.used + m.overtaken + Len(m.round)
  <2>1. turn[t].asked = turn[t].used + turn[t].overtaken + k
    BY <1>1, <1>5 DEF Counted
  <2>2. turn[t].used \in Nat /\ turn[t].overtaken \in Nat /\ turn[t].asked \in Nat
    BY <1>1 DEF Locals
  <2>3. m.asked = turn[t].asked + Len(reply) /\ m.used = u /\ m.overtaken = o /\ Len(m.round) = Len(rest)
    BY <1>13
  <2>4. turn[t].asked + Len(reply) = (turn[t].used + 1)
         + (turn[t].overtaken + (IF k > 1 THEN Len(reply) ELSE 0)) + (IF k > 1 THEN k - 1 ELSE Len(reply))
    <3>1. PICK asked \in Nat, used \in Nat, overtaken \in Nat :
            asked = turn[t].asked /\ used = turn[t].used /\ overtaken = turn[t].overtaken
      BY <2>2
    <3>2. asked = used + overtaken + k
      BY <2>1, <3>1
    <3>3. PICK n \in Nat : n = Len(reply)
      BY <1>3
    <3>4. asked + n = (used + 1) + (overtaken + (IF k > 1 THEN n ELSE 0)) + (IF k > 1 THEN k - 1 ELSE n)
      <4>1. /\ asked \in Nat /\ used \in Nat /\ overtaken \in Nat /\ k \in Nat /\ n \in Nat
            /\ k >= 1
        BY <1>5, <3>1, <3>3
      <4>2. QED
        BY <3>2, <4>1, RoundBalance
    <3>5. QED
      BY <3>1, <3>3, <3>4
  <2>5. QED
    BY <1>7, <1>10, <2>3, <2>4
<1>16. GoesOn(turn[t], m) /\ m.pc \notin Searches /\ ~Searched(t)
  BY <1>1, <1>12, <1>13, <1>14, <1>15, AnswerGoesOn DEF Searched
<1>17. UNCHANGED <<conv, mode, active, lock, running, announced, faults>>
  BY DEF Turn!SendResult
<1>18. QED
  BY <1>11, <1>12, <1>16, <1>17, QuietRun, OneTurn

LEMMA ToolGoesOn ==
  ASSUME Turn!TurnAssumption, TurnInv, NEW t \in Turns, turn[t].pc = "tool",
         NEW pc \in {"reply", "rag"}, Turn!Goto(t, pc)
  PROVE  \E m \in Locals : Turn!Becomes(t, m) /\ GoesOn(turn[t], m) /\ m.pc \notin Searches /\ ~Searched(t)
<1>1. turn[t] \in Locals /\ Counted(turn[t])
  BY OneTurn
<1>2. turn[t].context = FALSE /\ turn[t].round # <<>>
  <2>1. turn[t].context \in BOOLEAN
    BY <1>1 DEF Locals
  <2>2. QED
    BY <1>1, <2>1 DEF Counted, Searches
<1>3. PICK m \in Locals : Turn!Becomes(t, m) /\ GoesOn(turn[t], m) /\ m.pc = pc
  BY <1>2, GotoGoesOn DEF Talking, Searches
<1>4. QED
  BY <1>3 DEF Searches, Searched

LEMMA ToolsAreQuiet ==
  ASSUME Turn!TurnAssumption, TurnInv, NEW t \in Turns,
         Turn!SearchTool(t) \/ Turn!MediaTool(t) \/ Turn!TransferTool(t)
  PROVE  QuietStep(t)
<1>1. turn[t].pc = "tool" /\ (Turn!Goto(t, "rag") \/ Turn!Goto(t, "reply"))
  BY DEF Turn!SearchTool, Turn!MediaTool, Turn!TransferTool, Turn!Calling, Turn!At
<1>2. PICK m \in Locals : Turn!Becomes(t, m) /\ GoesOn(turn[t], m) /\ m.pc \notin Searches /\ ~Searched(t)
  BY <1>1, ToolGoesOn
<1>3. /\ UNCHANGED <<conv, active, running, announced>>
      /\ mode' \in {"auto", "manual"} /\ lock' \in BOOLEAN /\ faults' \in 0..MaxFaults
      /\ faults' = faults
  BY OneTurn DEF Turn!SearchTool, Turn!MediaTool, Turn!TransferTool
<1>4. QED
  BY <1>2, <1>3, QuietRun

LEMMA FaultBound ==
  ASSUME TurnInv, MaxFaults \in Nat, faults < MaxFaults, faults' = faults + 1
  PROVE  faults' \in 0..MaxFaults
BY DEF TurnInv, TurnTypes, Turn!TypeOK

\* An attempt that fails takes its search, if it has one, with it.
LEMMA FailureIsQuiet ==
  ASSUME Turn!TurnAssumption, TurnInv, NEW t \in Turns, Turn!AttemptFails(t), turn[t].pc \in Talking,
         UNCHANGED <<conv, active, running, announced>>, mode' \in {"auto", "manual"},
         faults' \in 0..MaxFaults,
         faults' = faults + 1 \/ (faults' = faults /\ ~Searched(t))
  PROVE  QuietStep(t)
<1>1. TurnTypes
  BY DEF TurnInv
<1>2. PICK m \in Locals : Turn!Becomes(t, m) /\ GoesOn(turn[t], m) /\ m.pc \in {"ask", "failed"}
  BY <1>1, AttemptFailsQuietly
<1>3. lock' \in BOOLEAN
  BY OneTurn DEF Turn!AttemptFails, Turn!Ends
<1>4. m.pc \notin Searches
  BY <1>2 DEF Searches
<1>5. QED
  BY <1>2, <1>3, <1>4, QuietRun

LEMMA ProviderFailsQuietly ==
  ASSUME Turn!TurnAssumption, TurnInv, NEW t \in Turns, Turn!ProviderFails(t)
  PROVE  QuietStep(t)
<1>1. turn[t].pc \in Talking
  BY DEF Turn!ProviderFails, Talking
<1>2. faults' \in 0..MaxFaults
  BY FaultBound DEF Turn!ProviderFails, Turn!TurnAssumption
<1>3. QED
  BY <1>1, <1>2, FailureIsQuiet, OneTurn DEF Turn!ProviderFails

LEMMA WebSearchIsQuiet ==
  ASSUME Turn!TurnAssumption, TurnInv, NEW t \in Turns, Turn!WebSearchTool(t)
  PROVE  QuietStep(t)
<1>1. turn[t].pc \in Talking /\ ~Searched(t)
  BY DEF Turn!WebSearchTool, Turn!Calling, Turn!At, Talking, Searched, Searches
<1>2. QED
  BY <1>1, FailureIsQuiet, OneTurn DEF Turn!WebSearchTool

\* A run that ends.
LEMMA EndIsQuiet ==
  ASSUME Turn!TurnAssumption, TurnInv, NEW t \in Turns, NEW pc \in {"answered", "failed"},
         Turn!Becomes(t, [Turn!Idle EXCEPT !.pc = pc]),
         UNCHANGED <<conv, active, running, announced>>, mode' \in {"auto", "manual"},
         lock' \in BOOLEAN, faults' \in 0..MaxFaults,
         faults' = faults + 1 \/ (faults' = faults /\ ~Searched(t))
  PROVE  QuietStep(t)
<1> DEFINE m == [Turn!Idle EXCEPT !.pc = pc]
<1>1. m \in Locals /\ m.pc = pc /\ GoesOn(turn[t], m)
  BY OneTurn, EndIsCounted
<1>2. Turn!Becomes(t, m)
  OBVIOUS
<1> HIDE DEF m
<1>3. m.pc \notin Searches
  BY <1>1 DEF Searches
<1>4. QED
  BY <1>1, <1>2, <1>3, QuietRun

LEMMA AnswerIsQuiet ==
  ASSUME Turn!TurnAssumption, TurnInv, NEW t \in Turns, Turn!Answer(t)
  PROVE  QuietStep(t)
<1>1. ~Searched(t)
  BY DEF Turn!Answer, Turn!At, Searched, Searches
<1>2. QED
  BY <1>1, EndIsQuiet, OneTurn DEF Turn!Answer, Turn!Ends

LEMMA CrashIsQuiet ==
  ASSUME Turn!TurnAssumption, TurnInv, NEW t \in Turns, Turn!Crash(t)
  PROVE  QuietStep(t)
<1>1. faults' \in 0..MaxFaults
  BY FaultBound DEF Turn!Crash, Turn!Fault, Turn!TurnAssumption
<1>2. QED
  BY <1>1, EndIsQuiet, OneTurn DEF Turn!Crash, Turn!Fault

LEMMA CallFailsQuietly ==
  ASSUME Turn!TurnAssumption, TurnInv, NEW t \in Turns, Turn!CallFails(t)
  PROVE  QuietStep(t)
<1>1. faults' \in 0..MaxFaults
  BY FaultBound DEF Turn!CallFails, Turn!Fault, Turn!TurnAssumption
<1>2. /\ UNCHANGED <<conv, active, running, announced>> /\ faults' = faults + 1
      /\ mode' \in {"auto", "manual"}
  BY OneTurn DEF Turn!CallFails, Turn!Fault
<1>3. turn[t] \in Locals /\ Counted(turn[t]) /\ turn[t].context \in BOOLEAN /\ lock \in BOOLEAN
  BY OneTurn DEF Locals
<1>4. CASE Turn!Ends(t, "failed")
  BY <1>1, <1>2, <1>3, <1>4, EndIsQuiet DEF Turn!Ends
<1>5. CASE turn[t].pc = "close" /\ Turn!TryNext(t) /\ UNCHANGED lock
  <2>1. PICK m \in Locals : Turn!Becomes(t, m) /\ GoesOn(turn[t], m) /\ m.pc \in Searches
    BY <1>5, TryNextGoesOn
  <2>2. Searched(t)
    BY <1>5 DEF Searched, Searches
  <2>3. QED
    BY <1>1, <1>2, <1>3, <1>5, <2>1, <2>2, QuietRun
<1>6. CASE turn[t].pc \in {"text", "close"} /\ Turn!Goto(t, "giveup") /\ UNCHANGED lock
  <2>1. ~turn[t].context => turn[t].round # <<>>
    BY <1>3, <1>6 DEF Counted, Searches
  <2>2. PICK m \in Locals : Turn!Becomes(t, m) /\ GoesOn(turn[t], m) /\ m.pc = "giveup"
    BY <1>6, <2>1, GotoGoesOn DEF Talking, Searches
  <2>3. Searched(t)
    BY <1>6 DEF Searched, Searches
  <2>4. QED
    BY <1>1, <1>2, <1>3, <1>6, <2>2, <2>3, QuietRun
<1>7. CASE /\ turn[t].pc \in {"rag", "giveup"} /\ turn[t].context /\ UNCHANGED lock
           /\ Turn!Becomes(t, [turn[t] EXCEPT !.pc = "ask", !.context = FALSE])
  <2> DEFINE m == [turn[t] EXCEPT !.pc = "ask", !.context = FALSE]
  <2>1. m \in Locals
    BY <1>3 DEF Locals, Talking
  <2>2. SameCalls(turn[t], m) /\ m.pc = "ask" /\ m.context = FALSE
    BY <1>3 DEF Locals, SameCalls
  <2>3. Turn!Becomes(t, m)
    BY <1>7
  <2> HIDE DEF m
  <2>4. GoesOn(turn[t], m)
    BY <1>3, <1>7, <2>1, <2>2, StaysCounted DEF Talking, Searches, Counted
  <2>5. m.pc \notin Searches
    BY <2>2 DEF Searches
  <2>6. QED
    BY <1>1, <1>2, <1>3, <1>7, <2>1, <2>3, <2>4, <2>5, QuietRun
<1>8. CASE turn[t].pc \in {"rag", "giveup", "tool", "write"} /\ Turn!AttemptFails(t)
  BY <1>1, <1>2, <1>8, FailureIsQuiet DEF Talking, Searches
<1>9. CASE turn[t].pc = "tool" /\ Turn!Goto(t, "reply") /\ UNCHANGED lock
  <2>1. PICK m \in Locals : Turn!Becomes(t, m) /\ GoesOn(turn[t], m) /\ m.pc \notin Searches /\ ~Searched(t)
    BY <1>9, ToolGoesOn
  <2>2. QED
    BY <1>1, <1>2, <1>3, <1>9, <2>1, QuietRun
<1>10. QED
  BY <1>4, <1>5, <1>6, <1>7, <1>8, <1>9 DEF Turn!CallFails, Turn!Calling, Turn!At

-----------------------------------------------------------------------------
(* What every step keeps.                                                  *)

\* The other runs are where they were, with the calls they had.
OthersStay(t) ==
  \A s \in Turns : s # t =>
    /\ turn'[s].pc = turn[s].pc /\ turn'[s].context = turn[s].context
    /\ turn'[s].round = turn[s].round /\ turn'[s].asked = turn[s].asked
    /\ turn'[s].used = turn[s].used /\ turn'[s].overtaken = turn[s].overtaken

LEMMA SearchRows ==
  ASSUME TurnInv, NEW t \in Turns, NEW m \in Locals, turn'[t] = m, OthersStay(t), RowsMove(t, m)
  PROVE  running' \in [Turns -> Nat] /\ SearchesCounted'
<1>1. running \in [Turns -> Nat] /\ faults \in Nat
  BY DEF TurnInv, TurnTypes, Turn!TypeOK
<1>2. \A s \in Turns : (Searched(s) => running[s] >= 1) /\ running[s] <= faults + One(Searched(s))
  BY DEF TurnInv, SearchesCounted
<1>3. \A s \in Turns : s # t => (Searched(s)' <=> Searched(s))
  BY DEF OthersStay, Searched
<1>4. Searched(t)' <=> m.pc \in Searches
  BY DEF Searched
<1>5. PICK open : open = [s \in Turns |-> Searched(s)]
  OBVIOUS
<1>6. PICK open2 : open2 = [s \in Turns |-> Searched(s)']
  OBVIOUS
<1>7. \A s \in Turns : (open[s] => running[s] >= 1) /\ running[s] <= faults + (IF open[s] THEN 1 ELSE 0)
  BY <1>2, <1>5 DEF One
<1>8. \A s \in Turns : s # t => (open2[s] <=> open[s])
  BY <1>3, <1>5, <1>6
<1>9. \/ running' = running /\ faults' = faults /\ (open[t] <=> open2[t])
      \/ running' = running /\ faults' = faults + 1 /\ (open2[t] => open[t])
      \/ /\ running' = [running EXCEPT ![t] = @ + 1] /\ faults' = faults
         /\ ~open[t] /\ open2[t]
      \/ /\ running' = [running EXCEPT ![t] = @ - 1] /\ faults' = faults
         /\ open[t] /\ ~open2[t]
  BY <1>4, <1>5, <1>6 DEF RowsMove
<1>10. running' \in [Turns -> Nat]
  <2>1. open[t] => running[t] >= 1
    BY <1>7
  <2>2. running[t] \in Nat /\ (running[t] >= 1 => running[t] - 1 \in Nat) /\ running[t] + 1 \in Nat
    BY <1>1
  <2>3. QED
    BY <1>1, <1>9, <2>1, <2>2
<1>11. \A s \in Turns : (open2[s] => running'[s] >= 1) /\ running'[s] <= faults' + (IF open2[s] THEN 1 ELSE 0)
  <2>1. SUFFICES ASSUME NEW s \in Turns
                 PROVE  (open2[s] => running'[s] >= 1) /\ running'[s] <= faults' + (IF open2[s] THEN 1 ELSE 0)
    OBVIOUS
  <2>2. PICK n \in Nat, f \in Nat : n = running[s] /\ f = faults
    BY <1>1
  <2>3. (open[s] => n >= 1) /\ n <= f + (IF open[s] THEN 1 ELSE 0)
    BY <1>7, <2>2
  <2>4. CASE s # t
    <3>1. running'[s] = n /\ (faults' = f \/ faults' = f + 1)
      BY <1>1, <1>9, <2>2, <2>4
    <3>2. open2[s] <=> open[s]
      BY <1>8, <2>4
    <3>3. QED
      BY <2>2, <2>3, <3>1, <3>2
  <2>5. CASE s = t
    <3>1. \/ running'[s] = n /\ faults' = f /\ (open[s] <=> open2[s])
          \/ running'[s] = n /\ faults' = f + 1 /\ (open2[s] => open[s])
          \/ running'[s] = n + 1 /\ faults' = f /\ ~open[s] /\ open2[s]
          \/ running'[s] = n - 1 /\ faults' = f /\ open[s] /\ ~open2[s]
      BY <1>1, <1>9, <2>2, <2>5
    <3>2. QED
      BY <2>2, <2>3, <3>1
  <2>6. QED
    BY <2>4, <2>5
<1>12. \A s \in Turns : open2[s] = Searched(s)'
  BY <1>6
<1>13. SearchesCounted'
  BY <1>11, <1>12 DEF SearchesCounted, One
<1>14. QED
  BY <1>10, <1>13

LEMMA CallsStayCounted ==
  ASSUME TurnInv, NEW t \in Turns, Counted(turn'[t]), OthersStay(t)
  PROVE  CallsCounted'
<1>1. ASSUME NEW s \in Turns, s # t
      PROVE  Counted(turn'[s])
  <2>1. Counted(turn[s])
    BY DEF TurnInv, CallsCounted
  <2>2. /\ turn'[s].pc = turn[s].pc /\ turn'[s].context = turn[s].context
        /\ turn'[s].round = turn[s].round /\ turn'[s].asked = turn[s].asked
        /\ turn'[s].used = turn[s].used /\ turn'[s].overtaken = turn[s].overtaken
    BY <1>1 DEF OthersStay
  <2>3. QED
    BY <2>1, <2>2 DEF Counted
<1>2. QED
  BY <1>1 DEF CallsCounted

LEMMA BecomingLeavesOthers ==
  ASSUME TurnInv, NEW t \in Turns, NEW m \in Locals, Turn!Becomes(t, m)
  PROVE  /\ turn' \in [Turns -> Locals] /\ turn'[t] = m
         /\ \A s \in Turns : s # t => turn'[s] = turn[s]
         /\ OthersStay(t)
<1>1. TurnTypes
  BY DEF TurnInv
<1>2. turn'[t] = m /\ (\A s \in Turns : s # t => turn'[s] = turn[s]) /\ turn' \in [Turns -> Locals]
  BY <1>1, TurnBecomes
<1>3. QED
  BY <1>2 DEF OthersStay

LEMMA QuietMeetings ==
  ASSUME TurnInv, NEW t \in Turns, QuietStep(t)
  PROVE  Meetings'
<1>1. PICK m \in Locals : Turn!Becomes(t, m) /\ GoesOn(turn[t], m)
  BY DEF QuietStep
<1>2. turn'[t] = m /\ \A s \in Turns : s # t => turn'[s] = turn[s]
  BY <1>1, BecomingLeavesOthers
<1>3. conv' = conv
  BY DEF QuietStep
<1>4. \A s \in Turns : s \in Turn!UnderWay' => s \in Turn!UnderWay /\ turn'[s].met = turn[s].met
  BY <1>1, <1>2 DEF GoesOn, Turn!UnderWay, Talking, Searches
<1>5. \A s \in Turns : turn'[s].pc \in Holding => turn'[s] = turn[s]
  BY <1>1, <1>2 DEF GoesOn, Holding, Talking, Searches
<1>6. \A r, s \in Turn!UnderWay' : r # s => turn'[r].met /\ turn'[s].met
  <2>1. Turn!UnderWay' \subseteq Turns
    BY DEF Turn!UnderWay
  <2>2. QED
    BY <1>4, <2>1 DEF TurnInv, Meetings
<1>7. \A s \in Turns : turn'[s].pc \in Holding /\ ~turn'[s].met => turn'[s].seen = conv'
  BY <1>3, <1>5 DEF TurnInv, Meetings
<1>8. QED
  BY <1>6, <1>7 DEF Meetings

LEMMA QuietSwitches ==
  ASSUME TurnInv, NEW t \in Turns, QuietStep(t)
  PROVE  SwitchInv'
<1>1. PICK m \in Locals : Turn!Becomes(t, m) /\ GoesOn(turn[t], m)
  BY DEF QuietStep
<1>2. turn'[t] = m /\ \A s \in Turns : s # t => turn'[s] = turn[s]
  BY <1>1, BecomingLeavesOthers
<1>3. UNCHANGED <<conv, active, announced>>
  BY DEF QuietStep
<1>4. \A s \in Turns : s \in Turn!UnderWay' => s \in Turn!UnderWay /\ turn'[s].met = turn[s].met
  BY <1>1, <1>2 DEF GoesOn, Turn!UnderWay, Talking, Searches
<1>5. \A s \in Turns : turn'[s].pc \in Holding \cup Preparing => turn'[s] = turn[s]
  BY <1>1, <1>2 DEF GoesOn, Holding, Preparing, Talking, Searches
<1>6. \A s \in Turns : turn'[s].pc \in Talking =>
        turn[s].pc \in Talking /\ turn'[s].owed = turn[s].owed /\ turn'[s].agent = turn[s].agent
  BY <1>1, <1>2 DEF GoesOn, Talking, Searches
<1>7. AgentsSaved'
  BY <1>3, <1>5, <1>6 DEF TurnInv, SwitchInv, AgentsSaved, Holding, Preparing
<1>8. Announced'
  BY <1>3, <1>4 DEF TurnInv, SwitchInv, Announced, Turn!UnderWay
<1>9. Owing'
  BY <1>3, <1>5 DEF TurnInv, SwitchInv, Owing, Preparing, Turn!At
<1>10. Chosen'
  BY <1>3, <1>5, <1>6 DEF TurnInv, SwitchInv, Chosen, Preparing, Turn!At
<1>11. QED
  BY <1>7, <1>8, <1>9, <1>10 DEF SwitchInv

LEMMA QuietKeeps ==
  ASSUME TurnInv, NEW t \in Turns, QuietStep(t)
  PROVE  TurnInv'
<1>1. PICK m \in Locals : Turn!Becomes(t, m) /\ GoesOn(turn[t], m) /\ RowsMove(t, m)
  BY DEF QuietStep
<1>2. turn' \in [Turns -> Locals] /\ turn'[t] = m /\ OthersStay(t)
  BY <1>1, BecomingLeavesOthers
<1>3. running' \in [Turns -> Nat] /\ SearchesCounted'
  BY <1>1, <1>2, SearchRows
<1>4. CallsCounted'
  BY <1>1, <1>2, CallsStayCounted DEF GoesOn
<1>5. Turn!TypeOK'
  BY <1>3 DEF QuietStep, Turn!TypeOK, TurnInv, TurnTypes
<1>6. QED
  BY <1>2, <1>3, <1>4, <1>5, QuietMeetings, QuietSwitches DEF TurnInv, TurnTypes

-----------------------------------------------------------------------------
(* Steps that read or write the state.                                     *)

LEMMA StructureKept ==
  ASSUME TurnInv, NEW t \in Turns, NEW m \in Locals, turn' \in [Turns -> Locals], turn'[t] = m,
         OthersStay(t), Counted(m), m.pc \notin Searches, ~Searched(t),
         UNCHANGED <<mode, active, running, faults>>, lock' \in BOOLEAN,
         conv' \in Turn!States, announced' \in Turn!ClientAgents \cup {None}
  PROVE  TurnTypes' /\ CallsCounted' /\ SearchesCounted'
<1>1. RowsMove(t, m)
  BY DEF RowsMove
<1>2. running' \in [Turns -> Nat] /\ SearchesCounted'
  BY <1>1, SearchRows
<1>3. CallsCounted'
  BY CallsStayCounted
<1>4. Turn!TypeOK'
  BY <1>2 DEF Turn!TypeOK, TurnInv, TurnTypes
<1>5. QED
  BY <1>2, <1>3, <1>4 DEF TurnTypes

\* A run without calls.
LEMMA NoCallsCounted ==
  ASSUME NEW m \in Locals, m.round = <<>>, m.asked = m.used + m.overtaken,
         m.context => m.pc \in {"rag"} \cup Searches,
         ~m.context => m.pc \notin {"rag", "tool", "write", "reply"} \cup Searches
  PROVE  Counted(m)
<1>1. m.asked = m.used + m.overtaken + Len(m.round)
  <2>1. m.used \in Nat /\ m.overtaken \in Nat
    BY DEF Locals
  <2>2. Len(m.round) = 0
    OBVIOUS
  <2>3. QED
    BY <2>1, <2>2
<1>2. QED
  BY <1>1 DEF Counted, Searches

LEMMA BeginsWith ==
  ASSUME Turn!TurnAssumption, TurnInv, NEW t \in Turns, Turn!Begin(t)
  PROVE  /\ turn' \in [Turns -> Locals] /\ OthersStay(t) /\ Counted(turn'[t])
         /\ turn[t].pc = "idle" /\ turn'[t].pc = "read" /\ turn'[t].owed = announced'
         /\ turn'[t].met = (Turn!UnderWay # {})
         /\ announced' = IF Turn!UnderWay = {} THEN announced ELSE None
         /\ announced' \in Turn!ClientAgents \cup {None}
         /\ \A s \in Turns : s # t =>
              /\ turn'[s].seen = turn[s].seen /\ turn'[s].owed = turn[s].owed
              /\ turn'[s].agent = turn[s].agent
              /\ turn'[s].met = (turn[s].met \/ s \in Turn!UnderWay)
<1>1. turn \in [Turns -> Locals] /\ announced \in Turn!ClientAgents \cup {None}
  BY DEF TurnInv, TurnTypes, Turn!TypeOK
<1>2. turn[t].pc = "idle"
  BY DEF Turn!Begin, Turn!At
<1>3. announced' = (IF Turn!UnderWay = {} THEN announced ELSE None)
  BY DEF Turn!Begin
<1>4. announced' \in Turn!ClientAgents \cup {None}
  BY <1>1, <1>3
<1> DEFINE m == [Turn!Idle EXCEPT !.pc = "read", !.owed = announced', !.met = Turn!UnderWay # {}]
           o(s) == [turn[s] EXCEPT !.met = @ \/ s \in Turn!UnderWay]
<1>5. turn' = [s \in Turns |-> IF s = t THEN m ELSE o(s)]
  BY DEF Turn!Begin
<1>6. PICK owed \in Turn!ClientAgents \cup {None} : owed = announced'
  BY <1>4
<1>7. PICK met \in BOOLEAN : met = (Turn!UnderWay # {})
  OBVIOUS
<1>8. m = [Turn!Idle EXCEPT !.pc = "read", !.owed = owed, !.met = met]
  BY <1>6, <1>7
<1>9. Turn!Idle \in Locals
  BY NothingSeen
<1>10. m \in Locals
  BY <1>8, <1>9 DEF Locals, Preparing
<1>11. m.pc = "read" /\ m.owed = announced' /\ m.met = (Turn!UnderWay # {})
  BY <1>6, <1>7, <1>8, <1>9 DEF Locals
<1>12. m.round = <<>> /\ m.asked = 0 /\ m.used = 0 /\ m.overtaken = 0 /\ m.context = FALSE
  BY DEF Turn!Idle
<1> HIDE DEF m
<1>13. Counted(m)
  <2>1. m.asked = m.used + m.overtaken
    BY <1>12
  <2>2. QED
    BY <1>10, <1>11, <1>12, <2>1, NoCallsCounted DEF Searches
<1>14. ASSUME NEW s \in Turns
       PROVE  /\ o(s) \in Locals /\ o(s).met = (turn[s].met \/ s \in Turn!UnderWay)
              /\ o(s).pc = turn[s].pc /\ o(s).context = turn[s].context
              /\ o(s).round = turn[s].round /\ o(s).asked = turn[s].asked
              /\ o(s).used = turn[s].used /\ o(s).overtaken = turn[s].overtaken
              /\ o(s).seen = turn[s].seen /\ o(s).owed = turn[s].owed /\ o(s).agent = turn[s].agent
  <2>1. turn[s] \in Locals
    BY <1>1
  <2>2. PICK b \in BOOLEAN : b = (turn[s].met \/ s \in Turn!UnderWay)
    OBVIOUS
  <2>3. o(s) = [turn[s] EXCEPT !.met = b]
    BY <2>2
  <2>4. [turn[s] EXCEPT !.met = b] \in Locals
    BY <2>1 DEF Locals
  <2>5. [turn[s] EXCEPT !.met = b].met = b
    BY <2>1 DEF Locals
  <2>6. QED
    BY <2>1, <2>2, <2>3, <2>4, <2>5 DEF Locals
<1> HIDE DEF o
<1>15. turn'[t] = m /\ (\A s \in Turns : s # t => turn'[s] = o(s)) /\ turn' \in [Turns -> Locals]
  BY <1>5, <1>10, <1>14
<1>16. OthersStay(t)
  BY <1>14, <1>15 DEF OthersStay
<1>17. QED
  BY <1>2, <1>3, <1>4, <1>11, <1>13, <1>14, <1>15, <1>16

LEMMA BeginKeeps ==
  ASSUME Turn!TurnAssumption, TurnInv, NEW t \in Turns, Turn!Begin(t)
  PROVE  TurnInv'
<1>1. /\ turn' \in [Turns -> Locals] /\ OthersStay(t) /\ Counted(turn'[t])
      /\ turn[t].pc = "idle" /\ turn'[t].pc = "read" /\ turn'[t].owed = announced'
      /\ turn'[t].met = (Turn!UnderWay # {})
      /\ announced' = IF Turn!UnderWay = {} THEN announced ELSE None
      /\ announced' \in Turn!ClientAgents \cup {None}
  BY BeginsWith
<1>2. \A s \in Turns : s # t =>
        /\ turn'[s].seen = turn[s].seen /\ turn'[s].owed = turn[s].owed
        /\ turn'[s].agent = turn[s].agent
        /\ turn'[s].met = (turn[s].met \/ s \in Turn!UnderWay)
        /\ turn'[s].pc = turn[s].pc
  BY <1>1, BeginsWith DEF OthersStay
<1>3. UNCHANGED <<conv, mode, active, running, faults>>
  BY DEF Turn!Begin
<1>4. TurnTypes' /\ CallsCounted' /\ SearchesCounted'
  <2>1. lock' \in BOOLEAN
    BY OneTurn DEF Turn!Begin
  <2>2. turn'[t].pc \notin Searches /\ ~Searched(t)
    BY <1>1 DEF Searches, Searched
  <2>3. conv' \in Turn!States
    BY <1>3 DEF TurnInv, TurnTypes, Turn!TypeOK
  <2>4. turn'[t] \in Locals
    BY <1>1
  <2>5. QED
    BY <1>1, <1>3, <2>1, <2>2, <2>3, <2>4, StructureKept
<1>5. t \notin Turn!UnderWay /\ Turn!UnderWay' = Turn!UnderWay \cup {t}
  BY <1>1, <1>2 DEF Turn!UnderWay
<1>6. \A s \in Turns : turn'[s].pc \in Holding => s # t /\ turn[s].pc \in Holding
  BY <1>1, <1>2 DEF Holding
<1>7. Meetings'
  <2>1. \A r, s \in Turn!UnderWay' : r # s => turn'[r].met /\ turn'[s].met
    <3>1. SUFFICES ASSUME NEW r \in Turn!UnderWay', NEW s \in Turn!UnderWay', r # s
                   PROVE  turn'[r].met
      OBVIOUS
    <3>2. r \in Turns /\ s \in Turns
      BY DEF Turn!UnderWay
    <3>3. CASE r = t
      BY <1>1, <1>5, <3>1, <3>3
    <3>4. CASE r # t
      BY <1>2, <1>5, <3>2, <3>4
    <3>5. QED
      BY <3>3, <3>4
  <2>2. \A s \in Turns : turn'[s].pc \in Holding /\ ~turn'[s].met => turn'[s].seen = conv'
    BY <1>2, <1>3, <1>6 DEF TurnInv, Meetings
  <2>3. QED
    BY <2>1, <2>2 DEF Meetings
<1>8. AgentsSaved'
  <2>1. \A s \in Turns : turn'[s].pc \in {"save"} \cup Talking => s # t
    BY <1>1 DEF Talking, Searches
  <2>2. "write" \in Talking
    BY DEF Talking
  <2>3. QED
    BY <1>2, <1>3, <2>1, <2>2 DEF TurnInv, SwitchInv, AgentsSaved
<1>9. ASSUME announced' # None
      PROVE  Turn!UnderWay = {} /\ announced' = announced /\ conv.pending = announced /\ conv.current # None
  BY <1>1, <1>9 DEF TurnInv, SwitchInv, Announced
<1>10. Announced'
  <2>1. ASSUME announced' # None, NEW s \in Turn!UnderWay'
        PROVE  ~turn'[s].met
    <3>1. s = t /\ Turn!UnderWay = {}
      BY <1>5, <1>9, <2>1
    <3>2. QED
      BY <1>1, <3>1
  <2>2. QED
    BY <1>3, <1>9, <2>1 DEF Announced
<1>11. Owing'
  <2>1. SUFFICES ASSUME NEW r \in Turns, turn'[r].pc = "read", turn'[r].owed # None
                 PROVE  /\ conv.pending = turn'[r].owed /\ conv.current # None
                        /\ \A s \in Turns : turn'[s].pc \in Holding => turn'[s].seen.pending = turn'[r].owed
    BY <1>3 DEF Owing, Turn!At
  <2>2. CASE r = t
    <3>1. Turn!UnderWay = {} /\ conv.pending = turn'[r].owed /\ conv.current # None
      BY <1>1, <1>9, <2>1, <2>2
    <3>2. \A s \in Turns : turn[s].pc \notin Holding
      BY <3>1 DEF Turn!UnderWay, Holding
    <3>3. QED
      BY <1>6, <3>1, <3>2
  <2>3. CASE r # t
    BY <1>2, <1>6, <2>1, <2>3 DEF TurnInv, SwitchInv, Owing, Turn!At
  <2>4. QED
    BY <2>2, <2>3
<1>12. Chosen'
  <2>1. \A s \in Turns : turn'[s].pc \in {"choose", "save"} \cup Talking => s # t
    BY <1>1 DEF Talking, Searches
  <2>2. QED
    BY <1>2, <1>3, <2>1 DEF TurnInv, SwitchInv, Chosen, Turn!At
<1>13. QED
  BY <1>4, <1>7, <1>8, <1>10, <1>11, <1>12 DEF TurnInv, SwitchInv

\* Who met nobody is alone.
LEMMA MetNobody ==
  ASSUME TurnInv, NEW t \in Turn!UnderWay, ~turn[t].met, NEW s \in Turn!UnderWay
  PROVE  s = t
BY DEF TurnInv, Meetings

\* A step of one run that reads the state, or chooses.
ReadingStep(t, m) ==
  /\ UNCHANGED <<conv, mode, active, lock, running, announced, faults>>
  /\ m \in Locals /\ Turn!Becomes(t, m)
  /\ m.agent = turn[t].agent \/ m.pc = "save"
  /\ m.owed = turn[t].owed /\ m.met = turn[t].met
  /\ \/ turn[t].pc = "read" /\ m.pc = "choose" /\ m.seen = conv
     \/ turn[t].pc = "choose" /\ m.pc = "save" /\ m.seen = turn[t].seen
     \/ turn[t].pc = "tool" /\ m.pc = "write" /\ m.seen = conv
  /\ m.round = turn[t].round /\ m.asked = turn[t].asked /\ m.used = turn[t].used
  /\ m.overtaken = turn[t].overtaken /\ m.context = turn[t].context
  /\ m.pc = "save" => m.agent # None /\ (turn[t].owed \in active => m.agent = turn[t].owed)
  /\ m.pc = "write" /\ Head(m.round).tool = "switch_agent" => Head(m.round).arg \in Turn!ClientAgents

LEMMA ReadingKeeps ==
  ASSUME Turn!TurnAssumption, TurnInv, NEW t \in Turns, NEW m, ReadingStep(t, m)
  PROVE  TurnInv'
<1>1. m \in Locals /\ turn' \in [Turns -> Locals] /\ turn'[t] = m /\ OthersStay(t)
      /\ \A s \in Turns : s # t => turn'[s] = turn[s]
  BY BecomingLeavesOthers DEF ReadingStep
<1>2. UNCHANGED <<conv, mode, active, lock, running, announced, faults>>
  BY DEF ReadingStep
<1>3. Counted(turn[t])
  BY OneTurn
<1>4. Counted(m)
  BY <1>3 DEF Counted, ReadingStep, Searches, Preparing
<1>5. TurnTypes' /\ CallsCounted' /\ SearchesCounted'
  <2>1. m.pc \notin Searches /\ ~Searched(t)
    BY DEF ReadingStep, Searches, Searched
  <2>2. lock' \in BOOLEAN /\ conv' \in Turn!States /\ announced' \in Turn!ClientAgents \cup {None}
    BY <1>2 DEF TurnInv, TurnTypes, Turn!TypeOK
  <2>3. QED
    BY <1>1, <1>2, <1>4, <2>1, <2>2, StructureKept
<1>6. /\ Turn!UnderWay' = Turn!UnderWay
      /\ \A s \in Turns : turn'[s].met = turn[s].met /\ turn'[s].owed = turn[s].owed
  BY <1>1 DEF ReadingStep, Turn!UnderWay
<1>7. Meetings'
  <2>1. \A r, s \in Turn!UnderWay' : r # s => turn'[r].met /\ turn'[s].met
    BY <1>6 DEF TurnInv, Meetings, Turn!UnderWay
  <2>2. turn[t].pc = "choose" /\ ~turn[t].met => turn[t].seen = conv
    BY DEF TurnInv, Meetings, Holding
  <2>3. \A s \in Turns : turn'[s].pc \in Holding /\ ~turn'[s].met => turn'[s].seen = conv'
    BY <1>1, <1>2, <2>2 DEF TurnInv, Meetings, ReadingStep
  <2>4. QED
    BY <2>1, <2>3 DEF Meetings
<1>8. AgentsSaved'
  <2>1. turn[t].pc = "tool" => conv.current # None
    BY DEF TurnInv, SwitchInv, AgentsSaved, Talking
  <2>2. m.pc \in Talking => conv.current # None
    BY <2>1 DEF ReadingStep, Talking, Searches
  <2>3. m.pc = "save" => m.agent # None
    BY DEF ReadingStep
  <2>4. m.pc = "write" => m.seen.current # None
    BY <2>1 DEF ReadingStep
  <2>5. QED
    BY <1>1, <1>2, <2>2, <2>3, <2>4 DEF TurnInv, SwitchInv, AgentsSaved
<1>9. Announced'
  BY <1>2, <1>6 DEF TurnInv, SwitchInv, Announced, Turn!UnderWay
<1>10. Owing'
  <2>1. SUFFICES ASSUME NEW r \in Turns, turn'[r].pc = "read", turn'[r].owed # None
                 PROVE  /\ conv.pending = turn'[r].owed /\ conv.current # None
                        /\ \A s \in Turns : turn'[s].pc \in Holding => turn'[s].seen.pending = turn'[r].owed
    BY <1>2 DEF Owing, Turn!At
  <2>2. r # t /\ turn'[r] = turn[r]
    BY <1>1, <2>1 DEF ReadingStep
  <2>3. /\ conv.pending = turn[r].owed /\ conv.current # None
        /\ \A s \in Turns : turn[s].pc \in Holding => turn[s].seen.pending = turn[r].owed
    BY <2>1, <2>2 DEF TurnInv, SwitchInv, Owing, Turn!At
  <2>4. m.seen.pending = turn[r].owed
    BY <2>3 DEF ReadingStep, Holding
  <2>5. QED
    BY <1>1, <2>2, <2>3, <2>4
<1>11. Chosen'
  <2>1. ASSUME m.pc = "choose", m.owed # None
        PROVE  m.seen.pending = m.owed /\ m.seen.current # None
    BY <2>1 DEF TurnInv, SwitchInv, Owing, ReadingStep, Turn!At
  <2>2. ASSUME m.pc \in {"save"} \cup Talking, m.owed \in active
        PROVE  m.agent = m.owed
    BY <2>2 DEF TurnInv, SwitchInv, Chosen, ReadingStep, Talking, Searches
  <2>3. QED
    BY <1>1, <1>2, <2>1, <2>2 DEF TurnInv, SwitchInv, Chosen, Turn!At
<1>12. QED
  BY <1>5, <1>7, <1>8, <1>9, <1>10, <1>11 DEF TurnInv, SwitchInv

LEMMA ReadStateKeeps ==
  ASSUME Turn!TurnAssumption, TurnInv, NEW t \in Turns, Turn!ReadState(t)
  PROVE  TurnInv'
<1>1. turn[t] \in Locals /\ turn[t].pc = "read" /\ conv \in Turn!States
  BY OneTurn DEF Turn!ReadState, Turn!At, TurnInv, TurnTypes, Turn!TypeOK
<1> DEFINE m == [turn[t] EXCEPT !.pc = "choose", !.seen = conv]
<1>2. m \in Locals
  BY <1>1 DEF Locals, Preparing
<1>3. SameCalls(turn[t], m) /\ m.pc = "choose" /\ m.seen = conv /\ m.context = turn[t].context
  BY <1>1 DEF Locals, SameCalls
<1>4. Turn!Becomes(t, m) /\ UNCHANGED <<conv, mode, active, lock, running, announced, faults>>
  BY DEF Turn!ReadState
<1> HIDE DEF m
<1>5. ReadingStep(t, m)
  BY <1>1, <1>2, <1>3, <1>4 DEF ReadingStep, SameCalls
<1>6. QED
  BY <1>5, ReadingKeeps

LEMMA ChooseAgentKeeps ==
  ASSUME Turn!TurnAssumption, TurnInv, NEW t \in Turns, Turn!ChooseAgent(t)
  PROVE  TurnInv'
<1>1. turn[t] \in Locals /\ turn[t].pc = "choose" /\ turn[t].seen \in Turn!States
  BY OneTurn DEF Turn!ChooseAgent, Turn!At, Locals
<1>2. PICK a : a = Turn!resolveAgentConfig(turn[t].seen)
  OBVIOUS
<1>3. /\ a \in Turn!ClientAgents \cup {Default} /\ a # None
      /\ turn[t].seen.current # None /\ turn[t].seen.pending \in active => a = turn[t].seen.pending
  BY <1>1, <1>2, ChosenAgent DEF TurnInv
<1> DEFINE m == [turn[t] EXCEPT !.pc = "save", !.agent = a]
<1>4. m \in Locals
  BY <1>1, <1>3 DEF Locals, Preparing
<1>5. /\ m.owed = turn[t].owed /\ m.met = turn[t].met /\ m.pc = "save" /\ m.agent = a
      /\ m.round = turn[t].round /\ m.asked = turn[t].asked /\ m.used = turn[t].used
      /\ m.overtaken = turn[t].overtaken /\ m.context = turn[t].context /\ m.seen = turn[t].seen
  BY <1>1 DEF Locals
<1>6. Turn!Becomes(t, m) /\ UNCHANGED <<conv, mode, active, lock, running, announced, faults>>
  BY <1>2 DEF Turn!ChooseAgent
<1> HIDE DEF m
<1>7. turn[t].owed \in active => a = turn[t].owed
  <2>1. None \notin active
    BY AgentsInOrder DEF TurnInv, TurnTypes, Turn!TypeOK
  <2>2. QED
    BY <1>1, <1>3, <2>1 DEF TurnInv, SwitchInv, Chosen, Turn!At
<1>8. ReadingStep(t, m)
  BY <1>1, <1>3, <1>4, <1>5, <1>6, <1>7 DEF ReadingStep
<1>9. QED
  BY <1>8, ReadingKeeps

LEMMA ReadFreshKeeps ==
  ASSUME Turn!TurnAssumption, TurnInv, NEW t \in Turns, Turn!ReadFresh(t)
  PROVE  TurnInv'
<1>1. turn[t] \in Locals /\ turn[t].pc = "tool" /\ conv \in Turn!States /\ active \subseteq Turn!ClientAgents
  BY OneTurn DEF Turn!ReadFresh, Turn!At, TurnInv, TurnTypes, Turn!TypeOK
<1>2. UNCHANGED <<conv, mode, active, lock, running, announced, faults>>
  BY DEF Turn!ReadFresh
<1>3. CASE Turn!Call(t).tool = "switch_agent" /\ Turn!Call(t).arg \notin active
  <2>1. PICK m \in Locals : Turn!Becomes(t, m) /\ GoesOn(turn[t], m) /\ m.pc \notin Searches /\ ~Searched(t)
    BY <1>1, <1>3, ToolGoesOn DEF Turn!ReadFresh
  <2>2. QuietStep(t)
    BY <1>2, <2>1, QuietRun, OneTurn
  <2>3. QED
    BY <2>2, QuietKeeps
<1>4. CASE ~(Turn!Call(t).tool = "switch_agent" /\ Turn!Call(t).arg \notin active)
  <2> DEFINE m == [turn[t] EXCEPT !.pc = "write", !.seen = conv]
  <2>1. m \in Locals
    BY <1>1 DEF Locals, Talking
  <2>2. SameCalls(turn[t], m) /\ m.pc = "write" /\ m.seen = conv /\ m.context = turn[t].context
    BY <1>1 DEF Locals, SameCalls
  <2>3. Turn!Becomes(t, m)
    BY <1>4 DEF Turn!ReadFresh
  <2> HIDE DEF m
  <2>4. Head(m.round).tool = "switch_agent" => Head(m.round).arg \in Turn!ClientAgents
    BY <1>1, <1>4, <2>2 DEF SameCalls, Turn!Call
  <2>5. ReadingStep(t, m)
    BY <1>1, <1>2, <2>1, <2>2, <2>3, <2>4 DEF ReadingStep, SameCalls
  <2>6. QED
    BY <2>5, ReadingKeeps
<1>5. QED
  BY <1>3, <1>4

\* A step of one run that writes the state it has seen, with another agent or
\* variables.
WritingStep(t, m) ==
  /\ UNCHANGED <<mode, active, lock, running, announced, faults>>
  /\ m \in Locals /\ Turn!Becomes(t, m) /\ Counted(m)
  /\ turn[t].pc \in {"save", "write"} /\ m.pc \in {"rag", "ask", "reply"}
  /\ m.owed = turn[t].owed /\ m.met = turn[t].met /\ m.agent = turn[t].agent
  /\ conv' \in Turn!States /\ conv'.current # None /\ conv'.pending = turn[t].seen.pending

LEMMA WritingKeeps ==
  ASSUME Turn!TurnAssumption, TurnInv, NEW t \in Turns, NEW m, WritingStep(t, m)
  PROVE  TurnInv'
<1>1. m \in Locals /\ turn' \in [Turns -> Locals] /\ turn'[t] = m /\ OthersStay(t)
      /\ \A s \in Turns : s # t => turn'[s] = turn[s]
  BY BecomingLeavesOthers DEF WritingStep
<1>2. UNCHANGED <<mode, active, lock, running, announced, faults>>
  BY DEF WritingStep
<1>3. TurnTypes' /\ CallsCounted' /\ SearchesCounted'
  <2>1. m.pc \notin Searches /\ ~Searched(t)
    BY DEF WritingStep, Searches, Searched
  <2>2. lock' \in BOOLEAN /\ conv' \in Turn!States /\ announced' \in Turn!ClientAgents \cup {None}
    BY <1>2 DEF TurnInv, TurnTypes, Turn!TypeOK, WritingStep
  <2>3. Counted(m)
    BY DEF WritingStep
  <2>4. QED
    BY <1>1, <1>2, <2>1, <2>2, <2>3, StructureKept
<1>4. t \in Turn!UnderWay /\ Turn!UnderWay' = Turn!UnderWay /\ \A s \in Turns : turn'[s].met = turn[s].met
  BY <1>1 DEF WritingStep, Turn!UnderWay
<1>5. \A s \in Turns : turn'[s].pc \in Holding => s # t /\ s \in Turn!UnderWay
  BY <1>1 DEF WritingStep, Turn!UnderWay, Holding
<1>6. Meetings'
  <2>1. \A r, s \in Turn!UnderWay' : r # s => turn'[r].met /\ turn'[s].met
    BY <1>4 DEF TurnInv, Meetings, Turn!UnderWay
  <2>2. \A s \in Turns : turn'[s].pc \in Holding => turn'[s].met
    BY <1>4, <1>5 DEF TurnInv, Meetings
  <2>3. QED
    BY <2>1, <2>2 DEF Meetings
<1>7. AgentsSaved'
  <2>1. m.pc \notin {"save", "write"} /\ conv'.current # None
    BY DEF WritingStep
  <2>2. QED
    BY <1>1, <2>1 DEF TurnInv, SwitchInv, AgentsSaved
<1>8. Announced'
  <2>1. ASSUME announced # None
        PROVE  conv'.pending = announced
    <3>1. ~turn[t].met /\ conv.pending = announced
      BY <1>4, <2>1 DEF TurnInv, SwitchInv, Announced
    <3>2. turn[t].seen = conv
      BY <3>1 DEF TurnInv, Meetings, WritingStep, Holding
    <3>3. QED
      BY <3>1, <3>2 DEF WritingStep
  <2>2. conv'.current # None
    BY DEF WritingStep
  <2>3. QED
    BY <1>2, <1>4, <2>1, <2>2 DEF TurnInv, SwitchInv, Announced, Turn!UnderWay
<1>9. Owing'
  <2>1. SUFFICES ASSUME NEW r \in Turns, turn'[r].pc = "read", turn'[r].owed # None
                 PROVE  /\ conv'.pending = turn'[r].owed /\ conv'.current # None
                        /\ \A s \in Turns : turn'[s].pc \in Holding => turn'[s].seen.pending = turn'[r].owed
    BY DEF Owing, Turn!At
  <2>2. r # t /\ turn'[r] = turn[r]
    BY <1>1, <2>1 DEF WritingStep
  <2>3. \A s \in Turns : turn[s].pc \in Holding => turn[s].seen.pending = turn[r].owed
    BY <2>1, <2>2 DEF TurnInv, SwitchInv, Owing, Turn!At
  <2>4. conv'.pending = turn[r].owed /\ conv'.current # None
    BY <2>3 DEF WritingStep, Holding
  <2>5. QED
    BY <1>1, <1>5, <2>2, <2>3, <2>4
<1>10. Chosen'
  <2>1. ASSUME turn[t].owed \in active
        PROVE  m.agent = m.owed
    BY <2>1 DEF TurnInv, SwitchInv, Chosen, WritingStep, Talking
  <2>2. m.pc # "choose" /\ m.owed = turn[t].owed
    BY DEF WritingStep
  <2>3. QED
    BY <1>1, <1>2, <2>1, <2>2 DEF TurnInv, SwitchInv, Chosen, Turn!At
<1>11. QED
  BY <1>3, <1>6, <1>7, <1>8, <1>9, <1>10 DEF TurnInv, SwitchInv

LEMMA SaveStateKeeps ==
  ASSUME Turn!TurnAssumption, TurnInv, NEW t \in Turns, Turn!SaveState(t)
  PROVE  TurnInv'
<1>1. turn[t] \in Locals /\ turn[t].pc = "save" /\ turn[t].seen \in Turn!States /\ Counted(turn[t])
  BY OneTurn DEF Turn!SaveState, Turn!At, Locals
<1>2. turn[t].agent \in Turn!ClientAgents \cup {Default, None} /\ turn[t].agent # None
  BY <1>1 DEF TurnInv, SwitchInv, AgentsSaved, Locals
<1>3. conv' \in Turn!States /\ conv'.current # None /\ conv'.pending = turn[t].seen.pending
  <2>1. conv' = [turn[t].seen EXCEPT !.current = turn[t].agent]
    BY DEF Turn!SaveState
  <2>2. QED
    BY <1>1, <1>2, <2>1 DEF Turn!States
<1>4. PICK searching \in BOOLEAN : searching = (turn[t].agent \in Searching)
  <2>1. (turn[t].agent \in Searching) \in BOOLEAN
    OBVIOUS
  <2>2. QED
    BY <2>1, Zenon
<1>5. PICK none \in Turn!States : none = Turn!Idle.seen
  BY NothingSeen
<1> DEFINE m == [turn[t] EXCEPT !.pc = IF searching THEN "rag" ELSE "ask",
                                !.context = searching, !.seen = none]
<1>6. m = Turn!Prepared(t)
  BY <1>4, <1>5 DEF Turn!Prepared
<1>7. Turn!Becomes(t, m) /\ UNCHANGED <<mode, active, lock, running, announced, faults>>
  BY <1>6 DEF Turn!SaveState
<1>8. m \in Locals
  BY <1>1 DEF Locals, Talking
<1>9. /\ m.pc = (IF searching THEN "rag" ELSE "ask") /\ m.context = searching
      /\ SameCalls(turn[t], m)
  BY <1>1 DEF Locals, SameCalls
<1> HIDE DEF m
<1>10. turn[t].round = <<>> /\ turn[t].asked = turn[t].used + turn[t].overtaken + Len(turn[t].round)
  BY <1>1 DEF Counted, Preparing
<1>11. Counted(m)
  <2>1. m.asked = m.used + m.overtaken
    <3>1. Len(turn[t].round) = 0
      BY <1>10
    <3>2. turn[t].used \in Nat /\ turn[t].overtaken \in Nat
      BY <1>1 DEF Locals
    <3>3. turn[t].asked = turn[t].used + turn[t].overtaken
      BY <1>10, <3>1, <3>2
    <3>4. QED
      BY <1>9, <3>3 DEF SameCalls
  <2>2. QED
    BY <1>8, <1>9, <1>10, <2>1, NoCallsCounted DEF SameCalls, Searches
<1>12. WritingStep(t, m)
  BY <1>1, <1>3, <1>7, <1>8, <1>9, <1>11 DEF WritingStep, SameCalls
<1>13. QED
  BY <1>12, WritingKeeps

\* After its write a tool has a result to send.
LEMMA WrittenCounted ==
  ASSUME NEW l \in Locals, Counted(l), l.pc = "write", NEW none \in Turn!States
  PROVE  LET m == [l EXCEPT !.pc = "reply", !.seen = none]
         IN  /\ m \in Locals /\ Counted(m)
             /\ m.pc = "reply" /\ SameCalls(l, m) /\ m.context = l.context
<1> DEFINE m == [l EXCEPT !.pc = "reply", !.seen = none]
<1>1. m \in Locals
  BY DEF Locals, Talking
<1>2. m.pc = "reply" /\ SameCalls(l, m) /\ m.context = l.context
  BY DEF Locals, SameCalls
<1> HIDE DEF m
<1>3. Counted(m)
  BY <1>2 DEF Counted, SameCalls, Preparing, Searches
<1>4. QED
  BY <1>1, <1>2, <1>3 DEF m

LEMMA CalledIsCall ==
  ASSUME Turn!TurnAssumption, TurnInv, NEW t \in Turns, turn[t].pc \in {"tool", "write"}
  PROVE  Turn!Call(t) \in Calls /\ Turn!Call(t) = Head(turn[t].round)
<1>1. turn[t].round \in Seq(Calls) /\ turn[t].round # <<>>
  BY OneTurn DEF Counted, Locals
<1>2. QED
  BY <1>1 DEF Turn!Call

LEMMA SetVariableKeeps ==
  ASSUME Turn!TurnAssumption, TurnInv, NEW t \in Turns, Turn!SetVariable(t)
  PROVE  TurnInv'
<1>1. turn[t] \in Locals /\ turn[t].pc = "write" /\ turn[t].seen \in Turn!States /\ Counted(turn[t])
  BY OneTurn DEF Turn!SetVariable, Turn!At, Locals
<1>2. Turn!Call(t).arg \in Vars /\ Turn!Call(t).value \in Values
  BY <1>1, CalledIsCall DEF Turn!SetVariable, Turn!TurnAssumption
<1>3. turn[t].seen.current # None
  BY <1>1 DEF TurnInv, SwitchInv, AgentsSaved
<1>4. conv' \in Turn!States /\ conv'.current # None /\ conv'.pending = turn[t].seen.pending
  <2>1. conv' = [turn[t].seen EXCEPT !.vars[Turn!Call(t).arg] = Turn!Call(t).value]
    BY DEF Turn!SetVariable
  <2>2. QED
    BY <1>1, <1>2, <1>3, <2>1 DEF Turn!States
<1>5. PICK none \in Turn!States : none = Turn!Idle.seen
  BY NothingSeen
<1> DEFINE m == [turn[t] EXCEPT !.pc = "reply", !.seen = none]
<1>6. Turn!Becomes(t, m) /\ UNCHANGED <<mode, active, lock, running, announced, faults>>
  BY <1>5 DEF Turn!SetVariable
<1>7. m \in Locals /\ Counted(m) /\ m.pc = "reply" /\ SameCalls(turn[t], m)
  BY <1>1, WrittenCounted
<1> HIDE DEF m
<1>8. WritingStep(t, m)
  BY <1>1, <1>4, <1>6, <1>7 DEF WritingStep, SameCalls
<1>9. QED
  BY <1>8, WritingKeeps

LEMMA SwitchesTo ==
  ASSUME Turn!TurnAssumption, TurnInv, NEW t \in Turns, Turn!SwitchAgent(t)
  PROVE  /\ turn[t].pc = "write" /\ turn[t].seen \in Turn!States
         /\ UNCHANGED <<mode, active, lock, running, faults>>
         /\ conv' \in Turn!States /\ conv'.current # None /\ conv'.pending \in Turn!ClientAgents
         /\ announced' = IF turn[t].met THEN None ELSE conv'.pending
         /\ turn' \in [Turns -> Locals] /\ OthersStay(t) /\ Counted(turn'[t])
         /\ turn'[t].pc = "reply" /\ turn'[t].agent = turn[t].agent
         /\ turn'[t].owed = turn[t].owed /\ turn'[t].met = turn[t].met
         /\ \A s \in Turns : s # t =>
              /\ turn'[s].seen = turn[s].seen /\ turn'[s].agent = turn[s].agent
              /\ turn'[s].met = turn[s].met
              /\ turn'[s].owed = IF turn[s].pc = "read" THEN None ELSE turn[s].owed
<1>1. turn[t] \in Locals /\ turn[t].pc = "write" /\ turn[t].seen \in Turn!States /\ Counted(turn[t])
  BY OneTurn DEF Turn!SwitchAgent, Turn!At, Locals
<1>2. UNCHANGED <<mode, active, lock, running, faults>>
  BY DEF Turn!SwitchAgent
<1>3. Turn!Call(t).arg \in Turn!ClientAgents
  BY <1>1 DEF Turn!SwitchAgent, Counted, Turn!Call
<1>4. turn[t].seen.current # None
  BY <1>1 DEF TurnInv, SwitchInv, AgentsSaved
<1>5. conv' \in Turn!States /\ conv'.current # None /\ conv'.pending = Turn!Call(t).arg
  <2>1. conv' = [turn[t].seen EXCEPT !.pending = Turn!Call(t).arg]
    BY DEF Turn!SwitchAgent
  <2>2. QED
    BY <1>1, <1>3, <1>4, <2>1 DEF Turn!States
<1>6. announced' = (IF turn[t].met THEN None ELSE conv'.pending)
  BY <1>5 DEF Turn!SwitchAgent
<1>7. PICK none \in Turn!States : none = Turn!Idle.seen
  BY NothingSeen
<1> DEFINE m == [turn[t] EXCEPT !.pc = "reply", !.seen = none]
           o(s) == [turn[s] EXCEPT !.owed = IF Turn!At(s, "read") THEN None ELSE @]
<1>8. turn' = [s \in Turns |-> IF s = t THEN m ELSE o(s)]
  BY <1>7 DEF Turn!SwitchAgent
<1>9. m \in Locals /\ Counted(m) /\ m.pc = "reply" /\ SameCalls(turn[t], m)
  BY <1>1, WrittenCounted
<1> HIDE DEF m
<1>10. ASSUME NEW s \in Turns
       PROVE  /\ o(s) \in Locals /\ o(s).owed = (IF turn[s].pc = "read" THEN None ELSE turn[s].owed)
              /\ o(s).pc = turn[s].pc /\ o(s).context = turn[s].context
              /\ o(s).round = turn[s].round /\ o(s).asked = turn[s].asked
              /\ o(s).used = turn[s].used /\ o(s).overtaken = turn[s].overtaken
              /\ o(s).seen = turn[s].seen /\ o(s).met = turn[s].met /\ o(s).agent = turn[s].agent
  <2>1. turn[s] \in Locals
    BY OneTurn
  <2>2. PICK b : b = (IF turn[s].pc = "read" THEN None ELSE turn[s].owed)
    OBVIOUS
  <2>3. b \in Turn!ClientAgents \cup {None}
    BY <2>1, <2>2 DEF Locals
  <2>4. o(s) = [turn[s] EXCEPT !.owed = b]
    BY <2>2 DEF Turn!At
  <2>5. [turn[s] EXCEPT !.owed = b] \in Locals
    BY <2>1, <2>3 DEF Locals
  <2>6. [turn[s] EXCEPT !.owed = b].owed = b
    BY <2>1 DEF Locals
  <2>7. QED
    BY <2>1, <2>2, <2>4, <2>5, <2>6 DEF Locals
<1> HIDE DEF o
<1>11. turn'[t] = m /\ (\A s \in Turns : s # t => turn'[s] = o(s)) /\ turn' \in [Turns -> Locals]
  BY <1>8, <1>9, <1>10
<1>12. OthersStay(t)
  BY <1>10, <1>11 DEF OthersStay
<1>13. QED
  BY <1>1, <1>2, <1>3, <1>5, <1>6, <1>9, <1>10, <1>11, <1>12 DEF SameCalls

LEMMA SwitchAgentKeeps ==
  ASSUME Turn!TurnAssumption, TurnInv, NEW t \in Turns, Turn!SwitchAgent(t)
  PROVE  TurnInv'
<1>1. /\ turn[t].pc = "write"
      /\ UNCHANGED <<mode, active, lock, running, faults>>
      /\ conv' \in Turn!States /\ conv'.current # None /\ conv'.pending \in Turn!ClientAgents
      /\ announced' = IF turn[t].met THEN None ELSE conv'.pending
      /\ turn' \in [Turns -> Locals] /\ OthersStay(t) /\ Counted(turn'[t])
      /\ turn'[t].pc = "reply" /\ turn'[t].agent = turn[t].agent
      /\ turn'[t].owed = turn[t].owed /\ turn'[t].met = turn[t].met
  BY SwitchesTo
<1>2. \A s \in Turns : s # t =>
        /\ turn'[s].seen = turn[s].seen /\ turn'[s].agent = turn[s].agent
        /\ turn'[s].met = turn[s].met /\ turn'[s].pc = turn[s].pc
        /\ turn'[s].owed = IF turn[s].pc = "read" THEN None ELSE turn[s].owed
  BY <1>1, SwitchesTo DEF OthersStay
<1>3. TurnTypes' /\ CallsCounted' /\ SearchesCounted'
  <2>1. turn'[t].pc \notin Searches /\ ~Searched(t)
    BY <1>1 DEF Searches, Searched
  <2>2. lock' \in BOOLEAN /\ announced' \in Turn!ClientAgents \cup {None}
    BY <1>1 DEF TurnInv, TurnTypes, Turn!TypeOK
  <2>3. turn'[t] \in Locals
    BY <1>1
  <2>4. QED
    BY <1>1, <2>1, <2>2, <2>3, StructureKept
<1>4. t \in Turn!UnderWay /\ Turn!UnderWay' = Turn!UnderWay /\ \A s \in Turns : turn'[s].met = turn[s].met
  BY <1>1, <1>2 DEF Turn!UnderWay
<1>5. \A s \in Turns : turn'[s].pc \in Holding => s # t /\ s \in Turn!UnderWay
  BY <1>1, <1>2 DEF Turn!UnderWay, Holding
<1>6. Meetings'
  <2>1. \A r, s \in Turn!UnderWay' : r # s => turn'[r].met /\ turn'[s].met
    BY <1>4 DEF TurnInv, Meetings, Turn!UnderWay
  <2>2. \A s \in Turns : turn'[s].pc \in Holding => turn'[s].met
    BY <1>4, <1>5 DEF TurnInv, Meetings
  <2>3. QED
    BY <2>1, <2>2 DEF Meetings
<1>7. AgentsSaved'
  BY <1>1, <1>2 DEF TurnInv, SwitchInv, AgentsSaved
<1>8. Announced'
  <2>1. ASSUME announced' # None, NEW s \in Turn!UnderWay'
        PROVE  ~turn'[s].met
    <3>1. ~turn[t].met
      BY <1>1, <2>1
    <3>2. s = t
      BY <1>4, <2>1, <3>1, MetNobody
    <3>3. QED
      BY <1>1, <3>1, <3>2
  <2>2. announced' # None => announced' = conv'.pending
    BY <1>1
  <2>3. QED
    BY <1>1, <2>1, <2>2 DEF Announced
<1>9. Owing'
  BY <1>1, <1>2 DEF Owing, Turn!At
<1>10. Chosen'
  <2>1. turn[t].owed \in active => turn[t].agent = turn[t].owed
    BY <1>1 DEF TurnInv, SwitchInv, Chosen, Talking
  <2>2. ASSUME NEW s \in Turns, s # t, turn[s].pc \in {"choose", "save"} \cup Talking
        PROVE  turn'[s].owed = turn[s].owed
    BY <1>2, <2>2 DEF Talking, Searches
  <2>3. QED
    BY <1>1, <1>2, <2>1, <2>2 DEF TurnInv, SwitchInv, Chosen, Turn!At
<1>11. QED
  BY <1>3, <1>6, <1>7, <1>8, <1>9, <1>10 DEF TurnInv, SwitchInv

-----------------------------------------------------------------------------
(* The inductive invariant, and what follows.                              *)

\* The lock expires, and agents are switched off.
LEMMA OthersKeep ==
  ASSUME Turn!TurnAssumption, TurnInv, Turn!LockExpires \/ \E a \in Turn!ClientAgents : Turn!Deactivate(a)
  PROVE  TurnInv'
<1>1. /\ UNCHANGED <<conv, mode, running, turn, announced>>
      /\ active' \subseteq active /\ lock' \in BOOLEAN
      /\ faults' = faults \/ (faults < MaxFaults /\ faults' = faults + 1)
  BY DEF Turn!LockExpires, Turn!Deactivate, Turn!Fault, TurnInv, TurnTypes, Turn!TypeOK
<1>2. faults \in Nat /\ faults' \in 0..MaxFaults /\ faults <= faults'
  BY <1>1 DEF TurnInv, TurnTypes, Turn!TypeOK, Turn!TurnAssumption
<1>3. TurnTypes'
  BY <1>1, <1>2 DEF TurnInv, TurnTypes, Turn!TypeOK
<1>4. CallsCounted'
  BY <1>1 DEF TurnInv, CallsCounted
<1>5. SearchesCounted'
  <2>1. SUFFICES ASSUME NEW t \in Turns
                 PROVE  (Searched(t) => running[t] >= 1) /\ running[t] <= faults' + One(Searched(t))
    BY <1>1 DEF SearchesCounted, Searched
  <2>2. (Searched(t) => running[t] >= 1) /\ running[t] <= faults + One(Searched(t))
    BY DEF TurnInv, SearchesCounted
  <2>3. PICK n \in {0, 1} : n = One(Searched(t))
    BY DEF One
  <2>4. running[t] \in Nat
    BY OneTurn
  <2>5. running[t] <= faults' + n
    BY <1>2, <2>2, <2>3, <2>4
  <2>6. QED
    BY <2>2, <2>3, <2>5
<1>6. Meetings'
  BY <1>1 DEF TurnInv, Meetings, Turn!UnderWay
<1>7. SwitchInv'
  BY <1>1 DEF TurnInv, SwitchInv, AgentsSaved, Announced, Owing, Chosen, Turn!UnderWay, Turn!At
<1>8. QED
  BY <1>3, <1>4, <1>5, <1>6, <1>7 DEF TurnInv

LEMMA TurnBegins ==
  ASSUME Turn!TurnAssumption, Turn!Init
  PROVE  TurnInv
<1>1. /\ Turn!Idle \in Locals /\ Turn!Idle.seen \in Turn!States
      /\ Turn!Idle.seen.current = None /\ Turn!Idle.seen.pending = None
  BY NothingSeen
<1>2. Turn!Idle.pc = "idle" /\ Turn!Idle.round = <<>> /\ Turn!Idle.asked = 0
      /\ Turn!Idle.used = 0 /\ Turn!Idle.overtaken = 0
      /\ Turn!Idle.context = FALSE
  BY DEF Turn!Idle
<1>3. \A t \in Turns : turn[t] = Turn!Idle
  BY DEF Turn!Init
<1>4. TurnTypes
  <2>1. turn \in [Turns -> Locals]
    BY <1>1 DEF Turn!Init
  <2>2. faults \in 0..MaxFaults
    BY DEF Turn!Init, Turn!TurnAssumption
  <2>3. running \in [Turns -> Nat]
    BY DEF Turn!Init
  <2>4. /\ conv \in Turn!States /\ mode \in {"auto", "manual"} /\ active \subseteq Turn!ClientAgents
        /\ lock \in BOOLEAN /\ announced \in Turn!ClientAgents \cup {None}
    BY <1>1 DEF Turn!Init
  <2>5. QED
    BY <2>1, <2>2, <2>3, <2>4 DEF TurnTypes, Turn!TypeOK
<1>5. CallsCounted
  <2>1. Turn!Idle.asked = Turn!Idle.used + Turn!Idle.overtaken
    BY <1>2
  <2>2. Counted(Turn!Idle)
    BY <1>1, <1>2, <2>1, NoCallsCounted DEF Searches
  <2>3. QED
    BY <1>3, <2>2 DEF CallsCounted
<1>6. SearchesCounted
  BY <1>2, <1>3 DEF Turn!Init, SearchesCounted, Searched, Searches, One
<1>7. Meetings
  BY <1>2, <1>3 DEF Meetings, Turn!UnderWay, Holding
<1>8. SwitchInv
  BY <1>2, <1>3 DEF Turn!Init, SwitchInv, AgentsSaved, Announced, Owing, Chosen, Turn!At, Talking, Searches
<1>9. QED
  BY <1>4, <1>5, <1>6, <1>7, <1>8 DEF TurnInv

LEMMA TurnGoesOn ==
  ASSUME Turn!TurnAssumption, TurnInv, [Turn!Next]_Turn!vars
  PROVE  TurnInv'
<1>1. CASE UNCHANGED Turn!vars
  BY <1>1 DEF Turn!vars, TurnInv, TurnTypes, Turn!TypeOK, CallsCounted, SearchesCounted, Searched,
     Meetings, Turn!UnderWay,
              SwitchInv, AgentsSaved, Announced, Owing, Chosen, Turn!At
<1>2. CASE Turn!LockExpires \/ \E a \in Turn!ClientAgents : Turn!Deactivate(a)
  BY <1>2, OthersKeep
<1>3. ASSUME NEW t \in Turns, Turn!Step(t) \/ Turn!ProviderFails(t) \/ Turn!CallFails(t) \/ Turn!Crash(t)
      PROVE  TurnInv'
  <2>1. CASE Turn!Begin(t) \/ Turn!ReadState(t) \/ Turn!ChooseAgent(t) \/ Turn!SaveState(t)
    BY <2>1, BeginKeeps, ReadStateKeeps, ChooseAgentKeeps, SaveStateKeeps
  <2>2. CASE Turn!ReadFresh(t) \/ Turn!SetVariable(t) \/ Turn!SwitchAgent(t)
    BY <2>2, ReadFreshKeeps, SetVariableKeeps, SwitchAgentKeeps
  <2>3. CASE Turn!OpenSearch(t) \/ Turn!Embed(t) \/ Turn!SearchText(t) \/ Turn!CloseSearch(t)
    BY <2>3, OpenSearchIsQuiet, EmbedIsQuiet, SearchTextIsQuiet, CloseSearchIsQuiet, QuietKeeps
  <2>4. CASE Turn!Ask(t) \/ Turn!SendResult(t) \/ Turn!SearchTool(t) \/ Turn!MediaTool(t)
           \/ Turn!TransferTool(t)
    BY <2>4, AskIsQuiet, SendResultIsQuiet, ToolsAreQuiet, QuietKeeps
  <2>5. CASE Turn!WebSearchTool(t) \/ Turn!Answer(t)
    BY <2>5, WebSearchIsQuiet, AnswerIsQuiet, QuietKeeps
  <2>6. CASE Turn!ProviderFails(t) \/ Turn!CallFails(t) \/ Turn!Crash(t)
    BY <2>6, ProviderFailsQuietly, CallFailsQuietly, CrashIsQuiet, QuietKeeps
  <2>7. QED
    BY <1>3, <2>1, <2>2, <2>3, <2>4, <2>5, <2>6 DEF Turn!Step
<1>4. QED
  BY <1>1, <1>2, <1>3, TurnStep

LEMMA TurnHolds ==
  ASSUME Turn!TurnAssumption
  PROVE  Turn!Spec => []TurnInv
<1>1. Turn!Init => TurnInv
  BY TurnBegins
<1>2. TurnInv /\ [Turn!Next]_Turn!vars => TurnInv'
  BY TurnGoesOn
<1>3. QED
  BY <1>1, <1>2, PTL DEF Turn!Spec

\* For any agents, conditions, tools and number of runs: the agent that
\* switch_agent announced answers the messages after it (resolveAgentConfig,
\* handleSwitchAgent, updateState), as long as runs of the conversation do not
\* overlap and the agent is active.
THEOREM SwitchesAreKept ==
  ASSUME Turn!TurnAssumption
  PROVE  Turn!Spec => []SwitchesHold
<1>1. TurnInv => Turn!SwitchesHold
  BY DEF TurnInv, SwitchInv, Chosen, Turn!SwitchesHold, Talking
<1>2. QED
  BY <1>1, TurnHolds, PTL DEF SwitchesHold

\* For any calls of the model, in any number: a run answers when each has been
\* carried out or was lost to another call of its reply (chatWithParts), and no
\* more searches are shown as running for ever than there were failures (searchRag).
THEOREM CallsAreAccountedFor ==
  ASSUME Turn!TurnAssumption
  PROVE  Turn!Spec => []CallsEnd
<1>1. TurnInv => Turn!CallsEnd
  <2>1. ASSUME TurnInv
        PROVE  Turn!CallsAreAnswered
    <3>1. SUFFICES ASSUME NEW t \in Turns, Turn!At(t, "answer")
                   PROVE  turn[t].asked = turn[t].used + turn[t].overtaken
      BY DEF Turn!CallsAreAnswered
    <3>2. turn[t].round = <<>> /\ turn[t].asked = turn[t].used + turn[t].overtaken + Len(turn[t].round)
      BY <2>1, <3>1, OneTurn DEF Counted, Turn!At
    <3>3. Len(turn[t].round) = 0
      BY <3>2
    <3>4. turn[t].used \in Nat /\ turn[t].overtaken \in Nat
      BY <2>1, OneTurn DEF Locals
    <3>5. QED
      BY <3>2, <3>3, <3>4
  <2>2. ASSUME TurnInv
        PROVE  Turn!SearchesEnd
    <3>1. SUFFICES ASSUME NEW t \in Turns, turn[t].pc \in {"answered", "failed"}
                   PROVE  running[t] <= faults
      BY DEF Turn!SearchesEnd
    <3>2. running[t] <= faults + One(Searched(t)) /\ ~Searched(t)
      BY <2>2, <3>1 DEF TurnInv, SearchesCounted, Searched, Searches
    <3>3. faults \in Nat
      BY <2>2 DEF TurnInv, TurnTypes, Turn!TypeOK
    <3>4. One(Searched(t)) = 0
      BY <3>2 DEF One
    <3>5. QED
      BY <3>2, <3>3, <3>4
  <2>3. QED
    BY <2>1, <2>2 DEF Turn!CallsEnd, TurnInv, TurnTypes
<1>2. QED
  BY <1>1, TurnHolds, PTL DEF CallsEnd

\* Which steps touch the variables of the state.
LEMMA VariablesMove ==
  ASSUME Turn!TurnAssumption, TurnInv, [Turn!Next]_Turn!vars, NEW v \in Vars, conv'.vars[v] # conv.vars[v]
  PROVE  \E t \in Turn!UnderWay :
           \/ turn[t].met
           \/ /\ Turn!At(t, "write") /\ Turn!Call(t).tool = "set_variable"
              /\ Turn!Call(t).arg = v /\ conv'.vars[v] = Turn!Call(t).value
<1>1. PICK t \in Turns : Turn!SaveState(t) \/ Turn!SetVariable(t) \/ Turn!SwitchAgent(t)
  <2>1. conv' # conv
    OBVIOUS
  <2>2. CASE UNCHANGED Turn!vars
    BY <2>1, <2>2 DEF Turn!vars
  <2>3. CASE Turn!LockExpires \/ \E a \in Turn!ClientAgents : Turn!Deactivate(a)
    BY <2>1, <2>3 DEF Turn!LockExpires, Turn!Deactivate
  <2>4. ASSUME NEW s \in Turns, Turn!Step(s) \/ Turn!ProviderFails(s) \/ Turn!CallFails(s) \/ Turn!Crash(s)
        PROVE  Turn!SaveState(s) \/ Turn!SetVariable(s) \/ Turn!SwitchAgent(s)
    BY <2>1, <2>4 DEF Turn!Step, Turn!ProviderFails, Turn!CallFails, Turn!Crash, Turn!Begin,
       Turn!ReadState, Turn!ChooseAgent, Turn!OpenSearch, Turn!Embed, Turn!SearchText, Turn!CloseSearch,
       Turn!Ask, Turn!ReadFresh, Turn!SearchTool, Turn!MediaTool, Turn!WebSearchTool, Turn!TransferTool,
       Turn!SendResult, Turn!Answer
  <2>5. QED
    BY <2>2, <2>3, <2>4, TurnStep
<1>2. turn[t].pc \in {"save", "write"} /\ t \in Turn!UnderWay
  BY <1>1 DEF Turn!SaveState, Turn!SetVariable, Turn!SwitchAgent, Turn!At, Turn!UnderWay
<1>3. turn[t].seen \in Turn!States
  BY OneTurn DEF Locals
<1>4. CASE turn[t].met
  BY <1>2, <1>4
<1>5. CASE ~turn[t].met
  <2>1. turn[t].seen = conv
    BY <1>2, <1>5 DEF TurnInv, Meetings, Holding
  <2>2. CASE Turn!SaveState(t)
    <3>1. conv' = [turn[t].seen EXCEPT !.current = turn[t].agent]
      BY <2>2 DEF Turn!SaveState
    <3>2. conv'.vars = conv.vars
      BY <1>3, <2>1, <3>1 DEF Turn!States
    <3>3. QED
      BY <3>2
  <2>3. CASE Turn!SwitchAgent(t)
    <3>1. conv' = [turn[t].seen EXCEPT !.pending = Turn!Call(t).arg]
      BY <2>3 DEF Turn!SwitchAgent
    <3>2. conv'.vars = conv.vars
      BY <1>3, <2>1, <3>1 DEF Turn!States
    <3>3. QED
      BY <3>2
  <2>4. CASE Turn!SetVariable(t)
    <3>1. Turn!At(t, "write") /\ Turn!Call(t).tool = "set_variable"
          /\ conv' = [turn[t].seen EXCEPT !.vars[Turn!Call(t).arg] = Turn!Call(t).value]
      BY <2>4 DEF Turn!SetVariable
    <3>2. conv'.vars = [conv.vars EXCEPT ![Turn!Call(t).arg] = Turn!Call(t).value]
      BY <1>3, <2>1, <3>1 DEF Turn!States
    <3>3. conv.vars \in [Vars -> Values \cup {None}]
      BY <1>3, <2>1 DEF Turn!States
    <3>4. Turn!Call(t).arg = v /\ conv'.vars[v] = Turn!Call(t).value
      BY <3>2, <3>3
    <3>5. QED
      BY <1>2, <3>1, <3>4
  <2>5. QED
    BY <1>1, <2>2, <2>3, <2>4
<1>6. QED
  BY <1>4, <1>5

\* For any tools and number of runs: a variable of the state changes only when a
\* run sets it to what the model said (handleSetVariable), unless runs overlap.
THEOREM VariablesAreKept ==
  ASSUME Turn!TurnAssumption
  PROVE  Turn!Spec => VariablesSurvive
<1>1. ASSUME TurnInv, [Turn!Next]_Turn!vars
      PROVE  [\A v \in Vars :
                conv'.vars[v] # conv.vars[v] =>
                  \E t \in Turn!UnderWay :
                    \/ turn[t].met
                    \/ /\ Turn!At(t, "write") /\ Turn!Call(t).tool = "set_variable"
                       /\ Turn!Call(t).arg = v /\ conv'.vars[v] = Turn!Call(t).value]_Turn!vars
  BY <1>1, VariablesMove
<1>2. QED
  BY <1>1, TurnHolds, PTL DEF Turn!Spec, Turn!VariablesSurvive, VariablesSurvive
=============================================================================
