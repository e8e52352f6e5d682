--------------------------- MODULE ClientSettings ---------------------------
(***************************************************************************)
(* The settings of one client as the panel changes them: its agents, the   *)
(* metadata column that is generated from them and also holds the keys of  *)
(* the LLM providers, and the table that holds these keys once more.       *)
(* Metadata is read, changed in memory and written back as a whole, by     *)
(* saves of the keys and by refreshes nobody waits for.                    *)
(***************************************************************************)
EXTENDS Naturals, FiniteSets

CONSTANTS
  Saves,      \* calls of saveLlmConfig; also the keys and models they send
  Edits,      \* calls that change agents or APIs, each with its refresh
  Migrations, \* executions of migrate-llm-credentials
  Provider,
  Agents,
  Old,        \* a key and models from before the table
  None,
  MaxCalls,   \* calls in one behaviour
  MaxFaults

SettingsAssumption ==
  /\ Old \notin Saves /\ None \notin Saves \cup {Old}
  /\ Saves \cap Edits = {} /\ Migrations \cap (Saves \cup Edits) = {}
  /\ MaxCalls \in Nat /\ MaxFaults \in Nat

Processes == Saves \cup Edits \cup Migrations

VARIABLES
  credential, \* provider_credentials of the client
  metadata,   \* painel_clients.metadata
  initial,    \* agents with is_initial
  version,    \* counts the changes of agents and APIs
  process,    \* the local variables of each call
  last,       \* the key that was last sent for each provider
  excused,    \* providers whose two keys may differ, see KeysAgree
  dated,      \* TRUE: what is generated may be old, see MetadataIsCurrent
  faults

ghosts == <<last, excused, dated>>
vars == <<credential, metadata, initial, version, process, last, excused, dated, faults>>

-----------------------------------------------------------------------------

\* No row, or no entry; an entry may have no key.
Nothing == [key |-> None, models |-> None]

Idle == [pc |-> "idle", seen |-> [llm |-> [p \in Provider |-> Nothing], generated |-> 0],
         body |-> [p \in Provider |-> "absent"], todo |-> {}, row |-> Nothing,
         agent |-> None, met |-> FALSE]

Init ==
  /\ credential = [p \in Provider |-> Nothing]
  /\ \E legacy \in SUBSET Provider :
       /\ metadata = [llm |-> [p \in Provider |-> IF p \in legacy
                                 THEN [key |-> Old, models |-> Old] ELSE Nothing],
                      generated |-> 0]
       /\ last = [p \in Provider |-> IF p \in legacy THEN Old ELSE None]
  /\ initial = {}
  /\ version = 0
  /\ process = [x \in Processes |-> Idle]
  /\ excused = {}
  /\ dated = FALSE
  /\ faults = 0

At(x, pc) == process[x].pc = pc

Becomes(x, local) == process' = [process EXCEPT ![x] = local]

Goto(x, pc) == Becomes(x, [process[x] EXCEPT !.pc = pc])

UnderWay == {x \in Processes : process[x].pc \notin {"idle", "done"}}

\* A call begins; whoever is under way has met another.
Begins(x, local) ==
  /\ Cardinality({y \in Processes : process[y].pc # "idle"}) < MaxCalls
  /\ process' = [y \in Processes |->
       IF y = x THEN [local EXCEPT !.met = UnderWay # {}]
       ELSE [process[y] EXCEPT !.met = @ \/ y \in UnderWay]]

Done(x) == Becomes(x, [Idle EXCEPT !.pc = "done"])

-----------------------------------------------------------------------------
(* saveLlmConfig.                                                          *)

\* The panel sends a provider with a new key, with the mask it was shown or an
\* empty key, or not at all.
BeginSave(s) ==
  /\ s \in Saves /\ At(s, "idle")
  /\ \E body \in [Provider -> {"new", "masked", "empty", "absent"}] :
       Begins(s, [Idle EXCEPT !.pc = "client", !.body = body,
                              !.todo = {p \in Provider : body[p] # "absent"}])
  /\ UNCHANGED <<credential, metadata, initial, version, ghosts, faults>>

ReadClient(s) ==
  /\ s \in Saves \cup Migrations /\ At(s, "client")
  /\ Becomes(s, [process[s] EXCEPT !.pc = "row", !.seen = metadata,
                   !.todo = IF s \in Saves THEN @
                            ELSE {p \in Provider : metadata.llm[p].key # None}])
  /\ UNCHANGED <<credential, metadata, initial, version, ghosts, faults>>

FindCredential(s) ==
  /\ s \in Saves /\ At(s, "row")
  /\ \E p \in process[s].todo :
       Becomes(s, [process[s] EXCEPT !.pc = "sync", !.row = credential[p], !.todo = @ \ {p},
                                     !.agent = p])
  /\ UNCHANGED <<credential, metadata, initial, version, ghosts, faults>>

\* A masked key, or an empty one for a provider that has one, changes only the
\* models; the branch that would revoke a cleared key is never reached.
SyncCredential(s) ==
  /\ At(s, "sync")
  /\ LET p == process[s].agent
         new == process[s].body[p] = "new"
     IN  /\ credential' =
              IF new THEN [credential EXCEPT ![p] = [key |-> s, models |-> s]]
              ELSE IF process[s].row # Nothing THEN [credential EXCEPT ![p].models = s]
              ELSE credential
         /\ last' = IF new THEN [last EXCEPT ![p] = s] ELSE last
  /\ Becomes(s, [process[s] EXCEPT !.pc = "row", !.row = Nothing, !.agent = None])
  /\ UNCHANGED <<metadata, initial, version, excused, dated, faults>>

\* encryptLlmProviders: a mask or an empty key keeps the key that is there.
Entry(s, p) ==
  CASE process[s].body[p] = "absent" -> Nothing
    [] process[s].body[p] = "new"    -> [key |-> s, models |-> s]
    [] OTHER -> [key |-> process[s].seen.llm[p].key, models |-> s]

\* The metadata read at the start, with the providers of the body and no others.
WriteMetadata(s) ==
  /\ s \in Saves /\ At(s, "row") /\ process[s].todo = {}
  /\ metadata' = [process[s].seen EXCEPT !.llm = [p \in Provider |-> Entry(s, p)]]
  /\ excused' =
       LET sent(kind) == {p \in Provider : process[s].body[p] = kind}
       IN  IF process[s].met THEN Provider
           ELSE (excused \ sent("new")) \cup sent("absent")
  /\ dated' = (dated \/ process[s].met)
  /\ Done(s)
  /\ UNCHANGED <<credential, initial, version, last, faults>>

-----------------------------------------------------------------------------
(* Agents and APIs, and ClientMetadataService.refresh.                     *)

\* AgentsService.create and update with or without is_initial, and whatever
\* else changes what is generated: other agents, APIs, the client's name.
BeginEdit(e) ==
  /\ e \in Edits /\ At(e, "idle")
  /\ version' = version + 1
  /\ \/ \E a \in Agents :
          /\ initial' = initial \cup {a}
          /\ Begins(e, [Idle EXCEPT !.pc = "unique", !.agent = a])
     \/ /\ \E a \in Agents : initial' = initial \ {a}
        /\ Begins(e, [Idle EXCEPT !.pc = "generate"])
  /\ UNCHANGED <<credential, metadata, ghosts, faults>>

EnforceUniqueness(e) ==
  /\ At(e, "unique")
  /\ initial' = initial \cap {process[e].agent}
  /\ version' = version + 1
  /\ Becomes(e, [process[e] EXCEPT !.pc = "generate", !.agent = None])
  /\ UNCHANGED <<credential, metadata, ghosts, faults>>

\* refresh, one query, one read and one write.
Generate(e) ==
  /\ At(e, "generate")
  /\ Becomes(e, [process[e] EXCEPT !.pc = "read", !.seen.generated = version])
  /\ UNCHANGED <<credential, metadata, initial, version, ghosts, faults>>

\* Mutant of ReadMetadata: the column is generated anew.
ReadNothing(e) ==
  /\ At(e, "read")
  /\ Goto(e, "write")
  /\ UNCHANGED <<credential, metadata, initial, version, ghosts, faults>>

ReadMetadata(e) ==
  /\ At(e, "read")
  /\ Becomes(e, [process[e] EXCEPT !.pc = "write", !.seen.llm = metadata.llm])
  /\ UNCHANGED <<credential, metadata, initial, version, ghosts, faults>>

WriteRefreshed(e) ==
  /\ At(e, "write")
  /\ metadata' = process[e].seen
  /\ excused' = IF process[e].met THEN Provider ELSE excused
  /\ dated' = process[e].met
  /\ Done(e)
  /\ UNCHANGED <<credential, initial, version, last, faults>>

-----------------------------------------------------------------------------
(* The migration script, for this client.                                  *)

BeginMigration(m) ==
  /\ m \in Migrations /\ At(m, "idle")
  /\ Begins(m, [Idle EXCEPT !.pc = "client"])
  /\ UNCHANGED <<credential, metadata, initial, version, ghosts, faults>>

\* The key of the metadata replaces whatever the table has.
Migrate(m) ==
  /\ m \in Migrations /\ At(m, "row")
  /\ IF process[m].todo = {}
       THEN Done(m) /\ UNCHANGED <<credential, excused>>
       ELSE \E p \in process[m].todo :
              /\ credential' = [credential EXCEPT ![p] = process[m].seen.llm[p]]
              /\ excused' = IF process[m].met THEN Provider ELSE excused
              /\ Becomes(m, [process[m] EXCEPT !.todo = @ \ {p}])
  /\ UNCHANGED <<metadata, initial, version, last, dated, faults>>

-----------------------------------------------------------------------------
(* A call of the database fails or the process dies: what was written stays, *)
(* and a refresh only logs it.                                             *)

Fails(x) ==
  /\ x \in UnderWay
  /\ faults < MaxFaults
  /\ faults' = faults + 1
  /\ excused' = IF x \in Edits THEN excused ELSE Provider
  /\ dated' = (dated \/ x \in Edits)
  /\ Done(x)
  /\ UNCHANGED <<credential, metadata, initial, version, last>>

Next ==
  \/ \E s \in Saves : \/ BeginSave(s) \/ FindCredential(s) \/ SyncCredential(s) \/ WriteMetadata(s)
  \/ \E e \in Edits : \/ BeginEdit(e) \/ EnforceUniqueness(e) \/ Generate(e)
                      \/ ReadMetadata(e) \/ WriteRefreshed(e)
  \/ \E m \in Migrations : BeginMigration(m) \/ Migrate(m)
  \/ \E x \in Processes : ReadClient(x) \/ Fails(x)

Spec == Init /\ [][Next]_vars

-----------------------------------------------------------------------------
(* Properties.                                                             *)

\* resolveApiKey: the table, else the metadata, else the environment.
resolveApiKey(p) == IF credential[p].key # None THEN credential[p].key ELSE metadata.llm[p].key

AtRest == UnderWay = {}

\* Between calls, agents (who ask the table first) and media or knowledge jobs
\* (who know the metadata only) use the same key, the one that was sent last.
\* Calls that met another, a failed save and a save that leaves the provider out
\* excuse this, until a save on its own sends the provider's key again.
KeysAgree ==
  AtRest => \A p \in Provider \ excused :
    /\ resolveApiKey(p) = last[p] /\ metadata.llm[p].key = last[p]
    /\ credential[p] # Nothing => credential[p] = metadata.llm[p]

\* Between calls the generated part of the metadata is that of the agents, if
\* the last refresh met nobody and did not fail.
MetadataIsCurrent == AtRest /\ ~dated => metadata.generated = version

\* Between calls at most one agent is the initial one, unless the call that
\* clears the others failed.  There may be none: two changes that overlap can
\* each clear the agent of the other.
OneInitialAgent == AtRest /\ faults = 0 => Cardinality(initial) <= 1

\* Between calls the metadata agree with the credentials and with the agents.
SettingsAgree == KeysAgree /\ MetadataIsCurrent

\* What calls that met no other leave of a client's settings agrees; and
\* whichever calls overlapped, it has no two agents to begin with.
SettingsHold == SettingsAgree /\ OneInitialAgent
=============================================================================
