------------------------------ MODULE AgentTurn ------------------------------
(***************************************************************************)
(* What a run of the agent does to its conversation's state: it chooses    *)
(* the agent from the state, writes the whole state back, searches the     *)
(* knowledge bases, and lets the model call tools, of which two read and   *)
(* write the state again.  Runs of the agent queue hold the conversation's *)
(* lock, those of the compatibility endpoint hold nothing.                 *)
(***************************************************************************)
EXTENDS Naturals, Sequences, FiniteSets

CONSTANTS
  Turns, FromQueue,   \* runs, and those that come from the agent queue
  Order,              \* the client's agents by execution_order
  Initial,            \* agents with is_initial
  Conditions,         \* activation_conditions of each agent
  Searching,          \* agents with capability rag and knowledge bases
  Calls,              \* what a model may call: [tool, arg, value]
  Vars, Values,       \* variables of the state and what they may be set to
  Embedders,          \* embedding providers with a key
  Retries,            \* of retryWithBackoff (2)
  HasFallback,        \* another provider has a key
  Default,            \* the agent 'default'
  None,
  MaxCalls,           \* calls the model may make in each run
  MaxFaults           \* failures, and agents switched off

ClientAgents == {Order[i] : i \in DOMAIN Order}

Tools == {"set_variable", "switch_agent", "rag.search", "media", "web_search", "transfer_to_human"}

Operators == {"exists", "not_exists", "equals", "not_equals"}

TurnAssumption ==
  /\ FromQueue \subseteq Turns
  /\ Order \in Seq(ClientAgents)
  /\ Initial \subseteq ClientAgents /\ Searching \subseteq ClientAgents
  /\ None \notin ClientAgents \cup Values \cup {Default} /\ Default \notin ClientAgents
  /\ Conditions \in [ClientAgents -> [all : BOOLEAN, of : SUBSET [variable : Vars, operator : Operators,
                                                             value : Values]]]
  /\ \A c \in Calls :
       /\ c.tool \in Tools
       /\ c.tool = "set_variable" => c.arg \in Vars /\ c.value \in Values
  /\ Embedders \in Nat /\ Retries \in Nat /\ HasFallback \in BOOLEAN
  /\ MaxCalls \in [Turns -> Nat] /\ MaxFaults \in Nat

VARIABLES
  conv,      \* conversation_state.state
  mode,      \* of the conversation
  active,    \* agents with is_active
  lock,      \* TRUE: lock:agent:<conversation> is set
  running,   \* tool_calls rows of each run that say 'running'
  turn,      \* the local variables of each run; met: another was under way, too;
             \* owed: the agent announced to the run before, as long as that counts
  announced, \* the agent switch_agent last told the model of, None after an overlap
  faults

vars == <<conv, mode, active, lock, running, turn, announced, faults>>

-----------------------------------------------------------------------------
(* Pure parts.                                                             *)

evaluateSingle(c, values) ==
  CASE c.operator = "exists"     -> values[c.variable] # None
    [] c.operator = "not_exists" -> values[c.variable] = None
    [] c.operator = "equals"     -> values[c.variable] = c.value
    [] c.operator = "not_equals" -> values[c.variable] # c.value

\* No conditions never hold.
evaluateConditions(group, values) ==
  /\ group.of # {}
  /\ IF group.all THEN \A c \in group.of : evaluateSingle(c, values)
                  ELSE \E c \in group.of : evaluateSingle(c, values)

\* The first of some agents by execution_order.
First(S) == Order[CHOOSE i \in DOMAIN Order :
                    Order[i] \in S /\ \A j \in 1..(i - 1) : Order[j] \notin S]

\* Active agents other than the current one whose conditions hold.
TakingOver(state) ==
  {a \in active : a # state.current /\ evaluateConditions(Conditions[a], state.vars)}

\* Mutant of resolveAgentConfig: conditions are looked at before the switch.
resolveByConditions(state) ==
  IF active = {} THEN Default
  ELSE IF state.current = None
         THEN First(IF active \cap Initial # {} THEN active \cap Initial ELSE active)
  ELSE IF TakingOver(state) # {} THEN First(TakingOver(state))
  ELSE IF state.pending \in active THEN state.pending
  ELSE IF state.current \in active THEN state.current
  ELSE First(active)

\* resolveAgentConfig; a client without active agents gets the default one.
\* A switch that was made stays pending for good: conditions no longer count.
resolveAgentConfig(state) ==
  IF active = {} THEN Default
  ELSE IF state.current = None
         THEN First(IF active \cap Initial # {} THEN active \cap Initial ELSE active)
  ELSE IF state.pending \in active THEN state.pending
  ELSE IF TakingOver(state) # {} THEN First(TakingOver(state))
  ELSE IF state.current \in active THEN state.current
  ELSE First(active)

-----------------------------------------------------------------------------

Idle == [pc |-> "idle", seen |-> [current |-> None, pending |-> None, vars |-> [v \in Vars |-> None]],
         agent |-> None, owed |-> None, met |-> FALSE, attempt |-> 0, round |-> <<>>, asked |-> 0, used |-> 0,
         overtaken |-> 0, provider |-> 0, context |-> FALSE]

Init ==
  /\ conv = Idle.seen
  /\ mode = "auto"
  /\ active = ClientAgents
  /\ lock = FALSE
  /\ running = [t \in Turns |-> 0]
  /\ turn = [t \in Turns |-> Idle]
  /\ announced = None
  /\ faults = 0

At(t, pc) == turn[t].pc = pc

Becomes(t, local) == turn' = [turn EXCEPT ![t] = local]

Goto(t, pc) == Becomes(t, [turn[t] EXCEPT !.pc = pc])

UnderWay == {t \in Turns : turn[t].pc \notin {"idle", "answered", "failed"}}

\* The end of processMessage; releaseLock deletes the key, whoever set it.
Ends(t, pc) ==
  /\ Becomes(t, [Idle EXCEPT !.pc = pc])
  /\ lock' = (lock /\ t \notin FromQueue)

-----------------------------------------------------------------------------
(* The start of processMessage.                                            *)

\* From the agent processor with the lock, or from routeToNewPipeline.
Begin(t) ==
  /\ At(t, "idle")
  /\ t \in FromQueue => ~lock
  /\ lock' = (lock \/ t \in FromQueue)
  /\ announced' = IF UnderWay = {} THEN announced ELSE None
  /\ turn' = [s \in Turns |->
       IF s = t THEN [Idle EXCEPT !.pc = "read", !.owed = announced', !.met = UnderWay # {}]
       ELSE [turn[s] EXCEPT !.met = @ \/ s \in UnderWay]]
  /\ UNCHANGED <<conv, mode, active, running, faults>>

ReadState(t) ==
  /\ At(t, "read")
  /\ Becomes(t, [turn[t] EXCEPT !.pc = "choose", !.seen = conv])
  /\ UNCHANGED <<conv, mode, active, lock, running, announced, faults>>

ChooseAgent(t) ==
  /\ At(t, "choose")
  /\ Becomes(t, [turn[t] EXCEPT !.pc = "save", !.agent = resolveAgentConfig(turn[t].seen)])
  /\ UNCHANGED <<conv, mode, active, lock, running, announced, faults>>

\* The default agent and those without knowledge bases search nothing.
Prepared(t) ==
  [turn[t] EXCEPT !.pc = IF turn[t].agent \in Searching THEN "rag" ELSE "ask",
                  !.context = turn[t].agent \in Searching, !.seen = Idle.seen]

\* Mutant of SaveState: only the agent is written.
SaveAgentOnly(t) ==
  /\ At(t, "save")
  /\ conv' = [Idle.seen EXCEPT !.current = turn[t].agent]
  /\ Becomes(t, Prepared(t))
  /\ UNCHANGED <<mode, active, lock, running, announced, faults>>

\* updateState: the state as it was read, with the chosen agent.
SaveState(t) ==
  /\ At(t, "save")
  /\ conv' = [turn[t].seen EXCEPT !.current = turn[t].agent]
  /\ Becomes(t, Prepared(t))
  /\ UNCHANGED <<mode, active, lock, running, announced, faults>>

-----------------------------------------------------------------------------
(* searchRag, for the context and as a tool.                               *)

AfterSearch(t) == IF turn[t].context THEN "ask" ELSE "reply"

OpenSearch(t) ==
  /\ At(t, "rag")
  /\ IF turn[t].agent \notin Searching \/ Embedders = 0
       THEN Becomes(t, [turn[t] EXCEPT !.pc = AfterSearch(t), !.context = FALSE]) /\ UNCHANGED running
       ELSE /\ running' = [running EXCEPT ![t] = @ + 1]
            /\ Becomes(t, [turn[t] EXCEPT !.pc = "embed", !.provider = 1])
  /\ UNCHANGED <<conv, mode, active, lock, announced, faults>>

TryNext(t) ==
  Becomes(t, [turn[t] EXCEPT !.pc = IF turn[t].provider < Embedders THEN "embed" ELSE "text",
                             !.provider = IF @ < Embedders THEN @ + 1 ELSE 0])

\* The provider's embedding and the query; the next provider when one fails.
Embed(t) ==
  /\ At(t, "embed")
  /\ Goto(t, "close") \/ TryNext(t)
  /\ UNCHANGED <<conv, mode, active, lock, running, announced, faults>>

\* The textual search, which may fail like any query.
SearchText(t) ==
  /\ At(t, "text")
  /\ Goto(t, "close")
  /\ UNCHANGED <<conv, mode, active, lock, running, announced, faults>>

\* 'success' with what was found, or 'failed' and nothing.
CloseSearch(t) ==
  /\ turn[t].pc \in {"close", "giveup"}
  /\ running' = [running EXCEPT ![t] = @ - 1]
  /\ Becomes(t, [turn[t] EXCEPT !.pc = AfterSearch(t), !.context = FALSE, !.provider = 0])
  /\ UNCHANGED <<conv, mode, active, lock, announced, faults>>

-----------------------------------------------------------------------------
(* chatWithParts of Gemini and the tools.                                  *)

\* What the model may answer: up to two calls at a time.
Replies(t) == {r \in {<<>>} \cup {<<c>> : c \in Calls} \cup (Calls \X Calls) :
                 turn[t].asked + Len(r) <= MaxCalls[t]}

\* retryWithBackoff starts the whole exchange again, tools included; the
\* fallback gets one more attempt.
LastAttempt == Retries + (IF HasFallback THEN 1 ELSE 0)

AttemptFails(t) ==
  IF turn[t].attempt < LastAttempt
    THEN /\ Becomes(t, [turn[t] EXCEPT !.pc = "ask", !.attempt = @ + 1, !.round = <<>>,
                                       !.used = turn[t].asked, !.overtaken = 0,
                                       !.provider = 0, !.context = FALSE, !.seen = Idle.seen])
         /\ UNCHANGED lock
    ELSE Ends(t, "failed")

Continues(t, rest, reply) ==
  [turn[t] EXCEPT !.pc = IF rest = <<>> THEN "answer" ELSE "tool", !.round = rest,
                  !.asked = @ + Len(reply)]

Ask(t) ==
  /\ At(t, "ask")
  /\ \E reply \in Replies(t) : Becomes(t, Continues(t, reply, reply))
  /\ UNCHANGED <<conv, mode, active, lock, running, announced, faults>>

ProviderFails(t) ==
  /\ turn[t].pc \in {"ask", "reply"}
  /\ faults < MaxFaults
  /\ faults' = faults + 1
  /\ AttemptFails(t)
  /\ UNCHANGED <<conv, mode, active, running, announced>>

Call(t) == Head(turn[t].round)

Calling(t, tool) == At(t, "tool") /\ Call(t).tool = tool

\* handleSetVariable and handleSwitchAgent read the state again; an unknown
\* agent is only an answer.
ReadFresh(t) ==
  /\ At(t, "tool") /\ Call(t).tool \in {"set_variable", "switch_agent"}
  /\ IF Call(t).tool = "switch_agent" /\ Call(t).arg \notin active
       THEN Goto(t, "reply")
       ELSE Becomes(t, [turn[t] EXCEPT !.pc = "write", !.seen = conv])
  /\ UNCHANGED <<conv, mode, active, lock, running, announced, faults>>

SetVariable(t) ==
  /\ At(t, "write") /\ Call(t).tool = "set_variable"
  /\ conv' = [turn[t].seen EXCEPT !.vars[Call(t).arg] = Call(t).value]
  /\ Becomes(t, [turn[t] EXCEPT !.pc = "reply", !.seen = Idle.seen])
  /\ UNCHANGED <<mode, active, lock, running, announced, faults>>

\* A run that has not read the state yet owes nothing to the switch before.
SwitchAgent(t) ==
  /\ At(t, "write") /\ Call(t).tool = "switch_agent"
  /\ conv' = [turn[t].seen EXCEPT !.pending = Call(t).arg]
  /\ announced' = IF turn[t].met THEN None ELSE Call(t).arg
  /\ turn' = [s \in Turns |->
       IF s = t THEN [turn[t] EXCEPT !.pc = "reply", !.seen = Idle.seen]
       ELSE [turn[s] EXCEPT !.owed = IF At(s, "read") THEN None ELSE @]]
  /\ UNCHANGED <<mode, active, lock, running, faults>>

SearchTool(t) ==
  /\ Calling(t, "rag.search")
  /\ Goto(t, "rag")
  /\ UNCHANGED <<conv, mode, active, lock, running, announced, faults>>

\* transcribeMedia and describeImageMedia: a completed row and what is there.
MediaTool(t) ==
  /\ Calling(t, "media")
  /\ Goto(t, "reply")
  /\ UNCHANGED <<conv, mode, active, lock, running, announced, faults>>

\* searchWeb writes the agent's id where a client's is required: the row is
\* refused before the search, and the error is not caught.
WebSearchTool(t) ==
  /\ Calling(t, "web_search")
  /\ AttemptFails(t)
  /\ UNCHANGED <<conv, mode, active, running, announced, faults>>

\* requestHandoff; its errors are an answer.
TransferTool(t) ==
  /\ Calling(t, "transfer_to_human")
  /\ mode' = "manual"
  /\ Goto(t, "reply")
  /\ UNCHANGED <<conv, active, lock, running, announced, faults>>

\* Mutant of Rest: only the first call of a reply is looked at.
FirstOnly(t, reply) == reply

\* The round goes on with the calls it began with; what the model calls in the
\* meantime is looked at only if it is the last reply of the round.
Rest(t, reply) == IF Len(turn[t].round) > 1 THEN Tail(turn[t].round) ELSE reply

SendResult(t) ==
  /\ At(t, "reply")
  /\ \E reply \in Replies(t) :
       Becomes(t, [Continues(t, Rest(t, reply), reply) EXCEPT
                     !.used = @ + 1,
                     !.overtaken = @ + (IF Len(turn[t].round) > 1 THEN Len(reply) ELSE 0)])
  /\ UNCHANGED <<conv, mode, active, lock, running, announced, faults>>

\* The reply is stored, the run completed and the lock released.
Answer(t) ==
  /\ At(t, "answer")
  /\ Ends(t, "answered")
  /\ UNCHANGED <<conv, mode, active, running, announced, faults>>

-----------------------------------------------------------------------------
(* Failures and other actors.                                              *)

Fault == faults < MaxFaults /\ faults' = faults + 1

\* A database call throws: before the exchange the run fails, in the search for
\* context it goes on without, in a search it is the next provider's turn, in a
\* tool the attempt fails, and the hand-over tells the model.
CallFails(t) ==
  /\ Fault
  /\ \/ turn[t].pc \in {"read", "choose", "save", "answer"} /\ Ends(t, "failed")
     \/ turn[t].pc = "close" /\ turn[t].provider > 0 /\ TryNext(t) /\ UNCHANGED lock
     \/ (turn[t].pc = "text" \/ (turn[t].pc = "close" /\ turn[t].provider = 0))
          /\ Goto(t, "giveup") /\ UNCHANGED lock
     \/ turn[t].pc \in {"rag", "giveup"} /\ turn[t].context
          /\ Becomes(t, [turn[t] EXCEPT !.pc = "ask", !.context = FALSE]) /\ UNCHANGED lock
     \/ turn[t].pc \in {"rag", "giveup"} /\ ~turn[t].context /\ AttemptFails(t)
     \/ turn[t].pc \in {"tool", "write"} /\ Call(t).tool # "transfer_to_human" /\ AttemptFails(t)
     \/ Calling(t, "transfer_to_human") /\ Goto(t, "reply") /\ UNCHANGED lock
  /\ UNCHANGED <<conv, mode, active, running, announced>>

Crash(t) ==
  /\ t \in UnderWay
  /\ Fault
  /\ Becomes(t, [Idle EXCEPT !.pc = "failed"])
  /\ UNCHANGED <<conv, mode, active, lock, running, announced>>

\* After a minute, whether or not the run is over.
LockExpires ==
  /\ lock
  /\ IF UnderWay \cap FromQueue = {} THEN UNCHANGED faults ELSE Fault
  /\ lock' = FALSE
  /\ UNCHANGED <<conv, mode, active, running, turn, announced>>

\* The panel switches an agent off.
Deactivate(a) ==
  /\ a \in active
  /\ Fault
  /\ active' = active \ {a}
  /\ UNCHANGED <<conv, mode, lock, running, turn, announced>>

-----------------------------------------------------------------------------

Step(t) ==
  \/ Begin(t) \/ ReadState(t) \/ ChooseAgent(t) \/ SaveState(t)
  \/ OpenSearch(t) \/ Embed(t) \/ SearchText(t) \/ CloseSearch(t)
  \/ Ask(t) \/ ReadFresh(t) \/ SetVariable(t) \/ SwitchAgent(t)
  \/ SearchTool(t) \/ MediaTool(t) \/ WebSearchTool(t) \/ TransferTool(t)
  \/ SendResult(t) \/ Answer(t)

Next ==
  \/ \E t \in Turns : Step(t) \/ ProviderFails(t) \/ CallFails(t) \/ Crash(t)
  \/ LockExpires
  \/ \E a \in ClientAgents : Deactivate(a)

Spec == Init /\ [][Next]_vars

-----------------------------------------------------------------------------
(* Properties.                                                             *)

States == [current : ClientAgents \cup {Default, None}, pending : ClientAgents \cup {None},
           vars : [Vars -> Values \cup {None}]]

TypeOK ==
  /\ conv \in States
  /\ mode \in {"auto", "manual"}
  /\ active \subseteq ClientAgents
  /\ lock \in BOOLEAN
  /\ running \in [Turns -> Nat]
  /\ announced \in ClientAgents \cup {None}
  /\ faults \in 0..MaxFaults

\* A variable that was set changes only when a run sets it, as long as no run
\* under way has met another: everybody else writes the whole state back, too.
VariablesSurvive ==
  [][\A v \in Vars :
       conv'.vars[v] # conv.vars[v] =>
         \E t \in UnderWay :
           \/ turn[t].met
           \/ /\ At(t, "write") /\ Call(t).tool = "set_variable"
              /\ Call(t).arg = v /\ conv'.vars[v] = Call(t).value]_vars

\* The agent that switch_agent announced answers every later message, until the
\* next switch, whatever the conditions of the others say; unless runs of the
\* conversation overlapped in between, the agent was switched off, or another
\* run switched before this one had read the state.
SwitchesHold ==
  \A t \in Turns :
    /\ turn[t].pc \in {"save", "answer"}
    /\ turn[t].owed \in active
    => turn[t].agent = turn[t].owed

\* When a run answers, every call the model made has been carried out, but for
\* those it made while another call of the same reply was still to be.
CallsAreAnswered ==
  \A t \in Turns : At(t, "answer") => turn[t].asked = turn[t].used + turn[t].overtaken

\* One failure leaves at most one tool call to be shown as running for ever.
SearchesEnd ==
  \A t \in Turns : turn[t].pc \in {"answered", "failed"} => running[t] <= faults

\* A run accounts for the calls of its model: each was carried out, or was lost
\* because another call of the same reply was still to be; and the searches that
\* stay "running" are no more than the failures.
CallsEnd == TypeOK /\ CallsAreAnswered /\ SearchesEnd
=============================================================================
