------------------------------ MODULE Services ------------------------------
(***************************************************************************)
(* Four components beside the test chat, each with its own state and       *)
(* parameters, and what they promise: media processing, a run of the       *)
(* agent, the settings of a client and a voice session.  Only what goes    *)
(* wrong is counted together.                                              *)
(***************************************************************************)
EXTENDS TestChat

CONSTANTS
  MaxFaults,
  Asset, SourceOf, MimeOf, HasUrl, HasPath, Keyed, Storage, Native, Workers, Readers,
  MaxAttempts, MaxStalls,
  Turns, FromQueue, Order, Initial, Conditions, Searching, Calls, Vars, Values, Embedders, Retries,
  HasFallback, Default, MaxCalls,
  Saves, Edits, Migrations, Provider, PanelAgents, Old, MaxPanelCalls,
  MaxStarts

VARIABLES
  row, linked, files, request, jobs, worker, reader,
  conv, mode, active, lock, running, turn, announced,
  credential, metadata, initial, version, process, last, excused, dated,
  browser, current, ready, google, told, starts

Media == INSTANCE MediaProcessing

Turn == INSTANCE AgentTurn

Settings == INSTANCE ClientSettings WITH Agents <- PanelAgents, MaxCalls <- MaxPanelCalls

Voice == INSTANCE VoiceSession

-----------------------------------------------------------------------------
(* The properties of the parts, stated in their modules.                   *)

\* A run that waited for a sound or image answers to what it says.
AnswersWaitForText == Media!AnswersWaitForText

\* Settled media jobs have told their asset so, and one failure leaves at most
\* one file to be shown as being worked on for ever.
JobsTellTheirAsset == Media!JobsTellTheirAsset

\* Who finds a storage path finds a file.
PathsHaveFiles == Media!PathsHaveFiles

\* Variables change only when somebody sets them.
VariablesSurvive == Turn!VariablesSurvive

\* The agent that was switched to answers.
SwitchesHold == Turn!SwitchesHold

\* When a run answers, each call of its model was carried out or was lost to
\* another call of the same reply, and one failure leaves at most one search
\* that seems to run for ever.
CallsEnd == Turn!CallsEnd

\* Between calls, and but for what calls left that overlapped or failed: agents
\* and jobs use the key that was sent last, and what is generated from the agents
\* is that of the agents.  However calls overlap, two agents never both begin
\* conversations; it may be that none does.
SettingsHold == Settings!SettingsHold

\* One call to Google at a time, which begins with its setup and whose status
\* the browser is told.
CallsAreOrderly == Voice!CallsAreOrderly
=============================================================================
