---------------------------- MODULE MCServices ----------------------------
(***************************************************************************)
(* Instances, for TLC, of the test chat and of the components of Services, *)
(* which share no state with one another; the handoff queue is under one   *)
(* request at a time.  Each behaviour moves one of them.                   *)
(***************************************************************************)
EXTENDS MCTestChat, Services

CONSTANTS
  voice, photo, scan, brochure, w1, m1,
  a, b, q1, q2, q3, v, x,
  save1, save2, edit1, edit2, script, groq,
  ana, bruno, guest, p1

VARIABLES part, chat, presence, lastSeen, panel

\* A file of no type that is allowed.
Unknown == [type |-> "unsupported", data |-> "fits"]

\* The test chat where the expert has a key in the metadata, and takes over.
Takeover == INSTANCE TestChat WITH
  MetadataKeys <- {expert}, FilesOf <- [s \in Sends |-> IF s = s1 THEN {{}, {Unknown}} ELSE {{Image}}]

Sources == (voice :> "message") @@ (photo :> "message") @@ (scan :> "upload") @@ (brochure :> "create")
Mimes == (voice :> "audio") @@ (photo :> "image") @@ (scan :> "image") @@ (brochure :> "other")

\* b takes over as soon as the variable v is x; the model may set it, switch to
\* b, search, look at media, search the web and transfer the conversation.
FirstA == <<a, b>>
WhenXThenA == (a :> [all |-> TRUE, of |-> {[variable |-> v, operator |-> "equals", value |-> x]}])
                @@ (b :> [all |-> FALSE, of |-> {}])
Plain == {"rag.search", "media", "web_search", "transfer_to_human"}
CallsOfTools == {[tool |-> "set_variable", arg |-> v, value |-> x],
                 [tool |-> "switch_agent", arg |-> b, value |-> None]}
                  \cup {[tool |-> t, arg |-> None, value |-> None] : t \in Plain}
TwoCalls == (q1 :> 2) @@ (q2 :> 0) @@ (q3 :> 0)

Serial == INSTANCE Handoff WITH
  conv <- chat, request <- panel,
  Conversations <- {1, 2}, Operators <- {ana, bruno, guest}, Members <- {ana, bruno},
  Requests <- {p1}, MaxChats <- 2, Targets <- {None, ana},
  Asked <- {"available", "finishing", None}, StatusInputs <- {}, ModeInputs <- {},
  Routes <- {"handoff", "release", "heartbeat", "status", "offline", "listing"}

ASSUME ServicesAssumption ==
  Media!MediaAssumption /\ Turn!TurnAssumption /\ Settings!SettingsAssumption /\ Voice!VoiceAssumption

testChat == <<identity, conversations, identityLock, chatLock, run, req, alone, expiries>>
media == <<row, linked, files, request, jobs, worker, reader>>
ofTurn == <<conv, mode, active, lock, running, turn, announced>>
settings == <<credential, metadata, initial, version, process, last, excused, dated>>
ofVoice == <<browser, current, ready, google, told, starts>>
handoff == <<chat, presence, lastSeen, panel>>
allVars == <<part, testChat, media, ofTurn, settings, ofVoice, handoff, faults>>

Parts == {"test chat", "takeover", "media", "turn", "settings", "voice", "handoff"}

\* The metadata from before the credentials table matter to the settings only.
AllInit ==
  /\ part \in Parts
  /\ Init /\ Media!Init /\ Turn!Init /\ Settings!Init /\ Voice!Init /\ Serial!Init
  /\ part # "settings" => \A p \in {groq} : last[p] = None

Moves(p) == part = p /\ part' = part

ChatMoves == /\ Moves("test chat") /\ Next
             /\ UNCHANGED <<media, ofTurn, settings, ofVoice, handoff>>

\* Nobody clears the session here.
TakeoverMoves == /\ Moves("takeover") /\ Takeover!Next
                 /\ \A r \in Clears : req'[r] = Idle
                 /\ UNCHANGED <<media, ofTurn, settings, ofVoice, handoff>>

MediaMoves == /\ Moves("media") /\ Media!Next
              /\ UNCHANGED <<testChat, ofTurn, settings, ofVoice, handoff>>

TurnMoves == /\ Moves("turn") /\ Turn!Next
             /\ UNCHANGED <<testChat, media, settings, ofVoice, handoff>>

SettingsMove == /\ Moves("settings") /\ Settings!Next
                /\ UNCHANGED <<testChat, media, ofTurn, ofVoice, handoff>>

VoiceMoves == /\ Moves("voice") /\ Voice!Next
              /\ UNCHANGED <<testChat, media, ofTurn, settings, handoff>>

HandoffMoves == /\ Moves("handoff") /\ Serial!Next
                /\ UNCHANGED <<testChat, media, ofTurn, settings, ofVoice>>

AllNext == ChatMoves \/ TakeoverMoves \/ MediaMoves \/ TurnMoves \/ SettingsMove \/ VoiceMoves \/ HandoffMoves

AllSpec == AllInit /\ [][AllNext]_allVars

\* Where requests do not overlap, the least loaded operator is given
\* conversations that wait, and no others.
DistributionIsOrderly == Serial!DistributionIsOrderly
=============================================================================
