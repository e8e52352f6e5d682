---------------------------- MODULE VoiceSession ----------------------------
(***************************************************************************)
(* One browser at the voice gateway: its socket, the sockets to Google that *)
(* its calls open one after the other, and the session record that ties    *)
(* them together.  Every handler is one step; what Google's sockets emit   *)
(* comes at any time, also after the session has let go of them.           *)
(***************************************************************************)
EXTENDS Naturals, FiniteSets

CONSTANTS
  MaxStarts,    \* 'start' messages
  MaxFaults     \* connections that fail

VoiceAssumption == MaxStarts \in Nat /\ MaxFaults \in Nat

Sockets == 1..MaxStarts

VARIABLES
  browser,  \* TRUE: the browser's socket is open
  current,  \* session.googleWs, 0 for null
  ready,    \* session.isGoogleReady
  google,   \* the sockets to Google
  told,     \* the last status or error the browser was sent
  starts, faults

vars == <<browser, current, ready, google, told, starts, faults>>

\* heard: the listeners of 'open', 'message' and 'close' are attached; aborted:
\* it was closed while connecting; early: audio was sent before setupComplete.
Socket ==
  [state : {"none", "connecting", "open", "closing", "closed"},
   setup : {"no", "sent", "complete"}, heard : BOOLEAN, aborted : BOOLEAN, early : BOOLEAN]

Unused == [state |-> "none", setup |-> "no", heard |-> FALSE, aborted |-> FALSE, early |-> FALSE]

Init ==
  /\ browser = TRUE
  /\ current = 0
  /\ ready = FALSE
  /\ google = [g \in Sockets |-> Unused]
  /\ told = "nothing"
  /\ starts = 0
  /\ faults = 0

\* sendToClient
Tell(what) == told' = IF browser THEN what ELSE told

\* The socket is closed and its listeners are removed, but for that of 'error'.
Released(g) ==
  [google[g] EXCEPT !.state = IF @ \in {"connecting", "open"} THEN "closing" ELSE @,
                    !.aborted = google[g].state = "connecting", !.heard = FALSE]

\* Mutant of closeGoogleSession: the session forgets the socket only.
forgetGoogleSession ==
  IF current = 0 THEN google
  ELSE [google EXCEPT ![current].heard = FALSE]

closeGoogleSession == IF current = 0 THEN google ELSE [google EXCEPT ![current] = Released(current)]

StaysReady == ready /\ current = 0

-----------------------------------------------------------------------------
(* Messages of the browser.                                                *)

Start ==
  /\ browser /\ starts < MaxStarts
  /\ starts' = starts + 1
  /\ google' = [closeGoogleSession EXCEPT ![starts'] = [Unused EXCEPT !.state = "connecting",
                                                                      !.heard = TRUE]]
  /\ current' = starts'
  /\ ready' = StaysReady
  /\ told' = "connecting"
  /\ UNCHANGED <<browser, faults>>

\* Neither the message nor the server has a key; or the socket cannot even be
\* made, which is only logged.
StartRefused ==
  /\ browser /\ starts < MaxStarts
  /\ starts' = starts + 1
  /\ google' = closeGoogleSession
  /\ current' = 0
  /\ ready' = StaysReady
  /\ \/ told' = "error" /\ UNCHANGED faults
     \/ told' = "connecting" /\ faults < MaxFaults /\ faults' = faults + 1
  /\ UNCHANGED browser

\* 'audio' and 'text': passed on, or dropped.
Speak ==
  /\ browser
  /\ current # 0 /\ ready /\ google[current].state = "open"
  /\ google' = [google EXCEPT ![current].early = @ \/ google[current].setup # "complete"]
  /\ UNCHANGED <<browser, current, ready, told, starts, faults>>

Stop ==
  /\ browser
  /\ google' = closeGoogleSession
  /\ current' = 0
  /\ ready' = StaysReady
  /\ told' = "disconnected"
  /\ UNCHANGED <<browser, starts, faults>>

\* The 'close' listener of the socket, and handleDisconnect, which finds the
\* session gone.
Leave ==
  /\ browser
  /\ browser' = FALSE
  /\ google' = closeGoogleSession
  /\ current' = 0
  /\ ready' = StaysReady
  /\ UNCHANGED <<told, starts, faults>>

-----------------------------------------------------------------------------
(* Events of a socket to Google.                                           *)

OnOpen(g) ==
  /\ google[g].state = "connecting"
  /\ google' = [google EXCEPT ![g].state = "open", ![g].setup = "sent"]
  /\ UNCHANGED <<browser, current, ready, told, starts, faults>>

\* Google answers the setup; messages still come in while the socket closes.
OnSetupComplete(g) ==
  /\ google[g].state \in {"open", "closing"} /\ google[g].setup = "sent"
  /\ google' = [google EXCEPT ![g].setup = "complete"]
  /\ IF google[g].heard
       THEN ready' = TRUE /\ Tell("connected")
       ELSE UNCHANGED <<ready, told>>
  /\ UNCHANGED <<browser, current, starts, faults>>

\* A socket that was closed while connecting emits an error first, and the
\* listener of 'error' is still there.
OnAbort(g) ==
  /\ google[g].aborted
  /\ google' = [google EXCEPT ![g].aborted = FALSE]
  /\ Tell("error")
  /\ UNCHANGED <<browser, current, ready, starts, faults>>

\* The connection cannot be made or breaks.
OnError(g) ==
  /\ google[g].state \in {"connecting", "open"}
  /\ faults < MaxFaults
  /\ faults' = faults + 1
  /\ google' = [google EXCEPT ![g].state = "closing"]
  /\ Tell("error")
  /\ UNCHANGED <<browser, current, ready, starts>>

\* Google ends the call, or a close is through; the session keeps the socket.
OnClose(g) ==
  /\ google[g].state \in {"open", "closing"} /\ ~google[g].aborted
  /\ google' = [google EXCEPT ![g].state = "closed"]
  /\ IF google[g].heard
       THEN ready' = FALSE /\ Tell("disconnected")
       ELSE UNCHANGED <<ready, told>>
  /\ UNCHANGED <<browser, current, starts, faults>>

-----------------------------------------------------------------------------

Next ==
  \/ Start \/ StartRefused \/ Speak \/ Stop \/ Leave
  \/ \E g \in Sockets : OnOpen(g) \/ OnSetupComplete(g) \/ OnAbort(g) \/ OnError(g) \/ OnClose(g)

Spec == Init /\ [][Next]_vars

-----------------------------------------------------------------------------
(* Properties.                                                             *)

TypeOK ==
  /\ browser \in BOOLEAN /\ current \in 0..MaxStarts /\ ready \in BOOLEAN
  /\ google \in [Sockets -> Socket]
  /\ told \in {"nothing", "connecting", "connected", "disconnected", "error"}
  /\ starts \in 0..MaxStarts /\ faults \in 0..MaxFaults

\* No call hears audio or text before Google has taken its setup, even when the
\* answer to the setup of the call before arrives late.
NothingBeforeSetup == \A g \in Sockets : ~google[g].early

\* A browser that was last told "connected" can speak, and one that can speak was
\* told so; only errors of sockets, late ones included, can come in between.
StatusIsTrue ==
  browser =>
    /\ told = "connected" => ready
    /\ ready => told \in {"connected", "error"}

\* At most one socket to Google is open or will be, and none when the browser
\* has left.
OneCall ==
  \A g \in Sockets : google[g].state \in {"connecting", "open"} => browser /\ g = current

\* One call at a time, which begins with its setup and whose status is told.
CallsAreOrderly == TypeOK /\ OneCall /\ NothingBeforeSetup /\ StatusIsTrue
=============================================================================
