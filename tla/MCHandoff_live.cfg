\* Two requests at a time, operators who come and go, chats pinned and released by hand.
SPECIFICATION FairSpec
CONSTANTS
  ana = ana  bruno = bruno  guest = guest  None = None
  Conversations = {1}
  Operators = {ana, bruno}
  Members = {ana, bruno}
  Requests = {p1, p2}
  MaxChats = 1
  Targets = {None}
  Asked = {"available"}
  StatusInputs = {}
  ModeInputs = {}
  Routes = {"handoff", "heartbeat", "listing", "reassign", "release", "offline"}
  MaxFaults = 1
PROPERTIES QueueDrains AbandonedAreMoved
