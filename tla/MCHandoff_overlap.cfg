\* Two requests at a time, nobody pinned by hand.
SPECIFICATION Spec
CONSTANTS
  ana = ana  bruno = bruno  guest = guest  None = None
  Conversations = {1, 2, 3}
  Operators = {ana}
  Members = {ana}
  Requests = {p1, p2}
  MaxChats = 1
  Targets = {None}
  Asked = {"available"}
  StatusInputs = {"closed"}
  ModeInputs = {}
  Routes = {"handoff", "heartbeat", "listing"}
  MaxFaults = 0
SYMMETRY Alike
INVARIANT OverCapacityNeedsOverlap
