\* A request repeated with the same idempotency key.
SPECIFICATION Spec
CONSTANTS
  r1 = r1  r2 = r2  r3 = r3
  acme = acme  globex = globex  ana = ana  bia = bia  k1 = k1  chat = chat
  None = None  Redacted = Redacted
  Payload <- RepeatedKey
  Requests = {r1, r2, r3}
  Workers = {w1, w2}
  Clients = {acme}
  Users = {ana, bia}
  Keys = {k1}
  ConvKeys = {chat}
  PhoneLike = {ana}
  ReplayIds = {p1}
  StatusInputs = {}
  LockOutlivesJob = TRUE
  MaxAttempts = 2
  MaxStalls = 1
  MaxFaults = 1
SYMMETRY WorkersAreAlike
INVARIANT DuplicatesNeedFaults
CHECK_DEADLOCK FALSE
