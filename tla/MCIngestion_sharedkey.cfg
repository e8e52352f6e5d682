\* Two clients with one idempotency key.
SPECIFICATION Spec
CONSTANTS
  r1 = r1  r2 = r2  r3 = r3
  acme = acme  globex = globex  ana = ana  bia = bia  k1 = k1  chat = chat
  None = None  Redacted = Redacted
  Payload <- SharedKey
  Requests = {r1, r2}
  Workers = {w1, w2}
  Clients = {acme, globex}
  Users = {ana, bia}
  Keys = {k1}
  ConvKeys = {chat}
  PhoneLike = {}
  ReplayIds = {}
  StatusInputs = {}
  LockOutlivesJob = TRUE
  MaxAttempts = 2
  MaxStalls = 1
  MaxFaults = 0
INVARIANT QueuedMeansScheduled
CHECK_DEADLOCK FALSE
