\* One client: contention, failed calls, crashes and closed conversations.
SPECIFICATION FairSpec
CONSTANTS
  r1 = r1  r2 = r2  r3 = r3
  acme = acme  globex = globex  ana = ana  bia = bia  k1 = k1  chat = chat
  None = None  Redacted = Redacted
  Payload <- SharedClient
  Requests = {r1, r2}
  Workers = {w1, w2}
  Clients = {acme}
  Users = {ana, bia}
  Keys = {}
  ConvKeys = {chat}
  PhoneLike = {}
  ReplayIds = {}
  StatusInputs = {"closed"}
  LockOutlivesJob = TRUE
  MaxAttempts = 2
  MaxStalls = 1
  MaxFaults = 1
INVARIANTS OneRunPerCustomer CustomersAreWhole NothingIsLost
PROPERTIES ImplementsWork JobsSettle
CHECK_DEADLOCK FALSE
