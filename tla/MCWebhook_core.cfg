\* One job, two endpoints with three attempts and one, a failure and a deletion.
SPECIFICATION FairSpec
CONSTANTS
  crm = crm  audit = audit  None = None
  Job = {j1}
  Endpoints = {crm, audit}
  RetryPolicy <- Policies
  Switchable = {audit}
  Hosts = {h1}
  MaxAttempts = 2
  MaxStalls = 1
  MaxUpsets = 1
INVARIANT AttemptsAreOrderly
PROPERTIES ImplementsChains DeliveriesSettle
CHECK_DEADLOCK FALSE
