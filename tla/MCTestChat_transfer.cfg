\* The agent that answers first has no knowledge base.
SPECIFICATION Spec
CONSTANTS
  s1 = s1  s2 = s2  c1 = c1  greeter = greeter  expert = expert
  name = name  plan = plan  None = None
  Sends = {s1, s2}
  Clears = {c1}
  FilesOf <- FilesOfSends
  Agents <- TwoAgents
  InitialAgent = greeter
  Needs <- NeedsName
  Conditional = {expert}
  Immediate = {expert}
  Learns <- LearnsBoth
  Foreign <- ForeignPlan
  KnowledgeAgents = {}
  GeminiAgents = {expert}
  Configured = {greeter, expert}
  MetadataKeys = {greeter}
  HasStorage = TRUE
  MemoryLimit = 3
  MaxLoops = 1
  MaxTrouble = 1
INVARIANT TransfersAreReal
