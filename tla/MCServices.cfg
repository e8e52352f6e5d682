\* Each component with what it takes for its interesting cases; one failure.
SPECIFICATION AllSpec
CONSTANTS
  s1 = s1  s2 = s2  c1 = c1  greeter = greeter  expert = expert
  name = name  plan = plan  None = None
  Sends = {s1, s2}
  Clears = {c1}
  FilesOf <- FilesOfSends
  Agents <- TwoAgents
  InitialAgent = greeter
  Needs <- NeedsName
  Conditional = {expert}
  Immediate = {expert}
  Learns <- LearnsBoth
  Foreign <- ForeignPlan
  KnowledgeAgents = {greeter}
  GeminiAgents = {expert}
  Configured = {greeter, expert}
  MetadataKeys = {greeter}
  HasStorage = TRUE
  MemoryLimit = 3
  MaxLoops = 1
  MaxTrouble = 1
  MaxFaults = 1
  voice = voice  photo = photo  scan = scan  brochure = brochure  w1 = w1  m1 = m1
  Asset = {voice, photo, scan, brochure}
  SourceOf <- Sources
  MimeOf <- Mimes
  HasUrl = {voice, photo}
  HasPath = {brochure}
  Keyed = {"audio", "image"}
  Storage = "supabase"
  Native = {"image"}
  Workers = {w1}
  Readers = {m1}
  MaxAttempts = 2
  MaxStalls = 1
  a = a  b = b  q1 = q1  q2 = q2  q3 = q3  v = v  x = x
  Turns = {q1, q2, q3}
  FromQueue = {q1, q2}
  Order <- FirstA
  Initial = {a}
  Conditions <- WhenXThenA
  Searching = {a}
  Calls <- CallsOfTools
  Vars = {v}
  Values = {x}
  Embedders = 1
  Retries = 1
  HasFallback = FALSE
  Default = Default
  MaxCalls <- TwoCalls
  save1 = save1  save2 = save2  edit1 = edit1  edit2 = edit2  script = script  groq = groq
  Saves = {save1, save2}
  Edits = {edit1, edit2}
  Migrations = {script}
  Provider = {groq}
  PanelAgents = {a, b}
  Old = Old
  MaxPanelCalls = 2
  MaxStarts = 3
  ana = ana  bruno = bruno  guest = guest  p1 = p1
INVARIANTS OneAnswerPerConversation SessionsAreSingle MemoryFollowsMessages ContextSurvives RunsEndWithTheirRequest
INVARIANTS AnswersWaitForText JobsTellTheirAsset PathsHaveFiles SwitchesHold CallsEnd
INVARIANTS SettingsHold CallsAreOrderly
PROPERTIES VariablesSurvive DistributionIsOrderly
CHECK_DEADLOCK FALSE
