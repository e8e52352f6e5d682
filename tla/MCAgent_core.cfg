\* Two messages of one conversation, groq with gemini to fall back on, one failure.
SPECIFICATION FairSpec
CONSTANTS
  m1 = m1  m2 = m2  ana = ana  None = None
  Conversations = {ana}
  Job = {m1, m2}
  ConversationOf <- OneConversation
  Workers = {w1, w2}
  Providers = {"gemini", "groq", "openrouter"}
  Primary = "groq"
  Keyed = {"groq", "gemini"}
  Multimodal = {"gemini"}
  Candidates <- FallbackMap
  MayOpen = {"groq"}
  HasTools = TRUE
  LockOutlivesJob = TRUE
  MaxAttempts = 2
  MaxStalls = 0
  MaxFaults = 1
INVARIANTS OneReplyAtATime RepliesNeedFaults RunsEnd
INVARIANTS TurnedAwayByOthers OnlyUnderWayAnswer
PROPERTIES ImplementsWork AgentJobsSettle
CHECK_DEADLOCK FALSE
