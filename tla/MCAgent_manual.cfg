\* Two messages, no tools; an operator takes the conversation over.
SPECIFICATION Spec
CONSTANTS
  m1 = m1  m2 = m2  ana = ana  None = None
  Conversations = {ana}
  Job = {m1, m2}
  ConversationOf <- OneConversation
  Workers = {w1, w2}
  Providers = {"gemini", "groq", "openrouter"}
  Primary = "groq"
  Keyed = {"groq", "gemini"}
  Multimodal = {"gemini"}
  Candidates <- FallbackMap
  MayOpen = {"groq", "gemini"}
  HasTools = FALSE
  LockOutlivesJob = TRUE
  MaxAttempts = 2
  MaxStalls = 1
  MaxFaults = 0
PROPERTY NoReplyInManualMode
CHECK_DEADLOCK FALSE
