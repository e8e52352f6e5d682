------------------------------- MODULE MCAgent -------------------------------
(***************************************************************************)
(* Instances of AgentPipeline for TLC.                                     *)
(***************************************************************************)
EXTENDS AgentPipeline, TLC

CONSTANTS m1, m2, ana

OneMessage == (m1 :> ana)

\* Two messages of one conversation.
OneConversation == (m1 :> ana) @@ (m2 :> ana)

\* defaultFallbackMap of the three providers.
FallbackMap ==
  ("groq" :> <<"gemini", "openrouter">>) @@
  ("gemini" :> <<"groq", "openrouter">>) @@
  ("openrouter" :> <<"groq", "gemini">>)
=============================================================================
