----------------------------- MODULE LLMRouter -----------------------------
(***************************************************************************)
(* The providers of gateway/router.py: which handlers a router tries, and  *)
(* how a call of each may end.  The HTTP exchange and the contents are     *)
(* left out; a call answers, raises ProviderError, a ValueError (an answer *)
(* that is no JSON), or anything else (a connection reset while reading,   *)
(* an answer without the expected fields).                                 *)
(***************************************************************************)
EXTENDS Sequences

CONSTANTS
    HasKey,        \* providers whose API key is set
    LLM_PROVIDER,  \* the provider when a request names none
    DEV_MODE

Provider == {"anthropic", "openai", "gemini", "bedrock", "ollama"}

\* A provider as a request or the environment names it: "other" is any name that is none
\* of these.
Name == Provider \cup {"other"}

ASSUME LLMRouterAssumption == LLM_PROVIDER \in Name

\* provider or os.getenv("LLM_PROVIDER"), in provider_factory and _validate_provider.
Resolved(p) == IF p \in Name THEN p ELSE LLM_PROVIDER

\* Ollama and Bedrock have no fallback; an unknown name is served by Anthropic.
provider_factory(p) ==
    LET provider == IF Resolved(p) = "other" THEN "anthropic" ELSE Resolved(p)
    IN  IF provider \in {"ollama", "bedrock"} THEN <<provider>> ELSE <<provider, "ollama">>

\* _validate_provider: the key of the provider asked for, or of the default; an unknown
\* name has none to be missing.
_validate_provider(p) == Resolved(p) \in {"openai", "anthropic", "gemini"} => Resolved(p) \in HasKey

\* How a call over HTTP ends: connection errors, timeouts and statuses from 400
\* on are ProviderErrors; other exceptions pass.
HttpOutcome == {"ok", "ProviderError", "ValueError", "raises"}

\* The handlers' call(): Gemini without a key does not go to the network, and
\* in dev mode asks Ollama instead; Bedrock's client library is one more service.
CallOutcome(p) ==
    IF p = "gemini" /\ p \notin HasKey /\ ~DEV_MODE THEN {"ProviderError"} ELSE HttpOutcome
=============================================================================
