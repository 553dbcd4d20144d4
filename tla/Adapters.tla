------------------------------- MODULE Adapters -------------------------------
(***************************************************************************)
(* The adapters of the AI providers: what each supports, and the code each *)
(* makes of what a call came to.  Only the last part of a code is kept.    *)
(*                                                                         *)
(* An answer is [status, late, readable, text, finish]: the HTTP status, 0 *)
(* where none arrived; whether the timeout passed; whether the body is     *)
(* JSON; what its text is, and why the model stopped.                      *)
(***************************************************************************)
EXTENDS Naturals

MediaAnalysis == {"IMAGE_UNDERSTANDING", "OCR_FALLBACK"}
Plain == {"TEXT_REASONING", "STRUCTURED_EXTRACTION", "CLAIM_EXTRACTION", "SUMMARIZATION",
          "MANIPULATION_ANALYSIS", "BIAS_ANALYSIS", "TRANSLATION"}
Reasoned == {"CONTEXT_ANALYSIS", "EVIDENCE_SYNTHESIS", "REPORT_GENERATION"}

GroqCapabilities == Plain \cup {"DAILY_CHALLENGE_GENERATION"}
OpenRouterCapabilities ==
  ((Plain \ {"CLAIM_EXTRACTION", "SUMMARIZATION"}) \cup Reasoned \cup MediaAnalysis)
    \cup {"DAILY_CHALLENGE_GENERATION"}
VertexCapabilities ==
  Plain \cup Reasoned \cup MediaAnalysis \cup {"DAILY_CHALLENGE_GENERATION", "VIDEO_UNDERSTANDING"}
BedrockCapabilities == Plain \cup Reasoned
GeminiCapabilities == VertexCapabilities \cup {"AUDIO_REASONING"}

Supports(provider, capability) ==
  capability \in CASE provider = "GROQ" -> GroqCapabilities
                   [] provider = "OPENROUTER" -> OpenRouterCapabilities
                   [] provider = "VERTEX" -> VertexCapabilities
                   [] provider = "BEDROCK" -> BedrockCapabilities
                   [] provider = "GEMINI" -> GeminiCapabilities

\* The slot of the configuration the model comes from; an empty one of Vertex or Bedrock
\* falls back to "text", but for pictures and videos.
VertexModel(capability) ==
  CASE capability = "TRANSLATION" -> "localization"
    [] capability \in Reasoned -> "reasoning"
    [] capability \in MediaAnalysis -> "vision"
    [] capability = "VIDEO_UNDERSTANDING" -> "video"
    [] OTHER -> "text"
GeminiModel(capability) ==
  IF capability \in MediaAnalysis \cup {"AUDIO_REASONING", "VIDEO_UNDERSTANDING"} THEN "vision" ELSE "text"
OpenRouterModel(capability) ==
  CASE capability \in MediaAnalysis -> "vision"
    [] capability = "REPORT_GENERATION" -> "report"
    [] OTHER -> "reasoning"
ModelSlot(provider, capability) ==
  CASE provider \in {"VERTEX", "BEDROCK"} -> VertexModel(capability)
    [] provider = "GEMINI" -> GeminiModel(capability)
    [] provider = "OPENROUTER" -> OpenRouterModel(capability)
    [] provider = "GROQ" -> "text"

\* configured: the slots of the provider that are filled.
ModelFor(provider, capability, configured) ==
  /\ Supports(provider, capability)
  /\ \/ ModelSlot(provider, capability) \in configured
     \/ /\ provider \in {"VERTEX", "BEDROCK"} /\ "text" \in configured
        /\ ModelSlot(provider, capability) \notin {"vision", "video"}

-----------------------------------------------------------------------------
(* Codes.                                                                  *)

ProviderAnswers ==
  [status : {0, 200, 400, 401, 402, 403, 404, 408, 422, 429, 500, 504}, late : BOOLEAN,
   readable : BOOLEAN, text : {"none", "json", "prose"},
   finish : {"stop", "truncated", "blocked", "other"}]

FailureState(status) ==
  CASE status \in {401, 403} -> "AUTHENTICATION_FAILED"
    [] status = 402 -> "BILLING_REQUIRED"
    [] status = 404 -> "INVALID_MODEL"
    [] status \in {408, 504} -> "TIMEOUT"
    [] status = 429 -> "RATE_LIMITED"
    [] status \in {400, 422} -> "INVALID_REQUEST"
    [] OTHER -> "UNAVAILABLE"

\* providerFetch.
FetchCode(answer) ==
  CASE answer.status = 200 -> "none"
    [] answer.status = 0 /\ answer.late -> "TIMEOUT"
    [] OTHER -> FailureState(answer.status)

\* parseJsonText: a truncated answer is told apart only where it is not JSON.
ParseCode(answer) ==
  CASE answer.text = "json" -> "none"
    [] answer.finish = "truncated" -> "OUTPUT_TRUNCATED"
    [] OTHER -> "INVALID_JSON"

\* The adapters of OpenAI's protocol and Gemini: a body that cannot be read is as good as none.
PooledCode(answer) ==
  CASE FetchCode(answer) # "none" -> FetchCode(answer)
    [] ~answer.readable -> "UNAVAILABLE"
    [] answer.text = "none" -> "INVALID_RESPONSE"
    [] OTHER -> ParseCode(answer)

GeminiCode(answer) == PooledCode(answer)

\* Without an access token it is a 401.
VertexFetch(answer) == FetchCode(answer)
\* A body that cannot be read throws no provider's code.
VertexCode(answer) ==
  CASE VertexFetch(answer) # "none" -> VertexFetch(answer)
    [] ~answer.readable -> "EXECUTION_FAILED"
    [] answer.text # "none" -> ParseCode(answer)
    [] answer.finish = "truncated" -> "OUTPUT_TRUNCATED"
    [] answer.finish = "blocked" -> "CONTENT_BLOCKED"
    [] answer.finish = "stop" -> "EMPTY_RESPONSE"
    [] OTHER -> "INVALID_RESPONSE"

\* The SDK's error: by its name where there is no status.
BedrockFailure(answer) ==
  CASE answer.late -> "TIMEOUT"
    [] answer.status \in {401, 403} -> "AUTHENTICATION_FAILED"
    [] answer.status = 429 -> "RATE_LIMITED"
    [] answer.status = 400 -> "INVALID_REQUEST"
    [] OTHER -> "UNAVAILABLE"
BedrockCode(answer) ==
  CASE answer.status # 200 \/ ~answer.readable -> BedrockFailure(answer)
    [] answer.text = "none" -> "INVALID_RESPONSE"
    [] OTHER -> ParseCode(answer)

CodeOf(provider, answer) ==
  CASE provider = "VERTEX" -> VertexCode(answer)
    [] provider = "BEDROCK" -> BedrockCode(answer)
    [] provider = "GEMINI" -> GeminiCode(answer)
    [] OTHER -> PooledCode(answer)

\* What a failed call of each provider may be called.
FailureCodes ==
  [provider \in {"GROQ", "GEMINI", "OPENROUTER", "VERTEX", "BEDROCK"} |->
     {CodeOf(provider, answer) : answer \in ProviderAnswers} \ {"none"}]

\* classifyAiFailure, on the codes of the adapters and the router.
FailureClass(code) ==
  CASE code = "AUTHENTICATION_FAILED" -> "AUTHENTICATION"
    [] code = "RATE_LIMITED" -> "RATE_LIMIT"
    [] code = "BILLING_REQUIRED" -> "BILLING"
    [] code \in {"INVALID_REQUEST", "INVALID_MODEL"} -> "INVALID_REQUEST"
    [] code \in {"INVALID_RESPONSE", "INVALID_JSON", "OUTPUT_TRUNCATED", "OUTPUT_VALIDATION_FAILED",
                 "EMPTY_RESPONSE", "CONTENT_BLOCKED"} -> "INVALID_RESPONSE"
    [] code \in {"TIMEOUT", "UNAVAILABLE"} -> "TEMPORARY"
    [] OTHER -> "UNKNOWN"
=============================================================================
