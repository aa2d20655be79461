---------------------------- MODULE ProviderChat ----------------------------
(***************************************************************************)
(* One ProviderManager.invoke_profile_chat (providers/manager.py) and the  *)
(* invoke_chat of the native client under it (providers/clients/native.py):*)
(* the endpoints of the profile are tried in order, each with a stream     *)
(* that falls back to a plain request, or with a plain request alone.      *)
(* AgentLoop makes the calls and takes the replies.                        *)
(*                                                                         *)
(* A text is abstracted to the response that carries it and the number of  *)
(* its visible chunks; a text that was not streamed is one chunk.          *)
(***************************************************************************)
EXTENDS Integers, Sequences

CONSTANTS
  Tools,        \* the tool names a model may call
  Client,       \* Client[e]: the wire format of the profile's e-th endpoint
  MaxAttempts,  \* ProviderProfileBinding.max_attempts
  Streaming,    \* the caller is stream_event and gives on_token and on_event
  MaxParts      \* bound: visible chunks of one stream

ASSUME ChatAssumption ==
  /\ Client \in Seq({"openai", "anthropic"})
  /\ Len(Client) > 0
  /\ MaxAttempts \in Int
  /\ Streaming \in BOOLEAN
  /\ MaxParts \in Nat

VARIABLES
  offered,   \* the registered tools, sent with every request of the run
  chat,      \* how many calls of invoke_profile_chat the run has made
  endpoint,  \* the endpoint being tried
  mode,      \* the request in flight
  parts,     \* visible chunks the stream of this endpoint has forwarded
  errors,    \* the ProviderAttempts of this call
  shown      \* every token given to on_token during the run

chatVars == <<offered, chat, endpoint, mode, parts, errors, shown>>
-----------------------------------------------------------------------------
Modes == {"idle", "stream", "fallback", "plain"}

Response == [chat : Nat, endpoint : Nat, mode : Modes]

Token == [of : Response, part : Nat]

\* endpoints[: max(max_attempts, 1)]
Candidates == {e \in 1 .. Len(Client) : e = 1 \/ e <= MaxAttempts}

\* An OpenAI-compatible client streams only requests without tools.
Streams(e) == Streaming /\ (Client[e] = "anthropic" \/ offered = {})

FirstMode(e) == IF Streams(e) THEN "stream" ELSE "plain"

InFlight == [chat |-> chat, endpoint |-> endpoint, mode |-> mode]

ChatInit ==
  /\ offered \in SUBSET Tools
  /\ chat = 0
  /\ endpoint = 1
  /\ mode = "idle"
  /\ parts = 0
  /\ errors = <<>>
  /\ shown = <<>>

\* Faulty: the errors of the last call are kept.
InvokeKeepingErrors ==
  /\ mode = "idle"
  /\ chat' = chat + 1
  /\ endpoint' = 1
  /\ mode' = FirstMode(1)
  /\ parts' = 0
  /\ UNCHANGED <<offered, errors, shown>>

Invoke ==
  /\ mode = "idle"
  /\ chat' = chat + 1
  /\ endpoint' = 1
  /\ mode' = FirstMode(1)
  /\ parts' = 0
  /\ errors' = <<>>
  /\ UNCHANGED <<offered, shown>>

\* A visible chunk is forwarded at once; what follows cannot take it back.
StreamPart ==
  /\ mode = "stream"
  /\ parts < MaxParts
  /\ parts' = parts + 1
  /\ shown' = Append(shown, [of |-> InFlight, part |-> parts + 1])
  /\ UNCHANGED <<offered, chat, endpoint, mode, errors>>

\* The stream raised, or an OpenAI stream ended without text: the request is made
\* again, not streamed.
StreamBreaks ==
  /\ mode = "stream"
  /\ mode' = "fallback"
  /\ UNCHANGED <<offered, chat, endpoint, parts, errors, shown>>

\* invoke_chat raises: the plain or fallback request failed, or no client could be made.
RequestFails ==
  /\ mode \in {"plain", "fallback"} \/ (mode = "stream" /\ parts = 0)
  /\ errors' = Append(errors, endpoint)
  /\ parts' = 0
  /\ UNCHANGED <<offered, chat, shown>>

\* Faulty: the endpoint that failed is tried again, and the failure not kept.
RetrySameEndpoint ==
  /\ mode = "fallback"
  /\ endpoint + 1 \in Candidates
  /\ mode' = FirstMode(endpoint)
  /\ UNCHANGED <<offered, chat, endpoint, parts, errors, shown>>

TryNext ==
  /\ RequestFails
  /\ endpoint + 1 \in Candidates
  /\ endpoint' = endpoint + 1
  /\ mode' = FirstMode(endpoint + 1)

\* ProviderInvocationError: all providers failed for the profile.
AllFailed ==
  /\ RequestFails
  /\ endpoint + 1 \notin Candidates
  /\ mode' = "idle"
  /\ UNCHANGED endpoint

\* The replies: tool calls and a text of length visible chunks, 0 for no text.
StreamReply(calls, length) ==
  /\ mode = "stream"
  /\ length = parts
  /\ Client[endpoint] = "openai" => length > 0 /\ calls = <<>>
  /\ mode' = "idle"
  /\ UNCHANGED <<offered, chat, endpoint, parts, errors, shown>>

PlainReply(calls, length) ==
  /\ mode = "plain"
  /\ length \in {0, 1}
  /\ mode' = "idle"
  /\ UNCHANGED <<offered, chat, endpoint, parts, errors, shown>>

\* Faulty: the fallback's text is never forwarded.
SilentFallbackReply(calls, length) ==
  /\ mode = "fallback"
  /\ length \in {0, 1}
  /\ mode' = "idle"
  /\ UNCHANGED <<offered, chat, endpoint, parts, errors, shown>>

\* The fallback's text is forwarded as one token, unless the stream forwarded some.
FallbackReply(calls, length) ==
  /\ mode = "fallback"
  /\ length \in {0, 1}
  /\ shown' = IF length = 1 /\ parts = 0
              THEN Append(shown, [of |-> InFlight, part |-> 1])
              ELSE shown
  /\ mode' = "idle"
  /\ UNCHANGED <<offered, chat, endpoint, parts, errors>>

Reply(calls, length) ==
  StreamReply(calls, length) \/ PlainReply(calls, length) \/ FallbackReply(calls, length)

ChatTypeOK ==
  /\ offered \in SUBSET Tools
  /\ chat \in Nat
  /\ endpoint \in Candidates
  /\ mode \in Modes
  /\ parts \in Nat
  /\ errors \in Seq(Candidates)
  /\ shown \in Seq(Token)
=============================================================================
