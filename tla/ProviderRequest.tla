--------------------------- MODULE ProviderRequest ---------------------------
(***************************************************************************)
(* The calls of ProviderManager._invoke_profile_raw (providers/manager.py) *)
(* that one manager serves, behind summaries and the ReAct graph, with     *)
(* NativeProviderClient.invoke under them: the endpoints ProviderConfig    *)
(* binds to the profile in order, at each up to five ways of passing the   *)
(* keywords for clients that lack some, each a stream with a fallback or a *)
(* plain request.  ThinkTags cuts the thoughts out of what arrives.        *)
(*                                                                         *)
(* Here a text is its characters, since the pieces of a stream may end     *)
(* inside a tag; ProviderChat has the same clients with texts abstracted.  *)
(***************************************************************************)
EXTENDS ThinkTags, ProviderConfig

CONSTANTS
  Configs,    \* the configurations a process may start with
  Profiles,   \* the profiles that are called
  MaxCalls,   \* bound: calls of one manager
  Listening,  \* there is an on_token or an event listener
  Messages    \* what a model may write

ASSUME RequestsAssumption ==
  /\ \A c \in Configs : WellFormed(c)
  /\ MaxCalls \in Nat
  /\ Listening \in BOOLEAN
  /\ Messages \subseteq Seq(STRING)
  /\ <<>> \in Messages

VARIABLES
  config,    \* the sources the process was started with
  settings,  \* ProviderManager.settings: profile_bindings
  clients,   \* ProviderClientRegistry._clients: the endpoint of each key's client
  requests,  \* calls so far
  profile,   \* the profile called
  tools,     \* the caller gives tools
  endpoint,  \* the endpoint being tried
  variant,   \* the entry of invoke_variants being tried
  mode,      \* the request in flight
  message,   \* what the model writes in answer to it: chosen when it is streamed or has come
  sent,      \* how many characters of it have arrived
  stripper,  \* the sanitizer of the stream
  parts,     \* text_parts of the stream, joined
  shown,     \* tokens given to on_token since the first request of this variant, joined
  answer     \* what is returned, or that nothing is

managerVars == <<config, settings, requests, profile>>

vars == <<managerVars, clients, tools, endpoint, variant, mode, message, sent, stripper, parts, shown, answer>>
-----------------------------------------------------------------------------
Modes == {"stream", "fallback", "plain"}

NoAnswer == [kind |-> "none"]

Attempts(p) == settings[p].attempts

\* _candidate_endpoints
Candidates == 1 .. Least(Len(settings[profile].endpoints), Attempts(profile))

\* The endpoint of the client in use.
Used(cache, p, e) == cache[EndpointKey(settings[p].endpoints[e])]

Client == Used(clients, profile, endpoint).provider

\* The first two variants and the fourth have on_token, the first three tools.
GivesToken(v) == Listening /\ v \in {1, 2, 4}

FirstMode(provider, withTools, v) ==
  IF GivesToken(v) /\ (provider = "anthropic" \/ ~(withTools /\ v \in {1, 2, 3}))
  THEN "stream" ELSE "plain"

Writing(m) == IF m = "stream" THEN Messages ELSE {<<>>}

Init ==
  /\ config \in {c \in Configs : Loads(c)}
  /\ settings = Settings(config)
  /\ clients = [k \in {} |-> k]
  /\ requests = 0
  /\ profile = "none"
  /\ tools = FALSE
  /\ endpoint = 1
  /\ variant = 1
  /\ mode = "idle"
  /\ message = <<>>
  /\ sent = 0
  /\ stripper = Fresh
  /\ parts = <<>>
  /\ shown = <<>>
  /\ answer = NoAnswer

\* client.invoke with the keywords of variant v.
Invoke(p, withTools, e, v) ==
  /\ clients' = WithClient(clients, settings[p].endpoints[e])
  /\ endpoint' = e
  /\ variant' = v
  /\ mode' = FirstMode(Used(clients', p, e).provider, withTools, v)
  /\ message' \in Writing(mode')
  /\ sent' = 0
  /\ stripper' = Fresh
  /\ parts' = <<>>
  /\ shown' = <<>>

\* A profile without a binding is a ProviderConfigError.
Call(p, withTools) ==
  /\ mode = "idle"
  /\ requests < MaxCalls
  /\ p \in DOMAIN settings
  /\ requests' = requests + 1
  /\ profile' = p
  /\ tools' = withTools
  /\ Invoke(p, withTools, 1, 1)
  /\ UNCHANGED <<config, settings, answer>>

\* What the call kept is gone; the registry of clients stays.
Return ==
  /\ mode = "returned"
  /\ profile' = "none"
  /\ tools' = FALSE
  /\ endpoint' = 1
  /\ variant' = 1
  /\ mode' = "idle"
  /\ message' = <<>>
  /\ sent' = 0
  /\ stripper' = Fresh
  /\ parts' = <<>>
  /\ shown' = <<>>
  /\ answer' = NoAnswer
  /\ UNCHANGED <<config, settings, clients, requests>>

Answer(text) ==
  /\ answer' = [kind |-> "text", of |-> mode, text |-> text]
  /\ mode' = "returned"
  /\ UNCHANGED <<managerVars, clients, tools, endpoint, variant, sent, stripper, parts>>
-----------------------------------------------------------------------------
(* A stream *)

Forward(output) ==
  /\ parts' = parts \o output
  /\ shown' = shown \o output

\* A piece of the text; what may be shown of it is.
Piece ==
  /\ mode = "stream"
  /\ \E n \in sent + 1 .. Len(message) :
       /\ sent' = n
       /\ stripper' = Push(stripper, SubSeq(message, sent + 1, n))
  /\ Forward(stripper'.output)
  /\ UNCHANGED <<managerVars, clients, tools, endpoint, variant, mode, message, answer>>

\* The same request, not streamed.
AskAgain ==
  /\ mode' = "fallback"
  /\ message' = <<>>
  /\ sent' = 0
  /\ stripper' = Fresh
  /\ UNCHANGED <<managerVars, clients, tools, endpoint, variant, answer>>

Arrived == mode = "stream" /\ sent = Len(message)

\* Faulty: what is still held back at the end of the stream is dropped.
StreamEndsUnfinished ==
  /\ Arrived
  /\ UNCHANGED <<message, shown>>
  /\ Client = "anthropic" \/ parts # <<>>
  /\ Answer(IF Client = "openai" THEN parts ELSE Strip(message))

\* An OpenAI stream answers with its parts, an Anthropic one with its final message.
StreamEnds ==
  LET rest == Finish(stripper).output
      text == IF Client = "openai" THEN parts \o rest ELSE Strip(message)
  IN  /\ Arrived
      /\ Client = "anthropic" \/ text # <<>>
      /\ shown' = shown \o rest
      /\ UNCHANGED message
      /\ Answer(text)

\* An OpenAI stream that ended or broke gives out what was held back; an Anthropic one
\* only when it broke at its final message.
StreamBreaks ==
  /\ mode = "stream"
  /\ IF Client = "openai" \/ Arrived
     THEN Forward(Finish(stripper).output)
     ELSE UNCHANGED <<parts, shown>>
  /\ AskAgain
-----------------------------------------------------------------------------
(* A request that is not streamed *)

\* The fallback's text is one token, unless the stream gave some.
Replies ==
  /\ mode \in {"plain", "fallback"}
  /\ message' \in Messages
  /\ shown' = IF mode = "fallback" /\ parts = <<>> THEN Strip(message') ELSE shown
  /\ Answer(Strip(message'))

\* except Exception: the next endpoint, or ProviderInvocationError.
NextEndpoint ==
  IF endpoint + 1 \in Candidates
  THEN Invoke(profile, tools, endpoint + 1, 1) /\ UNCHANGED <<managerVars, tools, answer>>
  ELSE /\ answer' = [kind |-> "failed"]
       /\ mode' = "returned"
       /\ UNCHANGED <<managerVars, clients, tools, endpoint, variant, message, sent, stripper,
                      parts, shown>>

RequestFails ==
  /\ mode \in {"plain", "fallback"} \/ (mode = "stream" /\ sent = 0)
  /\ NextEndpoint

\* Faulty: the same request is made again.
RepeatMalformed ==
  /\ mode \in {"plain", "fallback"}
  /\ Invoke(profile, tools, endpoint, variant)
  /\ UNCHANGED <<managerVars, tools, answer>>

\* A reply without choices or content is a TypeError, taken for a client that lacks a
\* keyword: the request is made again with fewer.
ReplyMalformed ==
  /\ mode \in {"plain", "fallback"}
  /\ IF variant < 5
     THEN Invoke(profile, tools, endpoint, variant + 1) /\ UNCHANGED <<managerVars, tools, answer>>
     ELSE NextEndpoint

Idle == mode = "idle" /\ requests = MaxCalls /\ UNCHANGED vars

Next ==
  \/ \E p \in Profiles, withTools \in BOOLEAN : Call(p, withTools)
  \/ Return
  \/ Piece \/ StreamEnds \/ StreamBreaks \/ Replies \/ RequestFails \/ ReplyMalformed
  \/ Idle

Spec == Init /\ [][Next]_vars
-----------------------------------------------------------------------------
(* Properties *)

\* Nothing a stream has shown must be taken back, wherever its pieces end: it is the
\* beginning of what is visible of the whole text, no part of a tag or of a thought
\* (native.py 436-479).
ShownIsVisible == mode = "stream" => IsPrefix(shown, Visible(message))

\* The answer is the visible text, and what was shown is the answer, character by
\* character, unless a stream broke after it had shown some, or nothing was streamed
\* (native.py 206-267, 371-428).
ShownIsAnswer ==
  answer.kind = "text" =>
    /\ answer.text = Visible(message)
    /\ \/ shown = answer.text
       \/ answer.of = "plain" /\ shown = <<>>
       \/ answer.of = "fallback" /\ parts # <<>> /\ shown = parts

\* The entries of a source that bind profile p.
Binds(p, source) ==
  LET entries == config[source].profiles
  IN  {k \in DOMAIN entries : Resolved(entries[k].name) = p /\ entries[k].list # <<>>}

\* The last source that binds p, and its last entry for it.
Source(p) == Sources[Max({k \in DOMAIN Sources : Binds(p, Sources[k]) # {}})]

EntryFor(p) == config[Source(p)].profiles[Max(Binds(p, Source(p)))]

\* Whatever was called before, a request goes to the endpoint that the last source to bind
\* its profile lists there, as the last definition that source can see has it, with its own
\* model and effort; only the API key may be another endpoint's (config.py 42-76, base.py 20).
RequestsAsConfigured ==
  mode \in Modes =>
    LET listed == EntryFor(profile).list[endpoint]
        meant == IF ByName(Source(profile)) THEN ModelsFor(config, Source(profile))[listed]
                 ELSE listed
    IN  [Used(clients, profile, endpoint) EXCEPT !.apiKey = meant.apiKey] = meant

\* What a call has left: endpoints, variants, the fallback of a stream, characters of it.
Left ==
  << Len(settings[profile].endpoints) - endpoint, 5 - variant,
     IF mode = "stream" THEN 1 ELSE 0, Len(message) - sent >>

\* a is below b in lexicographic order.
Below(a, b) ==
  \E k \in DOMAIN b : a[k] \in 0 .. b[k] - 1 /\ \A j \in 1 .. k - 1 : a[j] = b[j]

\* What a step may do to a call: leave it less, or end it, as failed only when no endpoint that
\* it may ask is left.
GoesOnOrEnds ==
  mode \in Modes =>
    \/ mode' \in Modes /\ Below(Left', Left)
    \/ mode' = "returned" /\ (answer'.kind = "failed" => endpoint + 1 \notin Candidates)

\* However its requests end, and though a malformed reply has one made again, a call comes to
\* an end, and it has asked every endpoint it may when it fails (manager.py 386-388, 461-466,
\* 516-520).
RetriesRunOut == [][GoesOnOrEnds]_vars
=============================================================================
