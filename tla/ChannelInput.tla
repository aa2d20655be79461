---------------------------- MODULE ChannelInput ----------------------------
(***************************************************************************)
(* What the server makes of one event of a chat platform: which handler    *)
(* takes it (app/main.py, the _looks_like_*_sdk_request of                 *)
(* channels/runtimes), and what an SDK runtime or a channel adapter        *)
(* (channels/plugins) turns it into: the whole response, nothing, an       *)
(* error, or an envelope with an event id.                                 *)
(*                                                                         *)
(* A payload is abstracted to the fields normalisation tells apart.        *)
(***************************************************************************)
CONSTANTS
  Items,  \* the messages users wrote
  Ids,    \* the event ids the platforms give
  NoId    \* a payload without an id

ASSUME InputAssumption == NoId \notin Ids

Channels == {"whatsapp", "slack", "telegram", "discord", "feishu"}

\* shape: the platform's own, or the generic one of a relay.  signed: with the header
\* of the platform's signature.  sender, place, text: whether the fields are there.
\* An event that is no message ("other") is a status, an edit or another event type.
\* more: the messages behind the first one of a WhatsApp payload; nothing reads them.
RawEvent ==
  [item : Items, channel : Channels, shape : {"platform", "generic"}, signed : BOOLEAN,
   kind : {"message", "challenge", "other"}, id : Ids \cup {NoId},
   sender : BOOLEAN, place : BOOLEAN, text : BOOLEAN, more : SUBSET Items]

Complete(raw) == raw.sender /\ raw.place /\ raw.text
-----------------------------------------------------------------------------
(* Routing: a request that looks like the SDK's goes to the runtime. *)

SlackRequest(raw) == raw.signed \/ raw.shape = "platform"

FeishuRequest(raw) == raw.signed \/ raw.shape = "platform"

\* x-hub-signature-256, or object = whatsapp_business_account.
WhatsAppRequest(raw) == raw.signed \/ raw.shape = "platform"

\* update_id and a message of some kind: a callback query has none.
TelegramRequest(raw) ==
  raw.signed \/ (raw.shape = "platform" /\ raw.id # NoId /\ raw.kind = "message")

DiscordRequest(raw) == raw.signed \/ (raw.shape = "platform" /\ raw.id # NoId)

SdkRequest(raw) ==
  CASE raw.channel = "slack" -> SlackRequest(raw)
    [] raw.channel = "feishu" -> FeishuRequest(raw)
    [] raw.channel = "whatsapp" -> WhatsAppRequest(raw)
    [] raw.channel = "telegram" -> TelegramRequest(raw)
    [] raw.channel = "discord" -> DiscordRequest(raw)

\* The routes: the keys of a batch {"events": [...]} are not the SDK's, a signature is.
Route(raw, batched) ==
  IF raw.signed \/ (~batched /\ SdkRequest(raw)) THEN "runtime" ELSE raw.shape
-----------------------------------------------------------------------------
(* The adapters: normalize_event returns None, raises ValueError, or an envelope. *)

Normalised(raw) == IF Complete(raw) THEN "envelope" ELSE "malformed"

GenericAdapter(raw) == IF raw.kind = "message" THEN Normalised(raw) ELSE "ignored"

\* resolve_immediate_response comes first: url_verification.
SlackAdapter(raw) ==
  CASE raw.kind = "challenge" -> "challenge"
    [] raw.kind = "message" -> Normalised(raw)
    [] OTHER -> "ignored"

\* A picture has no text and raises, as a message without a sender does.
FeishuAdapter(raw) ==
  CASE raw.kind = "challenge" -> "challenge"
    [] raw.kind = "message" -> Normalised(raw)
    [] OTHER -> "ignored"

\* The first message of the first change, with its id; the sender is the place.
WhatsAppAdapter(raw) ==
  CASE raw.kind # "message" -> "ignored"
    [] raw.sender /\ raw.text /\ raw.id # NoId -> "envelope"
    [] OTHER -> "malformed"

\* An update without a message is read in the generic shape, where it has no sender.
TelegramAdapter(raw) ==
  CASE raw.kind # "message" -> "malformed"
    [] ~raw.text -> "ignored"
    [] OTHER -> Normalised(raw)

\* The member and user objects are demanded before the text, the channel behind it.
DiscordAdapter(raw) ==
  CASE raw.kind = "challenge" -> "challenge"
    [] raw.kind = "other" -> "ignored"
    [] ~raw.sender -> "malformed"
    [] ~raw.text -> "ignored"
    [] OTHER -> Normalised(raw)
-----------------------------------------------------------------------------
(* The SDK runtimes: the SDK's handler appends an envelope or does not. *)

Appended(raw) == IF Complete(raw) THEN "envelope" ELSE "ignored"

SlackRuntime(raw) ==
  CASE raw.kind = "challenge" -> "challenge"
    [] raw.kind = "message" -> Appended(raw)
    [] OTHER -> "ignored"

FeishuRuntime(raw) ==
  CASE raw.kind = "challenge" -> "challenge"
    [] raw.kind = "message" -> Appended(raw)
    [] OTHER -> "ignored"

\* pywa, like the adapter, takes the first message of an update, and none without an id.
WhatsAppRuntime(raw) ==
  IF raw.kind = "message" /\ raw.sender /\ raw.text /\ raw.id # NoId THEN "envelope" ELSE "ignored"

TelegramRuntime(raw) == IF raw.kind = "message" THEN Appended(raw) ELSE "ignored"

\* The one runtime that raises: user and channel are demanded before the text.
DiscordRuntime(raw) ==
  CASE raw.kind = "challenge" -> "challenge"
    [] raw.kind = "other" -> "ignored"
    [] ~(raw.sender /\ raw.place) -> "malformed"
    [] OTHER -> Appended(raw)
-----------------------------------------------------------------------------
Runtime(raw) ==
  CASE raw.channel = "slack" -> SlackRuntime(raw)
    [] raw.channel = "feishu" -> FeishuRuntime(raw)
    [] raw.channel = "whatsapp" -> WhatsAppRuntime(raw)
    [] raw.channel = "telegram" -> TelegramRuntime(raw)
    [] raw.channel = "discord" -> DiscordRuntime(raw)

Adapter(raw) ==
  CASE raw.channel = "slack" -> SlackAdapter(raw)
    [] raw.channel = "feishu" -> FeishuAdapter(raw)
    [] raw.channel = "whatsapp" -> WhatsAppAdapter(raw)
    [] raw.channel = "telegram" -> TelegramAdapter(raw)
    [] raw.channel = "discord" -> DiscordAdapter(raw)

Outcomes == {"challenge", "ignored", "malformed", "envelope"}

Outcome(raw, route) ==
  CASE route = "runtime" -> Runtime(raw)
    [] route = "platform" -> Adapter(raw)
    [] route = "generic" -> GenericAdapter(raw)

\* Keys of processed_events: Empty is the id "", Fresh a new uuid4, never looked up again.
Empty == [key |-> "empty"]

Fresh == [key |-> "fresh"]

Keys == {Empty} \cup [id : Ids]

\* Faulty: the generic adapter makes no uuid either.
KeyWithoutUuid(raw, route) == IF raw.id # NoId THEN [id |-> raw.id] ELSE Empty

Key(raw, route) ==
  CASE raw.id # NoId -> [id |-> raw.id]
    [] raw.id = NoId /\ route = "generic" -> Fresh
    [] OTHER -> Empty
=============================================================================
