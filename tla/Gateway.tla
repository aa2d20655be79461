------------------------------ MODULE Gateway ------------------------------
(***************************************************************************)
(* The ingress of one server process: GatewayManager (gateway/manager.py), *)
(* ChannelInput for what becomes of a payload, and the platform, which     *)
(* sends a webhook again until it is acknowledged.                         *)
(*                                                                         *)
(* process_event is taken as what ReplyLedger promises: one step that      *)
(* replays the stored reply, or runs the agent and stores its reply.  No   *)
(* await of a handler suspends, so requests are served one at a time.      *)
(***************************************************************************)
EXTENDS ChannelInput, FiniteSets, Integers, Sequences

CONSTANTS
  Webhooks,     \* the webhooks the platforms send
  Batches,      \* those whose body is a list of events
  Body,         \* Body[w]: the raw events of a webhook's request
  MaxSends,     \* bound: deliveries of one webhook
  MaxFailures   \* bound: failed runs, lost responses and crashes

NotProcessed == "not processed"

\* An id names one message; what a platform signs has one and is no batch.
ASSUME GatewayAssumption ==
  /\ MaxSends \in Nat /\ MaxFailures \in Nat
  /\ NotProcessed \notin Items
  /\ Batches \subseteq Webhooks
  /\ \A w \in Webhooks :
       /\ Body[w] \in Seq(RawEvent)
       /\ w \notin Batches => Len(Body[w]) = 1
       /\ \A k \in DOMAIN Body[w] :
            /\ Body[w][k].signed => Body[w][k].id # NoId /\ w \notin Batches
            /\ Body[w][k].more # {} => Body[w][k].channel = "whatsapp" /\ Body[w][k].shape = "platform"
            /\ Body[w][k].kind = "challenge" =>
                 Body[w][k].shape = "platform" /\ Body[w][k].channel \in {"slack", "feishu", "discord"}
  /\ \A w, v \in Webhooks : \A k \in DOMAIN Body[w], l \in DOMAIN Body[v] :
       Body[w][k].id = Body[v][l].id /\ Body[w][k].id # NoId => Body[w][k].item = Body[v][l].item

VARIABLES
  processed,  \* processed[k]: the message whose reply is stored under key k
  serving,    \* the webhook whose request is being handled
  position,   \* the raw event being handled
  replies,    \* replies so far: the messages whose runs made them
  ignored,    \* raw events ignored so far
  response,   \* response[w]: the last response that reached the platform
  sends,      \* sends[w]: deliveries so far
  failures,   \* failures so far
  runs        \* history: runs[i]: the completed runs of a message

vars == <<processed, serving, position, replies, ignored, response, sends, failures, runs>>
-----------------------------------------------------------------------------
RouteOf(w, k) == Route(Body[w][k], w \in Batches)

OutcomeOf(w, k) == Outcome(Body[w][k], RouteOf(w, k))

KeyOf(w, k) == Key(Body[w][k], RouteOf(w, k))
-----------------------------------------------------------------------------
NoWebhook == "none"

NoResponse == [status |-> "none"]

Acknowledged(w) == response[w].status = "ok"

Init ==
  /\ processed = [k \in Keys |-> NotProcessed]
  /\ serving = NoWebhook
  /\ position = 1
  /\ replies = <<>>
  /\ ignored = 0
  /\ response = [w \in Webhooks |-> NoResponse]
  /\ sends = [w \in Webhooks |-> 0]
  /\ failures = 0
  /\ runs = [i \in Items |-> 0]
-----------------------------------------------------------------------------
(* The platform posts a webhook until it is acknowledged. *)

\* Faulty: the handler goes on where the last one stopped.
DeliverKeepingPosition(w) ==
  /\ serving = NoWebhook
  /\ ~Acknowledged(w)
  /\ sends[w] < MaxSends
  /\ sends' = [sends EXCEPT ![w] = @ + 1]
  /\ serving' = w
  /\ replies' = <<>>
  /\ ignored' = 0
  /\ UNCHANGED <<processed, position, response, failures, runs>>

Deliver(w) ==
  /\ serving = NoWebhook
  /\ ~Acknowledged(w)
  /\ sends[w] < MaxSends
  /\ sends' = [sends EXCEPT ![w] = @ + 1]
  /\ serving' = w
  /\ position' = 1
  /\ replies' = <<>>
  /\ ignored' = 0
  /\ UNCHANGED <<processed, response, failures, runs>>
-----------------------------------------------------------------------------
(* handle_http_request, dispatch_envelopes *)

Handling == serving # NoWebhook /\ position <= Len(Body[serving])

Raw == Body[serving][position]

Becomes(outcome) == Handling /\ OutcomeOf(serving, position) = outcome

RawKey == KeyOf(serving, position)

Respond(r) ==
  /\ response' = [response EXCEPT ![serving] = r]
  /\ serving' = NoWebhook
  /\ UNCHANGED <<position, replies, ignored>>

\* The challenge is the whole response: the replies so far and the rest are dropped.
AnswerChallenge ==
  /\ Becomes("challenge")
  /\ Respond([status |-> "ok", challenge |-> TRUE, replies |-> <<>>, ignored |-> 0])
  /\ UNCHANGED <<processed, sends, failures, runs>>

\* 422, or 500 from the Discord runtime; what was dispatched before stays done.
Reject ==
  /\ Becomes("malformed")
  /\ Respond([status |-> "rejected"])
  /\ UNCHANGED <<processed, sends, failures, runs>>

\* Faulty: an event that is not wanted is an error.
IgnoreByRejecting ==
  /\ Becomes("ignored")
  /\ Respond([status |-> "rejected"])
  /\ UNCHANGED <<processed, sends, failures, runs>>

Ignore ==
  /\ Becomes("ignored")
  /\ ignored' = ignored + 1
  /\ position' = position + 1
  /\ UNCHANGED <<processed, serving, replies, response, sends, failures, runs>>

StoredReply(key) == IF key = Fresh THEN NotProcessed ELSE processed[key]

\* Faulty: process_event does not look.
DispatchAnew ==
  /\ Becomes("envelope")
  /\ runs' = [runs EXCEPT ![Raw.item] = @ + 1]
  /\ processed' = IF RawKey = Fresh THEN processed
                  ELSE [processed EXCEPT ![RawKey] = Raw.item]
  /\ replies' = Append(replies, Raw.item)
  /\ position' = position + 1
  /\ UNCHANGED <<serving, ignored, response, sends, failures>>

\* process_event: the stored reply, or a run whose reply is stored.
Dispatch ==
  /\ Becomes("envelope")
  /\ IF StoredReply(RawKey) # NotProcessed
     THEN /\ replies' = Append(replies, StoredReply(RawKey))
          /\ UNCHANGED <<processed, runs>>
     ELSE /\ runs' = [runs EXCEPT ![Raw.item] = @ + 1]
          /\ processed' = IF RawKey = Fresh THEN processed
                          ELSE [processed EXCEPT ![RawKey] = Raw.item]
          /\ replies' = Append(replies, Raw.item)
  /\ position' = position + 1
  /\ UNCHANGED <<serving, ignored, response, sends, failures>>

\* Faulty: the exception is swallowed and the next event handled.
SwallowFailure ==
  /\ Becomes("envelope")
  /\ StoredReply(RawKey) = NotProcessed
  /\ failures < MaxFailures
  /\ failures' = failures + 1
  /\ ignored' = ignored + 1
  /\ position' = position + 1
  /\ UNCHANGED <<processed, serving, replies, response, sends, runs>>

\* process_event raises: 500, what was dispatched before stays done.
RunFails ==
  /\ Becomes("envelope")
  /\ StoredReply(RawKey) = NotProcessed
  /\ failures < MaxFailures
  /\ failures' = failures + 1
  /\ Respond([status |-> "failed"])
  /\ UNCHANGED <<processed, sends, runs>>

Finish ==
  /\ serving # NoWebhook /\ ~Handling
  /\ Respond([status |-> "ok", challenge |-> FALSE, replies |-> replies, ignored |-> ignored])
  /\ UNCHANGED <<processed, sends, failures, runs>>

\* The platform timed out, the connection broke, or the process died: no response.
GiveUp ==
  /\ serving # NoWebhook
  /\ failures < MaxFailures
  /\ failures' = failures + 1
  /\ Respond(NoResponse)
  /\ UNCHANGED <<processed, sends, runs>>
-----------------------------------------------------------------------------
Handle == AnswerChallenge \/ Reject \/ Ignore \/ Dispatch \/ RunFails \/ Finish

Quiet ==
  /\ serving = NoWebhook
  /\ \A w \in Webhooks : Acknowledged(w) \/ sends[w] = MaxSends
  /\ UNCHANGED vars

Next == (\E w \in Webhooks : Deliver(w)) \/ Handle \/ GiveUp \/ Quiet

Spec == Init /\ [][Next]_vars

\* A platform sends again what is not acknowledged; a handler comes to an end.
FairSpec == Spec /\ WF_vars(Handle) /\ \A w \in Webhooks : WF_vars(Deliver(w))
-----------------------------------------------------------------------------
(* Properties *)

Responses ==
  {NoResponse} \cup [status : {"rejected", "failed"}] \cup
  [status : {"ok"}, challenge : BOOLEAN, replies : Seq(Items), ignored : Nat]

\* Types; the position stays in the body or one behind it.
TypeOK ==
  /\ processed \in [Keys -> Items \cup {NotProcessed}]
  /\ serving \in Webhooks \cup {NoWebhook}
  /\ serving # NoWebhook => position \in 1 .. Len(Body[serving]) + 1
  /\ replies \in Seq(Items)
  /\ ignored \in Nat
  /\ response \in [Webhooks -> Responses]
  /\ sends \in [Webhooks -> 0 .. MaxSends]
  /\ failures \in 0 .. MaxFailures
  /\ runs \in [Items -> Nat]

\* A message without an id, in the platform's own shape.
Nameless(w, k) == Body[w][k].id = NoId /\ RouteOf(w, k) # "generic"

\* The messages among the first k raw events of a webhook.
Dispatched(w, k) == {j \in 1 .. k : OutcomeOf(w, j) = "envelope"}

\* A 200 carries the reply of every message read in its body, in order (the reply of raw
\* event k has the place of k among them), each made by a run of that very message;
\* only messages without any id, in the platform's own shape, share the key "" and get
\* all the same reply, the one stored first (slack.py 45, manager.py 48).
RepliesAreTheirOwn ==
  \A w \in Webhooks : Acknowledged(w) /\ ~response[w].challenge =>
    LET messages == Dispatched(w, Len(Body[w]))
    IN  /\ Len(response[w].replies) = Cardinality(messages)
        /\ Cardinality(messages) + response[w].ignored = Len(Body[w])
        /\ \A k \in messages :
             \/ response[w].replies[Cardinality(Dispatched(w, k))] = Body[w][k].item
             \/ /\ Nameless(w, k)
                /\ response[w].replies[Cardinality(Dispatched(w, k))] = processed[Empty]

\* Every event of the message carries one and the same id.
Named(item) ==
  \E e \in Ids : \A w \in Webhooks : \A k \in DOMAIN Body[w] :
    Body[w][k].item = item => Body[w][k].id = e

\* A message with an id runs to completion once, however often, in however many
\* webhooks and by whichever route it is delivered and whatever failed before.
OneRunPerMessage == \A i \in Items : Named(i) => runs[i] <= 1

\* A message an event comes to: no message behind the first one of a WhatsApp payload is.
Read(item) ==
  \E w \in Webhooks : \E k \in DOMAIN Body[w] :
    Body[w][k].item = item /\ OutcomeOf(w, k) = "envelope"

\* What of an acknowledged webhook is answered, and what is lost with a 200: answered is
\* every message that is read, but for those behind a challenge of the same body
\* (manager.py 65-67); no other ever is, as the messages behind the first one of a WhatsApp
\* payload (plugins/whatsapp.py 17-28).
AcknowledgedIsAnswered ==
  /\ \A w \in Webhooks : Acknowledged(w) =>
       \A k \in DOMAIN Body[w] :
         \/ OutcomeOf(w, k) # "envelope"
         \/ runs[Body[w][k].item] > 0
         \/ Nameless(w, k) /\ processed[Empty] # NotProcessed
         \/ \E j \in 1 .. k - 1 : OutcomeOf(w, j) = "challenge"
  /\ \A i \in Items : runs[i] > 0 => Read(i)

\* A webhook with nothing malformed in it is acknowledged in the end: what failed is
\* sent again, what succeeded is replayed from the store.
CleanWebhooksSettle ==
  \A w \in Webhooks :
    (\A k \in DOMAIN Body[w] : OutcomeOf(w, k) # "malformed") => <>Acknowledged(w)
=============================================================================
