----------------------------- MODULE MCGateway -----------------------------
(* Instances of Gateway: what the platforms send. *)
EXTENDS Gateway

CONSTANTS i1, i2, i3, i4, i5, i6, e1, e2

Message(item, channel, shape, id) ==
  [item |-> item, channel |-> channel, shape |-> shape, signed |-> FALSE,
   kind |-> "message", id |-> id, sender |-> TRUE, place |-> TRUE, text |-> TRUE,
   more |-> {}]

\* A batch of a relay; its first message from the platform itself, signed, with two more
\* behind it; a batch with a malformed event; two messages without an id, and an event
\* that is ignored; a batch with a challenge in it.
Bodies ==
  [w \in Webhooks |->
     CASE w = "batch" ->
            << Message(i1, "whatsapp", "generic", e1),
               [Message(i5, "whatsapp", "platform", NoId) EXCEPT !.kind = "other"],
               Message(i3, "whatsapp", "generic", NoId) >>
       [] w = "again" ->
            << [Message(i1, "whatsapp", "platform", e1) EXCEPT !.signed = TRUE, !.more = {i3, i6}] >>
       [] w = "poisoned" ->
            << Message(i2, "slack", "platform", e2),
               [Message(i5, "slack", "generic", NoId) EXCEPT !.sender = FALSE],
               Message(i4, "slack", "platform", NoId) >>
       [] w = "nameless" ->
            << Message(i4, "telegram", "platform", NoId),
               [Message(i5, "telegram", "platform", NoId) EXCEPT !.text = FALSE],
               Message(i5, "telegram", "platform", NoId) >>
       [] w = "handshake" ->
            << Message(i2, "slack", "platform", e2),
               [Message(i5, "slack", "platform", NoId) EXCEPT !.kind = "challenge"],
               Message(i3, "slack", "generic", NoId) >>]
=============================================================================
