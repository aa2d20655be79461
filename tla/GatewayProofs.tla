--------------------------- MODULE GatewayProofs ---------------------------
(***************************************************************************)
(* What Gateway promises for any webhooks, any bodies and any number of    *)
(* deliveries, failures and crashes: a message with an id runs once, what  *)
(* is acknowledged is answered if it is read, and a 200 carries the        *)
(* replies in order.                                                       *)
(***************************************************************************)
EXTENDS Gateway, FiniteSetTheorems, SequenceTheorems, TLAPS

NamedBy(item, e) ==
  \A w \in Webhooks : \A k \in DOMAIN Body[w] : Body[w][k].item = item => Body[w][k].id = e

\* What is stored under an id is the reply of the message the id names, and it was run.
StoredInv ==
  \A w \in Webhooks : \A k \in DOMAIN Body[w] :
    Body[w][k].id # NoId /\ processed[[id |-> Body[w][k].id]] # NotProcessed =>
      /\ processed[[id |-> Body[w][k].id]] = Body[w][k].item
      /\ runs[Body[w][k].item] > 0

\* A message that ran and has an id is found under it.
RunInv ==
  \A i \in Items, e \in Ids : NamedBy(i, e) =>
    runs[i] = 0 \/ (runs[i] = 1 /\ processed[[id |-> e]] # NotProcessed)

Answered(w, k) ==
  \/ OutcomeOf(w, k) # "envelope"
  \/ runs[Body[w][k].item] > 0
  \/ Nameless(w, k) /\ processed[Empty] # NotProcessed

Count(w, k) == Cardinality(Dispatched(w, k))

\* r answers the first n raw events of w, i of them were ignored, and s is the reply that
\* the nameless messages share.
Answers(w, n, r, i, s) ==
  /\ Len(r) = Count(w, n)
  /\ Count(w, n) + i = n
  /\ \A k \in Dispatched(w, n) :
       r[Count(w, k)] = Body[w][k].item \/ (Nameless(w, k) /\ r[Count(w, k)] = s)

\* The handler has answered the events before its position.
ServingInv ==
  serving # NoWebhook =>
    /\ \A k \in 1 .. position - 1 : Answered(serving, k)
    /\ Answers(serving, position - 1, replies, ignored, processed[Empty])

GatewayInv ==
  /\ TypeOK
  /\ StoredInv
  /\ RunInv
  /\ ServingInv
  /\ AcknowledgedIsAnswered
  /\ RepliesAreTheirOwn
-----------------------------------------------------------------------------
(* The operators *)

LEMMA BodyTyping ==
  ASSUME NEW w \in Webhooks, NEW k \in DOMAIN Body[w]
  PROVE  /\ Body[w] \in Seq(RawEvent) /\ k \in 1 .. Len(Body[w])
         /\ Body[w][k].item \in Items
         /\ Body[w][k].id \in Ids \cup {NoId}
<1>1. Body[w] \in Seq(RawEvent)
  BY GatewayAssumption
<1>2. k \in 1 .. Len(Body[w]) /\ Body[w][k] \in RawEvent
  BY <1>1
<1> QED
  BY <1>1, <1>2 DEF RawEvent

LEMMA KeyTyping ==
  ASSUME NEW w \in Webhooks, NEW k \in DOMAIN Body[w]
  PROVE  /\ KeyOf(w, k) \in Keys \cup {Fresh}
         /\ Body[w][k].id # NoId => KeyOf(w, k) = [id |-> Body[w][k].id]
         /\ Body[w][k].id = NoId => KeyOf(w, k) \in {Empty, Fresh}
         /\ KeyOf(w, k) = Empty => Nameless(w, k)
<1>1. Body[w][k].id # NoId => Body[w][k].id \in Ids
  BY BodyTyping
<1>2. Body[w][k].id # NoId => KeyOf(w, k) = [id |-> Body[w][k].id]
  BY DEF KeyOf, Key
<1>3. Body[w][k].id = NoId =>
        \/ RouteOf(w, k) = "generic" /\ KeyOf(w, k) = Fresh
        \/ RouteOf(w, k) # "generic" /\ KeyOf(w, k) = Empty
  BY DEF KeyOf, Key
<1>4. \A e : [id |-> e] # Empty /\ [id |-> e] # Fresh
  BY DEF Empty, Fresh
<1>5. Empty # Fresh
  BY DEF Empty, Fresh
<1> QED
  BY <1>1, <1>2, <1>3, <1>4, <1>5 DEF Nameless, Keys

LEMMA KeysDiffer ==
  /\ \A e : [id |-> e] # Empty /\ [id |-> e] # Fresh
  /\ \A e, f : [id |-> e] = [id |-> f] => e = f
  /\ Empty # Fresh /\ Empty \in Keys /\ Fresh \notin Keys
  /\ \A e \in Ids : [id |-> e] \in Keys
<1>1. \A e : [id |-> e] # Empty /\ [id |-> e] # Fresh
  BY DEF Empty, Fresh
<1>2. ASSUME NEW e, NEW f, [id |-> e] = [id |-> f]
      PROVE  e = f
  <2>1. [id |-> e].id = [id |-> f].id
    BY <1>2
  <2> QED
    BY <2>1
<1>3. Empty # Fresh
  BY DEF Empty, Fresh
<1> QED
  BY <1>1, <1>2, <1>3 DEF Keys

LEMMA CountTyping ==
  ASSUME NEW w, NEW n \in Nat
  PROVE  /\ IsFiniteSet(Dispatched(w, n))
         /\ Count(w, n) \in Nat
         /\ \A k \in Dispatched(w, n) : k \in 1 .. n /\ Count(w, k) \in 1 .. Count(w, n)
<1>1. \A m \in Nat : IsFiniteSet(Dispatched(w, m)) /\ Count(w, m) \in Nat
  <2>1. \A m \in Nat : IsFiniteSet(1 .. m)
    BY FS_Interval
  <2>2. \A m \in Nat : Dispatched(w, m) \in SUBSET (1 .. m)
    BY DEF Dispatched
  <2> QED
    BY <2>1, <2>2, FS_Subset, FS_CardinalityType DEF Count
<1>2. ASSUME NEW k \in Dispatched(w, n)
      PROVE  k \in 1 .. n /\ Count(w, k) \in 1 .. Count(w, n)
  <2>1. k \in 1 .. n /\ k \in Nat
    BY DEF Dispatched
  <2>2. Dispatched(w, k) \in SUBSET Dispatched(w, n)
    BY <2>1 DEF Dispatched
  <2>3. k \in Dispatched(w, k)
    BY <2>1 DEF Dispatched
  <2>4. Count(w, k) <= Count(w, n)
    BY <1>1, <2>2, FS_Subset DEF Count
  <2>5. Count(w, k) # 0
    BY <1>1, <2>1, <2>3, FS_EmptySet DEF Count
  <2> QED
    BY <1>1, <2>1, <2>4, <2>5
<1> QED
  BY <1>1, <1>2

LEMMA CountStep ==
  ASSUME NEW w, NEW n \in Nat
  PROVE  /\ OutcomeOf(w, n + 1) = "envelope" =>
              /\ Dispatched(w, n + 1) = Dispatched(w, n) \cup {n + 1}
              /\ Count(w, n + 1) = Count(w, n) + 1
         /\ OutcomeOf(w, n + 1) # "envelope" => Dispatched(w, n + 1) = Dispatched(w, n)
<1>1. \A k : k \in 1 .. n + 1 <=> k \in 1 .. n \/ k = n + 1
  OBVIOUS
<1>2. OutcomeOf(w, n + 1) = "envelope" => Dispatched(w, n + 1) = Dispatched(w, n) \cup {n + 1}
  BY <1>1 DEF Dispatched
<1>3. OutcomeOf(w, n + 1) # "envelope" => Dispatched(w, n + 1) = Dispatched(w, n)
  BY <1>1 DEF Dispatched
<1>4. n + 1 \notin Dispatched(w, n)
  BY DEF Dispatched
<1>5. Cardinality(Dispatched(w, n) \cup {n + 1}) = Cardinality(Dispatched(w, n)) + 1
  BY <1>4, CountTyping, FS_AddElement
<1> QED
  BY <1>2, <1>3, <1>5 DEF Count

\* One more event: a message and its reply, or an event to ignore.
LEMMA AnswersMore ==
  ASSUME NEW w \in Webhooks, NEW n \in Nat, n + 1 \in DOMAIN Body[w],
         NEW r \in Seq(Items), NEW i \in Nat, NEW s, Answers(w, n, r, i, s)
  PROVE  /\ OutcomeOf(w, n + 1) # "envelope" => Answers(w, n + 1, r, i + 1, s)
         /\ \A e \in Items :
              /\ OutcomeOf(w, n + 1) = "envelope"
              /\ e = Body[w][n + 1].item \/ (Nameless(w, n + 1) /\ e = s)
              => Answers(w, n + 1, Append(r, e), i, s)
<1>1. Count(w, n) \in Nat /\ \A k \in Dispatched(w, n) : Count(w, k) \in 1 .. Count(w, n)
  BY CountTyping
<1>2. CASE OutcomeOf(w, n + 1) # "envelope"
  <2>1. Dispatched(w, n + 1) = Dispatched(w, n) /\ Count(w, n + 1) = Count(w, n)
    BY <1>2, CountStep DEF Count
  <2> QED
    BY <1>1, <1>2, <2>1 DEF Answers
<1>3. ASSUME NEW e \in Items, OutcomeOf(w, n + 1) = "envelope",
             e = Body[w][n + 1].item \/ (Nameless(w, n + 1) /\ e = s)
      PROVE  Answers(w, n + 1, Append(r, e), i, s)
  <2>1. /\ Dispatched(w, n + 1) = Dispatched(w, n) \cup {n + 1}
        /\ Count(w, n + 1) = Count(w, n) + 1
    BY <1>3, CountStep
  <2>2. /\ Len(Append(r, e)) = Len(r) + 1
        /\ \A m \in 1 .. Len(r) : Append(r, e)[m] = r[m]
        /\ Append(r, e)[Len(r) + 1] = e
    BY AppendProperties
  <2>3. Len(r) = Count(w, n) /\ Count(w, n) + i = n
    BY DEF Answers
  <2>4. \A k \in Dispatched(w, n) :
          \/ Append(r, e)[Count(w, k)] = Body[w][k].item
          \/ Nameless(w, k) /\ Append(r, e)[Count(w, k)] = s
    BY <1>1, <2>2, <2>3 DEF Answers
  <2>5. \/ Append(r, e)[Count(w, n + 1)] = Body[w][n + 1].item
        \/ Nameless(w, n + 1) /\ Append(r, e)[Count(w, n + 1)] = s
    BY <1>3, <2>1, <2>2, <2>3
  <2>6. Len(Append(r, e)) = Count(w, n + 1) /\ Count(w, n + 1) + i = n + 1
    BY <1>1, <2>1, <2>2, <2>3
  <2> QED
    BY <2>1, <2>4, <2>5, <2>6 DEF Answers
<1> QED
  BY <1>2, <1>3

\* Answers stay answers whatever else is stored: the shared reply is stored once.
LEMMA AnswersStay ==
  ASSUME NEW w \in Webhooks, NEW n \in Nat, NEW r \in Seq(Items), NEW i, NEW s, NEW t,
         Answers(w, n, r, i, s), s # NotProcessed => t = s
  PROVE  Answers(w, n, r, i, t)
<1>1. ASSUME NEW k \in Dispatched(w, n)
      PROVE  r[Count(w, k)] # NotProcessed
  <2>1. Count(w, k) \in 1 .. Len(r)
    BY CountTyping DEF Answers
  <2>2. r[Count(w, k)] \in Items
    BY <2>1, ElementOfSeq
  <2> QED
    BY <2>2, GatewayAssumption
<1>2. \A k \in Dispatched(w, n) :
        r[Count(w, k)] = Body[w][k].item \/ (Nameless(w, k) /\ r[Count(w, k)] = t)
  BY <1>1 DEF Answers
<1> QED
  BY <1>2 DEF Answers
-----------------------------------------------------------------------------
(* The steps *)

LEMMA Initially ==
  ASSUME Init
  PROVE  GatewayInv
<1>1. TypeOK
  BY GatewayAssumption, EmptySeq DEF Init, TypeOK, Responses
<1>2. StoredInv
  <2>1. \A w \in Webhooks : \A k \in DOMAIN Body[w] :
          Body[w][k].id # NoId => processed[[id |-> Body[w][k].id]] = NotProcessed
    BY BodyTyping, KeysDiffer DEF Init
  <2> QED
    BY <2>1 DEF StoredInv
<1>3. RunInv
  BY DEF Init, RunInv
<1>4. ServingInv
  BY DEF Init, ServingInv
<1>5. \A w \in Webhooks : ~Acknowledged(w)
  BY DEF Init, Acknowledged, NoResponse
<1>6. \A i \in Items : runs[i] > 0 => Read(i)
  <2>1. \A i \in Items : runs[i] = 0
    BY DEF Init
  <2> QED
    BY <2>1
<1>7. AcknowledgedIsAnswered
  BY <1>5, <1>6, Zenon DEF AcknowledgedIsAnswered
<1>8. RepliesAreTheirOwn
  BY <1>5, Zenon DEF RepliesAreTheirOwn
<1> QED
  BY <1>1, <1>2, <1>3, <1>4, <1>7, <1>8 DEF GatewayInv

LEMMA HandlingTyping ==
  ASSUME TypeOK, Handling
  PROVE  /\ serving \in Webhooks /\ position \in DOMAIN Body[serving] /\ position \in Nat
         /\ position - 1 \in Nat /\ Raw.item \in Items
         /\ position <= Len(Body[serving]) /\ Len(Body[serving]) \in Nat
<1>1. serving \in Webhooks
  BY DEF TypeOK, Handling
<1>2. Body[serving] \in Seq(RawEvent)
  BY <1>1, GatewayAssumption
<1>3. Len(Body[serving]) \in Nat /\ DOMAIN Body[serving] = 1 .. Len(Body[serving])
  BY <1>2
<1>4. position \in 1 .. Len(Body[serving])
  BY <1>3 DEF TypeOK, Handling
<1> QED
  BY <1>1, <1>3, <1>4, BodyTyping DEF Raw, Handling

\* A response that says nothing new is answered.
LEMMA NoNews ==
  ASSUME GatewayInv, NEW r \in Responses, r.status # "ok",
         serving \in Webhooks, Respond(r), UNCHANGED <<processed, sends, runs>>,
         failures' \in 0 .. MaxFailures
  PROVE  GatewayInv'
<1> USE DEF GatewayInv
<1>1. TypeOK'
  BY DEF TypeOK, Respond
<1>2. StoredInv' /\ RunInv'
  BY DEF StoredInv, RunInv
<1>3. ServingInv'
  BY DEF ServingInv, Respond
<1>4. \A w \in Webhooks : Acknowledged(w)' => Acknowledged(w) /\ response'[w] = response[w]
  BY DEF Acknowledged, Respond, TypeOK
<1>5. AcknowledgedIsAnswered'
  BY <1>4 DEF AcknowledgedIsAnswered
<1>6. RepliesAreTheirOwn'
  BY <1>4 DEF RepliesAreTheirOwn
<1> QED
  BY <1>1, <1>2, <1>3, <1>5, <1>6

LEMMA DeliverKeeps ==
  ASSUME GatewayInv, NEW w \in Webhooks, Deliver(w)
  PROVE  GatewayInv'
<1> USE DEF GatewayInv
<1>1. Body[w] \in Seq(RawEvent) /\ Len(Body[w]) \in Nat
  BY GatewayAssumption
<1>2. TypeOK'
  <2>1. sends' \in [Webhooks -> 0 .. MaxSends]
    BY GatewayAssumption DEF TypeOK, Deliver
  <2> QED
    BY <1>1, <2>1, EmptySeq DEF TypeOK, Deliver
<1>3. StoredInv' /\ RunInv'
  BY DEF StoredInv, RunInv, Deliver
<1>4. ServingInv'
  <2>1. Dispatched(w, 0) = {} /\ Count(w, 0) = 0
    BY FS_EmptySet DEF Dispatched, Count
  <2>2. Answers(w, 0, <<>>, 0, processed[Empty])
    BY <2>1, EmptySeq DEF Answers
  <2>3. /\ serving' = w /\ position' - 1 = 0 /\ replies' = <<>> /\ ignored' = 0
        /\ processed' = processed
    BY DEF Deliver
  <2> QED
    BY <2>2, <2>3 DEF ServingInv
<1>5. AcknowledgedIsAnswered' /\ RepliesAreTheirOwn'
  BY DEF AcknowledgedIsAnswered, RepliesAreTheirOwn, Acknowledged, Deliver
<1> QED
  BY <1>2, <1>3, <1>4, <1>5

LEMMA IgnoreKeeps ==
  ASSUME GatewayInv, Ignore
  PROVE  GatewayInv'
<1> USE DEF GatewayInv
<1>1. Handling /\ OutcomeOf(serving, position) # "envelope"
  BY DEF Ignore, Becomes
<1>2. TypeOK'
  BY <1>1, HandlingTyping DEF TypeOK, Ignore
<1>3. StoredInv' /\ RunInv'
  BY DEF StoredInv, RunInv, Ignore
<1>4. ServingInv'
  <2>1. serving \in Webhooks /\ serving # NoWebhook /\ position \in DOMAIN Body[serving]
    BY <1>1, HandlingTyping DEF Handling
  <2>2. position - 1 \in Nat /\ position - 1 + 1 = position
    BY <1>1, HandlingTyping
  <2>3. Answers(serving, position, replies, ignored + 1, processed[Empty])
    BY <1>1, <2>1, <2>2, AnswersMore DEF ServingInv, TypeOK
  <2>4. \A k \in 1 .. position : Answered(serving, k)
    <3>1. Answered(serving, position)
      BY <1>1 DEF Answered
    <3>2. \A k \in 1 .. position : k \in 1 .. position - 1 \/ k = position
      BY <2>2
    <3> QED
      BY <2>1, <3>1, <3>2 DEF ServingInv
  <2>5. position' - 1 = position /\ ignored' = ignored + 1
    BY <2>2 DEF Ignore
  <2> QED
    BY <2>3, <2>4, <2>5 DEF ServingInv, Ignore, Answered
<1>5. AcknowledgedIsAnswered' /\ RepliesAreTheirOwn'
  BY DEF AcknowledgedIsAnswered, RepliesAreTheirOwn, Acknowledged, Ignore
<1> QED
  BY <1>2, <1>3, <1>4, <1>5

LEMMA ChallengeKeeps ==
  ASSUME GatewayInv, AnswerChallenge
  PROVE  GatewayInv'
<1> USE DEF GatewayInv
<1> DEFINE R == [status |-> "ok", challenge |-> TRUE, replies |-> <<>>, ignored |-> 0]
<1>1. Handling /\ OutcomeOf(serving, position) = "challenge"
  BY DEF AnswerChallenge, Becomes
<1>2. R \in Responses
  BY EmptySeq DEF Responses
<1>3. TypeOK'
  BY <1>2 DEF TypeOK, AnswerChallenge, Respond
<1>4. StoredInv' /\ RunInv'
  BY DEF StoredInv, RunInv, AnswerChallenge
<1>5. ServingInv'
  BY DEF ServingInv, AnswerChallenge, Respond
<1>6. \A w \in Webhooks : w # serving =>
        (Acknowledged(w)' <=> Acknowledged(w)) /\ response'[w] = response[w]
  BY DEF Acknowledged, AnswerChallenge, Respond, TypeOK
<1>7. response'[serving] = R
  BY <1>1, HandlingTyping DEF AnswerChallenge, Respond, TypeOK
<1>8. AcknowledgedIsAnswered'
  <2>1. \A k \in DOMAIN Body[serving] :
          \/ Answered(serving, k)
          \/ \E j \in 1 .. k - 1 : OutcomeOf(serving, j) = "challenge"
    <3> SUFFICES ASSUME NEW k \in DOMAIN Body[serving]
                 PROVE  \/ Answered(serving, k)
                        \/ \E j \in 1 .. k - 1 : OutcomeOf(serving, j) = "challenge"
      OBVIOUS
    <3>1. k \in Nat /\ k >= 1
      BY <1>1, HandlingTyping, BodyTyping
    <3>2. CASE k < position
      BY <1>1, <3>1, <3>2, HandlingTyping DEF ServingInv, Handling
    <3>3. CASE k = position
      BY <1>1, <3>3 DEF Answered
    <3>4. CASE k > position
      BY <1>1, <3>1, <3>4, HandlingTyping
    <3> QED
      BY <1>1, <3>1, <3>2, <3>3, <3>4, HandlingTyping
  <2> QED
    BY <1>6, <2>1 DEF AcknowledgedIsAnswered, Answered, AnswerChallenge
<1>9. RepliesAreTheirOwn'
  <2>1. response'[serving].challenge
    BY <1>7
  <2> QED
    BY <1>6, <2>1 DEF RepliesAreTheirOwn, AnswerChallenge
<1> QED
  BY <1>3, <1>4, <1>5, <1>8, <1>9

LEMMA FinishKeeps ==
  ASSUME GatewayInv, Finish
  PROVE  GatewayInv'
<1> USE DEF GatewayInv
<1> DEFINE R == [status |-> "ok", challenge |-> FALSE, replies |-> replies, ignored |-> ignored]
<1>1. serving \in Webhooks /\ serving # NoWebhook
  BY DEF Finish, TypeOK
<1>2. Body[serving] \in Seq(RawEvent) /\ Len(Body[serving]) \in Nat
      /\ DOMAIN Body[serving] = 1 .. Len(Body[serving])
  BY <1>1, GatewayAssumption
<1>3. position - 1 = Len(Body[serving])
  <2>1. position \in 1 .. Len(Body[serving]) + 1
    BY <1>1 DEF TypeOK
  <2>2. ~(position <= Len(Body[serving]))
    BY DEF Finish, Handling
  <2> QED
    BY <1>2, <2>1, <2>2
<1>4. R \in Responses
  BY DEF Responses, TypeOK
<1>5. TypeOK'
  BY <1>4 DEF TypeOK, Finish, Respond
<1>6. StoredInv' /\ RunInv'
  BY DEF StoredInv, RunInv, Finish
<1>7. ServingInv'
  BY DEF ServingInv, Finish, Respond
<1>8. \A w \in Webhooks : w # serving =>
        (Acknowledged(w)' <=> Acknowledged(w)) /\ response'[w] = response[w]
  BY DEF Acknowledged, Finish, Respond, TypeOK
<1>9. response'[serving] = R
  BY <1>1 DEF Finish, Respond, TypeOK
<1>10. AcknowledgedIsAnswered'
  <2>1. \A k \in DOMAIN Body[serving] : Answered(serving, k)
    BY <1>1, <1>2, <1>3 DEF ServingInv
  <2> QED
    BY <1>8, <2>1 DEF AcknowledgedIsAnswered, Answered, Finish
<1>11. RepliesAreTheirOwn'
  <2>1. Answers(serving, Len(Body[serving]), replies, ignored, processed[Empty])
    BY <1>1, <1>3 DEF ServingInv
  <2>2. response'[serving].replies = replies /\ response'[serving].ignored = ignored
    BY <1>9
  <2> QED
    BY <1>8, <2>1, <2>2 DEF RepliesAreTheirOwn, Answers, Count, Finish
<1> QED
  BY <1>5, <1>6, <1>7, <1>10, <1>11

\* The stored reply is replayed.
LEMMA ReplayKeeps ==
  ASSUME GatewayInv, Dispatch, StoredReply(RawKey) # NotProcessed
  PROVE  GatewayInv'
<1> USE DEF GatewayInv
<1> DEFINE Stored == processed[RawKey]
<1>1. Handling /\ OutcomeOf(serving, position) = "envelope"
  BY DEF Dispatch, Becomes
<1>2. RawKey # Fresh /\ StoredReply(RawKey) = Stored
  BY DEF StoredReply
<1>3. serving \in Webhooks /\ serving # NoWebhook /\ position \in DOMAIN Body[serving]
  BY <1>1, HandlingTyping DEF Handling
<1>4. position - 1 \in Nat /\ position - 1 + 1 = position
  BY <1>1, HandlingTyping
<1>5. RawKey \in Keys
  BY <1>2, <1>3, KeyTyping DEF RawKey
<1>6. Stored \in Items
  BY <1>2, <1>5 DEF TypeOK
<1>7. replies' = Append(replies, Stored) /\ UNCHANGED <<processed, runs>>
  BY <1>2 DEF Dispatch
<1>8. TypeOK'
  <2>1. replies' \in Seq(Items)
    BY <1>6, <1>7, AppendProperties DEF TypeOK
  <2>2. position' \in 1 .. Len(Body[serving]) + 1
    BY <1>1, HandlingTyping DEF Dispatch
  <2> QED
    BY <1>7, <2>1, <2>2 DEF TypeOK, Dispatch
<1>9. StoredInv' /\ RunInv'
  BY <1>7 DEF StoredInv, RunInv
<1>10. \/ Stored = Raw.item /\ runs[Raw.item] > 0
       \/ Nameless(serving, position) /\ RawKey = Empty /\ Stored = processed[Empty]
  <2>1. CASE Raw.id # NoId
    <3>1. RawKey = [id |-> Raw.id]
      BY <1>3, <2>1, KeyTyping DEF Raw, RawKey
    <3> QED
      BY <1>2, <1>3, <2>1, <3>1 DEF StoredInv, Raw
  <2>2. CASE Raw.id = NoId
    BY <1>2, <1>3, <2>2, KeyTyping DEF Raw, RawKey
  <2> QED
    BY <2>1, <2>2
<1>11. ServingInv'
  <2>1. Answers(serving, position, Append(replies, Stored), ignored, processed[Empty])
    <3>1. Answers(serving, position - 1, replies, ignored, processed[Empty])
      BY <1>3 DEF ServingInv
    <3>2. \/ Stored = Body[serving][position].item
          \/ Nameless(serving, position) /\ Stored = processed[Empty]
      BY <1>10 DEF Raw
    <3>3. replies \in Seq(Items) /\ ignored \in Nat
      BY DEF TypeOK
    <3> QED
      BY <1>1, <1>3, <1>4, <1>6, <3>1, <3>2, <3>3, AnswersMore
  <2>2. \A k \in 1 .. position : Answered(serving, k)
    <3>1. Answered(serving, position)
      BY <1>2, <1>10 DEF Answered, Raw
    <3>2. \A k \in 1 .. position : k \in 1 .. position - 1 \/ k = position
      BY <1>4
    <3> QED
      BY <1>3, <3>1, <3>2 DEF ServingInv
  <2>3. position' - 1 = position /\ UNCHANGED <<serving, ignored>>
    BY <1>4 DEF Dispatch
  <2> QED
    BY <1>7, <2>1, <2>2, <2>3 DEF ServingInv, Answered
<1>12. AcknowledgedIsAnswered' /\ RepliesAreTheirOwn'
  BY <1>7 DEF AcknowledgedIsAnswered, RepliesAreTheirOwn, Acknowledged, Dispatch
<1> QED
  BY <1>8, <1>9, <1>11, <1>12

\* The agent runs and its reply is stored.
LEMMA RunKeeps ==
  ASSUME GatewayInv, Dispatch, StoredReply(RawKey) = NotProcessed
  PROVE  GatewayInv'
<1> USE DEF GatewayInv
<1>1. Handling /\ OutcomeOf(serving, position) = "envelope"
  BY DEF Dispatch, Becomes
<1>2. /\ serving \in Webhooks /\ serving # NoWebhook /\ position \in DOMAIN Body[serving]
      /\ Raw = Body[serving][position] /\ Raw.item \in Items
  BY <1>1, HandlingTyping DEF Handling, Raw
<1>3. position - 1 \in Nat /\ position - 1 + 1 = position
  BY <1>1, HandlingTyping
<1>4. /\ runs' = [runs EXCEPT ![Raw.item] = @ + 1]
      /\ processed' = IF RawKey = Fresh THEN processed
                      ELSE [processed EXCEPT ![RawKey] = Raw.item]
      /\ replies' = Append(replies, Raw.item)
  BY DEF Dispatch
<1>5. RawKey \in Keys \cup {Fresh}
  BY <1>2, KeyTyping DEF RawKey
<1>6. NotProcessed \notin Items
  BY GatewayAssumption
<1>7. /\ \A key \in Keys : processed[key] # NotProcessed => processed'[key] # NotProcessed
      /\ \A i \in Items : runs'[i] >= runs[i]
      /\ runs'[Raw.item] = runs[Raw.item] + 1 /\ runs'[Raw.item] > 0
  BY <1>2, <1>4, <1>5, <1>6 DEF TypeOK
<1>8. TypeOK'
  <2>1. replies' \in Seq(Items)
    BY <1>2, <1>4, AppendProperties DEF TypeOK
  <2>2. position' \in 1 .. Len(Body[serving]) + 1
    BY <1>1, HandlingTyping DEF Dispatch
  <2>3. processed' \in [Keys -> Items \cup {NotProcessed}]
    BY <1>2, <1>4, <1>5 DEF TypeOK
  <2>4. runs' \in [Items -> Nat]
    BY <1>2, <1>4 DEF TypeOK
  <2> QED
    BY <2>1, <2>2, <2>3, <2>4 DEF TypeOK, Dispatch
<1>9. \A e \in Ids : Raw.id = e /\ e # NoId =>
        RawKey = [id |-> e] /\ processed'[[id |-> e]] = Raw.item
               /\ processed[[id |-> e]] = NotProcessed
  <2> SUFFICES ASSUME NEW e \in Ids, Raw.id = e, e # NoId
               PROVE  RawKey = [id |-> e] /\ processed'[[id |-> e]] = Raw.item
                      /\ processed[[id |-> e]] = NotProcessed
    OBVIOUS
  <2>1. RawKey = [id |-> e] /\ RawKey # Fresh /\ RawKey \in Keys
    BY <1>2, KeyTyping, KeysDiffer DEF RawKey
  <2> QED
    BY <1>4, <2>1 DEF StoredReply, TypeOK
<1>10. \A e \in Ids : Raw.id # e => processed'[[id |-> e]] = processed[[id |-> e]]
  <2> SUFFICES ASSUME NEW e \in Ids, Raw.id # e
               PROVE  processed'[[id |-> e]] = processed[[id |-> e]]
    OBVIOUS
  <2>1. RawKey # [id |-> e]
    BY <1>2, KeyTyping, KeysDiffer DEF RawKey
  <2>2. [id |-> e] \in Keys
    BY KeysDiffer
  <2> QED
    BY <1>4, <2>1, <2>2 DEF TypeOK
<1>11. StoredInv'
  <2> SUFFICES ASSUME NEW w \in Webhooks, NEW k \in DOMAIN Body[w], NEW e,
                      e = Body[w][k].id, e # NoId,
                      processed'[[id |-> e]] # NotProcessed
               PROVE  processed'[[id |-> e]] = Body[w][k].item /\ runs'[Body[w][k].item] > 0
    BY DEF StoredInv
  <2>1. e \in Ids /\ Body[w][k].item \in Items
    BY BodyTyping
  <2>2. CASE Raw.id = e
    <3>1. Body[w][k].item = Raw.item
      BY <1>2, <2>2, GatewayAssumption
    <3> QED
      BY <1>7, <1>9, <2>1, <2>2, <3>1
  <2>3. CASE Raw.id # e
    <3>1. processed'[[id |-> e]] = processed[[id |-> e]]
      BY <1>10, <2>1, <2>3
    <3>2. processed[[id |-> e]] = Body[w][k].item /\ runs[Body[w][k].item] > 0
      BY <3>1 DEF StoredInv
    <3>3. runs[Body[w][k].item] \in Nat /\ runs'[Body[w][k].item] \in Nat
      BY <1>8, <2>1 DEF TypeOK
    <3> QED
      BY <1>7, <2>1, <3>1, <3>2, <3>3
  <2> QED
    BY <2>2, <2>3
<1>12. RunInv'
  <2> SUFFICES ASSUME NEW i \in Items, NEW e \in Ids, NamedBy(i, e)
               PROVE  runs'[i] = 0 \/ (runs'[i] = 1 /\ processed'[[id |-> e]] # NotProcessed)
    BY DEF RunInv, NamedBy
  <2>1. runs[i] = 0 \/ (runs[i] = 1 /\ processed[[id |-> e]] # NotProcessed)
    BY DEF RunInv
  <2>2. [id |-> e] \in Keys /\ e # NoId
    BY KeysDiffer, InputAssumption
  <2>3. CASE i = Raw.item
    <3>1. Raw.id = e
      BY <1>2, <2>3 DEF NamedBy
    <3> QED
      BY <1>2, <1>6, <1>7, <1>9, <2>1, <2>2, <2>3, <3>1
  <2>4. CASE i # Raw.item
    <3>1. runs'[i] = runs[i]
      BY <1>2, <1>4, <2>4 DEF TypeOK
    <3> QED
      BY <1>7, <2>1, <2>2, <3>1
  <2> QED
    BY <2>3, <2>4
<1>13. \A w \in Webhooks : \A k \in DOMAIN Body[w] :
         Answered(w, k) => Answered(w, k)'
  <2> SUFFICES ASSUME NEW w \in Webhooks, NEW k \in DOMAIN Body[w], Answered(w, k)
               PROVE  Answered(w, k)'
    OBVIOUS
  <2>1. runs[Body[w][k].item] \in Nat /\ runs'[Body[w][k].item] \in Nat
        /\ runs'[Body[w][k].item] >= runs[Body[w][k].item]
    BY <1>7, <1>8, BodyTyping DEF TypeOK
  <2>2. processed[Empty] # NotProcessed => processed'[Empty] # NotProcessed
    BY <1>7, KeysDiffer
  <2> QED
    BY <2>1, <2>2 DEF Answered
<1>14. processed[Empty] # NotProcessed => processed'[Empty] = processed[Empty]
  <2>1. Empty # Fresh /\ Empty \in Keys
    BY KeysDiffer
  <2>2. RawKey = Empty => processed[Empty] = NotProcessed
    BY <2>1 DEF StoredReply
  <2>3. RawKey # Empty => processed'[Empty] = processed[Empty]
    BY <1>4, <2>1 DEF TypeOK
  <2> QED
    BY <2>2, <2>3
<1>15. ServingInv'
  <2>1. Answers(serving, position, replies', ignored, processed'[Empty])
    <3>1. Answers(serving, position - 1, replies, ignored, processed[Empty])
      BY <1>2 DEF ServingInv
    <3>2. replies \in Seq(Items) /\ ignored \in Nat
      BY DEF TypeOK
    <3>3. Answers(serving, position - 1, replies, ignored, processed'[Empty])
      BY <1>2, <1>3, <1>14, <3>1, <3>2, AnswersStay
    <3> QED
      BY <1>1, <1>2, <1>3, <1>4, <3>2, <3>3, AnswersMore
  <2>2. \A w \in Webhooks : w = serving => \A k \in 1 .. position : Answered(w, k)'
    <3>1. \A w, k : w = serving /\ k = position => Answered(w, k)'
      BY <1>2, <1>7 DEF Answered
    <3>2. \A k \in 1 .. position - 1 : k \in DOMAIN Body[serving] /\ Answered(serving, k)
      BY <1>1, <1>2, HandlingTyping, BodyTyping DEF ServingInv
    <3>3. \A k \in 1 .. position : k \in 1 .. position - 1 \/ k = position
      BY <1>3
    <3> QED
      BY <1>2, <1>13, <3>1, <3>2, <3>3
  <2>3. position' - 1 = position /\ UNCHANGED <<serving, ignored>>
    BY <1>3 DEF Dispatch
  <2> QED
    BY <1>2, <2>1, <2>2, <2>3 DEF ServingInv, Answered
<1>16. AcknowledgedIsAnswered'
  <2>1. Read(Raw.item)
    BY <1>1, <1>2 DEF Read
  <2>2. \A i \in Items : i # Raw.item => runs'[i] = runs[i]
    BY <1>2, <1>4 DEF TypeOK
  <2>3. \A i \in Items : runs[i] > 0 => Read(i)
    BY DEF AcknowledgedIsAnswered
  <2>4. \A i \in Items : runs'[i] > 0 => Read(i)
    BY <2>1, <2>2, <2>3
  <2>5. \A i : Read(i)' <=> Read(i)
    BY DEF Read
  <2> QED
    BY <1>13, <2>4, <2>5 DEF AcknowledgedIsAnswered, Answered, Acknowledged, Dispatch
<1>17. RepliesAreTheirOwn'
  <2>1. ASSUME NEW w \in Webhooks, Acknowledged(w), ~response[w].challenge
        PROVE  Answers(w, Len(Body[w]), response[w].replies, response[w].ignored,
                       processed'[Empty])
    <3>1. Answers(w, Len(Body[w]), response[w].replies, response[w].ignored, processed[Empty])
      BY <2>1 DEF RepliesAreTheirOwn, Answers, Count
    <3>2. response[w].replies \in Seq(Items)
      <4>1. response[w] \in Responses
        BY DEF TypeOK
      <4> QED
        BY <2>1, <4>1 DEF Acknowledged, Responses, NoResponse
    <3>3. Len(Body[w]) \in Nat
      BY GatewayAssumption
    <3> QED
      BY <1>14, <3>1, <3>2, <3>3, AnswersStay
  <2>2. response' = response
    BY DEF Dispatch
  <2> QED
    BY <2>1, <2>2 DEF RepliesAreTheirOwn, Acknowledged, Answers, Count
<1> QED
  BY <1>8, <1>11, <1>12, <1>15, <1>16, <1>17
-----------------------------------------------------------------------------
LEMMA GatewayStep ==
  ASSUME GatewayInv, [Next]_vars
  PROVE  GatewayInv'
<1>1. CASE UNCHANGED vars
  BY <1>1 DEF vars, GatewayInv, TypeOK, StoredInv, RunInv, ServingInv, Answered,
     AcknowledgedIsAnswered, RepliesAreTheirOwn, Acknowledged
<1>2. ASSUME NEW w \in Webhooks, Deliver(w)
      PROVE  GatewayInv'
  BY <1>2, DeliverKeeps
<1>3. CASE AnswerChallenge
  BY <1>3, ChallengeKeeps
<1>4. CASE Reject
  <2>1. [status |-> "rejected"] \in Responses
    BY DEF Responses
  <2> QED
    BY <1>4, <2>1, HandlingTyping, NoNews DEF Reject, Becomes, GatewayInv, TypeOK
<1>5. CASE Ignore
  BY <1>5, IgnoreKeeps
<1>6. CASE Dispatch
  BY <1>6, ReplayKeeps, RunKeeps
<1>7. failures < MaxFailures /\ failures' = failures + 1 /\ GatewayInv => failures' \in 0 .. MaxFailures
  BY GatewayAssumption DEF GatewayInv, TypeOK
<1>8. CASE RunFails
  <2>1. [status |-> "failed"] \in Responses
    BY DEF Responses
  <2>2. serving \in Webhooks
    BY <1>8, HandlingTyping DEF RunFails, Becomes, GatewayInv
  <2> QED
    BY <1>7, <1>8, <2>1, <2>2, NoNews DEF RunFails
<1>9. CASE Finish
  BY <1>9, FinishKeeps
<1>10. CASE GiveUp
  <2>1. NoResponse \in Responses /\ NoResponse.status # "ok"
    BY DEF Responses, NoResponse
  <2>2. serving \in Webhooks
    BY <1>10 DEF GiveUp, GatewayInv, TypeOK
  <2> QED
    BY <1>7, <1>10, <2>1, <2>2, NoNews DEF GiveUp
<1> QED
  BY <1>1, <1>2, <1>3, <1>4, <1>5, <1>6, <1>8, <1>9, <1>10 DEF Next, Handle, Quiet

LEMMA GatewayInvHolds == Spec => []GatewayInv
<1>1. Init => GatewayInv
  BY Initially
<1>2. GatewayInv /\ [Next]_vars => GatewayInv'
  BY GatewayStep
<1> QED
  BY <1>1, <1>2, PTL DEF Spec

\* The state of the server stays well formed: a request is served at a position of its
\* body or one behind it, whatever was interrupted before.
THEOREM GatewayTypeOK == Spec => []TypeOK
<1>1. GatewayInv => TypeOK
  BY DEF GatewayInv
<1> QED
  BY <1>1, GatewayInvHolds, PTL

\* However often a message with an id is delivered, in whatever bodies and by whichever
\* route, and whatever failed or broke off before: the agent runs it to completion once.
THEOREM GatewayRunsOnce == Spec => []OneRunPerMessage
<1>1. GatewayInv => OneRunPerMessage
  <2> SUFFICES ASSUME GatewayInv, NEW i \in Items, Named(i)
               PROVE  runs[i] <= 1
    BY Zenon DEF OneRunPerMessage
  <2>1. PICK e \in Ids : NamedBy(i, e)
    BY DEF Named, NamedBy
  <2>2. runs[i] = 0 \/ runs[i] = 1
    BY <2>1 DEF GatewayInv, RunInv
  <2> QED
    BY <2>2
<1> QED
  BY <1>1, GatewayInvHolds, PTL

\* Every message read in an acknowledged webhook was answered, but for those behind a
\* challenge of its body, and no other message was.
THEOREM GatewayAnswers == Spec => []AcknowledgedIsAnswered
<1>1. GatewayInv => AcknowledgedIsAnswered
  BY DEF GatewayInv
<1> QED
  BY <1>1, GatewayInvHolds, PTL

\* A 200 carries one reply for each message of its body, in the order of the body, each
\* made by a run of that very message; the nameless messages share the one stored first.
THEOREM GatewayReplies == Spec => []RepliesAreTheirOwn
<1>1. GatewayInv => RepliesAreTheirOwn
  BY DEF GatewayInv
<1> QED
  BY <1>1, GatewayInvHolds, PTL
=============================================================================
