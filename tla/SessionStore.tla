---------------------------- MODULE SessionStore ----------------------------
(***************************************************************************)
(* The data of src/src/teambot/domain/store/memory_store.py (the tables    *)
(* conversations, conversation_turns, processed_events and                 *)
(* conversation_state) and the two pure policies that act on it: the       *)
(* history limit of append_turns and the recent window of                  *)
(* memory/policy.py.  No variables: SessionService holds a database of     *)
(* this shape and one SQLite connection per worker process.                *)
(*                                                                         *)
(* A reply is named by the request whose agent run computed it, and the    *)
(* two turns of an exchange carry that name, so that two runs for the same *)
(* event are told apart.  A rolling summary is the set of turns that were  *)
(* folded into it.                                                         *)
(***************************************************************************)
EXTENDS Naturals, FiniteSets, FiniteSetsExt

CONSTANTS
  Requests,       \* calls of process_event or stream_event
  Events,         \* event ids
  Conversations,  \* conversation keys
  EventOf,        \* EventOf[r]: the event a request carries; a retry carries the same
  ConvOf,         \* ConvOf[e]: the conversation an event belongs to
  TurnChars,      \* TurnChars[r]: the rendered size of each turn of r's exchange
  HistoryLimit,   \* MemoryStore._history_limit
  RecentBudget,   \* CharBudgetMemoryPolicy.recent_turn_char_budget
  MinRecent,      \* CharBudgetMemoryPolicy.min_recent_turns
  NoReply         \* get_processed_event found no row

ASSUME RequestAssumption ==
  /\ EventOf \in [Requests -> Events]
  /\ ConvOf \in [Events -> Conversations]
  /\ TurnChars \in [Requests -> Nat]
  /\ NoReply \notin Requests

\* The store keeps at least one whole exchange, and the window at least one turn.
ASSUME PolicyAssumption ==
  /\ HistoryLimit \in Nat \ {0, 1}
  /\ RecentBudget \in Nat
  /\ MinRecent \in Nat \ {0}
-----------------------------------------------------------------------------
Turn == [seq : Nat \ {0}, role : {"user", "assistant"}, req : Requests]

Summary == [covers : SUBSET Turn, upto : Nat]

Database ==
  [known     : SUBSET Conversations,
   turns     : [Conversations -> SUBSET Turn],
   processed : [Events -> Requests \cup {NoReply}],
   summary   : [Conversations -> Summary]]

NoSummary == [covers |-> {}, upto |-> 0]

EmptyDatabase ==
  [known     |-> {},
   turns     |-> [c \in Conversations |-> {}],
   processed |-> [e \in Events |-> NoReply],
   summary   |-> [c \in Conversations |-> NoSummary]]

ConversationOf(r) == ConvOf[EventOf[r]]
-----------------------------------------------------------------------------
(* Sequence numbers and the history limit *)

Newer(T, t) == {u \in T : u.seq > t.seq}

MaxSeq(T) == IF T = {} THEN 0 ELSE Max({t.seq : t \in T})

UserTurn(n, r) == [seq |-> n, role |-> "user", req |-> r]

AssistantTurn(n, r) == [seq |-> n, role |-> "assistant", req |-> r]

\* Faulty: one turn too many survives.
TrimOneMore(T) == {t \in T : Cardinality(Newer(T, t)) <= HistoryLimit}

\* DELETE ... WHERE id NOT IN (SELECT id ... ORDER BY seq DESC LIMIT ?)
Trim(T) == {t \in T : Cardinality(Newer(T, t)) < HistoryLimit}

\* Faulty: the index on (conversation_key, seq) is not unique.
NeverOccupied(T, n) == FALSE

\* The unique index on (conversation_key, seq).
Occupied(T, n) == \E t \in T : t.seq = n
-----------------------------------------------------------------------------
(* CharBudgetMemoryPolicy *)

\* Faulty: skips the first turn behind the boundary.
AfterNextBoundary(T, upto) == {t \in T : t.seq > upto + 1}

AfterBoundary(T, upto) == {t \in T : t.seq > upto}

Chars(T) == MapThenSumSet(LAMBDA t : TurnChars[t.req], T)

\* The loop of _recent_window goes on past turn t: fewer than MinRecent turns
\* are selected already, or t still fits the budget.
Selects(T, t) ==
  \/ Cardinality(Newer(T, t)) < MinRecent
  \/ Chars(Newer(T, t) \cup {t}) <= RecentBudget

\* The loop stops at the first turn it does not select.
RecentWindow(T) == {t \in T : \A u \in Newer(T, t) \cup {t} : Selects(T, u)}

Compactable(T, upto) == LET uncompacted == AfterBoundary(T, upto)
                        IN  uncompacted \ RecentWindow(uncompacted)

\* What load_context hands to the model: the summary and the recent turns.
ContextOf(T, summary) ==
  summary.covers \cup RecentWindow(AfterBoundary(T, summary.upto))

\* Faulty: the new summary is made of the compacted turns alone.
FoldWithoutPrior(prior, batch) == [covers |-> batch, upto |-> MaxSeq(batch)]

\* maybe_compact: the prior summary rewritten with the compacted turns.
Fold(prior, batch) == [covers |-> prior.covers \cup batch, upto |-> MaxSeq(batch)]
=============================================================================
