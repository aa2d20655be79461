------------------------ MODULE SessionServiceProofs ------------------------
(***************************************************************************)
(* Theorems of SessionService for every number of workers, requests, events*)
(* and conversations, every history limit and budget and every set of      *)
(* faults.                                                                 *)
(*                                                                         *)
(*   - the tables: numbers have an upper bound, so MAX(seq) is a number;   *)
(*   - the type invariant, with those bounds: TypeCorrect;                 *)
(*   - the replies, by what a connection's view holds: AnswersAreDurable,  *)
(*     ProcessedStays;                                                     *)
(*   - the history, as windows of one log of whole exchanges:              *)
(*     NumbersAreNotReused, ExchangesAreWhole;                             *)
(*   - summary and boundary belong to one another: SummariesMatch.         *)
(*                                                                         *)
(* The second half is about one process on its database: what the event    *)
(* loop guarantees although no store method rolls back and no statement is *)
(* protected against another process.  A request between two awaits that   *)
(* suspend is alone: whoever is past its check and not in its run holds    *)
(* the loop, so what it has read of the database is still there when it    *)
(* writes.                                                                 *)
(*                                                                         *)
(*   - FailuresAreCaused, from that;                                       *)
(*   - the recent window fills before a turn is trimmed, and what it leaves*)
(*     is compacted first: NothingIsForgotten, ContextIsComplete;          *)
(*   - one exchange for an event: EventsAreRecordedOnce;                   *)
(*   - the reply ledger, step by step: ImplementsLedger.                   *)
(***************************************************************************)
EXTENDS SessionService, FiniteSetTheorems, WellFoundedInduction, TLAPS

\* Some number bounds those of the turns in T.
Bounded(T) == \E n \in Nat : \A t \in T : t.seq <= n

\* A non-empty set of naturals has a least element.
LEMMA LeastNatural ==
  ASSUME NEW S \in SUBSET Nat, S # {}
  PROVE  \E m \in S : \A n \in S : m <= n
<1> DEFINE R == {p \in Nat \X Nat : p[1] < p[2]}
<1>1. IsWellFoundedOn(R, Nat)
  BY NatLessThanWellFounded DEF OpToRel
<1> HIDE DEF R
<1>2. PICK m \in S : \A n \in S : <<n, m>> \notin R
  BY <1>1, WFMin
<1>3. \A n \in S : ~(n < m)
  BY <1>2 DEF R
<1> QED
  BY <1>3

\* A bounded, non-empty table has a turn with the greatest number.
LEMMA GreatestTurn ==
  ASSUME NEW T \in SUBSET Turn, Bounded(T), T # {}
  PROVE  \E t \in T : \A u \in T : u.seq <= t.seq
<1> DEFINE S == {n \in Nat : \A t \in T : t.seq <= n}
<1>1. PICK m \in S : \A n \in S : m <= n
  <2>1. S # {}
    BY DEF Bounded
  <2> QED
    BY <2>1, LeastNatural
<1>2. \A t \in T : t.seq \in Nat /\ t.seq > 0
  BY DEF Turn
<1>3. PICK t \in T : TRUE
  OBVIOUS
<1>4. m > 0
  BY <1>1, <1>2, <1>3
<1>5. ASSUME \A u \in T : u.seq # m
      PROVE  FALSE
  <2>1. \A u \in T : u.seq <= m - 1
    BY <1>1, <1>2, <1>5
  <2>2. m - 1 \in S
    BY <1>4, <2>1
  <2> QED
    BY <1>1, <2>2
<1>6. PICK u \in T : u.seq = m
  BY <1>5
<1> QED
  BY <1>1, <1>6

\* MAX(seq) is a number, no turn of the table is above it, and it is attained.
LEMMA MaxSeqFacts ==
  ASSUME NEW T \in SUBSET Turn, Bounded(T)
  PROVE  /\ MaxSeq(T) \in Nat
         /\ \A t \in T : t.seq <= MaxSeq(T)
         /\ T # {} => \E t \in T : t.seq = MaxSeq(T)
<1>1. CASE T = {}
  BY <1>1 DEF MaxSeq
<1>2. CASE T # {}
  <2> DEFINE S == {t.seq : t \in T}
  <2>1. PICK g \in T : \A u \in T : u.seq <= g.seq
    BY <1>2, GreatestTurn
  <2>2. \A t \in T : t.seq \in Nat
    BY DEF Turn
  <2>3. \E x \in S : \A y \in S : x >= y
    <3>1. g.seq \in S /\ \A y \in S : g.seq >= y
      BY <2>1, <2>2
    <3> QED
      BY <3>1
  <2>4. MaxSeq(T) \in S /\ \A y \in S : MaxSeq(T) >= y
    BY <1>2, <2>3 DEF MaxSeq, Max
  <2> QED
    BY <2>2, <2>4
<1> QED
  BY <1>1, <1>2

\* The two turns of an exchange are turns, numbered next to each other.
LEMMA ExchangeTurns ==
  ASSUME NEW n \in Nat, NEW r \in Requests
  PROVE  UserTurn(n + 1, r) \in Turn /\ AssistantTurn(n + 2, r) \in Turn
BY DEF UserTurn, AssistantTurn, Turn

\* A part of a table with one exchange added is a bounded set of turns.
LEMMA ExtendedTable ==
  ASSUME NEW T \in SUBSET Turn, Bounded(T), NEW n \in Nat, NEW r \in Requests,
         NEW S \in SUBSET (T \cup {UserTurn(n + 1, r), AssistantTurn(n + 1 + 1, r)})
  PROVE  S \in SUBSET Turn /\ Bounded(S)
<1>1. PICK b \in Nat : \A t \in T : t.seq <= b
  BY DEF Bounded
<1>2. b + n + 2 \in Nat
  OBVIOUS
<1>3. \A t \in S : t.seq <= b + n + 2
  BY <1>1 DEF UserTurn, AssistantTurn, Turn
<1>4. S \in SUBSET Turn
  BY ExchangeTurns DEF UserTurn, AssistantTurn, Turn
<1> QED
  BY <1>2, <1>3, <1>4 DEF Bounded

\* The history limit only removes turns.
LEMMA TrimRemoves == ASSUME NEW T PROVE Trim(T) \in SUBSET T
BY DEF Trim

\* A part of a bounded table is bounded.
LEMMA BoundedSubset ==
  ASSUME NEW T, NEW S \in SUBSET T, Bounded(T)
  PROVE  Bounded(S)
BY DEF Bounded
-----------------------------------------------------------------------------
(***************************************************************************)
(* The type invariant, with a bound on the numbers of every table.         *)
(***************************************************************************)

\* Tables and locals of the right types, with such a bound on each.
GoodDatabase(d) == d \in Database /\ \A c \in Conversations : Bounded(d.turns[c])

GoodLocals(l) == l \in Locals /\ Bounded(l.turns) /\ Bounded(l.batch)

\* The type invariant, with a bound on the numbers of every table that is read by
\* MAX(seq), and with a worker for every request that has started.
TypeInv ==
  /\ TypeOK
  /\ \A r \in Requests : pc[r] # "queued" => host[r] \in Workers
  /\ GoodDatabase(db)
  /\ \A w \in Workers : GoodDatabase(conn[w].view)
  /\ \A r \in Requests : GoodLocals(mem[r])
-----------------------------------------------------------------------------
LEMMA EmptyIsGood == GoodDatabase(EmptyDatabase) /\ GoodLocals(NoLocals)
<1>1. Bounded({})
  BY DEF Bounded
<1>2. NoSummary \in Summary
  BY DEF NoSummary, Summary
<1>3. EmptyDatabase \in Database
  BY <1>2 DEF EmptyDatabase, Database
<1>4. NoLocals \in Locals
  BY <1>2 DEF NoLocals, Locals
<1> QED
  BY <1>1, <1>3, <1>4 DEF GoodDatabase, GoodLocals, EmptyDatabase, NoLocals

LEMMA AutoCommitTyped == AutoCommit \in Connection /\ GoodDatabase(AutoCommit.view)
BY EmptyIsGood DEF AutoCommit, Connection, GoodDatabase

\* What a connection reads is a well-formed database.
LEMMA ViewGood ==
  ASSUME TypeInv, NEW w \in Workers
  PROVE  GoodDatabase(View(w))
BY DEF TypeInv, View

\* A connection stays well formed when it reads, is refused or is stranded.
LEMMA ConnectionSteps ==
  ASSUME TypeInv, NEW w \in Workers
  PROVE  /\ AfterRead(w) \in Connection /\ GoodDatabase(AfterRead(w).view)
         /\ AfterRefusal(w) \in Connection /\ GoodDatabase(AfterRefusal(w).view)
         /\ \A d : GoodDatabase(d) =>
              Stranded(d) \in Connection /\ GoodDatabase(Stranded(d).view)
<1>1. conn[w] \in Connection /\ GoodDatabase(conn[w].view) /\ GoodDatabase(db)
  BY DEF TypeInv, TypeOK
<1>2. AfterRead(w) \in Connection /\ GoodDatabase(AfterRead(w).view)
  BY <1>1 DEF AfterRead, Connection, GoodDatabase
<1>3. AfterRefusal(w) \in Connection /\ GoodDatabase(AfterRefusal(w).view)
  BY <1>1 DEF AfterRefusal, Connection
<1>4. ASSUME NEW d, GoodDatabase(d)
      PROVE  Stranded(d) \in Connection /\ GoodDatabase(Stranded(d).view)
  BY <1>4 DEF Stranded, Connection, GoodDatabase
<1> QED
  BY <1>2, <1>3, <1>4

\* A coroutine that runs has a worker.
LEMMA RunningHost ==
  ASSUME TypeInv, NEW r \in Requests, NEW step, step # "queued", pc[r] = step
  PROVE  host[r] \in Workers
BY DEF TypeInv

\* Every read step keeps the invariant.
LEMMA SelectTyped ==
  ASSUME TypeInv, NEW r \in Requests, NEW from, NEW to \in Steps \ {"queued"}, NEW l,
         from # "queued", GoodLocals(l), Select(r, from, to, l)
  PROVE  TypeInv'
<1>1. host[r] \in Workers
  BY RunningHost DEF Select, Runs
<1>2. conn' \in [Workers -> Connection] /\ \A w \in Workers : GoodDatabase(conn'[w].view)
  BY <1>1, ConnectionSteps DEF Select, TypeInv, TypeOK
<1>3. mem' \in [Requests -> Locals] /\ \A q \in Requests : GoodLocals(mem'[q])
  BY DEF Select, TypeInv, TypeOK, GoodLocals
<1>4. pc' \in [Requests -> Steps] /\ \A q \in Requests : pc'[q] # "queued" => host'[q] \in Workers
  BY <1>1 DEF Select, Goto, TypeInv, TypeOK
<1> QED
  BY <1>2, <1>3, <1>4 DEF Select, Goto, TypeInv, TypeOK, GoodDatabase

\* Every committed write keeps the invariant.
LEMMA WriteTyped ==
  ASSUME TypeInv, NEW r \in Requests, NEW from, NEW to \in Steps \ {"queued"}, NEW l, NEW new,
         from # "queued", GoodLocals(l), GoodDatabase(new), Write(r, from, to, new, l)
  PROVE  TypeInv'
<1>1. host[r] \in Workers
  BY RunningHost DEF Write, Runs
<1>2. conn' \in [Workers -> Connection] /\ \A w \in Workers : GoodDatabase(conn'[w].view)
  <2>1. conn \in [Workers -> Connection] /\ \A w \in Workers : GoodDatabase(conn[w].view)
    BY DEF TypeInv, TypeOK
  <2>2. \A w \in Workers : [conn[w] EXCEPT !.stale = TRUE] \in Connection
                            /\ [conn[w] EXCEPT !.stale = TRUE].view = conn[w].view
    BY <2>1 DEF Connection
  <2> QED
    BY <2>1, <2>2, AutoCommitTyped DEF Write, Commit
<1>3. mem' \in [Requests -> Locals] /\ \A q \in Requests : GoodLocals(mem'[q])
  BY DEF Write, TypeInv, TypeOK, GoodLocals
<1>4. pc' \in [Requests -> Steps] /\ \A q \in Requests : pc'[q] # "queued" => host'[q] \in Workers
  BY <1>1 DEF Write, Goto, TypeInv, TypeOK
<1>5. recorded' \in SUBSET Turn
  BY DEF Write, Commit, TypeInv, TypeOK, GoodDatabase, Database
<1> QED
  BY <1>2, <1>3, <1>4, <1>5 DEF Write, Commit, Goto, TypeInv, TypeOK, GoodDatabase

\* A request that ends, with a reply or an exception, keeps the invariant when the
\* database does not change and the connection stays well formed.
LEMMA FinishTyped ==
  ASSUME TypeInv, NEW r \in Requests, NEW step \in Finished,
         NEW reply \in Requests \cup {NoReply}, pc[r] # "queued", Finish(r, step, reply),
         conn' \in [Workers -> Connection], \A w \in Workers : GoodDatabase(conn'[w].view),
         faulted' \in SUBSET Faults, UNCHANGED <<db, host, recorded>>
  PROVE  TypeInv'
<1>1. host[r] \in Workers
  BY RunningHost
<1>2. mem' \in [Requests -> Locals] /\ \A q \in Requests : GoodLocals(mem'[q])
  BY EmptyIsGood DEF Finish, TypeInv, TypeOK, GoodLocals
<1>3. pc' \in [Requests -> Steps] /\ \A q \in Requests : pc'[q] # "queued" => host'[q] \in Workers
  BY <1>1 DEF Finish, Finished, Steps, TypeInv, TypeOK
<1>4. loop' \in [Workers -> Requests \cup {NoRequest}] /\ answer' \in [Requests -> Requests \cup {NoReply}]
  BY DEF Finish, TypeInv, TypeOK
<1> QED
  BY <1>2, <1>3, <1>4 DEF TypeInv, TypeOK, GoodDatabase
-----------------------------------------------------------------------------
(* Each action keeps TypeInv *)

LEMMA InitTyped == Init => TypeInv
BY EmptyIsGood, AutoCommitTyped, RequestAssumption
   DEF Init, TypeInv, TypeOK, Steps, GoodDatabase, GoodLocals

\* What a running request reads: its worker's view, a table and a summary of it.
LEMMA Readings ==
  ASSUME TypeInv, NEW r \in Requests, pc[r] # "queued"
  PROVE  /\ host[r] \in Workers
         /\ GoodDatabase(View(host[r]))
         /\ EventOf[r] \in Events /\ ConversationOf(r) \in Conversations
         /\ View(host[r]).turns[ConversationOf(r)] \in SUBSET Turn
         /\ Bounded(View(host[r]).turns[ConversationOf(r)])
         /\ View(host[r]).summary[ConversationOf(r)] \in Summary
         /\ View(host[r]).processed[EventOf[r]] \in Requests \cup {NoReply}
         /\ GoodLocals(mem[r])
<1>1. host[r] \in Workers /\ GoodLocals(mem[r])
  BY DEF TypeInv
<1>2. EventOf[r] \in Events /\ ConversationOf(r) \in Conversations
  BY RequestAssumption DEF ConversationOf
<1>3. GoodDatabase(View(host[r]))
  BY <1>1, ViewGood
<1> QED
  BY <1>1, <1>2, <1>3 DEF GoodDatabase, Database

LEMMA StartTyped ==
  ASSUME TypeInv, NEW r \in Requests, NEW w \in Workers, Start(r, w)
  PROVE  TypeInv'
BY DEF Start, TypeInv, TypeOK, GoodDatabase, Steps

LEMMA CheckTyped ==
  ASSUME TypeInv, NEW r \in Requests, Check(r)
  PROVE  TypeInv'
<1> DEFINE found == View(host[r]).processed[EventOf[r]]
           l == [mem[r] EXCEPT !.found = found]
           to == IF found = NoReply THEN "upsert" ELSE "return"
<1>1. pc[r] # "queued" /\ Select(r, "check", to, l)
  BY DEF Check, Select, Runs
<1>2. GoodLocals(l)
  BY <1>1, Readings DEF GoodLocals, Locals
<1>3. to \in Steps \ {"queued"}
  BY DEF Steps
<1> QED
  BY <1>1, <1>2, <1>3, SelectTyped

LEMMA UpsertTyped ==
  ASSUME TypeInv, NEW r \in Requests, UpsertConversation(r)
  PROVE  TypeInv'
<1> DEFINE new == [View(host[r]) EXCEPT !.known = @ \cup {ConversationOf(r)}]
<1>1. pc[r] # "queued" /\ Write(r, "upsert", "history", new, mem[r])
  BY DEF UpsertConversation, Write, Runs
<1>2. GoodDatabase(new) /\ GoodLocals(mem[r])
  BY <1>1, Readings DEF GoodDatabase, Database
<1>3. "history" \in Steps \ {"queued"}
  BY DEF Steps
<1> QED
  BY <1>1, <1>2, <1>3, WriteTyped

LEMMA ReadHistoryTyped ==
  ASSUME TypeInv, NEW r \in Requests, ReadHistory(r)
  PROVE  TypeInv'
<1> DEFINE l == [mem[r] EXCEPT !.turns = View(host[r]).turns[ConversationOf(r)]]
<1>1. pc[r] # "queued" /\ Select(r, "history", "context", l)
  BY DEF ReadHistory, Select, Runs
<1>2. GoodLocals(l)
  BY <1>1, Readings DEF GoodLocals, Locals
<1>3. "context" \in Steps \ {"queued"}
  BY DEF Steps
<1> QED
  BY <1>1, <1>2, <1>3, SelectTyped

\* The context handed to the model is made of turns.
LEMMA ContextTyped ==
  ASSUME NEW T \in SUBSET Turn, NEW s \in Summary
  PROVE  ContextOf(T, s) \in SUBSET Turn
BY DEF ContextOf, RecentWindow, AfterBoundary, Summary

LEMMA ReadContextTyped ==
  ASSUME TypeInv, NEW r \in Requests, ReadContext(r)
  PROVE  TypeInv'
<1> DEFINE summary == View(host[r]).summary[ConversationOf(r)]
           l == [mem[r] EXCEPT !.context = ContextOf(mem[r].turns, summary)]
<1>1. pc[r] # "queued" /\ Select(r, "context", "run", l)
  BY DEF ReadContext, Select, Runs
<1>2. summary \in Summary /\ GoodLocals(mem[r])
  BY <1>1, Readings
<1> HIDE DEF summary
<1>3. ContextOf(mem[r].turns, summary) \in SUBSET Turn
  BY <1>2, ContextTyped DEF GoodLocals, Locals
<1>4. GoodLocals(l)
  BY <1>2, <1>3 DEF GoodLocals, Locals
<1>5. "run" \in Steps \ {"queued"}
  BY DEF Steps
<1> QED
  BY <1>1, <1>4, <1>5, SelectTyped

LEMMA RunTyped ==
  ASSUME TypeInv, NEW r \in Requests, RunInThread(r) \/ RunReturns(r)
  PROVE  TypeInv'
<1>1. CASE RunInThread(r)
  BY <1>1 DEF RunInThread, TypeInv, TypeOK, GoodDatabase
<1>2. CASE RunReturns(r)
  BY <1>2 DEF RunReturns, TypeInv, TypeOK, GoodDatabase, Steps
<1> QED
  BY <1>1, <1>2

LEMMA RunRaisesTyped ==
  ASSUME TypeInv, NEW r \in Requests, RunRaises(r)
  PROVE  TypeInv'
<1>1. pc[r] # "queued" /\ Finish(r, "failed", NoReply) /\ UNCHANGED <<db, conn, host, recorded>>
  BY DEF RunRaises, Raise
<1>2. conn' \in [Workers -> Connection] /\ \A w \in Workers : GoodDatabase(conn'[w].view)
  BY <1>1 DEF TypeInv, TypeOK
<1>3. faulted' \in SUBSET Faults
  BY DEF RunRaises, TypeInv, TypeOK
<1> QED
  BY <1>1, <1>2, <1>3, FinishTyped DEF Finished

LEMMA ReadTopTyped ==
  ASSUME TypeInv, NEW r \in Requests, ReadTop(r)
  PROVE  TypeInv'
<1> DEFINE top == MaxSeq(View(host[r]).turns[ConversationOf(r)])
           l == [mem[r] EXCEPT !.top = top]
<1>1. pc[r] # "queued" /\ Select(r, "top", "append", l)
  BY DEF ReadTop, Select, Runs
<1>2. top \in Nat
  BY <1>1, Readings, MaxSeqFacts
<1> HIDE DEF top
<1>3. GoodLocals(l)
  BY <1>1, <1>2, Readings DEF GoodLocals, Locals
<1>4. "append" \in Steps \ {"queued"}
  BY DEF Steps
<1> QED
  BY <1>1, <1>3, <1>4, SelectTyped

LEMMA AppendTyped ==
  ASSUME TypeInv, NEW r \in Requests, AppendTurns(r)
  PROVE  TypeInv'
<1> DEFINE c == ConversationOf(r)
           n == mem[r].top + 1
           table == View(host[r]).turns[c]
           added == table \cup {UserTurn(n, r), AssistantTurn(n + 1, r)}
           new == [View(host[r]) EXCEPT !.turns[c] = Trim(added)]
<1>1. pc[r] # "queued" /\ Write(r, "append", "turns", new, mem[r])
  BY DEF AppendTurns, Runs
<1>2. table \in SUBSET Turn /\ Bounded(table) /\ mem[r].top \in Nat
  BY <1>1, Readings DEF GoodLocals, Locals
<1>3. Trim(added) \in SUBSET Turn /\ Bounded(Trim(added))
  <2>1. \A S \in SUBSET added : S \in SUBSET Turn /\ Bounded(S)
    <3> HIDE DEF table, c
    <3> QED
      BY <1>2, ExtendedTable
  <2> QED
    BY <2>1, TrimRemoves
<1>4. GoodDatabase(View(host[r])) /\ c \in Conversations /\ GoodLocals(mem[r])
  BY <1>1, Readings
<1> HIDE DEF added, c
<1>5. GoodDatabase(new)
  BY <1>3, <1>4 DEF GoodDatabase, Database
<1>6. "turns" \in Steps \ {"queued"}
  BY DEF Steps
<1> QED
  BY <1>1, <1>4, <1>5, <1>6, WriteTyped

LEMMA AppendConflictsTyped ==
  ASSUME TypeInv, NEW r \in Requests, AppendConflicts(r)
  PROVE  TypeInv'
<1> DEFINE c == ConversationOf(r)
           n == mem[r].top + 1
           table == View(host[r]).turns[c]
           left == IF Occupied(table, n) THEN table ELSE table \cup {UserTurn(n, r)}
           view == [View(host[r]) EXCEPT !.turns[c] = left]
<1>1. pc[r] # "queued" /\ Finish(r, "failed", NoReply) /\ UNCHANGED <<db, host, recorded, faulted>>
  BY DEF AppendConflicts, Raise, Runs
<1>2. table \in SUBSET Turn /\ Bounded(table) /\ mem[r].top \in Nat
  BY <1>1, Readings DEF GoodLocals, Locals
<1>3. left \in SUBSET Turn /\ Bounded(left)
  <2>1. left \in SUBSET (table \cup {UserTurn(n, r), AssistantTurn(n + 1, r)})
    OBVIOUS
  <2> HIDE DEF table, left, c
  <2> QED
    BY <1>2, <2>1, ExtendedTable
<1>4. GoodDatabase(View(host[r])) /\ c \in Conversations /\ host[r] \in Workers
  BY <1>1, Readings
<1>5. conn' = [conn EXCEPT ![host[r]] = Stranded(view)]
  BY DEF AppendConflicts
<1> HIDE DEF left, c
<1>6. GoodDatabase(view)
  BY <1>3, <1>4 DEF GoodDatabase, Database
<1> HIDE DEF view
<1>7. conn' \in [Workers -> Connection] /\ \A w \in Workers : GoodDatabase(conn'[w].view)
  BY <1>4, <1>5, <1>6, ConnectionSteps DEF TypeInv, TypeOK
<1> QED
  BY <1>1, <1>7, FinishTyped DEF Finished, TypeInv, TypeOK


LEMMA ReadTurnsTyped ==
  ASSUME TypeInv, NEW r \in Requests, ReadTurns(r)
  PROVE  TypeInv'
<1> DEFINE table == View(host[r]).turns[ConversationOf(r)]
           l == [mem[r] EXCEPT !.turns = table]
           to == IF table = {} THEN "save" ELSE "state"
<1>1. pc[r] # "queued" /\ Select(r, "turns", to, l)
  BY DEF ReadTurns, Select, Runs
<1>2. GoodLocals(l)
  BY <1>1, Readings DEF GoodLocals, Locals
<1>3. to \in Steps \ {"queued"}
  BY DEF Steps
<1> QED
  BY <1>1, <1>2, <1>3, SelectTyped

LEMMA ReadStateTyped ==
  ASSUME TypeInv, NEW r \in Requests, ReadState(r)
  PROVE  TypeInv'
<1> DEFINE summary == View(host[r]).summary[ConversationOf(r)]
           batch == Compactable(mem[r].turns, summary.upto)
           l == [mem[r] EXCEPT !.prior = summary, !.batch = batch]
           to == IF batch = {} THEN "save" ELSE "generate"
<1>1. pc[r] # "queued" /\ Select(r, "state", to, l)
  BY DEF ReadState, Select, Runs
<1>2. summary \in Summary /\ GoodLocals(mem[r])
  BY <1>1, Readings
<1>3. batch \in SUBSET mem[r].turns
  BY DEF Compactable, AfterBoundary
<1>4. to \in Steps \ {"queued"}
  BY DEF Steps
<1> HIDE DEF summary, batch
<1>5. GoodLocals(l)
  BY <1>2, <1>3, BoundedSubset DEF GoodLocals, Locals
<1> QED
  BY <1>1, <1>4, <1>5, SelectTyped

LEMMA SummaryEmptyTyped ==
  ASSUME TypeInv, NEW r \in Requests, SummaryEmpty(r)
  PROVE  TypeInv'
BY DEF SummaryEmpty, Runs, Goto, TypeInv, TypeOK, GoodDatabase, Steps

LEMMA SaveSummaryTyped ==
  ASSUME TypeInv, NEW r \in Requests, SaveSummary(r)
  PROVE  TypeInv'
<1> DEFINE folded == Fold(mem[r].prior, mem[r].batch)
           new == [View(host[r]) EXCEPT !.summary[ConversationOf(r)] = folded]
<1>1. pc[r] # "queued" /\ Write(r, "generate", "save", new, mem[r])
  BY DEF SaveSummary, Write, Runs
<1>2. GoodLocals(mem[r]) /\ GoodDatabase(View(host[r])) /\ ConversationOf(r) \in Conversations
  BY <1>1, Readings
<1>3. folded \in Summary
  <2>1. mem[r].batch \in SUBSET Turn /\ Bounded(mem[r].batch) /\ mem[r].prior \in Summary
    BY <1>2 DEF GoodLocals, Locals
  <2>2. MaxSeq(mem[r].batch) \in Nat
    BY <2>1, MaxSeqFacts
  <2> QED
    BY <2>1, <2>2 DEF Fold, Summary
<1> HIDE DEF folded
<1>4. GoodDatabase(new)
  BY <1>2, <1>3 DEF GoodDatabase, Database
<1>5. "save" \in Steps \ {"queued"}
  BY DEF Steps
<1> QED
  BY <1>1, <1>2, <1>4, <1>5, WriteTyped

LEMMA SaveReplyTyped ==
  ASSUME TypeInv, NEW r \in Requests, SaveReply(r)
  PROVE  TypeInv'
<1> DEFINE new == [View(host[r]) EXCEPT !.processed[EventOf[r]] = r]
           l == [mem[r] EXCEPT !.found = r]
<1>1. pc[r] # "queued" /\ Write(r, "save", "return", new, l)
  BY DEF SaveReply, Write, Runs
<1>2. GoodLocals(l)
  BY <1>1, Readings DEF GoodLocals, Locals
<1>3. GoodDatabase(new)
  BY <1>1, Readings DEF GoodDatabase, Database
<1>4. "return" \in Steps \ {"queued"}
  BY DEF Steps
<1> QED
  BY <1>1, <1>2, <1>3, <1>4, WriteTyped

LEMMA ReturnTyped ==
  ASSUME TypeInv, NEW r \in Requests, Return(r)
  PROVE  TypeInv'
<1>1. /\ pc[r] # "queued" /\ Finish(r, "done", mem[r].found)
      /\ UNCHANGED <<db, conn, host, recorded, faulted>>
  BY DEF Return, Runs
<1>2. mem[r].found \in Requests \cup {NoReply}
  BY DEF TypeInv, GoodLocals, Locals
<1>3. conn' \in [Workers -> Connection] /\ \A w \in Workers : GoodDatabase(conn'[w].view)
  BY <1>1 DEF TypeInv, TypeOK
<1>4. faulted' \in SUBSET Faults
  BY <1>1 DEF TypeInv, TypeOK
<1> QED
  BY <1>1, <1>2, <1>3, <1>4, FinishTyped DEF Finished

LEMMA WriteRefusedTyped ==
  ASSUME TypeInv, NEW r \in Requests, WriteRefused(r)
  PROVE  TypeInv'
<1>1. /\ pc[r] # "queued" /\ Finish(r, "failed", NoReply)
      /\ UNCHANGED <<db, host, recorded, faulted>>
      /\ conn' = [conn EXCEPT ![host[r]] = AfterRefusal(host[r])]
  BY DEF WriteRefused, Raise, Runs
<1>2. host[r] \in Workers
  BY <1>1, Readings
<1>3. conn' \in [Workers -> Connection] /\ \A w \in Workers : GoodDatabase(conn'[w].view)
  BY <1>1, <1>2, ConnectionSteps DEF TypeInv, TypeOK
<1> QED
  BY <1>1, <1>3, FinishTyped DEF Finished, TypeInv, TypeOK

LEMMA CrashTyped ==
  ASSUME TypeInv, NEW w \in Workers, Crash(w)
  PROVE  TypeInv'
<1>1. conn' \in [Workers -> Connection] /\ \A v \in Workers : GoodDatabase(conn'[v].view)
  BY AutoCommitTyped DEF Crash, TypeInv, TypeOK
<1>2. mem' \in [Requests -> Locals] /\ \A q \in Requests : GoodLocals(mem'[q])
  BY EmptyIsGood DEF Crash, TypeInv, TypeOK, GoodLocals
<1>3. pc' \in [Requests -> Steps] /\ \A q \in Requests : pc'[q] # "queued" => host'[q] \in Workers
  <2>1. \A q \in Requests : host[q] = w /\ pc[q] \notin Finished => host[q] \in Workers
    OBVIOUS
  <2> QED
    BY <2>1 DEF Crash, TypeInv, TypeOK, Steps
<1> QED
  BY <1>1, <1>2, <1>3 DEF Crash, TypeInv, TypeOK, GoodDatabase

LEMMA AdvanceTyped ==
  ASSUME TypeInv, NEW r \in Requests, Advance(r)
  PROVE  TypeInv'
BY CheckTyped, UpsertTyped, ReadHistoryTyped, ReadContextTyped, RunTyped, RunRaisesTyped,
   ReadTopTyped, AppendTyped, AppendConflictsTyped, ReadTurnsTyped, ReadStateTyped,
   SummaryEmptyTyped, SaveSummaryTyped, SaveReplyTyped, ReturnTyped, WriteRefusedTyped
   DEF Advance

LEMMA StutterTyped == ASSUME TypeInv, UNCHANGED vars PROVE TypeInv'
BY DEF vars, TypeInv, TypeOK, GoodDatabase

LEMMA NextTyped == ASSUME TypeInv, [Next]_vars PROVE TypeInv'
BY StartTyped, AdvanceTyped, CrashTyped, StutterTyped DEF Next, Quiescent

LEMMA AlwaysTyped == Spec => []TypeInv
<1>1. Init => TypeInv
  BY InitTyped
<1>2. TypeInv /\ [Next]_vars => TypeInv'
  BY NextTyped
<1> QED
  BY <1>1, <1>2, PTL DEF Spec

\* The tables, the connections and every coroutine's locals are well formed for any
\* number of workers; MAX(seq) is a number whatever was appended and trimmed.
THEOREM TypeCorrect == Spec => []TypeOK
<1>1. TypeInv => TypeOK
  BY DEF TypeInv
<1> QED
  BY <1>1, AlwaysTyped, PTL
-----------------------------------------------------------------------------
(***************************************************************************)
(* Answers are durable: a commit never takes a processed event back, and   *)
(* whatever a caller was given is a reply to its own event, in the table.  *)
(*                                                                         *)
(* The argument is about snapshots.  A connection inside a transaction may *)
(* read an old database, and the next commit of that connection writes its *)
(* old view back; what saves the table is that only a fresh view can be    *)
(* written from, and that a commit makes every other pinned view stale.    *)
(***************************************************************************)

\* Every reply stored in d is stored under the event its run was for.
OwnEvents(d) == \A e \in Events : d.processed[e] # NoReply => EventOf[d.processed[e]] = e

\* Every event processed in d is processed in f.
Within(d, f) == \A e \in Events : d.processed[e] # NoReply => f.processed[e] # NoReply

\* A connection's view never runs ahead of the database, and a view that may be
\* written from has all of it.
ViewsInv ==
  /\ OwnEvents(db)
  /\ \A w \in Workers : OwnEvents(conn[w].view) /\ Within(conn[w].view, db)
  /\ \A w \in Workers :
       conn[w].txn \in {"read", "write"} /\ ~conn[w].stale => Within(db, conn[w].view)

\* found is no reply, or a reply to r's event, which is processed.
Settled(r, found) ==
  found # NoReply => EventOf[found] = EventOf[r] /\ db.processed[EventOf[r]] # NoReply

\* A reply a coroutine has found, or given, is one of its event.
RepliesInv == \A r \in Requests : Settled(r, mem[r].found) /\ Settled(r, answer[r])

DurableInv == TypeInv /\ ViewsInv /\ RepliesInv

\* What a step may do to the replies in the table.
Grows == Within(db, db')
-----------------------------------------------------------------------------
(* Connections *)

\* What a connection reads is stored under its own event and is in the database.
LEMMA ViewWithin ==
  ASSUME ViewsInv, NEW w \in Workers
  PROVE  OwnEvents(View(w)) /\ Within(View(w), db)
BY DEF ViewsInv, View, Within

\* What may be written from has the whole table.
LEMMA WritableView ==
  ASSUME ViewsInv, NEW w \in Workers, CanWrite(w)
  PROVE  Within(db, View(w))
BY DEF ViewsInv, View, CanWrite, Within

\* A step that leaves the database alone and changes one connection to one whose
\* view is old enough, and fresh enough to be written from, keeps the views in order.
LEMMA OneConnection ==
  ASSUME TypeInv, ViewsInv, UNCHANGED db, NEW w \in Workers, NEW c,
         conn' = [conn EXCEPT ![w] = c], OwnEvents(c.view), Within(c.view, db),
         c.txn \in {"read", "write"} /\ ~c.stale => Within(db, c.view)
  PROVE  ViewsInv'
BY DEF TypeInv, TypeOK, ViewsInv, OwnEvents, Within

LEMMA ReadKeepsViews ==
  ASSUME TypeInv, ViewsInv, UNCHANGED db, NEW w \in Workers,
         conn' = [conn EXCEPT ![w] = AfterRead(w)]
  PROVE  ViewsInv'
<1>1. OwnEvents(AfterRead(w).view) /\ Within(AfterRead(w).view, db)
  BY DEF AfterRead, ViewsInv, Within
<1>2. AfterRead(w).txn \in {"read", "write"} /\ ~AfterRead(w).stale => Within(db, AfterRead(w).view)
  BY DEF AfterRead, ViewsInv, Within
<1> QED
  BY <1>1, <1>2, OneConnection

LEMMA RefusalKeepsViews ==
  ASSUME TypeInv, ViewsInv, UNCHANGED db, NEW w \in Workers,
         conn' = [conn EXCEPT ![w] = AfterRefusal(w)]
  PROVE  ViewsInv'
<1> DEFINE c == AfterRefusal(w)
<1>1. c.view = conn[w].view /\ (c.txn \in {"read", "write"} => c = conn[w])
  BY DEF AfterRefusal, TypeInv, TypeOK, Connection
<1> HIDE DEF c
<1>2. OwnEvents(c.view) /\ Within(c.view, db)
  BY <1>1 DEF ViewsInv
<1>3. c.txn \in {"read", "write"} /\ ~c.stale => Within(db, c.view)
  BY <1>1 DEF ViewsInv
<1> QED
  BY <1>2, <1>3, OneConnection DEF c

\* A failed statement leaves the connection with turns no one else sees, but with the
\* replies of the database.
LEMMA StrandedKeepsViews ==
  ASSUME TypeInv, ViewsInv, UNCHANGED db, NEW w \in Workers, CanWrite(w),
         NEW d, d.processed = View(w).processed, conn' = [conn EXCEPT ![w] = Stranded(d)]
  PROVE  ViewsInv'
<1>1. OwnEvents(d) /\ Within(d, db) /\ Within(db, d)
  BY ViewWithin, WritableView DEF OwnEvents, Within
<1>2. Stranded(d).view = d
  BY DEF Stranded
<1> QED
  BY <1>1, <1>2, OneConnection

\* A commit from a fresh view that stores replies under their own events loses none,
\* and leaves every other pinned view stale.
LEMMA CommitGrows ==
  ASSUME TypeInv, ViewsInv, NEW w \in Workers, NEW d, CanWrite(w), Commit(w, d),
         OwnEvents(d), Within(View(w), d)
  PROVE  ViewsInv' /\ Grows
<1>1. Within(db, d)
  BY WritableView DEF Within
<1>2. Grows
  BY <1>1 DEF Grows, Commit
<1>3. OwnEvents(db')
  BY DEF Commit
<1>4. ASSUME NEW v \in Workers
      PROVE  /\ OwnEvents(conn'[v].view) /\ Within(conn'[v].view, db')
             /\ ~(conn'[v].txn \in {"read", "write"} /\ ~conn'[v].stale)
  <2>1. CASE v = w
    <3>1. conn'[v] = AutoCommit
      BY <2>1 DEF Commit
    <3> QED
      BY <3>1 DEF AutoCommit, EmptyDatabase, OwnEvents, Within
  <2>2. CASE v # w
    <3>1. conn'[v].view = conn[v].view /\ conn'[v].txn = conn[v].txn
      BY <2>2 DEF Commit, TypeInv, TypeOK, Connection
    <3>2. conn[v].txn = "read" => conn'[v].stale
      BY <2>2 DEF Commit, TypeInv, TypeOK, Connection
    <3>3. conn[v].txn # "write"
      BY <2>2 DEF CanWrite, LockedByOther
    <3>4. OwnEvents(conn[v].view) /\ Within(conn[v].view, db)
      BY DEF ViewsInv
    <3> QED
      BY <3>1, <3>2, <3>3, <3>4, <1>2 DEF OwnEvents, Within, Grows
  <2> QED
    BY <2>1, <2>2
<1>5. OwnEvents(db)' /\ \A v \in Workers : OwnEvents(conn[v].view)' /\ Within(conn[v].view, db)'
  BY <1>3, <1>4 DEF OwnEvents, Within
<1> QED
  BY <1>2, <1>4, <1>5 DEF ViewsInv
-----------------------------------------------------------------------------
(* Requests *)

\* A step after which every local reply and every answer is one that was there, none,
\* or a settled one keeps the replies settled, if the table grows.
LEMMA RepliesKept ==
  ASSUME RepliesInv, Grows,
         \A q \in Requests : \/ mem'[q].found \in {mem[q].found, NoReply}
                             \/ Settled(q, mem[q].found)',
         \A q \in Requests : answer'[q] \in {answer[q], mem[q].found, NoReply}
  PROVE  RepliesInv'
<1>1. ASSUME NEW q \in Requests, NEW f, Settled(q, f)
      PROVE  f # NoReply => EventOf[f] = EventOf[q] /\ db'.processed[EventOf[q]] # NoReply
  BY <1>1, RequestAssumption DEF Settled, Grows, Within
<1>2. \A q \in Requests : Settled(q, mem[q].found) /\ Settled(q, answer[q])
  BY DEF RepliesInv
<1>3. \A q \in Requests : Settled(q, mem[q].found)'
  BY <1>1, <1>2 DEF Settled
<1>4. \A q \in Requests : Settled(q, answer[q])'
  BY <1>1, <1>2 DEF Settled
<1> QED
  BY <1>3, <1>4 DEF RepliesInv

LEMMA SameTableGrows == ASSUME UNCHANGED db PROVE Grows
BY DEF Grows, Within

\* A read that finds nothing new, or a settled reply.
LEMMA SelectDurable ==
  ASSUME DurableInv, NEW r \in Requests, NEW from, NEW to, NEW l, from # "queued",
         Select(r, from, to, l), l.found = mem[r].found \/ Settled(r, l.found)
  PROVE  ViewsInv' /\ RepliesInv' /\ Grows
<1>1. host[r] \in Workers
  BY RunningHost DEF DurableInv, Select, Runs
<1>2. ViewsInv' /\ Grows
  BY <1>1, ReadKeepsViews, SameTableGrows DEF DurableInv, Select
<1>3. \A q \in Requests : mem'[q].found = mem[q].found \/ Settled(q, mem[q].found)'
  <2>1. db' = db /\ mem' = [mem EXCEPT ![r] = l] /\ mem \in [Requests -> Locals]
    BY DEF Select, DurableInv, TypeInv, TypeOK
  <2> QED
    BY <2>1 DEF Settled
<1>4. answer' = answer
  BY DEF Select, Goto
<1> QED
  BY <1>2, <1>3, <1>4, RepliesKept DEF DurableInv

\* A committed write that takes no reply away and stores none but r's own.
LEMMA WriteDurable ==
  ASSUME DurableInv, NEW r \in Requests, NEW from, NEW to, NEW d, NEW l, from # "queued",
         Write(r, from, to, d, l), OwnEvents(d), Within(View(host[r]), d),
         \/ l.found = mem[r].found
         \/ EventOf[l.found] = EventOf[r] /\ d.processed[EventOf[r]] # NoReply
  PROVE  ViewsInv' /\ RepliesInv' /\ Grows
<1>1. host[r] \in Workers
  BY RunningHost DEF DurableInv, Write, Runs
<1>2. ViewsInv' /\ Grows
  BY <1>1, CommitGrows DEF DurableInv, Write
<1>3. \A q \in Requests : mem'[q].found = mem[q].found \/ Settled(q, mem[q].found)'
  <2>1. db' = d /\ mem' = [mem EXCEPT ![r] = l] /\ mem \in [Requests -> Locals]
    BY DEF Write, Commit, DurableInv, TypeInv, TypeOK
  <2> QED
    BY <2>1 DEF Settled
<1>4. answer' = answer
  BY DEF Write, Goto
<1> QED
  BY <1>2, <1>3, <1>4, RepliesKept DEF DurableInv

\* The end of a request, with what it found or with nothing.
LEMMA FinishReplies ==
  ASSUME DurableInv, NEW r \in Requests, NEW step, NEW reply \in {NoReply, mem[r].found},
         Finish(r, step, reply), UNCHANGED db
  PROVE  RepliesInv' /\ Grows
<1>1. \A q \in Requests : mem'[q].found \in {mem[q].found, NoReply}
  BY DEF Finish, NoLocals, DurableInv, TypeInv, TypeOK
<1>2. \A q \in Requests : answer'[q] \in {answer[q], mem[q].found, NoReply}
  BY DEF Finish, DurableInv, TypeInv, TypeOK
<1> QED
  BY <1>1, <1>2, SameTableGrows, RepliesKept DEF DurableInv
-----------------------------------------------------------------------------
(* Actions *)

LEMMA CheckDurable ==
  ASSUME DurableInv, NEW r \in Requests, Check(r)
  PROVE  ViewsInv' /\ RepliesInv' /\ Grows
<1> DEFINE found == View(host[r]).processed[EventOf[r]]
           l == [mem[r] EXCEPT !.found = found]
           to == IF found = NoReply THEN "upsert" ELSE "return"
<1>1. Select(r, "check", to, l)
  BY DEF Check
<1>2. host[r] \in Workers /\ EventOf[r] \in Events /\ mem[r] \in Locals
  BY <1>1, Readings DEF Select, Runs, DurableInv, GoodLocals
<1>3. Settled(r, found)
  BY <1>2, ViewWithin DEF Settled, OwnEvents, Within, DurableInv
<1>4. l.found = found
  BY <1>2 DEF Locals
<1> HIDE DEF found, l, to
<1> QED
  BY <1>1, <1>3, <1>4, SelectDurable

\* The reads that look no reply up.
LEMMA ReadsDurable ==
  ASSUME DurableInv, NEW r \in Requests,
         ReadHistory(r) \/ ReadContext(r) \/ ReadTop(r) \/ ReadTurns(r) \/ ReadState(r)
  PROVE  ViewsInv' /\ RepliesInv' /\ Grows
<1>1. mem[r] \in Locals
  BY DEF DurableInv, TypeInv, TypeOK
<1>2. CASE ReadHistory(r)
  <2> DEFINE l == [mem[r] EXCEPT !.turns = View(host[r]).turns[ConversationOf(r)]]
  <2>1. Select(r, "history", "context", l) /\ l.found = mem[r].found
    BY <1>1, <1>2 DEF ReadHistory, Locals
  <2> QED
    BY <2>1, SelectDurable
<1>3. CASE ReadContext(r)
  <2> DEFINE l == [mem[r] EXCEPT !.context =
                     ContextOf(mem[r].turns, View(host[r]).summary[ConversationOf(r)])]
  <2>1. Select(r, "context", "run", l) /\ l.found = mem[r].found
    BY <1>1, <1>3 DEF ReadContext, Locals
  <2> QED
    BY <2>1, SelectDurable
<1>4. CASE ReadTop(r)
  <2> DEFINE l == [mem[r] EXCEPT !.top = MaxSeq(View(host[r]).turns[ConversationOf(r)])]
  <2>1. Select(r, "top", "append", l) /\ l.found = mem[r].found
    BY <1>1, <1>4 DEF ReadTop, Locals
  <2> QED
    BY <2>1, SelectDurable
<1>5. CASE ReadTurns(r)
  <2> DEFINE table == View(host[r]).turns[ConversationOf(r)]
             l == [mem[r] EXCEPT !.turns = table]
  <2>1. Select(r, "turns", IF table = {} THEN "save" ELSE "state", l) /\ l.found = mem[r].found
    BY <1>1, <1>5 DEF ReadTurns, Locals
  <2> QED
    BY <2>1, SelectDurable
<1>6. CASE ReadState(r)
  <2> DEFINE summary == View(host[r]).summary[ConversationOf(r)]
             batch == Compactable(mem[r].turns, summary.upto)
             l == [mem[r] EXCEPT !.prior = summary, !.batch = batch]
  <2>1. Select(r, "state", IF batch = {} THEN "save" ELSE "generate", l) /\ l.found = mem[r].found
    BY <1>1, <1>6 DEF ReadState, Locals
  <2> QED
    BY <2>1, SelectDurable
<1> QED
  BY <1>2, <1>3, <1>4, <1>5, <1>6

\* The writes that store no reply.
LEMMA WritesDurable ==
  ASSUME DurableInv, NEW r \in Requests,
         UpsertConversation(r) \/ AppendTurns(r) \/ SaveSummary(r)
  PROVE  ViewsInv' /\ RepliesInv' /\ Grows
<1>1. PICK from, to, d :
        from \in Steps \ {"queued"} /\ Write(r, from, to, d, mem[r]) /\ d.processed = View(host[r]).processed
  <2>1. View(host[r]) \in Database
    BY Readings DEF DurableInv, UpsertConversation, AppendTurns, SaveSummary, Write, Runs, GoodDatabase
  <2> QED
    BY <2>1 DEF UpsertConversation, AppendTurns, SaveSummary, Database, Steps
<1>2. host[r] \in Workers
  BY <1>1, RunningHost DEF Write, Runs, DurableInv
<1>3. OwnEvents(d) /\ Within(View(host[r]), d)
  BY <1>1, <1>2, ViewWithin DEF OwnEvents, Within, DurableInv
<1> QED
  BY <1>1, <1>3, WriteDurable

LEMMA SaveReplyDurable ==
  ASSUME DurableInv, NEW r \in Requests, SaveReply(r)
  PROVE  ViewsInv' /\ RepliesInv' /\ Grows
<1> DEFINE d == [View(host[r]) EXCEPT !.processed[EventOf[r]] = r]
           l == [mem[r] EXCEPT !.found = r]
<1>1. Write(r, "save", "return", d, l)
  BY DEF SaveReply
<1>2. /\ host[r] \in Workers /\ View(host[r]) \in Database /\ mem[r] \in Locals
      /\ EventOf[r] \in Events /\ r # NoReply
  BY <1>1, Readings, RequestAssumption DEF Write, Runs, DurableInv, GoodDatabase, GoodLocals
<1>3. \A e \in Events : d.processed[e] = IF e = EventOf[r] THEN r ELSE View(host[r]).processed[e]
  BY <1>2 DEF Database
<1>4. l.found = r
  BY <1>2 DEF Locals
<1> HIDE DEF d, l
<1>5. OwnEvents(d) /\ Within(View(host[r]), d)
  BY <1>2, <1>3, ViewWithin DEF OwnEvents, Within, DurableInv
<1>6. EventOf[l.found] = EventOf[r] /\ d.processed[EventOf[r]] # NoReply
  BY <1>2, <1>3, <1>4
<1> QED
  BY <1>1, <1>5, <1>6, WriteDurable

LEMMA AppendConflictsDurable ==
  ASSUME DurableInv, NEW r \in Requests, AppendConflicts(r)
  PROVE  ViewsInv' /\ RepliesInv' /\ Grows
<1>1. host[r] \in Workers /\ View(host[r]) \in Database
  BY Readings DEF AppendConflicts, Runs, DurableInv, GoodDatabase
<1>2. PICK d : d.processed = View(host[r]).processed /\ conn' = [conn EXCEPT ![host[r]] = Stranded(d)]
  BY <1>1 DEF AppendConflicts, Database
<1>3. ViewsInv'
  BY <1>1, <1>2, StrandedKeepsViews DEF AppendConflicts, DurableInv
<1>4. RepliesInv' /\ Grows
  BY FinishReplies DEF AppendConflicts, Raise
<1> QED
  BY <1>3, <1>4

\* What ends a request without a commit.
LEMMA EndsDurable ==
  ASSUME DurableInv, NEW r \in Requests, WriteRefused(r) \/ Return(r) \/ RunRaises(r)
  PROVE  ViewsInv' /\ RepliesInv' /\ Grows
<1>1. RepliesInv' /\ Grows
  BY FinishReplies DEF WriteRefused, Return, RunRaises, Raise
<1>2. CASE WriteRefused(r)
  <2>1. host[r] \in Workers
    BY <1>2, RunningHost DEF WriteRefused, Runs, DurableInv
  <2> QED
    BY <1>1, <1>2, <2>1, RefusalKeepsViews DEF WriteRefused, DurableInv
<1>3. CASE Return(r) \/ RunRaises(r)
  BY <1>1, <1>3 DEF Return, RunRaises, DurableInv, ViewsInv, OwnEvents, Within
<1> QED
  BY <1>1, <1>2, <1>3

\* The steps that reach no database, and a step that changes nothing.
LEMMA OthersDurable ==
  ASSUME DurableInv, NEW r \in Requests,
         \/ \E w \in Workers : Start(r, w)
         \/ RunInThread(r) \/ RunReturns(r) \/ SummaryEmpty(r)
  PROVE  ViewsInv' /\ RepliesInv' /\ Grows
BY DEF Start, RunInThread, RunReturns, SummaryEmpty, Goto, DurableInv, ViewsInv, RepliesInv,
       Settled, OwnEvents, Within, Grows

LEMMA CrashDurable ==
  ASSUME DurableInv, NEW w \in Workers, Crash(w)
  PROVE  ViewsInv' /\ RepliesInv' /\ Grows
<1>1. OwnEvents(AutoCommit.view) /\ Within(AutoCommit.view, db) /\ AutoCommit.txn = "none"
  BY DEF AutoCommit, EmptyDatabase, OwnEvents, Within
<1>2. ViewsInv'
  BY <1>1, OneConnection DEF Crash, DurableInv
<1>3. Grows
  BY SameTableGrows DEF Crash
<1>4. \A q \in Requests : mem'[q].found \in {mem[q].found, NoReply}
  BY DEF Crash, NoLocals
<1> QED
  BY <1>2, <1>3, <1>4, RepliesKept DEF Crash, DurableInv

LEMMA StutterDurable == ASSUME DurableInv, UNCHANGED vars PROVE ViewsInv' /\ RepliesInv' /\ Grows
BY DEF vars, DurableInv, ViewsInv, RepliesInv, Settled, OwnEvents, Within, Grows

LEMMA NextDurable == ASSUME DurableInv, [Next]_vars PROVE DurableInv' /\ Grows
<1>1. TypeInv'
  BY NextTyped DEF DurableInv
<1>2. ASSUME NEW r \in Requests, Advance(r) PROVE ViewsInv' /\ RepliesInv' /\ Grows
  BY <1>2, CheckDurable, ReadsDurable, WritesDurable, SaveReplyDurable, AppendConflictsDurable,
     EndsDurable, OthersDurable DEF Advance
<1>3. ASSUME NEW r \in Requests, NEW w \in Workers, Start(r, w)
      PROVE  ViewsInv' /\ RepliesInv' /\ Grows
  BY <1>3, OthersDurable
<1> QED
  BY <1>1, <1>2, <1>3, CrashDurable, StutterDurable DEF Next, Quiescent, DurableInv

LEMMA InitDurable == Init => DurableInv
BY InitTyped DEF Init, DurableInv, ViewsInv, RepliesInv, Settled, OwnEvents, Within,
   EmptyDatabase, AutoCommit, NoLocals

LEMMA AlwaysDurable == Spec => []DurableInv
<1>1. DurableInv /\ [Next]_vars => DurableInv'
  BY NextDurable
<1> QED
  BY <1>1, InitDurable, PTL DEF Spec

\* Whatever the workers, crashes and refused writes: a reply given to a caller is a
\* reply to its event, and the event is in processed_events for its retries.
THEOREM AnswersAreDurable == Spec => []DurableAnswer
<1>1. DurableInv => DurableAnswer
  BY DEF DurableInv, RepliesInv, Settled, DurableAnswer
<1> QED
  BY <1>1, AlwaysDurable, PTL

\* No commit of any worker takes a processed event out of the table: a stale snapshot
\* is never written back.
THEOREM ProcessedStays == Spec => ProcessedForever
<1>1. DurableInv /\ [Next]_vars => [\A e \in Events : db.processed[e] # NoReply => db'.processed[e] # NoReply]_vars
  BY NextDurable DEF Grows, Within
<1> QED
  BY <1>1, AlwaysDurable, PTL DEF Spec, ProcessedForever
-----------------------------------------------------------------------------
(***************************************************************************)
(* The history is whole: no number is given to two turns that were ever    *)
(* visible, and every answer stands right behind its question.             *)
(*                                                                         *)
(* The turns of a conversation that were ever committed form a log of whole*)
(* exchanges, numbered without a gap, and every table that a connection can*)
(* read is what the history limit leaves of some first part of that log.  A*)
(* connection that may write sees the newest window, so the numbers it     *)
(* gives are the next ones.  The limit has to be even: an odd one cuts an  *)
(* exchange in two, and its number may then be given again.                *)
(***************************************************************************)

\* The store keeps an even number of turns.
EvenLimit == \E h \in Nat : HistoryLimit = 2 * h

\* Every turn of a conversation that was ever visible.
Log(c) == {t \in recorded : ConversationOf(t.req) = c}

\* The first m exchanges of c, what the history limit leaves of them.
Window(c, m) == {t \in Log(c) : t.seq <= 2 * m /\ 2 * m < t.seq + HistoryLimit}

\* The log of c is m exchanges, numbered from 1 without a gap.
Exchanges(c, m) ==
  /\ \A t \in Log(c) : t.seq <= 2 * m
  /\ \A i \in 1..m : \E r \in Requests :
       UserTurn(2 * i - 1, r) \in Log(c) /\ AssistantTurn(2 * i, r) \in Log(c)

\* A connection's view is a window of the log, and the newest one if it may be
\* written from.
Pinned(c, m) ==
  \A w \in Workers : conn[w].txn \in {"read", "write"} =>
    /\ \E k \in 0..m : conn[w].view.turns[c] = Window(c, k)
    /\ ~conn[w].stale => conn[w].view.turns[c] = db.turns[c]

\* A MAX(seq) that was read ends an exchange.
Tops(c, m) ==
  \A r \in Requests : pc[r] = "append" /\ ConversationOf(r) = c =>
    \E k \in 0..m : mem[r].top = 2 * k

\* The history of c is the newest part of a log of m exchanges.
Kept(c, m) == Exchanges(c, m) /\ db.turns[c] = Window(c, m) /\ Pinned(c, m) /\ Tops(c, m)

\* Every conversation has such a log.
LogInv == SeqNeverReused /\ \A c \in Conversations : \E m \in Nat : Kept(c, m)

HistoryInv == TypeInv /\ LogInv
-----------------------------------------------------------------------------
(* Counting turns *)

\* No two turns of T have one number.
Distinct(T) == \A t, u \in T : t.seq = u.seq => t = u

\* Where every number from s + 1 to top is taken once, that many turns are above s.
LEMMA CountAbove ==
  ASSUME NEW T \in SUBSET Turn, Distinct(T), NEW s \in Nat, NEW top \in Nat, s <= top,
         \A j \in s + 1..top : Occupied(T, j), \A t \in T : t.seq <= top
  PROVE  /\ IsFiniteSet({u \in T : u.seq > s})
         /\ Cardinality({u \in T : u.seq > s}) = top - s
<1> DEFINE N == s + 1..top
           A == {u \in T : u.seq > s}
           f == [j \in N |-> CHOOSE t \in T : t.seq = j]
<1>1. IsFiniteSet(N) /\ Cardinality(N) = top - s
  <2>1. s + 1 \in Int /\ top \in Int
    OBVIOUS
  <2>2. IsFiniteSet(N) /\ Cardinality(N) = IF s + 1 > top THEN 0 ELSE top - (s + 1) + 1
    BY <2>1, FS_Interval
  <2>3. (IF s + 1 > top THEN 0 ELSE top - (s + 1) + 1) = top - s
    OBVIOUS
  <2> QED
    BY <2>2, <2>3
<1>2. \A j \in N : f[j] \in T /\ f[j].seq = j
  BY DEF Occupied
<1>3. \A t \in T : t.seq \in Nat
  BY DEF Turn
<1>4. f \in [N -> A]
  BY <1>2
<1>5. \A i, j \in N : f[i] = f[j] => i = j
  BY <1>2
<1>6. \A u \in A : u.seq \in N /\ f[u.seq] = u
  BY <1>2, <1>3 DEF Distinct
<1>7. f \in Bijection(N, A)
  <2>1. f \in Injection(N, A)
    BY <1>4, <1>5 DEF Injection, IsInjective
  <2>2. f \in Surjection(N, A)
    BY <1>4, <1>6 DEF Surjection
  <2> QED
    BY <2>1, <2>2 DEF Bijection
<1>8. ExistsBijection(N, A)
  BY <1>7 DEF ExistsBijection
<1> HIDE DEF N, A
<1>9. IsFiniteSet(A) /\ Cardinality(A) = Cardinality(N)
  BY <1>1, <1>8, FS_Bijection
<1> QED
  BY <1>1, <1>9 DEF A

\* The history limit keeps the last HistoryLimit numbers of a table without gaps.
LEMMA TrimConsecutive ==
  ASSUME NEW T \in SUBSET Turn, Distinct(T), NEW low \in Nat, NEW top \in Nat,
         \A j \in low + 1..top : Occupied(T, j),
         \A t \in T : low < t.seq /\ t.seq <= top
  PROVE  Trim(T) = {t \in T : top < t.seq + HistoryLimit}
<1>1. ASSUME NEW t \in T
      PROVE  Cardinality(Newer(T, t)) < HistoryLimit <=> top < t.seq + HistoryLimit
  <2>1. t.seq \in Nat /\ low < t.seq /\ t.seq <= top
    BY DEF Turn
  <2>2. \A j \in t.seq + 1..top : Occupied(T, j)
    BY <2>1
  <2>3. Cardinality(Newer(T, t)) = top - t.seq
    BY <2>1, <2>2, CountAbove DEF Newer
  <2> QED
    BY <2>1, <2>3, PolicyAssumption
<1> QED
  BY <1>1 DEF Trim

\* What is appended too late, behind a full table, is trimmed at once.
LEMMA TrimLate ==
  ASSUME NEW W \in SUBSET Turn, Distinct(W), NEW top \in Nat, HistoryLimit <= top,
         \A j \in top - HistoryLimit + 1..top : Occupied(W, j),
         \A t \in W : top < t.seq + HistoryLimit /\ t.seq <= top,
         NEW P \in SUBSET Turn, IsFiniteSet(P), \A p \in P : p.seq + HistoryLimit <= top
  PROVE  Trim(W \cup P) = W
<1> DEFINE low == top - HistoryLimit
<1>1. /\ HistoryLimit \in Nat /\ low \in Nat /\ low <= top /\ top - low = HistoryLimit
      /\ \A t \in W \cup P : t.seq \in Nat
      /\ \A j \in low + 1..top : Occupied(W, j)
      /\ \A t \in W : top < t.seq + HistoryLimit => low < t.seq
  BY PolicyAssumption DEF Turn
<1> HIDE DEF low
<1>2. \A t \in W : low < t.seq
  BY <1>1
<1>3. IsFiniteSet(W) /\ Cardinality(W) = HistoryLimit
  <2>1. {u \in W : u.seq > low} = W
    BY <1>1, <1>2
  <2>2. Cardinality({u \in W : u.seq > low}) = top - low /\ IsFiniteSet({u \in W : u.seq > low})
    BY <1>1, CountAbove
  <2> QED
    BY <1>1, <2>1, <2>2
<1>4. ASSUME NEW t \in W
      PROVE  Cardinality(Newer(W \cup P, t)) < HistoryLimit
  <2>1. low < t.seq /\ t.seq <= top /\ t.seq \in Nat /\ top < t.seq + HistoryLimit
    BY <1>1, <1>2
  <2>2. Newer(W \cup P, t) = {u \in W : u.seq > t.seq}
    BY <1>1, <2>1 DEF Newer
  <2>3. \A j \in t.seq + 1..top : Occupied(W, j)
    BY <1>1, <2>1
  <2>4. Cardinality({u \in W : u.seq > t.seq}) = top - t.seq
    BY <2>1, <2>3, CountAbove
  <2>5. top - t.seq < HistoryLimit
    BY <1>1, <2>1
  <2> QED
    BY <2>2, <2>4, <2>5
<1>5. ASSUME NEW p \in P
      PROVE  ~(Cardinality(Newer(W \cup P, p)) < HistoryLimit)
  <2>1. W \subseteq Newer(W \cup P, p)
    BY <1>1, <1>2 DEF Newer
  <2>2. IsFiniteSet(W \cup P)
    BY <1>3, FS_Union
  <2>3. IsFiniteSet(Newer(W \cup P, p))
    BY <2>2, FS_Subset DEF Newer
  <2>4. Cardinality(W) <= Cardinality(Newer(W \cup P, p))
    BY <2>1, <2>3, FS_Subset
  <2>5. Cardinality(Newer(W \cup P, p)) \in Nat
    BY <2>3, FS_CardinalityType
  <2> QED
    BY <1>1, <1>3, <2>4, <2>5
<1>6. \A p \in P : p \notin W
  BY <1>4, <1>5
<1> QED
  BY <1>4, <1>5, <1>6 DEF Trim
-----------------------------------------------------------------------------
(* Windows *)

\* Every number of a log is taken, once.
LEMMA LogNumbers ==
  ASSUME TypeOK, NEW c \in Conversations, NEW m \in Nat, Exchanges(c, m)
  PROVE  /\ Log(c) \in SUBSET Turn
         /\ \A j \in 1..2 * m : Occupied(Log(c), j)
<1>1. Log(c) \in SUBSET Turn
  BY DEF Log, TypeOK
<1>2. ASSUME NEW j \in 1..2 * m PROVE Occupied(Log(c), j)
  <2>1. \E i \in 1..m : j = 2 * i - 1 \/ j = 2 * i
    <3>1. \E i \in Nat : j = 2 * i - 1 \/ j = 2 * i
      <4>1. j \in Nat
        OBVIOUS
      <4>2. (j + 1) \div 2 \in Nat /\ (j = 2 * ((j + 1) \div 2) - 1 \/ j = 2 * ((j + 1) \div 2))
        BY <4>1
      <4> QED
        BY <4>2
    <3> QED
      BY <3>1
  <2> QED
    BY <2>1 DEF Exchanges, Occupied, UserTurn, AssistantTurn
<1> QED
  BY <1>1, <1>2

\* The numbers of a window, and its newest one.
LEMMA WindowNumbers ==
  ASSUME TypeOK, SeqNeverReused, NEW c \in Conversations, NEW m \in Nat, Exchanges(c, m),
         NEW k \in 0..m
  PROVE  /\ Window(c, k) \in SUBSET Turn /\ Distinct(Window(c, k)) /\ Bounded(Window(c, k))
         /\ \A j \in 1..2 * k : 2 * k < j + HistoryLimit => Occupied(Window(c, k), j)
         /\ \A t \in Window(c, k) : t.seq \in 1..2 * k /\ 2 * k < t.seq + HistoryLimit
         /\ MaxSeq(Window(c, k)) = 2 * k
<1> DEFINE W == Window(c, k)
<1>1. W \in SUBSET Turn
  BY LogNumbers DEF Window
<1>2. Distinct(W)
  BY DEF Distinct, Window, Log, SeqNeverReused
<1>3. \A t \in W : t.seq \in 1..2 * k /\ 2 * k < t.seq + HistoryLimit
  BY <1>1 DEF Window, Turn
<1>4. Bounded(W)
  <2>1. 2 * k \in Nat
    OBVIOUS
  <2> QED
    BY <1>3, <2>1 DEF Bounded
<1>5. ASSUME NEW j \in 1..2 * k, 2 * k < j + HistoryLimit PROVE Occupied(W, j)
  <2>1. j \in 1..2 * m
    OBVIOUS
  <2> QED
    BY <1>5, <2>1, LogNumbers DEF Occupied, Window
<1> HIDE DEF W
<1>6. MaxSeq(W) = 2 * k
  <2>1. /\ MaxSeq(W) \in Nat /\ \A t \in W : t.seq <= MaxSeq(W)
        /\ W # {} => \E t \in W : t.seq = MaxSeq(W)
    BY <1>1, <1>4, MaxSeqFacts
  <2>2. CASE k = 0
    <3>1. W = {}
      BY <1>3, <2>2
    <3> QED
      BY <2>2, <3>1 DEF MaxSeq
  <2>3. CASE k # 0
    <3>1. Occupied(W, 2 * k)
      BY <1>5, <2>3, PolicyAssumption
    <3>2. PICK t \in W : t.seq = 2 * k
      BY <3>1 DEF Occupied
    <3> QED
      BY <1>3, <2>1, <3>2
  <2> QED
    BY <2>2, <2>3
<1> QED
  BY <1>1, <1>2, <1>3, <1>4, <1>5, <1>6 DEF W

\* A connection reads a window of the log, and writes from the newest.
LEMMA ReadsWindow ==
  ASSUME NEW c \in Conversations, NEW m \in Nat, Kept(c, m), NEW w \in Workers
  PROVE  /\ \E k \in 0..m : View(w).turns[c] = Window(c, k)
         /\ CanWrite(w) => View(w).turns[c] = db.turns[c]
<1>1. m \in 0..m /\ db.turns[c] = Window(c, m)
  BY DEF Kept
<1> QED
  BY <1>1 DEF Kept, Pinned, View, CanWrite
-----------------------------------------------------------------------------
(* Steps that append nothing *)

\* w's view in the next state is one it had, no fresher, or the database.
Held(w, c) ==
  conn'[w].txn \in {"read", "write"} =>
    \/ conn'[w].view.turns[c] = db'.turns[c]
    \/ /\ conn[w].txn \in {"read", "write"}
       /\ conn'[w].view.turns[c] = conn[w].view.turns[c]
       /\ conn'[w].stale

\* r holds the number it held, or the MAX(seq) of what a connection reads.
TopRead(r) ==
  pc'[r] = "append" =>
    \/ pc[r] = "append" /\ mem'[r].top = mem[r].top
    \/ \E w \in Workers : mem'[r].top = MaxSeq(View(w).turns[ConversationOf(r)])

\* A step that leaves the turns of c alone keeps its log.
LEMMA KeptStill ==
  ASSUME TypeOK, SeqNeverReused, NEW c \in Conversations, NEW m \in Nat, Kept(c, m),
         Log(c)' = Log(c), db'.turns[c] = db.turns[c],
         \A w \in Workers : Held(w, c), \A r \in Requests : TopRead(r)
  PROVE  Kept(c, m)'
<1>1. Log(c)' = Log(c) /\ \A k : Window(c, k)' = Window(c, k)
  BY DEF Window
<1>2. Exchanges(c, m)' /\ db'.turns[c] = Window(c, m)'
  BY <1>1 DEF Kept, Exchanges
<1>3. m \in 0..m /\ db'.turns[c] = Window(c, m)
  BY DEF Kept
<1>4. ASSUME NEW w \in Workers, conn'[w].txn \in {"read", "write"}
      PROVE  /\ \E k \in 0..m : conn'[w].view.turns[c] = Window(c, k)
             /\ ~conn'[w].stale => conn'[w].view.turns[c] = db'.turns[c]
  <2>1. Held(w, c)
    OBVIOUS
  <2> QED
    BY <1>3, <1>4, <2>1 DEF Held, Kept, Pinned
<1>5. Pinned(c, m)'
  BY <1>1, <1>4 DEF Pinned
<1>6. ASSUME NEW r \in Requests, pc'[r] = "append", ConversationOf(r) = c
      PROVE  \E k \in 0..m : mem'[r].top = 2 * k
  <2>1. CASE pc[r] = "append" /\ mem'[r].top = mem[r].top
    BY <1>6, <2>1 DEF Kept, Tops
  <2>2. CASE \E w \in Workers : mem'[r].top = MaxSeq(View(w).turns[c])
    <3>1. PICK w \in Workers : mem'[r].top = MaxSeq(View(w).turns[c])
      BY <2>2
    <3>2. PICK k \in 0..m : View(w).turns[c] = Window(c, k)
      BY ReadsWindow
    <3> QED
      BY <3>1, <3>2, WindowNumbers DEF Kept
  <2> QED
    BY <1>6, <2>1, <2>2 DEF TopRead
<1>7. Tops(c, m)'
  BY <1>6 DEF Tops, ConversationOf
<1> QED
  BY <1>2, <1>5, <1>7 DEF Kept

LEMMA LogStill ==
  ASSUME HistoryInv, recorded' = recorded,
         \A c \in Conversations : db'.turns[c] = db.turns[c] /\ \A w \in Workers : Held(w, c),
         \A r \in Requests : TopRead(r)
  PROVE  LogInv'
<1>1. SeqNeverReused'
  BY DEF HistoryInv, LogInv, SeqNeverReused, ConversationOf
<1>2. ASSUME NEW c \in Conversations PROVE \E m \in Nat : Kept(c, m)'
  <2>1. Log(c)' = Log(c)
    BY DEF Log, ConversationOf
  <2> QED
    BY <2>1, KeptStill DEF HistoryInv, LogInv, TypeInv
<1> QED
  BY <1>1, <1>2 DEF LogInv

\* An unchanged connection holds what it held.
LEMMA SameConnection ==
  ASSUME HistoryInv, NEW c \in Conversations, NEW w \in Workers,
         conn'[w] = conn[w], db'.turns[c] = db.turns[c]
  PROVE  Held(w, c)
BY DEF HistoryInv, LogInv, Kept, Pinned, Held, TypeInv, TypeOK, Connection

LEMMA SelectKeepsLog ==
  ASSUME HistoryInv, NEW r \in Requests, NEW from, NEW to, NEW l, from # "queued",
         Select(r, from, to, l),
         to = "append" => l.top = MaxSeq(View(host[r]).turns[ConversationOf(r)])
  PROVE  LogInv'
<1>1. /\ host[r] \in Workers /\ pc \in [Requests -> Steps] /\ mem \in [Requests -> Locals]
      /\ conn \in [Workers -> Connection]
  BY RunningHost DEF HistoryInv, TypeInv, TypeOK, Select, Runs
<1>2. /\ pc' = [pc EXCEPT ![r] = to] /\ mem' = [mem EXCEPT ![r] = l]
      /\ conn' = [conn EXCEPT ![host[r]] = AfterRead(host[r])]
      /\ db' = db /\ recorded' = recorded
  BY DEF Select, Goto
<1>3. ASSUME NEW c \in Conversations, NEW w \in Workers PROVE Held(w, c)
  <2>1. CASE conn'[w] = conn[w]
    BY <1>2, <2>1, SameConnection
  <2>2. CASE conn'[w] # conn[w]
    <3>1. w = host[r] /\ conn'[w] = [txn |-> "read", view |-> db, stale |-> FALSE]
      BY <1>1, <1>2, <2>2 DEF AfterRead
    <3> QED
      BY <1>2, <3>1 DEF Held
  <2> QED
    BY <2>1, <2>2
<1>4. ASSUME NEW q \in Requests PROVE TopRead(q)
  BY <1>1, <1>2 DEF TopRead
<1> QED
  BY <1>2, <1>3, <1>4, LogStill

\* Connections after a commit of w: its own is closed, pinned ones are stale.
LEMMA CommitHolds ==
  ASSUME HistoryInv, NEW w \in Workers, CanWrite(w), NEW new, Commit(w, new),
         NEW v \in Workers, conn'[v].txn \in {"read", "write"}
  PROVE  /\ conn[v].txn \in {"read", "write"} /\ conn'[v].view = conn[v].view
         /\ conn'[v].stale
<1>1. conn[v] \in Connection
  BY DEF HistoryInv, TypeInv, TypeOK
<1>2. CASE v = w
  BY <1>2 DEF Commit, AutoCommit
<1>3. CASE v # w
  BY <1>1, <1>3 DEF Commit, Connection, CanWrite, LockedByOther
<1> QED
  BY <1>2, <1>3

\* What a commit adds to the log, if its tables are windows already: nothing.
LEMMA CommitRecords ==
  ASSUME HistoryInv, NEW w \in Workers, NEW new, Commit(w, new),
         \A c \in Conversations : new.turns[c] = db.turns[c]
  PROVE  recorded' = recorded
<1>1. \A c \in Conversations : db.turns[c] \subseteq recorded
  BY DEF HistoryInv, LogInv, Kept, Window, Log
<1> QED
  BY <1>1 DEF Commit

\* A commit of something else than turns.
LEMMA WriteKeepsLog ==
  ASSUME HistoryInv, NEW r \in Requests, NEW from, NEW to, NEW new, NEW l, from # "queued",
         Write(r, from, to, new, l), to # "append", new.turns = View(host[r]).turns
  PROVE  LogInv'
<1>1. host[r] \in Workers /\ pc \in [Requests -> Steps] /\ mem \in [Requests -> Locals]
  BY RunningHost DEF HistoryInv, TypeInv, TypeOK, Write, Runs
<1>2. /\ pc' = [pc EXCEPT ![r] = to] /\ mem' = [mem EXCEPT ![r] = l]
      /\ CanWrite(host[r]) /\ Commit(host[r], new) /\ db' = new
  BY DEF Write, Goto, Commit
<1>3. \A c \in Conversations : new.turns[c] = db.turns[c]
  BY <1>1, <1>2, ReadsWindow DEF HistoryInv, LogInv
<1>4. recorded' = recorded
  BY <1>1, <1>2, <1>3, CommitRecords
<1>5. \A c \in Conversations : \A w \in Workers : Held(w, c)
  BY <1>1, <1>2, CommitHolds DEF Held
<1>6. \A q \in Requests : TopRead(q)
  BY <1>1, <1>2 DEF TopRead
<1> QED
  BY <1>2, <1>3, <1>4, <1>5, <1>6, LogStill
-----------------------------------------------------------------------------
(* append_turns *)

\* The table an append writes to, and the number it starts from.
LEMMA AppendReads ==
  ASSUME HistoryInv, NEW r \in Requests, pc[r] = "append", CanWrite(host[r]),
         NEW c, c = ConversationOf(r)
  PROVE  /\ host[r] \in Workers /\ c \in Conversations
         /\ View(host[r]) \in Database
         /\ \A d \in Conversations : View(host[r]).turns[d] = db.turns[d]
         /\ \E m \in Nat : /\ Kept(c, m) /\ View(host[r]).turns[c] = Window(c, m)
                          /\ \E k \in 0..m : mem[r].top = 2 * k
<1>1. host[r] \in Workers /\ c \in Conversations /\ View(host[r]) \in Database
  BY Readings DEF HistoryInv, GoodDatabase
<1>2. PICK m \in Nat : Kept(c, m)
  BY <1>1 DEF HistoryInv, LogInv
<1>3. \A d \in Conversations : View(host[r]).turns[d] = db.turns[d]
  BY <1>1, ReadsWindow DEF HistoryInv, LogInv
<1>4. db.turns[c] = Window(c, m) /\ \E k \in 0..m : mem[r].top = 2 * k
  BY <1>2 DEF Kept, Tops
<1> QED
  BY <1>1, <1>2, <1>3, <1>4

\* The next exchange, at the end of the log.
LEMMA AppendLast ==
  ASSUME HistoryInv, NEW r \in Requests, NEW c, c = ConversationOf(r), NEW m \in Nat,
         Kept(c, m), mem[r].top = 2 * m, View(host[r]).turns[c] = Window(c, m), AppendTurns(r)
  PROVE  LogInv'
<1> DEFINE u == UserTurn(2 * m + 1, r)
           a == AssistantTurn(2 * m + 2, r)
           T == Window(c, m) \cup {u, a}
           new == [View(host[r]) EXCEPT !.turns[c] = Trim(T)]
<1>1. Runs(r, "append") /\ CanWrite(host[r]) /\ Write(r, "append", "turns", new, mem[r])
  <2>1. mem[r].top + 1 = 2 * m + 1 /\ 2 * m + 1 + 1 = 2 * m + 2
    OBVIOUS
  <2> QED
    BY <2>1 DEF AppendTurns, Write
<1>2. /\ host[r] \in Workers /\ c \in Conversations /\ View(host[r]) \in Database
      /\ \A d \in Conversations : View(host[r]).turns[d] = db.turns[d]
  BY <1>1, AppendReads DEF Runs
<1>3. /\ u \in Turn /\ a \in Turn /\ u.seq = 2 * m + 1 /\ a.seq = 2 * m + 2
      /\ u.req = r /\ a.req = r /\ u # a
  BY DEF UserTurn, AssistantTurn, Turn
<1>4. /\ Window(c, m) \in SUBSET Turn /\ Distinct(Window(c, m))
      /\ \A j \in 1..2 * m : 2 * m < j + HistoryLimit => Occupied(Window(c, m), j)
      /\ \A t \in Window(c, m) : t.seq \in 1..2 * m /\ 2 * m < t.seq + HistoryLimit
  <2>1. m \in 0..m
    OBVIOUS
  <2> QED
    BY <1>2, <2>1, WindowNumbers DEF HistoryInv, LogInv, TypeInv, Kept
<1>5. Log(c) \in SUBSET Turn /\ \A t \in Log(c) : t.seq <= 2 * m /\ t.seq \in Nat
  BY <1>2, LogNumbers DEF HistoryInv, TypeInv, Kept, Exchanges, Turn
<1>6. HistoryLimit \in Nat /\ HistoryLimit >= 2
  BY PolicyAssumption
<1> HIDE DEF u, a
<1>7. Trim(T) = {t \in T : 2 * m + 2 < t.seq + HistoryLimit}
  <2>1. Distinct(T)
    BY <1>3, <1>4 DEF Distinct
  <2>2. PICK low \in Nat :
          \/ HistoryLimit <= 2 * m /\ low = 2 * m - HistoryLimit
          \/ 2 * m < HistoryLimit /\ low = 0
    <3>1. CASE HistoryLimit <= 2 * m
      <4>1. 2 * m - HistoryLimit \in Nat
        BY <1>6, <3>1
      <4> QED
        BY <3>1, <4>1
    <3>2. CASE 2 * m < HistoryLimit
      BY <3>2
    <3> QED
      BY <1>6, <3>1, <3>2
  <2>3. \A t \in T : low < t.seq /\ t.seq <= 2 * m + 2
    BY <1>3, <1>4, <1>6, <2>2
  <2>4. \A j \in low + 1..2 * m + 2 : Occupied(T, j)
    <3>1. \A j \in low + 1..2 * m : Occupied(Window(c, m), j)
      BY <1>4, <1>6, <2>2
    <3> QED
      BY <1>3, <3>1 DEF Occupied
  <2>5. T \in SUBSET Turn
    BY <1>3, <1>4
  <2> HIDE DEF T
  <2>6. 2 * m + 2 \in Nat
    OBVIOUS
  <2> QED
    BY <2>1, <2>3, <2>4, <2>5, <2>6, TrimConsecutive
<1>8. u \in Trim(T) /\ a \in Trim(T) /\ Trim(T) \subseteq Window(c, m) \cup {u, a}
  <2>1. 2 * m + 2 < u.seq + HistoryLimit /\ 2 * m + 2 < a.seq + HistoryLimit
    BY <1>3, <1>6
  <2>2. u \in T /\ a \in T
    OBVIOUS
  <2>3. Trim(T) \subseteq T
    BY TrimRemoves
  <2>4. u \in Trim(T) /\ a \in Trim(T)
    <3> HIDE DEF T
    <3> QED
      BY <1>7, <2>1, <2>2
  <2> QED
    BY <2>3, <2>4
<1> HIDE DEF T
<1>9. /\ new.turns[c] = Trim(T)
      /\ \A d \in Conversations \ {c} : new.turns[d] = db.turns[d]
  BY <1>2 DEF Database
<1> HIDE DEF new
<1>10. Commit(host[r], new) /\ db' = new /\ pc' = [pc EXCEPT ![r] = "turns"]
       /\ mem' = [mem EXCEPT ![r] = mem[r]]
  BY <1>1 DEF Write, Commit, Goto
<1>11. recorded' = recorded \cup {u, a}
  <2>1. \A d \in Conversations : new.turns[d] \subseteq recorded \cup {u, a}
    BY <1>8, <1>9 DEF HistoryInv, LogInv, Kept, Window, Log
  <2> QED
    BY <1>2, <1>8, <1>9, <1>10, <2>1 DEF Commit
<1>12. /\ Log(c)' = Log(c) \cup {u, a}
       /\ \A d \in Conversations \ {c} : Log(d)' = Log(d)
  BY <1>3, <1>11 DEF Log, ConversationOf
<1>13. SeqNeverReused'
  <2>1. ASSUME NEW t \in recorded', NEW v \in recorded', t.seq = v.seq,
               ConversationOf(t.req) = ConversationOf(v.req)
        PROVE  t = v
    <3>1. CASE t \in recorded /\ v \in recorded
      BY <2>1, <3>1 DEF HistoryInv, LogInv, SeqNeverReused
    <3>2. CASE t \in {u, a} /\ v \in recorded
      <4>1. v \in Log(c)
        BY <1>3, <2>1, <3>2 DEF Log
      <4> QED
        BY <1>3, <1>5, <2>1, <3>2, <4>1
    <3>3. CASE v \in {u, a} /\ t \in recorded
      <4>1. t \in Log(c)
        BY <1>3, <2>1, <3>3 DEF Log
      <4> QED
        BY <1>3, <1>5, <2>1, <3>3, <4>1
    <3>4. CASE t \in {u, a} /\ v \in {u, a}
      BY <1>3, <2>1, <3>4
    <3> QED
      BY <1>11, <3>1, <3>2, <3>3, <3>4
  <2> QED
    BY <2>1 DEF SeqNeverReused, ConversationOf
<1>14. \A w \in Workers : conn'[w].txn \in {"read", "write"} =>
         conn[w].txn \in {"read", "write"} /\ conn'[w].view = conn[w].view /\ conn'[w].stale
  BY <1>1, <1>2, <1>10, CommitHolds
<1>15. pc \in [Requests -> Steps] /\ mem \in [Requests -> Locals]
  BY DEF HistoryInv, TypeInv, TypeOK
<1>16. Kept(c, m + 1)'
  <2>1. \A k \in 0..m : Window(c, k)' = Window(c, k)
    BY <1>3, <1>5, <1>12 DEF Window
  <2>2. Exchanges(c, m + 1)'
    <3>1. \A t \in Log(c)' : t.seq <= 2 * (m + 1)
      BY <1>3, <1>5, <1>12
    <3>2. ASSUME NEW i \in 1..m + 1
          PROVE  \E q \in Requests :
                   UserTurn(2 * i - 1, q) \in Log(c)' /\ AssistantTurn(2 * i, q) \in Log(c)'
      <4>1. CASE i \in 1..m
        BY <1>12, <4>1 DEF Kept, Exchanges
      <4>2. CASE i = m + 1
        <5>1. 2 * i - 1 = 2 * m + 1 /\ 2 * i = 2 * m + 2
          BY <4>2
        <5> QED
          BY <1>12, <5>1 DEF u, a
      <4> QED
        BY <4>1, <4>2
    <3> QED
      BY <3>1, <3>2 DEF Exchanges, UserTurn, AssistantTurn
  <2>3. db'.turns[c] = Window(c, m + 1)'
    <3>1. Window(c, m + 1)' = {t \in Log(c)' : t.seq <= 2 * (m + 1) /\ 2 * (m + 1) < t.seq + HistoryLimit}
      BY DEF Window
    <3>2. \A t \in Log(c) : 2 * (m + 1) < t.seq + HistoryLimit => t \in Window(c, m)
      BY <1>5, <1>6 DEF Window
    <3>3. 2 * (m + 1) = 2 * m + 2 /\ \A t \in Log(c) : t.seq <= 2 * m + 2
      BY <1>5
    <3>4. Window(c, m) \subseteq Log(c)
      BY DEF Window
    <3>5. \A t : t \in T /\ 2 * m + 2 < t.seq + HistoryLimit <=>
                t \in Log(c)' /\ t.seq <= 2 * (m + 1) /\ 2 * (m + 1) < t.seq + HistoryLimit
      <4>1. ASSUME NEW t \in {u, a}
            PROVE  t \in T /\ t \in Log(c)' /\ t.seq <= 2 * m + 2
        BY <1>3, <1>12 DEF T
      <4>2. ASSUME NEW t \in Log(c), 2 * (m + 1) < t.seq + HistoryLimit
            PROVE  t \in T
        BY <3>2, <4>2 DEF T
      <4>3. ASSUME NEW t \in Log(c) PROVE t \in Log(c)' /\ t.seq <= 2 * m + 2
        BY <1>12, <3>3
      <4>4. \A t : t \in T => t \in Log(c) \/ t \in {u, a}
        BY <3>4 DEF T
      <4>5. \A t : t \in Log(c)' => t \in Log(c) \/ t \in {u, a}
        BY <1>12
      <4> QED
        BY <3>3, <4>1, <4>2, <4>3, <4>4, <4>5
    <3>6. db'.turns[c] = {t \in T : 2 * m + 2 < t.seq + HistoryLimit}
      BY <1>7, <1>9, <1>10
    <3> QED
      BY <3>1, <3>5, <3>6
  <2>4. Pinned(c, m + 1)'
    <3>1. ASSUME NEW w \in Workers, conn'[w].txn \in {"read", "write"}
          PROVE  /\ \E k \in 0..m + 1 : conn'[w].view.turns[c] = Window(c, k)'
                 /\ conn'[w].stale
      <4>1. PICK k \in 0..m : conn[w].view.turns[c] = Window(c, k)
        BY <1>14, <3>1 DEF Kept, Pinned
      <4>2. k \in 0..m + 1
        OBVIOUS
      <4> QED
        BY <1>14, <2>1, <3>1, <4>1, <4>2
    <3> QED
      BY <3>1 DEF Pinned
  <2>5. Tops(c, m + 1)'
    <3>1. ASSUME NEW q \in Requests, pc'[q] = "append", ConversationOf(q) = c
          PROVE  \E k \in 0..m + 1 : mem'[q].top = 2 * k
      <4>1. pc[q] = "append" /\ mem'[q] = mem[q]
        BY <1>10, <1>15, <3>1
      <4>2. PICK k \in 0..m : mem[q].top = 2 * k
        BY <3>1, <4>1 DEF Kept, Tops
      <4>3. k \in 0..m + 1
        OBVIOUS
      <4> QED
        BY <4>1, <4>2, <4>3
    <3> QED
      BY <3>1 DEF Tops, ConversationOf
  <2> QED
    BY <2>2, <2>3, <2>4, <2>5 DEF Kept
<1>17. ASSUME NEW d \in Conversations, d # c PROVE \E k \in Nat : Kept(d, k)'
  <2>1. \A w \in Workers : Held(w, d)
    BY <1>14 DEF Held
  <2>2. \A q \in Requests : TopRead(q)
    BY <1>10, <1>15 DEF TopRead
  <2> QED
    BY <1>9, <1>10, <1>12, <1>17, <2>1, <2>2, KeptStill DEF HistoryInv, LogInv, TypeInv
<1> QED
  <2>1. m + 1 \in Nat
    OBVIOUS
  <2> QED
    BY <1>13, <1>16, <1>17, <2>1 DEF LogInv

\* An exchange numbered from a MAX(seq) that the history limit has overtaken leaves
\* the table as it was.
LEMMA AppendLate ==
  ASSUME EvenLimit, HistoryInv, NEW r \in Requests, NEW c, c = ConversationOf(r), NEW m \in Nat,
         NEW k \in 0..m, k # m, Kept(c, m), mem[r].top = 2 * k,
         View(host[r]).turns[c] = Window(c, m), AppendTurns(r)
  PROVE  LogInv'
<1> DEFINE n == 2 * k + 1
           P == {UserTurn(n, r), AssistantTurn(n + 1, r)}
           W == Window(c, m)
           new == [View(host[r]) EXCEPT !.turns[c] = Trim(W \cup P)]
<1>1. /\ Runs(r, "append") /\ CanWrite(host[r]) /\ Write(r, "append", "turns", new, mem[r])
      /\ ~Occupied(W, n)
  BY DEF AppendTurns, Write
<1>2. /\ host[r] \in Workers /\ c \in Conversations /\ View(host[r]) \in Database
  BY <1>1, AppendReads DEF Runs
<1>3. /\ W \in SUBSET Turn /\ Distinct(W)
      /\ \A j \in 1..2 * m : 2 * m < j + HistoryLimit => Occupied(W, j)
      /\ \A t \in W : t.seq \in 1..2 * m /\ 2 * m < t.seq + HistoryLimit
  <2>1. m \in 0..m
    OBVIOUS
  <2> QED
    BY <1>2, <2>1, WindowNumbers DEF HistoryInv, LogInv, TypeInv, Kept
<1>4. PICK h \in Nat : HistoryLimit = 2 * h /\ h >= 1
  BY PolicyAssumption DEF EvenLimit
<1> HIDE DEF W
<1>5. 2 * k + 2 + HistoryLimit <= 2 * m
  <2>1. n \in 1..2 * m
    OBVIOUS
  <2>2. n + HistoryLimit <= 2 * m
    BY <1>1, <1>3, <1>4, <2>1
  <2> QED
    BY <1>4, <2>2
<1>6. /\ P \in SUBSET Turn /\ IsFiniteSet(P)
      /\ \A p \in P : p.seq + HistoryLimit <= 2 * m
  <2>1. \A p \in P : p.seq \in {2 * k + 1, 2 * k + 2} /\ p \in Turn
    BY DEF UserTurn, AssistantTurn, Turn
  <2>2. IsFiniteSet(P)
    <3>1. P = {UserTurn(n, r)} \cup {AssistantTurn(n + 1, r)}
      OBVIOUS
    <3>2. IsFiniteSet({UserTurn(n, r)}) /\ IsFiniteSet({AssistantTurn(n + 1, r)})
      BY FS_Singleton
    <3> QED
      BY <3>1, <3>2, FS_Union
  <2> QED
    BY <1>4, <1>5, <2>1, <2>2
<1>7. Trim(W \cup P) = W
  <2>1. 2 * m \in Nat /\ HistoryLimit <= 2 * m /\ HistoryLimit \in Nat
    BY <1>4, <1>5
  <2>2. \A j \in 2 * m - HistoryLimit + 1..2 * m : Occupied(W, j)
    BY <1>3, <2>1
  <2>3. \A t \in W : 2 * m < t.seq + HistoryLimit /\ t.seq <= 2 * m
    BY <1>3
  <2> HIDE DEF P
  <2> QED
    BY <1>3, <1>6, <2>1, <2>2, <2>3, TrimLate
<1>8. new.turns = View(host[r]).turns
  BY <1>2, <1>7 DEF Database, W
<1> HIDE DEF new
<1> QED
  BY <1>1, <1>8, WriteKeepsLog

LEMMA AppendKeepsLog ==
  ASSUME EvenLimit, HistoryInv, NEW r \in Requests, AppendTurns(r)
  PROVE  LogInv'
<1> DEFINE c == ConversationOf(r)
<1>1. PICK m \in Nat : /\ Kept(c, m) /\ View(host[r]).turns[c] = Window(c, m)
                       /\ \E k \in 0..m : mem[r].top = 2 * k
  BY AppendReads DEF AppendTurns, Write, Runs
<1> QED
  BY <1>1, AppendLast, AppendLate

\* An append that fails has inserted nothing: where the first number is free, so is
\* the second.
LEMMA ConflictKeepsLog ==
  ASSUME EvenLimit, HistoryInv, NEW r \in Requests, AppendConflicts(r)
  PROVE  LogInv'
<1> DEFINE c == ConversationOf(r)
           n == mem[r].top + 1
           table == View(host[r]).turns[c]
           left == IF Occupied(table, n) THEN table ELSE table \cup {UserTurn(n, r)}
           view == [View(host[r]) EXCEPT !.turns[c] = left]
<1>1. /\ pc[r] = "append" /\ CanWrite(host[r]) /\ \E j \in {n, n + 1} : Occupied(table, j)
      /\ conn' = [conn EXCEPT ![host[r]] = Stranded(view)]
      /\ pc' = [pc EXCEPT ![r] = "failed"] /\ mem' = [mem EXCEPT ![r] = NoLocals]
      /\ db' = db /\ recorded' = recorded
  BY DEF AppendConflicts, Runs, Raise, Finish
<1>2. /\ host[r] \in Workers /\ c \in Conversations /\ View(host[r]) \in Database
      /\ \A d \in Conversations : View(host[r]).turns[d] = db.turns[d]
  BY <1>1, AppendReads
<1>3. PICK m \in Nat : /\ Kept(c, m) /\ table = Window(c, m)
                       /\ \E k \in 0..m : mem[r].top = 2 * k
  BY <1>1, AppendReads
<1>4. PICK k \in 0..m : mem[r].top = 2 * k
  BY <1>3
<1>5. Occupied(table, n)
  <2>1. /\ \A j \in 1..2 * m : 2 * m < j + HistoryLimit => Occupied(table, j)
        /\ \A t \in table : t.seq \in 1..2 * m /\ 2 * m < t.seq + HistoryLimit
    <3>1. m \in 0..m
      OBVIOUS
    <3> QED
      BY <1>2, <1>3, <3>1, WindowNumbers DEF HistoryInv, LogInv, TypeInv, Kept
  <2>2. PICK h \in Nat : HistoryLimit = 2 * h
    BY DEF EvenLimit
  <2> HIDE DEF table
  <2>3. CASE Occupied(table, n + 1)
    <3>1. 2 * k + 2 \in 1..2 * m /\ 2 * m < 2 * k + 2 + 2 * h
      BY <1>4, <2>1, <2>2, <2>3 DEF Occupied
    <3>2. n \in 1..2 * m /\ 2 * m < n + 2 * h
      BY <1>4, <3>1
    <3> QED
      BY <2>1, <2>2, <3>2
  <2> QED
    BY <1>1, <2>3 DEF table
<1>6. view.turns = View(host[r]).turns
  BY <1>2, <1>5 DEF Database
<1> HIDE DEF view
<1>7. conn \in [Workers -> Connection] /\ pc \in [Requests -> Steps] /\ mem \in [Requests -> Locals]
  BY DEF HistoryInv, TypeInv, TypeOK
<1>8. ASSUME NEW d \in Conversations, NEW w \in Workers PROVE Held(w, d)
  <2>1. CASE w = host[r]
    <3>1. conn'[w].view.turns[d] = db'.turns[d]
      BY <1>1, <1>2, <1>6, <1>7, <2>1 DEF Stranded
    <3> QED
      BY <3>1 DEF Held
  <2>2. CASE w # host[r]
    <3>1. conn'[w] = conn[w] /\ db'.turns[d] = db.turns[d]
      BY <1>1, <1>7, <2>2
    <3> QED
      BY <3>1, SameConnection
  <2> QED
    BY <2>1, <2>2
<1>9. \A q \in Requests : TopRead(q)
  BY <1>1, <1>7 DEF TopRead
<1> QED
  BY <1>1, <1>8, <1>9, LogStill
-----------------------------------------------------------------------------
(* The other actions *)

LEMMA ReadsKeepLog ==
  ASSUME HistoryInv, NEW r \in Requests,
         Check(r) \/ ReadHistory(r) \/ ReadContext(r) \/ ReadTop(r) \/ ReadTurns(r) \/ ReadState(r)
  PROVE  LogInv'
<1>1. CASE ReadTop(r)
  <2> DEFINE l == [mem[r] EXCEPT !.top = MaxSeq(View(host[r]).turns[ConversationOf(r)])]
  <2>1. Select(r, "top", "append", l)
    BY <1>1 DEF ReadTop
  <2>2. l.top = MaxSeq(View(host[r]).turns[ConversationOf(r)])
    <3>1. mem[r] \in Locals
      BY DEF HistoryInv, TypeInv, TypeOK
    <3> QED
      BY <3>1 DEF Locals
  <2> HIDE DEF l
  <2> QED
    BY <2>1, <2>2, SelectKeepsLog
<1>2. CASE Check(r) \/ ReadHistory(r) \/ ReadContext(r) \/ ReadTurns(r) \/ ReadState(r)
  <2>1. PICK from, to, l : from # "queued" /\ to # "append" /\ Select(r, from, to, l)
    <3>1. CASE Check(r)
      BY <3>1 DEF Check
    <3>2. CASE ReadHistory(r) \/ ReadContext(r)
      BY <3>2 DEF ReadHistory, ReadContext
    <3>3. CASE ReadTurns(r)
      BY <3>3 DEF ReadTurns
    <3>4. CASE ReadState(r)
      BY <3>4 DEF ReadState
    <3> QED
      BY <1>2, <3>1, <3>2, <3>3, <3>4
  <2> QED
    BY <2>1, SelectKeepsLog
<1> QED
  BY <1>1, <1>2

LEMMA WritesKeepLog ==
  ASSUME HistoryInv, NEW r \in Requests, UpsertConversation(r) \/ SaveSummary(r) \/ SaveReply(r)
  PROVE  LogInv'
<1>1. PICK from, to, new, l :
        /\ from # "queued" /\ to # "append" /\ new.turns = View(host[r]).turns
        /\ Write(r, from, to, new, l)
  <2>1. View(host[r]) \in Database
    BY Readings DEF HistoryInv, UpsertConversation, SaveSummary, SaveReply, Write, Runs, GoodDatabase
  <2> QED
    BY <2>1 DEF UpsertConversation, SaveSummary, SaveReply, Database
<1> QED
  BY <1>1, WriteKeepsLog

LEMMA RefusalKeepsLog ==
  ASSUME HistoryInv, NEW r \in Requests, WriteRefused(r)
  PROVE  LogInv'
<1>1. /\ host[r] \in Workers /\ conn \in [Workers -> Connection] /\ pc \in [Requests -> Steps]
      /\ conn' = [conn EXCEPT ![host[r]] = AfterRefusal(host[r])]
      /\ pc' = [pc EXCEPT ![r] = "failed"] /\ mem' = [mem EXCEPT ![r] = NoLocals]
      /\ db' = db /\ recorded' = recorded
  BY RunningHost DEF WriteRefused, Runs, Raise, Finish, HistoryInv, TypeInv, TypeOK
<1>2. ASSUME NEW d \in Conversations, NEW w \in Workers PROVE Held(w, d)
  <2>1. CASE conn'[w] = conn[w]
    BY <1>1, <2>1, SameConnection
  <2>2. CASE conn'[w] # conn[w]
    <3>1. conn'[w].txn = "begun"
      BY <1>1, <2>2 DEF AfterRefusal, Connection
    <3> QED
      BY <3>1 DEF Held
  <2> QED
    BY <2>1, <2>2
<1>3. mem \in [Requests -> Locals]
  BY DEF HistoryInv, TypeInv, TypeOK
<1>4. \A q \in Requests : TopRead(q)
  BY <1>1, <1>3 DEF TopRead
<1> QED
  BY <1>1, <1>2, <1>4, LogStill

\* The steps that reach no database.
LEMMA OthersKeepLog ==
  ASSUME HistoryInv, NEW r \in Requests,
         \/ \E w \in Workers : Start(r, w)
         \/ RunInThread(r) \/ RunReturns(r) \/ RunRaises(r) \/ SummaryEmpty(r) \/ Return(r)
  PROVE  LogInv'
<1>1. pc \in [Requests -> Steps] /\ mem \in [Requests -> Locals]
  BY DEF HistoryInv, TypeInv, TypeOK
<1>2. conn' = conn /\ db' = db /\ recorded' = recorded
  BY DEF Start, RunInThread, RunReturns, RunRaises, SummaryEmpty, Return
<1>3. \A c \in Conversations, w \in Workers : Held(w, c)
  BY <1>2, SameConnection
<1>4. ASSUME NEW q \in Requests PROVE TopRead(q)
  <2>1. CASE RunInThread(r) \/ (\E w \in Workers : Start(r, w)) \/ RunReturns(r) \/ SummaryEmpty(r)
    BY <1>1, <2>1 DEF Start, RunInThread, RunReturns, SummaryEmpty, Goto, TopRead
  <2>2. CASE RunRaises(r) \/ Return(r)
    BY <1>1, <2>2 DEF RunRaises, Return, Raise, Finish, TopRead
  <2> QED
    BY <2>1, <2>2
<1> QED
  BY <1>2, <1>3, <1>4, LogStill

LEMMA CrashKeepsLog ==
  ASSUME HistoryInv, NEW w \in Workers, Crash(w)
  PROVE  LogInv'
<1>1. conn \in [Workers -> Connection]
  BY DEF HistoryInv, TypeInv, TypeOK
<1>2. conn' = [conn EXCEPT ![w] = AutoCommit] /\ db' = db /\ recorded' = recorded
  BY DEF Crash
<1>3. ASSUME NEW c \in Conversations, NEW v \in Workers PROVE Held(v, c)
  <2>1. CASE v = w
    BY <1>1, <1>2, <2>1 DEF Held, AutoCommit
  <2>2. CASE v # w
    BY <1>1, <1>2, <2>2, SameConnection
  <2> QED
    BY <2>1, <2>2
<1>4. \A q \in Requests : TopRead(q)
  BY DEF Crash, TopRead
<1> QED
  BY <1>2, <1>3, <1>4, LogStill

LEMMA StutterKeepsLog == ASSUME HistoryInv, UNCHANGED vars PROVE LogInv'
<1>1. \A c \in Conversations, w \in Workers : Held(w, c)
  BY SameConnection DEF vars
<1>2. \A q \in Requests : TopRead(q)
  BY DEF vars, TopRead
<1> QED
  BY <1>1, <1>2, LogStill DEF vars

LEMMA NextHistory == ASSUME EvenLimit, HistoryInv, [Next]_vars PROVE HistoryInv'
<1>1. TypeInv'
  BY NextTyped DEF HistoryInv
<1>2. ASSUME NEW r \in Requests, Advance(r) PROVE LogInv'
  BY <1>2, ReadsKeepLog, WritesKeepLog, AppendKeepsLog, ConflictKeepsLog, RefusalKeepsLog,
     OthersKeepLog DEF Advance
<1>3. ASSUME NEW r \in Requests, NEW w \in Workers, Start(r, w) PROVE LogInv'
  BY <1>3, OthersKeepLog
<1> QED
  BY <1>1, <1>2, <1>3, CrashKeepsLog, StutterKeepsLog DEF Next, Quiescent, HistoryInv

LEMMA InitHistory == Init => HistoryInv
<1> SUFFICES ASSUME Init PROVE HistoryInv
  OBVIOUS
<1>1. SeqNeverReused
  BY DEF Init, SeqNeverReused
<1>2. ASSUME NEW c \in Conversations PROVE Kept(c, 0)
  <2>1. Log(c) = {} /\ Window(c, 0) = {}
    BY DEF Init, Log, Window
  <2>2. Exchanges(c, 0)
    BY <2>1 DEF Exchanges
  <2>3. db.turns[c] = Window(c, 0)
    BY <2>1 DEF Init, EmptyDatabase
  <2>4. Pinned(c, 0) /\ Tops(c, 0)
    BY DEF Init, Pinned, Tops, AutoCommit
  <2> QED
    BY <2>2, <2>3, <2>4 DEF Kept
<1>3. LogInv
  BY <1>1, <1>2 DEF LogInv
<1> QED
  BY <1>3, InitTyped DEF HistoryInv

LEMMA AlwaysHistory == ASSUME EvenLimit PROVE Spec => []HistoryInv
<1>1. HistoryInv /\ [Next]_vars => HistoryInv'
  BY NextHistory
<1> QED
  BY <1>1, InitHistory, PTL DEF Spec

\* Whatever the workers, crashes and refused writes, also after the history limit
\* removed the first bearer of a number: a number is given to one visible turn of a
\* conversation.
THEOREM NumbersAreNotReused == ASSUME EvenLimit PROVE Spec => []SeqNeverReused
<1>1. HistoryInv => SeqNeverReused
  BY DEF HistoryInv, LogInv
<1> QED
  BY <1>1, AlwaysHistory, PTL

\* Whatever the workers, crashes and refused writes: the history limit cuts between
\* two exchanges, and no append that failed half way is ever committed.
THEOREM ExchangesAreWhole == ASSUME EvenLimit PROVE Spec => []WholeExchanges
<1>1. ASSUME HistoryInv, NEW c \in Conversations, NEW t \in db.turns[c]
      PROVE  \E u \in db.turns[c] :
               /\ u.req = t.req /\ u.role # t.role
               /\ u.seq = IF t.role = "user" THEN t.seq + 1 ELSE t.seq - 1
  <2>1. PICK m \in Nat : Exchanges(c, m) /\ db.turns[c] = Window(c, m)
    BY <1>1 DEF HistoryInv, LogInv, Kept
  <2>2. PICK h \in Nat : HistoryLimit = 2 * h
    BY DEF EvenLimit
  <2>3. /\ t \in Log(c) /\ t \in recorded /\ ConversationOf(t.req) = c
        /\ t.seq \in Nat \ {0} /\ t.seq <= 2 * m /\ 2 * m < t.seq + HistoryLimit
    BY <1>1, <2>1 DEF Window, Log, HistoryInv, TypeInv, TypeOK, Turn
  <2>4. PICK i \in 1..m : t.seq = 2 * i - 1 \/ t.seq = 2 * i
    <3>1. \E i \in Nat : t.seq = 2 * i - 1 \/ t.seq = 2 * i
      <4>1. \A j \in Nat : (j + 1) \div 2 \in Nat /\ (j = 2 * ((j + 1) \div 2) - 1 \/ j = 2 * ((j + 1) \div 2))
        OBVIOUS
      <4> QED
        BY <2>3, <4>1
    <3> QED
      BY <2>3, <3>1
  <2>5. PICK r \in Requests : UserTurn(2 * i - 1, r) \in Log(c) /\ AssistantTurn(2 * i, r) \in Log(c)
    BY <2>1 DEF Exchanges
  <2>6. \A u \in Log(c) : u.seq = t.seq => u = t
    BY <1>1, <2>3 DEF HistoryInv, LogInv, SeqNeverReused, Log
  <2>7. CASE t.seq = 2 * i - 1
    <3>1. t = UserTurn(2 * i - 1, r)
      BY <2>5, <2>6, <2>7 DEF UserTurn
    <3>2. AssistantTurn(2 * i, r) \in Window(c, m)
      <4>1. AssistantTurn(2 * i, r).seq = 2 * i
        BY DEF AssistantTurn
      <4>2. 2 * i <= 2 * m /\ 2 * m < 2 * i + HistoryLimit
        BY <2>2, <2>3, <2>7
      <4> QED
        BY <2>5, <4>1, <4>2 DEF Window
    <3>3. 2 * i = (2 * i - 1) + 1
      OBVIOUS
    <3> QED
      BY <2>1, <2>7, <3>1, <3>2, <3>3 DEF UserTurn, AssistantTurn
  <2>8. CASE t.seq = 2 * i
    <3>1. t = AssistantTurn(2 * i, r)
      BY <2>5, <2>6, <2>8 DEF AssistantTurn
    <3>2. UserTurn(2 * i - 1, r) \in Window(c, m)
      <4>1. UserTurn(2 * i - 1, r).seq = 2 * i - 1
        BY DEF UserTurn
      <4>2. 2 * i - 1 <= 2 * m /\ 2 * m < 2 * i - 1 + HistoryLimit
        BY <2>2, <2>3, <2>8
      <4> QED
        BY <2>5, <4>1, <4>2 DEF Window
    <3> QED
      BY <2>1, <2>8, <3>1, <3>2 DEF UserTurn, AssistantTurn
  <2> QED
    BY <2>4, <2>7, <2>8
<1>2. HistoryInv => WholeExchanges
  BY <1>1 DEF WholeExchanges
<1> QED
  BY <1>2, AlwaysHistory, PTL
-----------------------------------------------------------------------------
(* One process *)

\* There is one process.
OneWorker == \A v, w \in Workers : v = w

\* r is between two of its steps that need the event loop.
Serving(r) == pc[r] \notin {"queued", "run"} \cup Finished

\* Who is between two of its steps on the loop, or runs there, holds it.
LoopInv ==
  \A r \in Requests : Serving(r) \/ (pc[r] = "run" /\ r \notin Streams) => loop[host[r]] = r

\* No transaction is left open at an await.
ConnectionsInv == \A w \in Workers : conn[w].txn = "none" /\ ~conn[w].stale

\* What was read for a write is what the database still holds.
ReadsInv ==
  \A r \in Requests :
    LET c == ConversationOf(r)
    IN  /\ pc[r] = "append" => mem[r].top = MaxSeq(db.turns[c])
        /\ pc[r] = "generate" =>
             mem[r].batch # {} /\ \A t \in mem[r].batch : t.seq > db.summary[c].upto

\* Only an injected fault fails a request.
FailuresInv == \A r \in Requests : pc[r] = "failed" => faulted # {}

AloneInv == TypeInv /\ LoopInv /\ ConnectionsInv /\ ReadsInv /\ FailuresInv
-----------------------------------------------------------------------------
\* A connection outside a transaction reads the database and may write.
LEMMA PlainView ==
  ASSUME OneWorker, ConnectionsInv, NEW w \in Workers
  PROVE  View(w) = db /\ CanWrite(w) /\ AfterRead(w) = conn[w]
BY DEF OneWorker, ConnectionsInv, View, CanWrite, LockedByOther, AfterRead

\* Every request that has started is on the one worker.
LEMMA SameHost ==
  ASSUME OneWorker, TypeInv, NEW r \in Requests, NEW q \in Requests,
         pc[r] # "queued", pc[q] # "queued"
  PROVE  host[r] = host[q]
BY DEF OneWorker, TypeInv

\* While a request runs on the loop no other is serving.
LEMMA OnlyHolder ==
  ASSUME OneWorker, TypeInv, LoopInv, NEW r \in Requests, NEW q \in Requests,
         pc[r] # "queued", loop[host[r]] \in {r, NoRequest}, Serving(q) \/ (pc[q] = "run" /\ q \notin Streams)
  PROVE  q = r
<1>1. pc[q] # "queued"
  BY DEF Serving
<1>2. loop[host[r]] = q
  BY <1>1, SameHost DEF LoopInv
<1> QED
  BY <1>2, ServiceAssumption

\* A read of the holder, or a write that keeps the boundary behind the others' batches.
LEMMA SelectAlone ==
  ASSUME OneWorker, AloneInv, NEW r \in Requests, NEW from, NEW to \in Steps \ {"queued", "failed"},
         NEW l, from # "queued", from \notin Finished, Select(r, from, to, l),
         to = "append" => l.top = MaxSeq(db.turns[ConversationOf(r)]),
         to = "generate" => l.batch # {} /\ \A t \in l.batch : t.seq > db.summary[ConversationOf(r)].upto
  PROVE  LoopInv' /\ ConnectionsInv' /\ ReadsInv' /\ FailuresInv'
<1>1. /\ pc' = [pc EXCEPT ![r] = to] /\ mem' = [mem EXCEPT ![r] = l]
      /\ loop' = loop /\ host' = host /\ db' = db /\ faulted' = faulted /\ loop[host[r]] = r
  BY DEF Select, Goto, Runs
<1>2. pc \in [Requests -> Steps] /\ mem \in [Requests -> Locals] /\ conn \in [Workers -> Connection]
  BY DEF AloneInv, TypeInv, TypeOK
<1>3. host[r] \in Workers
  BY RunningHost DEF AloneInv, Select, Runs
<1>4. conn' = conn
  BY <1>2, <1>3, PlainView DEF AloneInv, Select
<1>5. LoopInv'
  <2>1. ASSUME NEW q \in Requests, (Serving(q) \/ (pc[q] = "run" /\ q \notin Streams))'
        PROVE  loop'[host'[q]] = q
    BY <1>1, <1>2, <2>1 DEF AloneInv, LoopInv, Serving
  <2> QED
    BY <2>1 DEF LoopInv
<1>6. ReadsInv'
  BY <1>1, <1>2 DEF AloneInv, ReadsInv
<1>7. FailuresInv'
  BY <1>1, <1>2 DEF AloneInv, FailuresInv
<1> QED
  BY <1>4, <1>5, <1>6, <1>7 DEF AloneInv, ConnectionsInv

LEMMA WriteAlone ==
  ASSUME OneWorker, AloneInv, NEW r \in Requests, NEW from, NEW d, NEW l,
         NEW to \in Steps \ {"queued", "failed", "append", "generate"},
         from # "queued", from \notin Finished, Write(r, from, to, d, l)
  PROVE  LoopInv' /\ ConnectionsInv' /\ ReadsInv' /\ FailuresInv'
<1>1. /\ pc' = [pc EXCEPT ![r] = to] /\ mem' = [mem EXCEPT ![r] = l]
      /\ loop' = loop /\ host' = host /\ faulted' = faulted /\ loop[host[r]] = r /\ pc[r] = from
  BY DEF Write, Goto, Runs
<1>2. pc \in [Requests -> Steps] /\ mem \in [Requests -> Locals] /\ conn \in [Workers -> Connection]
  BY DEF AloneInv, TypeInv, TypeOK
<1>3. ConnectionsInv'
  BY <1>2 DEF AloneInv, ConnectionsInv, Write, Commit, AutoCommit
<1>4. LoopInv'
  <2>1. ASSUME NEW q \in Requests, (Serving(q) \/ (pc[q] = "run" /\ q \notin Streams))'
        PROVE  loop'[host'[q]] = q
    BY <1>1, <1>2, <2>1 DEF AloneInv, LoopInv, Serving
  <2> QED
    BY <2>1 DEF LoopInv
<1>5. ReadsInv'
  <2>1. ASSUME NEW q \in Requests, q # r PROVE pc'[q] \notin {"append", "generate"}
    <3>1. ~Serving(q)
      BY <1>1, <2>1, OnlyHolder DEF AloneInv
    <3> QED
      BY <1>1, <1>2, <2>1, <3>1 DEF Serving, Finished
  <2>2. pc'[r] \notin {"append", "generate"}
    BY <1>1, <1>2
  <2> QED
    BY <2>1, <2>2 DEF ReadsInv
<1>6. FailuresInv'
  BY <1>1, <1>2 DEF AloneInv, FailuresInv
<1> QED
  BY <1>3, <1>4, <1>5, <1>6

\* A request that ends.
LEMMA FinishAlone ==
  ASSUME OneWorker, AloneInv, NEW r \in Requests, NEW step \in Finished, NEW reply,
         pc[r] \notin {"queued"} \cup Finished, Finish(r, step, reply),
         step = "failed" => faulted' # {}, faulted \subseteq faulted', UNCHANGED <<db, conn, host>>
  PROVE  LoopInv' /\ ConnectionsInv' /\ ReadsInv' /\ FailuresInv'
<1>1. /\ pc' = [pc EXCEPT ![r] = step] /\ mem' = [mem EXCEPT ![r] = NoLocals]
      /\ loop' = [loop EXCEPT ![host[r]] = IF @ = r THEN NoRequest ELSE @]
      /\ host' = host /\ db' = db /\ conn' = conn
  BY DEF Finish
<1>2. pc \in [Requests -> Steps] /\ mem \in [Requests -> Locals]
      /\ loop \in [Workers -> Requests \cup {NoRequest}]
  BY DEF AloneInv, TypeInv, TypeOK
<1>3. LoopInv'
  <2>1. ASSUME NEW q \in Requests, (Serving(q) \/ (pc[q] = "run" /\ q \notin Streams))'
        PROVE  loop'[host'[q]] = q
    <3>1. q # r /\ pc'[q] = pc[q]
      BY <1>1, <1>2, <2>1 DEF Serving, Finished
    <3>2. pc[q] # "queued" /\ loop[host[q]] = q /\ host[q] \in Workers
      BY <1>1, <2>1, <3>1 DEF Serving, AloneInv, LoopInv, TypeInv
    <3> QED
      BY <1>1, <1>2, <3>1, <3>2
  <2> QED
    BY <2>1 DEF LoopInv
<1>4. ReadsInv'
  BY <1>1, <1>2 DEF AloneInv, ReadsInv, Finished
<1>5. FailuresInv'
  BY <1>1, <1>2 DEF AloneInv, FailuresInv, Finished
<1> QED
  BY <1>1, <1>3, <1>4, <1>5 DEF AloneInv, ConnectionsInv
-----------------------------------------------------------------------------
(* Each action *)

LEMMA StartAlone ==
  ASSUME OneWorker, AloneInv, NEW r \in Requests, NEW w \in Workers, Start(r, w)
  PROVE  LoopInv' /\ ConnectionsInv' /\ ReadsInv' /\ FailuresInv'
<1>1. /\ pc' = [pc EXCEPT ![r] = "check"] /\ loop' = [loop EXCEPT ![w] = r]
      /\ host' = [host EXCEPT ![r] = w] /\ pc[r] = "queued" /\ loop[w] = NoRequest
      /\ UNCHANGED <<db, conn, mem, faulted>>
  BY DEF Start
<1>2. /\ pc \in [Requests -> Steps] /\ loop \in [Workers -> Requests \cup {NoRequest}]
      /\ host \in [Requests -> Workers \cup {NoWorker}]
  BY DEF AloneInv, TypeInv, TypeOK
<1>3. LoopInv'
  <2>1. ASSUME NEW q \in Requests, (Serving(q) \/ (pc[q] = "run" /\ q \notin Streams))'
        PROVE  loop'[host'[q]] = q
    <3>1. CASE q = r
      BY <1>1, <1>2, <3>1
    <3>2. CASE q # r
      <4>1. Serving(q) \/ (pc[q] = "run" /\ q \notin Streams)
        BY <1>1, <1>2, <2>1, <3>2 DEF Serving
      <4>2. host[q] \in Workers /\ loop[host[q]] = q
        BY <4>1 DEF AloneInv, LoopInv, TypeInv, Serving
      <4>3. host[q] = w
        BY <4>2 DEF OneWorker
      <4> QED
        BY <1>1, <4>2, <4>3, ServiceAssumption
    <3> QED
      BY <3>1, <3>2
  <2> QED
    BY <2>1 DEF LoopInv
<1>4. ReadsInv'
  BY <1>1, <1>2 DEF AloneInv, ReadsInv
<1>5. FailuresInv'
  BY <1>1, <1>2 DEF AloneInv, FailuresInv
<1> QED
  BY <1>1, <1>3, <1>4, <1>5 DEF AloneInv, ConnectionsInv

\* The loop changes hands around run_loop.
LEMMA RunAlone ==
  ASSUME OneWorker, AloneInv, NEW r \in Requests, RunInThread(r) \/ RunReturns(r)
  PROVE  LoopInv' /\ ConnectionsInv' /\ ReadsInv' /\ FailuresInv'
<1>1. /\ pc \in [Requests -> Steps] /\ loop \in [Workers -> Requests \cup {NoRequest}]
      /\ host \in [Requests -> Workers \cup {NoWorker}]
  BY DEF AloneInv, TypeInv, TypeOK
<1>2. pc[r] = "run" /\ host[r] \in Workers /\ loop[host[r]] \in {r, NoRequest}
  BY RunningHost DEF RunInThread, RunReturns, Runs, AloneInv
<1>3. UNCHANGED <<db, conn, host, mem, faulted>>
  BY DEF RunInThread, RunReturns
<1>4. \A q \in Requests : q # r => pc'[q] = pc[q] /\ ~Serving(q) /\ ~(pc[q] = "run" /\ q \notin Streams)
  BY <1>1, <1>2, OnlyHolder DEF RunInThread, RunReturns, AloneInv
<1>5. CASE RunInThread(r)
  BY <1>1, <1>2, <1>3, <1>4, <1>5
     DEF RunInThread, AloneInv, LoopInv, Serving, ConnectionsInv, ReadsInv, FailuresInv
<1>6. CASE RunReturns(r)
  <2>1. pc' = [pc EXCEPT ![r] = "top"] /\ loop' = [loop EXCEPT ![host[r]] = r]
    BY <1>6 DEF RunReturns
  <2>2. LoopInv'
    BY <1>1, <1>2, <1>3, <1>4, <2>1 DEF LoopInv, Serving
  <2>3. ReadsInv' /\ FailuresInv'
    BY <1>1, <1>3, <2>1 DEF AloneInv, ReadsInv, FailuresInv
  <2> QED
    BY <1>3, <2>2, <2>3 DEF AloneInv, ConnectionsInv
<1> QED
  BY <1>5, <1>6

\* Nothing is refused: no other process holds the lock, and no snapshot is pinned.
LEMMA NeverRefused ==
  ASSUME OneWorker, AloneInv, NEW r \in Requests
  PROVE  ~WriteRefused(r)
<1>1. ASSUME WriteRefused(r) PROVE FALSE
  <2>1. host[r] \in Workers
    BY <1>1, RunningHost DEF WriteRefused, Runs, AloneInv
  <2> QED
    BY <1>1, <2>1, PlainView DEF WriteRefused, AloneInv
<1> QED
  BY <1>1

\* Nobody took the number since it was read.
LEMMA NeverConflicts ==
  ASSUME OneWorker, AloneInv, NEW r \in Requests
  PROVE  ~AppendConflicts(r)
<1>1. ASSUME AppendConflicts(r) PROVE FALSE
  <2> DEFINE table == db.turns[ConversationOf(r)]
  <2>1. pc[r] = "append" /\ host[r] \in Workers
    BY <1>1, RunningHost DEF AppendConflicts, Runs, AloneInv
  <2>2. View(host[r]) = db
    BY <2>1, PlainView DEF AloneInv
  <2>3. mem[r].top = MaxSeq(table)
    BY <2>1 DEF AloneInv, ReadsInv
  <2>4. table \in SUBSET Turn /\ Bounded(table)
    BY <2>1, <2>2, Readings DEF AloneInv
  <2>5. \E m \in {mem[r].top + 1, mem[r].top + 1 + 1} : Occupied(table, m)
    BY <1>1, <2>2 DEF AppendConflicts
  <2> HIDE DEF table
  <2>6. PICK t \in table : t.seq \in {MaxSeq(table) + 1, MaxSeq(table) + 1 + 1}
    BY <2>3, <2>5 DEF Occupied
  <2>7. t.seq <= MaxSeq(table) /\ MaxSeq(table) \in Nat /\ t.seq \in Nat
    BY <2>4, MaxSeqFacts DEF Turn
  <2> QED
    BY <2>6, <2>7
<1> QED
  BY <1>1

LEMMA CheckAlone ==
  ASSUME OneWorker, AloneInv, NEW r \in Requests, Check(r)
  PROVE  LoopInv' /\ ConnectionsInv' /\ ReadsInv' /\ FailuresInv'
<1> DEFINE found == View(host[r]).processed[EventOf[r]]
           to == IF found = NoReply THEN "upsert" ELSE "return"
           l == [mem[r] EXCEPT !.found = found]
<1>1. Select(r, "check", to, l)
  BY DEF Check
<1>2. to \in Steps \ {"queued", "failed"} /\ to \notin {"append", "generate"}
  BY DEF Steps
<1> HIDE DEF to, l
<1> QED
  BY <1>1, <1>2, SelectAlone DEF Finished

LEMMA ReadTopAlone ==
  ASSUME OneWorker, AloneInv, NEW r \in Requests, ReadTop(r)
  PROVE  LoopInv' /\ ConnectionsInv' /\ ReadsInv' /\ FailuresInv'
<1> DEFINE l == [mem[r] EXCEPT !.top = MaxSeq(View(host[r]).turns[ConversationOf(r)])]
<1>1. Select(r, "top", "append", l)
  BY DEF ReadTop
<1>2. View(host[r]) = db
  BY <1>1, RunningHost, PlainView DEF Select, Runs, AloneInv
<1>3. l.top = MaxSeq(db.turns[ConversationOf(r)])
  <2>1. mem[r] \in Locals
    BY DEF AloneInv, TypeInv, TypeOK
  <2> QED
    BY <1>2, <2>1 DEF Locals
<1>4. "append" \in Steps \ {"queued", "failed"}
  BY DEF Steps
<1> HIDE DEF l
<1> QED
  BY <1>1, <1>3, <1>4, SelectAlone DEF Finished

LEMMA ReadStateAlone ==
  ASSUME OneWorker, AloneInv, NEW r \in Requests, ReadState(r)
  PROVE  LoopInv' /\ ConnectionsInv' /\ ReadsInv' /\ FailuresInv'
<1> DEFINE summary == View(host[r]).summary[ConversationOf(r)]
           batch == Compactable(mem[r].turns, summary.upto)
           l == [mem[r] EXCEPT !.prior = summary, !.batch = batch]
           to == IF batch = {} THEN "save" ELSE "generate"
<1>1. Select(r, "state", to, l)
  BY DEF ReadState
<1>2. View(host[r]) = db
  BY <1>1, RunningHost, PlainView DEF Select, Runs, AloneInv
<1>3. l.batch = batch
  <2>1. mem[r] \in Locals
    BY DEF AloneInv, TypeInv, TypeOK
  <2> QED
    BY <2>1 DEF Locals
<1>4. \A t \in batch : t.seq > db.summary[ConversationOf(r)].upto
  BY <1>2 DEF Compactable, AfterBoundary
<1>5. to \in Steps \ {"queued", "failed"} /\ to # "append" /\ (to = "generate" => batch # {})
  BY DEF Steps
<1> HIDE DEF l, to, batch
<1> QED
  BY <1>1, <1>3, <1>4, <1>5, SelectAlone DEF Finished

\* The reads that no later write relies on.
LEMMA OtherReadsAlone ==
  ASSUME OneWorker, AloneInv, NEW r \in Requests, ReadHistory(r) \/ ReadContext(r) \/ ReadTurns(r)
  PROVE  LoopInv' /\ ConnectionsInv' /\ ReadsInv' /\ FailuresInv'
<1>1. PICK from, to, l :
        /\ from \in {"history", "context", "turns"}
        /\ to \in {"context", "run", "save", "state"}
        /\ Select(r, from, to, l)
  BY DEF ReadHistory, ReadContext, ReadTurns
<1>2. to \in Steps \ {"queued", "failed"} /\ to \notin {"append", "generate"}
  BY <1>1 DEF Steps
<1> QED
  BY <1>1, <1>2, SelectAlone DEF Finished

LEMMA WritesAlone ==
  ASSUME OneWorker, AloneInv, NEW r \in Requests,
         UpsertConversation(r) \/ AppendTurns(r) \/ SaveSummary(r) \/ SaveReply(r)
  PROVE  LoopInv' /\ ConnectionsInv' /\ ReadsInv' /\ FailuresInv'
<1>1. ASSUME NEW from \in {"upsert", "append", "generate", "save"}, NEW d, NEW l,
             NEW to \in {"history", "turns", "save", "return"}, Write(r, from, to, d, l)
      PROVE  LoopInv' /\ ConnectionsInv' /\ ReadsInv' /\ FailuresInv'
  <2>1. to \in Steps \ {"queued", "failed", "append", "generate"}
    BY DEF Steps
  <2> QED
    BY <1>1, <2>1, WriteAlone DEF Finished
<1>2. CASE UpsertConversation(r)
  BY <1>1, <1>2 DEF UpsertConversation
<1>3. CASE AppendTurns(r)
  BY <1>1, <1>3 DEF AppendTurns
<1>4. CASE SaveSummary(r)
  BY <1>1, <1>4 DEF SaveSummary
<1>5. CASE SaveReply(r)
  BY <1>1, <1>5 DEF SaveReply
<1> QED
  BY <1>2, <1>3, <1>4, <1>5

LEMMA SummaryEmptyAlone ==
  ASSUME OneWorker, AloneInv, NEW r \in Requests, SummaryEmpty(r)
  PROVE  LoopInv' /\ ConnectionsInv' /\ ReadsInv' /\ FailuresInv'
<1>1. /\ pc' = [pc EXCEPT ![r] = "save"] /\ loop[host[r]] = r
      /\ UNCHANGED <<db, conn, host, mem, loop>> /\ faulted' # {}
  BY DEF SummaryEmpty, Runs, Goto
<1>2. pc \in [Requests -> Steps]
  BY DEF AloneInv, TypeInv, TypeOK
<1> QED
  BY <1>1, <1>2 DEF AloneInv, LoopInv, Serving, ConnectionsInv, ReadsInv, FailuresInv

LEMMA EndsAlone ==
  ASSUME OneWorker, AloneInv, NEW r \in Requests, RunRaises(r) \/ Return(r)
  PROVE  LoopInv' /\ ConnectionsInv' /\ ReadsInv' /\ FailuresInv'
<1>1. CASE RunRaises(r)
  BY <1>1, FinishAlone DEF RunRaises, Raise, Finished
<1>2. CASE Return(r)
  BY <1>2, FinishAlone DEF Return, Runs, Finished
<1> QED
  BY <1>1, <1>2

LEMMA CrashAlone ==
  ASSUME OneWorker, AloneInv, NEW w \in Workers, Crash(w)
  PROVE  LoopInv' /\ ConnectionsInv' /\ ReadsInv' /\ FailuresInv'
<1>1. conn' = [conn EXCEPT ![w] = AutoCommit] /\ conn \in [Workers -> Connection] /\ faulted' # {}
  BY DEF Crash, AloneInv, TypeInv, TypeOK
<1>2. \A q \in Requests : pc'[q] \in {"queued"} \cup Finished
  BY DEF Crash, OneWorker, AloneInv, TypeInv, Finished
<1>3. ConnectionsInv'
  BY <1>1 DEF AloneInv, ConnectionsInv, AutoCommit
<1> QED
  BY <1>1, <1>2, <1>3 DEF LoopInv, Serving, ReadsInv, FailuresInv, Finished

LEMMA NextAlone == ASSUME OneWorker, AloneInv, [Next]_vars PROVE AloneInv'
<1>1. TypeInv'
  BY NextTyped DEF AloneInv
<1>2. ASSUME NEW r \in Requests, Advance(r)
      PROVE  LoopInv' /\ ConnectionsInv' /\ ReadsInv' /\ FailuresInv'
  BY <1>2, CheckAlone, ReadTopAlone, ReadStateAlone, OtherReadsAlone, WritesAlone, RunAlone,
     SummaryEmptyAlone, EndsAlone, NeverRefused, NeverConflicts DEF Advance
<1>3. ASSUME UNCHANGED vars
      PROVE  LoopInv' /\ ConnectionsInv' /\ ReadsInv' /\ FailuresInv'
  BY <1>3 DEF vars, AloneInv, LoopInv, Serving, ConnectionsInv, ReadsInv, FailuresInv
<1> QED
  BY <1>1, <1>2, <1>3, StartAlone, CrashAlone DEF Next, Quiescent, AloneInv

LEMMA InitAlone == Init => AloneInv
<1>1. Init => LoopInv /\ ConnectionsInv /\ ReadsInv /\ FailuresInv
  BY DEF Init, LoopInv, Serving, ConnectionsInv, ReadsInv, FailuresInv, AutoCommit
<1> QED
  BY <1>1, InitTyped DEF AloneInv

LEMMA AlwaysAlone == ASSUME OneWorker PROVE Spec => []AloneInv
<1>1. AloneInv /\ [Next]_vars => AloneInv'
  BY NextAlone
<1> QED
  BY <1>1, InitAlone, PTL DEF Spec

\* One process, whatever its mix of streams and plain requests: a request fails only
\* after the provider or the process did, and no connection is ever left in a
\* transaction, although no store method rolls back.
THEOREM FailuresAreCaused == ASSUME OneWorker PROVE Spec => []FailuresHaveCauses
<1>1. AloneInv => FailuresHaveCauses
  BY DEF AloneInv, FailuresInv, ConnectionsInv, FailuresHaveCauses
<1> QED
  BY <1>1, AlwaysAlone, PTL

-----------------------------------------------------------------------------
(***************************************************************************)
(* The ledger of replies: without streams every event is settled by one    *)
(* run, and every caller that is answered is given the reply that settled  *)
(* its event, through provider failures and crashes.                       *)
(***************************************************************************)

\* Between a check that found nothing and save_processed_event.
Unsettled == {"upsert", "history", "context", "run", "top", "append", "turns", "state",
              "generate", "save"}

\* Until it is settled no reply of its event is stored, and then the one it returns is.
LedgerInv ==
  \A r \in Requests :
    /\ pc[r] \in Unsettled => db.processed[EventOf[r]] = NoReply
    /\ pc[r] = "return" => /\ mem[r].found # NoReply
                           /\ db.processed[EventOf[r]] = mem[r].found
    /\ pc[r] # "done" => answer[r] = NoReply

Alone == AloneInv /\ LedgerInv
-----------------------------------------------------------------------------
\* No two requests are between their check and their end.
LEMMA OnlyActive ==
  ASSUME OneWorker, Streams = {}, AloneInv, NEW r \in Requests, NEW q \in Requests,
         pc[r] \notin {"queued"} \cup Finished, pc[q] \notin {"queued"} \cup Finished
  PROVE  q = r
<1>1. loop[host[r]] = r
  BY DEF AloneInv, LoopInv, Serving
<1> QED
  BY <1>1, OnlyHolder DEF AloneInv, Serving

LEMMA SelectLedger ==
  ASSUME Alone, NEW r \in Requests, NEW from, NEW to \in Steps, NEW l, from # "done",
         Select(r, from, to, l),
         to \in Unsettled => db.processed[EventOf[r]] = NoReply,
         to = "return" => l.found # NoReply /\ db.processed[EventOf[r]] = l.found
  PROVE  LedgerInv' /\ UNCHANGED Ledger!vars
<1>1. /\ pc' = [pc EXCEPT ![r] = to] /\ mem' = [mem EXCEPT ![r] = l] /\ pc[r] = from
      /\ db' = db /\ answer' = answer
  BY DEF Select, Goto, Runs
<1>2. pc \in [Requests -> Steps] /\ mem \in [Requests -> Locals]
  BY DEF Alone, AloneInv, TypeInv, TypeOK
<1> QED
  BY <1>1, <1>2 DEF Alone, LedgerInv, Ledger!vars

\* A committed write that stores no reply, of a request that goes on unsettled.
LEMMA WriteLedger ==
  ASSUME Alone, NEW r \in Requests, NEW from \in Unsettled, NEW to \in Unsettled, NEW d,
         Write(r, from, to, d, mem[r]), d.processed = db.processed
  PROVE  LedgerInv' /\ UNCHANGED Ledger!vars
<1>1. /\ pc' = [pc EXCEPT ![r] = to] /\ mem' = [mem EXCEPT ![r] = mem[r]] /\ pc[r] = from
      /\ db'.processed = db.processed /\ answer' = answer
  BY DEF Write, Commit, Goto, Runs
<1>2. pc \in [Requests -> Steps] /\ mem \in [Requests -> Locals]
  BY DEF Alone, AloneInv, TypeInv, TypeOK
<1>3. from # "return" /\ from # "done" /\ to # "return" /\ to # "done"
  BY DEF Unsettled
<1> QED
  BY <1>1, <1>2, <1>3 DEF Alone, LedgerInv, Ledger!vars

\* A request that ends without an answer.
LEMMA RaiseLedger ==
  ASSUME Alone, NEW r \in Requests, Raise(r), pc[r] # "done", UNCHANGED db
  PROVE  LedgerInv' /\ UNCHANGED Ledger!vars
<1>1. /\ pc' = [pc EXCEPT ![r] = "failed"] /\ mem' = [mem EXCEPT ![r] = NoLocals]
      /\ answer' = [answer EXCEPT ![r] = NoReply]
  BY DEF Raise, Finish
<1>2. pc \in [Requests -> Steps] /\ mem \in [Requests -> Locals]
      /\ answer \in [Requests -> Requests \cup {NoReply}]
  BY DEF Alone, AloneInv, TypeInv, TypeOK
<1>3. answer' = answer
  BY <1>1, <1>2 DEF Alone, LedgerInv
<1> QED
  BY <1>1, <1>2, <1>3 DEF Alone, LedgerInv, Ledger!vars, Unsettled
-----------------------------------------------------------------------------
(* Each action *)

LEMMA CheckLedger ==
  ASSUME OneWorker, Alone, NEW r \in Requests, Check(r)
  PROVE  LedgerInv' /\ UNCHANGED Ledger!vars
<1> DEFINE found == View(host[r]).processed[EventOf[r]]
           to == IF found = NoReply THEN "upsert" ELSE "return"
           l == [mem[r] EXCEPT !.found = found]
<1>1. Select(r, "check", to, l)
  BY DEF Check
<1>2. View(host[r]) = db
  BY <1>1, RunningHost, PlainView DEF Select, Runs, Alone, AloneInv
<1>3. l.found = found
  <2>1. mem[r] \in Locals
    BY DEF Alone, AloneInv, TypeInv, TypeOK
  <2> QED
    BY <2>1 DEF Locals
<1>4. /\ to \in Steps
      /\ to \in Unsettled => db.processed[EventOf[r]] = NoReply
      /\ to = "return" => l.found # NoReply /\ db.processed[EventOf[r]] = l.found
  BY <1>2, <1>3 DEF Steps, Unsettled
<1> HIDE DEF to, l
<1> QED
  BY <1>1, <1>4, SelectLedger

LEMMA ReadsLedger ==
  ASSUME Alone, NEW r \in Requests,
         ReadHistory(r) \/ ReadContext(r) \/ ReadTop(r) \/ ReadTurns(r) \/ ReadState(r)
  PROVE  LedgerInv' /\ UNCHANGED Ledger!vars
<1>1. PICK from, to, l :
        from \in Unsettled /\ to \in Unsettled /\ Select(r, from, to, l)
  BY DEF ReadHistory, ReadContext, ReadTop, ReadTurns, ReadState, Unsettled
<1>2. to \in Steps /\ to # "return" /\ from # "done"
  BY <1>1 DEF Unsettled, Steps
<1>3. db.processed[EventOf[r]] = NoReply
  BY <1>1 DEF Select, Runs, Alone, LedgerInv
<1> QED
  BY <1>1, <1>2, <1>3, SelectLedger

LEMMA WritesLedger ==
  ASSUME OneWorker, Alone, NEW r \in Requests,
         UpsertConversation(r) \/ AppendTurns(r) \/ SaveSummary(r)
  PROVE  LedgerInv' /\ UNCHANGED Ledger!vars
<1>1. View(host[r]) = db /\ db \in Database
  BY RunningHost, PlainView
     DEF UpsertConversation, AppendTurns, SaveSummary, Write, Runs, Alone, AloneInv, TypeInv, TypeOK
<1>2. CASE UpsertConversation(r)
  <2>1. [db EXCEPT !.known = @ \cup {ConversationOf(r)}].processed = db.processed
    BY <1>1 DEF Database
  <2> QED
    BY <1>1, <1>2, <2>1, WriteLedger DEF UpsertConversation, Unsettled
<1>3. CASE AppendTurns(r)
  <2>1. \A T : [db EXCEPT !.turns[ConversationOf(r)] = T].processed = db.processed
    BY <1>1 DEF Database
  <2> QED
    BY <1>1, <1>3, <2>1, WriteLedger DEF AppendTurns, Unsettled
<1>4. CASE SaveSummary(r)
  <2>1. \A s : [db EXCEPT !.summary[ConversationOf(r)] = s].processed = db.processed
    BY <1>1 DEF Database
  <2> QED
    BY <1>1, <1>4, <2>1, WriteLedger DEF SaveSummary, Unsettled
<1> QED
  BY <1>2, <1>3, <1>4

LEMMA SaveReplyLedger ==
  ASSUME OneWorker, Streams = {}, Alone, NEW r \in Requests, SaveReply(r)
  PROVE  LedgerInv' /\ Ledger!Settle(r)
<1>1. /\ pc[r] = "save" /\ pc' = [pc EXCEPT ![r] = "return"]
      /\ mem' = [mem EXCEPT ![r] = [mem[r] EXCEPT !.found = r]] /\ answer' = answer
      /\ View(host[r]) = db /\ r # NoReply /\ EventOf[r] \in Events
  BY RunningHost, PlainView, RequestAssumption DEF SaveReply, Write, Goto, Runs, Alone, AloneInv
<1>2. /\ pc \in [Requests -> Steps] /\ mem \in [Requests -> Locals] /\ db \in Database
  BY DEF Alone, AloneInv, TypeInv, TypeOK
<1>3. db'.processed = [db.processed EXCEPT ![EventOf[r]] = r]
  BY <1>1, <1>2 DEF SaveReply, Write, Commit, Database
<1>4. ASSUME NEW q \in Requests, q # r PROVE pc'[q] = pc[q] /\ pc[q] \in {"queued"} \cup Finished
  BY <1>1, <1>2, <1>4, OnlyActive DEF Alone, Finished
<1>5. mem'[r].found = r /\ pc'[r] = "return" /\ db'.processed[EventOf[r]] = r
  BY <1>1, <1>2, <1>3 DEF Locals, Database
<1>6. LedgerInv'
  BY <1>1, <1>4, <1>5 DEF Alone, LedgerInv, Unsettled, Finished
<1>7. db.processed[EventOf[r]] = NoReply
  BY <1>1 DEF Alone, LedgerInv, Unsettled
<1> QED
  BY <1>1, <1>3, <1>6, <1>7 DEF Ledger!Settle

LEMMA ReturnLedger ==
  ASSUME Alone, NEW r \in Requests, Return(r)
  PROVE  LedgerInv' /\ Ledger!Deliver(r)
<1>1. /\ pc[r] = "return" /\ pc' = [pc EXCEPT ![r] = "done"] /\ mem' = [mem EXCEPT ![r] = NoLocals]
      /\ answer' = [answer EXCEPT ![r] = mem[r].found] /\ db' = db
  BY DEF Return, Finish, Runs
<1>2. pc \in [Requests -> Steps] /\ mem \in [Requests -> Locals]
      /\ answer \in [Requests -> Requests \cup {NoReply}]
  BY DEF Alone, AloneInv, TypeInv, TypeOK
<1>3. LedgerInv'
  BY <1>1, <1>2 DEF Alone, LedgerInv, Unsettled
<1> QED
  BY <1>1, <1>3 DEF Alone, LedgerInv, Ledger!Deliver

LEMMA OthersLedger ==
  ASSUME OneWorker, Alone, NEW r \in Requests,
         \/ \E w \in Workers : Start(r, w)
         \/ RunInThread(r) \/ RunReturns(r) \/ RunRaises(r) \/ SummaryEmpty(r)
  PROVE  LedgerInv' /\ UNCHANGED Ledger!vars
<1>1. pc \in [Requests -> Steps]
  BY DEF Alone, AloneInv, TypeInv, TypeOK
<1>2. CASE \E w \in Workers : Start(r, w)
  BY <1>1, <1>2 DEF Start, Alone, LedgerInv, Ledger!vars, Unsettled
<1>3. CASE RunInThread(r)
  BY <1>3 DEF RunInThread, Alone, LedgerInv, Ledger!vars
<1>4. CASE RunReturns(r)
  BY <1>1, <1>4 DEF RunReturns, Alone, LedgerInv, Ledger!vars, Unsettled
<1>5. CASE RunRaises(r)
  BY <1>5, RaiseLedger DEF RunRaises
<1>6. CASE SummaryEmpty(r)
  BY <1>1, <1>6 DEF SummaryEmpty, Runs, Goto, Alone, LedgerInv, Ledger!vars, Unsettled
<1> QED
  BY <1>2, <1>3, <1>4, <1>5, <1>6

LEMMA CrashLedger ==
  ASSUME OneWorker, Alone, NEW w \in Workers, Crash(w)
  PROVE  LedgerInv' /\ UNCHANGED Ledger!vars
<1>1. \A q \in Requests : pc'[q] \in {"queued"} \cup Finished
  BY DEF Crash, OneWorker, Alone, AloneInv, TypeInv, Finished
<1>2. \A q \in Requests : pc'[q] # "done" => pc[q] # "done"
  BY DEF Crash, Finished
<1> QED
  BY <1>1, <1>2 DEF Crash, Alone, LedgerInv, Ledger!vars, Unsettled, Finished

LEMMA StutterLedger == ASSUME Alone, UNCHANGED vars PROVE LedgerInv' /\ UNCHANGED Ledger!vars
BY DEF vars, Alone, LedgerInv, Ledger!vars

LEMMA NextLedger ==
  ASSUME OneWorker, Streams = {}, Alone, [Next]_vars
  PROVE  Alone' /\ [Ledger!Next]_Ledger!vars
<1>1. AloneInv'
  BY NextAlone DEF Alone
<1>2. ASSUME NEW r \in Requests, Advance(r) PROVE LedgerInv' /\ [Ledger!Next]_Ledger!vars
  BY <1>2, CheckLedger, ReadsLedger, WritesLedger, SaveReplyLedger, ReturnLedger, OthersLedger,
     NeverRefused, NeverConflicts DEF Advance, Alone, Ledger!Next
<1>3. ASSUME NEW r \in Requests, NEW w \in Workers, Start(r, w)
      PROVE  LedgerInv' /\ [Ledger!Next]_Ledger!vars
  BY <1>3, OthersLedger
<1> QED
  BY <1>1, <1>2, <1>3, CrashLedger, StutterLedger DEF Next, Quiescent, Alone

LEMMA InitLedger == Init => Alone /\ Ledger!Init
<1>1. Init => LedgerInv /\ Ledger!Init
  BY DEF Init, LedgerInv, Ledger!Init, EmptyDatabase, Unsettled
<1> QED
  BY <1>1, InitAlone DEF Alone

\* A retry of an event that was answered is given the same reply, and no run is
\* repeated once its reply is stored: one process and process_event implement the
\* reply ledger.
THEOREM ImplementsLedger == ASSUME OneWorker, Streams = {} PROVE Spec => LedgerSpec
<1>1. Init => Alone /\ Ledger!Init
  BY InitLedger
<1>2. Alone /\ [Next]_vars => Alone' /\ [Ledger!Next]_Ledger!vars
  BY NextLedger
<1> QED
  BY <1>1, <1>2, PTL DEF Spec, LedgerSpec, Ledger!Spec
-----------------------------------------------------------------------------
(***************************************************************************)
(* The memory: compaction follows every append in the same hold of the     *)
(* loop, so the turns that were not folded are recent ones again when it   *)
(* ends, and the history limit removes only turns that the summary covers. *)
(* The model is then given the whole conversation, and without streams the *)
(* exchange of an event is in it once.                                     *)
(***************************************************************************)

\* A request has at most one user turn and one reply in T.
OneOfEach(T) == \A t, u \in T : t.req = u.req /\ t.role = u.role => t = u

\* Every turn of T is selected by the recent window.
AllRecent(T) == \A t \in T : Selects(T, t)

\* The recent window and one more exchange fit the history limit.
WindowFits ==
  \A T \in SUBSET Turn :
    IsFiniteSet(T) /\ Distinct(T) /\ OneOfEach(T) /\ AllRecent(T)
      => Cardinality(T) + 2 <= HistoryLimit

\* What is stored and not yet part of the summary.
Uncompacted(c) == AfterBoundary(db.turns[c], db.summary[c].upto)

\* Between append_turns and the end of maybe_compact.
Compacting(c) ==
  \E r \in Requests : ConversationOf(r) = c /\ pc[r] \in {"turns", "state", "generate"}

\* The tables hold turns of the log, of requests past their append_turns.
TablesInv ==
  /\ OneOfEach(recorded)
  /\ \A c \in Conversations :
       /\ db.turns[c] \subseteq Log(c) /\ Distinct(db.turns[c]) /\ IsFiniteSet(db.turns[c])
  /\ \A r \in Requests :
       \/ pc[r] \in {"turns", "state", "generate", "save", "return"} \cup Finished
       \/ \A t \in recorded : t.req # r

\* What a coroutine has read for its compaction or its context is what is stored.
StoredInv ==
  \A r \in Requests :
    LET c == ConversationOf(r)
    IN  /\ pc[r] \in {"context", "state"} => mem[r].turns = db.turns[c]
        /\ pc[r] = "generate" =>
             /\ mem[r].prior = db.summary[c]
             /\ mem[r].batch = Compactable(db.turns[c], db.summary[c].upto)

\* Every turn ever recorded is stored or summarised, the boundary says which, and what is
\* left outside the summary is in the recent window unless a compaction is under way.
Covered(c) ==
  /\ Log(c) \subseteq db.turns[c] \cup db.summary[c].covers
  /\ db.summary[c].covers \subseteq Log(c)
  /\ \A t \in db.turns[c] : t.seq <= db.summary[c].upto => t \in db.summary[c].covers
  /\ db.summary[c].upto = 0 \/ \E t \in db.turns[c] : db.summary[c].upto <= t.seq
  /\ Compacting(c) \/ AllRecent(Uncompacted(c))

\* That is so as long as only runs have failed.
CoveredInv == WindowFits /\ faulted \subseteq {"run"} => \A c \in Conversations : Covered(c)

\* r's process died under it.
Died(r) == "crash" \in faulted /\ pc[r] = "failed"

\* An event whose exchange is recorded is processed, or its run is about to be saved, or
\* its process died before that.
EventInv ==
  /\ \A t \in recorded : \/ db.processed[EventOf[t.req]] # NoReply
                         \/ pc[t.req] \in {"turns", "state", "generate", "save"}
                         \/ Died(t.req)
  /\ OneExchangePerEvent
-----------------------------------------------------------------------------
(* The recent window *)

\* What is newer than a turn of the window is in the window, so the window selects
\* the same turns when it is all that is left.
LEMMA WindowIsRecent ==
  ASSUME NEW T \in SUBSET Turn
  PROVE  /\ RecentWindow(T) \in SUBSET T
         /\ \A t \in RecentWindow(T), u \in T : u.seq > t.seq => u \in RecentWindow(T)
         /\ AllRecent(RecentWindow(T))
<1> DEFINE W == RecentWindow(T)
<1>1. \A t \in T : t.seq \in Nat
  BY DEF Turn
<1>2. W \in SUBSET T
  BY DEF RecentWindow
<1>3. ASSUME NEW t \in W, NEW u \in T, u.seq > t.seq PROVE u \in W
  <2>1. Newer(T, u) \cup {u} \subseteq Newer(T, t) \cup {t}
    BY <1>1, <1>2, <1>3 DEF Newer
  <2> QED
    BY <2>1 DEF RecentWindow
<1>4. ASSUME NEW t \in W PROVE Selects(W, t)
  <2>1. Newer(W, t) = Newer(T, t)
    BY <1>2, <1>3 DEF Newer
  <2>2. Selects(T, t)
    BY DEF RecentWindow
  <2> QED
    BY <2>1, <2>2 DEF Selects
<1> QED
  BY <1>2, <1>3, <1>4 DEF AllRecent

LEMMA AllRecentIsWindow ==
  ASSUME NEW T, AllRecent(T)
  PROVE  RecentWindow(T) = T
BY DEF AllRecent, RecentWindow, Newer

\* Nothing is compactable only where every turn behind the boundary is recent.
LEMMA NothingCompactable ==
  ASSUME NEW T \in SUBSET Turn, NEW upto \in Nat, Compactable(T, upto) = {}
  PROVE  AllRecent(AfterBoundary(T, upto))
<1> DEFINE U == AfterBoundary(T, upto)
<1>1. U \in SUBSET Turn
  BY DEF AfterBoundary
<1>2. U \subseteq RecentWindow(U)
  BY DEF Compactable
<1> HIDE DEF U
<1>3. RecentWindow(U) = U /\ AllRecent(RecentWindow(U))
  BY <1>1, <1>2, WindowIsRecent
<1> QED
  BY <1>3 DEF U

\* Compacting moves the boundary right behind the window: what was before it is in
\* the batch, what is after it is the window.
LEMMA CompactionFacts ==
  ASSUME NEW T \in SUBSET Turn, Distinct(T), NEW upto \in Nat, NEW B,
         B = Compactable(T, upto), Bounded(B), B # {}
  PROVE  /\ MaxSeq(B) \in Nat
         /\ \E t \in T : t.seq = MaxSeq(B)
         /\ \A t \in T : t.seq <= MaxSeq(B) => t.seq <= upto \/ t \in B
         /\ AllRecent(AfterBoundary(T, MaxSeq(B)))
<1> DEFINE U == AfterBoundary(T, upto)
           W == RecentWindow(U)
<1>1. U \in SUBSET T /\ U \in SUBSET Turn /\ B = U \ W
  BY DEF AfterBoundary, Compactable
<1>2. /\ W \in SUBSET U
      /\ \A t \in W, u \in U : u.seq > t.seq => u \in W
      /\ AllRecent(W)
  <2> HIDE DEF U
  <2> QED
    BY <1>1, WindowIsRecent
<1>3. \A t \in T : t.seq \in Nat /\ (t \in U <=> t.seq > upto)
  BY DEF AfterBoundary, Turn
<1> HIDE DEF U, W
<1>4. /\ MaxSeq(B) \in Nat /\ \A t \in B : t.seq <= MaxSeq(B)
      /\ \E t \in B : t.seq = MaxSeq(B)
  <2>1. B \in SUBSET Turn
    BY <1>1
  <2> QED
    BY <2>1, MaxSeqFacts
<1>5. PICK b \in B : b.seq = MaxSeq(B)
  BY <1>4
<1>6. b \in U /\ b \in T /\ b \notin W
  BY <1>1
<1>7. ASSUME NEW t \in T, t.seq <= MaxSeq(B), ~(t.seq <= upto) PROVE t \in B
  <2>1. t \in U
    BY <1>3, <1>7
  <2>2. t \notin W
    <3>1. CASE t.seq = b.seq
      BY <1>6, <3>1 DEF Distinct
    <3>2. CASE t.seq # b.seq
      BY <1>2, <1>3, <1>5, <1>6, <1>7, <3>2
    <3> QED
      BY <3>1, <3>2
  <2> QED
    BY <1>1, <2>1, <2>2
<1>8. AfterBoundary(T, MaxSeq(B)) = W
  <2>1. ASSUME NEW t \in W PROVE t.seq > MaxSeq(B)
    <3>1. t \in U /\ t \in T /\ t # b
      BY <1>1, <1>2, <1>6
    <3>2. ~(b.seq > t.seq)
      BY <1>2, <1>6
    <3>3. t.seq # b.seq
      BY <1>6, <3>1 DEF Distinct
    <3> QED
      BY <1>3, <1>4, <1>5, <1>6, <3>1, <3>2, <3>3
  <2>2. ASSUME NEW t \in T, t.seq > MaxSeq(B) PROVE t \in W
    <3>1. t.seq > upto
      BY <1>3, <1>4, <1>5, <1>6, <2>2
    <3>2. t \in U /\ t \notin B
      BY <1>3, <1>4, <2>2, <3>1
    <3> QED
      BY <1>1, <3>2
  <2>3. W \subseteq T
    BY <1>1, <1>2
  <2> QED
    BY <2>1, <2>2, <2>3 DEF AfterBoundary
<1> QED
  BY <1>2, <1>4, <1>5, <1>6, <1>7, <1>8

\* The history limit removes only turns that the summary covers, if the window and
\* one more exchange fit it.
LEMMA AppendKeepsUncovered ==
  ASSUME WindowFits, NEW T \in SUBSET Turn, IsFiniteSet(T), Distinct(T), OneOfEach(T),
         NEW top \in Nat, \A t \in T : t.seq <= top,
         NEW upto \in Nat, AllRecent(AfterBoundary(T, upto)),
         NEW r \in Requests, NEW A, A = T \cup {UserTurn(top + 1, r), AssistantTurn(top + 1 + 1, r)}
  PROVE  /\ UserTurn(top + 1, r) \in Trim(A) /\ AssistantTurn(top + 1 + 1, r) \in Trim(A)
         /\ \A t \in T : t.seq > upto => t \in Trim(A)
<1> DEFINE u == UserTurn(top + 1, r)
           a == AssistantTurn(top + 1 + 1, r)
           U == AfterBoundary(T, upto)
<1>1. u.seq = top + 1 /\ a.seq = top + 2 /\ A = T \cup {u, a}
  BY DEF UserTurn, AssistantTurn
<1>2. \A t \in T : t.seq \in Nat /\ t.seq <= top
  BY DEF Turn
<1>3. HistoryLimit \in Nat /\ HistoryLimit >= 2
  BY PolicyAssumption
<1>4. U \in SUBSET T /\ IsFiniteSet(U) /\ Cardinality(U) \in Nat
  <2>1. U \in SUBSET T
    BY DEF AfterBoundary
  <2> QED
    BY <2>1, FS_Subset, FS_CardinalityType
<1>5. Cardinality(U) + 2 <= HistoryLimit
  <2>1. U \in SUBSET Turn /\ Distinct(U) /\ OneOfEach(U)
    BY <1>4 DEF Distinct, OneOfEach
  <2> QED
    BY <1>4, <2>1 DEF WindowFits
<1>6. \A t \in T : t \in U <=> t.seq > upto
  BY DEF AfterBoundary
<1> HIDE DEF u, a, U
<1>7. Newer(A, a) = {} /\ Newer(A, u) \subseteq {a}
  BY <1>1, <1>2 DEF Newer
<1>8. Cardinality(Newer(A, a)) < HistoryLimit /\ Cardinality(Newer(A, u)) < HistoryLimit
  <2>1. Cardinality(Newer(A, a)) = 0
    BY <1>7, FS_EmptySet
  <2>2. IsFiniteSet({a}) /\ Cardinality({a}) = 1
    BY FS_Singleton
  <2>3. IsFiniteSet(Newer(A, u)) /\ Cardinality(Newer(A, u)) <= 1
    <3>1. IsFiniteSet(Newer(A, u)) /\ Cardinality(Newer(A, u)) <= Cardinality({a})
      BY <1>7, <2>2, FS_Subset
    <3> QED
      BY <2>2, <3>1
  <2>4. Cardinality(Newer(A, u)) \in Nat
    BY <2>3, FS_CardinalityType
  <2> QED
    BY <1>3, <2>1, <2>3, <2>4
<1>9. ASSUME NEW t \in T, t.seq > upto PROVE Cardinality(Newer(A, t)) < HistoryLimit
  <2> DEFINE R == U \ {t}
  <2>1. t \in U
    BY <1>6, <1>9
  <2>2. IsFiniteSet(R) /\ Cardinality(R) = Cardinality(U) - 1
    BY <1>4, <2>1, FS_RemoveElement
  <2>3. Newer(A, t) \subseteq R \cup {u, a}
    <3>1. ASSUME NEW v \in T, v.seq > t.seq PROVE v \in R
      BY <1>2, <1>6, <1>9, <3>1
    <3> QED
      BY <1>1, <3>1 DEF Newer
  <2> HIDE DEF R
  <2>4. IsFiniteSet(R \cup {u}) /\ Cardinality(R \cup {u}) <= Cardinality(R) + 1
    <3>1. /\ IsFiniteSet(R \cup {u})
          /\ Cardinality(R \cup {u}) = IF u \in R THEN Cardinality(R) ELSE Cardinality(R) + 1
      BY <2>2, FS_AddElement
    <3> QED
      BY <1>4, <2>2, <3>1
  <2>5. /\ IsFiniteSet((R \cup {u}) \cup {a})
        /\ Cardinality((R \cup {u}) \cup {a}) <= Cardinality(R) + 2
    <3>1. /\ IsFiniteSet((R \cup {u}) \cup {a})
          /\ Cardinality((R \cup {u}) \cup {a}) =
               IF a \in R \cup {u} THEN Cardinality(R \cup {u}) ELSE Cardinality(R \cup {u}) + 1
      BY <2>4, FS_AddElement
    <3>2. Cardinality(R \cup {u}) \in Nat /\ Cardinality(R) \in Nat
      BY <2>2, <2>4, FS_CardinalityType
    <3> QED
      BY <2>4, <3>1, <3>2
  <2>6. /\ IsFiniteSet(Newer(A, t))
        /\ Cardinality(Newer(A, t)) <= Cardinality((R \cup {u}) \cup {a})
    <3>1. Newer(A, t) \subseteq (R \cup {u}) \cup {a}
      BY <2>3
    <3> QED
      BY <2>5, <3>1, FS_Subset
  <2>7. Cardinality(Newer(A, t)) \in Nat /\ Cardinality((R \cup {u}) \cup {a}) \in Nat
    BY <2>5, <2>6, FS_CardinalityType
  <2> QED
    BY <1>3, <1>4, <1>5, <2>2, <2>5, <2>6, <2>7
<1> QED
  BY <1>1, <1>8, <1>9 DEF Trim, u, a
-----------------------------------------------------------------------------
(* Steps that leave the history alone *)

MemoryInv == AloneInv /\ TablesInv /\ StoredInv /\ CoveredInv

\* Not yet at append_turns.
Before == {"queued", "check", "upsert", "history", "context", "run", "top", "append"}

\* Past append_turns.
Past == {"turns", "state", "generate", "save", "return"} \cup Finished

\* No step goes back to before append_turns, or past it but by append_turns.
SameSide == \A q \in Requests : pc[q] \in Past => pc'[q] \in Past

\* What q has read for its compaction or its context is still stored.
StillStored(q) ==
  LET c == ConversationOf(q)
  IN  /\ pc'[q] \in {"context", "state"} =>
           \/ mem'[q].turns = db'.turns[c]
           \/ pc[q] \in {"context", "state"} /\ mem'[q].turns = mem[q].turns
      /\ pc'[q] = "generate" =>
           \/ /\ mem'[q].prior = db'.summary[c]
              /\ mem'[q].batch = Compactable(db'.turns[c], db'.summary[c].upto)
           \/ pc[q] = "generate" /\ mem'[q] = mem[q]

\* q leaves its compaction only when every turn is recent.
Leaves(q) ==
  (/\ pc[q] \in {"turns", "state", "generate"}
   /\ pc'[q] \notin {"turns", "state", "generate"}
   /\ faulted' \subseteq {"run"})
  => AllRecent(Uncompacted(ConversationOf(q)))

LEMMA MemoryStill ==
  ASSUME MemoryInv, recorded' = recorded, db'.turns = db.turns, db'.summary = db.summary,
         faulted \subseteq faulted', SameSide,
         \A q \in Requests : StillStored(q) /\ Leaves(q)
  PROVE  TablesInv' /\ StoredInv' /\ CoveredInv'
<1>1. \A c : Log(c)' = Log(c) /\ Uncompacted(c)' = Uncompacted(c)
  BY DEF Log, Uncompacted, ConversationOf
<1>2. TablesInv'
  BY <1>1 DEF MemoryInv, TablesInv, OneOfEach, Distinct, SameSide, Past
<1>3. StoredInv'
  BY DEF MemoryInv, StoredInv, StillStored, ConversationOf
<1>4. ASSUME WindowFits, faulted' \subseteq {"run"}, NEW c \in Conversations PROVE Covered(c)'
  <2>1. Covered(c)
    BY <1>4 DEF MemoryInv, CoveredInv
  <2>2. Compacting(c)' \/ AllRecent(Uncompacted(c))
    <3>1. CASE Compacting(c)
      BY <1>4, <3>1 DEF Compacting, Leaves, ConversationOf
    <3>2. CASE ~Compacting(c)
      BY <2>1, <3>2 DEF Covered
    <3> QED
      BY <3>1, <3>2
  <2>3. AllRecent(Uncompacted(c))' <=> AllRecent(Uncompacted(c))
    BY <1>1
  <2> QED
    BY <1>1, <2>1, <2>2, <2>3 DEF Covered
<1>5. CoveredInv'
  BY <1>4 DEF CoveredInv
<1> QED
  BY <1>2, <1>3, <1>5

\* A step of r alone that changes no turn and no summary.
LEMMA StepStill ==
  ASSUME MemoryInv, recorded' = recorded, db'.turns = db.turns, db'.summary = db.summary,
         faulted \subseteq faulted', NEW r \in Requests, NEW to \in Steps, NEW l,
         pc' = [pc EXCEPT ![r] = to], mem' = [mem EXCEPT ![r] = l],
         pc[r] \in Past => to \in Past,
         to \in {"context", "state"} => l.turns = db.turns[ConversationOf(r)],
         to = "generate" =>
           /\ l.prior = db.summary[ConversationOf(r)]
           /\ l.batch = Compactable(db.turns[ConversationOf(r)], db.summary[ConversationOf(r)].upto),
         (/\ pc[r] \in {"turns", "state", "generate"}
          /\ to \notin {"turns", "state", "generate"}
          /\ faulted' \subseteq {"run"}) => AllRecent(Uncompacted(ConversationOf(r)))
  PROVE  TablesInv' /\ StoredInv' /\ CoveredInv'
<1>1. pc \in [Requests -> Steps] /\ mem \in [Requests -> Locals]
  BY DEF MemoryInv, AloneInv, TypeInv, TypeOK
<1>2. pc'[r] = to /\ mem'[r] = l
  BY <1>1
<1>3. ASSUME NEW q \in Requests, q # r PROVE pc'[q] = pc[q] /\ mem'[q] = mem[q]
  BY <1>1, <1>3
<1>4. SameSide
  BY <1>2, <1>3 DEF SameSide
<1>5. ASSUME NEW q \in Requests PROVE StillStored(q) /\ Leaves(q)
  <2>1. CASE q = r
    BY <1>2, <2>1 DEF StillStored, Leaves
  <2>2. CASE q # r
    BY <1>3, <2>2 DEF StillStored, Leaves
  <2> QED
    BY <2>1, <2>2
<1> QED
  BY <1>4, <1>5, MemoryStill

\* What a request of the one process reads is the database.
LEMMA ReadsDatabase ==
  ASSUME OneWorker, MemoryInv, NEW r \in Requests, NEW step, step # "queued", Runs(r, step)
  PROVE  /\ host[r] \in Workers /\ View(host[r]) = db /\ pc[r] = step
         /\ db \in Database /\ mem[r] \in Locals /\ ConversationOf(r) \in Conversations
         /\ db.turns[ConversationOf(r)] \in SUBSET Turn
         /\ db.summary[ConversationOf(r)] \in Summary
<1>1. pc[r] = step /\ TypeInv
  BY DEF Runs, MemoryInv, AloneInv
<1>2. host[r] \in Workers
  BY <1>1, RunningHost
<1>3. View(host[r]) = db
  BY <1>2, PlainView DEF MemoryInv, AloneInv
<1>4. db \in Database /\ mem[r] \in Locals
  BY <1>1 DEF TypeInv, TypeOK
<1> QED
  BY <1>1, <1>2, <1>3, <1>4, Readings

LEMMA SelectMemory ==
  ASSUME OneWorker, MemoryInv, NEW r \in Requests, NEW from, NEW to \in Steps, NEW l,
         Select(r, from, to, l),
         from \in Past => to \in Past,
         to \in {"context", "state"} => l.turns = db.turns[ConversationOf(r)],
         to = "generate" =>
           /\ l.prior = db.summary[ConversationOf(r)]
           /\ l.batch = Compactable(db.turns[ConversationOf(r)], db.summary[ConversationOf(r)].upto),
         (/\ from \in {"turns", "state", "generate"}
          /\ to \notin {"turns", "state", "generate"}
          /\ faulted \subseteq {"run"}) => AllRecent(Uncompacted(ConversationOf(r)))
  PROVE  TablesInv' /\ StoredInv' /\ CoveredInv'
<1>1. /\ pc[r] = from /\ pc' = [pc EXCEPT ![r] = to] /\ mem' = [mem EXCEPT ![r] = l]
      /\ db' = db /\ recorded' = recorded /\ faulted' = faulted
  BY DEF Select, Goto, Runs
<1>2. db'.turns = db.turns /\ db'.summary = db.summary /\ faulted \subseteq faulted'
  BY <1>1
<1> QED
  BY <1>1, <1>2, StepStill

LEMMA ReadsMemory ==
  ASSUME OneWorker, MemoryInv, NEW r \in Requests,
         Check(r) \/ ReadHistory(r) \/ ReadContext(r) \/ ReadTop(r)
  PROVE  TablesInv' /\ StoredInv' /\ CoveredInv'
<1>1. CASE ReadHistory(r)
  <2> DEFINE l == [mem[r] EXCEPT !.turns = View(host[r]).turns[ConversationOf(r)]]
  <2>1. Select(r, "history", "context", l)
    BY <1>1 DEF ReadHistory
  <2>2. l.turns = db.turns[ConversationOf(r)]
    <3>1. View(host[r]) = db /\ mem[r] \in Locals
      BY <2>1, ReadsDatabase DEF Select
    <3> QED
      BY <3>1 DEF Locals
  <2>3. "context" \in Steps /\ "history" \notin Past
    BY DEF Steps, Past, Finished
  <2> HIDE DEF l
  <2> QED
    BY <2>1, <2>2, <2>3, SelectMemory
<1>2. CASE Check(r) \/ ReadContext(r) \/ ReadTop(r)
  <2>1. PICK from, to, l :
          /\ from \in {"check", "context", "top"} /\ to \in {"upsert", "return", "run", "append"}
          /\ Select(r, from, to, l)
    <3>1. CASE Check(r)
      BY <3>1 DEF Check
    <3>2. CASE ReadContext(r) \/ ReadTop(r)
      BY <3>2 DEF ReadContext, ReadTop
    <3> QED
      BY <1>2, <3>1, <3>2
  <2>2. to \in Steps /\ from \notin Past
    BY <2>1 DEF Steps, Past, Finished
  <2> QED
    BY <2>1, <2>2, SelectMemory
<1> QED
  BY <1>1, <1>2

LEMMA ReadTurnsMemory ==
  ASSUME OneWorker, MemoryInv, NEW r \in Requests, ReadTurns(r)
  PROVE  TablesInv' /\ StoredInv' /\ CoveredInv'
<1> DEFINE c == ConversationOf(r)
           table == View(host[r]).turns[c]
           l == [mem[r] EXCEPT !.turns = table]
           to == IF table = {} THEN "save" ELSE "state"
<1>1. Select(r, "turns", to, l)
  BY DEF ReadTurns
<1>2. View(host[r]) = db /\ mem[r] \in Locals
  BY <1>1, ReadsDatabase DEF Select
<1>3. l.turns = db.turns[c]
  BY <1>2 DEF Locals
<1>4. to = "save" => AllRecent(Uncompacted(c))
  BY <1>2 DEF Uncompacted, AfterBoundary, AllRecent
<1>5. to \in Steps /\ to \in Past /\ to \in {"save", "state"}
  BY DEF Steps, Past
<1> HIDE DEF l, to
<1> QED
  BY <1>1, <1>3, <1>4, <1>5, SelectMemory

LEMMA ReadStateMemory ==
  ASSUME OneWorker, MemoryInv, NEW r \in Requests, ReadState(r)
  PROVE  TablesInv' /\ StoredInv' /\ CoveredInv'
<1> DEFINE c == ConversationOf(r)
           summary == View(host[r]).summary[c]
           batch == Compactable(mem[r].turns, summary.upto)
           l == [mem[r] EXCEPT !.prior = summary, !.batch = batch]
           to == IF batch = {} THEN "save" ELSE "generate"
<1>1. Select(r, "state", to, l)
  BY DEF ReadState
<1>2. /\ View(host[r]) = db /\ mem[r] \in Locals /\ pc[r] = "state"
      /\ db.turns[c] \in SUBSET Turn /\ db.summary[c] \in Summary
  BY <1>1, ReadsDatabase DEF Select
<1>3. mem[r].turns = db.turns[c]
  BY <1>2 DEF MemoryInv, StoredInv
<1>4. /\ l.prior = db.summary[c] /\ l.batch = batch
      /\ batch = Compactable(db.turns[c], db.summary[c].upto)
  BY <1>2, <1>3 DEF Locals
<1> HIDE DEF c, batch
<1>5. to = "save" => AllRecent(Uncompacted(c))
  <2>1. db.summary[c].upto \in Nat
    BY <1>2 DEF Summary
  <2> QED
    BY <1>2, <1>4, <2>1, NothingCompactable DEF Uncompacted
<1>6. to \in Steps /\ to \in Past /\ to \in {"save", "generate"}
  BY DEF Steps, Past
<1> HIDE DEF l, to
<1> QED
  BY <1>1, <1>4, <1>5, <1>6, SelectMemory DEF c

\* A commit of neither turns nor a summary.
LEMMA WritesMemory ==
  ASSUME OneWorker, MemoryInv, NEW r \in Requests, UpsertConversation(r) \/ SaveReply(r)
  PROVE  TablesInv' /\ StoredInv' /\ CoveredInv'
<1>1. PICK from, to, new, l :
        /\ from \in {"upsert", "save"} /\ to \in {"history", "return"}
        /\ from = "save" => to = "return"
        /\ new.turns = db.turns /\ new.summary = db.summary
        /\ Write(r, from, to, new, l)
  <2>1. View(host[r]) = db /\ db \in Database
    BY ReadsDatabase DEF UpsertConversation, SaveReply, Write
  <2>2. CASE UpsertConversation(r)
    BY <2>1, <2>2 DEF UpsertConversation, Database
  <2>3. CASE SaveReply(r)
    BY <2>1, <2>3 DEF SaveReply, Database
  <2> QED
    BY <2>2, <2>3
<1>2. /\ pc[r] = from /\ pc' = [pc EXCEPT ![r] = to] /\ mem' = [mem EXCEPT ![r] = l]
      /\ db' = new /\ faulted' = faulted /\ Commit(host[r], new)
  BY <1>1 DEF Write, Goto, Runs, Commit
<1>3. recorded' = recorded
  <2>1. \A c \in Conversations : new.turns[c] \subseteq recorded
    BY <1>1 DEF MemoryInv, TablesInv, Log
  <2> QED
    BY <1>2, <2>1 DEF Commit
<1>4. /\ db'.turns = db.turns /\ db'.summary = db.summary /\ faulted \subseteq faulted'
      /\ to \in Steps /\ (from \in Past => to \in Past)
  BY <1>1, <1>2 DEF Steps, Past, Finished
<1> QED
  BY <1>1, <1>2, <1>3, <1>4, StepStill

\* The steps that reach no database.
LEMMA OthersMemory ==
  ASSUME OneWorker, MemoryInv, NEW r \in Requests,
         \/ \E w \in Workers : Start(r, w)
         \/ RunInThread(r) \/ RunReturns(r) \/ RunRaises(r) \/ SummaryEmpty(r) \/ Return(r)
  PROVE  TablesInv' /\ StoredInv' /\ CoveredInv'
<1>1. pc \in [Requests -> Steps] /\ mem \in [Requests -> Locals]
  BY DEF MemoryInv, AloneInv, TypeInv, TypeOK
<1>2. PICK to \in Steps, l \in {mem[r], NoLocals} :
        /\ pc' = [pc EXCEPT ![r] = to] /\ mem' = [mem EXCEPT ![r] = l]
        /\ to \in {"check", "run", "top", "failed", "save", "done"}
        /\ pc[r] \in Past => to \in Past
        /\ pc[r] \in {"turns", "state", "generate"} => "summary" \in faulted'
  <2>1. CASE \E w \in Workers : Start(r, w)
    <3>1. /\ pc' = [pc EXCEPT ![r] = "check"] /\ mem' = [mem EXCEPT ![r] = mem[r]]
          /\ pc[r] = "queued"
      BY <1>1, <2>1 DEF Start
    <3> QED
      BY <3>1 DEF Steps, Past, Finished
  <2>2. CASE RunInThread(r)
    <3>1. /\ pc' = [pc EXCEPT ![r] = "run"] /\ mem' = [mem EXCEPT ![r] = mem[r]]
          /\ pc[r] = "run"
      BY <1>1, <2>2 DEF RunInThread, Runs
    <3> QED
      BY <3>1 DEF Steps, Past, Finished
  <2>3. CASE RunReturns(r)
    <3>1. /\ pc' = [pc EXCEPT ![r] = "top"] /\ mem' = [mem EXCEPT ![r] = mem[r]]
          /\ pc[r] = "run"
      BY <1>1, <2>3 DEF RunReturns
    <3> QED
      BY <3>1 DEF Steps, Past, Finished
  <2>4. CASE RunRaises(r)
    <3>1. /\ pc' = [pc EXCEPT ![r] = "failed"] /\ mem' = [mem EXCEPT ![r] = NoLocals]
          /\ pc[r] = "run"
      BY <2>4 DEF RunRaises, Raise, Finish
    <3> QED
      BY <3>1 DEF Steps, Past, Finished
  <2>5. CASE SummaryEmpty(r)
    <3>1. /\ pc' = [pc EXCEPT ![r] = "save"] /\ mem' = [mem EXCEPT ![r] = mem[r]]
          /\ pc[r] = "generate" /\ "summary" \in faulted'
      BY <1>1, <2>5 DEF SummaryEmpty, Goto, Runs
    <3> QED
      BY <3>1 DEF Steps, Past, Finished
  <2>6. CASE Return(r)
    <3>1. /\ pc' = [pc EXCEPT ![r] = "done"] /\ mem' = [mem EXCEPT ![r] = NoLocals]
          /\ pc[r] = "return"
      BY <2>6 DEF Return, Finish, Runs
    <3> QED
      BY <3>1 DEF Steps, Past, Finished
  <2> QED
    BY <2>1, <2>2, <2>3, <2>4, <2>5, <2>6
<1>3. recorded' = recorded /\ db' = db /\ faulted \subseteq faulted'
  BY DEF Start, RunInThread, RunReturns, RunRaises, SummaryEmpty, Return
<1>4. db'.turns = db.turns /\ db'.summary = db.summary
  BY <1>3
<1>5. faulted' \subseteq {"run"} => pc[r] \notin {"turns", "state", "generate"}
  BY <1>2
<1> QED
  BY <1>2, <1>3, <1>4, <1>5, StepStill

LEMMA CrashMemory ==
  ASSUME MemoryInv, NEW w \in Workers, Crash(w)
  PROVE  TablesInv' /\ StoredInv' /\ CoveredInv'
<1>1. /\ recorded' = recorded /\ db' = db /\ faulted \subseteq faulted' /\ "crash" \in faulted'
      /\ \A q \in Requests : \/ pc'[q] = "failed"
                             \/ pc'[q] = pc[q] /\ mem'[q] = mem[q]
  BY DEF Crash
<1>2. SameSide
  BY <1>1 DEF SameSide, Past, Finished
<1>3. \A q \in Requests : StillStored(q) /\ Leaves(q)
  BY <1>1 DEF StillStored, Leaves
<1>4. db'.turns = db.turns /\ db'.summary = db.summary
  BY <1>1
<1> QED
  BY <1>1, <1>2, <1>3, <1>4, MemoryStill

LEMMA StutterMemory ==
  ASSUME MemoryInv, UNCHANGED vars
  PROVE  TablesInv' /\ StoredInv' /\ CoveredInv'
<1>1. SameSide /\ \A q \in Requests : StillStored(q) /\ Leaves(q)
  BY DEF vars, SameSide, StillStored, Leaves
<1> QED
  BY <1>1, MemoryStill DEF vars
-----------------------------------------------------------------------------
(* append_turns and save_summary_state *)

\* While r serves, no other request has read anything that it will use.
LEMMA OthersIdle ==
  ASSUME OneWorker, MemoryInv, NEW r \in Requests, NEW step, step # "queued", Runs(r, step),
         NEW q \in Requests, q # r
  PROVE  pc[q] \notin {"context", "append", "turns", "state", "generate", "save"}
<1>1. pc[r] = step /\ loop[host[r]] = r
  BY DEF Runs
<1>2. ~Serving(q)
  BY <1>1, OnlyHolder DEF MemoryInv, AloneInv
<1> QED
  BY <1>2 DEF Serving, Finished

LEMMA AppendMemory ==
  ASSUME OneWorker, MemoryInv, NEW r \in Requests, AppendTurns(r)
  PROVE  TablesInv' /\ StoredInv' /\ CoveredInv'
<1> DEFINE c == ConversationOf(r)
           T == db.turns[c]
           top == MaxSeq(T)
           u == UserTurn(top + 1, r)
           a == AssistantTurn(top + 1 + 1, r)
           A == T \cup {u, a}
           new == [db EXCEPT !.turns[c] = Trim(A)]
           upto == db.summary[c].upto
           covers == db.summary[c].covers
<1>1. Runs(r, "append") /\ "append" # "queued"
  BY DEF AppendTurns
<1>2. /\ View(host[r]) = db /\ pc[r] = "append" /\ c \in Conversations /\ db \in Database
      /\ T \in SUBSET Turn /\ db.summary[c] \in Summary /\ host[r] \in Workers
  BY <1>1, ReadsDatabase
<1>3. mem[r].top = top
  BY <1>2 DEF MemoryInv, AloneInv, ReadsInv
<1>4. top \in Nat /\ \A t \in T : t.seq <= top /\ t.seq \in Nat
  <2>1. Bounded(T)
    BY <1>2, Readings DEF MemoryInv, AloneInv
  <2> QED
    BY <1>2, <2>1, MaxSeqFacts DEF Turn
<1>5. /\ pc' = [pc EXCEPT ![r] = "turns"] /\ db' = new /\ faulted' = faulted
      /\ Commit(host[r], new)
  BY <1>2, <1>3 DEF AppendTurns, Write, Goto, Commit
<1>6. \A q \in Requests : q # r => pc[q] \notin {"context", "turns", "state", "generate"}
  BY <1>1, OthersIdle
<1>7. \A t \in recorded : t.req # r
  BY <1>2 DEF MemoryInv, TablesInv, Finished
<1> HIDE DEF top
<1>8. /\ u.seq = top + 1 /\ a.seq = top + 2 /\ u.req = r /\ a.req = r
      /\ u.role = "user" /\ a.role = "assistant"
  BY <1>4 DEF UserTurn, AssistantTurn
<1> HIDE DEF u, a
<1>9. Trim(A) \subseteq A
  BY TrimRemoves
<1>10. T \subseteq Log(c) /\ Distinct(T) /\ IsFiniteSet(T) /\ OneOfEach(T)
  BY <1>2 DEF MemoryInv, TablesInv, Log, OneOfEach
<1> HIDE DEF T, A
<1>11. /\ db'.turns[c] = Trim(A) /\ db'.summary = db.summary
       /\ \A d \in Conversations : d # c => db'.turns[d] = db.turns[d]
  BY <1>2, <1>5 DEF Database
<1> HIDE DEF new
<1>12. recorded' = recorded \cup Trim(A)
  <2>1. \A d \in Conversations : d # c => db.turns[d] \subseteq recorded
    BY DEF MemoryInv, TablesInv, Log
  <2>2. recorded' = recorded \cup UNION {db'.turns[d] : d \in Conversations}
    BY <1>5 DEF Commit
  <2> QED
    BY <1>2, <1>11, <2>1, <2>2
<1>13. recorded' \subseteq recorded \cup {u, a} /\ recorded \subseteq recorded'
  BY <1>9, <1>10, <1>12 DEF A, Log
<1>14. /\ Log(c)' \subseteq Log(c) \cup {u, a} /\ Log(c) \subseteq Log(c)' /\ Trim(A) \subseteq Log(c)'
       /\ \A d \in Conversations : d # c => Log(d)' = Log(d)
  <2>1. ASSUME NEW d \in Conversations, d # c PROVE Log(d)' = Log(d)
    BY <1>8, <1>13, <2>1 DEF Log, ConversationOf
  <2>2. Log(c)' \subseteq Log(c) \cup {u, a} /\ Log(c) \subseteq Log(c)'
    BY <1>13 DEF Log, ConversationOf
  <2>3. \A t \in A : ConversationOf(t.req) = c
    BY <1>8, <1>10 DEF A, Log
  <2>4. Trim(A) \subseteq Log(c)'
    BY <1>9, <1>12, <2>3 DEF Log, ConversationOf
  <2> QED
    BY <2>1, <2>2, <2>4
<1>15. pc \in [Requests -> Steps]
  BY DEF MemoryInv, AloneInv, TypeInv, TypeOK
<1>16. pc'[r] = "turns" /\ \A q \in Requests : q # r => pc'[q] = pc[q]
  BY <1>5, <1>15
<1>17. TablesInv'
  <2>1. OneOfEach(recorded')
    BY <1>7, <1>8, <1>13 DEF MemoryInv, TablesInv, OneOfEach
  <2>2. ASSUME NEW d \in Conversations
        PROVE  db'.turns[d] \subseteq Log(d)' /\ Distinct(db'.turns[d]) /\ IsFiniteSet(db'.turns[d])
    <3>1. CASE d = c
      <4>1. Distinct(A)
        BY <1>4, <1>8, <1>10 DEF A, Distinct
      <4>2. IsFiniteSet(A)
        <5>1. A = (T \cup {u}) \cup {a}
          BY DEF A
        <5>2. IsFiniteSet(T \cup {u})
          BY <1>10, FS_AddElement
        <5> QED
          BY <5>1, <5>2, FS_AddElement
      <4>3. IsFiniteSet(Trim(A))
        BY <1>9, <4>2, FS_Subset
      <4>4. Distinct(Trim(A))
        BY <1>9, <4>1 DEF Distinct
      <4> QED
        BY <1>11, <1>14, <3>1, <4>3, <4>4
    <3>2. CASE d # c
      BY <1>11, <1>14, <3>2 DEF MemoryInv, TablesInv
    <3> QED
      BY <3>1, <3>2
  <2>3. ASSUME NEW q \in Requests, pc'[q] \notin Past PROVE \A t \in recorded' : t.req # q
    <3>1. q # r /\ pc[q] \notin Past
      BY <1>16, <2>3 DEF Past
    <3> QED
      BY <1>8, <1>13, <3>1 DEF MemoryInv, TablesInv, Past
  <2> QED
    BY <2>1, <2>2, <2>3 DEF TablesInv, Past
<1>18. StoredInv'
  BY <1>6, <1>16 DEF StoredInv
<1>19. ASSUME WindowFits, faulted \subseteq {"run"} PROVE \A d \in Conversations : Covered(d)'
  <2>1. \A d \in Conversations : Covered(d) /\ AllRecent(Uncompacted(d))
    <3>1. \A d : ~Compacting(d)
      BY <1>2, <1>6 DEF Compacting
    <3> QED
      BY <1>19, <3>1 DEF MemoryInv, CoveredInv, Covered
  <2>2. ASSUME NEW d \in Conversations, d # c PROVE Covered(d)'
    <3>1. Uncompacted(d)' = Uncompacted(d)
      BY <1>11, <2>2 DEF Uncompacted
    <3>2. AllRecent(Uncompacted(d))'
      BY <2>1, <3>1
    <3> QED
      BY <1>11, <1>14, <2>1, <2>2, <3>2 DEF Covered
  <2>3. Covered(c)'
    <3>1. /\ Log(c) \subseteq T \cup covers /\ covers \subseteq Log(c)
          /\ \A t \in T : t.seq <= upto => t \in covers
          /\ upto = 0 \/ \E t \in T : upto <= t.seq
      BY <1>2, <2>1 DEF Covered, T
    <3>2. upto \in Nat
      BY <1>2 DEF Summary
    <3>3. upto <= top
      BY <1>4, <3>1, <3>2
    <3>4. u \in Trim(A) /\ a \in Trim(A) /\ \A t \in T : t.seq > upto => t \in Trim(A)
      <4>1. AllRecent(AfterBoundary(T, upto))
        BY <1>2, <2>1 DEF Uncompacted, T
      <4> QED
        BY <1>2, <1>4, <1>10, <1>19, <3>2, <4>1, AppendKeepsUncovered DEF A, u, a
    <3>5. Log(c)' \subseteq Trim(A) \cup covers
      BY <1>4, <1>14, <3>1, <3>2, <3>4
    <3>6. \A t \in Trim(A) : t.seq <= upto => t \in covers
      BY <1>4, <1>8, <1>9, <3>1, <3>2, <3>3 DEF A
    <3>7. \E t \in Trim(A) : upto <= t.seq
      BY <1>4, <1>8, <3>2, <3>3, <3>4
    <3>8. Compacting(c)'
      BY <1>16 DEF Compacting, ConversationOf
    <3>9. covers \subseteq Log(c)'
      BY <1>14, <3>1
    <3> QED
      BY <1>11, <3>5, <3>6, <3>7, <3>8, <3>9 DEF Covered
  <2> QED
    BY <2>2, <2>3
<1>20. CoveredInv'
  BY <1>5, <1>19 DEF CoveredInv
<1> QED
  BY <1>17, <1>18, <1>20

LEMMA SaveSummaryMemory ==
  ASSUME OneWorker, MemoryInv, NEW r \in Requests, SaveSummary(r)
  PROVE  TablesInv' /\ StoredInv' /\ CoveredInv'
<1> DEFINE c == ConversationOf(r)
           T == db.turns[c]
           upto == db.summary[c].upto
           covers == db.summary[c].covers
           batch == mem[r].batch
           new == [db EXCEPT !.summary[c] = Fold(mem[r].prior, batch)]
<1>1. Runs(r, "generate") /\ "generate" # "queued"
  BY DEF SaveSummary, Write
<1>2. /\ View(host[r]) = db /\ pc[r] = "generate" /\ c \in Conversations /\ db \in Database
      /\ T \in SUBSET Turn /\ db.summary[c] \in Summary /\ host[r] \in Workers
  BY <1>1, ReadsDatabase
<1>3. /\ mem[r].prior = db.summary[c] /\ batch = Compactable(T, upto)
      /\ batch # {} /\ Bounded(batch)
  BY <1>2 DEF MemoryInv, StoredInv, AloneInv, ReadsInv, TypeInv, GoodLocals
<1>4. /\ pc' = [pc EXCEPT ![r] = "save"] /\ db' = new /\ faulted' = faulted
      /\ Commit(host[r], new)
  BY <1>2 DEF SaveSummary, Write, Goto, Commit
<1>5. \A q \in Requests : q # r => pc[q] \notin {"context", "turns", "state", "generate"}
  BY <1>1, OthersIdle
<1>6. /\ db'.turns = db.turns
      /\ db'.summary[c].covers = covers \cup batch /\ db'.summary[c].upto = MaxSeq(batch)
      /\ \A d \in Conversations : d # c => db'.summary[d] = db.summary[d]
  BY <1>2, <1>3, <1>4 DEF Database, Fold
<1>7. recorded' = recorded
  <2>1. \A d \in Conversations : new.turns[d] \subseteq recorded
    BY <1>4, <1>6 DEF MemoryInv, TablesInv, Log
  <2> QED
    BY <1>4, <2>1 DEF Commit
<1>8. \A d : Log(d)' = Log(d)
  BY <1>7 DEF Log, ConversationOf
<1> HIDE DEF new
<1>9. pc \in [Requests -> Steps]
  BY DEF MemoryInv, AloneInv, TypeInv, TypeOK
<1>10. pc'[r] = "save" /\ \A q \in Requests : q # r => pc'[q] = pc[q]
  BY <1>4, <1>9
<1>11. TablesInv'
  BY <1>6, <1>7, <1>8, <1>10 DEF MemoryInv, TablesInv, OneOfEach, Distinct
<1>12. StoredInv'
  BY <1>5, <1>10 DEF StoredInv
<1>13. ASSUME WindowFits, faulted \subseteq {"run"} PROVE \A d \in Conversations : Covered(d)'
  <2>1. \A d \in Conversations : Covered(d)
    BY <1>13 DEF MemoryInv, CoveredInv
  <2>2. ASSUME NEW d \in Conversations, d # c PROVE Covered(d)'
    <3>1. Uncompacted(d)' = Uncompacted(d)
      BY <1>6, <2>2 DEF Uncompacted
    <3>2. ~Compacting(d)
      BY <1>5, <2>2 DEF Compacting
    <3>3. AllRecent(Uncompacted(d))'
      BY <2>1, <3>1, <3>2 DEF Covered
    <3> QED
      BY <1>6, <1>8, <2>1, <2>2, <3>3 DEF Covered
  <2>3. Covered(c)'
    <3>1. /\ Log(c) \subseteq T \cup covers /\ covers \subseteq Log(c)
          /\ \A t \in T : t.seq <= upto => t \in covers
      BY <1>2, <2>1 DEF Covered
    <3>2. T \subseteq Log(c) /\ Distinct(T) /\ upto \in Nat
      BY <1>2 DEF MemoryInv, TablesInv, Summary
    <3> HIDE DEF T, upto, covers, batch, c
    <3>3. /\ MaxSeq(batch) \in Nat /\ \E t \in T : t.seq = MaxSeq(batch)
          /\ \A t \in T : t.seq <= MaxSeq(batch) => t.seq <= upto \/ t \in batch
          /\ AllRecent(AfterBoundary(T, MaxSeq(batch)))
      BY <1>2, <1>3, <3>2, CompactionFacts
    <3>4. batch \subseteq T
      BY <1>3 DEF Compactable, AfterBoundary
    <3>5. db'.turns[c] = T
      BY <1>6 DEF T
    <3>6. Uncompacted(c)' = AfterBoundary(T, MaxSeq(batch))
      BY <1>6, <3>5 DEF Uncompacted
    <3>7. AllRecent(Uncompacted(c))'
      BY <3>3, <3>6
    <3>8. /\ Log(c)' \subseteq T \cup (covers \cup batch) /\ covers \cup batch \subseteq Log(c)'
          /\ \A t \in T : t.seq <= MaxSeq(batch) => t \in covers \cup batch
          /\ \E t \in T : MaxSeq(batch) <= t.seq
      BY <1>8, <3>1, <3>2, <3>3, <3>4
    <3> QED
      BY <1>6, <3>5, <3>7, <3>8 DEF Covered
  <2> QED
    BY <2>2, <2>3
<1>14. CoveredInv'
  BY <1>4, <1>13 DEF CoveredInv
<1> QED
  BY <1>11, <1>12, <1>14
-----------------------------------------------------------------------------
LEMMA NextMemory ==
  ASSUME OneWorker, MemoryInv, [Next]_vars
  PROVE  MemoryInv'
<1>1. AloneInv'
  BY NextAlone DEF MemoryInv
<1>2. ASSUME NEW r \in Requests, Advance(r) PROVE TablesInv' /\ StoredInv' /\ CoveredInv'
  <2>1. ~WriteRefused(r) /\ ~AppendConflicts(r)
    BY NeverRefused, NeverConflicts DEF MemoryInv
  <2> QED
    BY <1>2, <2>1, ReadsMemory, ReadTurnsMemory, ReadStateMemory, WritesMemory, AppendMemory,
       SaveSummaryMemory, OthersMemory DEF Advance
<1>3. ASSUME NEW r \in Requests, NEW w \in Workers, Start(r, w)
      PROVE  TablesInv' /\ StoredInv' /\ CoveredInv'
  BY <1>3, OthersMemory
<1> QED
  BY <1>1, <1>2, <1>3, CrashMemory, StutterMemory DEF Next, Quiescent, MemoryInv

LEMMA InitMemory == Init => MemoryInv
<1> SUFFICES ASSUME Init PROVE MemoryInv
  OBVIOUS
<1>1. /\ db = EmptyDatabase /\ recorded = {} /\ \A r \in Requests : pc[r] = "queued"
  BY DEF Init
<1>2. \A c \in Conversations : db.turns[c] = {} /\ db.summary[c] = NoSummary /\ Log(c) = {}
  BY <1>1 DEF EmptyDatabase, Log
<1>3. TablesInv
  BY <1>1, <1>2, FS_EmptySet DEF TablesInv, OneOfEach, Distinct
<1>4. StoredInv
  BY <1>1 DEF StoredInv
<1>5. ASSUME NEW c \in Conversations PROVE Covered(c)
  <2>1. Uncompacted(c) = {}
    BY <1>2 DEF Uncompacted, AfterBoundary
  <2>2. AllRecent(Uncompacted(c))
    BY <2>1 DEF AllRecent
  <2> QED
    BY <1>2, <2>2 DEF Covered, NoSummary
<1> QED
  BY <1>3, <1>4, <1>5, InitAlone DEF MemoryInv, CoveredInv

LEMMA AlwaysMemory == ASSUME OneWorker PROVE Spec => []MemoryInv
<1>1. MemoryInv /\ [Next]_vars => MemoryInv'
  BY NextMemory
<1> QED
  BY <1>1, InitMemory, PTL DEF Spec

\* One process whose recent window fits the history limit: a turn leaves the table
\* only after it was folded into the summary, as long as no summary failed and the
\* process did not die.
THEOREM NothingIsForgotten == ASSUME OneWorker, WindowFits PROVE Spec => []NothingForgotten
<1>1. ASSUME WindowFits, MemoryInv, faulted \subseteq {"run"}, NEW t \in recorded
      PROVE  LET c == ConversationOf(t.req) IN t \in db.turns[c] \cup db.summary[c].covers
  <2>1. t.req \in Requests
    BY <1>1 DEF MemoryInv, AloneInv, TypeInv, TypeOK, Turn
  <2>2. ConversationOf(t.req) \in Conversations
    BY <2>1, RequestAssumption DEF ConversationOf
  <2> QED
    BY <1>1, <2>2 DEF MemoryInv, CoveredInv, Covered, Log
<1>2. MemoryInv => NothingForgotten
  BY <1>1 DEF NothingForgotten
<1> QED
  BY <1>2, AlwaysMemory, PTL

\* One process whose recent window fits the history limit: load_context hands the
\* model every turn of the conversation, in its summary or among the recent turns.
THEOREM ContextIsComplete == ASSUME OneWorker, WindowFits PROVE Spec => ContextComplete
<1> DEFINE Complete == \A r \in Requests :
             pc[r] = "context" /\ pc'[r] = "run" /\ faulted \subseteq {"run"} =>
               mem'[r].context = {t \in recorded : ConversationOf(t.req) = ConversationOf(r)}
<1>1. ASSUME OneWorker, WindowFits, MemoryInv, NEW r \in Requests, ReadContext(r), faulted \subseteq {"run"}
      PROVE  mem'[r].context = Log(ConversationOf(r))
  <2> DEFINE c == ConversationOf(r)
             summary == View(host[r]).summary[c]
             l == [mem[r] EXCEPT !.context = ContextOf(mem[r].turns, summary)]
  <2>1. Runs(r, "context") /\ mem' = [mem EXCEPT ![r] = l]
    BY <1>1 DEF ReadContext, Select
  <2>2. /\ View(host[r]) = db /\ pc[r] = "context" /\ mem[r] \in Locals /\ c \in Conversations
        /\ db.summary[c] \in Summary /\ db.turns[c] \in SUBSET Turn
    BY <1>1, <2>1, ReadsDatabase
  <2>3. mem[r].turns = db.turns[c]
    BY <1>1, <2>2 DEF MemoryInv, StoredInv
  <2>4. mem'[r].context = ContextOf(db.turns[c], db.summary[c])
    <3>1. mem \in [Requests -> Locals]
      BY <1>1 DEF MemoryInv, AloneInv, TypeInv, TypeOK
    <3>2. mem'[r] = l
      BY <2>1, <3>1
    <3>3. l.context = ContextOf(mem[r].turns, summary)
      BY <2>2 DEF Locals
    <3> QED
      BY <2>2, <2>3, <3>2, <3>3
  <2>5. ~Compacting(c)
    <3>1. \A q \in Requests : q # r => pc[q] \notin {"turns", "state", "generate"}
      BY <1>1, <2>1, OthersIdle
    <3> QED
      BY <2>2, <3>1 DEF Compacting
  <2>6. Covered(c) /\ AllRecent(Uncompacted(c))
    BY <1>1, <2>2, <2>5 DEF MemoryInv, CoveredInv, Covered
  <2>7. RecentWindow(Uncompacted(c)) = Uncompacted(c)
    BY <2>6, AllRecentIsWindow
  <2>8. ContextOf(db.turns[c], db.summary[c]) = db.summary[c].covers \cup Uncompacted(c)
    BY <2>7 DEF ContextOf, Uncompacted
  <2>9. Log(c) = db.summary[c].covers \cup Uncompacted(c)
    <3>1. \A t \in db.turns[c] : t.seq \in Nat /\ db.summary[c].upto \in Nat
      BY <2>2 DEF Turn, Summary
    <3>2. db.turns[c] \subseteq Log(c)
      BY <1>1, <2>2 DEF MemoryInv, TablesInv
    <3> QED
      BY <2>6, <3>1, <3>2 DEF Covered, Uncompacted, AfterBoundary
  <2> QED
    BY <2>4, <2>8, <2>9
<1>2. ASSUME OneWorker, MemoryInv, [Next]_vars, NEW r \in Requests, pc[r] = "context", pc'[r] = "run"
      PROVE  ReadContext(r)
  <2>1. pc \in [Requests -> Steps]
    BY <1>2 DEF MemoryInv, AloneInv, TypeInv, TypeOK
  <2>2. ASSUME NEW q \in Requests, Advance(q) PROVE ReadContext(r)
    <3>1. \/ pc' = pc
          \/ \E to : pc' = [pc EXCEPT ![q] = to]
      BY <2>2 DEF Advance, Check, UpsertConversation, ReadHistory, ReadContext, RunInThread,
         RunReturns, RunRaises, ReadTop, AppendTurns, AppendConflicts, ReadTurns, ReadState,
         SummaryEmpty, SaveSummary, SaveReply, Return, WriteRefused, Select, Write, Goto, Raise, Finish
    <3>2. q = r
      BY <1>2, <2>1, <3>1
    <3>3. ~WriteRefused(r)
      BY <1>2, NeverRefused DEF MemoryInv
    <3> QED
      BY <1>2, <2>2, <3>2, <3>3
         DEF Advance, Check, UpsertConversation, ReadHistory, RunInThread, RunReturns, RunRaises,
             ReadTop, AppendTurns, AppendConflicts, ReadTurns, ReadState, SummaryEmpty, SaveSummary,
             SaveReply, Return, Select, Write, Runs
  <2>3. ASSUME NEW q \in Requests, NEW w \in Workers, Start(q, w) PROVE FALSE
    BY <1>2, <2>1, <2>3 DEF Start
  <2>4. ASSUME NEW w \in Workers, Crash(w) PROVE FALSE
    BY <1>2, <2>4 DEF Crash
  <2>5. ~UNCHANGED vars
    BY <1>2 DEF vars
  <2> QED
    BY <1>2, <2>2, <2>3, <2>4, <2>5 DEF Next, Quiescent
<1>3. MemoryInv /\ [Next]_vars => Complete
  BY <1>1, <1>2 DEF Log
<1> QED
  BY <1>3, AlwaysMemory, PTL DEF Spec, ContextComplete
-----------------------------------------------------------------------------
(* Exchanges and events *)

\* Between append_turns and save_processed_event.
Recorded == {"turns", "state", "generate", "save"}

ExchangeInv == MemoryInv /\ LedgerInv /\ EventInv

\* A step of r that adds no turn, takes no reply away and ends no recorded run unsaved.
LEMMA EventStill ==
  ASSUME ExchangeInv, recorded' = recorded, faulted \subseteq faulted',
         \A e \in Events : db.processed[e] # NoReply => db'.processed[e] # NoReply,
         NEW r \in Requests, NEW to, pc' = [pc EXCEPT ![r] = to],
         pc[r] \in Recorded => to \in Recorded \/ db'.processed[EventOf[r]] # NoReply,
         pc[r] # "failed"
  PROVE  EventInv'
<1>1. /\ \A t \in recorded : t.req \in Requests /\ EventOf[t.req] \in Events
      /\ pc \in [Requests -> Steps]
  BY RequestAssumption DEF ExchangeInv, MemoryInv, AloneInv, TypeInv, TypeOK, Turn
<1>2. ASSUME NEW q \in Requests, pc[q] \in Recorded
      PROVE  pc'[q] \in Recorded \/ db'.processed[EventOf[q]] # NoReply
  BY <1>1, <1>2
<1>3. \A q \in Requests : Died(q) => Died(q)'
  BY <1>1 DEF Died
<1>4. OneExchangePerEvent'
  BY <1>1, <1>3 DEF ExchangeInv, EventInv, OneExchangePerEvent, Died
<1> QED
  BY <1>1, <1>2, <1>3, <1>4 DEF ExchangeInv, EventInv, Recorded

\* What a step of a request does to its place, when it stores no reply and no turn.
LEMMA QuietEvent ==
  ASSUME OneWorker, ExchangeInv, NEW r \in Requests,
         \/ Check(r) \/ UpsertConversation(r) \/ ReadHistory(r) \/ ReadContext(r)
         \/ RunInThread(r) \/ RunReturns(r) \/ RunRaises(r) \/ ReadTop(r) \/ ReadTurns(r)
         \/ ReadState(r) \/ SummaryEmpty(r) \/ SaveSummary(r) \/ Return(r)
         \/ \E w \in Workers : Start(r, w)
  PROVE  EventInv'
<1>1. pc \in [Requests -> Steps] /\ Alone
  BY DEF ExchangeInv, MemoryInv, AloneInv, TypeInv, TypeOK, Alone
<1>2. db'.processed = db.processed
  BY <1>1, CheckLedger, ReadsLedger, WritesLedger, OthersLedger, ReturnLedger
     DEF Ledger!vars, Ledger!Deliver
<1>3. faulted \subseteq faulted'
  BY DEF Check, UpsertConversation, ReadHistory, ReadContext, RunInThread, RunReturns, RunRaises,
     ReadTop, ReadTurns, ReadState, SummaryEmpty, SaveSummary, Return, Start, Select, Write
<1>4. recorded' = recorded
  <2>1. \A c \in Conversations : db.turns[c] \subseteq recorded
    BY DEF ExchangeInv, MemoryInv, TablesInv, Log
  <2>2. CASE UpsertConversation(r) \/ SaveSummary(r)
    <3>1. View(host[r]) = db /\ db \in Database
      BY <2>2, ReadsDatabase DEF UpsertConversation, SaveSummary, Write, ExchangeInv
    <3>2. PICK new : new.turns = db.turns /\ Commit(host[r], new)
      BY <2>2, <3>1 DEF UpsertConversation, SaveSummary, Write, Database
    <3> QED
      BY <2>1, <3>2 DEF Commit
  <2>3. CASE ~(UpsertConversation(r) \/ SaveSummary(r))
    BY <2>3 DEF Check, ReadHistory, ReadContext, RunInThread, RunReturns, RunRaises,
       ReadTop, ReadTurns, ReadState, SummaryEmpty, Return, Start, Select
  <2> QED
    BY <2>2, <2>3
<1>5. PICK to : pc' = [pc EXCEPT ![r] = to] /\ (pc[r] \in Recorded => to \in Recorded)
  <2>1. CASE RunInThread(r)
    <3>1. pc' = [pc EXCEPT ![r] = "run"] /\ pc[r] = "run"
      BY <1>1, <2>1 DEF RunInThread, Runs
    <3> QED
      BY <3>1 DEF Recorded
  <2>2. CASE RunReturns(r) \/ RunRaises(r) \/ Return(r) \/ \E w \in Workers : Start(r, w)
    BY <2>2 DEF RunReturns, RunRaises, Return, Start, Raise, Finish, Runs, Recorded
  <2>3. CASE Check(r) \/ ReadHistory(r) \/ ReadContext(r) \/ ReadTop(r) \/ UpsertConversation(r)
    BY <2>3 DEF Check, ReadHistory, ReadContext, ReadTop, UpsertConversation, Select, Write, Goto,
       Runs, Recorded
  <2>4. CASE ReadTurns(r) \/ ReadState(r) \/ SummaryEmpty(r) \/ SaveSummary(r)
    <3>1. \E to \in {"save", "state", "generate"} : pc' = [pc EXCEPT ![r] = to]
      BY <2>4 DEF ReadTurns, ReadState, SummaryEmpty, SaveSummary, Select, Write, Goto
    <3> QED
      BY <3>1 DEF Recorded
  <2> QED
    BY <2>1, <2>2, <2>3, <2>4
<1>6. pc[r] # "failed"
  BY DEF Check, UpsertConversation, ReadHistory, ReadContext, RunInThread, RunReturns, RunRaises,
     ReadTop, ReadTurns, ReadState, SummaryEmpty, SaveSummary, Return, Start, Select, Write, Runs
<1> QED
  BY <1>2, <1>3, <1>4, <1>5, <1>6, EventStill

LEMMA SaveReplyEvent ==
  ASSUME OneWorker, ExchangeInv, NEW r \in Requests, SaveReply(r)
  PROVE  EventInv'
<1>1. /\ View(host[r]) = db /\ db \in Database /\ EventOf[r] \in Events /\ r # NoReply
  BY ReadsDatabase, RequestAssumption DEF SaveReply, Write, ExchangeInv
<1>2. /\ pc' = [pc EXCEPT ![r] = "return"] /\ faulted' = faulted
      /\ Commit(host[r], [db EXCEPT !.processed[EventOf[r]] = r])
  BY <1>1 DEF SaveReply, Write, Goto
<1>3. /\ db'.processed = [db.processed EXCEPT ![EventOf[r]] = r] /\ db'.turns = db.turns
      /\ recorded' = recorded \cup UNION {db'.turns[c] : c \in Conversations}
  BY <1>1, <1>2 DEF Commit, Database
<1>4. recorded' = recorded
  <2>1. \A c \in Conversations : db.turns[c] \subseteq recorded
    BY DEF ExchangeInv, MemoryInv, TablesInv, Log
  <2> QED
    BY <1>3, <2>1
<1>5. /\ db'.processed[EventOf[r]] # NoReply
      /\ \A e \in Events : db.processed[e] # NoReply => db'.processed[e] # NoReply
  BY <1>1, <1>3 DEF Database
<1>6. pc[r] # "failed"
  BY DEF SaveReply, Write, Runs
<1> QED
  BY <1>2, <1>4, <1>5, <1>6, EventStill

\* The exchange of an event is appended by the first run that gets so far: whoever
\* recorded it before has saved its reply, and then this run had found it.
LEMMA AppendEvent ==
  ASSUME OneWorker, Streams = {}, ExchangeInv, NEW r \in Requests, AppendTurns(r)
  PROVE  EventInv'
<1>1. Runs(r, "append") /\ "append" # "queued"
  BY DEF AppendTurns
<1>2. /\ View(host[r]) = db /\ pc[r] = "append" /\ db \in Database
      /\ ConversationOf(r) \in Conversations
  BY <1>1, ReadsDatabase DEF ExchangeInv
<1>3. PICK u, a, new :
        /\ u.req = r /\ a.req = r /\ u.role = "user" /\ a.role = "assistant"
        /\ new.processed = db.processed
        /\ \A c \in Conversations : new.turns[c] \subseteq db.turns[c] \cup {u, a}
        /\ Commit(host[r], new) /\ pc' = [pc EXCEPT ![r] = "turns"] /\ faulted' = faulted
  <2> DEFINE c == ConversationOf(r)
             n == mem[r].top + 1
             A == db.turns[c] \cup {UserTurn(n, r), AssistantTurn(n + 1, r)}
             new == [db EXCEPT !.turns[c] = Trim(A)]
  <2>1. Commit(host[r], new) /\ pc' = [pc EXCEPT ![r] = "turns"] /\ faulted' = faulted
    BY <1>2 DEF AppendTurns, Write, Goto
  <2>2. Trim(A) \subseteq A
    BY TrimRemoves
  <2>3. /\ new.processed = db.processed
        /\ \A d \in Conversations :
              new.turns[d] \subseteq db.turns[d] \cup {UserTurn(n, r), AssistantTurn(n + 1, r)}
    BY <1>2, <2>2 DEF Database
  <2>4. /\ UserTurn(n, r).req = r /\ AssistantTurn(n + 1, r).req = r
        /\ UserTurn(n, r).role = "user" /\ AssistantTurn(n + 1, r).role = "assistant"
    BY DEF UserTurn, AssistantTurn
  <2> QED
    BY <2>1, <2>3, <2>4
<1>4. recorded \subseteq recorded' /\ recorded' \subseteq recorded \cup {u, a}
  <2>1. \A c \in Conversations : db.turns[c] \subseteq recorded
    BY DEF ExchangeInv, MemoryInv, TablesInv, Log
  <2> QED
    BY <1>3, <2>1 DEF Commit
<1>5. /\ pc \in [Requests -> Steps] /\ \A t \in recorded : t.req \in Requests /\ t.role \in {"user", "assistant"}
  BY DEF ExchangeInv, MemoryInv, AloneInv, TypeInv, TypeOK, Turn
<1>6. db'.processed = db.processed /\ pc'[r] = "turns" /\ \A q \in Requests : q # r => pc'[q] = pc[q]
  BY <1>3, <1>5 DEF Commit
<1>7. \A t \in recorded' : t \in recorded => t.req # r
  BY <1>2 DEF ExchangeInv, MemoryInv, TablesInv, Finished
<1>8. ASSUME NEW t \in recorded, EventOf[t.req] = EventOf[r] PROVE Died(t.req)
  <2>1. db.processed[EventOf[r]] = NoReply
    BY <1>2 DEF ExchangeInv, LedgerInv, Unsettled
  <2>2. pc[t.req] \notin Recorded
    <3>1. t.req \in Requests /\ t.req # r
      BY <1>4, <1>5, <1>7
    <3> QED
      BY <1>1, <3>1, OthersIdle DEF Recorded, ExchangeInv
  <2> QED
    BY <1>8, <2>1, <2>2 DEF ExchangeInv, EventInv, Recorded
<1>9. \A t \in recorded : Died(t.req) => Died(t.req)'
  <2>1. ASSUME NEW t \in recorded PROVE t.req # r /\ t.req \in Requests
    BY <1>4, <1>5, <1>7
  <2> QED
    BY <1>3, <1>6, <2>1 DEF Died
<1>10. ASSUME NEW t \in recorded'
       PROVE  db'.processed[EventOf[t.req]] # NoReply \/ pc'[t.req] \in Recorded \/ Died(t.req)'
  <2>1. CASE t \in recorded
    <3>1. t.req # r /\ t.req \in Requests
      BY <1>5, <1>7, <2>1
    <3> QED
      BY <1>6, <1>9, <2>1, <3>1 DEF ExchangeInv, EventInv, Recorded
  <2>2. CASE t \in {u, a}
    BY <1>3, <1>6, <2>2 DEF Recorded
  <2> QED
    BY <1>4, <2>1, <2>2
<1>11. ASSUME NEW t \in recorded', NEW v \in recorded',
              EventOf[t.req] = EventOf[v.req], t.role = v.role, t # v
       PROVE  \E q \in {t.req, v.req} : Died(q)'
  <2>1. t \in recorded \/ t \in {u, a}
    BY <1>4
  <2>2. v \in recorded \/ v \in {u, a}
    BY <1>4
  <2>3. CASE t \in recorded /\ v \in recorded
    <3>1. Died(t.req) \/ Died(v.req)
      BY <1>11, <2>3 DEF ExchangeInv, EventInv, OneExchangePerEvent, Died
    <3> QED
      BY <1>9, <2>3, <3>1
  <2>4. CASE t \in recorded /\ v \in {u, a}
    <3>1. Died(t.req)
      BY <1>3, <1>8, <1>11, <2>4
    <3> QED
      BY <1>9, <2>4, <3>1
  <2>5. CASE v \in recorded /\ t \in {u, a}
    <3>1. Died(v.req)
      BY <1>3, <1>8, <1>11, <2>5
    <3> QED
      BY <1>9, <2>5, <3>1
  <2>6. ~(t \in {u, a} /\ v \in {u, a})
    BY <1>3, <1>11
  <2> QED
    BY ONLY <2>1, <2>2, <2>3, <2>4, <2>5, <2>6
<1>12. OneExchangePerEvent'
  BY <1>11 DEF OneExchangePerEvent, Died
<1> QED
  BY <1>10, <1>12 DEF EventInv, Recorded

LEMMA NextExchange ==
  ASSUME OneWorker, Streams = {}, ExchangeInv, [Next]_vars
  PROVE  ExchangeInv'
<1>1. MemoryInv' /\ LedgerInv'
  BY NextMemory, NextLedger DEF ExchangeInv, MemoryInv, Alone
<1>2. ASSUME NEW r \in Requests, Advance(r) PROVE EventInv'
  <2>1. ~WriteRefused(r) /\ ~AppendConflicts(r)
    BY NeverRefused, NeverConflicts DEF ExchangeInv, MemoryInv
  <2> QED
    BY <1>2, <2>1, QuietEvent, SaveReplyEvent, AppendEvent DEF Advance
<1>3. ASSUME NEW r \in Requests, NEW w \in Workers, Start(r, w) PROVE EventInv'
  BY <1>3, QuietEvent
<1>4. ASSUME NEW w \in Workers, Crash(w) PROVE EventInv'
  <2>1. /\ recorded' = recorded /\ db' = db /\ "crash" \in faulted'
        /\ \A q \in Requests : pc'[q] = pc[q] \/ pc'[q] = "failed"
    BY <1>4 DEF Crash
  <2>2. \A t \in recorded : t.req \in Requests
    BY DEF ExchangeInv, MemoryInv, AloneInv, TypeInv, TypeOK, Turn
  <2>3. \A q \in Requests : Died(q) => Died(q)'
    BY <2>1 DEF Died
  <2>4. OneExchangePerEvent'
    BY <2>1, <2>2, <2>3 DEF ExchangeInv, EventInv, OneExchangePerEvent, Died
  <2> QED
    BY <2>1, <2>2, <2>3, <2>4 DEF ExchangeInv, EventInv, Died
<1>5. ASSUME UNCHANGED vars PROVE EventInv'
  BY <1>5 DEF vars, ExchangeInv, EventInv, OneExchangePerEvent, Died
<1> QED
  BY <1>1, <1>2, <1>3, <1>4, <1>5 DEF Next, Quiescent, ExchangeInv

\* One process and process_event, whatever the retries, the failed runs and the crashes:
\* the history holds a second exchange of an event only if the process died in one of the
\* two requests.
THEOREM EventsAreRecordedOnce ==
  ASSUME OneWorker, Streams = {} PROVE Spec => []OneExchangePerEvent
<1>1. Init => ExchangeInv
  <2>1. Init => EventInv
    BY DEF Init, EventInv, OneExchangePerEvent
  <2> QED
    BY <2>1, InitMemory, InitLedger DEF ExchangeInv, Alone
<1>2. ExchangeInv /\ [Next]_vars => ExchangeInv'
  BY NextExchange
<1>3. ExchangeInv => OneExchangePerEvent
  BY DEF ExchangeInv, EventInv
<1> QED
  BY <1>1, <1>2, <1>3, PTL DEF Spec
-----------------------------------------------------------------------------
(***************************************************************************)
(* Summaries and boundaries: a stored turn is summarised exactly when the  *)
(* boundary says so, whatever processes compact one conversation at once.  *)
(*                                                                         *)
(* A compaction reads the turns, then the summary state, and writes long   *)
(* after.  What it read stays true of what is still stored: a table only   *)
(* loses its oldest turns and gains newer ones, so the turns read are all  *)
(* that is stored up to any one of them, and a summary once matched by its *)
(* boundary stays so.  Who writes last may move the boundary back, with a  *)
(* summary that goes back with it.                                         *)
(***************************************************************************)

\* The log of c has come as far as the number n.
Reached(c, n) == n = 0 \/ \E u \in Log(c) : n <= u.seq

\* Of what is stored, the summary s covers what its boundary says.
Matches(c, s) ==
  /\ s \in Summary
  /\ Reached(c, s.upto)
  /\ \A t \in s.covers : t.seq <= s.upto
  /\ \A t \in db.turns[c] : t.seq <= s.upto => t \in s.covers

\* T has every stored turn up to any of its own.
Complete(c, T) ==
  /\ T \subseteq Log(c)
  /\ \A u \in T, t \in db.turns[c] : t.seq <= u.seq => t \in T

\* What a connection reads and what a coroutine is about to save.
SummariesInv ==
  /\ \A c \in Conversations : Matches(c, db.summary[c])
  /\ \A w \in Workers, c \in Conversations :
       conn[w].txn \in {"read", "write"} => Matches(c, conn[w].view.summary[c])
  /\ \A r \in Requests :
       LET c == ConversationOf(r)
       IN  /\ pc[r] = "state" => Complete(c, mem[r].turns)
           /\ pc[r] = "generate" => Matches(c, Fold(mem[r].prior, mem[r].batch))

BoundaryInv == HistoryInv /\ SummariesInv

\* What the turns of c become in a step: some of what they were, and newer ones.
TurnsMove(c) ==
  /\ Log(c) \subseteq Log(c)'
  /\ \A t \in db'.turns[c] :
       t \in db.turns[c] \/ (t.seq \in Nat \ {0} /\ \A u \in Log(c) : u.seq < t.seq)

\* The log is numbered without a gap, so what is new in it comes last, and what is
\* stored of the old part is no more than was.
LEMMA HistoryMoves ==
  ASSUME HistoryInv, HistoryInv', recorded \subseteq recorded', NEW c \in Conversations
  PROVE  TurnsMove(c)
<1>1. Log(c) \subseteq Log(c)' /\ Log(c)' \in SUBSET Turn /\ Log(c) \in SUBSET Turn
  BY DEF Log, ConversationOf, HistoryInv, TypeInv, TypeOK
<1>2. PICK m \in Nat : Kept(c, m)
  BY DEF HistoryInv, LogInv
<1>3. PICK n \in Nat : Kept(c, n)'
  BY DEF HistoryInv, LogInv
<1>4. \A j \in 1..2 * m : Occupied(Log(c), j)
  BY <1>2, LogNumbers DEF HistoryInv, TypeInv, Kept
<1>5. m <= n
  <2>1. CASE m = 0
    BY <2>1, <1>3
  <2>2. CASE m # 0
    <3>1. 2 * m \in 1..2 * m
      BY <1>2, <2>2
    <3>2. PICK t \in Log(c) : t.seq = 2 * m
      BY <1>4, <3>1 DEF Occupied
    <3>3. t.seq <= 2 * n
      BY <1>1, <1>3, <3>2 DEF Kept, Exchanges
    <3> QED
      BY <1>2, <1>3, <3>2, <3>3
  <2> QED
    BY <2>1, <2>2
<1>6. ASSUME NEW t \in db'.turns[c]
      PROVE  t \in db.turns[c] \/ (t.seq \in Nat \ {0} /\ \A u \in Log(c) : u.seq < t.seq)
  <2>1. t \in Log(c)' /\ t.seq \in Nat \ {0} /\ 2 * n < t.seq + HistoryLimit
    BY <1>1, <1>3, <1>6 DEF Kept, Window, Turn
  <2>2. CASE t.seq <= 2 * m
    <3>1. t.seq \in 1..2 * m
      BY <1>2, <2>1, <2>2
    <3>2. PICK u \in Log(c) : u.seq = t.seq
      BY <1>4, <3>1 DEF Occupied
    <3>3. t = u
      <4>1. t \in recorded' /\ u \in recorded' /\ ConversationOf(u.req) = c /\ ConversationOf(t.req)' = c
        BY <1>1, <2>1, <3>2 DEF Log
      <4>2. ConversationOf(t.req) = c /\ (\A x, y \in recorded' : x.seq = y.seq /\ ConversationOf(x.req) = ConversationOf(y.req) => x = y)
        BY <4>1 DEF HistoryInv, LogInv, SeqNeverReused, ConversationOf
      <4> QED
        BY <3>2, <4>1, <4>2
    <3>4. 2 * m < t.seq + HistoryLimit
      BY <1>2, <1>3, <1>5, <2>1, PolicyAssumption
    <3> QED
      BY <1>2, <2>2, <3>3, <3>4 DEF Kept, Window
  <2>3. CASE ~(t.seq <= 2 * m)
    <3>1. \A u \in Log(c) : u.seq <= 2 * m /\ u.seq \in Nat
      BY <1>1, <1>2 DEF Kept, Exchanges, Turn
    <3> QED
      BY <1>2, <2>1, <2>3, <3>1
  <2> QED
    BY <2>2, <2>3
<1> QED
  BY <1>1, <1>6 DEF TurnsMove

\* A summary that matches goes on doing so.
LEMMA MatchesOn ==
  ASSUME HistoryInv, NEW c \in Conversations, TurnsMove(c), NEW s, Matches(c, s)
  PROVE  Matches(c, s)'
<1>1. s.upto \in Nat /\ \A u \in Log(c) : u.seq \in Nat
  BY DEF Matches, Summary, Log, HistoryInv, TypeInv, TypeOK, Turn
<1>2. Reached(c, s.upto)'
  BY DEF Matches, Reached, TurnsMove
<1>3. ASSUME NEW t \in db'.turns[c], t.seq <= s.upto PROVE t \in db.turns[c]
  <2>1. CASE s.upto = 0
    BY <1>3, <2>1 DEF TurnsMove
  <2>2. CASE s.upto # 0
    <3>1. PICK u \in Log(c) : s.upto <= u.seq
      BY <2>2 DEF Matches, Reached
    <3> QED
      BY <1>1, <1>3, <3>1 DEF TurnsMove
  <2> QED
    BY <2>1, <2>2
<1> QED
  BY <1>2, <1>3 DEF Matches

LEMMA CompleteOn ==
  ASSUME HistoryInv, NEW c \in Conversations, TurnsMove(c), NEW T, Complete(c, T)
  PROVE  Complete(c, T)'
<1>1. \A u \in Log(c) : u.seq \in Nat
  BY DEF Log, HistoryInv, TypeInv, TypeOK, Turn
<1>2. T \subseteq Log(c)'
  BY DEF Complete, TurnsMove
<1>3. ASSUME NEW u \in T, NEW t \in db'.turns[c], t.seq <= u.seq PROVE t \in T
  <2>1. u \in Log(c) /\ u.seq \in Nat
    BY <1>1 DEF Complete
  <2>2. t \in db.turns[c]
    BY <1>3, <2>1 DEF TurnsMove
  <2> QED
    BY <1>3, <2>2 DEF Complete
<1> QED
  BY <1>2, <1>3 DEF Complete

\* What a connection reads is complete, for it is a window of the log.
LEMMA ReadsComplete ==
  ASSUME HistoryInv, NEW c \in Conversations, NEW w \in Workers
  PROVE  Complete(c, View(w).turns[c])
<1>1. PICK m \in Nat : Kept(c, m)
  BY DEF HistoryInv, LogInv
<1>2. PICK k \in 0..m : View(w).turns[c] = Window(c, k)
  BY <1>1, ReadsWindow
<1>3. Window(c, k) \subseteq Log(c) /\ db.turns[c] = Window(c, m)
  BY <1>1 DEF Kept, Window
<1>4. \A t \in Log(c) : t.seq \in Nat
  BY DEF Log, HistoryInv, TypeInv, TypeOK, Turn
<1>5. ASSUME NEW u \in Window(c, k), NEW t \in Window(c, m), t.seq <= u.seq PROVE t \in Window(c, k)
  <2>1. t \in Log(c) /\ u \in Log(c) /\ u.seq <= 2 * k /\ 2 * m < t.seq + HistoryLimit
    BY DEF Window
  <2>2. t.seq <= 2 * k
    BY <1>4, <1>5, <2>1
  <2>3. 2 * k < t.seq + HistoryLimit
    BY <1>1, <1>2, <1>4, <2>1, PolicyAssumption
  <2> QED
    BY <2>1, <2>2, <2>3 DEF Window
<1> QED
  BY <1>2, <1>3, <1>5 DEF Complete

\* What maybe_compact makes of complete turns and a summary that matches, matches.
LEMMA FoldMatches ==
  ASSUME HistoryInv, NEW c \in Conversations, NEW T, Complete(c, T), Bounded(T),
         NEW s, Matches(c, s), NEW B, B = Compactable(T, s.upto), B # {}
  PROVE  Matches(c, Fold(s, B))
<1>1. T \in SUBSET Turn /\ Distinct(T)
  BY DEF Complete, Log, Distinct, HistoryInv, TypeInv, TypeOK, LogInv, SeqNeverReused
<1>2. s.upto \in Nat /\ s.covers \in SUBSET Turn
  BY DEF Matches, Summary
<1>3. B \in SUBSET T /\ \A t \in B : t.seq > s.upto
  BY DEF Compactable, AfterBoundary
<1>4. B \in SUBSET Turn /\ Bounded(B)
  BY <1>1, <1>3, BoundedSubset
<1>5. /\ MaxSeq(B) \in Nat /\ \A t \in B : t.seq <= MaxSeq(B)
      /\ \E t \in B : t.seq = MaxSeq(B)
  BY <1>4, MaxSeqFacts
<1>6. \A t \in T : t.seq <= MaxSeq(B) => t.seq <= s.upto \/ t \in B
  BY <1>1, <1>2, <1>4, CompactionFacts
<1>7. PICK b \in B : b.seq = MaxSeq(B)
  BY <1>5
<1>8. b \in T /\ b \in Log(c) /\ s.upto <= MaxSeq(B)
  BY <1>2, <1>3, <1>5, <1>7 DEF Complete
<1> DEFINE f == Fold(s, B)
<1>9. f.upto = MaxSeq(B) /\ f.covers = s.covers \cup B /\ f \in Summary
  BY <1>2, <1>4, <1>5 DEF Fold, Summary
<1> HIDE DEF f
<1>10. Reached(c, f.upto)
  BY <1>5, <1>7, <1>8, <1>9 DEF Reached
<1>11. ASSUME NEW t \in f.covers PROVE t.seq <= f.upto
  <2>1. CASE t \in B
    BY <1>5, <1>9, <2>1
  <2>2. CASE t \in s.covers
    <3>1. t.seq <= s.upto /\ t.seq \in Nat
      BY <1>2, <2>2 DEF Matches, Turn
    <3> QED
      BY <1>2, <1>5, <1>8, <1>9, <3>1
  <2> QED
    BY <1>9, <1>11, <2>1, <2>2
<1>12. ASSUME NEW t \in db.turns[c], t.seq <= f.upto PROVE t \in f.covers
  <2>1. t \in T
    BY <1>7, <1>8, <1>9, <1>12 DEF Complete
  <2>2. t.seq <= s.upto \/ t \in B
    BY <1>6, <1>9, <1>12, <2>1
  <2> QED
    BY <1>9, <1>12, <2>2 DEF Matches
<1> QED
  BY <1>9, <1>10, <1>11, <1>12 DEF Matches, f

-----------------------------------------------------------------------------
(* Steps *)

\* A summary of c that a step may leave in the database or in a view: it matches now.
\* What matches or is complete now does so after the step.
LEMMA SummariesOn ==
  ASSUME BoundaryInv, HistoryInv', recorded \subseteq recorded',
         \A c \in Conversations : Matches(c, db'.summary[c]),
         \A w \in Workers, c \in Conversations :
           conn'[w].txn \in {"read", "write"} => Matches(c, conn'[w].view.summary[c]),
         \A q \in Requests : pc'[q] = "state" => Complete(ConversationOf(q), mem'[q].turns),
         \A q \in Requests :
           pc'[q] = "generate" => Matches(ConversationOf(q), Fold(mem'[q].prior, mem'[q].batch))
  PROVE  BoundaryInv'
<1>1. HistoryInv /\ \A c \in Conversations : TurnsMove(c)
  BY HistoryMoves DEF BoundaryInv
<1>2. \A c \in Conversations : \A s : Matches(c, s) => Matches(c, s)'
  BY <1>1, MatchesOn
<1>3. \A c \in Conversations : \A T : Complete(c, T) => Complete(c, T)'
  BY <1>1, CompleteOn
<1>4. \A q \in Requests : ConversationOf(q) \in Conversations
  BY RequestAssumption DEF ConversationOf
<1>5. \A c \in Conversations : Matches(c, db.summary[c])'
  BY <1>2 DEF Matches, Reached, Log, ConversationOf
<1>6. \A w \in Workers, c \in Conversations :
        conn'[w].txn \in {"read", "write"} => Matches(c, conn[w].view.summary[c])'
  BY <1>2 DEF Matches, Reached, Log, ConversationOf
<1>7. ASSUME NEW q \in Requests, pc'[q] = "state" PROVE Complete(ConversationOf(q), mem[q].turns)'
  <2>1. PICK c, T : c = ConversationOf(q) /\ T = mem'[q].turns
    OBVIOUS
  <2>2. Complete(c, T)'
    BY <1>3, <1>4, <1>7, <2>1
  <2> QED
    BY <2>1, <2>2 DEF Complete, Log, ConversationOf
<1>8. ASSUME NEW q \in Requests, pc'[q] = "generate"
      PROVE  Matches(ConversationOf(q), Fold(mem[q].prior, mem[q].batch))'
  <2>1. PICK c, s : c = ConversationOf(q) /\ s = Fold(mem'[q].prior, mem'[q].batch)
    OBVIOUS
  <2>2. Matches(c, s)'
    BY <1>2, <1>4, <1>8, <2>1
  <2> QED
    BY <2>1, <2>2 DEF Matches, Reached, Log, ConversationOf, Fold
<1> QED
  BY <1>5, <1>6, <1>7, <1>8 DEF BoundaryInv, SummariesInv

\* What a connection reads matches.
LEMMA ViewMatches ==
  ASSUME BoundaryInv, NEW w \in Workers, NEW c \in Conversations
  PROVE  Matches(c, View(w).summary[c])
BY DEF BoundaryInv, SummariesInv, View

\* A step that neither commits nor refreshes another connection than w's, with r alone.
Quiet(r) ==
  /\ db' = db /\ recorded' = recorded
  /\ \A w \in Workers :
       conn'[w].txn \in {"read", "write"} =>
         conn'[w].view.summary = db.summary \/ (conn[w].txn \in {"read", "write"} /\ conn'[w].view.summary = conn[w].view.summary)
  /\ \A q \in Requests : q # r => (pc'[q] = pc[q] /\ mem'[q] = mem[q]) \/ pc'[q] \notin {"state", "generate"}

LEMMA QuietSummaries ==
  ASSUME BoundaryInv, HistoryInv', NEW r \in Requests, Quiet(r),
         pc'[r] = "state" => Complete(ConversationOf(r), mem'[r].turns),
         pc'[r] = "generate" => Matches(ConversationOf(r), Fold(mem'[r].prior, mem'[r].batch))
  PROVE  BoundaryInv'
<1>1. \A c \in Conversations : Matches(c, db'.summary[c])
  BY DEF Quiet, BoundaryInv, SummariesInv
<1>2. \A w \in Workers, c \in Conversations :
        conn'[w].txn \in {"read", "write"} => Matches(c, conn'[w].view.summary[c])
  BY DEF Quiet, BoundaryInv, SummariesInv
<1>3. \A q \in Requests : pc'[q] = "state" => Complete(ConversationOf(q), mem'[q].turns)
  BY DEF Quiet, BoundaryInv, SummariesInv
<1>4. \A q \in Requests :
        pc'[q] = "generate" => Matches(ConversationOf(q), Fold(mem'[q].prior, mem'[q].batch))
  BY DEF Quiet, BoundaryInv, SummariesInv
<1> QED
  BY <1>1, <1>2, <1>3, <1>4, SummariesOn DEF Quiet

\* A read leaves the worker's view at what it was or at the database.
LEMMA SelectSummaries ==
  ASSUME BoundaryInv, HistoryInv', NEW r \in Requests, NEW from, NEW to, NEW l, from # "queued",
         Select(r, from, to, l),
         to = "state" => Complete(ConversationOf(r), l.turns),
         to = "generate" => Matches(ConversationOf(r), Fold(l.prior, l.batch))
  PROVE  BoundaryInv'
<1>1. /\ host[r] \in Workers /\ conn \in [Workers -> Connection] /\ pc \in [Requests -> Steps]
      /\ mem \in [Requests -> Locals]
  BY RunningHost DEF BoundaryInv, HistoryInv, TypeInv, TypeOK, Select, Runs
<1>2. /\ pc' = [pc EXCEPT ![r] = to] /\ mem' = [mem EXCEPT ![r] = l]
      /\ conn' = [conn EXCEPT ![host[r]] = AfterRead(host[r])] /\ db' = db /\ recorded' = recorded
  BY DEF Select, Goto
<1>3. Quiet(r)
  BY <1>1, <1>2 DEF Quiet, AfterRead
<1> QED
  BY <1>1, <1>2, <1>3, QuietSummaries

\* A commit publishes what its connection read, with at most one summary changed.
LEMMA WriteSummaries ==
  ASSUME BoundaryInv, HistoryInv', NEW r \in Requests, NEW from, NEW to, NEW new, NEW l,
         from # "queued", to \notin {"state", "generate"}, Write(r, from, to, new, l),
         \A c \in Conversations : Matches(c, new.summary[c])
  PROVE  BoundaryInv'
<1>1. /\ host[r] \in Workers /\ conn \in [Workers -> Connection] /\ pc \in [Requests -> Steps]
      /\ mem \in [Requests -> Locals]
  BY RunningHost DEF BoundaryInv, HistoryInv, TypeInv, TypeOK, Write, Runs
<1>2. /\ pc' = [pc EXCEPT ![r] = to] /\ mem' = [mem EXCEPT ![r] = l]
      /\ CanWrite(host[r]) /\ Commit(host[r], new) /\ db' = new /\ recorded \subseteq recorded'
  BY DEF Write, Goto, Commit
<1>3. \A w \in Workers, c \in Conversations :
        conn'[w].txn \in {"read", "write"} => Matches(c, conn'[w].view.summary[c])
  <2>1. ASSUME NEW w \in Workers, NEW c \in Conversations, conn'[w].txn \in {"read", "write"}
        PROVE  Matches(c, conn'[w].view.summary[c])
    <3>1. conn[w].txn \in {"read", "write"} /\ conn'[w].view = conn[w].view
      BY <1>1, <1>2, <2>1, CommitHolds DEF BoundaryInv
    <3> QED
      BY <3>1 DEF BoundaryInv, SummariesInv
  <2> QED
    BY <2>1
<1>4. \A q \in Requests : pc'[q] = "state" => Complete(ConversationOf(q), mem'[q].turns)
  BY <1>1, <1>2 DEF BoundaryInv, SummariesInv
<1>5. \A q \in Requests :
        pc'[q] = "generate" => Matches(ConversationOf(q), Fold(mem'[q].prior, mem'[q].batch))
  BY <1>1, <1>2 DEF BoundaryInv, SummariesInv
<1> QED
  BY <1>2, <1>3, <1>4, <1>5, SummariesOn

LEMMA ReadsSummaries ==
  ASSUME BoundaryInv, HistoryInv', NEW r \in Requests,
         Check(r) \/ ReadHistory(r) \/ ReadContext(r) \/ ReadTop(r) \/ ReadTurns(r) \/ ReadState(r)
  PROVE  BoundaryInv'
<1> DEFINE c == ConversationOf(r)
<1>1. HistoryInv /\ mem[r] \in Locals
  BY DEF BoundaryInv, HistoryInv, TypeInv, TypeOK
<1>2. CASE ReadTurns(r)
  <2> DEFINE table == View(host[r]).turns[c]
             l == [mem[r] EXCEPT !.turns = table]
  <2>1. Select(r, "turns", IF table = {} THEN "save" ELSE "state", l)
    BY <1>2 DEF ReadTurns
  <2>2. l.turns = table
    BY <1>1 DEF Locals
  <2>3. Complete(c, table)
    <3>1. host[r] \in Workers /\ c \in Conversations
      BY <1>1, <2>1, Readings DEF HistoryInv, Select, Runs
    <3> QED
      BY <1>1, <3>1, ReadsComplete
  <2> HIDE DEF table, l, c
  <2> QED
    BY <2>1, <2>2, <2>3, SelectSummaries DEF c
<1>3. CASE ReadState(r)
  <2> DEFINE summary == View(host[r]).summary[c]
             batch == Compactable(mem[r].turns, summary.upto)
             l == [mem[r] EXCEPT !.prior = summary, !.batch = batch]
  <2>1. Select(r, "state", IF batch = {} THEN "save" ELSE "generate", l)
    BY <1>3 DEF ReadState
  <2>2. l.prior = summary /\ l.batch = batch
    BY <1>1 DEF Locals
  <2>3. pc[r] = "state" /\ host[r] \in Workers /\ c \in Conversations
    BY <1>1, <2>1, Readings DEF HistoryInv, Select, Runs
  <2>4. Complete(c, mem[r].turns) /\ Bounded(mem[r].turns) /\ Matches(c, summary)
    BY <2>3, ViewMatches DEF BoundaryInv, SummariesInv, HistoryInv, TypeInv, GoodLocals
  <2>5. batch # {} => Matches(c, Fold(summary, batch))
    BY <1>1, <2>3, <2>4, FoldMatches
  <2> HIDE DEF summary, l, batch, c
  <2> QED
    BY <2>1, <2>2, <2>5, SelectSummaries DEF c
<1>4. CASE Check(r) \/ ReadHistory(r) \/ ReadContext(r) \/ ReadTop(r)
  <2>1. PICK from, to, l : from # "queued" /\ to \notin {"state", "generate"} /\ Select(r, from, to, l)
    <3>1. CASE Check(r)
      BY <3>1 DEF Check
    <3>2. CASE ReadHistory(r) \/ ReadContext(r) \/ ReadTop(r)
      BY <3>2 DEF ReadHistory, ReadContext, ReadTop
    <3> QED
      BY <1>4, <3>1, <3>2
  <2> QED
    BY <2>1, SelectSummaries
<1> QED
  BY <1>2, <1>3, <1>4

LEMMA WritesSummaries ==
  ASSUME BoundaryInv, HistoryInv', NEW r \in Requests,
         UpsertConversation(r) \/ AppendTurns(r) \/ SaveReply(r)
  PROVE  BoundaryInv'
<1>1. /\ View(host[r]) \in Database /\ host[r] \in Workers
  BY Readings DEF BoundaryInv, HistoryInv, UpsertConversation, AppendTurns, SaveReply, Write, Runs, GoodDatabase
<1>2. PICK from, to, new, l :
        /\ from # "queued" /\ to \notin {"state", "generate"} /\ Write(r, from, to, new, l)
        /\ new.summary = View(host[r]).summary
  BY <1>1 DEF UpsertConversation, AppendTurns, SaveReply, Database
<1> QED
  BY <1>1, <1>2, ViewMatches, WriteSummaries

LEMMA SaveSummarySummaries ==
  ASSUME BoundaryInv, HistoryInv', NEW r \in Requests, SaveSummary(r)
  PROVE  BoundaryInv'
<1> DEFINE c == ConversationOf(r)
           f == Fold(mem[r].prior, mem[r].batch)
           new == [View(host[r]) EXCEPT !.summary[c] = f]
<1>1. /\ View(host[r]) \in Database /\ host[r] \in Workers /\ c \in Conversations
      /\ pc[r] = "generate"
  BY Readings DEF BoundaryInv, HistoryInv, SaveSummary, Write, Runs, GoodDatabase
<1>2. Matches(c, f)
  BY <1>1 DEF BoundaryInv, SummariesInv
<1>3. Write(r, "generate", "save", new, mem[r])
  BY DEF SaveSummary
<1> HIDE DEF f, c
<1>4. new.summary = [View(host[r]).summary EXCEPT ![c] = f]
  BY <1>1 DEF Database
<1>5. \A d \in Conversations : Matches(d, new.summary[d])
  BY <1>1, <1>2, <1>4, ViewMatches DEF Database
<1> HIDE DEF new
<1> QED
  BY <1>3, <1>5, WriteSummaries

LEMMA OthersSummaries ==
  ASSUME BoundaryInv, HistoryInv', NEW r \in Requests,
         \/ \E w \in Workers : Start(r, w)
         \/ RunInThread(r) \/ RunReturns(r) \/ RunRaises(r) \/ SummaryEmpty(r) \/ Return(r)
         \/ WriteRefused(r) \/ AppendConflicts(r)
  PROVE  BoundaryInv'
<1>1. conn \in [Workers -> Connection] /\ pc \in [Requests -> Steps] /\ mem \in [Requests -> Locals]
  BY DEF BoundaryInv, HistoryInv, TypeInv, TypeOK
<1>2. db' = db /\ recorded' = recorded
  BY DEF Start, RunInThread, RunReturns, RunRaises, SummaryEmpty, Return, WriteRefused, AppendConflicts
<1>3. \A q \in Requests : q # r => pc'[q] = pc[q] /\ mem'[q] = mem[q]
  BY <1>1 DEF Start, RunInThread, RunReturns, RunRaises, SummaryEmpty, Return, WriteRefused,
     AppendConflicts, Goto, Raise, Finish
<1>4. pc'[r] \notin {"state", "generate"}
  BY <1>1 DEF Start, RunInThread, RunReturns, RunRaises, SummaryEmpty, Return, WriteRefused,
     AppendConflicts, Goto, Raise, Finish, Runs
<1>5. ASSUME NEW w \in Workers, conn'[w].txn \in {"read", "write"}
      PROVE  \/ conn'[w].view.summary = db.summary
             \/ conn[w].txn \in {"read", "write"} /\ conn'[w].view.summary = conn[w].view.summary
  <2>1. CASE conn' = conn
    BY <1>5, <2>1
  <2>2. CASE WriteRefused(r)
    BY <1>1, <1>5, <2>2 DEF WriteRefused, AfterRefusal, Connection
  <2>3. CASE AppendConflicts(r)
    <3>1. View(host[r]) \in Database
      BY <2>3, Readings DEF AppendConflicts, Runs, BoundaryInv, HistoryInv, GoodDatabase
    <3>2. PICK T : conn' = [conn EXCEPT ![host[r]] =
                              Stranded([View(host[r]) EXCEPT !.turns[ConversationOf(r)] = T])]
      BY <2>3 DEF AppendConflicts
    <3>3. w = host[r] => conn'[w].view.summary = View(w).summary
      BY <1>1, <3>1, <3>2 DEF Stranded, Database
    <3>4. w # host[r] => conn'[w] = conn[w]
      BY <3>2
    <3> QED
      BY <1>5, <3>3, <3>4 DEF View
  <2> QED
    BY <2>1, <2>2, <2>3 DEF Start, RunInThread, RunReturns, RunRaises, SummaryEmpty, Return
<1> QED
  BY <1>2, <1>3, <1>4, <1>5, QuietSummaries DEF Quiet

LEMMA CrashSummaries ==
  ASSUME BoundaryInv, HistoryInv', (\E w \in Workers : Crash(w)) \/ UNCHANGED vars
  PROVE  BoundaryInv'
<1>1. conn \in [Workers -> Connection]
  BY DEF BoundaryInv, HistoryInv, TypeInv, TypeOK
<1>2. /\ db' = db /\ recorded' = recorded
      /\ \A q \in Requests : pc'[q] = "failed" \/ (pc'[q] = pc[q] /\ mem'[q] = mem[q])
      /\ \A v \in Workers : conn'[v] = AutoCommit \/ conn'[v] = conn[v]
  BY <1>1 DEF Crash, vars
<1>3. \A c \in Conversations : Matches(c, db'.summary[c])
  BY <1>2 DEF BoundaryInv, SummariesInv
<1>4. \A v \in Workers, c \in Conversations :
        conn'[v].txn \in {"read", "write"} => Matches(c, conn'[v].view.summary[c])
  BY <1>2 DEF BoundaryInv, SummariesInv, AutoCommit
<1>5. \A q \in Requests : pc'[q] = "state" => Complete(ConversationOf(q), mem'[q].turns)
  BY <1>2 DEF BoundaryInv, SummariesInv
<1>6. \A q \in Requests :
        pc'[q] = "generate" => Matches(ConversationOf(q), Fold(mem'[q].prior, mem'[q].batch))
  BY <1>2 DEF BoundaryInv, SummariesInv
<1> QED
  BY <1>2, <1>3, <1>4, <1>5, <1>6, SummariesOn

LEMMA NextSummaries == ASSUME EvenLimit, BoundaryInv, [Next]_vars PROVE BoundaryInv'
<1>1. HistoryInv'
  BY NextHistory DEF BoundaryInv
<1>2. ASSUME NEW r \in Requests, Advance(r) PROVE BoundaryInv'
  BY <1>1, <1>2, ReadsSummaries, WritesSummaries, SaveSummarySummaries, OthersSummaries DEF Advance
<1>3. ASSUME NEW r \in Requests, NEW w \in Workers, Start(r, w) PROVE BoundaryInv'
  BY <1>1, <1>3, OthersSummaries
<1>4. ASSUME NEW w \in Workers, Crash(w) PROVE BoundaryInv'
  BY <1>1, <1>4, CrashSummaries
<1>5. ASSUME UNCHANGED vars PROVE BoundaryInv'
  BY <1>1, <1>5, CrashSummaries
<1> QED
  BY <1>2, <1>3, <1>4, <1>5 DEF Next, Quiescent

\* Whatever the workers, crashes and refused writes, also when compactions of one
\* conversation overtake each other and the boundary moves back: the summary that is
\* stored covers exactly those of the stored turns that its boundary says.
THEOREM SummariesMatch == ASSUME EvenLimit PROVE Spec => []SummaryMatchesBoundary
<1>1. Init => BoundaryInv
  <2>1. ASSUME Init, NEW c \in Conversations PROVE Matches(c, db.summary[c])
    BY <2>1 DEF Init, EmptyDatabase, NoSummary, Matches, Reached, Summary
  <2>2. Init => SummariesInv
    BY <2>1 DEF Init, SummariesInv, AutoCommit
  <2> QED
    BY <2>2, InitHistory DEF BoundaryInv
<1>2. BoundaryInv /\ [Next]_vars => BoundaryInv'
  BY NextSummaries
<1>3. BoundaryInv => SummaryMatchesBoundary
  BY DEF BoundaryInv, SummariesInv, Matches, SummaryMatchesBoundary
<1> QED
  BY <1>1, <1>2, <1>3, PTL DEF Spec
=============================================================================
