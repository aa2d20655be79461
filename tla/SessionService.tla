--------------------------- MODULE SessionService ---------------------------
(***************************************************************************)
(* AgentService.process_event and stream_event (agent/service.py) over the *)
(* shared SQLite database of MemoryStore, with the session memory they     *)
(* call (memory/session.py, memory/compaction.py).                         *)
(*                                                                         *)
(* A worker is one operating-system process: one event loop, one MemoryStore*)
(* and one SQLite connection.  No await of a request suspends (the store's *)
(* asyncio.Lock is never contended, its calls are synchronous), so a        *)
(* request holds its worker's loop from its first step to its last, except *)
(* that stream_event gives the loop up while run_loop is in a thread.      *)
(* Workers interleave at every statement that reaches the database.        *)
(*                                                                         *)
(* The connection follows Python's legacy transaction control: a statement *)
(* that writes opens a transaction first, nothing but the commit at the    *)
(* end of a store method ends it, and a statement that fails leaves it     *)
(* open.  A later read then pins a snapshot, and a write from a snapshot   *)
(* that another worker's commit has overtaken is refused (WAL).            *)
(***************************************************************************)
EXTENDS SessionStore

CONSTANTS
  Workers,    \* processes that share the database file
  Streams,    \* the requests that call stream_event; the others call process_event
  Faults,     \* the faults injected: a subset of {"run", "summary", "crash"}
  NoWorker,   \* a request that has not started
  NoRequest   \* a loop that runs no request

ASSUME ServiceAssumption ==
  /\ Streams \subseteq Requests
  /\ Faults \subseteq {"run", "summary", "crash"}
  /\ NoWorker \notin Workers
  /\ NoRequest \notin Requests

VARIABLES
  db,        \* what is committed
  conn,      \* conn[w]: the worker's SQLite connection
  loop,      \* loop[w]: the request that holds the worker's event loop
  pc,        \* pc[r]: the next step of a request
  host,      \* host[r]: the worker that serves it
  mem,       \* mem[r]: the local variables of its coroutine
  answer,    \* answer[r]: the reply returned to its caller
  recorded,  \* history: every turn ever committed
  faulted    \* history: the faults that have happened

vars == <<db, conn, loop, pc, host, mem, answer, recorded, faulted>>

-----------------------------------------------------------------------------
Steps == {"queued", "check", "upsert", "history", "context", "run", "top", "append",
          "turns", "state", "generate", "save", "return", "done", "failed"}

Finished == {"done", "failed"}

\* turns: the last history read; top: MAX(seq); prior: the summary state read by
\* maybe_compact; batch: the compactable turns; context: what the model is given;
\* found: the reply to return.
Locals == [turns : SUBSET Turn, top : Nat, prior : Summary, batch : SUBSET Turn,
           context : SUBSET Turn, found : Requests \cup {NoReply}]

NoLocals == [turns |-> {}, top |-> 0, prior |-> NoSummary, batch |-> {},
             context |-> {}, found |-> NoReply]

\* txn: "none" in autocommit; "begun" in a transaction without a snapshot; "read"
\* with the snapshot in view; "write" with the write lock and uncommitted view.
Connection == [txn : {"none", "begun", "read", "write"}, view : Database, stale : BOOLEAN]

AutoCommit == [txn |-> "none", view |-> EmptyDatabase, stale |-> FALSE]

Init ==
  /\ db = EmptyDatabase
  /\ conn = [w \in Workers |-> AutoCommit]
  /\ loop = [w \in Workers |-> NoRequest]
  /\ pc = [r \in Requests |-> "queued"]
  /\ host = [r \in Requests |-> NoWorker]
  /\ mem = [r \in Requests |-> NoLocals]
  /\ answer = [r \in Requests |-> NoReply]
  /\ recorded = {}
  /\ faulted = {}
-----------------------------------------------------------------------------
(* The SQLite connection *)

\* What a SELECT on w's connection sees.
View(w) == IF conn[w].txn \in {"read", "write"} THEN conn[w].view ELSE db

\* The first SELECT of an open transaction pins its snapshot.
AfterRead(w) ==
  IF conn[w].txn = "begun" THEN [txn |-> "read", view |-> db, stale |-> FALSE] ELSE conn[w]

LockedByOther(w) == \E v \in Workers \ {w} : conn[v].txn = "write"

CanWrite(w) == ~LockedByOther(w) /\ ~conn[w].stale

\* A busy timeout: the implicit BEGIN has happened, the statement has not.
AfterRefusal(w) ==
  IF conn[w].txn = "none" THEN [conn[w] EXCEPT !.txn = "begun"] ELSE conn[w]

\* A statement failed inside the transaction, which stays open and keeps the lock.
Stranded(view) == [txn |-> "write", view |-> view, stale |-> FALSE]

\* commit(): w's changes become visible, and every snapshot still pinned is behind.
Commit(w, new) ==
  /\ db' = new
  /\ recorded' = recorded \cup UNION {new.turns[c] : c \in Conversations}
  /\ conn' = [v \in Workers |->
                CASE v = w -> AutoCommit
                  [] v # w /\ conn[v].txn = "read" -> [conn[v] EXCEPT !.stale = TRUE]
                  [] OTHER -> conn[v]]
-----------------------------------------------------------------------------
(* The coroutine *)

\* Faulty: the coroutine suspends at every store call.
RunsAnyTime(r, step) == pc[r] = step

Runs(r, step) == pc[r] = step /\ loop[host[r]] = r

\* Faulty: the loop is kept.
FinishKeepingLoop(r, step, reply) ==
  /\ pc' = [pc EXCEPT ![r] = step]
  /\ mem' = [mem EXCEPT ![r] = NoLocals]
  /\ answer' = [answer EXCEPT ![r] = reply]
  /\ UNCHANGED loop

\* Leave the loop to the next request.
Finish(r, step, reply) ==
  /\ pc' = [pc EXCEPT ![r] = step]
  /\ mem' = [mem EXCEPT ![r] = NoLocals]
  /\ answer' = [answer EXCEPT ![r] = reply]
  /\ loop' = [loop EXCEPT ![host[r]] = IF @ = r THEN NoRequest ELSE @]

\* An exception leaves process_event, or the runner of stream_event.
Raise(r) == Finish(r, "failed", NoReply)

Goto(r, step) ==
  /\ pc' = [pc EXCEPT ![r] = step]
  /\ UNCHANGED <<loop, answer>>

\* A SELECT of r's worker, its result kept in mem[r].
Select(r, from, to, locals) ==
  /\ Runs(r, from)
  /\ conn' = [conn EXCEPT ![host[r]] = AfterRead(host[r])]
  /\ mem' = [mem EXCEPT ![r] = locals]
  /\ Goto(r, to)
  /\ UNCHANGED <<db, host, recorded, faulted>>

\* A store method that writes: its statements and its commit, no other writer between.
Write(r, from, to, new, locals) ==
  /\ Runs(r, from)
  /\ CanWrite(host[r])
  /\ Commit(host[r], new)
  /\ mem' = [mem EXCEPT ![r] = locals]
  /\ Goto(r, to)
  /\ UNCHANGED <<host, faulted>>

\* "database is locked": at the busy timeout, or at once from a stale snapshot.
WriteRefused(r) ==
  /\ \E step \in {"upsert", "append", "generate", "save"} : Runs(r, step)
  /\ ~CanWrite(host[r])
  /\ conn' = [conn EXCEPT ![host[r]] = AfterRefusal(host[r])]
  /\ Raise(r)
  /\ UNCHANGED <<db, host, recorded, faulted>>

Start(r, w) ==
  /\ pc[r] = "queued"
  /\ loop[w] = NoRequest
  /\ loop' = [loop EXCEPT ![w] = r]
  /\ host' = [host EXCEPT ![r] = w]
  /\ pc' = [pc EXCEPT ![r] = "check"]
  /\ UNCHANGED <<db, conn, mem, answer, recorded, faulted>>

\* Faulty: the stored reply is not looked up.
CheckNothing(r) == Select(r, "check", "upsert", mem[r])

\* get_processed_event: a reply that is stored is the answer.
Check(r) ==
  LET found == View(host[r]).processed[EventOf[r]]
  IN  Select(r, "check", IF found = NoReply THEN "upsert" ELSE "return",
             [mem[r] EXCEPT !.found = found])

\* load_context: upsert_conversation, then its history, then the summary state.
UpsertConversation(r) ==
  Write(r, "upsert", "history",
        [View(host[r]) EXCEPT !.known = @ \cup {ConversationOf(r)}], mem[r])

ReadHistory(r) ==
  Select(r, "history", "context",
         [mem[r] EXCEPT !.turns = View(host[r]).turns[ConversationOf(r)]])

ReadContext(r) ==
  LET summary == View(host[r]).summary[ConversationOf(r)]
  IN  Select(r, "context", "run", [mem[r] EXCEPT !.context = ContextOf(mem[r].turns, summary)])

\* stream_event: run_loop goes to a thread and the loop is free meanwhile.
RunInThread(r) ==
  /\ r \in Streams
  /\ Runs(r, "run")
  /\ loop' = [loop EXCEPT ![host[r]] = NoRequest]
  /\ UNCHANGED <<db, conn, pc, host, mem, answer, recorded, faulted>>

\* run_loop returned: inline for process_event; for stream_event the thread's
\* future resumes the coroutine when the loop is free.
RunReturns(r) ==
  /\ pc[r] = "run"
  /\ loop[host[r]] = IF r \in Streams THEN NoRequest ELSE r
  /\ loop' = [loop EXCEPT ![host[r]] = r]
  /\ pc' = [pc EXCEPT ![r] = "top"]
  /\ UNCHANGED <<db, conn, host, mem, answer, recorded, faulted>>

RunRaises(r) ==
  /\ "run" \in Faults
  /\ pc[r] = "run"
  /\ r \in Streams <=> loop[host[r]] # r
  /\ Raise(r)
  /\ faulted' = faulted \cup {"run"}
  /\ UNCHANGED <<db, conn, host, recorded>>
-----------------------------------------------------------------------------
(* append_turns and maybe_compact *)

ReadTop(r) ==
  Select(r, "top", "append",
         [mem[r] EXCEPT !.top = MaxSeq(View(host[r]).turns[ConversationOf(r)])])

\* Both inserts, the trim and the commit.
AppendTurns(r) ==
  LET c == ConversationOf(r)
      n == mem[r].top + 1
      table == View(host[r]).turns[c]
      appended == Trim(table \cup {UserTurn(n, r), AssistantTurn(n + 1, r)})
  IN  /\ Runs(r, "append")
      /\ ~Occupied(table, n) /\ ~Occupied(table, n + 1)
      /\ Write(r, "append", "turns", [View(host[r]) EXCEPT !.turns[c] = appended], mem[r])

\* Another worker took the number since ReadTop: IntegrityError at one of the inserts.
AppendConflicts(r) ==
  LET c == ConversationOf(r)
      n == mem[r].top + 1
      table == View(host[r]).turns[c]
      left == IF Occupied(table, n) THEN table ELSE table \cup {UserTurn(n, r)}
  IN  /\ Runs(r, "append")
      /\ CanWrite(host[r])
      /\ \E m \in {n, n + 1} : Occupied(table, m)
      /\ conn' = [conn EXCEPT ![host[r]] = Stranded([View(host[r]) EXCEPT !.turns[c] = left])]
      /\ Raise(r)
      /\ UNCHANGED <<db, host, recorded, faulted>>

ReadTurns(r) ==
  LET table == View(host[r]).turns[ConversationOf(r)]
  IN  Select(r, "turns", IF table = {} THEN "save" ELSE "state", [mem[r] EXCEPT !.turns = table])

ReadState(r) ==
  LET summary == View(host[r]).summary[ConversationOf(r)]
      batch == Compactable(mem[r].turns, summary.upto)
  IN  Select(r, "state", IF batch = {} THEN "save" ELSE "generate",
             [mem[r] EXCEPT !.prior = summary, !.batch = batch])

\* No summary profile, a provider error or an empty text: nothing is compacted.
SummaryEmpty(r) ==
  /\ "summary" \in Faults
  /\ Runs(r, "generate")
  /\ Goto(r, "save")
  /\ faulted' = faulted \cup {"summary"}
  /\ UNCHANGED <<db, conn, host, mem, recorded>>

\* Faulty: the boundary is kept from moving back, the summary is not.
SaveSummaryKeepingBoundary(r) ==
  LET c == ConversationOf(r)
      before == View(host[r]).summary[c].upto
      new == Fold(mem[r].prior, mem[r].batch)
      kept == [new EXCEPT !.upto = IF @ < before THEN before ELSE @]
  IN  Write(r, "generate", "save", [View(host[r]) EXCEPT !.summary[c] = kept], mem[r])

\* generate() is synchronous, so it holds the loop in stream_event too; what it
\* returns goes to save_summary_state with what ReadState read.
SaveSummary(r) ==
  Write(r, "generate", "save",
        [View(host[r]) EXCEPT !.summary[ConversationOf(r)] = Fold(mem[r].prior, mem[r].batch)],
        mem[r])

\* Faulty: the insert is not committed.
SaveReplyUncommitted(r) ==
  /\ Runs(r, "save")
  /\ CanWrite(host[r])
  /\ conn' = [conn EXCEPT ![host[r]] =
                Stranded([View(host[r]) EXCEPT !.processed[EventOf[r]] = r])]
  /\ mem' = [mem EXCEPT ![r].found = r]
  /\ Goto(r, "return")
  /\ UNCHANGED <<db, host, recorded, faulted>>

\* save_processed_event: an upsert, the last writer wins.
SaveReply(r) ==
  Write(r, "save", "return", [View(host[r]) EXCEPT !.processed[EventOf[r]] = r],
        [mem[r] EXCEPT !.found = r])

Return(r) ==
  /\ Runs(r, "return")
  /\ Finish(r, "done", mem[r].found)
  /\ UNCHANGED <<db, conn, host, recorded, faulted>>
-----------------------------------------------------------------------------
(* Crashes, the whole system *)

\* The process dies and is started again: its coroutines are gone, its connection's
\* open transaction is rolled back.  Bound: one crash in a behaviour.
Crash(w) ==
  LET lost == {r \in Requests : host[r] = w /\ pc[r] \notin Finished}
  IN  /\ "crash" \in Faults \ faulted
      /\ pc' = [r \in Requests |-> IF r \in lost THEN "failed" ELSE pc[r]]
      /\ mem' = [r \in Requests |-> IF r \in lost THEN NoLocals ELSE mem[r]]
      /\ loop' = [loop EXCEPT ![w] = NoRequest]
      /\ conn' = [conn EXCEPT ![w] = AutoCommit]
      /\ faulted' = faulted \cup {"crash"}
      /\ UNCHANGED <<db, host, answer, recorded>>

Advance(r) ==
  \/ Check(r) \/ UpsertConversation(r) \/ ReadHistory(r) \/ ReadContext(r)
  \/ RunInThread(r) \/ RunReturns(r) \/ RunRaises(r)
  \/ ReadTop(r) \/ AppendTurns(r) \/ AppendConflicts(r)
  \/ ReadTurns(r) \/ ReadState(r) \/ SummaryEmpty(r) \/ SaveSummary(r)
  \/ SaveReply(r) \/ Return(r) \/ WriteRefused(r)

\* Every request is finished: the workers wait for the next one.
Quiescent == (\A r \in Requests : pc[r] \in Finished) /\ UNCHANGED vars

Next ==
  \/ \E r \in Requests, w \in Workers : Start(r, w)
  \/ \E r \in Requests : Advance(r)
  \/ \E w \in Workers : Crash(w)
  \/ Quiescent

\* The event loop serves waiting requests, a coroutine that can go on goes on, and a
\* provider call ends.  Crashes are not fair.
Fairness ==
  \A r \in Requests : WF_vars(\E w \in Workers : Start(r, w)) /\ WF_vars(Advance(r))

Spec == Init /\ [][Next]_vars

FairSpec == Spec /\ Fairness
-----------------------------------------------------------------------------
(* Properties *)

\* Types of the tables, the connections and the coroutines' locals.
TypeOK ==
  /\ db \in Database
  /\ conn \in [Workers -> Connection]
  /\ loop \in [Workers -> Requests \cup {NoRequest}]
  /\ pc \in [Requests -> Steps]
  /\ host \in [Requests -> Workers \cup {NoWorker}]
  /\ mem \in [Requests -> Locals]
  /\ answer \in [Requests -> Requests \cup {NoReply}]
  /\ recorded \in SUBSET Turn
  /\ faulted \in SUBSET Faults

\* A reply returned to a caller is a reply to that caller's event, and the event
\* is in processed_events, whatever the workers, crashes and refused writes: a
\* retry of an answered event is never run again (service.py 129-131, 170).
DurableAnswer ==
  \A r \in Requests : answer[r] # NoReply =>
    /\ EventOf[answer[r]] = EventOf[r]
    /\ db.processed[EventOf[r]] # NoReply

\* A commit of one worker is never undone by a commit of another: an event once
\* processed stays processed (memory_store.py 46-63 under the WAL rules).
ProcessedForever ==
  [][\A e \in Events : db.processed[e] # NoReply => db'.processed[e] # NoReply]_vars

\* Conversation history is made of whole exchanges, each user turn followed by the
\* assistant turn of the same run, although a failed append_turns leaves its
\* transaction open and a later method commits it (memory_store.py 106-152).
WholeExchanges ==
  \A c \in Conversations : \A t \in db.turns[c] :
    \E u \in db.turns[c] :
      /\ u.req = t.req /\ u.role # t.role
      /\ u.seq = IF t.role = "user" THEN t.seq + 1 ELSE t.seq - 1

\* No two visible turns of a conversation ever have the same number, also after
\* the first was trimmed: boundaries and reads by seq stay meaningful.
SeqNeverReused ==
  \A t, u \in recorded :
    t.seq = u.seq /\ ConversationOf(t.req) = ConversationOf(u.req) => t = u

\* One worker: no request fails unless the provider or the process failed, so no
\* store method ever raises and leaves its transaction open.
FailuresHaveCauses ==
  /\ \A r \in Requests : pc[r] = "failed" => faulted # {}
  /\ \A w \in Workers : conn[w].txn = "none"

\* One worker and process_event: an event has two exchanges in the history only if the
\* process died in one of the two requests, between append_turns and
\* save_processed_event; no retry and no failed run doubles it (service.py 163-170).
OneExchangePerEvent ==
  \A t, u \in recorded :
    EventOf[t.req] = EventOf[u.req] /\ t.role = u.role /\ t # u =>
      "crash" \in faulted /\ \E r \in {t.req, u.req} : pc[r] = "failed"

\* However the compactions of several processes overtake and overwrite each other, so
\* that the boundary may move back: a stored turn is part of the summary exactly when
\* the boundary stored with it says so. None is dropped between summary and recent
\* turns, none is given to the model twice (compaction.py 187-207, policy.py 46-55).
SummaryMatchesBoundary ==
  \A c \in Conversations : \A t \in db.turns[c] :
    t \in db.summary[c].covers <=> t.seq <= db.summary[c].upto

\* One worker, turns that fill the window before the history limit is reached: a
\* turn leaves the table only after it was folded into the summary
\* (memory_store.py 126-143 against compaction.py 187-207).
NothingForgotten ==
  faulted \subseteq {"run"} =>
    \A t \in recorded :
      LET c == ConversationOf(t.req) IN t \in db.turns[c] \cup db.summary[c].covers

\* One worker: what the model is given, the summary and the recent turns, is the
\* whole conversation so far, as long as no summary failed and no process died between
\* append_turns and its compaction (session.py 30-41).
ContextComplete ==
  [][\A r \in Requests : pc[r] = "context" /\ pc'[r] = "run" /\ faulted \subseteq {"run"} =>
       mem'[r].context = {t \in recorded : ConversationOf(t.req) = ConversationOf(r)}]_vars

\* One worker: every request is answered or fails; none waits for ever for the event
\* loop, which a stream gives up while its run is in a thread (service.py 222, 272).
EveryRequestSettles == \A r \in Requests : <>(pc[r] \in Finished)

\* One worker that serves process_event implements the ledger of replies, crashes and
\* provider failures included: replies are settled once, callers are given them.
Ledger == INSTANCE ReplyLedger WITH replies <- db.processed, answers <- answer

LedgerSpec == Ledger!Spec

\* tests/test_routing.py 26: the same event_id returns the idempotent result. Two
\* calls of stream_event for one event overlap: the check of each precedes the save
\* of either (service.py 178 against 246).
SameEventSameReply ==
  \A r, q \in Requests :
    EventOf[r] = EventOf[q] /\ answer[r] # NoReply /\ answer[q] # NoReply => answer[r] = answer[q]
=============================================================================
