----------------------------- MODULE StoreSchema -----------------------------
(***************************************************************************)
(* MemoryStore.__init__ (domain/store/memory_store.py): every process of   *)
(* an agent home opens the same database file and brings its schema up to  *)
(* date, one autocommitted statement after the other; then it appends      *)
(* exchanges, whose triggers keep turns_fts, and searches.                 *)
(*                                                                         *)
(* A turn is its row id and the number of its words.  FTS5 is external: an *)
(* index of an external-content table keeps the number of rows and words   *)
(* it holds, and a 'delete' that would take either below zero is refused   *)
(* as "database disk image is malformed".  SessionService has the requests *)
(* around append_turns and what the write lock does to them.               *)
(***************************************************************************)
EXTENDS Naturals, FiniteSets, FiniteSetsExt

CONSTANTS
  Processes,     \* the processes of one agent home
  Limit,         \* MemoryStore._history_limit
  Words,         \* the words a turn may have
  Old,           \* turns stored by a version without turns_fts
  MaxStarts,     \* bound: openings of the file
  MaxExchanges   \* bound: calls of append_turns

ASSUME SchemaAssumption ==
  /\ Limit \in Nat
  /\ Words \subseteq Nat \ {0}
  /\ Old \in Nat
  /\ MaxStarts \in Nat
  /\ MaxExchanges \in Nat

VARIABLES
  db,         \* the committed database
  open,       \* what a connection has in an open transaction
  pc,         \* where a process is in __init__, or how it ended
  seen,       \* cols of _migrate_schema: the columns the process has read
  starts,     \* openings so far
  exchanges,  \* calls of append_turns so far
  beside,     \* history: starts that had another one, or an open transaction, beside them
  disturbed   \* history: two starts have overlapped, or a process died in one

vars == <<db, open, pc, seen, starts, exchanges, beside, disturbed>>
-----------------------------------------------------------------------------
NoTransaction == [none |-> TRUE]

WordsOf(turns) == MapThenSumSet(LAMBDA t : t.words, turns)

\* A file of an older version, or a new one when Old = 0.  indexed, rows and total are
\* turns_fts: the ids it has, and its own two counts.
OldDatabase(words) ==
  [columns |-> {}, fts |-> FALSE, triggers |-> {},
   turns |-> {[id |-> i, words |-> words] : i \in 1 .. Old},
   lastId |-> Old, indexed |-> {}, rows |-> 0, total |-> 0]

Init ==
  /\ \E words \in Words : db = OldDatabase(words)
  /\ open = [p \in Processes |-> NoTransaction]
  /\ pc = [p \in Processes |-> "down"]
  /\ seen = [p \in Processes |-> {}]
  /\ starts = 0
  /\ exchanges = 0
  /\ beside = {}
  /\ disturbed = FALSE
-----------------------------------------------------------------------------
(* Opening the file *)

Statements == {"read_columns", "add_input", "add_output", "read_tables", "create_fts",
               "create_insert", "create_delete", "create_update"}

Starting == {p \in Processes : pc[p] \in Statements}

InTransaction == {p \in Processes : open[p] # NoTransaction}

Goto(p, l) == pc' = [pc EXCEPT ![p] = l]

\* connect and _init_schema.  CREATE ... IF NOT EXISTS writes nothing to a file that has its
\* tables; to a new one it does, when no connection can have a transaction open: another
\* start's statements are over within the busy timeout.
Start(p) ==
  /\ pc[p] \in {"down", "failed"}
  /\ starts < MaxStarts
  /\ starts' = starts + 1
  /\ Goto(p, "read_columns")
  /\ beside' = IF Starting \cup InTransaction = {} THEN beside \ {p}
               ELSE beside \cup Starting \cup {p}
  /\ disturbed' = (disturbed \/ Starting # {})
  /\ UNCHANGED <<db, open, seen, exchanges>>

\* PRAGMA table_info(conversation_turns).
ReadColumns(p) ==
  /\ pc[p] = "read_columns"
  /\ seen' = [seen EXCEPT ![p] = db.columns]
  /\ Goto(p, "add_input")
  /\ UNCHANGED <<db, open, starts, exchanges, beside, disturbed>>

\* A schema statement commits by itself; it is refused while another connection has
\* an open transaction (after the busy timeout), or when what it makes is there.
Define(p, exists, changed, l) ==
  /\ IF exists \/ InTransaction \ {p} # {}
     THEN Goto(p, "failed") /\ UNCHANGED db
     ELSE Goto(p, l) /\ db' = changed
  /\ UNCHANGED <<open, seen, starts, exchanges, beside, disturbed>>

Skip(p, l) ==
  /\ Goto(p, l)
  /\ UNCHANGED <<db, open, seen, starts, exchanges, beside, disturbed>>

\* Faulty: the columns are added without a look at those that are there.
AddColumnAlways(p, l, column, next) ==
  /\ pc[p] = l
  /\ Define(p, column \in db.columns, [db EXCEPT !.columns = @ \cup {column}], next)

\* ALTER TABLE conversation_turns ADD COLUMN, unless the column was there when read.
AddColumn(p, l, column, next) ==
  /\ pc[p] = l
  /\ IF column \in seen[p] THEN Skip(p, next)
     ELSE Define(p, column \in db.columns, [db EXCEPT !.columns = @ \cup {column}], next)

\* SELECT name FROM sqlite_master: a table that is there is taken to have its triggers.
ReadTables(p) ==
  /\ pc[p] = "read_tables"
  /\ Skip(p, IF db.fts THEN "serving" ELSE "create_fts")

\* A failure here is raised as "FTS5 not available in this SQLite build".
CreateIndex(p) ==
  /\ pc[p] = "create_fts"
  /\ Define(p, db.fts, [db EXCEPT !.fts = TRUE], "create_insert")

CreateTrigger(p, l, trigger, next) ==
  /\ pc[p] = l
  /\ Define(p, trigger \in db.triggers, [db EXCEPT !.triggers = @ \cup {trigger}], next)

Migrate(p) ==
  \/ ReadColumns(p)
  \/ AddColumn(p, "add_input", "input_tokens", "add_output")
  \/ AddColumn(p, "add_output", "output_tokens", "read_tables")
  \/ ReadTables(p)
  \/ CreateIndex(p)
  \/ CreateTrigger(p, "create_insert", "turns_fts_insert", "create_delete")
  \/ CreateTrigger(p, "create_delete", "turns_fts_delete", "create_update")
  \/ CreateTrigger(p, "create_update", "turns_fts_update", "serving")

\* The process dies; what it had not committed is gone.
Die(p) ==
  /\ pc[p] \in Statements \cup {"serving"}
  /\ Goto(p, "down")
  /\ open' = [open EXCEPT ![p] = NoTransaction]
  /\ disturbed' = (disturbed \/ p \in Starting)
  /\ UNCHANGED <<db, seen, starts, exchanges, beside>>
-----------------------------------------------------------------------------
(* Serving *)

\* What the connection of p sees.
View(p) == IF open[p] = NoTransaction THEN db ELSE open[p]

\* Two INSERTs, and turns_fts_insert after each.
Inserted(d, user, assistant) ==
  LET new == {[id |-> d.lastId + 1, words |-> user], [id |-> d.lastId + 2, words |-> assistant]}
      stored == [d EXCEPT !.turns = @ \cup new, !.lastId = @ + 2]
  IN  IF "turns_fts_insert" \in d.triggers
      THEN [stored EXCEPT !.indexed = @ \cup {t.id : t \in new},
                          !.rows = @ + 2, !.total = @ + user + assistant]
      ELSE stored

\* The turns behind the newest Limit.
Trimmed(d) == {t \in d.turns : Cardinality({u \in d.turns : u.id > t.id}) >= Limit}

\* FTS5 is told to forget turns it may never have held.
TrimRefused(d) ==
  /\ "turns_fts_delete" \in d.triggers
  /\ \/ Cardinality(Trimmed(d)) > d.rows
     \/ WordsOf(Trimmed(d)) > d.total

\* Faulty: no turns_fts_delete.
AfterTrimUntold(d) == [d EXCEPT !.turns = @ \ Trimmed(d)]

\* The DELETE, and turns_fts_delete for every row.
AfterTrim(d) ==
  LET rest == [d EXCEPT !.turns = @ \ Trimmed(d)]
  IN  IF "turns_fts_delete" \in d.triggers
      THEN [rest EXCEPT !.indexed = @ \ {t.id : t \in Trimmed(d)},
                        !.rows = @ - Cardinality(Trimmed(d)),
                        !.total = @ - WordsOf(Trimmed(d))]
      ELSE rest

\* upsert_conversation commits whatever an earlier request left open; then
\* append_turns, whose refused DELETE leaves its INSERTs in an open transaction.
Exchange(p) ==
  /\ pc[p] = "serving"
  /\ exchanges < MaxExchanges
  /\ InTransaction \ {p} = {}
  /\ exchanges' = exchanges + 1
  /\ \E user, assistant \in Words :
       LET d == Inserted(View(p), user, assistant)
       IN  IF TrimRefused(d)
           THEN /\ db' = View(p)
                /\ open' = [open EXCEPT ![p] = d]
                /\ beside' = beside \cup Starting
           ELSE /\ db' = AfterTrim(d)
                /\ open' = [open EXCEPT ![p] = NoTransaction]
                /\ UNCHANGED beside
  /\ UNCHANGED <<pc, seen, starts, disturbed>>

\* search_turns for a word every turn has: turns_fts joined with conversation_turns.
Found(d) == {t \in d.turns : t.id \in d.indexed}
-----------------------------------------------------------------------------
Quiescent == Starting = {} /\ UNCHANGED vars

Next ==
  \/ \E p \in Processes : Start(p) \/ Migrate(p) \/ Die(p) \/ Exchange(p)
  \/ Quiescent

Spec == Init /\ [][Next]_vars
-----------------------------------------------------------------------------
(* Properties *)

\* "Additive migrations - safe to run on every startup" (memory_store.py 271), over any
\* history of starts, deaths in a start and requests: a start is refused only when another
\* process was starting, or had a transaction open, at the same time.
StartsAreSafe == \A p \in Processes : pc[p] = "failed" => p \in beside

\* On a file without older turns, as long as starts neither overlap nor are cut short,
\* every turn in the table is found, nothing else is, and no append is refused.
IndexFollowsTable ==
  ~disturbed /\ Old = 0 =>
    /\ Found(db) = db.turns
    /\ db.rows = Cardinality(db.turns) /\ db.total = WordsOf(db.turns)
    /\ InTransaction = {}

\* docs/superpowers/plans/2026-04-12-sqlite-fts-tokens.md:7: "No existing rows or queries
\* are broken".  append_turns trims the existing rows out of an index that never held them.
AppendsGoThrough == InTransaction = {}
=============================================================================
