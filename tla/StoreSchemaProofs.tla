------------------------- MODULE StoreSchemaProofs -------------------------
(***************************************************************************)
(* That a start of StoreSchema is refused only beside another one, for any *)
(* processes, any number of starts and any history of the file; and that   *)
(* the index follows the table as long as starts neither overlap nor are   *)
(* cut short.  The words of a set of turns are a sum, so the second rests  *)
(* on lemmas about sums over finite sets.                                  *)
(***************************************************************************)
EXTENDS StoreSchema, FiniteSetTheorems, WellFoundedInduction, TLAPS

\* What of a database the migration looks at.
SchemaOf(d) == <<d.columns, d.fts, d.triggers>>

\* d is a record with the fields of a database; what the others hold does not matter here.
IsDatabase(d) ==
  /\ d = [columns |-> d.columns, fts |-> d.fts, triggers |-> d.triggers, turns |-> d.turns,
          lastId |-> d.lastId, indexed |-> d.indexed, rows |-> d.rows, total |-> d.total]
  /\ d.fts \in BOOLEAN

FieldsInv ==
  /\ IsDatabase(db)
  /\ DOMAIN open = Processes
  /\ pc \in [Processes -> Statements \cup {"down", "failed", "serving"}]
  /\ DOMAIN seen = Processes

\* A transaction is open only in a process that serves, and has not moved the schema.
TransactionInv ==
  \A p \in InTransaction :
    pc[p] = "serving" /\ IsDatabase(open[p]) /\ SchemaOf(open[p]) = SchemaOf(db)

\* The index is made before its triggers.
IndexInv ==
  /\ ~db.fts => db.triggers = {}
  /\ \A p \in Processes :
       pc[p] \in {"create_insert", "create_delete", "create_update"} => db.fts

\* What a start with nobody beside it may rely on: nothing it has still to make is there.
Unmade(p) ==
  /\ pc[p] = "add_input" => seen[p] = db.columns
  /\ pc[p] = "add_output" => ("output_tokens" \in db.columns => "output_tokens" \in seen[p])
  /\ pc[p] = "create_fts" => ~db.fts
  /\ pc[p] = "create_insert" => db.triggers = {}
  /\ pc[p] = "create_delete" => db.triggers \subseteq {"turns_fts_insert"}
  /\ pc[p] = "create_update" => "turns_fts_update" \notin db.triggers

AloneInv ==
  \A p \in Starting : p \notin beside => Starting = {p} /\ InTransaction = {} /\ Unmade(p)

SafeInv == FieldsInv /\ TransactionInv /\ IndexInv /\ AloneInv /\ StartsAreSafe
-----------------------------------------------------------------------------
LEMMA InitSafe == Init => SafeInv
<1> SUFFICES ASSUME Init PROVE SafeInv
  OBVIOUS
<1>1. FieldsInv
  BY DEF Init, OldDatabase, FieldsInv, IsDatabase, Statements
<1>2. InTransaction = {} /\ Starting = {}
  BY DEF Init, InTransaction, Starting, Statements
<1>3. IndexInv
  BY DEF Init, OldDatabase, IndexInv
<1>4. StartsAreSafe
  BY DEF Init, StartsAreSafe
<1> QED
  BY <1>1, <1>2, <1>3, <1>4 DEF SafeInv, TransactionInv, AloneInv

LEMMA StartSafe ==
  ASSUME SafeInv, NEW p \in Processes, Start(p)
  PROVE  SafeInv'
<1> USE DEF SafeInv, FieldsInv
<1>1. pc' = [pc EXCEPT ![p] = "read_columns"] /\ UNCHANGED <<db, open, seen>>
  BY DEF Start, Goto
<1>2. FieldsInv'
  BY <1>1 DEF Statements, IsDatabase
<1>3. InTransaction' = InTransaction /\ p \notin InTransaction
  BY <1>1 DEF InTransaction, TransactionInv, Start
<1>4. TransactionInv'
  BY <1>1, <1>3 DEF TransactionInv, IsDatabase, SchemaOf
<1>5. IndexInv'
  BY <1>1 DEF IndexInv
<1>6. Starting' = Starting \cup {p}
  BY <1>1 DEF Starting, Statements
<1>7. AloneInv'
  <2> SUFFICES ASSUME NEW q \in Starting', q \notin beside'
               PROVE  Starting' = {q} /\ InTransaction' = {} /\ Unmade(q)'
    BY DEF AloneInv
  <2>1. Starting \cup InTransaction = {} /\ q = p
    BY <1>6 DEF Start
  <2> QED
    BY <1>1, <1>3, <1>6, <2>1 DEF Unmade
<1>8. StartsAreSafe'
  BY <1>1 DEF StartsAreSafe, Start
<1> QED
  BY <1>2, <1>4, <1>5, <1>7, <1>8

\* A step of a start that leaves the database as it is.
LEMMA QuietSafe ==
  ASSUME SafeInv, NEW p \in Starting, NEW l \in (Statements \cup {"serving"}), Goto(p, l),
         UNCHANGED <<db, open, beside>>, DOMAIN seen' = Processes,
         l \in {"create_insert", "create_delete", "create_update"} => db.fts,
         p \notin beside => Unmade(p)'
  PROVE  SafeInv'
<1> USE DEF SafeInv, FieldsInv, Goto
<1>1. FieldsInv'
  BY DEF IsDatabase
<1>2. TransactionInv' /\ InTransaction' = InTransaction
  BY DEF TransactionInv, InTransaction, Starting, Statements, IsDatabase, SchemaOf
<1>3. IndexInv'
  BY DEF IndexInv, Starting
<1>4. Starting' \subseteq Starting
  BY DEF Starting, Statements
<1>5. AloneInv'
  <2> SUFFICES ASSUME NEW q \in Starting', q \notin beside'
               PROVE  Starting' = {q} /\ InTransaction' = {} /\ Unmade(q)'
    BY DEF AloneInv
  <2>1. Starting = {q} /\ InTransaction = {} /\ q = p
    BY <1>4 DEF AloneInv
  <2> QED
    BY <1>2, <1>4, <2>1
<1>6. StartsAreSafe'
  BY DEF StartsAreSafe, Statements, Starting
<1> QED
  BY <1>1, <1>2, <1>3, <1>5, <1>6

\* A statement that makes something, or is refused.
LEMMA DefineSafe ==
  ASSUME SafeInv, NEW p \in Starting, NEW exists \in BOOLEAN, NEW changed,
         NEW l \in (Statements \cup {"serving"}), Define(p, exists, changed, l),
         IsDatabase(changed), changed.fts \/ (~db.fts /\ changed.triggers = {}),
         db.fts => changed.fts,
         l \in {"create_insert", "create_delete", "create_update"} => changed.fts,
         p \notin beside => ~exists,
         p \notin beside /\ db' = changed /\ pc'[p] = l => Unmade(p)'
  PROVE  SafeInv'
<1> USE DEF SafeInv, FieldsInv, Goto
<1>1. p \in Processes /\ p \notin InTransaction
  BY DEF Starting, InTransaction, TransactionInv, Statements
<1>2. UNCHANGED <<open, seen, beside>> /\ InTransaction' = InTransaction
  BY DEF Define, InTransaction
<1>3. CASE exists \/ InTransaction # {}
  <2>1. pc' = [pc EXCEPT ![p] = "failed"] /\ UNCHANGED db
    BY <1>1, <1>3 DEF Define
  <2>2. p \in beside
    BY <1>3 DEF AloneInv
  <2>3. FieldsInv'
    BY <1>2, <2>1 DEF IsDatabase
  <2>4. TransactionInv'
    BY <1>1, <1>2, <2>1 DEF TransactionInv, IsDatabase, SchemaOf
  <2>5. IndexInv'
    BY <2>1 DEF IndexInv
  <2>6. Starting' = Starting \ {p}
    BY <2>1 DEF Starting, Statements
  <2>7. AloneInv'
    BY <1>2, <2>2, <2>6 DEF AloneInv
  <2>8. StartsAreSafe'
    BY <1>2, <2>1, <2>2 DEF StartsAreSafe
  <2> QED
    BY <2>3, <2>4, <2>5, <2>7, <2>8
<1>4. CASE ~exists /\ InTransaction = {}
  <2>1. pc' = [pc EXCEPT ![p] = l] /\ db' = changed
    BY <1>4 DEF Define
  <2>2. FieldsInv'
    BY <1>2, <2>1 DEF IsDatabase
  <2>3. TransactionInv'
    BY <1>2, <1>4 DEF TransactionInv
  <2>4. IndexInv'
    BY <1>1, <2>1 DEF IndexInv
  <2>5. Starting' \subseteq Starting
    BY <1>1, <2>1 DEF Starting, Statements
  <2>6. AloneInv'
    <3> SUFFICES ASSUME NEW q \in Starting', q \notin beside'
                 PROVE  Starting' = {q} /\ InTransaction' = {} /\ Unmade(q)'
      BY DEF AloneInv
    <3>1. Starting = {q} /\ q = p
      BY <1>2, <2>5 DEF AloneInv
    <3> QED
      BY <1>1, <1>2, <1>4, <2>1, <2>5, <3>1
  <2>7. StartsAreSafe'
    BY <1>2, <2>1 DEF StartsAreSafe, Statements
  <2> QED
    BY <2>2, <2>3, <2>4, <2>6, <2>7
<1> QED
  BY <1>3, <1>4

LEMMA MigrateSafe ==
  ASSUME SafeInv, NEW p \in Processes, Migrate(p)
  PROVE  SafeInv'
<1> USE DEF SafeInv, FieldsInv
<1>1. p \in Starting
  BY DEF Migrate, ReadColumns, AddColumn, ReadTables, CreateIndex, CreateTrigger, Starting, Statements
<1>2. p \notin beside => Unmade(p)
  BY <1>1 DEF AloneInv
<1>3. CASE ReadColumns(p)
  <2>1. p \notin beside => Unmade(p)'
    BY <1>1, <1>3 DEF ReadColumns, Goto, Unmade
  <2> QED
    BY <1>1, <1>3, <2>1, QuietSafe DEF ReadColumns, Statements
<1>4. CASE AddColumn(p, "add_input", "input_tokens", "add_output")
  <2>1. CASE "input_tokens" \in seen[p]
    <3>1. p \notin beside => Unmade(p)'
      BY <1>2, <1>4, <2>1 DEF AddColumn, Skip, Goto, Unmade
    <3> QED
      BY <1>1, <1>4, <2>1, <3>1, QuietSafe DEF AddColumn, Skip, Statements
  <2>2. CASE "input_tokens" \notin seen[p]
    <3> DEFINE changed == [db EXCEPT !.columns = @ \cup {"input_tokens"}]
               exists == "input_tokens" \in db.columns
    <3>1. Define(p, exists, changed, "add_output")
      BY <1>4, <2>2 DEF AddColumn
    <3>2. IsDatabase(changed) /\ changed.fts = db.fts /\ changed.triggers = db.triggers
          /\ changed.columns = db.columns \cup {"input_tokens"}
      BY DEF IsDatabase
    <3>3. p \notin beside => ~exists
      BY <1>2, <1>4, <2>2 DEF AddColumn, Unmade
    <3>4. p \notin beside /\ db' = changed /\ pc'[p] = "add_output" => Unmade(p)'
      BY <1>2, <1>4, <3>1, <3>2 DEF AddColumn, Define, Unmade
    <3>5. changed.fts \/ (~db.fts /\ changed.triggers = {})
      BY <3>2 DEF IndexInv, IsDatabase
    <3>6. exists \in BOOLEAN /\ "add_output" \in Statements \cup {"serving"}
      BY DEF Statements
    <3>7. "add_output" \notin {"create_insert", "create_delete", "create_update"}
      OBVIOUS
    <3> HIDE DEF changed, exists
    <3> QED
      BY <1>1, <3>1, <3>2, <3>3, <3>4, <3>5, <3>6, <3>7, DefineSafe
  <2> QED
    BY <2>1, <2>2
<1>5. CASE AddColumn(p, "add_output", "output_tokens", "read_tables")
  <2>1. CASE "output_tokens" \in seen[p]
    <3>1. p \notin beside => Unmade(p)'
      BY <1>5, <2>1 DEF AddColumn, Skip, Goto, Unmade
    <3> QED
      BY <1>1, <1>5, <2>1, <3>1, QuietSafe DEF AddColumn, Skip, Statements
  <2>2. CASE "output_tokens" \notin seen[p]
    <3> DEFINE changed == [db EXCEPT !.columns = @ \cup {"output_tokens"}]
               exists == "output_tokens" \in db.columns
    <3>1. Define(p, exists, changed, "read_tables")
      BY <1>5, <2>2 DEF AddColumn
    <3>2. IsDatabase(changed) /\ changed.fts = db.fts /\ changed.triggers = db.triggers
      BY DEF IsDatabase
    <3>3. p \notin beside => ~exists
      BY <1>2, <1>5, <2>2 DEF AddColumn, Unmade
    <3>4. pc'[p] = "read_tables" => Unmade(p)'
      BY DEF Unmade
    <3>5. changed.fts \/ (~db.fts /\ changed.triggers = {})
      BY <3>2 DEF IndexInv, IsDatabase
    <3>6. exists \in BOOLEAN /\ "read_tables" \in Statements \cup {"serving"}
      BY DEF Statements
    <3>7. "read_tables" \notin {"create_insert", "create_delete", "create_update"}
      OBVIOUS
    <3> HIDE DEF changed, exists
    <3> QED
      BY <1>1, <3>1, <3>2, <3>3, <3>4, <3>5, <3>6, <3>7, DefineSafe
  <2> QED
    BY <2>1, <2>2
<1>6. CASE ReadTables(p)
  <2> DEFINE l == IF db.fts THEN "serving" ELSE "create_fts"
  <2>1. Goto(p, l) /\ UNCHANGED <<db, open, seen, beside>>
    BY <1>6 DEF ReadTables, Skip
  <2>2. l \in {"serving", "create_fts"} /\ (l = "create_fts" => ~db.fts)
    OBVIOUS
  <2> HIDE DEF l
  <2>3. p \notin beside => Unmade(p)'
    BY <2>1, <2>2 DEF Goto, Unmade
  <2> QED
    BY <1>1, <2>1, <2>2, <2>3, QuietSafe DEF Statements
<1>7. CASE CreateIndex(p)
  <2> DEFINE changed == [db EXCEPT !.fts = TRUE]
  <2>1. Define(p, db.fts, changed, "create_insert") /\ pc[p] = "create_fts"
    BY <1>7 DEF CreateIndex
  <2>2. IsDatabase(changed) /\ changed.fts /\ changed.triggers = db.triggers
    <3>0. \A x : [db EXCEPT !.fts = x]
                = [columns |-> db.columns, fts |-> x, triggers |-> db.triggers,
                   turns |-> db.turns, lastId |-> db.lastId, indexed |-> db.indexed,
                   rows |-> db.rows, total |-> db.total]
      BY DEF IsDatabase
    <3>1. changed = [columns |-> db.columns, fts |-> TRUE, triggers |-> db.triggers,
                     turns |-> db.turns, lastId |-> db.lastId, indexed |-> db.indexed,
                     rows |-> db.rows, total |-> db.total]
      BY <3>0, Zenon
    <3> HIDE DEF changed
    <3>2. changed.fts = TRUE /\ changed.triggers = db.triggers /\ changed.columns = db.columns
          /\ changed.turns = db.turns /\ changed.lastId = db.lastId
          /\ changed.indexed = db.indexed /\ changed.rows = db.rows /\ changed.total = db.total
      BY <3>1
    <3> QED
      BY <3>1, <3>2 DEF IsDatabase
  <2>3. p \notin beside => ~db.fts
    BY <1>2, <2>1 DEF Unmade
  <2>4. p \notin beside /\ db' = changed /\ pc'[p] = "create_insert" => Unmade(p)'
    BY <2>2, <2>3 DEF Unmade, IndexInv
  <2>5. db.fts \in BOOLEAN
    BY DEF IsDatabase
  <2> HIDE DEF changed
  <2> QED
    BY <1>1, <2>1, <2>2, <2>3, <2>4, <2>5, DefineSafe DEF Statements
<1>8. ASSUME NEW l, NEW trigger, NEW next,
             CreateTrigger(p, l, trigger, next),
             \/ l = "create_insert" /\ trigger = "turns_fts_insert" /\ next = "create_delete"
             \/ l = "create_delete" /\ trigger = "turns_fts_delete" /\ next = "create_update"
             \/ l = "create_update" /\ trigger = "turns_fts_update" /\ next = "serving"
      PROVE  SafeInv'
  <2> DEFINE changed == [db EXCEPT !.triggers = @ \cup {trigger}]
             exists == trigger \in db.triggers
  <2>1. Define(p, exists, changed, next) /\ pc[p] = l
    BY <1>8 DEF CreateTrigger
  <2>2. IsDatabase(changed) /\ changed.fts = db.fts /\ changed.triggers = db.triggers \cup {trigger}
    BY DEF IsDatabase
  <2>3. db.fts
    BY <1>8, <2>1 DEF IndexInv
  <2>4. p \notin beside => ~exists
    BY <1>2, <1>8, <2>1 DEF Unmade
  <2>5. p \notin beside /\ db' = changed /\ pc'[p] = next => Unmade(p)'
    BY <1>2, <1>8, <2>1, <2>2 DEF Unmade
  <2>6. next \in Statements \cup {"serving"} /\ exists \in BOOLEAN
    BY <1>8 DEF Statements
  <2> HIDE DEF changed, exists
  <2> QED
    BY <1>1, <2>1, <2>2, <2>3, <2>4, <2>5, <2>6, DefineSafe
<1> QED
  BY <1>3, <1>4, <1>5, <1>6, <1>7, <1>8 DEF Migrate

LEMMA DieSafe ==
  ASSUME SafeInv, NEW p \in Processes, Die(p)
  PROVE  SafeInv'
<1> USE DEF SafeInv, FieldsInv
<1>1. /\ pc' = [pc EXCEPT ![p] = "down"] /\ open' = [open EXCEPT ![p] = NoTransaction]
      /\ UNCHANGED <<db, seen, beside>>
  BY DEF Die, Goto
<1>2. FieldsInv'
  BY <1>1 DEF IsDatabase
<1>3. InTransaction' \subseteq InTransaction /\ p \notin InTransaction'
  BY <1>1 DEF InTransaction
<1>4. TransactionInv'
  BY <1>1, <1>3 DEF TransactionInv, InTransaction, IsDatabase, SchemaOf
<1>5. IndexInv'
  BY <1>1 DEF IndexInv
<1>6. Starting' = Starting \ {p}
  BY <1>1 DEF Starting, Statements
<1>7. AloneInv'
  BY <1>1, <1>3, <1>6 DEF AloneInv, Unmade
<1>8. StartsAreSafe'
  BY <1>1 DEF StartsAreSafe
<1> QED
  BY <1>2, <1>4, <1>5, <1>7, <1>8

\* What append_turns does to a database leaves its schema.
LEMMA AppendKeepsSchema ==
  ASSUME NEW d, IsDatabase(d), NEW user, NEW assistant
  PROVE  /\ IsDatabase(Inserted(d, user, assistant))
         /\ SchemaOf(Inserted(d, user, assistant)) = SchemaOf(d)
         /\ IsDatabase(AfterTrim(d))
         /\ SchemaOf(AfterTrim(d)) = SchemaOf(d)
<1>1. /\ IsDatabase(Inserted(d, user, assistant))
      /\ SchemaOf(Inserted(d, user, assistant)) = SchemaOf(d)
  BY DEF Inserted, IsDatabase, SchemaOf
<1>2. IsDatabase(AfterTrim(d)) /\ SchemaOf(AfterTrim(d)) = SchemaOf(d)
  BY DEF AfterTrim, IsDatabase, SchemaOf
<1> QED
  BY <1>1, <1>2

LEMMA ExchangeSafe ==
  ASSUME SafeInv, NEW p \in Processes, Exchange(p)
  PROVE  SafeInv'
<1> USE DEF SafeInv, FieldsInv
<1>1. pc[p] = "serving" /\ InTransaction \ {p} = {} /\ UNCHANGED <<pc, seen>>
  BY DEF Exchange
<1>2. IsDatabase(View(p)) /\ SchemaOf(View(p)) = SchemaOf(db)
  BY DEF View, TransactionInv, InTransaction
<1>3. PICK user \in Words, assistant \in Words :
        LET d == Inserted(View(p), user, assistant)
        IN  IF TrimRefused(d)
            THEN db' = View(p) /\ open' = [open EXCEPT ![p] = d] /\ beside' = beside \cup Starting
            ELSE db' = AfterTrim(d) /\ open' = [open EXCEPT ![p] = NoTransaction] /\ UNCHANGED beside
  BY DEF Exchange
<1> DEFINE d == Inserted(View(p), user, assistant)
<1>4. IsDatabase(d) /\ SchemaOf(d) = SchemaOf(db) /\ IsDatabase(AfterTrim(d)) /\ SchemaOf(AfterTrim(d)) = SchemaOf(db)
  BY <1>2, AppendKeepsSchema
<1> HIDE DEF d
<1>5. IsDatabase(db') /\ SchemaOf(db') = SchemaOf(db)
  BY <1>2, <1>3, <1>4 DEF d
<1>6. db'.columns = db.columns /\ db'.fts = db.fts /\ db'.triggers = db.triggers
  BY <1>5 DEF SchemaOf
<1>7. FieldsInv'
  BY <1>1, <1>3, <1>5 DEF IsDatabase
<1>8. InTransaction' \subseteq {p} /\ (InTransaction' # {} => open' = [open EXCEPT ![p] = d] /\ beside' = beside \cup Starting)
  BY <1>1, <1>3 DEF InTransaction, d
<1>9. TransactionInv'
  BY <1>1, <1>4, <1>5, <1>7, <1>8 DEF TransactionInv, IsDatabase, SchemaOf
<1>10. IndexInv'
  BY <1>1, <1>6 DEF IndexInv
<1>11. Starting' = Starting /\ beside \subseteq beside'
  BY <1>1, <1>3 DEF Starting
<1>12. AloneInv'
  BY <1>1, <1>6, <1>8, <1>11 DEF AloneInv, Unmade
<1>13. StartsAreSafe'
  BY <1>1, <1>11 DEF StartsAreSafe
<1> QED
  BY <1>7, <1>9, <1>10, <1>12, <1>13

LEMMA StepSafe == SafeInv /\ [Next]_vars => SafeInv'
<1> SUFFICES ASSUME SafeInv, [Next]_vars PROVE SafeInv'
  OBVIOUS
<1>1. CASE UNCHANGED vars
  BY <1>1 DEF vars, SafeInv, FieldsInv, IsDatabase, TransactionInv, IndexInv, AloneInv, StartsAreSafe,
              Starting, InTransaction, Unmade, SchemaOf
<1>2. CASE Next
  BY <1>1, <1>2, StartSafe, MigrateSafe, DieSafe, ExchangeSafe DEF Next, Quiescent
<1> QED
  BY <1>1, <1>2

\* Whatever the file holds and however often processes start, die and append: a start is
\* refused only when another process was starting, or had a transaction open, beside it
\* (memory_store.py 270-314).
THEOREM RefusedStartsHaveCompany == Spec => []StartsAreSafe
<1>1. SafeInv => StartsAreSafe
  BY DEF SafeInv
<1> QED
  BY InitSafe, StepSafe, <1>1, PTL DEF Spec
-----------------------------------------------------------------------------
(* Sums over finite sets *)

LEMMA LeastNatural ==
  ASSUME NEW S \in SUBSET Nat, S # {}
  PROVE  \E m \in S : \A n \in S : m <= n
<1> DEFINE R == {p \in Nat \X Nat : p[1] < p[2]}
<1>1. IsWellFoundedOn(R, Nat)
  BY NatLessThanWellFounded DEF OpToRel
<1> HIDE DEF R
<1>2. PICK m \in S : \A n \in S : <<n, m>> \notin R
  BY <1>1, WFMin
<1>3. \A n \in S : ~(n < m)
  BY <1>2 DEF R
<1> QED
  BY <1>3

\* Induction over the subsets of a finite set: G holds all of them if it holds each whose
\* smaller ones, by one element, it holds.
LEMMA SubsetsByOne ==
  ASSUME NEW T, IsFiniteSet(T), NEW G,
         \A s \in SUBSET T : (\A x \in s : s \ {x} \in G) => s \in G
  PROVE  SUBSET T \subseteq G
<1> DEFINE B == {s \in SUBSET T : s \notin G}
           C == {Cardinality(s) : s \in B}
<1> SUFFICES ASSUME B # {} PROVE FALSE
  OBVIOUS
<1>1. \A s \in SUBSET T : IsFiniteSet(s) /\ Cardinality(s) \in Nat
  BY FS_Subset, FS_CardinalityType
<1>2. C \in SUBSET Nat /\ C # {}
  BY <1>1
<1> HIDE DEF C
<1>3. PICK c \in C : \A d \in C : c <= d
  BY <1>2, LeastNatural
<1>4. PICK s \in B : c = Cardinality(s)
  BY DEF C
<1>5. PICK x \in s : s \ {x} \notin G
  OBVIOUS
<1>6. s \ {x} \in B
  BY <1>5
<1>7. Cardinality(s \ {x}) \in C
  BY <1>6 DEF C
<1>8. Cardinality(s \ {x}) = Cardinality(s) - 1
  BY <1>1, <1>4, <1>5, FS_RemoveElement
<1>9. c <= c - 1 /\ c \in Nat
  BY <1>2, <1>3, <1>4, <1>7, <1>8
<1> QED
  BY <1>9

Choice(s) == CHOOSE x \in s : TRUE

\* g sums the words of each set of S, taking the elements as WordsOf does.
Sums(g, S) ==
  g = [s \in S |-> IF s = {} THEN 0 ELSE Choice(s).words + g[s \ {Choice(s)}]]

LEMMA WordsOfIsSum ==
  ASSUME NEW T
  PROVE  WordsOf(T) = (CHOOSE g : Sums(g, SUBSET T))[T]
<1>1. (CHOOSE g : Sums(g, SUBSET T)) =
        (CHOOSE g : g = [s \in SUBSET T |->
           IF s = {} THEN 0
           ELSE (CHOOSE x \in s : TRUE).words + g[s \ {CHOOSE x \in s : TRUE}]])
  BY DEF Sums, Choice
<1> QED
  BY <1>1, Zenon DEF WordsOf, MapThenSumSet, MapThenFoldSet

Numbered(T) == IsFiniteSet(T) /\ \A t \in T : t.words \in Nat

LEMMA SumsExist ==
  ASSUME NEW T, Numbered(T)
  PROVE  \E g \in [SUBSET T -> Nat] : Sums(g, SUBSET T)
<1> DEFINE Up(m) == {s \in SUBSET T : Cardinality(s) <= m}
           n == Cardinality(T)
           B == {m \in 0..n : ~\E g \in [Up(m) -> Nat] : Sums(g, Up(m))}
<1>1. \A s \in SUBSET T : IsFiniteSet(s) /\ Cardinality(s) \in Nat /\ Cardinality(s) <= n
  BY FS_Subset, FS_CardinalityType DEF Numbered
<1>2. n \in Nat
  BY FS_CardinalityType DEF Numbered
<1>3. \A s \in SUBSET T : Cardinality(s) = 0 <=> s = {}
  BY <1>1, FS_EmptySet
<1>4. \A s \in SUBSET T, x \in T : x \in s => Cardinality(s \ {x}) = Cardinality(s) - 1
  BY <1>1, FS_RemoveElement
<1>5. \A s \in SUBSET T : s # {} => Choice(s) \in s
  BY DEF Choice
<1> HIDE DEF n
<1>6. 0 \notin B
  <2> DEFINE g == [s \in Up(0) |-> 0]
  <2>1. Up(0) = {{}}
    BY <1>1, <1>3
  <2>2. g \in [Up(0) -> Nat] /\ Sums(g, Up(0))
    BY <2>1 DEF Sums
  <2> QED
    BY <2>2
<1>7. ASSUME NEW m \in 1..n, m - 1 \notin B PROVE m \notin B
  <2>1. m \in Nat /\ m - 1 \in 0..n
    BY <1>2
  <2>2. PICK g \in [Up(m - 1) -> Nat] : Sums(g, Up(m - 1))
    BY <1>7, <2>1
  <2> DEFINE h == [s \in Up(m) |-> IF Cardinality(s) = m
                                   THEN Choice(s).words + g[s \ {Choice(s)}] ELSE g[s]]
  <2>3. ASSUME NEW s \in Up(m), s # {}
        PROVE  Choice(s) \in T /\ s \ {Choice(s)} \in Up(m - 1) /\ s \ {Choice(s)} \in Up(m)
               /\ Cardinality(s \ {Choice(s)}) # m /\ Choice(s).words \in Nat
    <3>1. Choice(s) \in T /\ Choice(s) \in s
      BY <1>5, <2>3
    <3>2. Cardinality(s \ {Choice(s)}) = Cardinality(s) - 1 /\ Cardinality(s) \in Nat
      BY <1>1, <1>4, <3>1
    <3> QED
      BY <2>1, <3>1, <3>2 DEF Numbered
  <2>4. \A s \in Up(m) : Cardinality(s) # m => s \in Up(m - 1)
    BY <1>1, <2>1
  <2>5. \A s \in Up(m) : Cardinality(s) = m => s # {}
    BY <1>3
  <2> HIDE DEF Up
  <2>6. h \in [Up(m) -> Nat]
    <3>1. ASSUME NEW s \in Up(m) PROVE h[s] \in Nat
      <4>1. CASE Cardinality(s) = m
        <5>1. Choice(s).words \in Nat /\ g[s \ {Choice(s)}] \in Nat
          BY <2>2, <2>3, <2>5, <4>1
        <5>2. h[s] = Choice(s).words + g[s \ {Choice(s)}]
          BY <4>1
        <5> QED
          BY <5>1, <5>2
      <4>2. CASE Cardinality(s) # m
        BY <2>2, <2>4, <4>2
      <4> QED
        BY <4>1, <4>2
    <3> QED
      BY <3>1
  <2>7. ASSUME NEW s \in Up(m)
        PROVE  h[s] = IF s = {} THEN 0 ELSE Choice(s).words + h[s \ {Choice(s)}]
    <3>1. CASE Cardinality(s) = m
      <4>1. h[s \ {Choice(s)}] = g[s \ {Choice(s)}]
        BY <2>3, <2>5, <3>1
      <4> QED
        BY <2>5, <3>1, <4>1
    <3>2. CASE Cardinality(s) # m
      <4>1. s \in Up(m - 1) /\ h[s] = g[s]
        BY <2>4, <3>2
      <4>2. g[s] = IF s = {} THEN 0 ELSE Choice(s).words + g[s \ {Choice(s)}]
        BY <2>2, <4>1 DEF Sums
      <4>3. s # {} => h[s \ {Choice(s)}] = g[s \ {Choice(s)}]
        BY <2>3
      <4> HIDE DEF h
      <4> QED
        BY <4>1, <4>2, <4>3
    <3> QED
      BY ONLY <3>1, <3>2
  <2>8. Sums(h, Up(m))
    <3>1. h = [s \in Up(m) |-> h[s]]
      BY <2>6
    <3> HIDE DEF h
    <3> QED
      BY <2>7, <3>1 DEF Sums
  <2> HIDE DEF h
  <2> QED
    BY <2>6, <2>8
<1>8. B = {}
  <2> SUFFICES ASSUME B # {} PROVE FALSE
    OBVIOUS
  <2>1. B \in SUBSET Nat
    BY <1>2
  <2> HIDE DEF B
  <2>2. PICK m \in B : \A k \in B : m <= k
    BY <2>1, LeastNatural
  <2>3. m \in 0..n
    BY <2>2 DEF B
  <2>4. m \in 1..n
    BY <1>6, <2>2, <2>3
  <2>5. m - 1 \in B
    BY <1>7, <2>2, <2>4
  <2> QED
    BY <2>2, <2>3, <2>5
<1>9. Up(n) = SUBSET T
  BY <1>1
<1>10. n \in 0..n
  BY <1>2
<1> QED
  BY <1>8, <1>9, <1>10

LEMMA SumsAgree ==
  ASSUME NEW T, Numbered(T), NEW U, T \subseteq U, NEW g, NEW h, Sums(g, SUBSET T), Sums(h, SUBSET U)
  PROVE  \A s \in SUBSET T : g[s] = h[s]
<1> DEFINE G == {s \in SUBSET T : g[s] = h[s]}
<1>1. ASSUME NEW s \in SUBSET T, \A x \in s : s \ {x} \in G PROVE s \in G
  <2>1. g[s] = IF s = {} THEN 0 ELSE Choice(s).words + g[s \ {Choice(s)}]
    BY DEF Sums
  <2>2. h[s] = IF s = {} THEN 0 ELSE Choice(s).words + h[s \ {Choice(s)}]
    BY DEF Sums
  <2>3. s # {} => Choice(s) \in s
    BY DEF Choice
  <2> QED
    BY <1>1, <2>1, <2>2, <2>3
<1>2. IsFiniteSet(T)
  BY DEF Numbered
<1> HIDE DEF G
<1>3. SUBSET T \subseteq G
  BY <1>1, <1>2, SubsetsByOne
<1> QED
  BY <1>3 DEF G

\* The words of a set, and of the set without the element that is taken first.
LEMMA WordsTaken ==
  ASSUME NEW T, Numbered(T)
  PROVE  /\ WordsOf(T) \in Nat
         /\ T = {} => WordsOf(T) = 0
         /\ T # {} => /\ Choice(T) \in T
                      /\ WordsOf(T) = Choice(T).words + WordsOf(T \ {Choice(T)})
<1> DEFINE g(U) == CHOOSE h : Sums(h, SUBSET U)
<1>1. ASSUME NEW U, Numbered(U) PROVE Sums(g(U), SUBSET U) /\ WordsOf(U) = g(U)[U] /\ WordsOf(U) \in Nat
  <2>1. PICK h \in [SUBSET U -> Nat] : Sums(h, SUBSET U)
    BY <1>1, SumsExist
  <2>2. Sums(g(U), SUBSET U)
    BY <2>1
  <2> HIDE DEF g
  <2>3. g(U)[U] = h[U]
    BY <1>1, <2>1, <2>2, SumsAgree
  <2>4. WordsOf(U) = g(U)[U]
    BY WordsOfIsSum DEF g
  <2> QED
    BY <2>1, <2>2, <2>3, <2>4
<1> DEFINE U == T \ {Choice(T)}
<1>2. Numbered(U)
  BY FS_Subset DEF Numbered
<1>3. Sums(g(T), SUBSET T) /\ WordsOf(T) = g(T)[T] /\ WordsOf(T) \in Nat
  BY <1>1
<1>4. Sums(g(U), SUBSET U) /\ WordsOf(U) = g(U)[U]
  BY <1>1, <1>2
<1> HIDE DEF g
<1>5. g(T)[T] = IF T = {} THEN 0 ELSE Choice(T).words + g(T)[U]
  BY <1>3 DEF Sums
<1>6. g(U)[U] = g(T)[U]
  <2>1. U \subseteq T /\ U \in SUBSET U
    OBVIOUS
  <2> HIDE DEF U
  <2> QED
    BY <1>2, <1>3, <1>4, <2>1, SumsAgree
<1> QED
  BY <1>3, <1>4, <1>5, <1>6 DEF Choice

LEMMA WordsOfRest ==
  ASSUME NEW T, Numbered(T)
  PROVE  \A x \in T : WordsOf(T) = x.words + WordsOf(T \ {x})
<1> DEFINE G == {s \in SUBSET T : \A x \in s : WordsOf(s) = x.words + WordsOf(s \ {x})}
<1>1. \A s \in SUBSET T : Numbered(s)
  BY FS_Subset DEF Numbered
<1>2. ASSUME NEW s \in SUBSET T, \A x \in s : s \ {x} \in G PROVE s \in G
  <2> SUFFICES ASSUME NEW x \in s PROVE WordsOf(s) = x.words + WordsOf(s \ {x})
    OBVIOUS
  <2> DEFINE c == Choice(s)
             r == (s \ {x}) \ {c}
  <2>1. c \in s /\ WordsOf(s) = c.words + WordsOf(s \ {c})
    BY <1>1, WordsTaken
  <2>2. CASE x = c
    BY <2>1, <2>2
  <2>3. CASE x # c
    <3>1. (s \ {c}) \ {x} = r /\ x \in s \ {c} /\ c \in s \ {x}
      BY <2>1, <2>3
    <3>2. WordsOf(s \ {c}) = x.words + WordsOf(r)
      BY <1>2, <2>1, <3>1
    <3>3. WordsOf(s \ {x}) = c.words + WordsOf(r)
      BY <1>2, <3>1
    <3>4. WordsOf(r) \in Nat /\ c.words \in Nat /\ x.words \in Nat
      BY <1>1, <2>1, WordsTaken DEF Numbered
    <3> HIDE DEF c, r
    <3> QED
      BY <2>1, <3>2, <3>3, <3>4
  <2> QED
    BY <2>2, <2>3
<1>3. IsFiniteSet(T)
  BY DEF Numbered
<1> HIDE DEF G
<1>4. SUBSET T \subseteq G
  BY <1>2, <1>3, SubsetsByOne
<1>5. T \in G
  BY <1>4
<1> QED
  BY <1>5 DEF G

LEMMA WordsOfParts ==
  ASSUME NEW T, Numbered(T), NEW S \in SUBSET T
  PROVE  /\ WordsOf(T) = WordsOf(S) + WordsOf(T \ S)
         /\ WordsOf(T) \in Nat /\ WordsOf(S) \in Nat /\ WordsOf(T \ S) \in Nat
<1> DEFINE G == {s \in SUBSET T : WordsOf(T) = WordsOf(s) + WordsOf(T \ s)}
<1>1. \A s \in SUBSET T : Numbered(s)
  BY FS_Subset DEF Numbered
<1>2. \A s \in SUBSET T : WordsOf(s) \in Nat
  BY <1>1, WordsTaken
<1>3. ASSUME NEW s \in SUBSET T, \A x \in s : s \ {x} \in G PROVE s \in G
  <2>1. CASE s = {}
    <3>1. WordsOf(s) = 0 /\ T \ s = T /\ WordsOf(T) \in Nat
      BY <1>1, <1>2, <2>1, WordsTaken
    <3>2. WordsOf(T) = WordsOf(s) + WordsOf(T \ s)
      BY <3>1
    <3> QED
      BY <3>2
  <2>2. CASE s # {}
    <3>1. PICK x \in s : TRUE
      BY <2>2
    <3> DEFINE a == s \ {x}
               b == T \ a
    <3>2. WordsOf(T) = WordsOf(a) + WordsOf(b)
      BY <1>3
    <3>3. b \ {x} = T \ s /\ x \in b /\ b \in SUBSET T /\ a \in SUBSET T
      OBVIOUS
    <3>4. WordsOf(s) = x.words + WordsOf(a)
      BY <1>1, WordsOfRest
    <3>5. WordsOf(b) = x.words + WordsOf(T \ s)
      BY <1>1, <3>3, WordsOfRest
    <3>6. x.words \in Nat /\ WordsOf(a) \in Nat /\ WordsOf(T \ s) \in Nat
      BY <1>2, <3>3 DEF Numbered
    <3> HIDE DEF a, b
    <3> QED
      BY <3>2, <3>4, <3>5, <3>6
  <2> QED
    BY <2>1, <2>2
<1>4. IsFiniteSet(T)
  BY DEF Numbered
<1> HIDE DEF G
<1>5. SUBSET T \subseteq G
  BY <1>3, <1>4, SubsetsByOne
<1>6. S \in G
  BY <1>5
<1> QED
  BY <1>2, <1>6 DEF G
-----------------------------------------------------------------------------
(* The index follows the table *)

\* The ids of the turns are those that were given out, each once.
TableSound(d) ==
  /\ IsFiniteSet(d.turns) /\ d.lastId \in Nat
  /\ \A t \in d.turns : t.id \in 1 .. d.lastId /\ t.words \in Nat
  /\ \A t, u \in d.turns : t.id = u.id => t = u

IndexSound(d) ==
  /\ {t.id : t \in d.turns} \subseteq d.indexed
  /\ d.rows = Cardinality(d.turns) /\ d.total = WordsOf(d.turns)

\* The triggers that keep the index are there.
Kept(d) == {"turns_fts_insert", "turns_fts_delete"} \subseteq d.triggers

\* A start that nothing disturbs is alone and goes through, so an index without its
\* triggers is one that is being made, and nobody has written a turn yet.
MakingInv ==
  /\ InTransaction = {} /\ Starting \cap beside = {}
  /\ (\E p \in Processes : pc[p] = "serving") => Kept(db)
  /\ db.fts => Kept(db) \/ \E p \in Processes : pc[p] \in {"create_insert", "create_delete"}
  /\ \A p \in Processes : pc[p] = "create_delete" => "turns_fts_insert" \in db.triggers
  /\ \A p \in Processes : pc[p] = "create_update" => Kept(db)

CleanInv == ~disturbed /\ Old = 0 => MakingInv /\ TableSound(db) /\ IndexSound(db)

LEMMA InitClean == Init => CleanInv
<1> SUFFICES ASSUME Init, Old = 0 PROVE MakingInv /\ TableSound(db) /\ IndexSound(db)
  BY DEF CleanInv
<1>1. InTransaction = {} /\ Starting = {} /\ ~db.fts
  BY DEF Init, OldDatabase, InTransaction, Starting, Statements
<1>2. \A p \in Processes : pc[p] = "down"
  BY DEF Init
<1>3. db.turns = {} /\ db.lastId = 0 /\ db.rows = 0 /\ db.total = 0
  BY DEF Init, OldDatabase
<1>4. IsFiniteSet({}) /\ Cardinality({}) = 0 /\ Numbered({})
  BY FS_EmptySet DEF Numbered
<1>5. WordsOf({}) = 0
  BY <1>4, WordsTaken
<1>6. MakingInv
  BY <1>1, <1>2 DEF MakingInv
<1>7. TableSound(db) /\ IndexSound(db)
  BY <1>3, <1>4, <1>5 DEF TableSound, IndexSound
<1> QED
  BY <1>6, <1>7

\* A step that leaves the turns and the index alone.
LEMMA UntouchedSound ==
  ASSUME NEW d, NEW e, TableSound(d), IndexSound(d),
         e.turns = d.turns, e.lastId = d.lastId, e.indexed = d.indexed, e.rows = d.rows,
         e.total = d.total
  PROVE  TableSound(e) /\ IndexSound(e)
  BY DEF TableSound, IndexSound

LEMMA InsertedSound ==
  ASSUME NEW d, IsDatabase(d), TableSound(d), IndexSound(d), Kept(d),
         NEW user \in Nat, NEW assistant \in Nat
  PROVE  TableSound(Inserted(d, user, assistant)) /\ IndexSound(Inserted(d, user, assistant))
<1> DEFINE e == Inserted(d, user, assistant)
           n == d.lastId
           a == [id |-> n + 1, words |-> user]
           b == [id |-> n + 2, words |-> assistant]
           T == d.turns
           U == T \cup {a}
           V == U \cup {b}
<1>1. /\ e.turns = V /\ e.lastId = n + 2 /\ e.indexed = d.indexed \cup {n + 1, n + 2}
      /\ e.rows = d.rows + 2 /\ e.total = d.total + user + assistant
  <2>1. T \cup {a, b} = V /\ {t.id : t \in {a, b}} = {n + 1, n + 2}
    OBVIOUS
  <2> HIDE DEF a, b, U, V, T, n
  <2>2. d = [columns |-> d.columns, fts |-> d.fts, triggers |-> d.triggers, turns |-> T,
             lastId |-> n, indexed |-> d.indexed, rows |-> d.rows, total |-> d.total]
    BY DEF IsDatabase, T, n
  <2>3. Inserted(d, user, assistant) =
          [columns |-> d.columns, fts |-> d.fts, triggers |-> d.triggers, turns |-> V,
           lastId |-> n + 2, indexed |-> d.indexed \cup {n + 1, n + 2},
           rows |-> d.rows + 2, total |-> d.total + user + assistant]
    BY <2>1, <2>2 DEF Inserted, Kept, a, b, T, n
  <2> QED
    BY <2>3
<1>2. n \in Nat /\ IsFiniteSet(T) /\ Numbered(T)
  BY DEF TableSound, Numbered
<1>3. a \notin T /\ b \notin U
  <2>1. \A t \in T : t.id <= n
    BY <1>2 DEF TableSound
  <2>2. a.id = n + 1 /\ b.id = n + 2
    OBVIOUS
  <2> HIDE DEF a, b, T, n
  <2> QED
    BY <1>2, <2>1, <2>2
<1>4. a.words = user /\ b.words = assistant /\ a.id = n + 1 /\ b.id = n + 2
  OBVIOUS
<1> HIDE DEF a, b, e, n, T
<1>5. /\ IsFiniteSet(U) /\ Cardinality(U) = Cardinality(T) + 1
      /\ IsFiniteSet(V) /\ Cardinality(V) = Cardinality(U) + 1
  BY <1>2, <1>3, FS_AddElement
<1>6. Numbered(U) /\ Numbered(V)
  BY <1>2, <1>4, <1>5 DEF Numbered
<1>7. U \ {a} = T /\ V \ {b} = U
  BY <1>3
<1> HIDE DEF V
<1>8. WordsOf(V) = assistant + WordsOf(U)
  BY <1>4, <1>6, <1>7, WordsOfRest DEF V
<1> HIDE DEF U
<1>9. WordsOf(U) = user + WordsOf(T)
  BY <1>4, <1>6, <1>7, WordsOfRest DEF U
<1>10. WordsOf(T) \in Nat /\ Cardinality(T) \in Nat
  BY <1>2, WordsTaken, FS_CardinalityType
<1>11. IndexSound(e)
  <2>1. {t.id : t \in V} \subseteq d.indexed \cup {n + 1, n + 2}
    BY <1>4 DEF IndexSound, T, U, V
  <2>2. d.rows = Cardinality(T) /\ d.total = WordsOf(T)
    BY DEF IndexSound, T
  <2>3. e.rows = Cardinality(V)
    BY <1>1, <1>5, <1>10, <2>2
  <2>4. e.total = WordsOf(V)
    BY <1>1, <1>8, <1>9, <1>10, <2>2
  <2> QED
    BY <1>1, <2>1, <2>3, <2>4 DEF IndexSound
<1>12. TableSound(e)
  <2>1. \A t \in T : t.id \in 1..n /\ t.words \in Nat
    BY DEF TableSound, T, n
  <2>2. \A t \in V : t \in T \/ t = a \/ t = b
    BY DEF U, V
  <2>3. \A t \in V : t.id \in 1..(n + 2) /\ t.words \in Nat
    BY <1>2, <1>4, <2>1, <2>2
  <2>4. ASSUME NEW t \in V, NEW u \in V, t.id = u.id PROVE t = u
    <3>1. t \in T /\ u \in T => t = u
      BY <2>4 DEF TableSound, T
    <3>2. \A x \in T : x.id # n + 1 /\ x.id # n + 2
      BY <1>2, <2>1
    <3>3. n + 1 # n + 2
      BY <1>2
    <3> QED
      BY <1>4, <2>2, <2>4, <3>1, <3>2, <3>3
  <2>5. n + 2 \in Nat
    BY <1>2
  <2> QED
    BY <1>1, <1>5, <2>3, <2>4, <2>5 DEF TableSound
<1> QED
  BY <1>11, <1>12 DEF e

\* The index has what a trim takes out, and what is left follows the table.
LEMMA TrimmedSound ==
  ASSUME NEW d, IsDatabase(d), TableSound(d), IndexSound(d), Kept(d)
  PROVE  ~TrimRefused(d) /\ TableSound(AfterTrim(d)) /\ IndexSound(AfterTrim(d))
<1> DEFINE T == d.turns
           S == Trimmed(d)
           R == T \ S
           e == AfterTrim(d)
<1>1. S \in SUBSET T
  BY DEF Trimmed
<1>2. Numbered(T) /\ IsFiniteSet(T) /\ IsFiniteSet(S) /\ IsFiniteSet(R)
  BY <1>1, FS_Subset DEF TableSound, Numbered
<1>3. d.rows = Cardinality(T) /\ d.total = WordsOf(T)
  BY DEF IndexSound
<1>4. /\ e.turns = R /\ e.lastId = d.lastId /\ e.indexed = d.indexed \ {t.id : t \in S}
      /\ e.rows = d.rows - Cardinality(S) /\ e.total = d.total - WordsOf(S)
  <2> HIDE DEF S
  <2>1. d = [columns |-> d.columns, fts |-> d.fts, triggers |-> d.triggers, turns |-> d.turns,
             lastId |-> d.lastId, indexed |-> d.indexed, rows |-> d.rows, total |-> d.total]
    BY DEF IsDatabase
  <2>2. AfterTrim(d) =
          [columns |-> d.columns, fts |-> d.fts, triggers |-> d.triggers, turns |-> R,
           lastId |-> d.lastId, indexed |-> d.indexed \ {t.id : t \in S},
           rows |-> d.rows - Cardinality(S), total |-> d.total - WordsOf(S)]
    BY <2>1 DEF AfterTrim, Kept, S
  <2> QED
    BY <2>2
<1> HIDE DEF S, e
<1>5. /\ Cardinality(S) \in Nat /\ Cardinality(T) \in Nat
      /\ Cardinality(R) = Cardinality(T) - Cardinality(S) /\ Cardinality(S) <= Cardinality(T)
  <2>1. T \cap S = S
    BY <1>1
  <2>2. Cardinality(R) = Cardinality(T) - Cardinality(T \cap S)
    BY <1>2, FS_Difference
  <2> HIDE DEF R
  <2> QED
    BY <1>1, <1>2, <2>1, <2>2, FS_CardinalityType, FS_Subset
<1> HIDE DEF T
<1>6. /\ WordsOf(T) = WordsOf(S) + WordsOf(R)
      /\ WordsOf(T) \in Nat /\ WordsOf(S) \in Nat /\ WordsOf(R) \in Nat
  BY <1>1, <1>2, WordsOfParts
<1> HIDE DEF R
<1>7. ~TrimRefused(d)
  BY <1>3, <1>5, <1>6 DEF TrimRefused, S
<1>8. TableSound(e)
  <2>1. R \subseteq T
    BY DEF R
  <2> QED
    BY <1>2, <1>4, <2>1 DEF TableSound, T
<1>9. IndexSound(e)
  <2>1. ASSUME NEW t \in R PROVE t.id \in d.indexed \ {u.id : u \in S}
    <3>1. t \in T /\ t \notin S
      BY <2>1 DEF R
    <3>2. t.id \in d.indexed
      BY <3>1 DEF IndexSound, T
    <3>3. \A u \in S : u.id # t.id
      BY <1>1, <3>1 DEF TableSound, T
    <3> QED
      BY <3>2, <3>3
  <2>2. e.rows = Cardinality(R) /\ e.total = WordsOf(R)
    BY <1>3, <1>4, <1>5, <1>6
  <2> QED
    BY <1>4, <2>1, <2>2 DEF IndexSound
<1> QED
  BY <1>7, <1>8, <1>9 DEF e

\* A step of the only start there is, which adds to the schema and lets the turns be.
LEMMA MakingStep ==
  ASSUME FieldsInv, MakingInv, TableSound(db), IndexSound(db), NEW p \in Processes, Starting = {p},
         NEW l, pc' = [pc EXCEPT ![p] = l], UNCHANGED <<open, beside>>,
         UNCHANGED <<db.turns, db.lastId, db.indexed, db.rows, db.total>>,
         db.triggers \subseteq db'.triggers,
         l \in {"serving", "create_update"} => Kept(db'),
         l = "create_delete" => "turns_fts_insert" \in db'.triggers,
         db'.fts => Kept(db') \/ l \in {"create_insert", "create_delete"}
  PROVE  MakingInv' /\ TableSound(db') /\ IndexSound(db')
<1>1. TableSound(db') /\ IndexSound(db')
  BY UntouchedSound
<1>2. DOMAIN pc = Processes /\ pc'[p] = l /\ \A q \in Processes \ {p} : pc'[q] = pc[q] /\ pc[q] \notin Statements
  BY DEF FieldsInv, Starting
<1>3. Starting' \subseteq {p} /\ InTransaction' = InTransaction
  BY <1>2 DEF Starting, InTransaction
<1>4. \A q \in Processes \ {p} : pc'[q] = "serving" => Kept(db')
  BY <1>2 DEF MakingInv, Kept
<1>5. \A q \in Processes \ {p} : pc'[q] \notin {"create_delete", "create_update"}
  BY <1>2 DEF Statements
<1> QED
  BY <1>1, <1>2, <1>3, <1>4, <1>5 DEF MakingInv, Kept

\* The start nobody is beside is not refused what it makes.
LEMMA MigrateClean ==
  ASSUME SafeInv, CleanInv, NEW p \in Processes, Migrate(p)
  PROVE  CleanInv'
<1>0. UNCHANGED disturbed
  BY DEF Migrate, ReadColumns, AddColumn, ReadTables, CreateIndex, CreateTrigger, Skip, Define
<1> SUFFICES ASSUME MakingInv, TableSound(db), IndexSound(db)
             PROVE  MakingInv' /\ TableSound(db') /\ IndexSound(db')
  BY <1>0 DEF CleanInv
<1> USE DEF SafeInv
<1>1. p \in Starting
  BY DEF Migrate, ReadColumns, AddColumn, ReadTables, CreateIndex, CreateTrigger, Starting, Statements
<1>2. p \notin beside /\ Starting = {p} /\ InTransaction = {} /\ Unmade(p)
  BY <1>1 DEF MakingInv, AloneInv
<1>3. pc[p] \notin {"create_insert", "create_delete"} => (db.fts => Kept(db))
  BY <1>2 DEF MakingInv, Starting, Statements
<1>4. ASSUME NEW l, pc[p] \notin {"create_insert", "create_delete"},
             Skip(p, l) \/ (ReadColumns(p) /\ l = "add_input"),
             l \in {"add_input", "add_output", "read_tables", "create_fts"} \/ (l = "serving" /\ db.fts)
      PROVE  MakingInv' /\ TableSound(db') /\ IndexSound(db')
  <2>1. pc' = [pc EXCEPT ![p] = l] /\ UNCHANGED <<db, open, beside>>
    BY <1>4 DEF Skip, ReadColumns, Goto
  <2>2. l \in {"serving", "create_update"} => Kept(db')
    BY <1>3, <1>4, <2>1 DEF Kept
  <2>3. db'.fts => Kept(db')
    BY <1>3, <1>4, <2>1 DEF Kept
  <2>4. l # "create_delete" /\ db'.triggers = db.triggers
    BY <1>4, <2>1
  <2>5. UNCHANGED <<db.turns, db.lastId, db.indexed, db.rows, db.total>>
    BY <2>1
  <2> QED
    BY <1>2, <2>1, <2>2, <2>3, <2>4, <2>5, MakingStep
<1>5. ASSUME NEW changed, NEW exists, NEW l, Define(p, exists, changed, l), ~exists,
             changed.turns = db.turns, changed.lastId = db.lastId, changed.indexed = db.indexed,
             changed.rows = db.rows, changed.total = db.total,
             db.triggers \subseteq changed.triggers,
             l \in {"serving", "create_update"} => Kept(changed),
             l = "create_delete" => "turns_fts_insert" \in changed.triggers,
             changed.fts => Kept(changed) \/ l \in {"create_insert", "create_delete"}
      PROVE  MakingInv' /\ TableSound(db') /\ IndexSound(db')
  <2>1. pc' = [pc EXCEPT ![p] = l] /\ db' = changed /\ UNCHANGED <<open, beside>>
    BY <1>2, <1>5 DEF Define, Goto
  <2>2. UNCHANGED <<db.turns, db.lastId, db.indexed, db.rows, db.total>>
    BY <1>5, <2>1
  <2> QED
    BY <1>2, <1>5, <2>1, <2>2, MakingStep
<1>6. ASSUME NEW l, NEW column, NEW next, AddColumn(p, l, column, next),
             \/ l = "add_input" /\ column = "input_tokens" /\ next = "add_output"
             \/ l = "add_output" /\ column = "output_tokens" /\ next = "read_tables"
      PROVE  MakingInv' /\ TableSound(db') /\ IndexSound(db')
  <2>1. pc[p] = l
    BY <1>6 DEF AddColumn
  <2>2. CASE column \in seen[p]
    BY <1>4, <1>6, <2>1, <2>2 DEF AddColumn
  <2>3. CASE column \notin seen[p]
    <3> DEFINE changed == [db EXCEPT !.columns = @ \cup {column}]
               exists == column \in db.columns
    <3>1. Define(p, exists, changed, next)
      BY <1>6, <2>3 DEF AddColumn
    <3>2. ~exists
      BY <1>2, <1>6, <2>1, <2>3 DEF Unmade
    <3>3. /\ changed.turns = db.turns /\ changed.lastId = db.lastId /\ changed.indexed = db.indexed
          /\ changed.rows = db.rows /\ changed.total = db.total
          /\ changed.triggers = db.triggers /\ changed.fts = db.fts
      BY DEF FieldsInv, IsDatabase
    <3> HIDE DEF changed, exists
    <3>4. changed.fts => Kept(changed)
      BY <1>3, <1>6, <2>1, <3>3 DEF Kept
    <3>5. next \notin {"serving", "create_update", "create_delete"}
      BY <1>6
    <3>6. db.triggers \subseteq changed.triggers
      BY <3>3
    <3> QED
      BY <1>5, <3>1, <3>2, <3>3, <3>4, <3>5, <3>6
  <2> QED
    BY <2>2, <2>3
<1>7. CASE CreateIndex(p)
  <2> DEFINE changed == [db EXCEPT !.fts = TRUE]
  <2>1. Define(p, db.fts, changed, "create_insert") /\ ~db.fts
    BY <1>2, <1>7 DEF CreateIndex, Unmade
  <2>2. /\ changed.turns = db.turns /\ changed.lastId = db.lastId /\ changed.indexed = db.indexed
        /\ changed.rows = db.rows /\ changed.total = db.total
        /\ changed.triggers = db.triggers
    BY DEF FieldsInv, IsDatabase
  <2> HIDE DEF changed
  <2> QED
    BY <1>5, <2>1, <2>2
<1>8. ASSUME NEW l, NEW trigger, NEW next, CreateTrigger(p, l, trigger, next),
             \/ l = "create_insert" /\ trigger = "turns_fts_insert" /\ next = "create_delete"
             \/ l = "create_delete" /\ trigger = "turns_fts_delete" /\ next = "create_update"
             \/ l = "create_update" /\ trigger = "turns_fts_update" /\ next = "serving"
      PROVE  MakingInv' /\ TableSound(db') /\ IndexSound(db')
  <2> DEFINE changed == [db EXCEPT !.triggers = @ \cup {trigger}]
             exists == trigger \in db.triggers
  <2>1. Define(p, exists, changed, next) /\ pc[p] = l
    BY <1>8 DEF CreateTrigger
  <2>2. /\ changed.turns = db.turns /\ changed.lastId = db.lastId /\ changed.indexed = db.indexed
        /\ changed.rows = db.rows /\ changed.total = db.total
        /\ changed.triggers = db.triggers \cup {trigger}
    BY DEF FieldsInv, IsDatabase
  <2>3. ~exists
    BY <1>2, <1>8, <2>1 DEF Unmade
  <2>4. (l = "create_delete" => "turns_fts_insert" \in db.triggers) /\ (l = "create_update" => Kept(db))
    BY <2>1 DEF MakingInv
  <2> HIDE DEF changed, exists
  <2>5. (next \in {"serving", "create_update"} => Kept(changed))
        /\ (next = "create_delete" => "turns_fts_insert" \in changed.triggers)
    BY <1>8, <2>2, <2>4 DEF Kept
  <2>6. changed.fts => Kept(changed) \/ next \in {"create_insert", "create_delete"}
    BY <1>8, <2>5
  <2>7. db.triggers \subseteq changed.triggers
    BY <2>2
  <2> QED
    BY <1>5, <2>1, <2>2, <2>3, <2>5, <2>6, <2>7
<1>9. CASE ReadColumns(p)
  BY <1>4, <1>9 DEF ReadColumns
<1>10. CASE ReadTables(p)
  BY <1>4, <1>10 DEF ReadTables
<1> QED
  BY <1>6, <1>7, <1>8, <1>9, <1>10 DEF Migrate

\* A process that serves has its triggers, so its trims are not refused.
LEMMA ExchangeClean ==
  ASSUME SafeInv, CleanInv, NEW p \in Processes, Exchange(p)
  PROVE  CleanInv'
<1>1. UNCHANGED <<pc, disturbed>> /\ pc[p] = "serving"
  BY DEF Exchange
<1> SUFFICES ASSUME MakingInv, TableSound(db), IndexSound(db)
             PROVE  MakingInv' /\ TableSound(db') /\ IndexSound(db')
  BY <1>1 DEF CleanInv
<1> USE DEF SafeInv
<1>2. View(p) = db /\ Kept(db) /\ IsDatabase(db)
  BY <1>1 DEF View, MakingInv, InTransaction, FieldsInv
<1>3. PICK user \in Words, assistant \in Words :
        LET d == Inserted(db, user, assistant)
        IN  IF TrimRefused(d)
            THEN db' = db /\ open' = [open EXCEPT ![p] = d] /\ beside' = beside \cup Starting
            ELSE db' = AfterTrim(d) /\ open' = [open EXCEPT ![p] = NoTransaction] /\ UNCHANGED beside
  BY <1>2 DEF Exchange
<1> DEFINE d == Inserted(db, user, assistant)
<1>4. user \in Nat /\ assistant \in Nat
  BY SchemaAssumption
<1>5. TableSound(d) /\ IndexSound(d)
  BY <1>2, <1>4, InsertedSound
<1>6. IsDatabase(d) /\ SchemaOf(d) = SchemaOf(db)
  BY <1>2, AppendKeepsSchema
<1> HIDE DEF d
<1>7. Kept(d)
  BY <1>2, <1>6 DEF Kept, SchemaOf
<1>8. ~TrimRefused(d) /\ TableSound(AfterTrim(d)) /\ IndexSound(AfterTrim(d))
  BY <1>5, <1>6, <1>7, TrimmedSound
<1>9. SchemaOf(AfterTrim(d)) = SchemaOf(db)
  BY <1>6, AppendKeepsSchema
<1>10. db' = AfterTrim(d) /\ open' = [open EXCEPT ![p] = NoTransaction] /\ UNCHANGED beside
  BY <1>3, <1>8 DEF d
<1>11. db'.triggers = db.triggers /\ db'.fts = db.fts
  BY <1>9, <1>10 DEF SchemaOf
<1>12. InTransaction' = {} /\ Starting' = Starting
  BY <1>1, <1>10 DEF InTransaction, Starting, MakingInv
<1>13. MakingInv'
  BY <1>1, <1>10, <1>11, <1>12 DEF MakingInv, Kept
<1> QED
  BY <1>8, <1>10, <1>13

LEMMA StartClean ==
  ASSUME SafeInv, CleanInv, NEW p \in Processes, Start(p)
  PROVE  CleanInv'
<1>1. /\ pc' = [pc EXCEPT ![p] = "read_columns"] /\ UNCHANGED <<db, open>>
      /\ disturbed' = (disturbed \/ Starting # {}) /\ pc[p] \in {"down", "failed"}
      /\ beside' = IF Starting \cup InTransaction = {} THEN beside \ {p}
                   ELSE beside \cup Starting \cup {p}
  BY DEF Start, Goto
<1> SUFFICES ASSUME MakingInv, TableSound(db), IndexSound(db), Starting = {}
             PROVE  MakingInv' /\ TableSound(db') /\ IndexSound(db')
  BY <1>1 DEF CleanInv
<1>2. beside' = beside \ {p} /\ InTransaction' = {}
  BY <1>1 DEF MakingInv, InTransaction
<1>3. Starting' = {p} /\ \A q \in Processes : pc'[q] = "read_columns" \/ pc'[q] = pc[q]
  BY <1>1 DEF Starting, Statements, SafeInv, FieldsInv
<1>4. \A q \in Processes : pc[q] \notin {"create_insert", "create_delete"}
  BY DEF Starting, Statements
<1>5. MakingInv'
  BY <1>1, <1>2, <1>3, <1>4 DEF MakingInv, Kept
<1> QED
  BY <1>1, <1>5

LEMMA DieClean ==
  ASSUME SafeInv, CleanInv, NEW p \in Processes, Die(p)
  PROVE  CleanInv'
<1>1. /\ pc' = [pc EXCEPT ![p] = "down"] /\ open' = [open EXCEPT ![p] = NoTransaction]
      /\ UNCHANGED <<db, beside>> /\ disturbed' = (disturbed \/ p \in Starting)
  BY DEF Die, Goto
<1> SUFFICES ASSUME MakingInv, TableSound(db), IndexSound(db), p \notin Starting
             PROVE  MakingInv' /\ TableSound(db') /\ IndexSound(db')
  BY <1>1 DEF CleanInv
<1>2. InTransaction' = {}
  BY <1>1 DEF MakingInv, InTransaction
<1>3. DOMAIN pc = Processes
  BY DEF SafeInv, FieldsInv
<1>4. Starting' = Starting /\ pc[p] \notin Statements
  BY <1>1, <1>3 DEF Starting, Statements
<1>5. \A q \in Processes : pc'[q] = IF q = p THEN "down" ELSE pc[q]
  BY <1>1, <1>3
<1>6. \A q \in Processes : pc[q] \in {"create_insert", "create_delete"} => pc'[q] = pc[q]
  BY <1>4, <1>5 DEF Statements
<1>7. MakingInv'
  BY <1>1, <1>2, <1>4, <1>5, <1>6 DEF MakingInv, Kept
<1> QED
  BY <1>1, <1>7

LEMMA StepClean == SafeInv /\ CleanInv /\ [Next]_vars => CleanInv'
<1> SUFFICES ASSUME SafeInv, CleanInv, [Next]_vars PROVE CleanInv'
  OBVIOUS
<1>1. CASE UNCHANGED vars
  BY <1>1 DEF vars, CleanInv, MakingInv, Starting, InTransaction, Kept, TableSound, IndexSound
<1>2. CASE Next
  BY <1>1, <1>2, StartClean, MigrateClean, DieClean, ExchangeClean DEF Next, Quiescent
<1> QED
  BY <1>1, <1>2

\* On a file without older turns, whatever the processes, the history limit and the lengths
\* of the turns: as long as starts neither overlap nor are cut short, the index holds every
\* turn of the table, its own counts are right, and no append is refused
\* (memory_store.py 126-143, 295-314).
THEOREM IndexFollows == Spec => []IndexFollowsTable
<1>1. SafeInv /\ CleanInv => IndexFollowsTable
  BY DEF CleanInv, MakingInv, IndexSound, IndexFollowsTable, Found
<1> QED
  BY InitSafe, InitClean, StepSafe, StepClean, <1>1, PTL DEF Spec
=============================================================================
