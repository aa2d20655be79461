------------------------------ MODULE TodoFile ------------------------------
(***************************************************************************)
(* The todo list of the agent (todo/service.py, repository.py, codec.py),  *)
(* which the tools todo_write and todo_read keep in todo.md of the working *)
(* directory.  A list is saved by writing todo.md.tmp and renaming it.     *)
(*                                                                         *)
(* The file system is what the saving uses of it: two names, the files     *)
(* they lead to, and open descriptors that stay with their file when its   *)
(* name moves.  A file's text is the sequence of items it holds.           *)
(***************************************************************************)
EXTENDS Integers, Sequences, FiniteSets, SequencesExt

CONSTANTS
  Writers,   \* processes whose agents share a working directory
  Lists,     \* the lists a model may give todo_write
  MaxWrites  \* bound: calls of todo_write that come to renaming

Statuses == {"pending", "in_progress", "completed"}

\* line: content and active form have no line break.
Item == [status : Statuses, line : BOOLEAN]

ASSUME TodoAssumption ==
  /\ IsFiniteSet(Writers)
  /\ Lists \subseteq Seq(Item)
  /\ MaxWrites \in Nat

VARIABLES
  text,   \* text[f]: the items in file f
  named,  \* named["todo.md"], named["todo.md.tmp"]: the file of that name, or NoFile
  pc,     \* pc[w]: the next step of the writer's call
  list,   \* list[w]: what the call persists
  fd,     \* fd[w]: the file it has open
  told,   \* told[w]: what its last call answered
  saved,  \* history: the lists of the calls that came to renaming
  raced   \* history: a call opened its file while another call had one open

vars == <<text, named, pc, list, fd, told, saved, raced>>
-----------------------------------------------------------------------------
NoFile == 0

Files == 1 .. Cardinality(Writers) + 2

AllCompleted(items) == \A k \in DOMAIN items : items[k].status = "completed"

\* _validate_progress_shape.
ValidShape(items) ==
  \/ AllCompleted(items)
  \/ Cardinality({k \in DOMAIN items : items[k].status = "in_progress"}) = 1

\* Faulty: a list that is done is kept.
PersistedAsGiven(items) == items

\* A list that is done is cleared.
Persisted(items) == IF AllCompleted(items) THEN <<>> ELSE items

\* What todo.md holds, nothing without it.
Text == IF named["todo.md"] = NoFile THEN <<>> ELSE text[named["todo.md"]]

\* from_markdown: an item that does not keep to its three lines is not matched.
Matched(items) == {k \in DOMAIN items : items[k].line}

\* read: the places of the items that a reader finds in todo.md.
Read == Matched(Text)

Init ==
  /\ text = [f \in Files |-> <<>>]
  /\ named = [n \in {"todo.md", "todo.md.tmp"} |-> NoFile]
  /\ pc = [w \in Writers |-> "idle"]
  /\ list = [w \in Writers |-> <<>>]
  /\ fd = [w \in Writers |-> NoFile]
  /\ told = [w \in Writers |-> "nothing"]
  /\ saved = <<>>
  /\ raced = FALSE
-----------------------------------------------------------------------------
(* todo_write *)

\* The previous list is read, then the new one refused.
Refuse(w, items) ==
  /\ pc[w] = "idle"
  /\ ~ValidShape(items)
  /\ told' = [told EXCEPT ![w] = "refused"]
  /\ UNCHANGED <<text, named, pc, list, fd, saved, raced>>

\* The previous list is read, the new one accepted.
Accept(w, items) ==
  /\ pc[w] = "idle"
  /\ ValidShape(items)
  /\ Len(saved) + Cardinality({v \in Writers : pc[v] # "idle"}) < MaxWrites
  /\ list' = [list EXCEPT ![w] = Persisted(items)]
  /\ pc' = [pc EXCEPT ![w] = "open"]
  /\ told' = [told EXCEPT ![w] = "nothing"]
  /\ UNCHANGED <<text, named, fd, saved, raced>>

Unused == CHOOSE f \in Files :
  /\ f \notin {named["todo.md"], named["todo.md.tmp"]}
  /\ \A w \in Writers : fd[w] # f

\* open(path, "w"): an existing file is truncated, a missing one made.
OpenAs(w, name) ==
  LET f == IF named[name] = NoFile THEN Unused ELSE named[name]
  IN  /\ named' = [named EXCEPT ![name] = f]
      /\ text' = [text EXCEPT ![f] = <<>>]
      /\ fd' = [fd EXCEPT ![w] = f]
      /\ raced' = (raced \/ \E v \in Writers : fd[v] # NoFile)

\* Faulty: written in place.
OpenInPlace(w) ==
  /\ pc[w] = "open"
  /\ OpenAs(w, "todo.md")
  /\ pc' = [pc EXCEPT ![w] = "fill"]
  /\ UNCHANGED <<list, told, saved>>

Open(w) ==
  /\ pc[w] = "open"
  /\ OpenAs(w, "todo.md.tmp")
  /\ pc' = [pc EXCEPT ![w] = "fill"]
  /\ UNCHANGED <<list, told, saved>>

\* What a file holds once a text is written from its start: the end of a longer text
\* that another writer put there stays behind; "# Tasks" alone covers no item.
Over(new, old) ==
  IF new = <<>> \/ new = old THEN {old}
  ELSE {new} \cup {new \o SubSeq(old, k, Len(old)) : k \in 2 .. Len(old)}

\* write_text writes and closes.
Fill(w) ==
  /\ pc[w] = "fill"
  /\ \E items \in Over(list[w], text[fd[w]]) : text' = [text EXCEPT ![fd[w]] = items]
  /\ pc' = [pc EXCEPT ![w] = "replace"]
  /\ UNCHANGED <<named, list, fd, told, saved, raced>>

\* tmp_path.replace(path), and the answer.
Replace(w) ==
  /\ pc[w] = "replace"
  /\ named["todo.md.tmp"] # NoFile
  /\ named' = [n \in DOMAIN named |-> IF n = "todo.md" THEN named["todo.md.tmp"] ELSE NoFile]
  /\ saved' = Append(saved, list[w])
  /\ told' = [told EXCEPT ![w] = "updated"]
  /\ pc' = [pc EXCEPT ![w] = "idle"]
  /\ fd' = [fd EXCEPT ![w] = NoFile]
  /\ UNCHANGED <<text, list, raced>>

\* FileNotFoundError, which todo_write does not catch: another call renamed the file.
ReplaceRaises(w) ==
  /\ pc[w] = "replace"
  /\ named["todo.md.tmp"] = NoFile
  /\ saved' = Append(saved, list[w])
  /\ told' = [told EXCEPT ![w] = "raised"]
  /\ pc' = [pc EXCEPT ![w] = "idle"]
  /\ fd' = [fd EXCEPT ![w] = NoFile]
  /\ UNCHANGED <<text, named, list, raced>>

\* The process dies; what it had not closed is not written.
Die(w) ==
  /\ pc[w] # "idle"
  /\ pc' = [pc EXCEPT ![w] = "idle"]
  /\ fd' = [fd EXCEPT ![w] = NoFile]
  /\ told' = [told EXCEPT ![w] = "died"]
  /\ UNCHANGED <<text, named, list, saved, raced>>
-----------------------------------------------------------------------------
Next ==
  \E w \in Writers :
    \/ \E items \in Lists : Refuse(w, items) \/ Accept(w, items)
    \/ Open(w) \/ Fill(w) \/ Replace(w) \/ ReplaceRaises(w) \/ Die(w)

Spec == Init /\ [][Next]_vars
-----------------------------------------------------------------------------
(* Properties *)

\* Types; an open call has its file, and no two names lead to one file.
TypeOK ==
  /\ text \in [Files -> Seq(Item)]
  /\ named \in [{"todo.md", "todo.md.tmp"} -> Files \cup {NoFile}]
  /\ named["todo.md"] = named["todo.md.tmp"] => named["todo.md"] = NoFile
  /\ pc \in [Writers -> {"idle", "open", "fill", "replace"}]
  /\ list \in [Writers -> Seq(Item)]
  /\ \A w \in Writers : fd[w] \in IF pc[w] \in {"fill", "replace"} THEN Files ELSE {NoFile}
  /\ told \in [Writers -> {"nothing", "refused", "updated", "raised", "died"}]
  /\ saved \in Seq(Seq(Item))
  /\ raced \in BOOLEAN

\* As long as no two calls overlap, todo.md holds at every moment the list that was
\* saved last, and no call raises, whatever dead writers left behind (repository.py 19-27).
LastSaveHolds ==
  ~raced =>
  /\ Text = IF saved = <<>> THEN <<>> ELSE Last(saved)
  /\ \A w \in Writers : told[w] # "raised"

\* docs/agent-core-algorithm.md 127-129: exactly one item is in progress whenever the
\* list read back is not empty, as long as no item of it has a line break: such an
\* item is accepted and lost (codec.py 7-12), and no two calls overlap.
ShapeKept ==
  ~raced /\ Read # {} /\ (\A k \in DOMAIN Text : Text[k].line) =>
    Cardinality({k \in Read : Text[k].status = "in_progress"}) = 1
=============================================================================
