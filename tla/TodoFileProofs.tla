-------------------------- MODULE TodoFileProofs ---------------------------
(***************************************************************************)
(* What TodoFile promises for any number of processes, any lists and any   *)
(* number of calls and deaths: todo.md holds the list saved last, in the   *)
(* shape todo_write asks for, as long as no two calls overlap.             *)
(***************************************************************************)
EXTENDS TodoFile, FiniteSetTheorems, SequenceTheorems, TLAPS

FilesInv ==
  /\ TypeOK
  /\ fd \in [Writers -> Files \cup {NoFile}]

InProgress(items) == {k \in DOMAIN items : items[k].status = "in_progress"}

\* What todo_write persists.
Shaped(items) == items = <<>> \/ Cardinality(InProgress(items)) = 1

\* Without an overlap the one open file is todo.md.tmp, and it holds what was written.
AloneInv ==
  /\ \A v, w \in Writers : fd[v] # NoFile /\ fd[w] # NoFile => v = w
  /\ \A w \in Writers : fd[w] # NoFile =>
       /\ fd[w] = named["todo.md.tmp"]
       /\ text[fd[w]] = IF pc[w] = "fill" THEN <<>> ELSE list[w]

ShapeInv ==
  /\ \A w \in Writers : Shaped(list[w])
  /\ saved # <<>> => Shaped(Last(saved))

TodoInv ==
  /\ FilesInv
  /\ ShapeInv
  /\ ~raced => AloneInv
  /\ LastSaveHolds
-----------------------------------------------------------------------------
(* The operators *)

LEMMA TwoMore ==
  ASSUME NEW S, IsFiniteSet(S), NEW x, NEW y
  PROVE  /\ IsFiniteSet((S \cup {x}) \cup {y})
         /\ Cardinality((S \cup {x}) \cup {y}) <= Cardinality(S) + 2
         /\ Cardinality(S) \in Nat
<1>1. ASSUME NEW T, IsFiniteSet(T), NEW z
      PROVE  /\ IsFiniteSet(T \cup {z}) /\ Cardinality(T) \in Nat
             /\ Cardinality(T \cup {z}) <= Cardinality(T) + 1
  <2>1. Cardinality(T) \in Nat
    BY <1>1, FS_CardinalityType
  <2>2. /\ IsFiniteSet(T \cup {z})
        /\ Cardinality(T \cup {z}) = IF z \in T THEN Cardinality(T) ELSE Cardinality(T) + 1
    BY <1>1, FS_AddElement
  <2> QED
    BY <2>1, <2>2
<1> DEFINE A == S \cup {x}
           B == A \cup {y}
<1>2. IsFiniteSet(A) /\ Cardinality(A) <= Cardinality(S) + 1 /\ Cardinality(S) \in Nat
  BY <1>1
<1>3. IsFiniteSet(B) /\ Cardinality(B) <= Cardinality(A) + 1 /\ Cardinality(A) \in Nat
  BY <1>1, <1>2
<1>4. Cardinality(B) \in Nat
  BY <1>3, FS_CardinalityType
<1>5. \A a, b, c \in Nat : a <= b + 1 /\ c <= a + 1 => c <= b + 2
  OBVIOUS
<1>6. Cardinality(B) <= Cardinality(S) + 2
  <2> HIDE DEF A, B
  <2> QED
    BY <1>2, <1>3, <1>4, <1>5
<1> QED
  BY <1>2, <1>3, <1>6

\* There is always a file to make: one per other open call and two names are taken.
LEMMA UnusedExists ==
  ASSUME FilesInv, NEW w \in Writers, fd[w] = NoFile
  PROVE  /\ Unused \in Files
         /\ Unused \notin {named["todo.md"], named["todo.md.tmp"]}
         /\ \A v \in Writers : fd[v] # Unused
<1> DEFINE Others == Writers \ {w}
           Opened == {fd[v] : v \in Others}
           Taken == (Opened \cup {named["todo.md"]}) \cup {named["todo.md.tmp"]}
           N == Cardinality(Writers)
<1>1. IsFiniteSet(Writers) /\ N \in Nat
  BY TodoAssumption, FS_CardinalityType
<1>2. IsFiniteSet(Others) /\ Cardinality(Others) = N - 1
  BY <1>1, FS_RemoveElement
<1>3. IsFiniteSet(Opened) /\ Cardinality(Opened) <= N - 1
  <2>1. [v \in Others |-> fd[v]] \in Surjection(Others, Opened)
    BY DEF Surjection
  <2> QED
    BY <1>2, <2>1, FS_Surjection
<1>4. IsFiniteSet(Taken) /\ Cardinality(Taken) <= N + 1
  <2>1. /\ IsFiniteSet(Taken) /\ Cardinality(Taken) <= Cardinality(Opened) + 2
        /\ Cardinality(Opened) \in Nat
    <3> HIDE DEF Opened
    <3> QED
      BY <1>3, TwoMore
  <2>2. Cardinality(Taken) \in Nat
    BY <2>1, FS_CardinalityType
  <2> HIDE DEF Opened, Taken
  <2> QED
    BY <1>1, <1>3, <2>1, <2>2
<1>5. Cardinality(Files) = N + 2
  BY <1>1, FS_Interval DEF Files
<1>6. ~(Files \subseteq Taken)
  <2> SUFFICES ASSUME Files \in SUBSET Taken
               PROVE  FALSE
    OBVIOUS
  <2>1. Cardinality(Files) <= Cardinality(Taken) /\ Cardinality(Taken) \in Nat
    BY <1>4, FS_Subset, FS_CardinalityType
  <2> QED
    BY <1>1, <1>4, <1>5, <2>1
<1>7. PICK f \in Files : f \notin Taken
  BY <1>6
<1>8. f # NoFile
  BY <1>1 DEF Files, NoFile
<1>9. /\ f \notin {named["todo.md"], named["todo.md.tmp"]}
      /\ \A v \in Writers : fd[v] # f
  BY <1>7, <1>8
<1> QED
  BY <1>9 DEF Unused

LEMMA FilesAreNumbers == NoFile \notin Files
<1>1. Cardinality(Writers) \in Nat
  BY TodoAssumption, FS_CardinalityType
<1> QED
  BY <1>1 DEF Files, NoFile

LEMMA LastOfAppend ==
  ASSUME NEW s \in Seq(Seq(Item)), NEW e \in Seq(Item)
  PROVE  Append(s, e) \in Seq(Seq(Item)) /\ Append(s, e) # <<>> /\ Last(Append(s, e)) = e
<1>1. /\ Append(s, e) \in Seq(Seq(Item)) /\ Append(s, e) # <<>>
      /\ Len(Append(s, e)) = Len(s) + 1
      /\ Append(s, e)[Len(s) + 1] = e
  BY AppendProperties
<1> QED
  BY <1>1 DEF Last

\* What is accepted and persisted has the shape.
LEMMA PersistedIsShaped ==
  ASSUME NEW items \in Lists, ValidShape(items)
  PROVE  Persisted(items) \in Seq(Item) /\ Shaped(Persisted(items))
<1>1. items \in Seq(Item) /\ <<>> \in Seq(Item)
  BY TodoAssumption, EmptySeq
<1> QED
  BY <1>1 DEF Persisted, Shaped, ValidShape, InProgress

\* What an overwritten file holds is a list of items; on an empty file, the list itself.
LEMMA OverTyping ==
  ASSUME NEW new \in Seq(Item), NEW old \in Seq(Item), NEW items \in Over(new, old)
  PROVE  items \in Seq(Item) /\ (old = <<>> => items = new)
<1>1. CASE new = <<>> \/ new = old
  BY <1>1 DEF Over
<1>2. CASE ~(new = <<>> \/ new = old)
  <2>1. Len(old) \in Nat
    OBVIOUS
  <2>2. ASSUME NEW k \in 2 .. Len(old)
        PROVE  new \o SubSeq(old, k, Len(old)) \in Seq(Item)
    <3>1. \A i \in k .. Len(old) : old[i] \in Item
      BY <2>1, ElementOfSeq
    <3>2. SubSeq(old, k, Len(old)) \in Seq(Item)
      BY <2>1, <3>1, SubSeqProperties
    <3> QED
      BY <3>2, ConcatProperties
  <2>3. old = <<>> => 2 .. Len(old) = {}
    BY EmptySeq
  <2> QED
    BY <1>2, <2>2, <2>3 DEF Over
<1> QED
  BY <1>1, <1>2
-----------------------------------------------------------------------------
(* The steps *)

LEMMA FilesStep ==
  ASSUME FilesInv, [Next]_vars
  PROVE  FilesInv'
<1> USE DEF FilesInv, TypeOK
<1>1. CASE UNCHANGED vars
  BY <1>1 DEF vars
<1>2. ASSUME NEW w \in Writers, NEW items \in Lists, Refuse(w, items)
      PROVE  FilesInv'
  BY <1>2 DEF Refuse
<1>3. ASSUME NEW w \in Writers, NEW items \in Lists, Accept(w, items)
      PROVE  FilesInv'
  <2>1. Persisted(items) \in Seq(Item)
    BY <1>3, PersistedIsShaped DEF Accept
  <2>2. list' \in [Writers -> Seq(Item)]
    BY <1>3, <2>1 DEF Accept
  <2> QED
    BY <1>3, <2>2 DEF Accept
<1>4. ASSUME NEW w \in Writers, Open(w)
      PROVE  FilesInv'
  <2> DEFINE tmp == named["todo.md.tmp"]
             f == IF tmp = NoFile THEN Unused ELSE tmp
  <2>1. fd[w] = NoFile
    BY <1>4 DEF Open
  <2>2. f \in Files /\ f # named["todo.md"] /\ f # NoFile
    BY <2>1, UnusedExists, FilesAreNumbers
  <2>3. /\ named' = [named EXCEPT !["todo.md.tmp"] = f]
        /\ text' = [text EXCEPT ![f] = <<>>]
        /\ fd' = [fd EXCEPT ![w] = f]
        /\ raced' \in BOOLEAN
    BY <1>4 DEF Open, OpenAs
  <2> HIDE DEF f
  <2>4. text' \in [Files -> Seq(Item)] /\ fd' \in [Writers -> Files \cup {NoFile}]
    BY <2>2, <2>3, EmptySeq
  <2>5. /\ named' \in [{"todo.md", "todo.md.tmp"} -> Files \cup {NoFile}]
        /\ named'["todo.md"] = named'["todo.md.tmp"] => named'["todo.md"] = NoFile
    BY <2>2, <2>3
  <2>6. \A v \in Writers : fd'[v] \in IF pc'[v] \in {"fill", "replace"} THEN Files ELSE {NoFile}
    BY <1>4, <2>2, <2>3 DEF Open
  <2> QED
    BY <1>4, <2>3, <2>4, <2>5, <2>6 DEF Open
<1>5. ASSUME NEW w \in Writers, Fill(w)
      PROVE  FilesInv'
  <2>1. PICK items \in Over(list[w], text[fd[w]]) : text' = [text EXCEPT ![fd[w]] = items]
    BY <1>5 DEF Fill
  <2>2. fd[w] \in Files
    BY <1>5 DEF Fill
  <2>3. items \in Seq(Item)
    BY <2>2, OverTyping
  <2>4. text' \in [Files -> Seq(Item)]
    BY <2>1, <2>3
  <2> QED
    BY <1>5, <2>4 DEF Fill
<1>6. ASSUME NEW w \in Writers, Replace(w)
      PROVE  FilesInv'
  <2>1. saved' \in Seq(Seq(Item))
    BY <1>6, LastOfAppend DEF Replace
  <2>2. /\ named' \in [{"todo.md", "todo.md.tmp"} -> Files \cup {NoFile}]
        /\ named'["todo.md.tmp"] = NoFile
    BY <1>6 DEF Replace
  <2> QED
    BY <1>6, <2>1, <2>2 DEF Replace
<1>7. ASSUME NEW w \in Writers, ReplaceRaises(w)
      PROVE  FilesInv'
  <2>1. saved' \in Seq(Seq(Item))
    BY <1>7, LastOfAppend DEF ReplaceRaises
  <2> QED
    BY <1>7, <2>1 DEF ReplaceRaises
<1>8. ASSUME NEW w \in Writers, Die(w)
      PROVE  FilesInv'
  BY <1>8 DEF Die
<1> QED
  BY <1>1, <1>2, <1>3, <1>4, <1>5, <1>6, <1>7, <1>8 DEF Next

\* Only lists in the shape are given to the file, whoever races whom.
LEMMA ShapeStep ==
  ASSUME FilesInv, ShapeInv, [Next]_vars
  PROVE  ShapeInv'
<1> USE DEF FilesInv, TypeOK
<1>1. ASSUME NEW w \in Writers, NEW items \in Lists, Accept(w, items)
      PROVE  ShapeInv'
  <2>1. Shaped(Persisted(items))
    BY <1>1, PersistedIsShaped DEF Accept
  <2>2. \A v \in Writers : list'[v] = IF v = w THEN Persisted(items) ELSE list[v]
    BY <1>1 DEF Accept
  <2> QED
    BY <1>1, <2>1, <2>2 DEF ShapeInv, Accept
<1>2. ASSUME NEW w \in Writers, saved' = Append(saved, list[w]), UNCHANGED list
      PROVE  ShapeInv'
  <2>1. saved \in Seq(Seq(Item)) /\ list[w] \in Seq(Item)
    OBVIOUS
  <2>2. Append(saved, list[w]) # <<>> /\ Last(Append(saved, list[w])) = list[w]
    BY <2>1, LastOfAppend
  <2> QED
    BY <1>2, <2>2 DEF ShapeInv
<1>3. UNCHANGED <<list, saved>> => ShapeInv'
  BY DEF ShapeInv
<1> QED
  BY <1>1, <1>2, <1>3 DEF Next, Refuse, Open, Fill, Replace, ReplaceRaises, Die, vars

LEMMA InitHolds ==
  ASSUME Init
  PROVE  TodoInv
<1>1. FilesInv
  BY EmptySeq, FilesAreNumbers DEF Init, FilesInv, TypeOK
<1>2. ShapeInv
  BY DEF Init, ShapeInv, Shaped
<1>3. AloneInv
  BY DEF Init, AloneInv
<1>4. LastSaveHolds
  BY DEF Init, LastSaveHolds, Text
<1> QED
  BY <1>1, <1>2, <1>3, <1>4 DEF TodoInv

\* A call opens its file beside no other.
LEMMA OpenKeeps ==
  ASSUME TodoInv, NEW w \in Writers, Open(w), ~raced'
  PROVE  AloneInv' /\ LastSaveHolds'
<1> USE DEF TodoInv, FilesInv, TypeOK
<1> DEFINE tmp == named["todo.md.tmp"]
           f == IF tmp = NoFile THEN Unused ELSE tmp
<1>1. ~raced /\ \A v \in Writers : fd[v] = NoFile
  BY DEF Open, OpenAs
<1>2. f \in Files /\ f # named["todo.md"] /\ f # NoFile
  BY <1>1, UnusedExists, FilesAreNumbers
<1>3. /\ named' = [named EXCEPT !["todo.md.tmp"] = f]
      /\ text' = [text EXCEPT ![f] = <<>>]
      /\ fd' = [fd EXCEPT ![w] = f]
      /\ pc' = [pc EXCEPT ![w] = "fill"]
      /\ UNCHANGED <<list, told, saved>>
  BY DEF Open, OpenAs
<1> HIDE DEF f
<1>4. AloneInv'
  <2>1. \A v \in Writers : fd'[v] # NoFile => v = w
    BY <1>1, <1>3
  <2>2. fd'[w] = f /\ named'["todo.md.tmp"] = f /\ text'[f] = <<>> /\ pc'[w] = "fill"
    BY <1>2, <1>3
  <2> QED
    BY <2>1, <2>2 DEF AloneInv
<1>5. Text' = Text
  BY <1>2, <1>3 DEF Text
<1> QED
  BY <1>1, <1>3, <1>4, <1>5 DEF LastSaveHolds

\* It writes what it persists into an empty file, which is not todo.md.
LEMMA FillKeeps ==
  ASSUME TodoInv, NEW w \in Writers, Fill(w), ~raced'
  PROVE  AloneInv' /\ LastSaveHolds'
<1> USE DEF TodoInv, FilesInv, TypeOK
<1>1. ~raced /\ fd[w] \in Files /\ fd[w] # NoFile
  BY FilesAreNumbers DEF Fill
<1>2. fd[w] = named["todo.md.tmp"] /\ text[fd[w]] = <<>>
  BY <1>1 DEF AloneInv, Fill
<1>3. text' = [text EXCEPT ![fd[w]] = list[w]]
  <2>1. PICK items \in Over(list[w], text[fd[w]]) : text' = [text EXCEPT ![fd[w]] = items]
    BY DEF Fill
  <2>2. list[w] \in Seq(Item) /\ text[fd[w]] \in Seq(Item)
    BY <1>1
  <2>3. items = list[w]
    BY <1>2, <2>2, OverTyping
  <2> QED
    BY <2>1, <2>3
<1>4. AloneInv'
  <2>1. UNCHANGED <<fd, named, list>> /\ pc' = [pc EXCEPT ![w] = "replace"]
    BY DEF Fill
  <2>2. \A v \in Writers : fd[v] # NoFile => v = w
    BY <1>1 DEF AloneInv
  <2>3. text'[fd[w]] = list[w] /\ pc'[w] # "fill"
    BY <1>1, <1>3, <2>1
  <2> QED
    BY <1>2, <2>1, <2>2, <2>3 DEF AloneInv
<1>5. Text' = Text
  <2>1. named["todo.md"] # fd[w]
    BY <1>1, <1>2
  <2> QED
    BY <1>3, <2>1 DEF Text, Fill
<1> QED
  BY <1>1, <1>4, <1>5 DEF LastSaveHolds, Fill

\* The file it wrote becomes todo.md.
LEMMA ReplaceKeeps ==
  ASSUME TodoInv, NEW w \in Writers, Replace(w) \/ ReplaceRaises(w), ~raced'
  PROVE  AloneInv' /\ LastSaveHolds'
<1> USE DEF TodoInv, FilesInv, TypeOK
<1>1. ~raced /\ fd[w] \in Files /\ fd[w] # NoFile /\ pc[w] = "replace"
  BY FilesAreNumbers DEF Replace, ReplaceRaises
<1>2. fd[w] = named["todo.md.tmp"] /\ text[fd[w]] = list[w]
  BY <1>1 DEF AloneInv
<1>3. Replace(w)
  BY <1>1, <1>2 DEF ReplaceRaises
<1>4. \A v \in Writers : fd'[v] = NoFile
  <2>1. \A v \in Writers : fd[v] # NoFile => v = w
    BY <1>1 DEF AloneInv
  <2> QED
    BY <1>3, <2>1 DEF Replace
<1>5. Text' = list[w]
  BY <1>1, <1>2, <1>3 DEF Text, Replace
<1>6. saved' # <<>> /\ Last(saved') = list[w]
  <2>1. saved \in Seq(Seq(Item)) /\ list[w] \in Seq(Item)
    OBVIOUS
  <2>2. Append(saved, list[w]) # <<>> /\ Last(Append(saved, list[w])) = list[w]
    BY <2>1, LastOfAppend
  <2> QED
    BY <1>3, <2>2 DEF Replace
<1>7. \A v \in Writers : told'[v] # "raised"
  BY <1>1, <1>3 DEF Replace, LastSaveHolds
<1> QED
  BY <1>4, <1>5, <1>6, <1>7 DEF AloneInv, LastSaveHolds

LEMMA TodoStep ==
  ASSUME TodoInv, [Next]_vars
  PROVE  TodoInv'
<1>1. FilesInv' /\ ShapeInv'
  BY FilesStep, ShapeStep DEF TodoInv
<1>2. SUFFICES ASSUME ~raced'
               PROVE  AloneInv' /\ LastSaveHolds'
  BY <1>1 DEF TodoInv, LastSaveHolds
<1> USE DEF TodoInv, FilesInv, TypeOK
<1>3. CASE UNCHANGED vars
  BY <1>2, <1>3 DEF vars, AloneInv, LastSaveHolds, Text
<1>4. ASSUME NEW w \in Writers, NEW items \in Lists, Refuse(w, items) \/ Accept(w, items)
      PROVE  AloneInv' /\ LastSaveHolds'
  <2>1. UNCHANGED <<text, named, fd, saved, raced>>
    BY <1>4 DEF Refuse, Accept
  <2>2. \A v \in Writers : told'[v] = "raised" => told[v] = "raised"
    BY <1>4 DEF Refuse, Accept
  <2>3. \A v \in Writers : fd[v] # NoFile => pc'[v] = pc[v] /\ list'[v] = list[v]
    BY <1>4 DEF Refuse, Accept
  <2>4. Text' = Text
    BY <2>1 DEF Text
  <2>5. AloneInv'
    BY <1>2, <2>1, <2>3 DEF AloneInv
  <2> QED
    BY <1>2, <2>1, <2>2, <2>4, <2>5 DEF LastSaveHolds
<1>5. ASSUME NEW w \in Writers, Die(w)
      PROVE  AloneInv' /\ LastSaveHolds'
  <2>1. UNCHANGED <<text, named, list, saved, raced>>
    BY <1>5 DEF Die
  <2>2. \A v \in Writers : told'[v] = "raised" => told[v] = "raised"
    BY <1>5 DEF Die
  <2>3. \A v \in Writers : fd'[v] # NoFile => fd'[v] = fd[v] /\ pc'[v] = pc[v]
    BY <1>5 DEF Die
  <2>4. Text' = Text
    BY <2>1 DEF Text
  <2>5. AloneInv'
    BY <1>2, <2>1, <2>3 DEF AloneInv
  <2> QED
    BY <1>2, <2>1, <2>2, <2>4, <2>5 DEF LastSaveHolds
<1> QED
  BY <1>2, <1>3, <1>4, <1>5, OpenKeeps, FillKeeps, ReplaceKeeps DEF Next

LEMMA TodoInvHolds == Spec => []TodoInv
<1>1. Init => TodoInv
  BY InitHolds
<1>2. TodoInv /\ [Next]_vars => TodoInv'
  BY TodoStep
<1> QED
  BY <1>1, <1>2, PTL DEF Spec

\* However the processes race and die: the two names never lead to one file, and a call
\* that writes has its own descriptor.
THEOREM TodoTypeOK == Spec => []TypeOK
<1>1. TodoInv => TypeOK
  BY DEF TodoInv, FilesInv
<1> QED
  BY <1>1, TodoInvHolds, PTL

\* As long as no two calls overlap, todo.md is at every moment the list saved last and
\* no call raises, whatever the processes that died left behind.
THEOREM TodoLastSaveHolds == Spec => []LastSaveHolds
<1>1. TodoInv => LastSaveHolds
  BY DEF TodoInv
<1> QED
  BY <1>1, TodoInvHolds, PTL

\* As long as no two calls overlap and no item has a line break, a list that is read back
\* with anything in it has exactly one item in progress.
THEOREM TodoShapeKept == Spec => []ShapeKept
<1>1. TodoInv => ShapeKept
  <2> SUFFICES ASSUME TodoInv, ~raced, Read # {}, \A k \in DOMAIN Text : Text[k].line
               PROVE  Cardinality({k \in Read : Text[k].status = "in_progress"}) = 1
    BY DEF ShapeKept
  <2>1. Read = DOMAIN Text
    BY DEF Read, Matched
  <2>2. Shaped(Text)
    BY DEF TodoInv, LastSaveHolds, ShapeInv, Shaped
  <2>3. Text # <<>>
    <3>1. DOMAIN <<>> = {}
      OBVIOUS
    <3> QED
      BY <2>1, <3>1
  <2>4. {k \in Read : Text[k].status = "in_progress"} = InProgress(Text)
    BY <2>1 DEF InProgress
  <2> QED
    BY <2>2, <2>3, <2>4 DEF Shaped
<1> QED
  BY <1>1, TodoInvHolds, PTL
=============================================================================
