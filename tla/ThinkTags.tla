------------------------------ MODULE ThinkTags ------------------------------
(***************************************************************************)
(* _ThinkTagStripper (providers/clients/native.py): the thoughts a model   *)
(* writes between <think> and </think> are cut out of its text while the   *)
(* text arrives in pieces that may end anywhere, inside a tag too.         *)
(*                                                                         *)
(* The tags are abbreviated to <t> and </t>; what is held back is stated   *)
(* by their lengths, as 6 and 7 are those of <think> and </think> less 1.  *)
(***************************************************************************)
EXTENDS Naturals, SequencesExt

OpenTag == <<"<", "t", ">">>

CloseTag == <<"<", "/", "t", ">">>

Least(m, n) == IF m < n THEN m ELSE n

\* The tag stands in text behind its first n characters.
StartsAt(text, n, tag) ==
  n + Len(tag) <= Len(text) /\ SubSeq(text, n + 1, n + Len(tag)) = tag

\* Where str.find may find the tag, from behind the first n characters on.
Places(text, n, tag) == {m \in n .. Len(text) : StartsAt(text, m, tag)}

After(text, n) == SubSeq(text, n + 1, Len(text))

\* Faulty: one character too few is held back.
HeldBackOneLess(length, tag) == Least(length, Len(tag) - 2)

\* Of length characters, those at the end that may be the beginning of a tag.
HeldBack(length, tag) == Least(length, Len(tag) - 1)

\* output is what the call returns, pending what waits for the next.
Fresh == [inThink |-> FALSE, pending |-> <<>>, output |-> <<>>]

\* The loop of _consume over all that is pending; behind counts what it has cut off.
Consume(text, inThink, final) ==
  LET loop[s \in [behind : 0 .. Len(text), inThink : BOOLEAN]] ==
        LET tag == IF s.inThink THEN CloseTag ELSE OpenTag
            places == Places(text, s.behind, tag)
            at == Min(places)
            end == Len(text) - IF final THEN 0 ELSE HeldBack(Len(text) - s.behind, tag)
            seen(n) == IF s.inThink THEN <<>> ELSE SubSeq(text, s.behind + 1, n)
            next == loop[[behind |-> at + Len(tag), inThink |-> ~s.inThink]]
        IN  IF places = {}
            THEN [inThink |-> s.inThink, pending |-> After(text, end), output |-> seen(end)]
            ELSE [next EXCEPT !.output = seen(at) \o @]
  IN  loop[[behind |-> 0, inThink |-> inThink]]

Push(s, piece) == Consume(s.pending \o piece, s.inThink, FALSE)

Finish(s) == Consume(s.pending, s.inThink, TRUE)

\* _strip_think_tags: of a whole text.
Strip(text) ==
  IF Places(text, 0, OpenTag) = {} THEN text
  ELSE LET s == Push(Fresh, text) IN s.output \o Finish(s).output

(***************************************************************************)
(* What the stripper is for: the characters outside the thoughts.  A       *)
(* thought that is not closed lasts to the end.                            *)
(***************************************************************************)
Visible(text) ==
  LET from[n \in 0 .. Len(text)] ==
        LET closing == Places(text, n + Len(OpenTag), CloseTag)
        IN  IF n = Len(text) THEN <<>>
            ELSE IF ~StartsAt(text, n, OpenTag) THEN <<text[n + 1]>> \o from[n + 1]
            ELSE IF closing = {} THEN <<>>
            ELSE from[Min(closing) + Len(CloseTag)]
  IN  from[0]
=============================================================================
