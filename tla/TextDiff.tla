------------------------------ MODULE TextDiff ------------------------------
(***************************************************************************)
(* QUnit.diff, which shows how the actual text differs from the expected   *)
(* one (fuelux/lib/qunit/qunit.js).  A text is a sequence of words; white  *)
(* space is left out.                                                      *)
(***************************************************************************)
EXTENDS Integers, SequencesExt, BagsExt

CONSTANTS
  Words,
  MaxWords   \* the longest text

ASSUME DiffAssumption == MaxWords \in Nat

VARIABLE diffed   \* the last call: [o, n, out], or << >>

WordTexts == BoundedSeq(Words, MaxWords)

Rows(s, w) == {i \in DOMAIN s : s[i] = w}
Nowhere == 0

\* A row for each word of n: its place in o, or Nowhere.  First the words that
\* are unique in both texts.
uniqueRows(o, n) ==
  [i \in DOMAIN n |->
     IF Cardinality(Rows(n, n[i])) = 1 /\ Cardinality(Rows(o, n[i])) = 1
       THEN CHOOSE k \in DOMAIN o : o[k] = n[i] ELSE Nowhere]

Taken(rows, k) == \E i \in DOMAIN rows : rows[i] = k

\* The neighbour of a word that has a row gets the neighbouring row if it is
\* the same word and both are free.
extendRowsTaken(o, n, rows, i, d) ==
  IF /\ rows[i] # Nowhere /\ rows[i + d] = Nowhere
     /\ rows[i] + d \in DOMAIN o
     /\ n[i + d] = o[rows[i] + d]
    THEN [rows EXCEPT ![i + d] = rows[i] + d]
    ELSE rows

extendRows(o, n, rows, i, d) ==
  IF /\ rows[i] # Nowhere /\ rows[i + d] = Nowhere
     /\ rows[i] + d \in DOMAIN o /\ ~Taken(rows, rows[i] + d)
     /\ n[i + d] = o[rows[i] + d]
    THEN [rows EXCEPT ![i + d] = rows[i] + d]
    ELSE rows

\* Forward, then backward.
diff(o, n) ==
  LET forward == FoldLeft(LAMBDA rows, i : extendRows(o, n, rows, i, 1),
                          uniqueRows(o, n), [i \in 1..(Len(n) - 1) |-> i])
  IN FoldLeft(LAMBDA rows, i : extendRows(o, n, rows, i, -1),
              forward, [i \in 1..(Len(n) - 1) |-> Len(n) + 1 - i])

Token(op, w) == [op |-> op, word |-> w]

\* The words of o from k on up to the next one that has a place in n.
Deleted(o, rows, k) ==
  LET free == {j \in k..Len(o) : \A i \in k..j : ~Taken(rows, i)}
  IN [i \in 1..Cardinality(free) |-> Token("del", o[k + i - 1])]

diffOut(o, n) ==
  LET rows == diff(o, n)
      word(i) == IF rows[i] = Nowhere THEN << Token("ins", n[i]) >>
                 ELSE << Token("same", n[i]) >> \o Deleted(o, rows, rows[i] + 1)
  IN IF n = << >> THEN [i \in DOMAIN o |-> Token("del", o[i])]
     ELSE (IF rows[1] = Nowhere THEN Deleted(o, rows, 1) ELSE << >>)
            \o FlattenSeq([i \in DOMAIN n |-> word(i)])

DiffCall(o, n) ==
  /\ diffed = << >>
  /\ diffed' = [o |-> o, n |-> n, out |-> diffOut(o, n)]

DiffInit == diffed = << >>
DiffNext == \E o, n \in WordTexts : DiffCall(o, n)

-----------------------------------------------------------------------------
(* Properties.                                                             *)

WordsOf(out, ops) ==
  LET kept == SelectSeq(out, LAMBDA t : t.op \in ops)
  IN [i \in DOMAIN kept |-> kept[i].word]
WordBag(s) == [w \in Range(s) |-> Cardinality(Rows(s, w))]

\* The output is a sequence of deleted, inserted and kept words.
DiffTypeOK == diffed = << >> \/ Range(diffed.out) \subseteq [op : {"del", "ins", "same"}, word : Words]

\* The output is about these two texts: without the deletions it is the new
\* text, and without the insertions it has each word of the old text as often
\* as that, moved words included.  A text that begins with a word of the old
\* one hides what was deleted before that word (QUnit.diff).
DiffRestores ==
  diffed # << >> =>
    /\ WordsOf(diffed.out, {"ins", "same"}) = diffed.n
    /\ LET rows == diff(diffed.o, diffed.n)
           hidden == IF diffed.n # << >> /\ rows[1] # Nowhere
                       THEN Deleted(diffed.o, rows, 1) ELSE << >>
       IN WordBag(WordsOf(diffed.out \o hidden, {"del", "same"})) = WordBag(diffed.o)

\* No word is shown as deleted and inserted that could have been kept: each
\* word that is unique in both texts is kept, and next to a kept word the
\* texts differ, or the old word belongs to another (the two passes of diff).
DiffMaximal ==
  diffed # << >> =>
    LET o == diffed.o
        n == diffed.n
        rows == diff(o, n)
    IN \A i \in DOMAIN n :
         /\ rows[i] = Nowhere => Cardinality(Rows(n, n[i])) # 1 \/ Cardinality(Rows(o, n[i])) # 1
         /\ \A d \in {1, -1} :
              /\ rows[i] # Nowhere /\ i + d \in DOMAIN n /\ rows[i] + d \in DOMAIN o
              /\ rows[i + d] = Nowhere /\ ~Taken(rows, rows[i] + d)
              => n[i + d] # o[rows[i] + d]
=============================================================================
