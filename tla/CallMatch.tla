------------------------------ MODULE CallMatch ------------------------------
(***************************************************************************)
(* How an operator recognises his call in the one that is sent (isMyCall   *)
(* in dxoper.cpp): an edit distance, with "?" for what was not copied, and *)
(* corrections.  Calls are sequences of letters.                           *)
(***************************************************************************)
EXTENDS Integers, Sequences, SequencesExt, FiniteSetsExt

Wildcard == "?"

\* The call that is sent occurs in c0 as a part of two letters or more.
IsPart(c, c0) ==
  /\ Len(c) < Len(c0)
  /\ Len(c) >= 2
  /\ \E start \in 0 .. Len(c0) - Len(c) :
       \A i \in 1 .. Len(c) : c[i] \in {Wildcard, c0[start + i]}

\* Mutant: the first row counts too, as in any other edit distance.
CellFromStart(m, c, c0, x, y) ==
  IF x = 0 THEN y
  ELSE IF y = 0 THEN x
  ELSE IF c[x] = Wildcard THEN Min({m[<<x, y - 1>>], m[<<x - 1, y>>], m[<<x - 1, y - 1>>]})
  ELSE Min({m[<<x, y - 1>>] + 1, m[<<x - 1, y>>] + 1,
            m[<<x - 1, y - 1>>] + (IF c[x] = c0[y] THEN 0 ELSE 1)})

\* An entry of the distance matrix.  The first row is all 0: c0 may begin
\* anywhere; the first column counts.
Cell(m, c, c0, x, y) ==
  IF x = 0 \/ y = 0 THEN x
  ELSE LET left == m[<<x, y - 1>>]
           above == m[<<x - 1, y>>]
           diagonal == m[<<x - 1, y - 1>>]
       IN  IF c[x] = Wildcard THEN Min({left, above, diagonal})
           ELSE Min({left + 1, above + 1,
                     diagonal + (IF c[x] = c0[y] THEN 0 ELSE 1)})

Matrix(c, c0) ==
  LET m[p \in (0 .. Len(c)) \X (0 .. Len(c0))] == Cell(m, c, c0, p[1], p[2])
  IN  m

Distance(c, c0) == Matrix(c, c0)[<<Len(c), Len(c0)>>]

Copied(c) == Quantify(DOMAIN c, LAMBDA i : c[i] # Wildcard)

\* The answer by distance, corrected: a call of two letters that nearly fits,
\* and one of which fewer than two letters were copied, is not his; one that
\* fits but for its length or a wildcard is nearly his.
ByDistance(c, c0, careful) ==
  LET distance == Distance(c, c0)
      full     == Len(c) = Len(c0) /\ Wildcard \notin ToSet(c)
  IN  CASE Copied(c) < 2 -> "No"
        [] Copied(c) >= 2 /\ distance = 0 -> IF full THEN "Yes" ELSE "Almost"
        [] Copied(c) >= 2 /\ distance = 1 /\ ~(careful /\ Len(c) = 2) -> "Almost"
        [] OTHER -> "No"

\* A careless operator may take the one for the other.
Blunder(answer, c, lids) ==
  IF lids /\ Len(c) > 3 /\ answer \in {"Yes", "Almost"} THEN {"Yes", "Almost"}
  ELSE {answer}

\* What isMyCall may answer the operator of c0 when c is sent.
IsMyCallOf(c, c0, lids) ==
  IF IsPart(c, c0) THEN {"Almost"}
  ELSE Blunder(ByDistance(c, c0, ~lids), c, lids)

-----------------------------------------------------------------------------
(***************************************************************************)
(* The same without a distance: what an operator is meant to take c for    *)
(* when it has been copied in full.                                        *)
(***************************************************************************)
\* The calls one keying error makes of a call: a letter more, less or wrong.
Misspelt(s, letters) ==
  {RemoveAt(s, i) : i \in DOMAIN s}
    \cup {ReplaceAt(s, i, x) : i \in DOMAIN s, x \in letters}
    \cup {InsertAt(s, i, x) : i \in 1 .. Len(s) + 1, x \in letters}

\* His own call; a part of it, or an end of it with one error in it, but of
\* two letters only a careless operator takes more than a part for his; of one
\* letter nobody takes anything.
Meant(c, c0, letters, lids) ==
  IF c = c0 THEN "Yes"
  ELSE IF \/ IsPart(c, c0)
          \/ /\ Len(c) >= (IF lids THEN 2 ELSE 3)
             /\ \E end \in Suffixes(c0) : c \in Misspelt(end, letters)
  THEN "Almost"
  ELSE "No"

\* What he may answer: a part is never taken for more.
MayAnswer(c, c0, letters, lids) ==
  IF IsPart(c, c0) THEN {"Almost"}
  ELSE Blunder(Meant(c, c0, letters, lids), c, lids)

=============================================================================
