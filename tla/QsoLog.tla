------------------------------- MODULE QsoLog -------------------------------
(***************************************************************************)
(* What the contest promises about contacts, with nothing of how stations  *)
(* behave.  A station is on the band with its call until it leaves, and    *)
(* may be worked once while it is there.  Every worked station is put on   *)
(* the list of contacts exactly once, in the moment it is worked, under    *)
(* its own call, and is off the band one buffer later; one that gives up   *)
(* may be put on the list too, but not as worked.  The person at the key   *)
(* gets the list in order, nothing is lost and nothing is made up.         *)
(***************************************************************************)
EXTENDS Naturals, Sequences, FiniteSets

CONSTANTS Ids, Calls

VARIABLES band,   \* who is on the band: [call, worked] by id
          list    \* the contacts nobody has looked at yet

vars == <<band, list>>

Entry == [call : Calls, worked : BOOLEAN]

Init == band = <<>> /\ list = <<>>

Worked == {i \in DOMAIN band : band[i].worked}

\* New stations, never heard of before.
Arrive ==
  \E new \in SUBSET (Ids \ DOMAIN band) : \E call \in [new -> Calls] :
    /\ band' = [i \in DOMAIN band \cup new |->
                  IF i \in new THEN [call |-> call[i], worked |-> FALSE]
                  ELSE band[i]]
    /\ UNCHANGED list

\* t lists the stations of S, each of them once, as entries of b.
ListsOf(t, b, S) ==
  \E order \in [1 .. Cardinality(S) -> S] :
    /\ S = {order[k] : k \in DOMAIN order}
    /\ t = [k \in DOMAIN order |-> b[order[k]]]

\* One buffer: who was worked before leaves, some of the others are worked,
\* some give up, a few of these audibly.
Buffer ==
  \E new \in SUBSET (DOMAIN band \ Worked) :
  \E lost \in SUBSET (DOMAIN band \ (Worked \cup new)) :
    /\ band' = [i \in (DOMAIN band \ Worked) \ lost |->
                  [call |-> band[i].call, worked |-> i \in new]]
    /\ \E heard \in SUBSET lost :
         LET n == Len(list)
             k == n + Cardinality(heard)
         IN  /\ Len(list') = k + Cardinality(new)
             /\ SubSeq(list', 1, n) = list
             /\ ListsOf(SubSeq(list', n + 1, k), band, heard)
             /\ ListsOf(SubSeq(list', k + 1, Len(list')), band', new)

\* The person at the key is shown the next contact.
Show == list # <<>> /\ list' = Tail(list) /\ UNCHANGED band

Next == Arrive \/ Buffer \/ Show

Spec == Init /\ [][Next]_vars

\* Every contact is shown, and a worked station does leave.
Shown == []<>(list = <<>>)
Leaves == \A i \in Ids : []<>(i \notin Worked)

=============================================================================
