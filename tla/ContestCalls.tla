---------------------------- MODULE ContestCalls ----------------------------
(***************************************************************************)
(* The contest with spelled calls: what its operators take for their calls *)
(* is what isMyCall answers to the letters (CallMatch).                    *)
(***************************************************************************)
EXTENDS Contest, CallMatch

CONSTANTS Letters,      \* the characters of calls
          Characters,   \* the characters of texts
          Spelling      \* the characters of each part of a text, and of each
                        \* call

ASSUME CallsAssumption ==
  /\ Wildcard \notin Letters
  /\ Letters \subseteq Characters
  /\ Spelling \in [DOMAIN Spelling -> Seq(Characters)]
  /\ Calls \subseteq DOMAIN Spelling
  /\ \A call \in Calls : Spelling[call] \in Seq(Letters) /\ Len(Spelling[call]) >= 2

\* The characters of what has been sent in the place of a call.
Spelt(hiscall) == FlattenSeq([i \in DOMAIN hiscall |-> Spelling[hiscall[i]]])

\* Match lists what isMyCall answers to the characters.
ASSUME MatchAssumption ==
  \A p \in DOMAIN Match :
    /\ p[1] \in DOMAIN Spelling
    /\ p[2] \in Seq(DOMAIN Spelling)
    /\ Spelt(p[2]) \in Seq(Characters)
    /\ Match[p] = IsMyCallOf(Spelt(p[2]), Spelling[p[1]], Lids)

-----------------------------------------------------------------------------

\* All that may be sent with these letters, one more than in the call.
SentFor(call) == UNION {[1 .. n -> Letters] : n \in 0 .. Len(Spelling[call]) + 1}

\* The call, of which some letters were not copied, but two were.
Blanked(call) ==
  {c \in [DOMAIN Spelling[call] -> Letters \cup {Wildcard}] :
     /\ \A i \in DOMAIN c : c[i] \in {Wildcard, Spelling[call][i]}
     /\ Copied(c) >= 2}

TakenAsMeant ==
  {call \in Calls :
     LET c0 == Spelling[call]
     IN  /\ \A lids \in BOOLEAN :
              /\ \A c \in SentFor(call) :
                   IsMyCallOf(c, c0, lids) = MayAnswer(c, c0, Letters, lids)
              /\ \A c \in Blanked(call) : "No" \notin IsMyCallOf(c, c0, lids)
         /\ \A p \in DOMAIN Match :
              p[1] = call /\ Wildcard \notin ToSet(Spelt(p[2])) =>
                Match[p] = MayAnswer(Spelt(p[2]), c0, Characters \ {Wildcard}, Lids)}

\* Every operator on the band, careful or not, takes whatever is sent with or
\* without an error for his call, for nearly his call or for another one as it
\* is meant, and never takes his call for another one because of letters he has
\* not copied: the distance, its free beginning and the corrections together
\* (isMyCall) say exactly that.
CallsAreTakenAsMeant == \A i \in DOMAIN stations : stations[i].call \in TakenAsMeant

=============================================================================
