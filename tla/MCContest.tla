----------------------------- MODULE MCContest -----------------------------
(***************************************************************************)
(* Small values of the constants for the runs of Contest.                  *)
(***************************************************************************)
EXTENDS ContestCalls, TLC

OneCall  == {"K1AA"}
TwoCalls == {"K1AA", "X1XX"}

MCSpelling ==
  [K1AA |-> <<"K", "1", "A", "A">>, X1XX |-> <<"X", "1", "X", "X">>,
   K1A  |-> <<"K", "1", "A">>]
  @@ ("W1" :> <<"W", "1">>) @@ ("AGN" :> <<"A", "G", "N">>)
  @@ ("5NN" :> <<"5", "N", "N">>) @@ ("001" :> <<"0", "0", "1">>)
  @@ ("CQ" :> <<"C", "Q">>) @@ ("TEST" :> <<"T", "E", "S", "T">>)
  @@ ("TU" :> <<"T", "U">>) @@ ("?" :> <<"?">>) @@ (Blank :> <<Blank>>)

\* The calls on the band, and the blank that a text may leave behind one.
MCLetters == UNION {ToSet(MCSpelling[c]) : c \in TwoCalls} \cup {Blank}

MCCharacters == UNION {ToSet(MCSpelling[w]) : w \in DOMAIN MCSpelling}

\* The texts of a contact, with a contest program's function keys.  One of
\* them has a blank in front, for a call before it.
CqText     == <<"CQ", Blank, "TEST">>
Report     == <<"5NN", Blank, "001">>
Contact    == {CqText, <<"K1AA">>, Report, <<"TU">>}
OneTexts   == Contact \cup {<<"K1A">>, <<"K1A", "?">>, <<"X1XX">>,
                            <<"K1AA">> \o <<Blank>> \o Report,
                            <<"AGN">>, <<"W1", "AGN">>, <<"?">>}
TwoTexts   == {CqText, <<"K1AA">>, Report, <<Blank>> \o Report,
               <<"TU">>}

\* What is sent by one text and those that continue it, of n texts at most.
Said[n \in Nat] ==
  IF n = 1 THEN Texts
  ELSE Said[n - 1] \cup
       {text \in {Continued(said, msg) : said \in Said[n - 1], msg \in Texts} :
          Len(text) <= MaxWords}

Heard == {SentCall(text) : text \in {t \in Said[MaxWords] : "hiscall" \in Detect(t)}}

\* Spelt like the call, but for a blank, a letter or what was not copied.
NearlyK1AA == {<<"K1A", "?">>, <<"K1A", Blank, "?">>, <<"K1A", "?", Blank, "?">>}

\* What isMyCall makes of all that may come, as a table.
MCMatch ==
  [p \in TwoCalls \X Heard |->
     CASE p[2] = <<p[1]>> -> {"Yes"} \cup (IF Lids THEN {"Almost"} ELSE {})
       [] p[2] \in {<<p[1], Blank>>, <<p[1], Blank, "?">>} \/ p \in {"K1AA"} \X NearlyK1AA
            -> {"Almost"} \cup (IF Lids THEN {"Yes"} ELSE {})
       [] p = <<"K1AA", <<"K1A">>>> -> {"Almost"}
       [] OTHER -> {"No"}]

Soon        == {0}
OneBuffer   == {1}
TwoBuffers  == {2}
OneOrTwo    == {1, 2}

AnyId == Permutations(Ids)

=============================================================================
