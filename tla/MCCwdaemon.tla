----------------------------- MODULE MCCwdaemon -----------------------------
(***************************************************************************)
(* Small values of the constants for the runs of Cwdaemon.                 *)
(***************************************************************************)
EXTENDS Cwdaemon

Plain(kind) == [kind |-> kind, arg |-> 0]
Speed(n)    == [kind |-> "speed", arg |-> n]
Reply(n)    == [kind |-> "reply", arg |-> n]

Words == Plain("words")
Plus  == Plain("+")
Minus == Plain("-")

Tildes == Plain("blank")

\* A text with its middle keyed faster, texts that change the speed for good,
\* changes without anything to key, the commands, text in front of a command
\* and behind one, a reply and an empty one, speeds at the limits and one
\* beyond.
MCDatagrams ==
  {<<Words, Plus, Words, Minus, Words>>, <<Words, Plus>>, <<Minus, Words>>,
   <<Tildes, Plus>>, <<Tildes, Plus, Words>>, <<Plain("abort")>>,
   <<Plain("reset"), Words>>, <<Words, Plain("abort"), Words>>,
   <<Words, Reply(1)>>, <<Reply(0), Plain("abort")>>,
   <<Plain("none"), Plain("rest"), Words>>,
   <<Speed(30)>>, <<Speed(22)>>, <<Speed(32)>>}

=============================================================================
