---------------------------- MODULE RigCommands -----------------------------
(***************************************************************************)
(* The rig the daemon keeps for the rigctld server, and the lines of the   *)
(* protocol: how one is read, what it does to the rig, what is answered    *)
(* (processCommand and processLongCommand of RigctldServer in              *)
(* winkeyer.cpp, the callbacks in testsim_daemon.cpp).                     *)
(*                                                                         *)
(* A line is a sequence of tokens: characters that matter by themselves    *)
(* (the command letter, the backslash of the long commands, the space) and *)
(* words.                                                                  *)
(***************************************************************************)
EXTENDS Integers, Sequences, SequencesExt, FiniteSetsExt

CONSTANTS Words,        \* the characters and words the lines are made of
          Numbers,      \* those of them that stoi and stoll accept
          NewRig,       \* the values the program starts with
          Lines         \* the lines the loggers send, without their end; none
                        \* is empty

Rig == [freq : Numbers, mode : Seq(Words), passband : Numbers,
        vfo : Seq(Words), rit : Numbers]

-----------------------------------------------------------------------------
(***************************************************************************)
(* processCommand and processLongCommand.                                  *)
(***************************************************************************)
Space(s)    == SelectInSeq(s, LAMBDA t : t = " ")
HasSpace(s) == Space(s) # 0
BeforeSpace(s) == IF HasSpace(s) THEN SubSeq(s, 1, Space(s) - 1) ELSE s
AfterSpace(s)  == IF HasSpace(s) THEN SubSeq(s, Space(s) + 1, Len(s)) ELSE <<>>

ShortCommands ==
  [f |-> "get_freq", F |-> "set_freq", m |-> "get_mode", M |-> "set_mode",
   v |-> "get_vfo",  V |-> "set_vfo",  j |-> "get_rit",  J |-> "set_rit",
   t |-> "get_ptt",  T |-> "set_ptt",  s |-> "get_status", q |-> "quit"]

LongCommands == {"get_freq", "set_freq", "get_mode", "set_mode", "get_vfo",
                 "set_vfo", "get_rit", "set_rit", "get_lock_mode", "dump_state"}

Commands == {ShortCommands[c] : c \in DOMAIN ShortCommands}
              \cup LongCommands \cup {"EINVAL", "ENIMPL"}

\* A short command ends at its letter: what follows it is skipped, whatever it
\* is.  A long one ends at the first space.
ShortCommand(line) ==
  [cmd  |-> IF line[1] \in DOMAIN ShortCommands THEN ShortCommands[line[1]]
            ELSE "EINVAL",
   args |-> SubSeq(line, 3, Len(line))]

LongCommand(line) ==
  LET name == BeforeSpace(Tail(line))
  IN  [cmd  |-> IF Len(name) = 1 /\ name[1] \in LongCommands THEN name[1]
                ELSE "ENIMPL",
       args |-> AfterSpace(Tail(line))]

Parsed(line) == IF line[1] = "\\" THEN LongCommand(line) ELSE ShortCommand(line)

\* stoi and stoll skip blanks, read as far as they can, and throw if that is not
\* at all.
Word(args)   == SelectInSeq(args, LAMBDA t : t # " ")
Number(args) == args[Word(args)]
StartsWithNumber(args) == Word(args) # 0 /\ Number(args) \in Numbers

\* Nobody catches what they throw.
Throws(p) ==
  \/ p.cmd \in {"set_freq", "set_rit"} /\ ~StartsWithNumber(p.args)
  \/ p.cmd = "set_mode" /\ HasSpace(p.args) /\ ~StartsWithNumber(AfterSpace(p.args))

\* Mutant: a mode without a passband brings the first one back.
EffectResetsPassband(p, r) ==
  CASE p.cmd = "set_freq" -> [r EXCEPT !.freq = Number(p.args)]
    [] p.cmd = "set_rit"  -> [r EXCEPT !.rit = Number(p.args)]
    [] p.cmd = "set_vfo"  -> [r EXCEPT !.vfo = p.args]
    [] p.cmd = "set_mode" ->
         [r EXCEPT !.mode = BeforeSpace(p.args),
                   !.passband = IF HasSpace(p.args) THEN Number(AfterSpace(p.args))
                                ELSE NewRig.passband]
    [] OTHER -> r

\* Mutant: the first word is taken for the passband.
EffectPassbandFirst(p, r) ==
  CASE p.cmd = "set_freq" -> [r EXCEPT !.freq = Number(p.args)]
    [] p.cmd = "set_rit"  -> [r EXCEPT !.rit = Number(p.args)]
    [] p.cmd = "set_vfo"  -> [r EXCEPT !.vfo = p.args]
    [] p.cmd = "set_mode" ->
         [r EXCEPT !.mode = BeforeSpace(p.args),
                   !.passband = IF HasSpace(p.args) THEN p.args[1] ELSE @]
    [] OTHER -> r

\* What a command makes of the rig.  A mode without a passband keeps the old one.
Effect(p, r) ==
  CASE p.cmd = "set_freq" -> [r EXCEPT !.freq = Number(p.args)]
    [] p.cmd = "set_rit"  -> [r EXCEPT !.rit = Number(p.args)]
    [] p.cmd = "set_vfo"  -> [r EXCEPT !.vfo = p.args]
    [] p.cmd = "set_mode" ->
         [r EXCEPT !.mode = BeforeSpace(p.args),
                   !.passband = IF HasSpace(p.args) THEN Number(AfterSpace(p.args))
                                ELSE @]
    [] OTHER -> r

\* The fields a command may change.
Named == [set_freq |-> {"freq"}, set_rit |-> {"rit"}, set_vfo |-> {"vfo"},
          set_mode |-> {"mode", "passband"}]

\* The lines of the answer.
Says(cmd, r) ==
  CASE cmd = "get_freq" -> << <<r.freq>> >>
    [] cmd = "get_mode" -> << r.mode, <<r.passband>> >>
    [] cmd = "get_vfo"  -> << r.vfo >>
    [] cmd = "get_rit"  -> << <<r.rit>> >>
    [] cmd \in {"get_ptt", "get_status"} -> << <<"0">> >>
    [] cmd = "get_lock_mode" -> << <<"0">>, <<>> >>
    [] cmd = "dump_state" -> << <<"state">> >>
    [] cmd = "EINVAL" -> << <<"RPRT -1">> >>
    [] cmd = "ENIMPL" -> << <<"RPRT -4">> >>
    [] OTHER -> << <<"RPRT 0">> >>

Said == Words \cup {"0", "state", "RPRT -1", "RPRT -4", "RPRT 0"}

\* sendResponse, sendRprt
Answer(p, r) == << [cmd |-> p.cmd, says |-> Says(p.cmd, r)] >>

=============================================================================
