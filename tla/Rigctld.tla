------------------------------ MODULE Rigctld ------------------------------
(***************************************************************************)
(* The rigctld server (RigctldServer and TcpTransport in winkeyer.cpp) and *)
(* what the daemon gives it to keep: the rig's frequency, mode, passband   *)
(* and VFO, and the RIT of the contest.                                    *)
(*                                                                         *)
(* The loggers' sockets are the environment: they deliver a line in one    *)
(* piece or in two, and a logger goes when it likes, in the middle of a    *)
(* line too.                                                               *)
(***************************************************************************)
EXTENDS RigCommands

CONSTANTS Clients,      \* the connections; each is made once at most
          LineEnds,     \* the ends of a line: "\n", or "\r" and "\n"
          MaxLines      \* bounds the lines of all connections together

CONSTANT None

Newline == {"\n", "\r"}

ASSUME RigctldAssumption ==
  /\ None \notin Clients
  /\ MaxLines \in Nat
  /\ Words \cap Newline = {}
  /\ Numbers \subseteq Words
  /\ NewRig \in Rig
  /\ Lines \subseteq Seq(Words) \ {<<>>}
  /\ LineEnds \subseteq Seq(Newline) \ {<<>>}

VARIABLES rig,          \* freq_hz, mode, passband_hz, vfo; rit of the contest
          buffer,       \* commandBuffer
          client,       \* client_fd
          step,         \* poll() accepts a connection first, then reads
          alive,        \* FALSE: the program has ended
          backlog,      \* connections not accepted yet
          peer,         \* a logger's side: "new", "up", "closed"
          rest,         \* what a logger has still to send of its line
          inbox,        \* what has arrived of it and is not read
          sent,         \* history: the lines a logger has begun to send
          answers,      \* what a logger has been answered
          left          \* history: what ended connections left in the buffer

loggers == <<peer, rest, sent>>
vars == <<rig, buffer, client, step, alive, backlog, inbox, answers, left,
          loggers>>

Init ==
  /\ rig = NewRig
  /\ buffer = <<>>
  /\ client = None
  /\ step = "accept"
  /\ alive = TRUE
  /\ backlog = <<>>
  /\ peer = [c \in Clients |-> "new"]
  /\ rest = [c \in Clients |-> <<>>]
  /\ inbox = [c \in Clients |-> <<>>]
  /\ sent = [c \in Clients |-> <<>>]
  /\ answers = [c \in Clients |-> <<>>]
  /\ left = <<>>

-----------------------------------------------------------------------------
(***************************************************************************)
(* The loggers.  A connection the server has closed takes nothing more.    *)
(***************************************************************************)
Connect(c) ==
  /\ peer[c] = "new"
  /\ peer' = [peer EXCEPT ![c] = "up"]
  /\ backlog' = Append(backlog, c)
  /\ UNCHANGED <<rig, buffer, client, step, alive, inbox, answers, left>>
  /\ UNCHANGED <<rest, sent>>

LinesSent == MapThenSumSet(LAMBDA c : Len(sent[c]), Clients)

Connected(c) == peer[c] = "up" /\ (client = c \/ c \in ToSet(backlog))

\* The first k tokens of a line and its end arrive.
SendLine(c, line, end, k) ==
  /\ Connected(c)
  /\ rest[c] = <<>>
  /\ LinesSent < MaxLines
  /\ inbox' = [inbox EXCEPT ![c] = @ \o SubSeq(line \o end, 1, k)]
  /\ rest' = [rest EXCEPT ![c] = SubSeq(line \o end, k + 1, Len(line \o end))]
  /\ sent' = [sent EXCEPT ![c] = Append(@, line)]
  /\ UNCHANGED <<rig, buffer, client, step, alive, backlog, peer, answers, left>>

\* The others arrive.
SendRest(c) ==
  /\ Connected(c)
  /\ rest[c] # <<>>
  /\ inbox' = [inbox EXCEPT ![c] = @ \o rest[c]]
  /\ rest' = [rest EXCEPT ![c] = <<>>]
  /\ UNCHANGED <<rig, buffer, client, step, alive, backlog, peer, sent, answers, left>>

\* The logger closes its end, or is gone.
HangUp(c) ==
  /\ peer[c] = "up"
  /\ peer' = [peer EXCEPT ![c] = "closed"]
  /\ UNCHANGED <<rig, buffer, client, step, alive, backlog, inbox, answers, left>>
  /\ UNCHANGED <<rest, sent>>

Logger == \E c \in Clients :
  \/ Connect(c) \/ SendRest(c) \/ HangUp(c)
  \/ \E line \in Lines, end \in LineEnds : \E k \in 1 .. Len(line \o end) :
       SendLine(c, line, end, k)

-----------------------------------------------------------------------------
(***************************************************************************)
(* poll() and pollConnections().                                           *)
(***************************************************************************)
\* Mutant: a new connection waits for the end of the old one.
AcceptWhenFree ==
  /\ alive /\ step = "accept"
  /\ step' = "read"
  /\ IF backlog = <<>> \/ client # None THEN UNCHANGED <<client, backlog, left>>
     ELSE /\ client' = Head(backlog)
          /\ backlog' = Tail(backlog)
          /\ left' = buffer
  /\ UNCHANGED <<rig, buffer, alive, inbox, answers, loggers>>

\* A new connection takes the place of the old one, whatever there was unread;
\* what has been collected stays.
Accept ==
  /\ alive /\ step = "accept"
  /\ step' = "read"
  /\ IF backlog = <<>> THEN UNCHANGED <<client, backlog, left>>
     ELSE /\ client' = Head(backlog)
          /\ backlog' = Tail(backlog)
          /\ left' = buffer
  /\ UNCHANGED <<rig, buffer, alive, inbox, answers, loggers>>

Reading == alive /\ step = "read"

HasByte == client # None /\ inbox[client] # <<>>

Collect ==
  /\ Reading /\ HasByte
  /\ Head(inbox[client]) \notin Newline
  /\ buffer' = Append(buffer, Head(inbox[client]))
  /\ inbox' = [inbox EXCEPT ![client] = Tail(@)]
  /\ UNCHANGED <<rig, client, step, alive, backlog, answers, left, loggers>>

\* The second character of "\r\n" finds nothing collected.
EmptyLine ==
  /\ Reading /\ HasByte
  /\ Head(inbox[client]) \in Newline
  /\ buffer = <<>>
  /\ inbox' = [inbox EXCEPT ![client] = Tail(@)]
  /\ UNCHANGED <<rig, buffer, client, step, alive, backlog, answers, left, loggers>>

\* Mutant: the buffer is cleared on a command that is known only.
ProcessLineKeepsUnknown ==
  /\ Reading /\ HasByte
  /\ Head(inbox[client]) \in Newline
  /\ buffer # <<>>
  /\ ~Throws(Parsed(buffer))
  /\ rig' = Effect(Parsed(buffer), rig)
  /\ answers' = [answers EXCEPT ![client] = @ \o Answer(Parsed(buffer), rig)]
  /\ buffer' = IF Parsed(buffer).cmd = "EINVAL" THEN buffer ELSE <<>>
  /\ inbox' = [inbox EXCEPT ![client] = Tail(@)]
  /\ alive' \in {TRUE, peer[client] # "closed"}
  /\ left' = <<>>
  /\ UNCHANGED <<client, step, backlog, loggers>>

\* The command is carried out and answered.  Writing to a connection the peer
\* has closed may end the program (SIGPIPE).
ProcessLine ==
  /\ Reading /\ HasByte
  /\ Head(inbox[client]) \in Newline
  /\ buffer # <<>>
  /\ ~Throws(Parsed(buffer))
  /\ rig' = Effect(Parsed(buffer), rig)
  /\ answers' = [answers EXCEPT ![client] = @ \o Answer(Parsed(buffer), rig)]
  /\ buffer' = <<>>
  /\ inbox' = [inbox EXCEPT ![client] = Tail(@)]
  /\ alive' \in {TRUE, peer[client] # "closed"}
  /\ left' = <<>>
  /\ UNCHANGED <<client, step, backlog, loggers>>

\* An exception nobody catches ends the program.
ProcessThrows ==
  /\ Reading /\ HasByte
  /\ Head(inbox[client]) \in Newline
  /\ buffer # <<>>
  /\ Throws(Parsed(buffer))
  /\ alive' = FALSE
  /\ UNCHANGED <<rig, buffer, client, step, backlog, inbox, answers, left, loggers>>

\* Nothing more to read, for now or for good: then the connection is closed.
\* What was collected stays collected.
EndPoll ==
  /\ Reading /\ ~HasByte
  /\ step' = "accept"
  /\ IF client # None /\ peer[client] = "closed"
     THEN client' = None /\ left' = buffer
     ELSE UNCHANGED <<client, left>>
  /\ UNCHANGED <<rig, buffer, alive, backlog, inbox, answers, loggers>>

poll == Accept \/ Collect \/ EmptyLine \/ ProcessLine \/ ProcessThrows \/ EndPoll

Next == poll \/ Logger

Spec == Init /\ [][Next]_vars

\* The main loop polls; a logger that has begun a line need not end it.
FairSpec == Spec /\ WF_vars(poll)

-----------------------------------------------------------------------------

TypeOK ==
  /\ rig \in Rig
  /\ {buffer, left} \subseteq Seq(Words)
  /\ client \in Clients \cup {None}
  /\ step \in {"accept", "read"}
  /\ backlog \in Seq(Clients)
  /\ peer \in [Clients -> {"new", "up", "closed"}]
  /\ {inbox, rest} \subseteq [Clients -> Seq(Words \cup Newline)]
  /\ sent \in [Clients -> Seq(Lines)]
  /\ answers \in [Clients -> Seq([cmd : Commands, says : Seq(Seq(Said))])]
  /\ alive \in BOOLEAN

\* The loggers that have had their turn.
Gone == {c \in Clients : peer[c] # "new" /\ client # c /\ c \notin ToSet(backlog)}

\* However the lines are cut up on their way and loggers come and go, the server
\* carries the lines of each logger out one after the other, each in one step,
\* and answers each as the rig is then; nothing stands in front of a line but
\* what a logger who has gone in the middle of his has left (poll, Accept,
\* processCommand, processLongCommand).
Service == INSTANCE RigService WITH asked <- sent, gone <- Gone

ImplementsRigService == Service!Spec

\* The rig is what the loggers have made it: a new connection finds it as the
\* last one has left it ("RIT changes persist", RIGCTL_IMPLEMENTATION.md), half a
\* line changes nothing by itself (what is left of one may change what the next
\* line says), and a value that a line does not name is kept.
RigChangesAsAsked ==
  [][\A field \in DOMAIN rig :
       rig'[field] # rig[field] =>
         \E c \in Clients : \E n \in DOMAIN sent[c] :
           /\ n = Len(answers'[c]) /\ n = Len(answers[c]) + 1
           /\ LET p == Parsed(left \o sent[c][n])
              IN  /\ p.cmd \in DOMAIN Named
                  /\ field \in Named[p.cmd]
                  /\ field = "passband" => HasSpace(p.args)]_vars

\* A line that has arrived to its end is answered, unless the logger goes,
\* another one takes its place, or the program ends.
Whole(c) == IF rest[c] = <<>> THEN Len(sent[c]) ELSE Len(sent[c]) - 1

LinesAreAnswered ==
  \A c \in Clients : \A n \in 1 .. MaxLines :
    Whole(c) >= n ~> (Len(answers[c]) >= n \/ ~Connected(c) \/ ~alive)

=============================================================================
