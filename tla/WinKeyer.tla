------------------------------ MODULE WinKeyer ------------------------------
(***************************************************************************)
(* The WinKeyer server (winkeyer.h, winkeyer.cpp), the TCP connection it   *)
(* reads from and the part of the daemon's main loop that tells it whether *)
(* the station at the key is sending (testsim_daemon.cpp).                 *)
(*                                                                         *)
(* A logger sends commands, some of them with parameter bytes.  The server *)
(* reads byte by byte without blocking: what it takes a byte for depends   *)
(* on the byte before and on whether it had arrived.  It reads no          *)
(* parameter of the commands it only has a name for, nor a second one.     *)
(*                                                                         *)
(* The station is keyed by others (cwdaemon): the server's own text never  *)
(* gets to it, see ReadCommand.                                            *)
(***************************************************************************)
EXTENDS Integers, Sequences

CONSTANTS Messages,   \* what a logger sends: sequences of bytes
          MaxIn       \* bounds the bytes that have arrived and are not read

Byte == 0 .. 255

ADMIN           == 0
WPM_SPEED       == 2
BUFFERED_SPEED  == 11
NULL_CMD        == 15
STATUS_REQUEST  == 17
CLEAR_BUFFER    == 21

Printable == 32 .. 126

\* A message is a command and its parameters, a character of a text, or the
\* null byte that ends a text.  Which commands have parameters, and how many,
\* is for the loggers to know.
ASSUME WinKeyerAssumption ==
  /\ Messages \subseteq Seq(Byte) \ {<<>>}
  /\ MaxIn \in Nat

\* What a byte is meant to be by the logger, and how many parameters come
\* behind it.
Role == {"command", "parameter", "terminator"}

Roles(m) ==
  [k \in DOMAIN m |->
     [byte   |-> m[k],
      role   |-> IF m = <<0>> THEN "terminator"
                 ELSE IF k = 1 THEN "command" ELSE "parameter",
      params |-> IF k = 1 THEN Len(m) - 1 ELSE 0]]

VARIABLES
  conn,          \* none; open; closed by the logger, not noticed so far
  rest,          \* what is left of the message a logger is sending
  in,            \* the bytes that have arrived
  pc,            \* where the main loop is
  cmd,           \* the command whose parameter is read
  initialized, busy, current_wpm, in_text_mode,
  sending,       \* contest.isSending()
  last_sending,
  told,          \* the last status the logger of this connection was sent
  astray         \* auxiliary: a parameter of this connection came late, or
                 \* something was read that has other parameters than the
                 \* server reads of it

wire   == <<conn, rest, in>>
server == <<cmd, initialized, busy, current_wpm, in_text_mode>>
vars   == <<wire, pc, server, sending, last_sending, told, astray>>

Init ==
  /\ conn = "none" /\ rest = <<>> /\ in = <<>>
  /\ pc = "poll" /\ cmd = ADMIN
  /\ initialized = FALSE /\ busy = FALSE /\ current_wpm = 30
  /\ in_text_mode = FALSE
  /\ sending = FALSE /\ last_sending = FALSE
  /\ told = "nothing" /\ astray = FALSE

-----------------------------------------------------------------------------
(* The other side of the wire, and the contest. *)

\* The next byte arrives, of the message being sent or of a new one.
Arrive ==
  /\ conn = "open" /\ Len(in) < MaxIn
  /\ \E m \in IF rest # <<>> THEN {rest} ELSE {Roles(t) : t \in Messages} :
       /\ in' = Append(in, Head(m))
       /\ rest' = Tail(m)
  /\ UNCHANGED <<conn, pc, server, sending, last_sending, told, astray>>

\* The logger closes the connection, or resets it: then what is not read is
\* lost.
Hangup ==
  /\ conn = "open"
  /\ conn' = "closed" /\ rest' = <<>>
  /\ in' \in {in, <<>>}
  /\ UNCHANGED <<pc, server, sending, last_sending, told, astray>>

\* The station at the key starts or stops sending.
Keying ==
  /\ sending' = ~sending
  /\ UNCHANGED <<wire, pc, server, last_sending, told, astray>>

-----------------------------------------------------------------------------
(* The main loop. *)

\* sendStatus, with what busy is now; a write without a client is lost.
SendStatus(b) ==
  told' = IF conn # "open" THEN told ELSE IF b THEN "busy" ELSE "idle"

\* Mutant: the logger only hears of the beginning.
SetBusyOnly(b) ==
  /\ busy' = b
  /\ IF initialized /\ b THEN SendStatus(b) ELSE UNCHANGED told

\* setBusy.  isOpen is about the listener, which is always open.
SetBusy(b) ==
  /\ busy' = b
  /\ IF initialized THEN SendStatus(b) ELSE UNCHANGED told

\* pollConnections: a new client takes the place of the one there was.
Accept ==
  /\ pc = "poll" /\ pc' = "read"
  /\ conn' = "open" /\ in' = <<>> /\ rest' = <<>>
  /\ told' = "nothing" /\ astray' = FALSE
  /\ UNCHANGED <<server, sending, last_sending>>

\* No new client.
Poll ==
  /\ pc = "poll" /\ pc' = "read"
  /\ UNCHANGED <<wire, server, sending, last_sending, told, astray>>

\* readByte without a byte to read, which is also how the end of the
\* connection is noticed.
NoByte ==
  /\ in = <<>>
  /\ conn' = IF conn = "closed" THEN "none" ELSE conn
  /\ UNCHANGED <<rest, in>>

NextByte ==
  /\ in # <<>>
  /\ in' = Tail(in)
  /\ UNCHANGED <<conn, rest>>

\* The commands processCommand reads one more byte for.
Parameters == {0, 1, 2, 3, 4, 7, 11, 12}

\* Mutant: no parameter is read before the keyer has been opened.
ReadsOnceOpen(b) == b \in Parameters /\ (initialized \/ b = ADMIN)

Reads(b) == b \in Parameters

\* Mutant: the logger is not told.
ClearBufferSilently ==
  /\ in_text_mode' = FALSE
  /\ busy' = FALSE
  /\ UNCHANGED told

ClearBuffer ==
  /\ in_text_mode' = FALSE
  /\ busy' = FALSE
  /\ SendStatus(FALSE)

\* A command that the logger has sent other parameters with than processCommand
\* reads, and the null byte at the end of a text.
Odd(q) ==
  /\ q.role # "parameter"
  /\ q.params # IF q.byte \in Parameters THEN 1 ELSE 0

\* processCommand up to its parameter.  A null byte is an ADMIN command before
\* it could be the end of a text, so the branch that would hand the text over
\* to the contest is never taken.
ReadCommand ==
  /\ pc = "read" /\ NextByte
  /\ LET b == Head(in).byte IN
       \/ /\ Reads(b)
          /\ cmd' = b /\ pc' = "param"
          /\ UNCHANGED <<busy, in_text_mode, told>>
       \/ /\ b \in {NULL_CMD, STATUS_REQUEST}
          /\ SendStatus(busy)
          /\ UNCHANGED <<cmd, pc, busy, in_text_mode>>
       \/ /\ b = CLEAR_BUFFER
          /\ ClearBuffer
          /\ UNCHANGED <<cmd, pc>>
       \/ /\ ~Reads(b)
          /\ b \notin {NULL_CMD, STATUS_REQUEST, CLEAR_BUFFER}
          /\ in_text_mode' = (in_text_mode \/ b \in Printable)
          /\ UNCHANGED <<cmd, pc, busy, told>>
  /\ astray' = (astray \/ Odd(Head(in)))
  /\ UNCHANGED <<initialized, current_wpm, sending, last_sending>>

\* The end of the reading loop.
NothingToRead ==
  /\ pc = "read" /\ NoByte
  /\ pc' = "busy"
  /\ UNCHANGED <<server, sending, last_sending, told, astray>>

\* Mutant: what readByte has returned is not looked at.
NoParameterUnchecked ==
  /\ pc = "param" /\ NoByte
  /\ pc' = "read"
  /\ astray' = TRUE
  /\ current_wpm' = IF cmd \in {WPM_SPEED, BUFFERED_SPEED} THEN -1
                    ELSE current_wpm
  /\ UNCHANGED <<cmd, initialized, busy, in_text_mode, sending, last_sending,
                 told>>

\* The parameter has not arrived: the command is dropped.
NoParameter ==
  /\ pc = "param" /\ NoByte
  /\ pc' = "read"
  /\ astray' = TRUE
  /\ UNCHANGED <<server, sending, last_sending, told>>

ReadParameter ==
  /\ pc = "param" /\ NextByte
  /\ pc' = "read"
  /\ LET p == Head(in).byte IN
       /\ initialized' = IF cmd = ADMIN /\ p \in {2, 3} THEN p = 2
                         ELSE initialized
       /\ current_wpm' = IF cmd \in {WPM_SPEED, BUFFERED_SPEED}
                         THEN p ELSE current_wpm
       /\ IF cmd = ADMIN THEN SendStatus(busy) ELSE UNCHANGED told
  /\ UNCHANGED <<cmd, busy, in_text_mode, sending, last_sending, astray>>

\* Mutant: what the contest did last is not remembered.
UpdateBusyForgets ==
  /\ pc = "busy" /\ pc' = "poll"
  /\ IF sending # last_sending THEN SetBusy(sending)
     ELSE UNCHANGED <<busy, told>>
  /\ UNCHANGED <<wire, cmd, initialized, current_wpm, in_text_mode, sending,
                 last_sending, astray>>

\* The rest of the loop, up to its sleep.
UpdateBusy ==
  /\ pc = "busy" /\ pc' = "poll"
  /\ IF sending # last_sending
     THEN SetBusy(sending) /\ last_sending' = sending
     ELSE UNCHANGED <<busy, told, last_sending>>
  /\ UNCHANGED <<wire, cmd, initialized, current_wpm, in_text_mode, sending,
                 astray>>

MainLoop ==
  \/ Accept \/ Poll \/ ReadCommand \/ NothingToRead \/ NoParameter
  \/ ReadParameter \/ UpdateBusy

Next == MainLoop \/ Arrive \/ Hangup \/ Keying

Spec == Init /\ [][Next]_vars

\* The main loop does not block.
FairSpec == Spec /\ WF_vars(MainLoop)

-----------------------------------------------------------------------------

Queued == [byte : Byte, role : Role, params : Nat]

TypeOK ==
  /\ conn \in {"none", "open", "closed"}
  /\ rest \in Seq(Queued) /\ in \in Seq(Queued)
  /\ pc \in {"poll", "read", "param", "busy"}
  /\ cmd \in Byte /\ current_wpm \in Byte
  /\ initialized \in BOOLEAN /\ busy \in BOOLEAN /\ in_text_mode \in BOOLEAN
  /\ sending \in BOOLEAN /\ last_sending \in BOOLEAN
  /\ told \in {"nothing", "busy", "idle"}
  /\ astray \in BOOLEAN

\* There are only three ways for the server to take a byte for what it was not
\* meant to be: a parameter that comes late, the end of a text, and a command
\* that has other parameters than it reads.  A connection that breaks in the
\* middle of a command does not put the next one out of step (processCommand,
\* readByte, pollConnections).
BytesAreUnderstood ==
  in # <<>> /\ ~astray =>
    /\ pc = "read"  => Head(in).role # "parameter"
    /\ pc = "param" => Head(in).role = "parameter"

\* A logger that has opened the keyer knows whether it is busy: whatever it was
\* told last is still so, through commands, clears and reconnections
\* (sendStatus, setBusy).
LoggerKnows ==
  conn = "open" /\ initialized /\ told # "nothing" =>
    (told = "busy" <=> busy)

\* The keyer is busy only while, for all the main loop knows, the station is
\* sending (setBusy and the comparison with last_sending).
BusyOnlyWhileSending == busy => last_sending

\* When the station stops for good and no more commands come, a logger that
\* has opened the keyer is not left waiting for it.
LoggerHearsTheEnd ==
  <>[](~sending /\ in = <<>> /\ rest = <<>> /\ initialized) =>
    []<>(told # "busy" \/ conn # "open")

\* "Null terminator - end of text message" (processCommand).
TerminatorEndsText ==
  [][/\ pc = "read" /\ in # <<>> /\ in' = Tail(in)
     /\ Head(in).role = "terminator" /\ in_text_mode
     => ~in_text_mode']_vars

=============================================================================
