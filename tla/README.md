# testsim: verification project

testsim simulates a Morse-code contest: a person at the key (or a contest
program that speaks one of three keyer protocols) calls CQ, simulated DX
stations answer with their own patience and mistakes, and contacts are logged.
This directory holds TLA+ modules translated from `src/`, the TLC
configurations that check them on small instances, and TLAPS proofs that hold
for every value of the constants.

## 1. The system

| component | state it keeps | operations | interacts with |
|---|---|---|---|
| DX operator (`dxoper.cpp`) | one of eight states, patience, the call and number it believes in | `msgReceived`, `setState`, `decPatience`, `getReply`, `getSendDelay`, `isMyCall` | asked and told by its DX station |
| DX station (`dxstation.cpp` on `station.cpp`) | one of five states, timeout, envelope being sent | `processEvent` (mestarted, mefinished, msgsent, timeout), `tick`, `get_buffer`, `dataToLastQso` | told by the contest when the station at the key starts and stops |
| station at the key (`mystation.cpp`) | full text, pieces, envelope, what the text was taken for | `sendText`, `abortSend`, `detectAndSetMessages`, `tick` | commanded by the servers, listened to by the DX stations |
| contest (`contest.cpp`) | the stations, `_pendingStations`, `qsoQueue`, mode | `getAudio` (audio thread), `sendText`, `abortSend`, `createPendingStations`, `popQso` (main loop), `start`, `stop` | everything |
| daemon (`testsim_daemon.cpp`) | the order of the main loop | poll the servers, create stations, drain the queue, report busy | contest and servers |
| WinKeyer server (`winkeyer.cpp`) | the command being parsed, the text buffer, busy, initialised | one byte at a time | sends text and aborts to the contest, is told of busy |
| cwdaemon server (`winkeyer.cpp`) | base speed, speed | one datagram at a time | the same |
| rigctld server (`winkeyer.cpp`) | the line being collected, frequency, mode | one byte at a time | the same |
| transports (`winkeyer.cpp`) | sockets, connection | open, poll, read, write | the servers |
| shutdown (`testsim_daemon.cpp`, `contest.cpp`) | `g_running`, the stream, the log, what is still on the queue | `signal_handler`, `Contest::stop`, the end of `main`, `~Contest` | interrupts the main thread, waits for the audio thread |
| QRN, QRM stations (`qrnstation.cpp`, `qrmstation.cpp`) | patience, pause, envelope | birth, sending, removal | add to the audio only |
| keyer (`keyer.cpp`) | the envelope being written | `getEnvelope` | gives every station what it sends |
| fading, audio processing | samples | filters | the audio only |
| configuration, call list, random numbers, WAV and log files | files | read or write | parameters, draws and output |

### What is hard about it

* Two threads: the sound card's callback runs `getAudio` under `audio_mutex`
  while the main loop commands the station, creates stations and drains the
  queue.  The request for new stations is a pair of atomics outside of the
  mutex.
* Every DX station reacts to events whose order nobody chooses: its own
  transmission ends, the CQ station starts, goes on, stops or aborts, a timeout
  runs out, sometimes all in one buffer.
* New stations are born with a message they have not heard, because they are
  told of the end of a message when they are created.
* The operator's state and patience are changed by eight kinds of message,
  several in one transmission, by direct assignments, resets and decrements.
* Three protocol servers read a byte stream or datagrams whose boundaries and
  interruptions the other side chooses.
* SIGINT and SIGTERM run `stop()` on top of whatever the main thread is doing, and
  on top of each other, while the callback works on what `stop()` deletes.
* The size of an envelope is computed one way, its marks are placed another way, and
  a message is over when a position passes the end of it.

The hazards are listed one by one, with line and property, in `PROJECT.json`.

### What makes each component correct

* operator: it comes to the end of a contact only after its full call and then
  a number; it fails when patience runs out and does not come back; it does not
  call forever.
* DX station: it does not call over a message that it has heard begin; it breaks
  off when another station is called; who is worked or has failed leaves.
* contest: every contact is put on the queue once, under the right call, and
  shown; a request for stations is neither lost for good nor doubled.
* servers: a byte is read as what it is; abort leaves nothing behind; speed is
  restored; a new client finds a clean state; the n-th answer belongs to the n-th
  line.
* call matching: an operator takes his call, a part of it or a misspelt one for what
  it is.
* shutdown: the callback never sees a deleted station, the main thread none that
  the callback has deleted, no contact is lost from the account, a signal ends the
  program.
* keyer and noise: every mark lies inside of its envelope where that has room for
  the message, every such message is heard to its end, all noise leaves.

## 2. Modules

| module | models | is used by |
|---|---|---|
| `DxOper` | the operator, pure operators over a record | `DxStation` |
| `DxStation` | one DX station, pure operators over a record | `Contest` |
| `MyStation` | the station at the key | `Contest` |
| `Contest` | the state machine: two threads, stations, request, queue | the runs |
| `QsoLog` | abstract specification: what the contest promises about contacts | refined by `Contest` |
| `CallMatch` | `isMyCall`: the distance, the corrections, the errors of careless operators, as functions | `ContestCalls` |
| `ContestCalls` | `Contest` with spelled calls: the matches are those of `CallMatch` | `MCContest` |
| `MCContest` | texts, calls, their letters and the matches for TLC | the runs |
| `WinKeyer` | the WinKeyer server, its connection, the busy flag of the main loop | the runs |
| `Cwdaemon` | the cwdaemon server, the pieces of text at the station, the speeds | the runs |
| `RigCommands` | the lines of the rigctld protocol: how one is read, what it does to the rig, what is answered; pure operators | `Rigctld` |
| `Rigctld` | the rigctld server, its connections and loggers, the rig it keeps | the runs |
| `RigService` | abstract specification: what the rigctld server promises its loggers | refined by `Rigctld` |
| `Shutdown` | the program from start to end: main thread, nested signal handlers, audio thread | the runs |
| `Keyer` | the envelope of one message, sign by sign | `NoiseStation` |
| `NoiseStation` | a QRN or QRM station from birth to removal | the runs |
| `MCWinKeyer`, `MCCwdaemon`, `MCRigctld`, `MCShutdown`, `MCNoiseStation` | what loggers send, signals, messages, for TLC | the runs |
| `DxStationProofs` | lemmas about the handlers of `DxOper` and `DxStation` | `ContestProofs` |
| `ContestProofs` | lemmas about `MyStation`, the invariant of `Contest`, its theorems, the refinement of `QsoLog` and the action properties | `CallMatchProofs` |
| `CallMatchProofs` | lemmas about the distance, and the theorems of `ContestCalls` | |
| `WinKeyerProofs`, `CwdaemonProofs`, `RigctldProofs`, `NoiseStationProofs`, `ShutdownProofs` | lemmas and theorems | |

The first group is one composition: `Contest` moves records of `DxStation`
(with an operator of `DxOper` inside) and of `MyStation`.  The servers are
models of their own.  What they need of the contest is one bit (`sending` in
`WinKeyer`) or the station's queue of pieces (`Cwdaemon`), and what the
contest needs of them is a text or an abort at any moment, which is what
`Contest` allows.  `Shutdown` is the whole program once more, seen from its
locks: the stations are ids, a text is a stay in the mutex.  It says what
`Contest` takes for granted, that the callback and the main loop are there
until the end and nothing is deleted under them.

**Handlers as sets.**  Every handler draws random numbers: a delay, a
repeat, whether to call at all.  `DxOper` and `DxStation` write a handler as an
operator from a record to the *set* of records it may become, so that
`msgReceived`, which passes the operator through six tests in a row, is a
composition of six such operators, and an event that reaches all stations is a
choice from a product (`Product` in `Contest`).

**Atomicity in the contest.**  `audio_mutex` is held throughout `getAudio`,
`sendText`, `abortSend`, `popQso` and the part of `createPendingStations` that
creates stations: each is one action.  The read of `_pendingStations`, its
reset and the creation are three actions (`LoadPending`, `StorePending`,
`CreateStations`), between which the callback may run.

**Code to model.**  `getAudio` is `GetAudio`: stations marked `deleteme` leave
(`Leaving`, with an entry for those lost to QSY), one buffer is mixed
(`GetBuffer`, `MeBuffer`), the station at the key ticks and the others hear
of the end of its message (`HearEnd`), everybody ticks (`Tick`), the QSO check
queues and marks who is done (`QsoCheck`), and callers are asked for
(`NewCallers`, or 1 in single mode on an empty band).  `processEvent` is split by
event: `OnMsgSent`, `OnTimeout`, `OnMeFinished`, `OnMeStarted`, each under
`ProcessEvent`, the early return for `Done`.  `detectAndSetMessages` is `Detect` on
the text; the searches of the code (`find(" 5NN ")`, `find("CQ ") == 0`) are
`FoundAt`, `Has` and `Begins`, and `Before` is the `substr` up to a place found.

**Abstractions.**
* A text is a sequence of parts, and a blank is a part.  The code searches for
  strings and finds them in the middle of words as well: `AGN` and `" TU"`
  anywhere, `?` and `NR?` at the beginning of whatever follows.  So a text is cut
  where something the code looks for begins or ends: the call `W1AGN` is
  `<<"W1", "AGN">>`, and is taken for a question as in the code.  A call keeps the
  blanks around it: one that is continued by a text with a blank of its own in
  front ends in a blank, and is only nearly the call.  An empty text
  (`sendText("")`) is not sent by the model.
* Time is counted in buffers, as `tick` does.  A negative timeout is -1: the
  code only compares it with 0.
* What `isMyCall` says of a call and a word is the constant relation `Match`; the
  theorems of `ContestProofs` hold for every such relation, and `ContestCalls` is
  about the one the code computes on the characters of all the parts, blanks
  included.
* The exchanged number, RST, pitch, amplitude and speed are left out: no
  control depends on them.  `repeatCnt` lengthens a transmission and is left
  to `TxLens`.
* Pieces of the text being sent and their envelopes are left to `MeLens`.
* `getAudio`'s return for a wrong number of frames does nothing.

**Auxiliary fields.**  No handler reads `heard` (what has come through for the
station since another call was sent) nor `late` (it was born during a
message); they exist to state properties.

**Unlocked reads.**  `hasQso`, `isSending` and `dxCount` are called by
the main loop without the mutex.  In C++ that is a data race on a deque, an enum
and a vector.  `hasQso` is modelled as an atomic test of emptiness; the other
two only feed the busy flag and the status line.

**WinKeyer.**  `poll` is split at every byte it reads: `ReadCommand` is
`processCommand` up to its parameter, `ReadParameter` the rest, `NoParameter` and
`NothingToRead` are a `readByte` that returns -1.  Between any two of them the
logger may send on, hang up, or lose the connection with what was not read.
`Accept` and `Poll` are `pollConnections`; `UpdateBusy` is the end of the main
loop with `setBusy`.  A byte carries the role the logger gave it, which the server
does not see: that is what `BytesAreUnderstood` compares.  The code keeps the
collected text in a string; as the text never leaves the server, the model only
has the mode.  How many parameters a command has is for the logger to know: a message
is a command with any number of them, and a command that has others than the server
reads (`Odd`) is sent like every other.

**Cwdaemon.**  `processMessage` and `processText` are split at every call into
the contest (`Segment`, `InlineSpeed`, `RestoreSpeed`, `AbortCommand`), because each
takes `audio_mutex` for itself and a piece may end in between (`EndPiece`).
A datagram is a sequence of items: words, an inline change, a command with its
argument.  The station is its queue of pieces, the speed it has and the speed of the
envelope being played; `stale` marks a piece that waited while the speed was
changed.  The words themselves are in `MyStation`.

**Rigctld.**  `poll` is `Accept` (`pollConnections`, which replaces the client
without a look at what was collected), then one action per character read:
`Collect`, `EmptyLine`, `ProcessLine`, `ProcessThrows` and `EndPoll`, with
loggers free to connect, send and leave in between.  A line is a sequence of
tokens (`Words`, and the characters of `Newline`).  `left` is no variable of the
code: it remembers what was in the buffer when a connection ended, until a line is
carried out.  `RigService` knows lines only: each logger has a list of them, a step
carries out the next line of one of them and answers it, and who leaves in the
middle of a line leaves its beginning in front of the next one, whoever sends that.
`ImplementsRigService` says that the server is this, with `asked` the lines the
loggers have begun to send and `gone` those who have had their turn (`Gone`).
In `RigCommands`, `Parsed` is the reading of a line by `processCommand` and
`processLongCommand`: a short command is its first letter and takes its
arguments from the third place on, a long one ends at the first space;
`Effect` and `Says` are what the daemon's callbacks do to the rig and what is
answered.  `stoi` and `stoll` are the question whether an argument, after its
blanks, begins with a number: an `F` left in front of `F 7030000` makes a line that
sets the frequency.  Nobody catches what they throw, so `ProcessThrows` ends the
program, and so may a write to a client that has gone (SIGPIPE).

**Call matching.**  `CallMatch` has the distance matrix as a recursive function on
its places (`Cell` is one entry), the search for a part before it, the corrections
after it, and the swap a careless operator makes.  `Meant` is a definition without
a distance: his own call; a part of it, or an end of it with one letter more, less
or wrong, but of two letters only a careless operator takes more than a part for
his, and of one nobody takes anything.  `CallsAreTakenAsMeant` says for each
station that is ever on the band that `isMyCall` agrees with it, for careful and
careless operators, on every word of the letters at hand up to one more than in
the call, that letters not copied never make his call another's as long as two
were, and that what the contest runs on (`Match`) is what is meant.
`MatchAssumption` ties `Match` to `isMyCall`; `CallsAssumption` asks of the calls
that they have two letters and no wildcard: those of `MASTER.SCP` have three or more, and no `?`.

**Shutdown.**  `at` is the program counter of `main`, `stopping` that of
`stop()` at every level: in `main` itself and in the handler of each signal;
`handling` is the stack of handlers.  Only its top runs, so `OpenStream` can
come after the handler's `stop()` and not in the middle of it.  A signal
interrupts between any two steps, also while the main thread holds
`audio_mutex` and walks through the stations.  That walk is one step per station:
`Tell` is the loop of `onMeStartedSending` and `onMeFinishedSending`, `todo` those
that have not been told; `CreateStation` and `Greet` are one round of
`createPendingStations`.  A handler in between may delete the station that is told
next.  What a call on it does is undefined, and the model lets the program go on
or end (`crash`).  Of `getAudio`, `Leave` removes a station that has given up, with
the entry for the queue that `qsy` asks for, `MixAndTick` removes who was worked
before, and `QueueQso` and `LogQso` are the check for contacts.  The number the
program calls QSOs therefore counts the stations that gave up after a call as well
(`quits`).  RtAudio is outside of `src/` and taken at its word: a callback begins
only on a running stream, and `closeStream` joins the thread.  `stop()` deletes the
stations in two steps, `delete` and `clear()`; deleting them twice, when two
`stop()` nest in just that place, is undefined and let go by.  That `delete` and
the output in the handler are themselves not safe there (the interrupted thread may
hold the allocator's or the stream's lock) is not modelled.

**Keyer and noise.**  `NewEnvelope` sizes the envelope (the quotient is one of
integers, `ceil` comes too late: up to a buffer less one sample is cut off; `Room`
says for which messages the pause at the end makes up for that), `Dit`, `Dah` and `Gap` are what each sign
writes; a message is the number of its signs, and they come in any order,
which is every text and more.  `NoiseStation` lets `getAudio` take the station
through one buffer: `Create`, keying, mixing (`Remove`, `GetBuffer`), `tick`
(`QrnSent`, `QrmSent`, `Pause`, `EndPause`).  One station at a time, as they
do not know of each other.  `played` counts the samples for the property.

**Assumptions about loggers.**  A WinKeyer logger sends any bytes.  The number
of a cwdaemon speed command goes on to the end of its datagram, a reply to the
next escape character.  One server keys the station in `Cwdaemon`: a WinKeyer
speed command that reaches the station in between is not part of that module.
rigctld loggers send any lines; those of the run have the arguments their commands
need, but a line that is cut off may lose them.

## 3. Runs

| run | question | instance | distinct states |
|---|---|---|---|
| `one_station` | what can any order of texts, continuations, aborts, timeouts and thread steps do to one station, and does it take calls as they are meant? | the code's patience 8, careless operators, eleven texts, one call of which two texts are a part or nearly so, messages of up to six parts | 226k |
| `two_stations` | does calling one station break off the other, does nobody call over a message, are contacts recorded as `QsoLog` promises? | two stations, two calls, careful operators, patience 3, messages of 1 or 2 buffers, continued once and up to six parts | 596k |
| `single_mode` | is the hand-over of the request safe and live, do callers and contacts come to an end? | single mode, three ids, patience 2, `FairSpec` | 95k |
| `one_at_a_time` | is there never more than one station in single mode? | as above, two ids | violated |
| `winkeyer` | are bytes understood and is the logger told the truth, through hang-ups and reconnections, and in the end? | eleven messages, two unread bytes, `FairSpec` | 3.1M |
| `winkeyer_text` | does a null byte end a text? | as above | violated |
| `cwdaemon` | do pieces, speeds and aborts agree with the audio thread running between any two calls, and does the station fall silent? | fourteen datagrams, five pieces, speeds 21 to 31, `FairSpec` | 856k |
| `cwdaemon_inline_speed` | is a piece keyed with the speed it was sent with? | as above | violated |
| `rigctld` | is the server the `RigService` it looks like, however lines are cut up and clients follow each other, and is every line answered? | two loggers, seven lines, two lines in all, `FairSpec` | 427k |
| `shutdown` | start, loop and end under signals and callbacks: who may use a deleted station, is anything lost from the account or left behind, and does a signal end the program? | two signals, two stations, `FairSpec` | 860k |
| `stop_on_signal` | does a signal always end the program? | one signal | violated |
| `noise` | are marks inside of their envelopes and messages heard to the end where there is room, and does all noise leave? | buffers of 9 samples, three speeds, messages of up to six signs, `FairSpec` | 13k |

**Bounds and why they are enough.**
* `Ids` bounds the stations on the band at once.  An id is free again when its
  station leaves, so a run has no end of stations.  Two stations are all that
  the pairwise properties need; single mode gets three, one more than the two
  that `AtMostTwoInSingleMode` allows.
* `FULL_PATIENCE` is the code's 8 where one station is studied.  3 and 2
  keep every branch (`HALF_PATIENCE`, patience - 1 below 1, the replies that
  depend on patience 7, i.e. `FULL_PATIENCE - 1`).
* `SendDelays = {0}`, `ReplyTimeouts = {1}`: the shortest delays make a station
  answer in the same buffer, the case that collides; one buffer leaves room
  for every other event in between.  The proofs cover all delays.
* `MaxLeft`, `MaxWords`: a message of one buffer may be continued by one more, up
  to five or six parts, which is enough for a call continued by a report with or
  without a blank in front, and for `TU` behind a call.
  `MaxNew` bounds the draw of callers by the number of ids.
* `MCMessages` has one message for every kind of branch of `processCommand`: a
  parameter that changes the state, one that reads as a command (`<<3, 21>>`, the
  weight 21 is CLEAR_BUFFER), a letter, the terminator, the two queries, an unknown
  command without a parameter, one with a parameter that the server does not read
  (`<<10, 21>>`, HSCW_SPEED), and one with a second parameter (the sidetone).
  `MaxIn = 2` is a whole command with its parameter waiting; a
  command may be split at every place.
* `MCDatagrams` has a text with its middle faster, texts that change the speed for
  good, changes with nothing to key, every command, text before and after an abort,
  speeds inside, at and outside of the range.  `MIN_WPM` 21 and `MAX_WPM` 31
  instead of 5 and 60 let inline changes from 24 and 30 reach both limits.
  `MaxPieces = 5` is the longest text behind another; it bounds what is received,
  never what is done with it.
* `MCLines` has a line for every way a line is read and every kind of effect:
  a query, a set with a number, a mode with and without its passband, an
  unknown letter, a long set, a long command the server does not have.  A short
  command left over makes the next one's letter a part of the line, with a number
  behind it that is taken or none.  Two
  lines are enough for one to be left over in front of the other, on the same
  connection or on the next; each is cut at every place, between `\r` and `\n`
  too.
* `K1AA` and `X1XX` share the digit only, and the second call supplies a letter
  that is strange to the first; the words of up to five of these letters and the
  blank hold
  every kind of error at every place, two of them at once and parts.
* Two signals nest in either order; a third would nest no differently, as the
  handler only looks at its own level.  Two stations let one be worked while
  the other stays.
* Of `noise` the speeds are three: `BufSize` 9, `Ramp` 3 and a dit of 4 sit on the
  edge of what has `Room` for every message (`2 * 4 = 9 - 1`); a dit of 3 has it for
  a message with one space, a dit of 2 for one with two.
* `SYMMETRY` in `two_stations`: ids are interchangeable in every definition; the
  run has no liveness property.
* Deadlock is checked in the runs of `Contest`, `WinKeyer`, `Cwdaemon` and
  `NoiseStation`: the band never stops, and neither do the main loop and the
  loggers.  In `Shutdown` and `Rigctld` the program ends, as it should or not;
  what may stop it is said by `EndsOrIsStuck`, and `LinesAreAnswered` makes an
  exception of it.

**Fairness.**  `single_mode` uses `WF(GetAudio)`: the sound card asks for buffers
as long as the stream is open; and `WF(MainLoop)`: the loop has no blocking
call but its sleep.  The commands of loggers have none.  `CallersGiveUp` is
therefore conditional on the station at the key being silent for good.
`winkeyer` uses `WF(MainLoop)` alone: the logger may stop anywhere, and
`LoggerHearsTheEnd` is about one that does.  `cwdaemon` uses `WF(EndPiece)`, the
sound card again, and `WF(Working)`, the main loop once it has a datagram;
datagrams need not come.  `rigctld` uses `WF(poll)`: a logger that has begun a line
need not end it.  `shutdown` uses `WF(MainThread)` and `WF(Audio)`, each thread as a
whole, as the operating system schedules them; the mutex is given to whoever comes,
and signals need not come.  `noise` uses `WF(Next)`, the sound card.

**What the violated runs show.**  Each is a statement of a comment or of
`src/README.md` that the code does not keep; `PROJECT.json` quotes them.
* `AtMostOneInSingleMode`: the README offers "Single mode for one-at-a-time QSO
  practice".  The request is reset before the mutex is taken; a callback in
  between still sees an empty band and asks again.  Two are the most that can come
  of it (`AtMostTwoInSingleMode`).
* `TerminatorEndsText`: 0x00 is the command ADMIN before it could be the end
  of a text, so a WinKeyer logger's text never reaches the contest, and the
  byte after the terminator is taken for ADMIN's parameter.
  `BytesAreUnderstood` therefore holds up to the first terminator of a
  connection (`astray`), up to the first parameter that arrives later than
  its command, and up to the first command whose parameters are not those the
  server reads: `winkeyer.cpp:16-39` has names for commands (HSCW_SPEED, POTSETUP,
  KEY_BUFFERED and others) that have a parameter and are read without one.
* `KeyedAsSent`: a piece is encoded when it comes up, with the speed of that
  moment; the changes behind it in the same text have been made by then.  What
  does hold is `KeyedAsSentUnlessChanged`.
* `StopsOnSignal`: the daemon says "Press Ctrl+C to stop".  If the signal
  comes while the main thread holds `audio_mutex` (in `sendText`, `popQso` or
  the creation of stations) and a callback waits for it, the handler waits in
  `closeStream` for the callback, which waits for the thread the handler has
  interrupted.  `EndsOrIsStuck` shows that of the locks and loops of the module
  nothing else keeps it from ending.  A program that ends because it used a deleted
  station has ended too.

**What else the code does, seen while modelling.**
* Before anything has been sent a new station hears an empty message with patience
  0 and fails at once.  In single mode stations come and go like that until the
  first CQ.
* The text `W1AGN`, a call with `AGN` in it sent alone, is a question to everybody
  and not a call; `K1AA` continued by a report that begins with a blank is only
  nearly `K1AA`.
* A signal that arrives while the main thread tells the stations of a message
  deletes them under it: `MainSeesLiveStations` says that nothing else does.
* The number of QSOs in the final statistics and the [QSO] lines counts stations
  that left after a call without a contact (`qsy`, on unless configured
  otherwise): `StatisticsAddUp`.
* `mestarted` puts a station marked `deleteme` back to copying; an abort then
  makes a careful operator wait for the end of a contact again.
  `FailedGivesUp` is therefore checked, and proved, with careless operators.
* A station that is sending when another is called does not hear it.  What
  does hold is `CallingAnotherBreaksOff`, for all who were not sending; of
  careless operators only for those who have copied the message from its
  beginning (`CopiedCallBreaksOff`).
* rigctld: what a client left unfinished stands in front of the next client's
  first line, which is then read as something else or ends the program.  That is
  part of `RigService` (`Leave`): it states what the code does, and that nothing
  else goes wrong.
* The documents of rigctld promise more than the code keeps:
  `RIGCTL_PROTOCOL.md:281-285` says that errors are answered with a code, and
  `RIGCTL_IMPLEMENTATION.md:253-255` and `302-306` that wrong arguments and
  reconnections are handled; a number that is missing ends the program instead, as
  may a client that leaves while it is answered.  The model has both
  (`ProcessThrows`, `alive`), and no property of the passing run denies them.
  `\get_ptt` and `\set_ptt` are answered `RPRT -4` although
  `RIGCTL_PROTOCOL.md:98-100` and `RIGCTL_IMPLEMENTATION.md:81-82` list them; the
  short forms work.
* `onDetectMessage` of the cwdaemon server is never set by the daemon.
* Above 51 words per minute, which cwdaemon allows up to 60 and WinKeyer to any
  byte, a message of one character has no `Room`: a lone `O` at 60 reaches 10298
  samples in an envelope of 10240, and the last of its mark is written behind the
  envelope.  Up to 60 every longer message has room.

## 4. Proofs

### Contest

From `DxOperAssumption`, `DxStationAssumption`, `MyStationAssumption` and
`ContestAssumption` only (sets of natural numbers, `Match` within the three
answers, `Ids` finite, the blank a string):

* `Invariant`: `Spec => []IInv`.
* `TypeCorrect`, `NoContactWithoutExchange`, `NoReportWithoutNumber`,
  `PatienceAgrees`, `WorkedStationsAreMarked`, `NobodyWaitsToAnswer`: the
  invariants of the runs, each from `Invariant`.
* `NeverMoreThanTwo`: `Spec => []AtMostTwoInSingleMode`, from an invariant of its
  own, `SingleInv`.
* `ContactsAreRecordedOnce`: `Spec => ImplementsQsoLog`, the refinement.
* `AnotherCallBreaksOff` (of careful operators: `~Lids`), `CopiedCallBreaksOff` (of
  all) and `CarelessGiveUpForGood` (of careless ones: `Lids`), the action
  properties.

**The inductive invariant.**  None of the run's invariants is inductive.
`QsoNeedsCallAndNumber` needs to know that an operator in `NeedCallNr` has
heard nothing wrong, `ReportOnlyAfterNumber` needs to know that a message
being sent was justified when it began and that `heard` is not taken away
while the station sends (it cannot hear then), and `WorkedIsMarked` holds
between two actions but not in the middle of `GetAudio`.  So there are two
strengths.  `Sound(st)` is what every handler preserves on its own: type,
patience and state in agreement, the state justified by `heard`, the message
on the air justified by `heard`.  `Settled(st)` adds what is true between two
steps: a station whose operator is done is marked `deleteme`, and a station
that is sending has something left to send.  `DxStationProofs` shows `Sound`'s
operator part through the six tests of `msgReceived` (`MsgReceivedFits`),
then all of it for every event, and that an event takes a settled
station to a settled one unless it completes a contact; `ContestProofs` lifts
this through `Product` to all stations and closes the gap with the QSO check.

**A newborn cannot be worked.**  `CreateStations` tells a station of the last
message outside of `GetAudio`, where no QSO check follows.  That
`WorkedIsMarked` survives rests on what a text can be taken for: never a
number and a `tu` at once (`SaysNoMoreThan`), so one message cannot take
an operator from `NeedPrevEnd` to `Done`.

**`SingleInv`.**  `DxCount + StillToCome <= 2` is not inductive: one has to know
that a request still to come of more than one is impossible, and that the
number read by the main loop is at most one.

**The refinement.**  `QsoLog` sees of a station its call and whether it has been
worked, and the queue as the list of contacts.  Most steps leave both alone:
`HearEnd`, `Tick` and a timeout outside of `GetAudio` neither change a call nor
complete a contact (`NobodyWorked`), and a newborn has nothing behind it
(`CreateStationsRefines`).  `GetAudio` is `QLog!Buffer`: who was marked on entry
leaves, and by `Settled` that is everybody who was worked, so nobody is put on
the queue a second time; the QSO check walks the stations in some order and
appends exactly those whose operator has become `Done` in this buffer.  The lemma
on `Cardinality` is needed because `QsoLog` counts entries and `Contest` orders
them.  `PopQso` is `QLog!Show`, and the handling of requests stutters.

**The action properties.**  They are about what a station may still believe when a
message ends, so each follows the station through one `GetAudio` or `AbortSend`:
buffer, end of message, tick, in this order (`StationBufferParts`).  Whoever is
copying has the whole message put to `msgReceived`, and a call that is not his
takes him out of every state of a contact; of a careful operator that is so
in every other state but `sending` too, since what he does not copy he is told
of as garbage, and garbage costs him the contact.  A careless operator ignores
garbage, which is why `AnotherCallBreaksOff` needs `~Lids`, and for the same
reason he never leaves `Failed`, which is why `CarelessGiveUpForGood` needs `Lids`:
each is false without.

### Call matching

From `CallsAssumption` and `MatchAssumption` (see section 2): `CallsTakenAsMeant`, `Spec =>
[]CallsAreTakenAsMeant`, for calls of any letters and any length, on a band of any
size.  It needs of the contest only that whoever is on the band has a call
(`TypeCorrect`); the rest is about `isMyCall` and stated without the contest:
`WordsAreTakenAsMeant` (whatever is sent in full is taken as it is meant) and
`BlanksAreForgiven` (letters not copied do not make his call another's).

The distance is computed by recursion, and the prover has no induction that takes a
formula.  What it can use is a set: a set of numbers with 0 in it and the
successor of each of its numbers has them all (`Upwards`, `UpTo`), because one left
out would have a least one.  With that, along the rows of the matrix:
* There is a matrix (`MatrixExists`): filled up to one diagonal, it can be filled
  up to the next, since an entry looks at three neighbours on earlier ones.
  `MatrixIs` is the recursion, `EntryAtMostOne` what it says of small entries.
* A distance of 0 means an end of the call (`ZeroMeans`), one of at most 1 an end
  with at most one letter wrong, too many or missing (`AtMostOneMeans`).  `Near` is
  a statement about places, the place of the error its witness.  That is enough as
  an induction hypothesis because nobody is asked about a distance above 1, and
  an entry of at most 1 comes from entries of at most 1, from a 0 if it costs
  something (`NearStep`).
* An end of which a letter is removed, replaced or inserted is a sequence
  (`EndOf`, `RemoveAtIs`, `InsertAtIs`); its letters are where `Near` says
  (`NearIsMisspelt`), and if it is no part, distance 0 is the call itself
  (`ZeroIsHisOwn`).
* Where a letter was not copied the entry is no more than the one on the diagonal
  before it (`EntryOfWildcard`), hence `BlanksCostNothing`.

### WinKeyer

From `WinKeyerAssumption` (messages are bytes, and not empty): `TypeCorrect`,
`BytesUnderstood`, `LoggerIsRight`, `NotBusyInSilence`, each from `Invariant`.

`BytesAreUnderstood` looks at the first unread byte only and is far from
inductive.  As long as the connection is not astray, `InOrder` says that the first
byte is a parameter exactly when the main loop waits for one, and of every other
byte up to the first command with other parameters than are read (`Plain`) that it
is a parameter exactly if the byte before announces one; `RestFits` says the same
of the seam between what has arrived and what is still to be sent, which is why a
command may be split between two arrivals.  A new
connection starts over, which is where the code must be in `read` and not in
`param`: `pollConnections` is called there only.  `LoggerKnows` and
`BusyOnlyWhileSending` are inductive together with the type.

### Cwdaemon

From `CwdaemonAssumption` (datagrams are well formed; 24, the speed of a
reset, and 30, the speed at the start, are in range): `TypeCorrect`,
`PiecesWhileSending`, `StationFollowsServer`, `KeyedWithItsSpeed`, each from
`Invariant`.

`KeyedAsSentUnlessChanged` is about the first piece.  When a piece comes up
its speed is the station's of that moment, so the invariant needs `WaitingKnow`:
every piece that waits is stale or was sent with the speed the station has
now.

### Rigctld

From `RigctldAssumption` (lines and their ends are not empty, and no line has the
end of one in it): `TypeCorrect`, `ServesLinesInOrder`, `RigIsWhatItWasMade`, each
from `Invariant`.

`ServesLinesInOrder`, `Spec => ImplementsRigService`, is the refinement.  Only
`SendLine`, `ProcessLine` and the end of a connection (`Accept` of another, `EndPoll`)
are steps of `RigService`; every other step stutters.  For `ProcessLine` to be
`CarryOut` the buffer must be what is left followed by the next line of the logger;
for the end of a connection to be `Leave` it must be what was left followed by a
beginning of the next line.  One has to know what the buffer will hold when the next
end of a line is read.
* `Mine` is what the buffer holds of the present connection: the rest, `left`,
  stood there before it.
* `InOrder` says of each logger that what is collected from him, what has
  arrived and what he has still to send are, put together (`Unread`), the lines
  not answered yet, one after the other, each whole and followed by its end
  (`Framed`, with the position of each end as a witness); and that the first
  character of the first line is the first of all.
* Characters in no line are ends, so the `\n` after a `\r` is skipped
  (`FramedSkip`); a text without an end in it, followed by one, is the next line
  and no other (`FramedFirst`, the heart of it); without that end it is a
  beginning of the next line (`FramedPrefix`); a new line goes behind the others
  (`FramedAppend`).  How a line is cut up does not matter, as the parts are only
  ever put together.  That positions grow is stated for every pair of lines and
  not for neighbours only, which saves an induction.
* `Turns`: a connection is queued once, and answered only after it was accepted;
  a logger for whom something was left has had no answer yet.  With `GoneForGood`
  (nobody who has had his turn comes back) nothing need be promised about the
  lines of those who are gone.

The same `FramedFirst` gives `RigIsWhatItWasMade` (what is carried out is a whole
line behind what was left).
That a set leaves a number behind is in `TypeOK` and rests on the guard of
`ProcessLine`.

### Noise stations and keyer

From `KeyerAssumption` (sizes are numbers, a buffer is not empty) and
`NoiseAssumption`: `TypeCorrect`, `MarksKeepToTheEnvelope`, `HeardToTheEnd`, each
from `Invariant`.

`KeyingFits` is not inductive: where the next sign begins says nothing of what
is still to come.  `Ahead` is how far the signs left carry the position: two dits
for a dot, four for a dash, two less a ramp for a space.  The invariant adds that,
if there is `Room`, the position and what is ahead of it stay within the size less
the ramp and the dit of the tilde (`SizeIsEnough`), which each sign preserves
because it takes off what it moves on (`SignTakesDits`).  That the size is rounded
down costs less than one buffer (`RoundedDown`); the pause after the last sign and
the ramps that the spaces save must be longer than that, which is `Room`, and no
assumption on the speed.  `MessageIsPlayedOut` then needs to know
that the samples played and the position agree while the envelope lasts.

### Shutdown

From `ShutdownAssumption` (the levels are distinct; the stations are finitely
many): `TypeCorrect`, `NoDeletedStationIsMixed`, `NobodyElseDeletes`
(`MainSeesLiveStations`), `LogIsAPrefix`, `NoContactIsMissed`, `EndsClean`, each from `Invariant`, for any number of
signals and stations.

The invariant has six parts beside the type.  `Threads`: a level that is in
`stop()` has its handler on the stack, so `main` goes on only when all
handlers have returned, and `audio_mutex` is held by who is in a part that
takes it (for good, if the program crashes there).  `Streams`: a level that is
about to delete has closed the stream, and after the loop the stream stays closed;
the only step that opens it is `main`'s, hence when no level is past closing it.
`Stations`: a deleted station is still in the vector only between `delete` and
`clear()`.  With `Streams` this keeps the callback from seeing one.  `Listeners`:
whoever has still to be told is alive unless a signal has come.  It needs the
mutex of `Threads`, which keeps `getAudio` out, and that `main` is not in a
`stop()` of its own while it tells.  `Accounts` and `Log`: what is queued, a contact
or a station that gave up, is counted there, and nothing is queued after the
stream is closed, so the number printed is still true at the end.

### Only model-checked

Liveness (`SingleModeIsRefilled`, `ContactsAreShown`, `WorkedStationsLeave`,
`CallersGiveUp`, `LoggerHearsTheEnd`, `FallsSilent`, `LinesAreAnswered`,
`EndsOrIsStuck`, `NoiseLeaves`) is out of the prover's reach.  Every safety
property and both refinements of the passing runs are stated by a theorem.

## 5. Not modelled, and why

* Configuration: the parsing of an ini file into what the modules have as
  constants.
* Call list, random numbers: draws, which are choices here.
* The WAV file: written and closed where the log is, with a data race between
  the two that has no set of outcomes to choose from.
* Audio processing, fading, tone: floating-point signals no control depends
  on.  (The mixing loop does not reach `DxStation`'s own `get_buffer`, so
  there is no fading.)
* The Morse table and the shape of the ramp: any order of signs is a message in
  `Keyer`.
* The end of `~Contest`: the deletion of its other members, and signals that
  arrive while that goes on or when the program has left `main`; and the
  second deletion of a station by two `stop()` that nest between `delete` and
  `clear()`; the locks of the allocator and of the output that a handler may find
  taken; QRM and QRN, which the audio thread makes and removes by itself.
* A signal while it is being handled: the system blocks it.
* Status lines, command line, creation of sockets: output and I/O.  A write to
  a client that has gone is dropped in `WinKeyer`; in `Rigctld` it may end the
  program.
* Tone, weight and PTT of cwdaemon: stored and never read.
* Data races proper: unlocked reads are listed among the hazards.

## 6. Plan

In this order:

1. The speed that cwdaemon restores on abort, after texts that end in a change; a
   WinKeyer logger and a cwdaemon logger on the same station.
2. `isMyCall` for words with letters that were not copied and errors at once, of
   which `BlanksAreForgiven` says nothing.
3. An abstract specification of a text and its keyed pieces beside `QsoLog` and
   `RigService`, and the theorem that `Cwdaemon` implements it.
