---------------------------- MODULE NoiseStation ----------------------------
(***************************************************************************)
(* A station that is only noise for the person at the key: a burst of QRN  *)
(* or a QRM station (qrnstation.cpp, qrmstation.cpp), on what all stations *)
(* are made of: sending, get_buffer and tick (station.cpp), in the order   *)
(* in which getAudio calls them for one buffer.  These stations hear and   *)
(* change nothing but themselves, so one at a time is enough; another one  *)
(* may come when it has gone.                                              *)
(***************************************************************************)
EXTENDS Keyer

CONSTANTS Bursts,       \* the lengths of QRN in buffers
          Patience,     \* what a QRM station draws in the beginning, 1 .. 5
          Pauses,       \* b2 .. b6, in buffers
          FirstMsgs,    \* the signs of its first message
          LongCq        \* and of the others

NEVER == 2147483647       \* INT32_MAX

ASSUME NoiseAssumption ==
  /\ Bursts \subseteq Nat \ {0}
  /\ Patience \subseteq Nat \ {0}
  /\ Pauses \subseteq 0 .. NEVER - 1
  /\ FirstMsgs \subseteq Code
  /\ LongCq \in Code

VARIABLES kind,         \* what is on the band: "none", "qrn", "qrm"
          state,        \* station::state
          patience,     \* QrmStation::patience
          timeout,      \* station::timeout, in buffers
          sendpos,      \* station::sendpos
          step,         \* where getAudio is with the station
          played        \* history: the samples played of the last one

vars == <<keying, kind, state, patience, timeout, sendpos, step, played>>

\* "key1" and "key2": in getEnvelope, called by the constructor or by tick.
Step == {"create", "key1", "mix", "tick", "key2"}

Init ==
  /\ NoEnvelope
  /\ kind = "none"
  /\ state = "listening"
  /\ patience = 0
  /\ timeout = NEVER
  /\ sendpos = 0
  /\ step = "create"
  /\ played = 0

-----------------------------------------------------------------------------

\* sendMsg, sendText: the message is encoded, the station sends.
SendMsg(c) ==
  /\ NewEnvelope(c, unit)
  /\ state' = "sending"
  /\ timeout' = NEVER
  /\ played' = 0
  /\ step' = "key2"

\* getAudio: QRN and QRM stations come at random.
CreateNone ==
  /\ step = "create"
  /\ step' = "mix"
  /\ UNCHANGED <<keying, kind, state, patience, timeout, sendpos, played>>

CreateQrn ==
  /\ step = "create"
  /\ kind = "none"
  /\ kind' = "qrn"
  /\ state' = "sending"
  /\ timeout' = NEVER
  /\ \E n \in Bursts : size' = n * BufSize
  /\ reach' = size'
  /\ sendpos' = 0
  /\ played' = 0
  /\ step' = "mix"
  /\ UNCHANGED <<unit, code, left, k, patience>>

\* Its constructor sends the first message.
CreateQrm ==
  /\ step = "create"
  /\ kind = "none"
  /\ kind' = "qrm"
  /\ patience' \in Patience
  /\ \E c \in FirstMsgs, u \in Units : NewEnvelope(c, u)
  /\ state' = "sending"
  /\ timeout' = NEVER
  /\ sendpos' = 0
  /\ played' = 0
  /\ step' = "key1"

\* getEnvelope writes sign after sign and returns.
KeySign ==
  /\ step \in {"key1", "key2"}
  /\ Sign
  /\ UNCHANGED <<kind, state, patience, timeout, sendpos, step, played>>

EndKeying ==
  /\ step \in {"key1", "key2"}
  /\ left = None
  /\ step' = IF step = "key1" THEN "mix" ELSE "create"
  /\ UNCHANGED <<keying, kind, state, patience, timeout, sendpos, played>>

\* A station marked deleteme is removed.
Remove ==
  /\ step = "mix"
  /\ kind # "none" /\ state = "deleteme"
  /\ kind' = "none"
  /\ step' = "tick"
  /\ UNCHANGED <<keying, state, patience, timeout, sendpos, played>>

\* Mutant: the envelope is over when its last buffer begins.
GetBufferEarly ==
  /\ step = "mix"
  /\ kind # "none" /\ state = "sending"
  /\ played' = played + BufSize
  /\ IF sendpos + 2 * BufSize >= size
     THEN size' = 0 /\ sendpos' = 0
     ELSE size' = size /\ sendpos' = sendpos + BufSize
  /\ step' = "tick"
  /\ UNCHANGED <<unit, code, left, k, reach, kind, state, patience, timeout>>

\* get_buffer: the envelope is cleared when its last buffer has been taken.
GetBuffer ==
  /\ step = "mix"
  /\ kind # "none" /\ state = "sending"
  /\ played' = played + BufSize
  /\ IF sendpos + BufSize >= size
     THEN size' = 0 /\ sendpos' = 0
     ELSE size' = size /\ sendpos' = sendpos + BufSize
  /\ step' = "tick"
  /\ UNCHANGED <<unit, code, left, k, reach, kind, state, patience, timeout>>

Silent ==
  /\ step = "mix"
  /\ kind = "none" \/ state = "listening"
  /\ step' = "tick"
  /\ UNCHANGED <<keying, kind, state, patience, timeout, sendpos, played>>

\* tick: the end of a message.
EndOfMessage(which) ==
  /\ step = "tick"
  /\ kind = which /\ state = "sending" /\ size = 0
  /\ step' = "create"
  /\ UNCHANGED <<keying, kind, sendpos, played>>

QrnSent ==
  /\ EndOfMessage("qrn")
  /\ state' = "deleteme"
  /\ UNCHANGED <<patience, timeout>>

\* Mutant: one message more than there is patience.
QrmSentOnceMore ==
  /\ EndOfMessage("qrm")
  /\ patience' = patience - 1
  /\ IF patience' >= 0
     THEN timeout' \in Pauses /\ state' = "listening"
     ELSE timeout' = timeout /\ state' = "deleteme"

\* Mutant: the patience is not lost.
QrmSentForgets ==
  /\ EndOfMessage("qrm")
  /\ patience' = patience
  /\ IF patience' > 0
     THEN timeout' \in Pauses /\ state' = "listening"
     ELSE timeout' = timeout /\ state' = "deleteme"

\* Patience goes with every message; then there is a pause, or it is over.
QrmSent ==
  /\ EndOfMessage("qrm")
  /\ patience' = patience - 1
  /\ IF patience' > 0
     THEN timeout' \in Pauses /\ state' = "listening"
     ELSE timeout' = timeout /\ state' = "deleteme"

\* tick: a pause goes by.
Pausing ==
  /\ step = "tick"
  /\ kind # "none" /\ state = "listening" /\ timeout # NEVER
  /\ UNCHANGED <<kind, patience, sendpos>>

Pause ==
  /\ Pausing
  /\ timeout > 0
  /\ timeout' = timeout - 1
  /\ step' = "create"
  /\ UNCHANGED <<keying, state, played>>

\* At its end a QRM station sends a long CQ.
EndPause ==
  /\ Pausing
  /\ timeout = 0
  /\ SendMsg(LongCq)

\* tick: nothing happens.
Idle ==
  /\ step = "tick"
  /\ kind = "none" \/ (state = "sending" /\ size > 0) \/ state = "deleteme"
  /\ step' = "create"
  /\ UNCHANGED <<keying, kind, state, patience, timeout, sendpos, played>>

Next == \/ CreateNone \/ CreateQrn \/ CreateQrm
        \/ KeySign \/ EndKeying
        \/ Remove \/ GetBuffer \/ Silent
        \/ QrnSent \/ QrmSent \/ Pause \/ EndPause \/ Idle

Spec == Init /\ [][Next]_vars

\* The sound card keeps asking for buffers.
FairSpec == Spec /\ WF_vars(Next)

-----------------------------------------------------------------------------

TypeOK ==
  /\ unit \in Units
  /\ code \in Code /\ left \in Code
  /\ {size, sendpos, played, patience} \subseteq Nat
  /\ {k, reach} \subseteq Int
  /\ kind \in {"none", "qrn", "qrm"}
  /\ state \in {"listening", "sending", "deleteme"}
  /\ timeout \in 0 .. NEVER
  /\ step \in Step

\* In whatever order the signs of a message come, every mark of it lies inside
\* of the envelope although the size is rounded down, if there is Room
\* (getEnvelope).  Without it marks are written past the end.
KeyingFits == step \in {"key1", "key2"} /\ Room(code, unit) => MarksFit

\* A station that believes to have sent its message has been heard to the end
\* of the last mark, a QRM station if there was Room for the message
\* (getEnvelope, get_buffer, tick).
MessageIsPlayedOut ==
  /\ kind # "none" /\ state = "sending" /\ size = 0 /\ step = "tick"
  /\ kind = "qrm" => Room(code, unit)
  => reach <= played

\* All noise leaves the band in the end (msgsent, deleteme, getAudio).
NoiseLeaves == kind # "none" ~> kind = "none"

=============================================================================
