----------------------------- MODULE RigService -----------------------------
(***************************************************************************)
(* What the rigctld server promises its loggers, without sockets,          *)
(* characters or a buffer: every logger has a list of lines, and the       *)
(* server carries out the next line of one of them in a single step.       *)
(*                                                                         *)
(* A logger may go in the middle of a line.  What has been read of it      *)
(* stays, and stands in front of the next line that is carried out,        *)
(* whoever has sent it.                                                    *)
(***************************************************************************)
EXTENDS Integers, Sequences

CONSTANTS Clients,
          Lines,
          NewRig,                    \* the rig at the beginning
          Parsed(_),                 \* what a line says
          Throws(_), Effect(_, _),   \* what it does to the rig, if it can be done
          Says(_, _)                 \* what is answered

VARIABLES rig,      \* what the daemon keeps
          asked,    \* the lines of each logger
          answers,  \* what each has been answered
          left,     \* of lines whose logger has gone
          gone      \* the loggers that will not be served any more

vars == <<rig, asked, answers, left, gone>>

Init ==
  /\ rig = NewRig
  /\ asked = [c \in Clients |-> <<>>]
  /\ answers = [c \in Clients |-> <<>>]
  /\ left = <<>>
  /\ gone = {}

Waiting(c)  == c \notin gone /\ Len(answers[c]) < Len(asked[c])
NextLine(c) == asked[c][Len(answers[c]) + 1]

Ask(c, line) ==
  /\ c \notin gone
  /\ asked' = [asked EXCEPT ![c] = Append(@, line)]
  /\ UNCHANGED <<rig, answers, left, gone>>

\* The answer tells of the rig as it was before the line.
CarryOut(c) ==
  /\ Waiting(c)
  /\ LET p == Parsed(left \o NextLine(c))
     IN  /\ ~Throws(p)
         /\ rig' = Effect(p, rig)
         /\ answers' = [answers EXCEPT ![c] =
                          Append(@, [cmd |-> p.cmd, says |-> Says(p.cmd, rig)])]
  /\ left' = <<>>
  /\ UNCHANGED <<asked, gone>>

\* Nothing has been read of his next line, or its first k tokens.
Leave(c) ==
  /\ c \notin gone
  /\ gone' = gone \cup {c}
  /\ \/ UNCHANGED left
     \/ /\ Waiting(c)
        /\ \E k \in 1 .. Len(NextLine(c)) :
             left' = left \o SubSeq(NextLine(c), 1, k)
  /\ UNCHANGED <<rig, asked, answers>>

Next == \E c \in Clients :
  \/ \E line \in Lines : Ask(c, line)
  \/ CarryOut(c)
  \/ Leave(c)

Spec == Init /\ [][Next]_vars

=============================================================================
