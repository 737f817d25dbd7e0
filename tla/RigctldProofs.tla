--------------------------- MODULE RigctldProofs ----------------------------
(***************************************************************************)
(* The invariants of module Rigctld hold for all lines, loggers and        *)
(* connections, and the server implements RigService.  That needs to know  *)
(* of every logger that the characters on their way to the server, from    *)
(* the buffer to what he has still to send, are the lines that have not    *)
(* been answered, one after the other and each with its end: a character   *)
(* lost or doubled would run two lines together.  What the buffer holds in *)
(* front of them is what a logger who is gone has left.                    *)
(***************************************************************************)
EXTENDS Rigctld, SequenceTheorems, WellFoundedInduction, TLAPS

\* Every non-empty set of positions has a first one.
LEMMA FirstPosition ==
  ASSUME NEW T, T \subseteq Nat, T # {}
  PROVE  \E i \in T : \A j \in T : i <= j
<1> DEFINE R == OpToRel(<, Nat)
<1>1. \E i \in T : \A j \in T : ~(<<j, i>> \in R)
  <2> HIDE DEF R
  <2>1. IsWellFoundedOn(R, Nat)
    BY NatLessThanWellFounded DEF R
  <2> QED
    BY <2>1, WFMin
<1>2. PICK i \in T : \A j \in T : ~(<<j, i>> \in R)
  BY <1>1
<1>3. ASSUME NEW j \in T
      PROVE  i <= j
  <2>1. <<j, i>> \in Nat \X Nat /\ <<j, i>>[1] = j /\ <<j, i>>[2] = i
    OBVIOUS
  <2>2. ~(j < i)
    BY <1>2, <2>1 DEF OpToRel
  <2>3. i \in Nat /\ j \in Nat
    OBVIOUS
  <2> QED
    BY <2>2, <2>3
<1> QED
  BY <1>3

\* Space finds a position, or 0.
LEMMA SpaceType ==
  ASSUME NEW s \in Seq(Words)
  PROVE  Space(s) \in 0 .. Len(s)
<1> DEFINE I == {i \in 1 .. Len(s) : s[i] = " "}
<1>1. Space(s) = IF I # {} THEN Min(I) ELSE 0
  BY DEF Space, SelectInSeq
<1>2. Len(s) \in Nat
  BY LenProperties
<1>3. I \subseteq 1 .. Len(s) /\ I \subseteq Nat
  <2>1. I \subseteq 1 .. Len(s)
    OBVIOUS
  <2> HIDE DEF I
  <2> QED
    BY <1>2, <2>1
<1> HIDE DEF I
<1>4. CASE I # {}
  <2>1. \E i \in I : \A j \in I : i <= j
    BY <1>3, <1>4, FirstPosition
  <2>2. Min(I) \in I
    BY <2>1 DEF Min
  <2>3. Space(s) \in 1 .. Len(s)
    BY <1>1, <1>3, <1>4, <2>2
  <2> QED
    BY <1>2, <2>3
<1>5. CASE I = {}
  BY <1>1, <1>2, <1>5
<1> QED
  BY <1>4, <1>5

LEMMA BeforeSpaceType ==
  ASSUME NEW s \in Seq(Words)
  PROVE  BeforeSpace(s) \in Seq(Words)
<1>1. Space(s) \in 0 .. Len(s) /\ Len(s) \in Nat
  BY SpaceType
<1> QED
  BY <1>1, SubSeqProperties DEF BeforeSpace, HasSpace

LEMMA AfterSpaceType ==
  ASSUME NEW s \in Seq(Words)
  PROVE  AfterSpace(s) \in Seq(Words)
<1>1. Space(s) \in 0 .. Len(s) /\ Len(s) \in Nat
  BY SpaceType
<1>2. <<>> \in Seq(Words)
  OBVIOUS
<1> QED
  BY <1>1, <1>2, SubSeqProperties DEF AfterSpace, HasSpace

\* A line that is not empty is a command with its arguments.
LEMMA ParsedType ==
  ASSUME NEW line \in Seq(Words), line # <<>>
  PROVE  /\ Parsed(line).cmd \in Commands
         /\ Parsed(line).args \in Seq(Words)
<1>1. /\ ShortCommand(line).cmd \in Commands
      /\ ShortCommand(line).args \in Seq(Words)
  <2>1. SubSeq(line, 3, Len(line)) \in Seq(Words)
    BY LenProperties, SubSeqProperties
  <2> QED
    BY <2>1 DEF ShortCommand, Commands
<1>2. /\ LongCommand(line).cmd \in Commands
      /\ LongCommand(line).args \in Seq(Words)
  <2>1. Tail(line) \in Seq(Words)
    BY HeadTailProperties
  <2>2. AfterSpace(Tail(line)) \in Seq(Words)
    BY <2>1, AfterSpaceType
  <2> QED
    BY <2>2 DEF LongCommand, Commands
<1> QED
  BY <1>1, <1>2 DEF Parsed

\* A command that does not throw leaves a rig behind.
LEMMA EffectType ==
  ASSUME NEW p, NEW r \in Rig, p.args \in Seq(Words), ~Throws(p)
  PROVE  Effect(p, r) \in Rig
<1>1. CASE p.cmd = "set_freq"
  <2>1. Number(p.args) \in Numbers
    BY <1>1 DEF Throws, StartsWithNumber
  <2> QED
    BY <1>1, <2>1 DEF Effect, Rig
<1>2. CASE p.cmd = "set_rit"
  <2>1. Number(p.args) \in Numbers
    BY <1>2 DEF Throws, StartsWithNumber
  <2> QED
    BY <1>2, <2>1 DEF Effect, Rig
<1>3. CASE p.cmd = "set_vfo"
  BY <1>3 DEF Effect, Rig
<1>4. CASE p.cmd = "set_mode"
  <2>1. BeforeSpace(p.args) \in Seq(Words)
    BY BeforeSpaceType
  <2>2. HasSpace(p.args) => Number(AfterSpace(p.args)) \in Numbers
    BY <1>4 DEF Throws, StartsWithNumber
  <2> QED
    BY <1>4, <2>1, <2>2 DEF Effect, Rig
<1>5. CASE p.cmd \notin {"set_freq", "set_rit", "set_vfo", "set_mode"}
  BY <1>5 DEF Effect
<1> QED
  BY <1>1, <1>2, <1>3, <1>4, <1>5

Answers == [cmd : Commands, says : Seq(Seq(Said))]

\* An answer is one record, and its lines are made of what the server says.
LEMMA AnswerType ==
  ASSUME NEW p, NEW r \in Rig, p.cmd \in Commands
  PROVE  Answer(p, r) \in Seq(Answers)
<1>1. Says(p.cmd, r) \in Seq(Seq(Said))
  <2>1. r.freq \in Said /\ r.passband \in Said /\ r.rit \in Said
    BY RigctldAssumption DEF Rig, Said
  <2>2. r.mode \in Seq(Said) /\ r.vfo \in Seq(Said)
    <3>1. r.mode \in Seq(Words) /\ r.vfo \in Seq(Words) /\ Words \subseteq Said
      BY DEF Rig, Said
    <3> QED
      BY <3>1, SeqMonotonic
  <2>3. ASSUME NEW w \in Said
        PROVE  /\ << <<w>> >> \in Seq(Seq(Said))
               /\ << <<w>>, <<>> >> \in Seq(Seq(Said))
    <3>1. <<w>> \in Seq(Said)
      OBVIOUS
    <3>2. <<>> \in Seq(Said)
      OBVIOUS
    <3> QED
      BY <3>1, <3>2
  <2>4. /\ << <<r.freq>> >> \in Seq(Seq(Said))
        /\ << r.mode, <<r.passband>> >> \in Seq(Seq(Said))
        /\ << r.vfo >> \in Seq(Seq(Said))
        /\ << <<r.rit>> >> \in Seq(Seq(Said))
    BY <2>1, <2>2
  <2>5. /\ "0" \in Said /\ "state" \in Said
        /\ "RPRT -1" \in Said /\ "RPRT -4" \in Said /\ "RPRT 0" \in Said
    BY DEF Said
  <2> QED
    BY <2>3, <2>4, <2>5 DEF Says
<1> QED
  BY <1>1 DEF Answer, Answers

-----------------------------------------------------------------------------
(***************************************************************************)
(* The characters on their way.                                            *)
(***************************************************************************)
\* ends[k] is where the k-th line ends in the characters s, for the lines after
\* the first n: each stands whole before its end, one after the other, and what
\* is in no line is the end of one.
FrameEnds(s, lines, n, ends) ==
  /\ \A k \in n + 1 .. Len(lines) :
       /\ ends[k] \in 1 .. Len(s)
       /\ ends[k] > Len(lines[k])
       /\ s[ends[k]] \in Newline
       /\ \A j \in 1 .. Len(lines[k]) :
            s[ends[k] - Len(lines[k]) - 1 + j] = lines[k][j]
       /\ \A m \in n + 1 .. k - 1 : ends[m] < ends[k] - Len(lines[k])
  /\ \A p \in 1 .. Len(s) : s[p] \notin Newline =>
       \E k \in n + 1 .. Len(lines) :
         ends[k] - Len(lines[k]) <= p /\ p < ends[k]

Framed(s, lines, n) ==
  \E ends \in [n + 1 .. Len(lines) -> 1 .. Len(s)] :
    FrameEnds(s, lines, n, ends)

LEMMA LineType ==
  ASSUME NEW lines \in Seq(Lines), NEW k \in 1 .. Len(lines)
  PROVE  /\ lines[k] \in Lines /\ lines[k] \in Seq(Words)
         /\ Len(lines[k]) \in Nat \ {0}
<1>1. lines[k] \in Lines
  BY ElementOfSeq
<1>2. lines[k] \in Seq(Words) /\ lines[k] # <<>>
  BY <1>1, RigctldAssumption
<1> QED
  BY <1>1, <1>2, EmptySeq

\* The first d characters are read: the lines that end in them are gone, and
\* the others begin after them.
LEMMA FrameShift ==
  ASSUME NEW s, NEW t, NEW lines \in Seq(Lines),
         NEW n \in Nat, NEW m \in {n, n + 1}, NEW d \in Nat,
         Len(s) \in Nat, Len(t) \in Nat, Len(s) = Len(t) + d,
         \A p \in 1 .. Len(t) : t[p] = s[p + d],
         NEW ends, FrameEnds(s, lines, n, ends),
         \A k \in n + 1 .. m : ends[k] <= d,
         \A k \in m + 1 .. Len(lines) : ends[k] - Len(lines[k]) > d
  PROVE  Framed(t, lines, m)
<1> DEFINE L == Len(lines)
           e == [k \in m + 1 .. L |-> ends[k] - d]
<1>1. L \in Nat /\ m \in Nat
  BY LenProperties
<1>2. ASSUME NEW k \in m + 1 .. L
      PROVE  /\ Len(lines[k]) \in Nat \ {0}
             /\ ends[k] \in 1 .. Len(s) /\ ends[k] > Len(lines[k])
             /\ s[ends[k]] \in Newline
             /\ \A j \in 1 .. Len(lines[k]) :
                  s[ends[k] - Len(lines[k]) - 1 + j] = lines[k][j]
             /\ \A i \in m + 1 .. k - 1 : ends[i] < ends[k] - Len(lines[k])
             /\ ends[k] - Len(lines[k]) > d
  <2>1. k \in n + 1 .. L /\ k \in 1 .. L
    BY <1>1
  <2>2. \A i \in m + 1 .. k - 1 : i \in n + 1 .. k - 1
    BY <1>1
  <2> QED
    BY <2>1, <2>2, LineType DEF FrameEnds
<1>3. ASSUME NEW k \in m + 1 .. L
      PROVE  /\ e[k] = ends[k] - d
             /\ e[k] \in 1 .. Len(t) /\ e[k] > Len(lines[k])
             /\ t[e[k]] \in Newline
             /\ \A j \in 1 .. Len(lines[k]) :
                  t[e[k] - Len(lines[k]) - 1 + j] = lines[k][j]
             /\ \A i \in m + 1 .. k - 1 : e[i] < e[k] - Len(lines[k])
  <2>1. e[k] = ends[k] - d
    OBVIOUS
  <2>2. \A i \in m + 1 .. k - 1 : e[i] = ends[i] - d /\ ends[i] \in Int
    BY <1>1, <1>2
  <2> HIDE DEF e
  <2>3. e[k] \in 1 .. Len(t) /\ e[k] > Len(lines[k])
    BY <1>2, <2>1
  <2>4. t[e[k]] \in Newline
    <3>1. t[e[k]] = s[ends[k]]
      BY <1>2, <2>1, <2>3
    <3> QED
      BY <1>2, <3>1
  <2>5. ASSUME NEW j \in 1 .. Len(lines[k])
        PROVE  t[e[k] - Len(lines[k]) - 1 + j] = lines[k][j]
    <3> DEFINE w == Len(lines[k])
               x == ends[k]
               y == e[k]
    <3>1. w \in Nat /\ x \in Int /\ x - w > d /\ j \in 1 .. w
      BY <1>2
    <3>2. y = x - d /\ y \in 1 .. Len(t)
      BY <2>1, <2>3
    <3> HIDE DEF w, x, y
    <3>3. y - w - 1 + j \in 1 .. Len(t)
      BY <3>1, <3>2
    <3>4. e[k] - Len(lines[k]) - 1 + j \in 1 .. Len(t)
      BY <3>3 DEF w, y
    <3>5. (e[k] - Len(lines[k]) - 1 + j) + d = ends[k] - Len(lines[k]) - 1 + j
      BY <1>2, <2>1
    <3> QED
      BY <1>2, <3>4, <3>5
  <2>6. ASSUME NEW i \in m + 1 .. k - 1
        PROVE  e[i] < e[k] - Len(lines[k])
    <3>1. /\ ends[i] < ends[k] - Len(lines[k])
          /\ Len(lines[k]) \in Nat /\ ends[k] \in Int
      BY <1>2
    <3>2. e[i] = ends[i] - d /\ ends[i] \in Int
      BY <2>2
    <3> QED
      BY <2>1, <3>1, <3>2
  <2> QED
    BY <2>1, <2>3, <2>4, <2>5, <2>6
<1>4. ASSUME NEW p \in 1 .. Len(t), t[p] \notin Newline
      PROVE  \E k \in m + 1 .. L : e[k] - Len(lines[k]) <= p /\ p < e[k]
  <2>1. p + d \in 1 .. Len(s) /\ s[p + d] \notin Newline
    BY <1>4
  <2>2. PICK k \in n + 1 .. L :
          ends[k] - Len(lines[k]) <= p + d /\ p + d < ends[k]
    BY <2>1 DEF FrameEnds
  <2>3. k \in m + 1 .. L
    <3>1. ends[k] \in 1 .. Len(s)
      BY <2>2 DEF FrameEnds
    <3>2. k \notin n + 1 .. m
      BY <2>2, <3>1
    <3> QED
      BY <1>1, <3>2
  <2>4. e[k] = ends[k] - d
    BY <2>3
  <2> HIDE DEF e
  <2>5. e[k] - Len(lines[k]) <= p /\ p < e[k]
    BY <1>2, <2>2, <2>3, <2>4
  <2> QED
    BY <2>3, <2>5
<1>5. e \in [m + 1 .. L -> 1 .. Len(t)]
  <2>1. \A k \in m + 1 .. L : ends[k] - d \in 1 .. Len(t)
    BY <1>3
  <2> QED
    BY <2>1
<1> HIDE DEF e
<1>6. FrameEnds(t, lines, m, e)
  BY <1>3, <1>4 DEF FrameEnds
<1> QED
  BY <1>5, <1>6 DEF Framed

\* The end of a line that has been processed already is skipped.
LEMMA FramedSkip ==
  ASSUME NEW s, NEW t, NEW lines \in Seq(Lines), NEW n \in Nat,
         Len(s) \in Nat, Len(t) \in Nat, Len(s) = Len(t) + 1,
         \A p \in 1 .. Len(t) : t[p] = s[p + 1],
         s[1] \in Newline, Framed(s, lines, n)
  PROVE  Framed(t, lines, n)
<1>1. PICK ends : FrameEnds(s, lines, n, ends)
  BY DEF Framed
<1>2. ASSUME NEW k \in n + 1 .. Len(lines)
      PROVE  ends[k] - Len(lines[k]) > 1
  <2>1. /\ ends[k] \in 1 .. Len(s) /\ ends[k] > Len(lines[k])
        /\ \A j \in 1 .. Len(lines[k]) :
             s[ends[k] - Len(lines[k]) - 1 + j] = lines[k][j]
    BY <1>1 DEF FrameEnds
  <2>2. k \in 1 .. Len(lines)
    BY LenProperties
  <2>3. lines[k] \in Seq(Words) /\ Len(lines[k]) \in Nat \ {0}
    BY <2>2, LineType
  <2>4. SUFFICES ASSUME ends[k] - Len(lines[k]) = 1
                 PROVE  FALSE
    BY <2>1, <2>3
  <2>5. s[ends[k] - Len(lines[k]) - 1 + 1] = lines[k][1]
    BY <2>1, <2>3
  <2>6. lines[k][1] \in Words
    BY <2>3, ElementOfSeq
  <2>7. ends[k] - Len(lines[k]) - 1 + 1 = 1
    BY <2>1, <2>3, <2>4
  <2> QED
    BY <2>5, <2>6, <2>7, RigctldAssumption
<1>3. \A k \in n + 1 .. n : ends[k] <= 1
  OBVIOUS
<1> QED
  BY <1>1, <1>2, <1>3, FrameShift

\* A text that does not begin with an end begins with the next line.
LEMMA FramedBegins ==
  ASSUME NEW s, NEW lines \in Seq(Lines), NEW n \in Nat, NEW ends,
         Len(s) \in Nat \ {0}, s[1] \notin Newline,
         FrameEnds(s, lines, n, ends)
  PROVE  LET line == lines[n + 1]
         IN  /\ n < Len(lines) /\ line \in Seq(Words) /\ Len(line) \in Nat \ {0}
             /\ ends[n + 1] = Len(line) + 1
             /\ s[Len(line) + 1] \in Newline
             /\ \A j \in 1 .. Len(line) : s[j] = line[j] /\ line[j] \in Words
<1>2. Len(lines) \in Nat
  BY LenProperties
<1>4. n + 1 \in n + 1 .. Len(lines) /\ ends[n + 1] - Len(lines[n + 1]) = 1
  <2>1. 1 \in 1 .. Len(s)
    OBVIOUS
  <2>2. PICK k \in n + 1 .. Len(lines) :
          ends[k] - Len(lines[k]) <= 1 /\ 1 < ends[k]
    BY <2>1 DEF FrameEnds
  <2>3. /\ ends[k] \in 1 .. Len(s) /\ ends[k] > Len(lines[k])
        /\ \A m \in n + 1 .. k - 1 : ends[m] < ends[k] - Len(lines[k])
        /\ \A m \in n + 1 .. Len(lines) : ends[m] \in 1 .. Len(s)
    BY DEF FrameEnds
  <2>4. k \in 1 .. Len(lines)
    BY <1>2
  <2>5. Len(lines[k]) \in Nat
    BY <2>4, LineType
  <2>6. k = n + 1
    <3>1. SUFFICES ASSUME k # n + 1
                   PROVE  FALSE
      OBVIOUS
    <3>2. n + 1 \in n + 1 .. k - 1 /\ n + 1 \in n + 1 .. Len(lines)
      BY <1>2, <3>1
    <3>3. ends[n + 1] \in 1 .. Len(s) /\ ends[n + 1] < ends[k] - Len(lines[k])
      BY <2>3, <3>2
    <3>4. /\ ends[k] - Len(lines[k]) <= 1
          /\ ends[k] \in Int /\ Len(lines[k]) \in Int
      BY <2>2, <2>3, <2>5
    <3> QED
      BY <3>3, <3>4
  <2> QED
    BY <2>2, <2>3, <2>5, <2>6
<1> DEFINE line == lines[n + 1]
<1>5. line \in Seq(Words) /\ Len(line) \in Nat \ {0}
  <2>1. n + 1 \in 1 .. Len(lines)
    BY <1>2, <1>4
  <2> QED
    BY <2>1, LineType
<1>6. /\ ends[n + 1] \in 1 .. Len(s) /\ s[ends[n + 1]] \in Newline
      /\ \A j \in 1 .. Len(line) : s[ends[n + 1] - Len(line) - 1 + j] = line[j]
  BY <1>4 DEF FrameEnds
<1>7. \A j \in 1 .. Len(line) : s[j] = line[j] /\ line[j] \in Words
  <2>1. ASSUME NEW j \in 1 .. Len(line)
        PROVE  ends[n + 1] - Len(line) - 1 + j = j
    BY <1>4, <1>5, <1>6
  <2> QED
    BY <1>5, <1>6, <2>1, ElementOfSeq
<1>8. ends[n + 1] = Len(line) + 1
  BY <1>4, <1>5, <1>6
<1> HIDE DEF line
<1>9. n < Len(lines)
  BY <1>2, <1>4
<1> QED
  BY <1>5, <1>6, <1>7, <1>8, <1>9 DEF line

\* Characters that begin with a text and a newline begin with a line that was
\* sent, and the text is that line.
LEMMA FramedFirst ==
  ASSUME NEW s, NEW t, NEW lines \in Seq(Lines), NEW n \in Nat,
         NEW text \in Seq(Words), text # <<>>,
         Len(s) \in Nat, Len(t) \in Nat, Len(s) = Len(t) + (Len(text) + 1),
         \A p \in 1 .. Len(t) : t[p] = s[p + (Len(text) + 1)],
         \A p \in 1 .. Len(text) : s[p] = text[p],
         s[Len(text) + 1] \in Newline, Framed(s, lines, n)
  PROVE  /\ n < Len(lines)
         /\ text = lines[n + 1]
         /\ Framed(t, lines, n + 1)
<1>1. PICK ends : FrameEnds(s, lines, n, ends)
  BY DEF Framed
<1>2. Len(text) \in Nat \ {0} /\ Len(lines) \in Nat
  BY EmptySeq, LenProperties
<1>3. \A p \in 1 .. Len(text) : text[p] \in Words
  BY ElementOfSeq
<1> DEFINE line == lines[n + 1]
<1>4. s[1] \notin Newline /\ Len(s) \in Nat \ {0}
  BY <1>2, <1>3, RigctldAssumption
<1>5. /\ n < Len(lines) /\ line \in Seq(Words) /\ Len(line) \in Nat \ {0}
      /\ ends[n + 1] = Len(line) + 1 /\ s[Len(line) + 1] \in Newline
      /\ \A j \in 1 .. Len(line) : s[j] = line[j] /\ line[j] \in Words
  BY <1>1, <1>4, FramedBegins
<1> HIDE DEF line
<1>9. Len(text) = Len(line)
  <2>1. ~(Len(text) > Len(line))
    <3>1. SUFFICES ASSUME Len(text) > Len(line)
                   PROVE  FALSE
      OBVIOUS
    <3>2. Len(line) + 1 \in 1 .. Len(text)
      BY <1>2, <1>5, <3>1
    <3> QED
      BY <1>3, <1>5, <3>2, RigctldAssumption
  <2>2. ~(Len(text) < Len(line))
    <3>1. SUFFICES ASSUME Len(text) < Len(line)
                   PROVE  FALSE
      OBVIOUS
    <3>2. Len(text) + 1 \in 1 .. Len(line)
      BY <1>2, <1>5, <3>1
    <3> QED
      BY <1>5, <3>2, RigctldAssumption
  <2> QED
    BY <1>2, <1>5, <2>1, <2>2
<1>10. text = line
  BY <1>5, <1>9, SeqEqual
<1>11. Framed(t, lines, n + 1)
  <2>1. \A k \in n + 1 .. n + 1 : ends[k] <= Len(text) + 1
    BY <1>2, <1>5, <1>9
  <2>2. ASSUME NEW k \in (n + 1) + 1 .. Len(lines)
        PROVE  ends[k] - Len(lines[k]) > Len(text) + 1
    <3>1. k \in n + 1 .. Len(lines) /\ n + 1 \in n + 1 .. k - 1
      BY <1>2
    <3> QED
      BY <1>1, <1>5, <1>9, <3>1 DEF FrameEnds
  <2>3. n + 1 \in Nat /\ Len(text) + 1 \in Nat
    BY <1>2
  <2> QED
    BY <1>1, <2>1, <2>2, <2>3, FrameShift
<1> QED
  BY <1>2, <1>5, <1>10, <1>11 DEF line

\* A text without an end in it is the beginning of the next line.
LEMMA FramedPrefix ==
  ASSUME NEW s, NEW lines \in Seq(Lines), NEW n \in Nat,
         NEW text \in Seq(Words), text # <<>>,
         Len(s) \in Nat, Len(text) <= Len(s),
         \A p \in 1 .. Len(text) : s[p] = text[p],
         Framed(s, lines, n)
  PROVE  /\ n < Len(lines)
         /\ Len(text) \in 1 .. Len(lines[n + 1])
         /\ text = SubSeq(lines[n + 1], 1, Len(text))
<1>1. PICK ends : FrameEnds(s, lines, n, ends)
  BY DEF Framed
<1>2. Len(text) \in Nat \ {0}
  BY EmptySeq, LenProperties
<1>3. \A p \in 1 .. Len(text) : text[p] \in Words
  BY ElementOfSeq
<1> DEFINE line == lines[n + 1]
<1>4. s[1] \notin Newline /\ Len(s) \in Nat \ {0}
  BY <1>2, <1>3, RigctldAssumption
<1>5. /\ n < Len(lines) /\ line \in Seq(Words) /\ Len(line) \in Nat \ {0}
      /\ s[Len(line) + 1] \in Newline
      /\ \A j \in 1 .. Len(line) : s[j] = line[j] /\ line[j] \in Words
  BY <1>1, <1>4, FramedBegins
<1> HIDE DEF line
<1>6. Len(text) <= Len(line)
  <2>1. SUFFICES ASSUME Len(text) > Len(line)
                 PROVE  FALSE
    BY <1>2, <1>5
  <2>2. Len(line) + 1 \in 1 .. Len(text)
    BY <1>2, <1>5, <2>1
  <2> QED
    BY <1>3, <1>5, <2>2, RigctldAssumption
<1>7. \A p \in 1 .. Len(text) : text[p] = line[p] /\ line[p] \in Words
  BY <1>2, <1>5, <1>6
<1> DEFINE part == SubSeq(line, 1, Len(text))
<1>8. /\ part \in Seq(Words) /\ Len(part) = Len(text)
      /\ \A p \in 1 .. Len(text) : part[p] = line[p]
  <2>1. /\ part \in Seq(Words)
        /\ Len(part) = IF 1 <= Len(text) THEN Len(text) - 1 + 1 ELSE 0
        /\ \A p \in 1 .. Len(text) - 1 + 1 : part[p] = line[1 + p - 1]
    BY <1>2, <1>7, SubSeqProperties
  <2> HIDE DEF part
  <2> QED
    BY <1>2, <2>1
<1> HIDE DEF part
<1>9. text = part
  BY <1>7, <1>8, SeqEqual
<1> QED
  BY <1>2, <1>5, <1>6, <1>9 DEF part, line

\* A line is sent: it and its end come after everything else.
LEMMA FramedAppend ==
  ASSUME NEW s, NEW t, NEW lines \in Seq(Lines), NEW n \in 0 .. Len(lines),
         NEW line \in Lines, NEW end \in LineEnds,
         Len(s) \in Nat, Len(t) = Len(s) + Len(line) + Len(end),
         \A p \in 1 .. Len(s) : t[p] = s[p],
         \A j \in 1 .. Len(line) : t[Len(s) + j] = line[j],
         \A j \in 1 .. Len(end) : t[Len(s) + Len(line) + j] = end[j],
         Framed(s, lines, n)
  PROVE  Framed(t, Append(lines, line), n)
<1> DEFINE L == Len(lines)
           more == Append(lines, line)
           e0 == Len(s) + Len(line) + 1
<1>1. PICK ends : FrameEnds(s, lines, n, ends)
  BY DEF Framed
<1> DEFINE e == [k \in n + 1 .. L + 1 |-> IF k = L + 1 THEN e0 ELSE ends[k]]
<1>2. /\ more \in Seq(Lines) /\ Len(more) = L + 1 /\ more[L + 1] = line
      /\ \A k \in 1 .. L : more[k] = lines[k]
      /\ L \in Nat /\ n \in Nat
  BY AppendProperties, LenProperties
<1>3. /\ line \in Seq(Words) /\ Len(line) \in Nat \ {0}
      /\ end \in Seq(Newline) /\ Len(end) \in Nat \ {0}
  <2>1. line \in Seq(Words) /\ line # <<>> /\ end \in Seq(Newline) /\ end # <<>>
    BY RigctldAssumption
  <2> QED
    BY <2>1, EmptySeq
<1>4. /\ e[L + 1] = e0 /\ n + 1 <= L + 1
      /\ \A k \in n + 1 .. L : e[k] = ends[k] /\ ends[k] \in 1 .. Len(s)
  <2>1. \A k \in n + 1 .. L : ends[k] \in 1 .. Len(s)
    BY <1>1 DEF FrameEnds
  <2>2. L + 1 \in n + 1 .. L + 1
    BY <1>2
  <2>3. \A k \in n + 1 .. L : k \in n + 1 .. L + 1 /\ k # L + 1
    BY <1>2
  <2> QED
    BY <1>2, <2>1, <2>2, <2>3
<1>5. e0 \in 1 .. Len(t) /\ t[e0] \in Newline /\ Len(t) \in Nat
  <2>1. t[Len(s) + Len(line) + 1] = end[1] /\ end[1] \in Newline
    BY <1>3, ElementOfSeq
  <2> QED
    BY <1>3, <2>1
<1> HIDE DEF e, more
<1>6. ASSUME NEW k \in n + 1 .. L
      PROVE  /\ e[k] \in 1 .. Len(t) /\ e[k] > Len(more[k])
             /\ t[e[k]] \in Newline
             /\ \A j \in 1 .. Len(more[k]) :
                  t[e[k] - Len(more[k]) - 1 + j] = more[k][j]
             /\ \A m \in n + 1 .. k - 1 : e[m] < e[k] - Len(more[k])
  <2>1. /\ ends[k] \in 1 .. Len(s) /\ ends[k] > Len(lines[k])
        /\ s[ends[k]] \in Newline
        /\ \A j \in 1 .. Len(lines[k]) :
             s[ends[k] - Len(lines[k]) - 1 + j] = lines[k][j]
        /\ \A m \in n + 1 .. k - 1 : ends[m] < ends[k] - Len(lines[k])
    BY <1>1 DEF FrameEnds
  <2>2. k \in 1 .. L /\ more[k] = lines[k] /\ e[k] = ends[k]
    BY <1>2, <1>4
  <2>3. Len(lines[k]) \in Nat
    BY <2>2, LineType
  <2>4. ends[k] \in 1 .. Len(t) /\ t[ends[k]] = s[ends[k]]
    BY <1>3, <2>1
  <2>5. ASSUME NEW j \in 1 .. Len(lines[k])
        PROVE  t[ends[k] - Len(lines[k]) - 1 + j] = lines[k][j]
    <3>1. ends[k] - Len(lines[k]) - 1 + j \in 1 .. Len(s)
      BY <2>1, <2>3
    <3> QED
      BY <2>1, <3>1
  <2>6. \A m \in n + 1 .. k - 1 : e[m] = ends[m]
    BY <1>2, <1>4
  <2> QED
    BY <2>1, <2>2, <2>4, <2>5, <2>6
<1>7. /\ e0 > Len(line)
      /\ \A j \in 1 .. Len(line) : t[e0 - Len(line) - 1 + j] = line[j]
      /\ \A m \in n + 1 .. L : e[m] < e0 - Len(line)
  <2>1. ASSUME NEW j \in 1 .. Len(line)
        PROVE  t[e0 - Len(line) - 1 + j] = line[j]
    <3>1. e0 - Len(line) - 1 + j = Len(s) + j
      BY <1>3
    <3> QED
      BY <3>1
  <2>2. e0 > Len(line) /\ e0 - Len(line) = Len(s) + 1
    BY <1>3
  <2>3. ASSUME NEW m \in n + 1 .. L
        PROVE  e[m] < e0 - Len(line)
    <3>1. e[m] \in 1 .. Len(s)
      BY <1>4
    <3> QED
      BY <2>2, <3>1
  <2> QED
    BY <2>1, <2>2, <2>3
<1> HIDE DEF e0
<1>8. ASSUME NEW k \in n + 1 .. Len(more)
      PROVE  /\ e[k] \in 1 .. Len(t) /\ e[k] > Len(more[k])
             /\ t[e[k]] \in Newline
             /\ \A j \in 1 .. Len(more[k]) :
                  t[e[k] - Len(more[k]) - 1 + j] = more[k][j]
             /\ \A m \in n + 1 .. k - 1 : e[m] < e[k] - Len(more[k])
  <2>1. CASE k \in n + 1 .. L
    BY <1>6, <2>1
  <2>2. CASE k = L + 1
    <3>1. k - 1 = L /\ more[k] = line /\ e[k] = e0
      BY <1>2, <1>4, <2>2
    <3> QED
      BY <1>5, <1>7, <3>1
  <2> QED
    BY <1>2, <2>1, <2>2
<1>9. ASSUME NEW p \in 1 .. Len(t), t[p] \notin Newline
      PROVE  \E k \in n + 1 .. Len(more) : e[k] - Len(more[k]) <= p /\ p < e[k]
  <2>1. CASE p \in 1 .. Len(s)
    <3>1. PICK k \in n + 1 .. L : ends[k] - Len(lines[k]) <= p /\ p < ends[k]
      BY <1>1, <1>9, <2>1 DEF FrameEnds
    <3>2. k \in n + 1 .. Len(more) /\ k \in 1 .. L
      BY <1>2
    <3>3. e[k] = ends[k] /\ more[k] = lines[k]
      BY <1>2, <1>4, <3>2
    <3> QED
      BY <3>1, <3>2, <3>3
  <2>2. CASE p \in Len(s) + 1 .. Len(s) + Len(line)
    <3>1. L + 1 \in n + 1 .. Len(more) /\ e[L + 1] = e0 /\ more[L + 1] = line
      BY <1>2, <1>4
    <3>2. e0 - Len(line) <= p /\ p < e0
      BY <1>3, <2>2 DEF e0
    <3> QED
      BY <3>1, <3>2
  <2>3. CASE p > Len(s) + Len(line)
    <3> DEFINE j == p - (Len(s) + Len(line))
    <3>1. j \in 1 .. Len(end) /\ p = Len(s) + Len(line) + j
      BY <1>3, <2>3
    <3> HIDE DEF j
    <3>2. t[p] = end[j] /\ end[j] \in Newline
      BY <1>3, <3>1, ElementOfSeq
    <3> QED
      BY <1>9, <3>2
  <2> QED
    BY <1>3, <1>5, <2>1, <2>2, <2>3
<1>10. e \in [n + 1 .. Len(more) -> 1 .. Len(t)]
  <2>1. e = [k \in n + 1 .. Len(more) |-> e[k]]
    BY <1>2 DEF e
  <2>2. \A k \in n + 1 .. Len(more) : e[k] \in 1 .. Len(t)
    BY <1>8
  <2> QED
    BY <2>1, <2>2
<1>11. FrameEnds(t, more, n, e)
  BY <1>8, <1>9 DEF FrameEnds
<1> QED
  BY <1>10, <1>11 DEF Framed, more

-----------------------------------------------------------------------------
(***************************************************************************)
(* Types.                                                                  *)
(***************************************************************************)
Chars == Words \cup Newline

LEMMA SocketType ==
  ASSUME TypeOK, NEW c \in Clients
  PROVE  /\ inbox[c] \in Seq(Chars) /\ rest[c] \in Seq(Chars)
         /\ sent[c] \in Seq(Lines)
         /\ answers[c] \in Seq(Answers)
         /\ buffer \in Seq(Chars) /\ left \in Seq(Chars)
<1>1. {buffer, left} \subseteq Seq(Words) /\ Words \subseteq Chars
  BY DEF TypeOK, Chars
<1>2. buffer \in Seq(Chars) /\ left \in Seq(Chars)
  BY <1>1, SeqMonotonic
<1> QED
  BY <1>2 DEF TypeOK, Chars, Answers

LEMMA LineWithEnd ==
  ASSUME NEW line \in Lines, NEW end \in LineEnds
  PROVE  /\ line \in Seq(Chars) /\ end \in Seq(Chars)
         /\ line \o end \in Seq(Chars)
         /\ Len(line) \in Nat /\ Len(end) \in Nat
         /\ Len(line \o end) = Len(line) + Len(end)
<1>1. line \in Seq(Words) /\ end \in Seq(Newline)
  BY RigctldAssumption
<1>2. line \in Seq(Chars) /\ end \in Seq(Chars)
  BY <1>1, SeqMonotonic DEF Chars
<1> QED
  BY <1>2, ConcatProperties, LenProperties

LEMMA InitType == Init => TypeOK
<1> SUFFICES ASSUME Init
             PROVE  TypeOK
  OBVIOUS
<1>1. /\ <<>> \in Seq(Words) /\ <<>> \in Seq(Words \cup Newline)
      /\ <<>> \in Seq(Lines) /\ <<>> \in Seq(Clients)
      /\ <<>> \in Seq(Answers)
  BY EmptySeq
<1> QED
  BY <1>1, RigctldAssumption DEF Init, TypeOK, Answers

LEMMA LoggerType == TypeOK /\ Logger => TypeOK'
<1> SUFFICES ASSUME TypeOK, NEW c \in Clients,
                    \/ Connect(c) \/ SendRest(c) \/ HangUp(c)
                    \/ \E line \in Lines, end \in LineEnds :
                         \E k \in 1 .. Len(line \o end) :
                           SendLine(c, line, end, k)
             PROVE  TypeOK'
  BY DEF Logger
<1>1. CASE Connect(c)
  <2>1. backlog' \in Seq(Clients)
    BY <1>1, AppendProperties DEF Connect, TypeOK
  <2> QED
    BY <1>1, <2>1 DEF Connect, TypeOK
<1>2. CASE SendRest(c)
  <2>1. inbox[c] \o rest[c] \in Seq(Chars) /\ <<>> \in Seq(Chars)
    BY SocketType, ConcatProperties, EmptySeq
  <2> QED
    BY <1>2, <2>1 DEF SendRest, TypeOK, Chars
<1>3. CASE HangUp(c)
  BY <1>3 DEF HangUp, TypeOK
<1>4. ASSUME NEW line \in Lines, NEW end \in LineEnds,
             NEW k \in 1 .. Len(line \o end), SendLine(c, line, end, k)
      PROVE  TypeOK'
  <2> DEFINE all == line \o end
  <2>1. all \in Seq(Chars) /\ Len(all) \in Nat
    BY LineWithEnd
  <2>2. /\ SubSeq(all, 1, k) \in Seq(Chars)
        /\ SubSeq(all, k + 1, Len(all)) \in Seq(Chars)
    <3> HIDE DEF all
    <3>1. \A i \in 1 .. Len(all) : all[i] \in Chars
      BY <2>1, ElementOfSeq
    <3> QED
      BY <2>1, <3>1, SubSeqProperties DEF all
  <2>3. inbox[c] \o SubSeq(all, 1, k) \in Seq(Chars)
    BY <2>2, SocketType, ConcatProperties
  <2>4. Append(sent[c], line) \in Seq(Lines)
    BY SocketType, AppendProperties
  <2> HIDE DEF all
  <2>5. /\ inbox' = [inbox EXCEPT ![c] = @ \o SubSeq(all, 1, k)]
        /\ rest' = [rest EXCEPT ![c] = SubSeq(all, k + 1, Len(all))]
        /\ sent' = [sent EXCEPT ![c] = Append(@, line)]
        /\ UNCHANGED <<rig, buffer, client, step, alive, backlog, peer, answers,
                       left>>
    BY <1>4 DEF SendLine, all
  <2>6. {inbox, rest}' \subseteq [Clients -> Seq(Words \cup Newline)]
    BY <2>2, <2>3, <2>5 DEF TypeOK, Chars
  <2>7. sent' \in [Clients -> Seq(Lines)]
    BY <2>4, <2>5 DEF TypeOK
  <2> QED
    BY <2>5, <2>6, <2>7 DEF TypeOK
<1> QED
  BY <1>1, <1>2, <1>3, <1>4

LEMMA PollType == TypeOK /\ poll => TypeOK'
<1> SUFFICES ASSUME TypeOK, poll
             PROVE  TypeOK'
  OBVIOUS
<1>1. ASSUME HasByte
      PROVE  /\ client \in Clients /\ inbox[client] # <<>>
             /\ Head(inbox[client]) \in Chars
             /\ Tail(inbox[client]) \in Seq(Chars)
  <2>1. client \in Clients /\ inbox[client] # <<>>
    BY <1>1 DEF HasByte, TypeOK
  <2> QED
    BY <2>1, SocketType, HeadTailProperties
<1>2. CASE Accept
  <2>1. backlog # <<>> =>
          Head(backlog) \in Clients /\ Tail(backlog) \in Seq(Clients)
    BY HeadTailProperties DEF TypeOK
  <2>2. backlog' \in Seq(Clients) /\ client' \in Clients \cup {None}
    BY <1>2, <2>1 DEF Accept, TypeOK
  <2>3. left' \in Seq(Words)
    BY <1>2 DEF Accept, TypeOK
  <2> QED
    BY <1>2, <2>2, <2>3 DEF Accept, TypeOK, loggers
<1>3. CASE Collect
  <2>1. Append(buffer, Head(inbox[client])) \in Seq(Words)
    <3>1. buffer \in Seq(Words) /\ Head(inbox[client]) \in Words
      BY <1>1, <1>3 DEF Collect, TypeOK, Chars
    <3> QED
      BY <3>1, AppendProperties
  <2> QED
    BY <1>1, <1>3, <2>1 DEF Collect, TypeOK, Chars, loggers
<1>4. CASE EmptyLine
  BY <1>1, <1>4 DEF EmptyLine, TypeOK, Chars, loggers
<1>5. CASE ProcessLine
  <2>1. buffer \in Seq(Words) /\ buffer # <<>> /\ rig \in Rig
    BY <1>5 DEF ProcessLine, TypeOK
  <2>2. rig' \in Rig
    BY <1>5, <2>1, ParsedType, EffectType DEF ProcessLine
  <2>3. Answer(Parsed(buffer), rig) \in Seq(Answers)
    BY <2>1, ParsedType, AnswerType
  <2>4. client \in Clients
    BY <1>1, <1>5 DEF ProcessLine
  <2>5. answers[client] \o Answer(Parsed(buffer), rig)
          \in Seq(Answers)
    BY <2>3, <2>4, SocketType, ConcatProperties
  <2>6. answers' \in [Clients -> Seq(Answers)]
    BY <1>5, <2>4, <2>5 DEF ProcessLine, TypeOK, Answers
  <2>7. buffer' \in Seq(Words) /\ left' \in Seq(Words)
    BY <1>5, EmptySeq DEF ProcessLine
  <2>8. inbox' \in [Clients -> Seq(Words \cup Newline)]
    BY <1>1, <1>5 DEF ProcessLine, TypeOK, Chars
  <2>9. alive' \in BOOLEAN
    BY <1>5 DEF ProcessLine, TypeOK
  <2> QED
    BY <1>5, <2>2, <2>6, <2>7, <2>8, <2>9
       DEF ProcessLine, TypeOK, Answers, loggers
<1>6. CASE ProcessThrows
  BY <1>6 DEF ProcessThrows, TypeOK, loggers
<1>7. CASE EndPoll
  <2>1. client' \in Clients \cup {None} /\ left' \in Seq(Words)
    BY <1>7 DEF EndPoll, TypeOK
  <2> QED
    BY <1>7, <2>1 DEF EndPoll, TypeOK, loggers
<1> QED
  BY <1>2, <1>3, <1>4, <1>5, <1>6, <1>7 DEF poll

LEMMA StepType == TypeOK /\ [Next]_vars => TypeOK'
<1>1. TypeOK /\ UNCHANGED vars => TypeOK'
  BY DEF TypeOK, vars, loggers
<1> QED
  BY <1>1, LoggerType, PollType DEF Next

-----------------------------------------------------------------------------
(***************************************************************************)
(* The invariant.                                                          *)
(***************************************************************************)
\* What the buffer holds of the connection: the rest stood there before it.
Mine == SubSeq(buffer, Len(left) + 1, Len(buffer))

\* What a logger has sent or will send of its lines, and is not processed yet.
Collected(c) == IF client = c THEN Mine ELSE <<>>
Unread(c)    == Collected(c) \o (inbox[c] \o rest[c])

\* The lines not answered yet are on their way, whole and in order, and the
\* first of all begins at once.
InOrder(c) ==
  /\ Len(answers[c]) <= Len(sent[c])
  /\ Framed(Unread(c), sent[c], Len(answers[c]))
  /\ answers[c] = <<>> /\ Unread(c) # <<>> => Unread(c)[1] \notin Newline

\* Nothing is collected from nobody, and nothing is promised to who has gone.
AllInOrder ==
  /\ buffer = left \o Mine
  /\ client = None => Mine = <<>>
  /\ \A c \in Clients \ Gone : InOrder(c)

\* A logger has one turn, and no answer before it; the first line that is
\* carried out takes with it what was left by others.
Turns ==
  /\ client # None => peer[client] # "new" /\ client \notin ToSet(backlog)
  /\ \A c \in ToSet(backlog) : peer[c] # "new"
  /\ \A i, j \in 1 .. Len(backlog) : backlog[i] = backlog[j] => i = j
  /\ \A c \in Clients : answers[c] # <<>> =>
       peer[c] # "new" /\ c \notin ToSet(backlog)
  /\ left # <<>> /\ client # None => answers[client] = <<>>

IInv == TypeOK /\ Turns /\ AllInOrder

LEMMA AppendSet ==
  ASSUME NEW s \in Seq(Clients), NEW c \in Clients
  PROVE  ToSet(Append(s, c)) = ToSet(s) \cup {c}
<1>1. /\ Len(s) \in Nat /\ Append(s, c) \in Seq(Clients)
      /\ Len(Append(s, c)) = Len(s) + 1
      /\ \A i \in 1 .. Len(s) : Append(s, c)[i] = s[i]
      /\ Append(s, c)[Len(s) + 1] = c
  BY AppendProperties, LenProperties
<1>2. DOMAIN s = 1 .. Len(s) /\ DOMAIN Append(s, c) = 1 .. Len(s) + 1
  BY <1>1, LenProperties
<1> QED
  BY <1>1, <1>2 DEF ToSet

LEMMA TailSet ==
  ASSUME NEW s \in Seq(Clients), s # <<>>,
         \A i, j \in 1 .. Len(s) : s[i] = s[j] => i = j
  PROVE  /\ Head(s) \in Clients /\ Head(s) \in ToSet(s)
         /\ Tail(s) \in Seq(Clients)
         /\ ToSet(Tail(s)) = ToSet(s) \ {Head(s)}
         /\ \A i, j \in 1 .. Len(Tail(s)) : Tail(s)[i] = Tail(s)[j] => i = j
<1>1. /\ Len(s) \in Nat \ {0} /\ Head(s) = s[1] /\ Head(s) \in Clients
      /\ Tail(s) \in Seq(Clients) /\ Len(Tail(s)) = Len(s) - 1
      /\ \A i \in 1 .. Len(Tail(s)) : Tail(s)[i] = s[i + 1]
  BY HeadTailProperties, EmptySeq, LenProperties
<1>2. DOMAIN s = 1 .. Len(s) /\ DOMAIN Tail(s) = 1 .. Len(s) - 1
  BY <1>1, LenProperties
<1>3. ASSUME NEW i \in 1 .. Len(Tail(s)), NEW j \in 1 .. Len(Tail(s)),
             Tail(s)[i] = Tail(s)[j]
      PROVE  i = j
  <2>1. /\ i + 1 \in 1 .. Len(s) /\ j + 1 \in 1 .. Len(s)
        /\ s[i + 1] = s[j + 1]
    BY <1>1, <1>3
  <2>2. i + 1 = j + 1
    BY <2>1
  <2> QED
    BY <1>1, <2>2
<1>4. ToSet(Tail(s)) = {s[i] : i \in 2 .. Len(s)}
  <2>1. ASSUME NEW i \in 2 .. Len(s)
        PROVE  \E j \in 1 .. Len(s) - 1 : Tail(s)[j] = s[i]
    <3>1. i - 1 \in 1 .. Len(s) - 1 /\ (i - 1) + 1 = i
      BY <1>1
    <3> QED
      BY <1>1, <3>1
  <2>2. ASSUME NEW j \in 1 .. Len(s) - 1
        PROVE  \E i \in 2 .. Len(s) : Tail(s)[j] = s[i]
    <3>1. j + 1 \in 2 .. Len(s)
      BY <1>1
    <3> QED
      BY <1>1, <3>1
  <2>3. ToSet(Tail(s)) = {Tail(s)[j] : j \in 1 .. Len(s) - 1}
    BY <1>2 DEF ToSet
  <2> QED
    BY <2>1, <2>2, <2>3
<1>5. ToSet(s) = {s[i] : i \in 2 .. Len(s)} \cup {s[1]}
  BY <1>1, <1>2 DEF ToSet
<1>6. s[1] \notin {s[i] : i \in 2 .. Len(s)}
  BY <1>1
<1> QED
  BY <1>1, <1>3, <1>4, <1>5, <1>6

LEMMA TurnsStep == TypeOK /\ Turns /\ [Next]_vars => Turns'
<1> SUFFICES ASSUME TypeOK, Turns, [Next]_vars
             PROVE  Turns'
  OBVIOUS
<1>1. ASSUME UNCHANGED <<client, backlog, answers>>,
             peer' \in [Clients -> {"new", "up", "closed"}],
             \A c \in Clients : peer[c] # "new" => peer'[c] # "new",
             left' \in {left, <<>>}
      PROVE  Turns'
  <2>1. client # None => client \in Clients
    BY DEF TypeOK
  <2>2. ToSet(backlog) \subseteq Clients
    BY ElementOfSeq, LenProperties DEF TypeOK, ToSet
  <2> QED
    BY <1>1, <2>1, <2>2 DEF Turns
<1>2. ASSUME NEW c \in Clients, Connect(c)
      PROVE  Turns'
  <2>1. /\ peer' = [peer EXCEPT ![c] = "up"] /\ peer[c] = "new"
        /\ backlog' = Append(backlog, c)
        /\ UNCHANGED <<client, answers, left>>
    BY <1>2 DEF Connect
  <2>2. /\ backlog \in Seq(Clients) /\ Len(backlog) \in Nat
        /\ Len(backlog') = Len(backlog) + 1
        /\ \A i \in 1 .. Len(backlog) : backlog'[i] = backlog[i]
        /\ backlog'[Len(backlog) + 1] = c
    BY <2>1, AppendProperties, LenProperties DEF TypeOK
  <2>3. ToSet(backlog') = ToSet(backlog) \cup {c}
    BY <2>1, <2>2, AppendSet
  <2>4. c \notin ToSet(backlog) /\ c # client /\ answers[c] = <<>>
    BY <2>1, RigctldAssumption DEF Turns, TypeOK
  <2>5. ASSUME NEW i \in 1 .. Len(backlog'), NEW j \in 1 .. Len(backlog'),
               backlog'[i] = backlog'[j]
        PROVE  i = j
    <3>1. \A k \in 1 .. Len(backlog) : backlog[k] \in ToSet(backlog)
      BY <2>2, LenProperties DEF ToSet
    <3>2. \A k \in 1 .. Len(backlog) : backlog'[k] # c
      BY <2>2, <2>4, <3>1
    <3>3. CASE i = Len(backlog) + 1
      BY <2>2, <2>5, <3>2, <3>3
    <3>4. CASE j = Len(backlog) + 1
      BY <2>2, <2>5, <3>2, <3>4
    <3>5. CASE i # Len(backlog) + 1 /\ j # Len(backlog) + 1
      <4>1. i \in 1 .. Len(backlog) /\ j \in 1 .. Len(backlog)
        BY <2>2, <3>5
      <4>2. backlog[i] = backlog[j]
        BY <2>2, <2>5, <4>1
      <4> QED
        BY <4>1, <4>2 DEF Turns
    <3> QED
      BY <3>3, <3>4, <3>5
  <2>6. \A d \in Clients : peer'[d] = IF d = c THEN "up" ELSE peer[d]
    BY <2>1 DEF TypeOK
  <2>7. ToSet(backlog) \subseteq Clients
    BY <2>2, ElementOfSeq, LenProperties DEF ToSet
  <2>8. client # None => client \in Clients
    BY DEF TypeOK
  <2> QED
    BY <2>1, <2>3, <2>4, <2>5, <2>6, <2>7, <2>8 DEF Turns
<1>3. ASSUME NEW c \in Clients, HangUp(c)
      PROVE  Turns'
  BY <1>1, <1>3 DEF HangUp, TypeOK
<1>4. ASSUME NEW c \in Clients, SendRest(c)
      PROVE  Turns'
  BY <1>1, <1>4 DEF SendRest, TypeOK
<1>5. ASSUME NEW c \in Clients, NEW line \in Lines, NEW end \in LineEnds,
             NEW k \in 1 .. Len(line \o end), SendLine(c, line, end, k)
      PROVE  Turns'
  BY <1>1, <1>5 DEF SendLine, TypeOK
<1>6. CASE Accept
  <2>1. CASE backlog = <<>>
    BY <1>1, <1>6, <2>1 DEF Accept, loggers, TypeOK
  <2>2. CASE backlog # <<>>
    <3>1. /\ client' = Head(backlog) /\ backlog' = Tail(backlog)
          /\ UNCHANGED <<peer, answers>>
      BY <1>6, <2>2 DEF Accept, loggers
    <3>2. /\ Head(backlog) \in Clients /\ Head(backlog) \in ToSet(backlog)
          /\ ToSet(backlog') = ToSet(backlog) \ {Head(backlog)}
          /\ \A i, j \in 1 .. Len(backlog') : backlog'[i] = backlog'[j] => i = j
      BY <2>2, <3>1, TailSet DEF TypeOK, Turns
    <3> QED
      BY <3>1, <3>2 DEF Turns
  <2> QED
    BY <2>1, <2>2
<1>7. CASE Collect
  BY <1>1, <1>7 DEF Collect, loggers, TypeOK
<1>8. CASE EmptyLine
  BY <1>1, <1>8 DEF EmptyLine, loggers, TypeOK
<1>9. CASE ProcessLine
  <2>1. /\ client \in Clients /\ client # None /\ left' = <<>>
        /\ \A d \in Clients : d # client => answers'[d] = answers[d]
        /\ UNCHANGED <<client, backlog, peer>>
    BY <1>9 DEF ProcessLine, HasByte, TypeOK, loggers
  <2> QED
    BY <2>1 DEF Turns
<1>10. CASE ProcessThrows
  BY <1>1, <1>10 DEF ProcessThrows, loggers, TypeOK
<1>11. CASE EndPoll
  BY <1>11 DEF EndPoll, loggers, Turns
<1>12. CASE UNCHANGED vars
  BY <1>1, <1>12 DEF vars, loggers, TypeOK
<1> QED
  BY <1>2, <1>3, <1>4, <1>5, <1>6, <1>7, <1>8, <1>9, <1>10, <1>11, <1>12
     DEF Next, Logger, poll

\* Who has gone does not come back.
LEMMA GoneForGood == TypeOK /\ Turns /\ [Next]_vars => Gone \subseteq Gone'
<1> SUFFICES ASSUME TypeOK, Turns, [Next]_vars, NEW c \in Clients,
                    peer[c] # "new", client # c, c \notin ToSet(backlog)
             PROVE  peer'[c] # "new" /\ client' # c /\ c \notin ToSet(backlog')
  BY DEF Gone
<1>1. ASSUME NEW d \in Clients, Connect(d)
      PROVE  peer'[c] # "new" /\ client' # c /\ c \notin ToSet(backlog')
  BY <1>1, AppendSet DEF Connect, TypeOK
<1>2. ASSUME NEW d \in Clients, SendRest(d) \/ HangUp(d)
      PROVE  peer'[c] # "new" /\ client' # c /\ c \notin ToSet(backlog')
  BY <1>2 DEF SendRest, HangUp, TypeOK
<1>3. ASSUME NEW d \in Clients, NEW line \in Lines, NEW end \in LineEnds,
             NEW k \in 1 .. Len(line \o end), SendLine(d, line, end, k)
      PROVE  peer'[c] # "new" /\ client' # c /\ c \notin ToSet(backlog')
  BY <1>3 DEF SendLine
<1>4. CASE Accept
  <2>1. CASE backlog = <<>>
    BY <1>4, <2>1 DEF Accept, loggers
  <2>2. CASE backlog # <<>>
    <3>1. /\ Head(backlog) \in ToSet(backlog)
          /\ ToSet(Tail(backlog)) = ToSet(backlog) \ {Head(backlog)}
      BY <2>2, TailSet DEF TypeOK, Turns
    <3> QED
      BY <1>4, <2>2, <3>1 DEF Accept, loggers
  <2> QED
    BY <2>1, <2>2
<1>5. CASE Collect \/ EmptyLine \/ ProcessLine \/ ProcessThrows
  BY <1>5 DEF Collect, EmptyLine, ProcessLine, ProcessThrows, loggers
<1>6. CASE EndPoll
  BY <1>6, RigctldAssumption DEF EndPoll, loggers
<1>7. CASE UNCHANGED vars
  BY <1>7 DEF vars, loggers
<1> QED
  BY <1>1, <1>2, <1>3, <1>4, <1>5, <1>6, <1>7 DEF Next, Logger, poll

\* The first character is taken from what has arrived.
LEMMA Taken ==
  ASSUME NEW i \in Seq(Chars), i # <<>>, NEW r \in Seq(Chars)
  PROVE  /\ Tail(i) \o r \in Seq(Chars) /\ Len(Tail(i) \o r) \in Nat
         /\ Len(i \o r) = Len(Tail(i) \o r) + 1
         /\ (i \o r)[1] = Head(i)
         /\ \A p \in 1 .. Len(Tail(i) \o r) :
              (Tail(i) \o r)[p] = (i \o r)[p + 1]
<1>1. /\ Tail(i) \in Seq(Chars) /\ Len(Tail(i)) = Len(i) - 1
      /\ \A p \in 1 .. Len(Tail(i)) : Tail(i)[p] = i[p + 1]
      /\ Len(i) \in Nat \ {0} /\ Len(r) \in Nat
  BY HeadTailProperties, EmptySeq, LenProperties
<1>2. /\ Tail(i) \o r \in Seq(Chars)
      /\ Len(Tail(i) \o r) = Len(Tail(i)) + Len(r)
      /\ \A p \in 1 .. Len(Tail(i)) + Len(r) : (Tail(i) \o r)[p] =
           IF p <= Len(Tail(i)) THEN Tail(i)[p] ELSE r[p - Len(Tail(i))]
      /\ Len(i \o r) = Len(i) + Len(r)
      /\ \A p \in 1 .. Len(i) + Len(r) : (i \o r)[p] =
           IF p <= Len(i) THEN i[p] ELSE r[p - Len(i)]
  BY <1>1, ConcatProperties
<1>3. (i \o r)[1] = Head(i)
  BY <1>1, <1>2
<1>4. ASSUME NEW p \in 1 .. Len(Tail(i) \o r)
      PROVE  (Tail(i) \o r)[p] = (i \o r)[p + 1]
  <2>1. p + 1 \in 1 .. Len(i) + Len(r) /\ p \in 1 .. Len(Tail(i)) + Len(r)
    BY <1>1, <1>2
  <2>2. CASE p <= Len(Tail(i))
    BY <1>1, <1>2, <2>1, <2>2
  <2>3. CASE p > Len(Tail(i))
    <3>1. p - Len(Tail(i)) = p + 1 - Len(i)
      BY <1>1
    <3>2. ~(p + 1 <= Len(i)) /\ ~(p <= Len(Tail(i)))
      BY <1>1, <2>3
    <3> QED
      BY <1>2, <2>1, <3>1, <3>2
  <2> QED
    BY <1>1, <2>2, <2>3
<1> QED
  BY <1>1, <1>2, <1>3, <1>4

LEMMA Joined ==
  ASSUME NEW s \in Seq(Chars), NEW t \in Seq(Chars)
  PROVE  /\ Len(s \o t) = Len(s) + Len(t)
         /\ \A i \in 1 .. Len(s) + Len(t) :
              (s \o t)[i] = IF i <= Len(s) THEN s[i] ELSE t[i - Len(s)]
BY ConcatProperties

LEMMA Regroup ==
  ASSUME NEW s \in Seq(Chars), NEW t \in Seq(Chars), NEW u \in Seq(Chars)
  PROVE  (s \o t) \o u = s \o (t \o u)
BY ConcatAssociative

\* A character goes from the socket into the buffer: together they are the same.
LEMMA Moved ==
  ASSUME NEW b \in Seq(Chars), NEW r \in Seq(Chars),
         NEW i \in Seq(Chars), i # <<>>
  PROVE  Append(b, Head(i)) \o (Tail(i) \o r) = b \o (i \o r)
<1>1. /\ Head(i) \in Chars /\ Tail(i) \in Seq(Chars)
      /\ Len(Tail(i)) = Len(i) - 1
      /\ \A p \in 1 .. Len(Tail(i)) : Tail(i)[p] = i[p + 1]
      /\ Len(i) \in Nat \ {0}
  BY HeadTailProperties, EmptySeq
<1> DEFINE h == <<Head(i)>>
<1>2. h \in Seq(Chars) /\ Len(h) = 1 /\ h[1] = i[1]
  BY <1>1
<1> HIDE DEF h
<1>3. h \o Tail(i) = i
  <2>1. /\ h \o Tail(i) \in Seq(Chars)
        /\ Len(h \o Tail(i)) = Len(h) + Len(Tail(i))
        /\ \A p \in 1 .. Len(h) + Len(Tail(i)) : (h \o Tail(i))[p] =
             IF p <= Len(h) THEN h[p] ELSE Tail(i)[p - Len(h)]
    BY <1>1, <1>2, ConcatProperties
  <2>2. ASSUME NEW p \in 1 .. Len(i)
        PROVE  (h \o Tail(i))[p] = i[p]
    <3>1. CASE p = 1
      BY <1>1, <1>2, <2>1, <3>1
    <3>2. CASE p # 1
      <4>1. p - 1 \in 1 .. Len(Tail(i)) /\ (p - 1) + 1 = p
        BY <1>1, <3>2
      <4>2. Tail(i)[p - 1] = i[p]
        BY <1>1, <4>1
      <4> QED
        BY <1>1, <1>2, <2>1, <3>2, <4>2
    <3> QED
      BY <3>1, <3>2
  <2> QED
    BY <1>1, <1>2, <2>1, <2>2, SeqEqual
<1>4. Append(b, Head(i)) = b \o h
  BY <1>1, AppendIsConcat DEF h
<1>5. Tail(i) \o r \in Seq(Chars)
  BY <1>1, ConcatProperties
<1>6. (b \o h) \o (Tail(i) \o r) = b \o (h \o (Tail(i) \o r))
  BY <1>2, <1>5, Regroup
<1>7. h \o (Tail(i) \o r) = (h \o Tail(i)) \o r
  BY <1>1, <1>2, Regroup
<1> QED
  BY <1>3, <1>4, <1>6, <1>7

\* What stands behind the first part of a text.
LEMMA Behind ==
  ASSUME NEW l \in Seq(Chars), NEW m \in Seq(Chars)
  PROVE  SubSeq(l \o m, Len(l) + 1, Len(l \o m)) = m
<1>1. Len(l) \in Nat /\ Len(m) \in Nat
  BY LenProperties
<1> DEFINE all == l \o m
<1>2. /\ Len(all) = Len(l) + Len(m)
      /\ \A i \in 1 .. Len(l) + Len(m) :
           all[i] = IF i <= Len(l) THEN l[i] ELSE m[i - Len(l)]
  BY Joined
<1> HIDE DEF all
<1>3. ASSUME NEW i \in 1 .. Len(m)
      PROVE  all[Len(l) + i] = m[i]
  <2>1. /\ Len(l) + i \in 1 .. Len(l) + Len(m) /\ ~(Len(l) + i <= Len(l))
        /\ Len(l) + i - Len(l) = i
    BY <1>1
  <2> QED
    BY <1>2, <2>1
<1> DEFINE part == SubSeq(all, Len(l) + 1, Len(all))
<1>4. \A i \in Len(l) + 1 .. Len(all) : all[i] \in Chars
  <2>1. ASSUME NEW i \in Len(l) + 1 .. Len(all)
        PROVE  all[i] \in Chars
    <3>1. i - Len(l) \in 1 .. Len(m) /\ Len(l) + (i - Len(l)) = i
      BY <1>1, <1>2
    <3> QED
      BY <1>3, <3>1, ElementOfSeq
  <2> QED
    BY <2>1
<1>5. /\ part \in Seq(Chars)
      /\ Len(part) = IF Len(l) + 1 <= Len(all) THEN Len(all) - (Len(l) + 1) + 1
                     ELSE 0
      /\ \A i \in 1 .. Len(all) - (Len(l) + 1) + 1 :
           part[i] = all[Len(l) + 1 + i - 1]
  <2>1. Len(l) + 1 \in Int /\ Len(all) \in Int
    BY <1>1, <1>2
  <2> QED
    BY <1>4, <2>1, SubSeqProperties
<1> HIDE DEF part
<1>6. Len(part) = Len(m)
  BY <1>1, <1>2, <1>5
<1>7. ASSUME NEW i \in 1 .. Len(m)
      PROVE  part[i] = m[i]
  <2>1. i \in 1 .. Len(all) - (Len(l) + 1) + 1 /\ Len(l) + 1 + i - 1 = Len(l) + i
    BY <1>1, <1>2
  <2> QED
    BY <1>3, <1>5, <2>1
<1>8. part = m
  BY <1>5, <1>6, <1>7, SeqEqual
<1> QED
  BY <1>8 DEF part, all

LEMMA MineType ==
  ASSUME TypeOK
  PROVE  Mine \in Seq(Words) /\ Mine \in Seq(Chars)
<1>1. /\ buffer \in Seq(Words) /\ Len(buffer) \in Nat /\ Len(left) \in Nat
      /\ Words \subseteq Chars
  BY LenProperties DEF TypeOK, Chars
<1>2. \A i \in Len(left) + 1 .. Len(buffer) : buffer[i] \in Words
  BY <1>1, ElementOfSeq
<1>3. Mine \in Seq(Words)
  BY <1>1, <1>2, SubSeqProperties DEF Mine
<1> QED
  BY <1>1, <1>3, SeqMonotonic

\* An empty buffer holds nothing of anybody, and nothing was left in one that
\* is the connection's own.
LEMMA NothingMine ==
  ASSUME TypeOK, buffer = left \o Mine, buffer = <<>>
  PROVE  Mine = <<>> /\ left = <<>>
<1>1. Mine \in Seq(Words) /\ left \in Seq(Words)
  BY MineType DEF TypeOK
<1>2. Len(left \o Mine) = Len(left) + Len(Mine) /\ Len(<<>>) = 0
  BY <1>1, ConcatProperties
<1>3. Len(left) = 0 /\ Len(Mine) = 0
  BY <1>1, <1>2, LenProperties
<1> QED
  BY <1>1, <1>3, EmptySeq

LEMMA UnreadType ==
  ASSUME TypeOK, NEW c \in Clients
  PROVE  /\ Collected(c) \in Seq(Chars) /\ inbox[c] \o rest[c] \in Seq(Chars)
         /\ Unread(c) \in Seq(Chars) /\ Len(Unread(c)) \in Nat
         /\ Len(answers[c]) \in Nat /\ Len(sent[c]) \in Nat
<1>1. Collected(c) \in Seq(Chars)
  BY MineType, EmptySeq DEF Collected
<1>2. inbox[c] \o rest[c] \in Seq(Chars)
  BY SocketType, ConcatProperties
<1>3. Unread(c) \in Seq(Chars)
  BY <1>1, <1>2, ConcatProperties DEF Unread
<1>4. Len(Unread(c)) \in Nat
  BY <1>3, LenProperties
<1>5. Len(answers[c]) \in Nat /\ Len(sent[c]) \in Nat
  BY SocketType, LenProperties
<1> QED
  BY <1>1, <1>2, <1>3, <1>4, <1>5

LEMMA SameOrder ==
  ASSUME NEW c \in Clients, InOrder(c), Unread(c)' = Unread(c),
         sent'[c] = sent[c], answers'[c] = answers[c]
  PROVE  InOrder(c)'
BY DEF InOrder

-----------------------------------------------------------------------------
(***************************************************************************)
(* The loggers keep it.                                                    *)
(***************************************************************************)
\* Nothing that is sent, collected or answered changes.
LEMMA IdleKeepsOrder ==
  ASSUME AllInOrder, Gone \subseteq Gone',
         UNCHANGED <<buffer, left, client, inbox, rest, sent, answers>>
  PROVE  AllInOrder'
<1>1. Mine' = Mine
  BY DEF Mine
<1>2. ASSUME NEW c \in Clients \ Gone'
      PROVE  InOrder(c)'
  <2>1. c \in Clients /\ InOrder(c)
    BY DEF AllInOrder
  <2> QED
    BY <1>1, <2>1, SameOrder DEF Unread, Collected
<1> QED
  BY <1>1, <1>2 DEF AllInOrder

LEMMA SendRestKeepsOrder ==
  ASSUME IInv, Gone \subseteq Gone', NEW c \in Clients, SendRest(c)
  PROVE  AllInOrder'
<1>1. Mine' = Mine /\ UNCHANGED <<buffer, left, client, sent, answers>>
  BY DEF SendRest, Mine
<1>2. ASSUME NEW d \in Clients
      PROVE  Unread(d)' = Unread(d)
  <2>1. CASE d = c
    <3>1. inbox'[c] = inbox[c] \o rest[c] /\ rest'[c] = <<>>
      BY DEF IInv, TypeOK, SendRest
    <3>2. (inbox[c] \o rest[c]) \o <<>> = inbox[c] \o rest[c]
      BY UnreadType, ConcatEmptySeq DEF IInv
    <3> QED
      BY <1>1, <2>1, <3>1, <3>2 DEF Unread, Collected
  <2>2. CASE d # c
    BY <1>1, <2>2 DEF IInv, TypeOK, SendRest, Unread, Collected
  <2> QED
    BY <2>1, <2>2
<1>3. ASSUME NEW d \in Clients \ Gone'
      PROVE  InOrder(d)'
  <2>1. d \in Clients /\ InOrder(d)
    BY DEF IInv, AllInOrder
  <2> QED
    BY <1>1, <1>2, <2>1, SameOrder
<1> QED
  BY <1>1, <1>3 DEF IInv, AllInOrder

LEMMA SendLineKeepsOrder ==
  ASSUME IInv, Gone \subseteq Gone', NEW c \in Clients, NEW line \in Lines, NEW end \in LineEnds,
         NEW k \in 1 .. Len(line \o end), SendLine(c, line, end, k)
  PROVE  AllInOrder'
<1>1. Mine' = Mine /\ UNCHANGED <<buffer, left, client, answers>>
  BY DEF SendLine, Mine
<1> SUFFICES ASSUME NEW d \in Clients \ Gone'
             PROVE  InOrder(d)'
  BY <1>1 DEF IInv, AllInOrder
<1>2. d \in Clients /\ InOrder(d) /\ TypeOK
  BY DEF IInv, AllInOrder
<1>3. CASE d # c
  <2>1. Unread(d)' = Unread(d) /\ sent'[d] = sent[d] /\ answers'[d] = answers[d]
    BY <1>1, <1>2, <1>3 DEF TypeOK, SendLine, Unread, Collected
  <2> QED
    BY <1>2, <2>1, SameOrder
<1>4. CASE d = c
  <2> DEFINE all == line \o end
             a == SubSeq(all, 1, k)
             z == SubSeq(all, k + 1, Len(all))
             s == Unread(c)
  <2>1. /\ inbox'[c] = inbox[c] \o a /\ rest'[c] = z /\ rest[c] = <<>>
        /\ sent'[c] = Append(sent[c], line)
        /\ answers' = answers /\ Collected(c)' = Collected(c)
    BY <1>1, <1>2 DEF SendLine, TypeOK, Collected
  <2>2. /\ all \in Seq(Chars) /\ Len(all) \in Nat
        /\ Len(all) = Len(line) + Len(end)
    BY LineWithEnd
  <2>3. a \in Seq(Chars) /\ z \in Seq(Chars) /\ a \o z = all
    <3>1. k \in 1 .. Len(all)
      OBVIOUS
    <3> HIDE DEF all
    <3>2. \A i \in 1 .. Len(all) : all[i] \in Chars
      BY <2>2, ElementOfSeq
    <3>3. a \in Seq(Chars) /\ z \in Seq(Chars)
      BY <2>2, <3>1, <3>2, SubSeqProperties
    <3>4. /\ 1 \in 1 .. Len(all) + 1 /\ k \in 1 - 1 .. Len(all)
          /\ Len(all) \in k .. Len(all)
      BY <2>2, <3>1
    <3>5. a \o z = SubSeq(all, 1, Len(all))
      BY <2>2, <3>4, ConcatAdjacentSubSeq
    <3>6. SubSeq(all, 1, Len(all)) = all
      BY <2>2, SubSeqFull
    <3> QED
      BY <3>3, <3>5, <3>6
  <2> HIDE DEF all, a, z
  <2>4. /\ Collected(c) \in Seq(Chars) /\ inbox[c] \in Seq(Chars)
        /\ sent[c] \in Seq(Lines) /\ answers[c] \in Seq(Answers)
        /\ s \in Seq(Chars) /\ Len(s) \in Nat
        /\ Len(answers[c]) \in Nat /\ Len(sent[c]) \in Nat
    BY <1>2, SocketType, UnreadType
  <2>5. s = Collected(c) \o inbox[c]
    BY <2>1, <2>4, ConcatEmptySeq DEF Unread
  <2>6. Unread(c)' = s \o all
    <3>1. Unread(c)' = Collected(c) \o ((inbox[c] \o a) \o z)
      BY <2>1 DEF Unread
    <3>2. (inbox[c] \o a) \o z = inbox[c] \o all
      BY <2>3, <2>4, Regroup
    <3>3. Collected(c) \o (inbox[c] \o all) = (Collected(c) \o inbox[c]) \o all
      BY <2>2, <2>4, Regroup
    <3> QED
      BY <2>5, <3>1, <3>2, <3>3
  <2> HIDE DEF s
  <2> DEFINE t == s \o all
  <2>7. /\ Len(t) = Len(s) + Len(line) + Len(end)
        /\ \A p \in 1 .. Len(s) : t[p] = s[p]
        /\ \A j \in 1 .. Len(line) : t[Len(s) + j] = line[j]
        /\ \A j \in 1 .. Len(end) : t[Len(s) + Len(line) + j] = end[j]
    <3>1. /\ line \in Seq(Chars) /\ end \in Seq(Chars)
          /\ Len(line) \in Nat /\ Len(end) \in Nat
      BY LineWithEnd
    <3>2. \A j \in 1 .. Len(line) + Len(end) :
            all[j] = IF j <= Len(line) THEN line[j] ELSE end[j - Len(line)]
      BY <3>1, ConcatProperties DEF all
    <3>3. /\ Len(t) = Len(s) + Len(all)
          /\ \A p \in 1 .. Len(s) + Len(all) :
               t[p] = IF p <= Len(s) THEN s[p] ELSE all[p - Len(s)]
      BY <2>2, <2>4, Joined
    <3> HIDE DEF t
    <3>4. \A p \in 1 .. Len(s) : t[p] = s[p]
      BY <2>2, <2>4, <3>3
    <3>5. ASSUME NEW j \in 1 .. Len(all)
          PROVE  t[Len(s) + j] = all[j]
      <4>1. /\ Len(s) + j \in 1 .. Len(s) + Len(all) /\ ~(Len(s) + j <= Len(s))
            /\ Len(s) + j - Len(s) = j
        BY <2>2, <2>4
      <4> QED
        BY <3>3, <4>1
    <3>6. ASSUME NEW j \in 1 .. Len(line)
          PROVE  t[Len(s) + j] = line[j]
      <4>1. j \in 1 .. Len(all) /\ j <= Len(line)
        BY <2>2, <3>1
      <4> QED
        BY <2>2, <3>2, <3>5, <4>1
    <3>7. ASSUME NEW j \in 1 .. Len(end)
          PROVE  t[Len(s) + Len(line) + j] = end[j]
      <4>1. /\ Len(line) + j \in 1 .. Len(all) /\ ~(Len(line) + j <= Len(line))
            /\ Len(line) + j - Len(line) = j
            /\ Len(s) + (Len(line) + j) = Len(s) + Len(line) + j
        BY <2>2, <2>4, <3>1
      <4>2. t[Len(s) + (Len(line) + j)] = all[Len(line) + j]
        BY <3>5, <4>1
      <4> QED
        BY <2>2, <3>2, <4>1, <4>2
    <3> QED
      BY <2>2, <2>4, <3>1, <3>3, <3>4, <3>6, <3>7
  <2>8. /\ Framed(s, sent[c], Len(answers[c]))
        /\ Len(answers[c]) \in 0 .. Len(sent[c])
    BY <1>2, <1>4, <2>4 DEF InOrder, s
  <2> HIDE DEF t
  <2>9. Framed(t, Append(sent[c], line), Len(answers[c]))
    BY <2>4, <2>7, <2>8, FramedAppend
  <2>10. Len(answers[c]) <= Len(Append(sent[c], line))
    BY <2>4, <2>8, AppendProperties
  <2>11. ASSUME answers[c] = <<>>
         PROVE  t[1] \notin Newline
    <3>1. CASE s = <<>>
      <4>1. Len(s) = 0 /\ 1 \in 1 .. Len(line) /\ Len(s) + 1 = 1
        BY <2>2, <3>1, LineWithEnd, RigctldAssumption, EmptySeq
      <4>2. t[1] = line[1] /\ line[1] \in Words
        BY <2>7, <4>1, RigctldAssumption, ElementOfSeq
      <4> QED
        BY <4>2, RigctldAssumption
    <3>2. CASE s # <<>>
      <4>1. s[1] \notin Newline
        BY <1>2, <1>4, <2>11, <3>2 DEF InOrder, s
      <4>2. 1 \in 1 .. Len(s)
        BY <2>4, <3>2, EmptySeq
      <4> QED
        BY <2>7, <4>1, <4>2
    <3> QED
      BY <3>1, <3>2
  <2>12. InOrder(c)'
    BY <2>1, <2>6, <2>9, <2>10, <2>11 DEF InOrder, t
  <2> QED
    BY <1>4, <2>12
<1> QED
  BY <1>3, <1>4

-----------------------------------------------------------------------------
(***************************************************************************)
(* poll() keeps it.                                                        *)
(***************************************************************************)
\* The place changes hands, or becomes free: all that is in the buffer has
\* been left there by who held it.
LEMMA HandOverKeepsOrder ==
  ASSUME IInv, Gone \subseteq Gone', buffer' = buffer, left' = buffer,
         client # None => client \in Gone',
         UNCHANGED <<inbox, rest, sent, answers>>
  PROVE  AllInOrder'
<1>1. Mine' = <<>>
  <2>1. Len(buffer) \in Nat
    BY LenProperties DEF IInv, TypeOK
  <2>2. Len(buffer) + 1 \in Int /\ Len(buffer) \in Int /\ Len(buffer) < Len(buffer) + 1
    BY <2>1
  <2> QED
    BY <2>2, SubSeqEmpty DEF Mine
<1>2. buffer' = left' \o Mine'
  <2>1. buffer \in Seq(Words)
    BY DEF IInv, TypeOK
  <2> QED
    BY <1>1, <2>1, ConcatEmptySeq
<1>3. ASSUME NEW c \in Clients \ Gone'
      PROVE  InOrder(c)'
  <2>1. c \in Clients /\ c # client /\ InOrder(c)
    BY RigctldAssumption DEF IInv, AllInOrder
  <2>2. Collected(c) = <<>> /\ Collected(c)' = <<>>
    BY <1>1, <2>1 DEF Collected
  <2>3. Unread(c)' = Unread(c)
    BY <2>2 DEF Unread
  <2> QED
    BY <2>1, <2>3, SameOrder
<1> QED
  BY <1>1, <1>2, <1>3 DEF AllInOrder

\* The holder of the place is served no more.
LEMMA HolderGoes ==
  ASSUME IInv, client # None, client' # client, peer' = peer,
         ToSet(backlog') \subseteq ToSet(backlog)
  PROVE  client \in Gone'
<1>1. /\ client \in Clients /\ peer[client] # "new"
      /\ client \notin ToSet(backlog)
  BY DEF IInv, TypeOK, Turns
<1> QED
  BY <1>1 DEF Gone

LEMMA AcceptKeepsOrder ==
  ASSUME IInv, Gone \subseteq Gone', Accept
  PROVE  AllInOrder'
<1>1. CASE backlog = <<>>
  BY <1>1, IdleKeepsOrder DEF Accept, IInv, loggers
<1>2. CASE backlog # <<>>
  <2>1. /\ client' = Head(backlog) /\ backlog' = Tail(backlog)
        /\ left' = buffer /\ buffer' = buffer
        /\ UNCHANGED <<peer, inbox, rest, sent, answers>>
    BY <1>2 DEF Accept, loggers
  <2>2. /\ client # None => client # Head(backlog)
        /\ ToSet(backlog') \subseteq ToSet(backlog)
    BY <1>2, <2>1, TailSet DEF IInv, TypeOK, Turns
  <2>3. client # None => client \in Gone'
    BY <2>1, <2>2, HolderGoes
  <2> QED
    BY <2>1, <2>3, HandOverKeepsOrder
<1> QED
  BY <1>1, <1>2

LEMMA EndPollKeepsOrder ==
  ASSUME IInv, Gone \subseteq Gone', EndPoll
  PROVE  AllInOrder'
<1>1. CASE client # None /\ peer[client] = "closed"
  <2>1. /\ client' = None /\ left' = buffer /\ buffer' = buffer
        /\ UNCHANGED <<backlog, peer, inbox, rest, sent, answers>>
    BY <1>1 DEF EndPoll, loggers
  <2>2. /\ client # None /\ client' # client /\ peer' = peer
        /\ ToSet(backlog') \subseteq ToSet(backlog)
    BY <1>1, <2>1
  <2>3. client \in Gone'
    BY <2>2, HolderGoes
  <2> QED
    BY <2>1, <2>3, HandOverKeepsOrder
<1>2. CASE ~(client # None /\ peer[client] = "closed")
  BY <1>2, IdleKeepsOrder DEF EndPoll, IInv, loggers
<1> QED
  BY <1>1, <1>2

\* What the next character is read from.
LEMMA Reader ==
  ASSUME TypeOK, HasByte
  PROVE  /\ client \in Clients /\ client # None
         /\ inbox[client] \in Seq(Chars) /\ inbox[client] # <<>>
         /\ rest[client] \in Seq(Chars)
         /\ Collected(client) = Mine
         /\ Mine \in Seq(Words) /\ Mine \in Seq(Chars)
<1>1. client \in Clients /\ client # None /\ inbox[client] # <<>>
  BY DEF HasByte, TypeOK
<1> QED
  BY <1>1, SocketType, MineType DEF Collected

LEMMA NotGone == TypeOK /\ HasByte => client \in Clients \ Gone
BY DEF TypeOK, HasByte, Gone

\* What is not of the connection stays as it is.
LEMMA OthersKeepOrder ==
  ASSUME IInv, Gone \subseteq Gone', HasByte, NEW i,
         inbox' = [inbox EXCEPT ![client] = i],
         \A c \in Clients : c # client => answers'[c] = answers[c],
         UNCHANGED <<client, rest, sent>>,
         NEW c \in Clients \ Gone', c # client
  PROVE  InOrder(c)'
<1>1. c \in Clients /\ InOrder(c)
  BY DEF IInv, AllInOrder
<1>2. Unread(c)' = Unread(c)
  BY <1>1 DEF Unread, Collected, IInv, TypeOK
<1> QED
  BY <1>1, <1>2, SameOrder

LEMMA CollectKeepsOrder ==
  ASSUME IInv, Gone \subseteq Gone', Collect
  PROVE  AllInOrder'
<1>1. /\ TypeOK /\ HasByte /\ buffer' = Append(buffer, Head(inbox[client]))
      /\ Head(inbox[client]) \notin Newline
      /\ inbox' = [inbox EXCEPT ![client] = Tail(inbox[client])]
      /\ UNCHANGED <<client, left, answers, rest, sent>>
  BY DEF IInv, Collect, loggers
<1> DEFINE h == Head(inbox[client])
<1>2. /\ left \in Seq(Chars) /\ Mine \in Seq(Chars) /\ h \in Chars
      /\ client \in Clients /\ client # None
      /\ Append(Mine, h) \in Seq(Chars)
  <2>1. h \in Chars
    BY <1>1, Reader, HeadTailProperties
  <2> QED
    BY <1>1, <2>1, Reader, SocketType, AppendProperties
<1> HIDE DEF h
<1>3. buffer' = left \o Append(Mine, h)
  <2>1. <<h>> \in Seq(Chars)
    BY <1>2
  <2>2. /\ buffer = left \o Mine /\ buffer \in Seq(Chars)
    BY <1>1, <1>2, SocketType DEF IInv, AllInOrder
  <2>3. buffer' = buffer \o <<h>>
    BY <1>1, <1>2, <2>2, AppendIsConcat DEF h
  <2>4. Append(Mine, h) = Mine \o <<h>>
    BY <1>2, AppendIsConcat
  <2>5. (left \o Mine) \o <<h>> = left \o (Mine \o <<h>>)
    BY <1>2, <2>1, Regroup
  <2> QED
    BY <2>2, <2>3, <2>4, <2>5
<1>4. Mine' = Append(Mine, h)
  BY <1>1, <1>2, <1>3, Behind DEF Mine
<1> SUFFICES ASSUME NEW c \in Clients \ Gone'
             PROVE  InOrder(c)'
  BY <1>1, <1>2, <1>3, <1>4 DEF AllInOrder
<1>5. CASE c # client
  BY <1>1, <1>5, OthersKeepOrder
<1>6. CASE c = client
  <2>1. Unread(c)' = Append(Mine, h) \o (Tail(inbox[c]) \o rest[c])
    BY <1>1, <1>4, <1>6 DEF Unread, Collected, TypeOK
  <2>2. Unread(c)' = Unread(c)
    <3>1. Unread(c) = Mine \o (inbox[c] \o rest[c])
      BY <1>1, <1>6, Reader DEF Unread
    <3>2. /\ Mine \in Seq(Chars) /\ inbox[c] \in Seq(Chars) /\ inbox[c] # <<>>
          /\ rest[c] \in Seq(Chars) /\ h = Head(inbox[c])
      BY <1>1, <1>6, Reader DEF h
    <3> QED
      BY <2>1, <3>1, <3>2, Moved
  <2>3. c \in Clients /\ InOrder(c)
    BY DEF IInv, AllInOrder
  <2> QED
    BY <1>1, <2>2, <2>3, SameOrder
<1> QED
  BY <1>5, <1>6

LEMMA EmptyLineKeepsOrder ==
  ASSUME IInv, Gone \subseteq Gone', EmptyLine
  PROVE  AllInOrder'
<1>1. /\ TypeOK /\ HasByte /\ Head(inbox[client]) \in Newline /\ buffer = <<>>
      /\ inbox' = [inbox EXCEPT ![client] = Tail(inbox[client])]
      /\ UNCHANGED <<buffer, left, client, answers, rest, sent>>
  BY DEF IInv, EmptyLine, loggers
<1>2. Mine = <<>> /\ left = <<>> /\ Mine' = Mine
  BY <1>1, NothingMine DEF IInv, AllInOrder, Mine
<1> SUFFICES ASSUME NEW c \in Clients \ Gone'
             PROVE  InOrder(c)'
  BY <1>1, <1>2 DEF IInv, AllInOrder
<1>3. CASE c # client
  BY <1>1, <1>3, OthersKeepOrder
<1>4. CASE c = client
  <2> DEFINE s == inbox[c] \o rest[c]
             t == Tail(inbox[c]) \o rest[c]
  <2>1. /\ t \in Seq(Chars) /\ Len(t) \in Nat /\ Len(s) = Len(t) + 1
        /\ s[1] = Head(inbox[c])
        /\ \A p \in 1 .. Len(t) : t[p] = s[p + 1]
    BY <1>1, <1>4, Reader, Taken
  <2>2. s \in Seq(Chars) /\ Len(s) \in Nat
    BY <1>1, UnreadType, LenProperties
  <2> HIDE DEF s, t
  <2>3. Unread(c) = s /\ Unread(c)' = t
    <3>1. Unread(c) = <<>> \o s
      BY <1>1, <1>2, <1>4, Reader DEF Unread, s
    <3>2. Unread(c)' = <<>> \o t
      BY <1>1, <1>2, <1>4 DEF Unread, Collected, TypeOK, t
    <3> QED
      BY <2>1, <2>2, <3>1, <3>2, ConcatEmptySeq
  <2>4. InOrder(c) /\ sent[c] \in Seq(Lines) /\ Len(answers[c]) \in Nat
    BY <1>1, SocketType, UnreadType DEF IInv, AllInOrder
  <2>5. Framed(t, sent[c], Len(answers[c]))
    BY <1>1, <1>4, <2>1, <2>2, <2>3, <2>4, FramedSkip DEF InOrder
  <2>6. answers[c] # <<>>
    <3>1. s # <<>> /\ s[1] \in Newline
      BY <1>1, <1>4, <2>1, <2>2, EmptySeq
    <3> QED
      BY <2>3, <2>4, <3>1 DEF InOrder
  <2> QED
    BY <1>1, <2>3, <2>4, <2>5, <2>6 DEF InOrder
<1> QED
  BY <1>3, <1>4

\* What is collected when a line ends is the first line that has not been
\* answered, whole, and the others are what is still unread.
LEMMA CollectedIsNext ==
  ASSUME IInv, HasByte, Head(inbox[client]) \in Newline, buffer # <<>>
  PROVE  LET n == Len(answers[client])
         IN  /\ n \in Nat /\ n + 1 \in 1 .. Len(sent[client])
             /\ Mine = sent[client][n + 1]
             /\ Framed(Tail(inbox[client]) \o rest[client], sent[client], n + 1)
<1> DEFINE i == inbox[client]
           r == rest[client]
           n == Len(answers[client])
           s == Unread(client)
           t == Tail(i) \o r
<1>1. /\ client \in Clients /\ i \in Seq(Chars) /\ i # <<>> /\ r \in Seq(Chars)
      /\ Mine \in Seq(Words) /\ Mine \in Seq(Chars)
      /\ s = Mine \o (i \o r)
  BY Reader DEF IInv, Unread
<1>2. /\ sent[client] \in Seq(Lines) /\ n \in Nat /\ Len(sent[client]) \in Nat
      /\ s \in Seq(Chars) /\ Len(s) \in Nat /\ i \o r \in Seq(Chars)
  BY <1>1, SocketType, UnreadType DEF IInv
<1>3. InOrder(client)
  BY NotGone DEF IInv, AllInOrder
<1>4. /\ t \in Seq(Chars) /\ Len(t) \in Nat /\ Len(i \o r) = Len(t) + 1
      /\ (i \o r)[1] = Head(i)
      /\ \A p \in 1 .. Len(t) : t[p] = (i \o r)[p + 1]
  BY <1>1, Taken
<1>5. Mine # <<>>
  <2>1. SUFFICES ASSUME Mine = <<>>
                 PROVE  FALSE
    OBVIOUS
  <2>2. buffer = left \o <<>> /\ left \in Seq(Words)
    BY <2>1 DEF IInv, AllInOrder, TypeOK
  <2>3. left # <<>>
    BY <2>2, ConcatEmptySeq
  <2>4. answers[client] = <<>>
    BY <2>3, Reader DEF IInv, Turns
  <2>5. s = i \o r
    BY <1>1, <1>2, <2>1, ConcatEmptySeq
  <2>6. s # <<>>
    BY <1>2, <1>4, <2>5, EmptySeq
  <2> QED
    BY <1>3, <1>4, <2>4, <2>5, <2>6 DEF InOrder
<1> DEFINE ir == i \o r
<1> HIDE DEF i, r, n, s, t, ir
<1>6. /\ Len(s) = Len(Mine) + Len(ir) /\ Len(Mine) \in Nat \ {0}
      /\ \A p \in 1 .. Len(Mine) + Len(ir) :
           s[p] = IF p <= Len(Mine) THEN Mine[p] ELSE ir[p - Len(Mine)]
  BY <1>1, <1>2, <1>5, Joined, EmptySeq DEF ir
<1>7. /\ Len(ir) = Len(t) + 1 /\ ir[1] = Head(i)
      /\ \A p \in 1 .. Len(t) : t[p] = ir[p + 1]
  BY <1>4 DEF ir
<1>8. \A p \in 1 .. Len(Mine) : s[p] = Mine[p]
  BY <1>4, <1>6, <1>7
<1>9. s[Len(Mine) + 1] \in Newline
  <2>1. /\ Len(Mine) + 1 \in 1 .. Len(Mine) + Len(ir)
        /\ ~(Len(Mine) + 1 <= Len(Mine))
        /\ Len(Mine) + 1 - Len(Mine) = 1
    BY <1>4, <1>6, <1>7
  <2>2. s[Len(Mine) + 1] = ir[1]
    BY <1>6, <2>1
  <2> QED
    BY <1>7, <2>2 DEF i
<1>10. ASSUME NEW p \in 1 .. Len(t)
       PROVE  t[p] = s[p + (Len(Mine) + 1)]
  <2>1. /\ p + (Len(Mine) + 1) \in 1 .. Len(Mine) + Len(ir)
        /\ ~(p + (Len(Mine) + 1) <= Len(Mine))
        /\ p + (Len(Mine) + 1) - Len(Mine) = p + 1
    BY <1>4, <1>6, <1>7
  <2>2. s[p + (Len(Mine) + 1)] = ir[p + 1]
    BY <1>6, <2>1
  <2> QED
    BY <1>7, <2>2
<1>11. Len(s) = Len(t) + (Len(Mine) + 1)
  BY <1>4, <1>6, <1>7
<1>12. Framed(s, sent[client], n)
  BY <1>3 DEF InOrder, s, n
<1>13. /\ n < Len(sent[client])
       /\ Mine = sent[client][n + 1]
       /\ Framed(t, sent[client], n + 1)
  BY <1>1, <1>2, <1>4, <1>5, <1>8, <1>9, <1>10, <1>11, <1>12, FramedFirst
<1> QED
  BY <1>2, <1>13 DEF t, i, r, n

\* An answer goes behind the others.
LEMMA AnswerAppended ==
  ASSUME TypeOK, ProcessLine
  PROVE  LET answer == [cmd  |-> Parsed(buffer).cmd,
                        says |-> Says(Parsed(buffer).cmd, rig)]
         IN  /\ client \in Clients
             /\ answers' = [answers EXCEPT ![client] = Append(@, answer)]
             /\ Len(answers'[client]) = Len(answers[client]) + 1
             /\ \A c \in Clients : c # client => answers'[c] = answers[c]
<1> DEFINE answer == [cmd  |-> Parsed(buffer).cmd,
                      says |-> Says(Parsed(buffer).cmd, rig)]
<1>1. /\ HasByte /\ buffer # <<>>
      /\ answers' =
           [answers EXCEPT ![client] = @ \o Answer(Parsed(buffer), rig)]
  BY DEF ProcessLine
<1>2. client \in Clients
  BY <1>1, Reader
<1>3. Answer(Parsed(buffer), rig) = <<answer>>
  BY DEF Answer
<1>4. Answer(Parsed(buffer), rig) \in Seq(Answers)
  BY <1>1, ParsedType, AnswerType DEF TypeOK
<1>5. answer = <<answer>>[1] /\ 1 \in 1 .. Len(<<answer>>)
  OBVIOUS
<1>6. answer \in Answers
  BY <1>3, <1>4, <1>5, ElementOfSeq
<1>7. answers[client] \in Seq(Answers)
  BY <1>2, SocketType
<1> HIDE DEF answer
<1>8. answers[client] \o <<answer>> = Append(answers[client], answer)
  BY <1>6, <1>7, AppendIsConcat
<1>9. answers' = [answers EXCEPT ![client] = Append(@, answer)]
  BY <1>1, <1>3, <1>8
<1>10. Len(answers'[client]) = Len(answers[client]) + 1
  <2>1. answers'[client] = Append(answers[client], answer)
    BY <1>2, <1>9 DEF TypeOK
  <2> QED
    BY <1>6, <1>7, <2>1, AppendProperties
<1>11. \A c \in Clients : c # client => answers'[c] = answers[c]
  BY <1>9 DEF TypeOK
<1> QED
  BY <1>2, <1>9, <1>10, <1>11 DEF answer

LEMMA ProcessLineKeepsOrder ==
  ASSUME IInv, Gone \subseteq Gone', ProcessLine
  PROVE  AllInOrder'
<1>1. /\ TypeOK /\ HasByte /\ Head(inbox[client]) \in Newline
      /\ buffer # <<>> /\ buffer' = <<>> /\ left' = <<>>
      /\ inbox' = [inbox EXCEPT ![client] = Tail(inbox[client])]
      /\ UNCHANGED <<client, rest, sent>>
  BY DEF IInv, ProcessLine, loggers
<1>2. Mine' = <<>> /\ buffer' = left' \o Mine'
  BY <1>1 DEF Mine
<1>3. /\ Len(answers'[client]) = Len(answers[client]) + 1
      /\ \A d \in Clients : d # client => answers'[d] = answers[d]
  BY <1>1, AnswerAppended
<1> SUFFICES ASSUME NEW c \in Clients \ Gone'
             PROVE  InOrder(c)'
  BY <1>2 DEF AllInOrder
<1>4. CASE c # client
  BY <1>1, <1>3, <1>4, OthersKeepOrder
<1>5. CASE c = client
  <2> DEFINE n == Len(answers[c])
             t == Tail(inbox[c]) \o rest[c]
  <2>1. /\ n \in Nat /\ n + 1 \in 1 .. Len(sent[c])
        /\ Framed(t, sent[c], n + 1)
    BY <1>1, <1>5, CollectedIsNext
  <2>2. t \in Seq(Chars)
    BY <1>1, <1>5, Reader, Taken
  <2> HIDE DEF t
  <2>3. Unread(c)' = t
    <3>1. Unread(c)' = <<>> \o t
      BY <1>1, <1>2, <1>5 DEF Unread, Collected, TypeOK, t
    <3> QED
      BY <2>2, <3>1, ConcatEmptySeq
  <2>4. Len(answers'[c]) = n + 1
    BY <1>3, <1>5
  <2>5. answers'[c] # <<>>
    <3>1. n + 1 # 0
      BY <2>1
    <3> HIDE DEF n
    <3> QED
      BY <2>4, <3>1
  <2> HIDE DEF n
  <2>6. Framed(Unread(c)', sent[c], Len(answers'[c]))
    BY <2>1, <2>3, <2>4
  <2>7. Len(answers'[c]) <= Len(sent[c])
    BY <2>1, <2>4
  <2> QED
    BY <1>1, <2>5, <2>6, <2>7 DEF InOrder
<1> QED
  BY <1>4, <1>5

-----------------------------------------------------------------------------
(***************************************************************************)
(* The invariant holds.                                                    *)
(***************************************************************************)
LEMMA InitInvariant == Init => IInv
<1> SUFFICES ASSUME Init
             PROVE  IInv
  OBVIOUS
<1>1. Mine = <<>> /\ buffer = left \o Mine
  BY DEF Init, Mine
<1>2. ASSUME NEW c \in Clients
      PROVE  InOrder(c)
  <2>1. /\ answers[c] = <<>> /\ sent[c] = <<>>
        /\ rest[c] = <<>> /\ inbox[c] = <<>>
    BY DEF Init
  <2>2. Unread(c) = <<>>
    <3>1. <<>> \in Seq(Chars)
      BY EmptySeq
    <3>2. Unread(c) = <<>> \o (<<>> \o <<>>)
      BY <1>1, <2>1 DEF Unread, Collected
    <3> QED
      BY <3>1, <3>2, ConcatEmptySeq
  <2>3. Framed(<<>>, <<>>, 0)
    <3> DEFINE e == [k \in 0 + 1 .. Len(<<>>) |-> 1]
    <3>1. e \in [0 + 1 .. Len(<<>>) -> 1 .. Len(<<>>)]
      OBVIOUS
    <3>2. FrameEnds(<<>>, <<>>, 0, e)
      BY DEF FrameEnds
    <3> QED
      BY <3>1, <3>2 DEF Framed
  <2>4. Len(answers[c]) = 0
    BY <2>1
  <2> QED
    BY <2>1, <2>2, <2>3, <2>4 DEF InOrder
<1>3. AllInOrder
  BY <1>1, <1>2 DEF AllInOrder
<1>4. Turns
  <2>1. ToSet(<<>>) = {} /\ Len(<<>>) = 0
    BY DEF ToSet
  <2> QED
    BY <2>1 DEF Init, Turns
<1> QED
  BY <1>3, <1>4, InitType DEF IInv

LEMMA StepInvariant == IInv /\ [Next]_vars => IInv'
<1> SUFFICES ASSUME IInv, [Next]_vars
             PROVE  IInv'
  OBVIOUS
<1>1. TypeOK' /\ Turns'
  BY StepType, TurnsStep DEF IInv
<1> SUFFICES AllInOrder'
  BY <1>1 DEF IInv
<1>2. Gone \subseteq Gone'
  BY GoneForGood DEF IInv
<1>3. ASSUME NEW c \in Clients, Connect(c) \/ SendRest(c) \/ HangUp(c)
      PROVE  AllInOrder'
  <2>1. CASE Connect(c)
    BY <1>2, <2>1, IdleKeepsOrder DEF Connect, IInv
  <2>2. CASE SendRest(c)
    BY <1>2, <2>2, SendRestKeepsOrder
  <2>3. CASE HangUp(c)
    BY <1>2, <2>3, IdleKeepsOrder DEF HangUp, IInv
  <2> QED
    BY <1>3, <2>1, <2>2, <2>3
<1>4. CASE Logger
  BY <1>2, <1>3, <1>4, SendLineKeepsOrder DEF Logger
<1>5. CASE Accept
  BY <1>2, <1>5, AcceptKeepsOrder
<1>6. CASE Collect
  BY <1>2, <1>6, CollectKeepsOrder
<1>7. CASE EmptyLine
  BY <1>2, <1>7, EmptyLineKeepsOrder
<1>8. CASE ProcessLine
  BY <1>2, <1>8, ProcessLineKeepsOrder
<1>9. CASE ProcessThrows
  BY <1>2, <1>9, IdleKeepsOrder DEF ProcessThrows, IInv, loggers
<1>10. CASE EndPoll
  BY <1>2, <1>10, EndPollKeepsOrder
<1>11. CASE UNCHANGED vars
  BY <1>2, <1>11, IdleKeepsOrder DEF IInv, vars, loggers
<1> QED
  BY <1>4, <1>5, <1>6, <1>7, <1>8, <1>9, <1>10, <1>11 DEF Next, poll

LEMMA Invariant == Spec => []IInv
BY InitInvariant, StepInvariant, PTL DEF Spec

\* The rig, the buffer, the lines and the answers are what TypeOK says, whatever
\* the loggers send: no command leaves the rig without a frequency, a passband
\* or a RIT that is a number (RigctldServer, daemon).
THEOREM TypeCorrect == Spec => []TypeOK
BY Invariant, PTL DEF IInv

-----------------------------------------------------------------------------
(***************************************************************************)
(* The refinement of RigService, one lemma for each kind of step.          *)
(***************************************************************************)
\* A step that changes nothing a logger sees is none of the service.
LEMMA Unseen ==
  ASSUME UNCHANGED <<rig, sent, answers, left>>, Gone' = Gone
  PROVE  UNCHANGED Service!vars
BY DEF Service!vars

LEMMA GoneIs ==
  ASSUME NEW c \in Clients
  PROVE  c \in Gone <=> peer[c] # "new" /\ client # c /\ c \notin ToSet(backlog)
BY DEF Gone

LEMMA ConnectRefines ==
  ASSUME IInv, NEW c \in Clients, Connect(c)
  PROVE  UNCHANGED Service!vars
<1>1. /\ peer' = [peer EXCEPT ![c] = "up"] /\ peer[c] = "new"
      /\ ToSet(backlog') = ToSet(backlog) \cup {c}
      /\ UNCHANGED <<client, rig, sent, answers, left>>
  BY AppendSet DEF Connect, IInv, TypeOK
<1>2. Gone' = Gone
  BY <1>1 DEF Gone, IInv, TypeOK
<1> QED
  BY <1>1, <1>2, Unseen

LEMMA HangUpRefines ==
  ASSUME IInv, NEW c \in Clients, HangUp(c)
  PROVE  UNCHANGED Service!vars
<1>1. Gone' = Gone
  BY DEF Gone, HangUp, IInv, TypeOK
<1> QED
  BY <1>1, Unseen DEF HangUp

LEMMA SendLineRefines ==
  ASSUME IInv, NEW c \in Clients, NEW line \in Lines, NEW end \in LineEnds,
         NEW k \in 1 .. Len(line \o end), SendLine(c, line, end, k)
  PROVE  Service!Next
<1>1. Gone' = Gone
  BY DEF Gone, SendLine
<1>2. c \notin Gone
  BY DEF Gone, SendLine, Connected
<1>3. Service!Ask(c, line)
  BY <1>1, <1>2 DEF Service!Ask, SendLine
<1> QED
  BY <1>3 DEF Service!Next

\* A line that ends is carried out at that moment.
LEMMA ProcessLineRefines ==
  ASSUME IInv, ProcessLine
  PROVE  Service!Next
<1> DEFINE n == Len(answers[client])
<1>1. /\ HasByte /\ Head(inbox[client]) \in Newline /\ buffer # <<>>
      /\ ~Throws(Parsed(buffer)) /\ rig' = Effect(Parsed(buffer), rig)
      /\ left' = <<>> /\ UNCHANGED <<client, backlog, peer, sent>>
  BY DEF ProcessLine, loggers
<1>2. /\ n \in Nat /\ n + 1 \in 1 .. Len(sent[client])
      /\ Mine = sent[client][n + 1]
  BY <1>1, CollectedIsNext
<1>3. buffer = left \o sent[client][n + 1]
  BY <1>2 DEF IInv, AllInOrder
<1>4. client \in Clients /\ client \notin Gone
  BY <1>1, NotGone DEF IInv
<1>5. answers' =
        [answers EXCEPT ![client] =
           Append(@, [cmd  |-> Parsed(buffer).cmd,
                      says |-> Says(Parsed(buffer).cmd, rig)])]
  BY AnswerAppended DEF IInv
<1>6. Gone' = Gone
  BY <1>1 DEF Gone
<1>7. Service!Waiting(client)
  <2>1. n < Len(sent[client])
    BY <1>2, <1>4, UnreadType DEF IInv
  <2> QED
    BY <1>4, <2>1 DEF Service!Waiting
<1>8. Service!NextLine(client) = sent[client][n + 1]
  BY DEF Service!NextLine
<1> HIDE DEF n
<1>9. Service!CarryOut(client)
  BY <1>1, <1>3, <1>5, <1>6, <1>7, <1>8 DEF Service!CarryOut
<1> QED
  BY <1>4, <1>9 DEF Service!Next

\* What is collected of a line is a beginning of it.
LEMMA MineIsPrefix ==
  ASSUME IInv, client # None, Mine # <<>>
  PROVE  /\ Service!Waiting(client)
         /\ \E k \in 1 .. Len(Service!NextLine(client)) :
              Mine = SubSeq(Service!NextLine(client), 1, k)
<1> DEFINE n == Len(answers[client])
           s == Unread(client)
           ir == inbox[client] \o rest[client]
<1>1. client \in Clients /\ TypeOK
  BY DEF IInv, TypeOK
<1>2. client \notin Gone /\ InOrder(client)
  BY <1>1 DEF Gone, IInv, AllInOrder
<1>3. /\ s \in Seq(Chars) /\ Len(s) \in Nat /\ n \in Nat
      /\ ir \in Seq(Chars) /\ sent[client] \in Seq(Lines)
      /\ Mine \in Seq(Words) /\ Mine \in Seq(Chars)
      /\ Len(sent[client]) \in Nat
  BY <1>1, UnreadType, SocketType, MineType
<1>4. s = Mine \o ir
  BY DEF Unread, Collected
<1>5. Framed(s, sent[client], n)
  BY <1>2 DEF InOrder
<1> HIDE DEF n, s, ir
<1>6. Len(Mine) <= Len(s) /\ \A p \in 1 .. Len(Mine) : s[p] = Mine[p]
  <2>1. Len(Mine) \in Nat /\ Len(ir) \in Nat
    BY <1>3, LenProperties
  <2>2. /\ Len(s) = Len(Mine) + Len(ir)
        /\ \A p \in 1 .. Len(Mine) + Len(ir) :
             s[p] = IF p <= Len(Mine) THEN Mine[p] ELSE ir[p - Len(Mine)]
    BY <1>3, <1>4, Joined
  <2> QED
    BY <2>1, <2>2
<1>7. /\ n < Len(sent[client])
      /\ Len(Mine) \in 1 .. Len(sent[client][n + 1])
      /\ Mine = SubSeq(sent[client][n + 1], 1, Len(Mine))
  BY <1>3, <1>5, <1>6, FramedPrefix
<1>8. Service!NextLine(client) = sent[client][n + 1]
  BY DEF Service!NextLine, n
<1> QED
  BY <1>2, <1>7, <1>8 DEF Service!Waiting, n

\* Who loses the place leaves behind what was collected.
LEMMA LeaveRefines ==
  ASSUME IInv, client # None, Gone' = Gone \cup {client}, left' = buffer,
         UNCHANGED <<rig, sent, answers>>
  PROVE  Service!Next
<1>1. client \in Clients /\ client \notin Gone
  BY DEF IInv, TypeOK, Gone
<1>2. buffer = left \o Mine
  BY DEF IInv, AllInOrder
<1>3. CASE Mine = <<>>
  <2>1. left' = left
    BY <1>2, <1>3, ConcatEmptySeq DEF IInv, TypeOK
  <2>2. Service!Leave(client)
    BY <1>1, <2>1 DEF Service!Leave
  <2> QED
    BY <1>1, <2>2 DEF Service!Next
<1>4. CASE Mine # <<>>
  <2>1. /\ Service!Waiting(client)
        /\ \E k \in 1 .. Len(Service!NextLine(client)) :
             Mine = SubSeq(Service!NextLine(client), 1, k)
    BY <1>4, MineIsPrefix
  <2>2. Service!Leave(client)
    BY <1>1, <1>2, <2>1 DEF Service!Leave
  <2> QED
    BY <1>1, <2>2 DEF Service!Next
<1> QED
  BY <1>3, <1>4

LEMMA AcceptRefines ==
  ASSUME IInv, Accept
  PROVE  Service!Next \/ UNCHANGED Service!vars
<1>1. CASE backlog = <<>>
  <2>1. Gone' = Gone
    BY <1>1 DEF Gone, Accept, loggers
  <2> QED
    BY <1>1, <2>1, Unseen DEF Accept, loggers
<1>2. CASE backlog # <<>>
  <2>1. /\ client' = Head(backlog) /\ backlog' = Tail(backlog)
        /\ left' = buffer /\ UNCHANGED <<peer, rig, sent, answers>>
    BY <1>2 DEF Accept, loggers
  <2>2. /\ Head(backlog) \in Clients /\ Head(backlog) \in ToSet(backlog)
        /\ ToSet(backlog') = ToSet(backlog) \ {Head(backlog)}
    BY <1>2, <2>1, TailSet DEF IInv, TypeOK, Turns
  <2>3. CASE client = None
    <3>1. Gone' = Gone
      BY <2>1, <2>2, <2>3, RigctldAssumption DEF Gone
    <3>2. left' = left
      <4>1. buffer = left \o <<>> /\ left \in Seq(Words)
        BY <2>3 DEF IInv, AllInOrder, TypeOK
      <4> QED
        BY <2>1, <4>1, ConcatEmptySeq
    <3> QED
      BY <2>1, <3>1, <3>2, Unseen
  <2>4. CASE client # None
    <3>1. /\ client \in Clients /\ peer[client] # "new"
          /\ client \notin ToSet(backlog) /\ client # Head(backlog)
      BY <2>2, <2>4 DEF IInv, TypeOK, Turns
    <3>2. Gone' = Gone \cup {client}
      BY <2>1, <2>2, <3>1 DEF Gone
    <3> QED
      BY <2>1, <2>4, <3>2, LeaveRefines
  <2> QED
    BY <2>3, <2>4
<1> QED
  BY <1>1, <1>2

LEMMA EndPollRefines ==
  ASSUME IInv, EndPoll
  PROVE  Service!Next \/ UNCHANGED Service!vars
<1>1. CASE client # None /\ peer[client] = "closed"
  <2>1. /\ client' = None /\ left' = buffer
        /\ UNCHANGED <<backlog, peer, rig, sent, answers>>
    BY <1>1 DEF EndPoll, loggers
  <2>2. client \in Clients /\ client \notin ToSet(backlog)
    BY <1>1 DEF IInv, TypeOK, Turns
  <2>3. Gone' = Gone \cup {client}
    BY <1>1, <2>1, <2>2, RigctldAssumption DEF Gone
  <2> QED
    BY <1>1, <2>1, <2>3, LeaveRefines
<1>2. CASE ~(client # None /\ peer[client] = "closed")
  <2>1. UNCHANGED <<client, backlog, peer, left, rig, sent, answers>>
    BY <1>2 DEF EndPoll, loggers
  <2>2. Gone' = Gone
    BY <2>1 DEF Gone
  <2> QED
    BY <2>1, <2>2, Unseen
<1> QED
  BY <1>1, <1>2

LEMMA StepRefines ==
  ASSUME IInv, [Next]_vars
  PROVE  [Service!Next]_Service!vars
<1>1. CASE Logger
  <2>1. ASSUME NEW c \in Clients, SendRest(c)
        PROVE  UNCHANGED Service!vars
    <3>1. Gone' = Gone
      BY <2>1 DEF Gone, SendRest
    <3> QED
      BY <2>1, <3>1, Unseen DEF SendRest
  <2> QED
    BY <1>1, <2>1, ConnectRefines, HangUpRefines, SendLineRefines DEF Logger
<1>2. CASE Accept
  BY <1>2, AcceptRefines
<1>3. CASE Collect \/ EmptyLine \/ ProcessThrows
  <2>1. UNCHANGED <<client, backlog, peer, left, rig, sent, answers>>
    BY <1>3 DEF Collect, EmptyLine, ProcessThrows, loggers
  <2>2. Gone' = Gone
    BY <2>1 DEF Gone
  <2> QED
    BY <2>1, <2>2, Unseen
<1>4. CASE ProcessLine
  BY <1>4, ProcessLineRefines
<1>5. CASE EndPoll
  BY <1>5, EndPollRefines
<1>6. CASE UNCHANGED vars
  <2>1. UNCHANGED <<client, backlog, peer, left, rig, sent, answers>>
    BY <1>6 DEF vars, loggers
  <2>2. Gone' = Gone
    BY <2>1 DEF Gone
  <2> QED
    BY <2>1, <2>2, Unseen
<1> QED
  BY <1>1, <1>2, <1>3, <1>4, <1>5, <1>6 DEF Next, poll

\* The server is RigService, for any number of loggers and lines, however the
\* lines are cut up and connections follow each other: it carries out the lines
\* of each logger in order, each in one step and none twice, answers as the rig
\* is then, and what stands in front of a line is what those who have gone in
\* the middle of theirs have left, nothing else (TcpTransport,
\* RigctldServer::poll, processCommand and processLongCommand).
THEOREM ServesLinesInOrder == Spec => ImplementsRigService
<1>1. Init => Service!Init
  <2> SUFFICES ASSUME Init
               PROVE  Service!Init
    OBVIOUS
  <2>1. Gone = {}
    BY DEF Init, Gone
  <2> QED
    BY <2>1 DEF Init, Service!Init
<1>2. IInv /\ [Next]_vars => [Service!Next]_Service!vars
  BY StepRefines
<1> QED
  BY <1>1, <1>2, Invariant, PTL DEF Spec, ImplementsRigService, Service!Spec

\* A command changes the fields it names and no other.
LEMMA EffectNamed ==
  ASSUME NEW p, NEW r \in Rig, NEW field \in DOMAIN r,
         Effect(p, r)[field] # r[field]
  PROVE  /\ p.cmd \in DOMAIN Named /\ field \in Named[p.cmd]
         /\ field = "passband" => HasSpace(p.args)
<1>1. CASE p.cmd = "set_freq"
  BY <1>1 DEF Effect, Rig, Named
<1>2. CASE p.cmd = "set_rit"
  BY <1>2 DEF Effect, Rig, Named
<1>3. CASE p.cmd = "set_vfo"
  BY <1>3 DEF Effect, Rig, Named
<1>4. CASE p.cmd = "set_mode"
  <2>1. field \in {"mode", "passband"}
    <3>1. Effect(p, r) = [r EXCEPT !.mode = Effect(p, r).mode,
                                   !.passband = Effect(p, r).passband]
      BY <1>4 DEF Effect, Rig
    <3> QED
      BY <3>1 DEF Rig
  <2>2. ~HasSpace(p.args) => Effect(p, r).passband = r.passband
    BY <1>4 DEF Effect, Rig
  <2> QED
    BY <1>4, <2>1, <2>2 DEF Named
<1>5. CASE p.cmd \notin {"set_freq", "set_rit", "set_vfo", "set_mode"}
  BY <1>5 DEF Effect
<1> QED
  BY <1>1, <1>2, <1>3, <1>4, <1>5

\* The rig changes only while a line of a logger is carried out, and only in the
\* fields that this line names, what was left in front of it included: half a
\* line and a mode without a passband leave the rest as it was (the setters of
\* processCommand and processLongCommand, the daemon's callbacks).
THEOREM RigIsWhatItWasMade == Spec => RigChangesAsAsked
<1> DEFINE Asked(field) ==
      \E c \in Clients : \E n \in DOMAIN sent[c] :
        /\ n = Len(answers'[c]) /\ n = Len(answers[c]) + 1
        /\ LET p == Parsed(left \o sent[c][n])
           IN  /\ p.cmd \in DOMAIN Named
               /\ field \in Named[p.cmd]
               /\ field = "passband" => HasSpace(p.args)
<1>1. ASSUME IInv, [Next]_vars, NEW field \in DOMAIN rig,
             rig'[field] # rig[field]
      PROVE  Asked(field)
  <2>1. ProcessLine
    BY <1>1 DEF Next, poll, Logger, Connect, SendRest, HangUp, SendLine, Accept,
                Collect, EmptyLine, ProcessThrows, EndPoll, vars
  <2>2. /\ TypeOK /\ HasByte /\ Head(inbox[client]) \in Newline /\ buffer # <<>>
        /\ rig' = Effect(Parsed(buffer), rig)
    BY <1>1, <2>1 DEF IInv, ProcessLine
  <2> DEFINE n == Len(answers[client])
  <2>3. /\ n \in Nat /\ n + 1 \in 1 .. Len(sent[client])
        /\ Mine = sent[client][n + 1]
    BY <1>1, <2>2, CollectedIsNext
  <2>4. client \in Clients /\ DOMAIN sent[client] = 1 .. Len(sent[client])
    BY <2>2, Reader, SocketType, LenProperties
  <2>5. Len(answers'[client]) = n + 1
    BY <2>1, <2>2, AnswerAppended
  <2>6. /\ Parsed(buffer).cmd \in DOMAIN Named
        /\ field \in Named[Parsed(buffer).cmd]
        /\ field = "passband" => HasSpace(Parsed(buffer).args)
    BY <1>1, <2>2, EffectNamed DEF TypeOK
  <2>7. buffer = left \o sent[client][n + 1]
    BY <1>1, <2>3 DEF IInv, AllInOrder
  <2> HIDE DEF n
  <2> QED
    BY <2>3, <2>4, <2>5, <2>6, <2>7 DEF n
<1>2. IInv /\ [Next]_vars =>
        [\A field \in DOMAIN rig :
           rig'[field] # rig[field] => Asked(field)]_vars
  BY <1>1
<1> QED
  BY <1>2, Invariant, PTL DEF Spec, RigChangesAsAsked

=============================================================================
