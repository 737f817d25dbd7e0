--------------------------- MODULE WinKeyerProofs ---------------------------
(***************************************************************************)
(* The invariants of module WinKeyer hold for all messages whatever.       *)
(* BytesAreUnderstood needs to know of every byte on its way how it        *)
(* follows the one before, up to the byte that has not been sent: a        *)
(* parameter follows a command the server reads one of, and nothing else,  *)
(* as far as there is no command among them that is odd.                   *)
(***************************************************************************)
EXTENDS WinKeyer, TLAPS

\* A byte that announces a parameter.
Announces(q) == q.role # "parameter" /\ q.byte \in Parameters

\* None of the first n bytes is a command with other parameters than are read.
Plain(s, n) == \A j \in 1 .. n : ~Odd(s[j])

\* What arrives is in order: the first byte is a parameter if the main loop
\* expects one, every other byte, up to the first odd command, if the one
\* before announces it.
InOrder ==
  /\ in # <<>> => (in[1].role = "parameter" <=> pc = "param")
  /\ \A k \in 1 .. Len(in) - 1 :
       Plain(in, k) => (in[k + 1].role = "parameter" <=> Announces(in[k]))

\* What is still to be sent on an open connection.
RestFits ==
  Plain(in, Len(in)) =>
    /\ rest # <<>> => Len(rest) = 1 /\ rest[1].role = "parameter"
    /\ conn = "open" =>
         IF in = <<>> THEN (rest # <<>>) <=> (pc = "param")
         ELSE (rest # <<>>) <=> Announces(in[Len(in)])

IInv ==
  /\ TypeOK
  /\ LoggerKnows
  /\ BusyOnlyWhileSending
  /\ ~astray => InOrder /\ RestFits

-----------------------------------------------------------------------------

(* Sequences. *)

LEMMA TailFacts ==
  ASSUME NEW S, NEW s \in Seq(S), s # <<>>
  PROVE  /\ Len(s) \in Nat /\ Len(s) > 0
         /\ Head(s) = s[1] /\ Head(s) \in S
         /\ Tail(s) \in Seq(S) /\ Len(Tail(s)) = Len(s) - 1
         /\ \A k \in 1 .. Len(s) - 1 : Tail(s)[k] = s[k + 1]
OBVIOUS

LEMMA AppendFacts ==
  ASSUME NEW S, NEW s \in Seq(S), NEW e \in S
  PROVE  /\ Append(s, e) \in Seq(S)
         /\ Len(Append(s, e)) = Len(s) + 1
         /\ \A k \in 1 .. Len(s) : Append(s, e)[k] = s[k]
         /\ Append(s, e)[Len(s) + 1] = e
OBVIOUS

LEMMA LenFacts ==
  ASSUME NEW S, NEW s \in Seq(S)
  PROVE  /\ Len(s) \in Nat
         /\ s = <<>> <=> Len(s) = 0
OBVIOUS

-----------------------------------------------------------------------------

\* The bytes of a message.
LEMMA MessageFits ==
  ASSUME NEW t \in Messages
  PROVE  /\ Roles(t) \in Seq(Queued) /\ Roles(t) # <<>>
         /\ Head(Roles(t)) \in Queued /\ Tail(Roles(t)) \in Seq(Queued)
         /\ Head(Roles(t)).role # "parameter"
         /\ ~Odd(Head(Roles(t))) =>
              IF Announces(Head(Roles(t)))
              THEN Len(Tail(Roles(t))) = 1 /\ Tail(Roles(t))[1].role = "parameter"
              ELSE Tail(Roles(t)) = <<>>
<1> DEFINE r == Roles(t)
           q(k) == [byte   |-> t[k],
                    role   |-> IF t = <<0>> THEN "terminator"
                               ELSE IF k = 1 THEN "command" ELSE "parameter",
                    params |-> IF k = 1 THEN Len(t) - 1 ELSE 0]
<1>1. t \in Seq(Byte) /\ t # <<>> /\ Len(t) \in Nat /\ Len(t) > 0
  BY WinKeyerAssumption
<1>2. DOMAIN t = 1 .. Len(t)
  BY <1>1
<1>3. r = [k \in 1 .. Len(t) |-> q(k)]
  BY <1>2 DEF Roles
<1>4. \A k \in 1 .. Len(t) : q(k) \in Queued
  BY <1>1 DEF Queued, Role
<1>5. r \in Seq(Queued) /\ Len(r) = Len(t) /\ \A k \in 1 .. Len(t) : r[k] = q(k)
  BY <1>1, <1>3, <1>4
<1> HIDE DEF r, q
<1>6. r # <<>> /\ Head(r) = q(1) /\ Tail(r) \in Seq(Queued)
      /\ Len(Tail(r)) = Len(t) - 1
      /\ \A k \in 1 .. Len(t) - 1 : Tail(r)[k] = r[k + 1]
  <2>1. r # <<>>
    BY <1>1, <1>5, LenFacts
  <2> QED
    BY <2>1, <1>1, <1>5, TailFacts
<1>7. Tail(r) = <<>> <=> Len(t) = 1
  <2>1. Tail(r) = <<>> <=> Len(Tail(r)) = 0
    BY <1>6, LenFacts, Zenon
  <2>2. Len(Tail(r)) = Len(t) - 1
    BY <1>6, Zenon
  <2>3. Len(Tail(r)) = 0 <=> Len(t) = 1
    BY <2>2, <1>1, SMT
  <2> QED
    BY <2>1, <2>3, Zenon
<1> USE DEF r
<1>8. CASE t = <<0>>
  <2>1. Len(t) = 1 /\ q(1).role = "terminator" /\ q(1).byte = 0
    BY <1>8 DEF q
  <2>2. q(1).params = 0
    BY <2>1 DEF q
  <2>3. Odd(q(1))
    BY <2>1, <2>2 DEF Odd, Parameters
  <2> QED
    BY <2>1, <2>3, <1>1, <1>4, <1>5, <1>6
<1>9. CASE t # <<0>>
  <2>1. q(1).params = Len(t) - 1 /\ Len(t) \in Nat
    BY <1>1 DEF q
  <2>2. q(1).role = "command" /\ q(1).byte = t[1] /\ q(2).role = "parameter"
    BY <1>9 DEF q
  <2>3. Announces(q(1)) <=> t[1] \in Parameters
    BY <2>2 DEF Announces
  <2>4. ASSUME ~Odd(q(1))
        PROVE  Len(t) = IF t[1] \in Parameters THEN 2 ELSE 1
    <3>1. q(1).params = IF t[1] \in Parameters THEN 1 ELSE 0
      BY <2>2, <2>4 DEF Odd
    <3>4. Len(t) - 1 = IF t[1] \in Parameters THEN 1 ELSE 0
      BY <2>1, <3>1, Zenon
    <3>2. CASE t[1] \in Parameters
      BY <2>1, <3>2, <3>4
    <3>3. CASE t[1] \notin Parameters
      BY <2>1, <3>3, <3>4
    <3> QED
      BY <3>2, <3>3
  <2>5. /\ Head(r) = q(1) /\ Head(r).role # "parameter" /\ Head(r) \in Queued
        /\ Len(Tail(r)) = Len(t) - 1 /\ (Tail(r) = <<>> <=> Len(t) = 1)
    BY <2>2, <1>1, <1>4, <1>6, <1>7
  <2>6. ASSUME Len(t) = 2
        PROVE  Tail(r)[1].role = "parameter"
    <3>1. Tail(r)[1] = r[2] /\ r[2] = q(2)
      BY <2>6, <1>5, <1>6
    <3> QED
      BY <2>2, <3>1
  <2>7. ASSUME ~Odd(Head(r))
        PROVE  IF Announces(Head(r))
               THEN Len(Tail(r)) = 1 /\ Tail(r)[1].role = "parameter"
               ELSE Tail(r) = <<>>
    <3> HIDE DEF r
    <3>1. Announces(Head(r)) <=> t[1] \in Parameters
      BY <2>3, <2>5
    <3>2. CASE t[1] \in Parameters
      <4>1. Len(t) = 2
        BY <2>4, <2>5, <2>7, <3>2
      <4> QED
        BY <2>5, <2>6, <3>1, <3>2, <4>1
    <3>3. CASE t[1] \notin Parameters
      <4>1. Len(t) = 1
        BY <2>4, <2>5, <2>7, <3>3
      <4> QED
        BY <2>5, <3>1, <3>3, <4>1
    <3> QED
      BY <3>2, <3>3
  <2>8. r \in Seq(Queued) /\ r # <<>> /\ Tail(r) \in Seq(Queued)
    BY <1>5, <1>6
  <2> QED
    BY <2>5, <2>7, <2>8
<1> QED
  BY <1>8, <1>9

-----------------------------------------------------------------------------

LEMMA InitInvariant == Init => IInv
<1>1. <<>> \in Seq(Queued)
  OBVIOUS
<1>2. Init => TypeOK
  <2>1. 30 \in Byte /\ ADMIN \in Byte
    BY DEF Byte, ADMIN
  <2> QED
    BY <1>1, <2>1 DEF Init, TypeOK
<1>3. Init => LoggerKnows /\ BusyOnlyWhileSending
  BY DEF Init, LoggerKnows, BusyOnlyWhileSending
<1>4. Init => InOrder /\ RestFits
  BY DEF Init, InOrder, RestFits
<1> QED
  BY <1>2, <1>3, <1>4 DEF IInv

LEMMA ArriveInvariant ==
  ASSUME IInv, Arrive
  PROVE  IInv'
<1>1. PICK m \in IF rest # <<>> THEN {rest} ELSE {Roles(t) : t \in Messages} :
        in' = Append(in, Head(m)) /\ rest' = Tail(m)
  BY DEF Arrive
<1>2. in \in Seq(Queued) /\ rest \in Seq(Queued)
  BY DEF IInv, TypeOK
<1>3. m \in Seq(Queued) /\ m # <<>> /\ Head(m) \in Queued
      /\ Tail(m) \in Seq(Queued)
  BY <1>1, <1>2, MessageFits
<1>4. /\ in' \in Seq(Queued) /\ in' # <<>> /\ Len(in') = Len(in) + 1
      /\ \A k \in 1 .. Len(in) : in'[k] = in[k]
      /\ in'[Len(in) + 1] = Head(m)
  <2>1. /\ in' \in Seq(Queued) /\ Len(in') = Len(in) + 1
        /\ \A k \in 1 .. Len(in) : in'[k] = in[k]
        /\ in'[Len(in) + 1] = Head(m)
    BY <1>1, <1>2, <1>3, AppendFacts
  <2> QED
    BY <2>1, <1>2, LenFacts
<1>5. TypeOK'
  BY <1>1, <1>3, <1>4 DEF IInv, TypeOK, Arrive, server
<1>6. LoggerKnows' /\ BusyOnlyWhileSending'
  BY DEF IInv, LoggerKnows, BusyOnlyWhileSending, Arrive, server
<1>7. ASSUME ~astray' PROVE InOrder' /\ RestFits'
  <2>1. InOrder /\ RestFits /\ conn = "open" /\ conn' = "open" /\ pc' = pc
    BY <1>7 DEF IInv, Arrive
  <2>2. ASSUME Plain(in, Len(in))
        PROVE  /\ Head(m).role = "parameter" <=> rest # <<>>
               /\ ~Odd(Head(m)) =>
                    IF Announces(Head(m))
                    THEN Len(rest') = 1 /\ rest'[1].role = "parameter"
                    ELSE rest' = <<>>
    <3>1. CASE rest # <<>>
      <4>1. m = rest /\ Len(rest) = 1 /\ rest[1].role = "parameter"
        BY <3>1, <1>1, <2>1, <2>2 DEF RestFits
      <4>2. /\ Head(rest) = rest[1] /\ Tail(rest) \in Seq(Queued)
            /\ Len(Tail(rest)) = Len(rest) - 1
        BY <3>1, <1>2, TailFacts, Zenon
      <4>3. Tail(rest) = <<>> <=> Len(Tail(rest)) = 0
        BY <4>2, LenFacts, Zenon
      <4>4. Tail(rest) = <<>>
        BY <4>1, <4>2, <4>3
      <4> QED
        BY <3>1, <4>1, <4>2, <4>4, <1>1 DEF Announces
    <3>2. CASE rest = <<>>
      <4>1. PICK t \in Messages : m = Roles(t)
        BY <3>2, <1>1
      <4> QED
        BY <3>2, <4>1, <1>1, MessageFits
    <3> QED
      BY <3>1, <3>2
  <2>3. RestFits'
    <3>1. in'[Len(in')] = Head(m)
      BY <1>2, <1>4
    <3>2. ASSUME Plain(in', Len(in'))
          PROVE  Plain(in, Len(in)) /\ ~Odd(Head(m))
      <4>1. Len(in) \in Nat
        BY <1>2, LenFacts
      <4> QED
        BY <3>1, <3>2, <4>1, <1>4 DEF Plain
    <3>3. Plain(in', Len(in')) => (rest' # <<>> <=> Announces(Head(m)))
      BY <2>2, <3>2
    <3> QED
      BY <3>1, <3>2, <3>3, <1>4, <2>1, <2>2 DEF RestFits, Announces
  <2>4. InOrder'
    <3>1. CASE in = <<>>
      <4>1. Len(in) = 0 /\ in'[1] = Head(m) /\ Len(in') = 1
        BY <3>1, <1>4
      <4>2. Plain(in, Len(in))
        BY <4>1 DEF Plain
      <4> QED
        BY <3>1, <4>1, <4>2, <2>1, <2>2 DEF InOrder, RestFits
    <3>2. CASE in # <<>>
      <4>1. Len(in) \in Nat /\ Len(in) > 0
        BY <3>2, <1>2
      <4>2. in'[1] = in[1]
        BY <4>1, <1>4
      <4>3. Plain(in, Len(in)) =>
              (Head(m).role = "parameter" <=> Announces(in[Len(in)]))
        BY <3>2, <2>1, <2>2 DEF RestFits
      <4>4. ASSUME NEW k \in 1 .. Len(in') - 1, Plain(in', k)
            PROVE  in'[k + 1].role = "parameter" <=> Announces(in'[k])
        <5>0. Plain(in, k)
          BY <4>1, <4>4, <1>4 DEF Plain
        <5>1. CASE k = Len(in)
          BY <5>0, <5>1, <4>1, <4>3, <1>4
        <5>2. CASE k # Len(in)
          <6>1. k \in 1 .. Len(in) - 1 /\ k + 1 \in 1 .. Len(in)
                /\ k \in 1 .. Len(in)
            BY <5>2, <4>1, <1>4
          <6> QED
            BY <5>0, <6>1, <1>4, <2>1 DEF InOrder
        <5> QED
          BY <5>1, <5>2
      <4> QED
        BY <3>2, <4>2, <4>4, <2>1 DEF InOrder, Announces
    <3> QED
      BY <3>1, <3>2
  <2> QED
    BY <2>3, <2>4
<1> QED
  BY <1>5, <1>6, <1>7 DEF IInv, Arrive

\* A byte is taken: the rest of what arrives is in order if the main loop goes
\* on as the byte has announced.
LEMMA TakeByte ==
  ASSUME TypeOK, InOrder, RestFits, NextByte, ~Odd(Head(in)),
         (pc' = "param") <=> Announces(Head(in))
  PROVE  InOrder' /\ RestFits'
<1>1. in \in Seq(Queued) /\ in # <<>> /\ Len(in) > 0 /\ Head(in) = in[1]
  BY DEF TypeOK, NextByte
<1>2. /\ Len(in') = Len(in) - 1 /\ in' \in Seq(Queued)
      /\ \A k \in 1 .. Len(in') : in'[k] = in[k + 1]
  BY <1>1 DEF NextByte
<1>5. ASSUME NEW n \in 0 .. Len(in'), Plain(in', n)
      PROVE  Plain(in, n + 1)
  <2>1. ASSUME NEW j \in 1 .. n + 1
        PROVE  ~Odd(in[j])
    <3>1. CASE j = 1
      BY <3>1, <1>1
    <3>2. CASE j # 1
      <4>1. j - 1 \in 1 .. n /\ in[j] = in'[j - 1]
        BY <3>2, <1>1, <1>2
      <4> QED
        BY <4>1, <1>5 DEF Plain
    <3> QED
      BY <3>1, <3>2
  <2> QED
    BY <2>1 DEF Plain
<1>3. InOrder'
  <2>1. ASSUME in' # <<>>
        PROVE  in'[1].role = "parameter" <=> pc' = "param"
    <3>1. Len(in') > 0 /\ 1 \in 1 .. Len(in) - 1 /\ in'[1] = in[2]
      BY <2>1, <1>1, <1>2
    <3>2. in[2].role = "parameter" <=> Announces(in[1])
      <4>1. Plain(in, 1)
        BY <1>1 DEF Plain
      <4> QED
        BY <3>1, <4>1 DEF InOrder
    <3> QED
      BY <3>1, <3>2, <1>1
  <2>2. ASSUME NEW k \in 1 .. Len(in') - 1, Plain(in', k)
        PROVE  in'[k + 1].role = "parameter" <=> Announces(in'[k])
    <3>1. k + 1 \in 1 .. Len(in) - 1 /\ in'[k] = in[k + 1]
          /\ in'[k + 1] = in[(k + 1) + 1]
      BY <1>1, <1>2
    <3>2. Plain(in, k + 1)
      BY <2>2, <1>5
    <3> QED
      BY <3>1, <3>2 DEF InOrder, Announces
  <2> QED
    BY <2>1, <2>2 DEF InOrder, Announces
<1>4. RestFits'
  <2>1. rest' = rest /\ conn' = conn
    BY DEF NextByte
  <2>4. ASSUME Plain(in', Len(in'))
        PROVE  Plain(in, Len(in))
    <3>1. Len(in') \in 0 .. Len(in') /\ Len(in') + 1 = Len(in)
      BY <1>1, <1>2
    <3> QED
      BY <2>4, <3>1, <1>5
  <2>2. CASE in' = <<>>
    <3>1. Len(in) = 1
      BY <2>2, <1>1, <1>2
    <3> QED
      BY <2>1, <2>2, <2>4, <3>1, <1>1 DEF RestFits
  <2>3. CASE in' # <<>>
    <3>1. Len(in') > 0 /\ in'[Len(in')] = in[Len(in)]
      BY <2>3, <1>1, <1>2
    <3> QED
      BY <2>1, <2>3, <2>4, <3>1, <1>1 DEF RestFits, Announces
  <2> QED
    BY <2>2, <2>3
<1> QED
  BY <1>3, <1>4

LEMMA ReadCommandInvariant ==
  ASSUME IInv, ReadCommand
  PROVE  IInv'
<1>1. in \in Seq(Queued) /\ in # <<>> /\ Head(in) = in[1] /\ Head(in) \in Queued
      /\ in' \in Seq(Queued)
  BY DEF IInv, TypeOK, ReadCommand, NextByte
<1>2. TypeOK'
  BY <1>1 DEF IInv, TypeOK, ReadCommand, NextByte, SendStatus, ClearBuffer, Queued
<1> DEFINE b == Head(in).byte
<1>3. LoggerKnows' /\ BusyOnlyWhileSending'
  <2>1. /\ conn' = conn /\ initialized' = initialized
        /\ last_sending' = last_sending /\ busy \in BOOLEAN
    BY DEF IInv, TypeOK, ReadCommand, NextByte
  <2>2. \/ UNCHANGED <<busy, told>>
        \/ SendStatus(busy) /\ UNCHANGED busy
        \/ ClearBuffer
    BY DEF ReadCommand
  <2>3. CASE UNCHANGED <<busy, told>>
    BY <2>1, <2>3 DEF IInv, LoggerKnows, BusyOnlyWhileSending
  <2>4. CASE SendStatus(busy) /\ UNCHANGED busy
    BY <2>1, <2>4 DEF IInv, LoggerKnows, BusyOnlyWhileSending, SendStatus
  <2>5. CASE ClearBuffer
    BY <2>1, <2>5 DEF LoggerKnows, BusyOnlyWhileSending, ClearBuffer, SendStatus
  <2> QED
    BY <2>2, <2>3, <2>4, <2>5
<1>4. ASSUME ~astray' PROVE InOrder' /\ RestFits'
  <2>1. ~astray /\ ~Odd(Head(in)) /\ pc = "read"
    BY <1>4 DEF ReadCommand
  <2>2. InOrder /\ RestFits
    BY <2>1 DEF IInv
  <2>3. Head(in).role # "parameter"
    BY <1>1, <2>1, <2>2 DEF InOrder
  <2>4. (pc' = "param") <=> b \in Parameters
    BY <2>1 DEF ReadCommand, Reads, Parameters, NULL_CMD, STATUS_REQUEST, CLEAR_BUFFER
  <2>5. (pc' = "param") <=> Announces(Head(in))
    BY <2>3, <2>4 DEF Announces
  <2> QED
    BY <2>1, <2>2, <2>5, TakeByte DEF IInv, ReadCommand
<1> QED
  BY <1>2, <1>3, <1>4 DEF IInv

LEMMA ReadParameterInvariant ==
  ASSUME IInv, ReadParameter
  PROVE  IInv'
<1>1. in \in Seq(Queued) /\ in # <<>> /\ Head(in) = in[1] /\ Head(in) \in Queued
      /\ in' \in Seq(Queued)
  BY DEF IInv, TypeOK, ReadParameter, NextByte
<1>2. Head(in).byte \in Byte
  BY <1>1 DEF Queued
<1>3. TypeOK'
  BY <1>1, <1>2 DEF IInv, TypeOK, ReadParameter, NextByte, SendStatus
<1>4. LoggerKnows' /\ BusyOnlyWhileSending'
  BY DEF IInv, TypeOK, ReadParameter, NextByte, SendStatus, LoggerKnows,
         BusyOnlyWhileSending
<1>5. ASSUME ~astray' PROVE InOrder' /\ RestFits'
  <2>1. ~astray /\ pc = "param" /\ pc' = "read"
    BY <1>5 DEF ReadParameter
  <2>2. InOrder /\ RestFits
    BY <2>1 DEF IInv
  <2>3. Head(in).role = "parameter"
    BY <1>1, <2>1, <2>2 DEF InOrder
  <2>4. (pc' = "param") <=> Announces(Head(in))
    BY <2>1, <2>3 DEF Announces
  <2>5. ~Odd(Head(in))
    BY <2>3 DEF Odd
  <2> QED
    BY <2>2, <2>4, <2>5, TakeByte DEF IInv, ReadParameter
<1> QED
  BY <1>3, <1>4, <1>5 DEF IInv

\* The step that ends the reading loop: everything has been read.
LEMMA NothingToReadInvariant ==
  ASSUME IInv, NothingToRead
  PROVE  IInv'
<1>1. TypeOK' /\ LoggerKnows' /\ BusyOnlyWhileSending'
  BY DEF IInv, TypeOK, LoggerKnows, BusyOnlyWhileSending, NothingToRead, NoByte,
         server
<1>2. ASSUME ~astray' PROVE InOrder' /\ RestFits'
  <2>1. InOrder /\ RestFits /\ in = <<>> /\ in' = in /\ rest' = rest
        /\ pc = "read" /\ pc' = "busy"
    BY <1>2 DEF IInv, NothingToRead, NoByte
  <2>2. conn' = "open" => conn = "open"
    BY DEF NothingToRead, NoByte
  <2> QED
    BY <2>1, <2>2 DEF InOrder, RestFits, Announces
<1> QED
  BY <1>1, <1>2 DEF IInv

\* A step after which the main loop does not expect a parameter either.
LEMMA OrderKept ==
  ASSUME InOrder, RestFits, UNCHANGED wire, pc # "param", pc' # "param"
  PROVE  InOrder' /\ RestFits'
BY DEF InOrder, RestFits, Announces, wire

LEMMA UpdateBusyInvariant ==
  ASSUME IInv, UpdateBusy
  PROVE  IInv'
<1>1. TypeOK'
  BY DEF IInv, TypeOK, UpdateBusy, SetBusy, SendStatus, wire
<1>2. LoggerKnows' /\ BusyOnlyWhileSending'
  BY DEF IInv, TypeOK, UpdateBusy, SetBusy, SendStatus, wire, LoggerKnows,
         BusyOnlyWhileSending
<1>3. ~astray' => InOrder' /\ RestFits'
  BY OrderKept DEF IInv, UpdateBusy
<1> QED
  BY <1>1, <1>2, <1>3 DEF IInv

LEMMA AcceptInvariant ==
  ASSUME IInv, Accept
  PROVE  IInv'
<1>1. <<>> \in Seq(Queued)
  OBVIOUS
<1>2. TypeOK'
  BY <1>1 DEF IInv, TypeOK, Accept, server
<1>3. LoggerKnows' /\ BusyOnlyWhileSending'
  BY DEF IInv, LoggerKnows, BusyOnlyWhileSending, Accept, server
<1>4. InOrder' /\ RestFits'
  BY DEF InOrder, RestFits, Accept
<1> QED
  BY <1>2, <1>3, <1>4 DEF IInv

LEMMA HangupInvariant ==
  ASSUME IInv, Hangup
  PROVE  IInv'
<1>1. <<>> \in Seq(Queued)
  OBVIOUS
<1>2. TypeOK'
  BY <1>1 DEF IInv, TypeOK, Hangup, server
<1>3. LoggerKnows' /\ BusyOnlyWhileSending'
  BY DEF IInv, LoggerKnows, BusyOnlyWhileSending, Hangup, server
<1>4. ~astray' => InOrder' /\ RestFits'
  BY DEF IInv, InOrder, RestFits, Announces, Hangup
<1> QED
  BY <1>2, <1>3, <1>4 DEF IInv

LEMMA NextInvariant == IInv /\ [Next]_vars => IInv'
<1> SUFFICES ASSUME IInv, [Next]_vars PROVE IInv'
  OBVIOUS
<1>1. CASE Keying \/ UNCHANGED vars
  <2>1. UNCHANGED <<wire, pc, server, last_sending, told, astray>>
        /\ sending' \in BOOLEAN
    BY <1>1 DEF Keying, vars, wire, server, IInv, TypeOK
  <2> QED
    BY <2>1 DEF IInv, TypeOK, LoggerKnows, BusyOnlyWhileSending, InOrder,
                RestFits, Announces, wire, server
<1>2. CASE Poll
  <2>1. TypeOK' /\ LoggerKnows' /\ BusyOnlyWhileSending'
    BY <1>2 DEF Poll, IInv, TypeOK, LoggerKnows, BusyOnlyWhileSending, wire,
                server
  <2>2. ~astray' => InOrder' /\ RestFits'
    BY <1>2, OrderKept DEF Poll, IInv
  <2> QED
    BY <2>1, <2>2 DEF IInv
<1>3. CASE NoParameter
  BY <1>3 DEF NoParameter, NoByte, IInv, TypeOK, LoggerKnows,
              BusyOnlyWhileSending, server
<1> QED
  BY <1>1, <1>2, <1>3, ArriveInvariant, HangupInvariant, AcceptInvariant,
     ReadCommandInvariant, ReadParameterInvariant, NothingToReadInvariant,
     UpdateBusyInvariant DEF Next, MainLoop

\* The inductive invariant holds in every state the server can reach.
THEOREM Invariant == Spec => []IInv
BY InitInvariant, NextInvariant, PTL DEF Spec

-----------------------------------------------------------------------------

\* The state of the server keeps its type.
THEOREM TypeCorrect == Spec => []TypeOK
BY Invariant, PTL DEF IInv

\* Whatever is sent, there are only three ways for the server to take a byte
\* for what it was not meant to be, on every connection anew: a parameter that
\* comes late, the end of a text, a command with other parameters than it reads.
THEOREM BytesUnderstood == Spec => []BytesAreUnderstood
<1>1. IInv => BytesAreUnderstood
  <2> SUFFICES ASSUME IInv, in # <<>>, ~astray
               PROVE  /\ pc = "read"  => Head(in).role # "parameter"
                      /\ pc = "param" => Head(in).role = "parameter"
    BY DEF BytesAreUnderstood
  <2>1. Head(in) = in[1]
    BY DEF IInv, TypeOK
  <2> QED
    BY <2>1 DEF IInv, InOrder
<1> QED
  BY <1>1, Invariant, PTL

\* What a logger that has opened the keyer was told last is still so.
THEOREM LoggerIsRight == Spec => []LoggerKnows
BY Invariant, PTL DEF IInv

\* The keyer is never busy when the main loop knows the station to be silent.
THEOREM NotBusyInSilence == Spec => []BusyOnlyWhileSending
BY Invariant, PTL DEF IInv

=============================================================================
