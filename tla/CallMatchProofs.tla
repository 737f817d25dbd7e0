-------------------------- MODULE CallMatchProofs ---------------------------
(***************************************************************************)
(* What isMyCall answers, for calls of any letters and of any length.      *)
(*                                                                         *)
(* The distance is a recursive function on the places of a matrix.  The    *)
(* library has no induction that can be used here; a set of numbers that   *)
(* has 0 and every successor has them all, because a number left out would *)
(* have a least one (FirstPosition).  With it: there is such a matrix; a   *)
(* distance of 0 is an end of the call, and a distance of at most 1 is one *)
(* with at most one letter wrong, too many or missing.                     *)
(***************************************************************************)
EXTENDS ContestCalls, ContestProofs

-----------------------------------------------------------------------------
\* What holds of 0, and of each number's successor if of the number.
LEMMA Upwards ==
  ASSUME NEW S, 0 \in S, \A n \in Nat : n \in S => n + 1 \in S
  PROVE  Nat \subseteq S
<1> DEFINE T == Nat \ S
<1>1. ASSUME T # {}
      PROVE  FALSE
  <2>1. T \subseteq Nat
    OBVIOUS
  <2>2. PICK i \in T : \A j \in T : ~(j < i)
    BY <1>1, <2>1, FirstPosition
  <2>3. i \in Nat /\ i # 0 /\ i \notin S
    OBVIOUS
  <2>4. i - 1 \in Nat /\ i - 1 < i /\ (i - 1) + 1 = i
    BY <2>3
  <2>5. i - 1 \in S
    BY <2>2, <2>4
  <2> QED
    BY <2>3, <2>4, <2>5
<1> QED
  BY <1>1

\* The same up to a bound.
LEMMA UpTo ==
  ASSUME NEW n \in Nat, NEW S, 0 \in S, \A x \in 1 .. n : x - 1 \in S => x \in S
  PROVE  0 .. n \subseteq S
<1> DEFINE T == {x \in Nat : x <= n => x \in S}
<1>1. 0 \in T
  OBVIOUS
<1>2. ASSUME NEW x \in Nat, x \in T
      PROVE  x + 1 \in T
  <2>1. CASE x + 1 <= n
    <3>1. x + 1 \in 1 .. n /\ (x + 1) - 1 = x /\ x \in S
      BY <1>2, <2>1
    <3>2. x + 1 \in S
      BY <3>1
    <3> QED
      BY <3>2
  <2>2. CASE ~(x + 1 <= n)
    BY <2>2
  <2> QED
    BY <2>1, <2>2
<1>3. Nat \subseteq T
  <2> HIDE DEF T
  <2> QED
    BY <1>1, <1>2, Upwards
<1> QED
  BY <1>3

LEMMA MinOfThree ==
  ASSUME NEW a \in Nat, NEW b \in Nat, NEW d \in Nat
  PROVE  LET s == Min({a, b, d})
         IN  s \in {a, b, d} /\ s <= a /\ s <= b /\ s <= d
<1> DEFINE S == {a, b, d}
<1>1. \E x \in S : \A y \in S : x =< y
  <2>1. CASE a <= b /\ a <= d
    BY <2>1
  <2>2. CASE b <= a /\ b <= d
    BY <2>2
  <2>3. CASE d <= a /\ d <= b
    BY <2>3
  <2> QED
    BY <2>1, <2>2, <2>3
<1>2. a \in S /\ b \in S /\ d \in S
  OBVIOUS
<1> HIDE DEF S
<1>3. Min(S) \in S /\ \A y \in S : Min(S) =< y
  BY <1>1 DEF Min
<1>4. Min(S) \in S /\ Min(S) <= a /\ Min(S) <= b /\ Min(S) <= d
  BY <1>2, <1>3
<1> QED
  BY <1>4 DEF S

-----------------------------------------------------------------------------
(***************************************************************************)
(* There is a matrix: the recursion of Matrix comes to an end.             *)
(***************************************************************************)
Places(c, c0) == (0 .. Len(c)) \X (0 .. Len(c0))

LEMMA PlaceType ==
  ASSUME NEW c, NEW c0, Len(c) \in Nat, Len(c0) \in Nat, NEW p \in Places(c, c0)
  PROVE  /\ p[1] \in Nat /\ p[2] \in Nat /\ p = <<p[1], p[2]>>
         /\ p[1] <= Len(c) /\ p[2] <= Len(c0)
         /\ p[1] # 0 /\ p[2] # 0 =>
              /\ <<p[1], p[2] - 1>> \in Places(c, c0)
              /\ <<p[1] - 1, p[2]>> \in Places(c, c0)
              /\ <<p[1] - 1, p[2] - 1>> \in Places(c, c0)
<1>1. p[1] \in 0 .. Len(c) /\ p[2] \in 0 .. Len(c0) /\ p = <<p[1], p[2]>>
  BY DEF Places
<1>2. p[1] # 0 /\ p[2] # 0 => p[1] - 1 \in 0 .. Len(c) /\ p[2] - 1 \in 0 .. Len(c0)
  BY <1>1
<1> QED
  BY <1>1, <1>2 DEF Places

\* An entry depends on its three neighbours only.
LEMMA CellDepends ==
  ASSUME NEW c, NEW c0, NEW m, NEW w, NEW x, NEW y,
         x # 0 /\ y # 0 =>
           /\ m[<<x, y - 1>>] = w[<<x, y - 1>>]
           /\ m[<<x - 1, y>>] = w[<<x - 1, y>>]
           /\ m[<<x - 1, y - 1>>] = w[<<x - 1, y - 1>>]
  PROVE  Cell(m, c, c0, x, y) = Cell(w, c, c0, x, y)
  BY DEF Cell

LEMMA MatrixExists ==
  ASSUME NEW c, NEW c0, Len(c) \in Nat, Len(c0) \in Nat
  PROVE  \E m : m = [p \in Places(c, c0) |-> Cell(m, c, c0, p[1], p[2])]
<1> DEFINE P == Places(c, c0)
           Filled(m, s) ==
             /\ m = [p \in P |-> m[p]]
             /\ \A p \in P : p[1] + p[2] <= s => m[p] = Cell(m, c, c0, p[1], p[2])
           S == {s \in Nat : \E m : Filled(m, s)}
<1>1. 0 \in S
  <2> DEFINE m == [p \in P |-> p[1]]
  <2>1. ASSUME NEW p \in P, p[1] + p[2] <= 0
        PROVE  m[p] = Cell(m, c, c0, p[1], p[2])
    <3>1. p[1] \in Nat /\ p[2] \in Nat
      BY PlaceType
    <3>2. p[1] = 0
      BY <2>1, <3>1
    <3> QED
      BY <3>2 DEF Cell
  <2>2. m = [p \in P |-> m[p]]
    OBVIOUS
  <2>3. Filled(m, 0)
    BY <2>1, <2>2
  <2> QED
    BY <2>3
<1>2. ASSUME NEW s \in Nat, s \in S
      PROVE  s + 1 \in S
  <2>1. PICK m : Filled(m, s)
    BY <1>2
  <2> DEFINE w == [p \in P |-> IF p[1] + p[2] <= s THEN m[p]
                               ELSE Cell(m, c, c0, p[1], p[2])]
  <2>2. \A p \in P : p[1] + p[2] <= s => w[p] = m[p]
    OBVIOUS
  <2>3. \A p \in P : ~(p[1] + p[2] <= s) => w[p] = Cell(m, c, c0, p[1], p[2])
    OBVIOUS
  <2>4. w = [p \in P |-> w[p]]
    OBVIOUS
  <2> HIDE DEF w
  <2>5. ASSUME NEW p \in P, p[1] + p[2] <= s + 1
        PROVE  w[p] = Cell(w, c, c0, p[1], p[2])
    <3> DEFINE x == p[1]
               y == p[2]
    <3>1. x \in Nat /\ y \in Nat
      BY PlaceType
    <3>2. ASSUME x # 0, y # 0
          PROVE  /\ w[<<x, y - 1>>] = m[<<x, y - 1>>]
                 /\ w[<<x - 1, y>>] = m[<<x - 1, y>>]
                 /\ w[<<x - 1, y - 1>>] = m[<<x - 1, y - 1>>]
      <4>1. /\ <<x, y - 1>> \in P /\ <<x - 1, y>> \in P
            /\ <<x - 1, y - 1>> \in P
        BY <3>2, PlaceType
      <4>2. /\ <<x, y - 1>>[1] + <<x, y - 1>>[2] <= s
            /\ <<x - 1, y>>[1] + <<x - 1, y>>[2] <= s
            /\ <<x - 1, y - 1>>[1] + <<x - 1, y - 1>>[2] <= s
        BY <2>5, <3>1, <3>2
      <4> HIDE DEF P, x, y
      <4> QED
        BY <2>2, <4>1, <4>2
    <3>3. Cell(w, c, c0, x, y) = Cell(m, c, c0, x, y)
      <4> HIDE DEF x, y
      <4> QED
        BY <3>2, CellDepends
    <3>4. CASE x + y <= s
      BY <2>1, <2>2, <3>3, <3>4
    <3>5. CASE ~(x + y <= s)
      BY <2>3, <3>3, <3>5
    <3> QED
      BY <3>4, <3>5
  <2>6. Filled(w, s + 1)
    BY <2>4, <2>5
  <2> QED
    BY <2>6
<1>3. Nat \subseteq S
  <2> HIDE DEF S
  <2> QED
    BY <1>1, <1>2, Upwards
<1>4. PICK m : Filled(m, Len(c) + Len(c0))
  BY <1>3
<1>5. ASSUME NEW p \in P
      PROVE  p[1] + p[2] <= Len(c) + Len(c0)
  <2>1. /\ p[1] \in Nat /\ p[2] \in Nat
        /\ p[1] <= Len(c) /\ p[2] <= Len(c0)
    BY PlaceType
  <2> QED
    BY <2>1
<1>6. \A p \in P : m[p] = Cell(m, c, c0, p[1], p[2])
  BY <1>4, <1>5
<1>7. m = [p \in P |-> Cell(m, c, c0, p[1], p[2])]
  BY <1>4, <1>6
<1> QED
  BY <1>7

LEMMA MatrixIs ==
  ASSUME NEW c, NEW c0, Len(c) \in Nat, Len(c0) \in Nat, NEW p \in Places(c, c0)
  PROVE  Matrix(c, c0)[p] = Cell(Matrix(c, c0), c, c0, p[1], p[2])
<1> DEFINE Fits(m) == m = [q \in Places(c, c0) |-> Cell(m, c, c0, q[1], q[2])]
<1>1. Matrix(c, c0) = CHOOSE m : Fits(m)
  BY DEF Matrix, Places
<1>2. \E m : Fits(m)
  BY MatrixExists
<1>3. Fits(Matrix(c, c0))
  <2> HIDE DEF Fits
  <2>1. Fits(CHOOSE m : Fits(m))
    BY <1>2
  <2> QED
    BY <1>1, <2>1
<1> QED
  BY <1>3

\* The entries by place.
LEMMA MatrixNat ==
  ASSUME NEW c, NEW c0, Len(c) \in Nat, Len(c0) \in Nat, NEW p \in Places(c, c0)
  PROVE  Matrix(c, c0)[p] \in Nat
<1> DEFINE P == Places(c, c0)
           D == Matrix(c, c0)
           S == {s \in Nat : \A q \in P : q[1] + q[2] <= s => D[q] \in Nat}
<1>1. ASSUME NEW s \in Nat \cup {-1}, s # -1 => s \in S
      PROVE  s + 1 \in S
  <2>1. ASSUME NEW q \in P, q[1] + q[2] <= s + 1
        PROVE  D[q] \in Nat
    <3> DEFINE x == q[1]
               y == q[2]
    <3>1. x \in Nat /\ y \in Nat
      BY PlaceType
    <3>2. D[q] = Cell(D, c, c0, x, y)
      BY MatrixIs
    <3>3. CASE x = 0 \/ y = 0
      BY <3>1, <3>2, <3>3 DEF Cell
    <3>4. CASE x # 0 /\ y # 0
      <4>1. /\ <<x, y - 1>> \in P /\ <<x - 1, y>> \in P
            /\ <<x - 1, y - 1>> \in P
        BY <3>4, PlaceType
      <4>2. /\ s # -1
            /\ <<x, y - 1>>[1] + <<x, y - 1>>[2] <= s
            /\ <<x - 1, y>>[1] + <<x - 1, y>>[2] <= s
            /\ <<x - 1, y - 1>>[1] + <<x - 1, y - 1>>[2] <= s
        BY <2>1, <3>1, <3>4
      <4> DEFINE l == D[<<x, y - 1>>]
                 a == D[<<x - 1, y>>]
                 d == D[<<x - 1, y - 1>>]
      <4>3. l \in Nat /\ a \in Nat /\ d \in Nat
        <5> HIDE DEF P, D, x, y
        <5> QED
          BY <1>1, <4>1, <4>2
      <4>4. CASE c[x] = Wildcard
        <5>1. D[q] = Min({l, a, d})
          BY <3>2, <3>4, <4>4 DEF Cell
        <5> HIDE DEF l, a, d, D
        <5> QED
          BY <4>3, <5>1, MinOfThree
      <4>5. CASE c[x] # Wildcard
        <5> DEFINE e == d + (IF c[x] = c0[y] THEN 0 ELSE 1)
        <5>1. D[q] = Min({l + 1, a + 1, e})
          BY <3>2, <3>4, <4>5 DEF Cell
        <5>2. l + 1 \in Nat /\ a + 1 \in Nat /\ e \in Nat
          <6> HIDE DEF l, a, d
          <6> QED
            BY <4>3
        <5> HIDE DEF l, a, d, D, e
        <5> QED
          BY <5>1, <5>2, MinOfThree
      <4> QED
        BY <4>4, <4>5
    <3> QED
      BY <3>3, <3>4
  <2> QED
    BY <2>1
<1>2. Nat \subseteq S
  <2>1. 0 \in S
    <3>1. -1 \in Nat \cup {-1} /\ -1 + 1 = 0
      OBVIOUS
    <3> HIDE DEF S
    <3> QED
      BY <1>1, <3>1
  <2>2. \A s \in Nat : s \in S => s + 1 \in S
    BY <1>1
  <2> HIDE DEF S
  <2> QED
    BY <2>1, <2>2, Upwards
<1>3. p[1] \in Nat /\ p[2] \in Nat
  BY PlaceType
<1>4. p[1] + p[2] \in Nat /\ p[1] + p[2] <= p[1] + p[2]
  BY <1>3
<1>5. p[1] + p[2] \in S
  BY <1>2, <1>4
<1> QED
  BY <1>4, <1>5

LEMMA EntryAt ==
  ASSUME NEW c, NEW c0, Len(c) \in Nat, Len(c0) \in Nat,
         NEW x \in 0 .. Len(c), NEW y \in 0 .. Len(c0)
  PROVE  LET D == Matrix(c, c0)
         IN  /\ D[<<x, y>>] \in Nat
             /\ D[<<x, y>>] = Cell(D, c, c0, x, y)
<1>1. <<x, y>> \in Places(c, c0) /\ <<x, y>>[1] = x /\ <<x, y>>[2] = y
  BY DEF Places
<1> QED
  BY <1>1, MatrixIs, MatrixNat

LEMMA EntryOnEdge ==
  ASSUME NEW c, NEW c0, Len(c) \in Nat, Len(c0) \in Nat,
         NEW x \in 0 .. Len(c), NEW y \in 0 .. Len(c0), x = 0 \/ y = 0
  PROVE  Matrix(c, c0)[<<x, y>>] = x
<1> DEFINE D == Matrix(c, c0)
<1>1. D[<<x, y>>] = Cell(D, c, c0, x, y)
  BY EntryAt
<1> HIDE DEF D
<1>2. D[<<x, y>>] = x
  BY <1>1 DEF Cell
<1> QED
  BY <1>2 DEF D

\* An entry is the least of three, for a letter that was copied.
LeastOfThree(D, c, c0, x, y) ==
  /\ D[<<x, y - 1>>] \in Nat /\ D[<<x - 1, y>>] \in Nat
  /\ D[<<x - 1, y - 1>>] \in Nat /\ D[<<x, y>>] \in Nat
  /\ \/ D[<<x, y>>] = D[<<x, y - 1>>] + 1
     \/ D[<<x, y>>] = D[<<x - 1, y>>] + 1
     \/ D[<<x, y>>] = D[<<x - 1, y - 1>>] + (IF c[x] = c0[y] THEN 0 ELSE 1)
  /\ D[<<x, y>>] <= D[<<x, y - 1>>] + 1
  /\ D[<<x, y>>] <= D[<<x - 1, y>>] + 1
  /\ D[<<x, y>>] <= D[<<x - 1, y - 1>>] + (IF c[x] = c0[y] THEN 0 ELSE 1)

LEMMA EntryOfLetter ==
  ASSUME NEW c, NEW c0, Len(c) \in Nat, Len(c0) \in Nat,
         NEW x \in 1 .. Len(c), NEW y \in 1 .. Len(c0), c[x] # Wildcard
  PROVE  LeastOfThree(Matrix(c, c0), c, c0, x, y)
<1> DEFINE D == Matrix(c, c0)
           l == D[<<x, y - 1>>]
           a == D[<<x - 1, y>>]
           d == D[<<x - 1, y - 1>>]
           e == d + (IF c[x] = c0[y] THEN 0 ELSE 1)
<1>1. /\ x \in 0 .. Len(c) /\ x - 1 \in 0 .. Len(c) /\ x # 0
      /\ y \in 0 .. Len(c0) /\ y - 1 \in 0 .. Len(c0) /\ y # 0
  OBVIOUS
<1>2. l \in Nat /\ a \in Nat /\ d \in Nat /\ D[<<x, y>>] \in Nat
  BY <1>1, EntryAt
<1>3. D[<<x, y>>] = Min({l + 1, a + 1, e})
  <2>1. D[<<x, y>>] = Cell(D, c, c0, x, y)
    BY <1>1, EntryAt
  <2> HIDE DEF D
  <2> QED
    BY <1>1, <2>1 DEF Cell
<1>4. l + 1 \in Nat /\ a + 1 \in Nat /\ e \in Nat
  <2> HIDE DEF l, a, d, D
  <2> QED
    BY <1>2
<1>5. LET s == D[<<x, y>>]
      IN  s \in {l + 1, a + 1, e} /\ s <= l + 1 /\ s <= a + 1 /\ s <= e
  <2> HIDE DEF l, a, d, e, D
  <2> QED
    BY <1>3, <1>4, MinOfThree
<1> HIDE DEF D
<1>6. LeastOfThree(D, c, c0, x, y)
  BY <1>2, <1>5 DEF LeastOfThree
<1> QED
  BY <1>6 DEF D

LEMMA ZeroEntry ==
  ASSUME NEW c, NEW c0, Len(c) \in Nat, Len(c0) \in Nat,
         NEW x \in 1 .. Len(c), NEW y \in 1 .. Len(c0), c[x] # Wildcard,
         NEW D, D = Matrix(c, c0)
  PROVE  D[<<x, y>>] = 0 <=> D[<<x - 1, y - 1>>] = 0 /\ c[x] = c0[y]
<1>1. LeastOfThree(D, c, c0, x, y)
  BY EntryOfLetter
<1> DEFINE v == D[<<x, y>>]
           d == D[<<x - 1, y - 1>>]
           l == D[<<x, y - 1>>]
           a == D[<<x - 1, y>>]
<1>2. v \in Nat /\ l \in Nat /\ a \in Nat /\ d \in Nat
  BY <1>1 DEF LeastOfThree
<1>3. CASE c[x] = c0[y]
  <2>1. v = l + 1 \/ v = a + 1 \/ v = d
    BY <1>1, <1>2, <1>3 DEF LeastOfThree
  <2>2. v <= d
    BY <1>1, <1>2, <1>3 DEF LeastOfThree
  <2>3. v = 0 <=> d = 0
    <3> HIDE DEF v, l, a, d
    <3> QED
      BY <1>2, <2>1, <2>2
  <2> QED
    BY <1>3, <2>3
<1>4. CASE c[x] # c0[y]
  <2>1. v = l + 1 \/ v = a + 1 \/ v = d + 1
    BY <1>1, <1>2, <1>4 DEF LeastOfThree
  <2>2. v # 0
    <3> HIDE DEF v, l, a, d
    <3> QED
      BY <1>2, <2>1
  <2> QED
    BY <1>4, <2>2
<1> QED
  BY <1>3, <1>4

LEMMA EntryAtMostOne ==
  ASSUME NEW c, NEW c0, Len(c) \in Nat, Len(c0) \in Nat,
         NEW x \in 1 .. Len(c), NEW y \in 1 .. Len(c0), c[x] # Wildcard,
         NEW D, D = Matrix(c, c0)
  PROVE  D[<<x, y>>] <= 1 <=>
           \/ D[<<x, y - 1>>] = 0
           \/ D[<<x - 1, y>>] = 0
           \/ D[<<x - 1, y - 1>>] = 0
           \/ D[<<x - 1, y - 1>>] <= 1 /\ c[x] = c0[y]
<1> DEFINE v == D[<<x, y>>]
           l == D[<<x, y - 1>>]
           a == D[<<x - 1, y>>]
           d == D[<<x - 1, y - 1>>]
<1>1. LeastOfThree(D, c, c0, x, y)
  BY EntryOfLetter
<1>2. l \in Nat /\ a \in Nat /\ d \in Nat /\ v \in Nat
  BY <1>1 DEF LeastOfThree
<1>3. CASE c[x] = c0[y]
  <2>1. /\ v = l + 1 \/ v = a + 1 \/ v = d
        /\ v <= l + 1 /\ v <= a + 1 /\ v <= d
    BY <1>1, <1>2, <1>3 DEF LeastOfThree
  <2>2. v <= 1 <=> l = 0 \/ a = 0 \/ d <= 1
    <3> HIDE DEF v, l, a, d
    <3> QED
      BY <1>2, <2>1
  <2>3. d = 0 => d <= 1
    OBVIOUS
  <2> HIDE DEF v, l, a, d
  <2>4. v <= 1 <=> l = 0 \/ a = 0 \/ d = 0 \/ (d <= 1 /\ c[x] = c0[y])
    BY <1>3, <2>2, <2>3
  <2> QED
    BY <2>4 DEF v, l, a, d
<1>4. CASE c[x] # c0[y]
  <2>1. /\ v = l + 1 \/ v = a + 1 \/ v = d + 1
        /\ v <= l + 1 /\ v <= a + 1 /\ v <= d + 1
    BY <1>1, <1>2, <1>4 DEF LeastOfThree
  <2>2. v <= 1 <=> l = 0 \/ a = 0 \/ d = 0
    <3> HIDE DEF v, l, a, d
    <3> QED
      BY <1>2, <2>1
  <2> HIDE DEF v, l, a, d
  <2>3. v <= 1 <=> l = 0 \/ a = 0 \/ d = 0 \/ (d <= 1 /\ c[x] = c0[y])
    BY <1>4, <2>2
  <2> QED
    BY <2>3 DEF v, l, a, d
<1> QED
  BY <1>3, <1>4

\* A letter that was not copied costs nothing.
LEMMA EntryOfWildcard ==
  ASSUME NEW c, NEW c0, Len(c) \in Nat, Len(c0) \in Nat,
         NEW x \in 1 .. Len(c), NEW y \in 1 .. Len(c0), c[x] = Wildcard
  PROVE  Matrix(c, c0)[<<x, y>>] <= Matrix(c, c0)[<<x - 1, y - 1>>]
<1> DEFINE D == Matrix(c, c0)
           l == D[<<x, y - 1>>]
           a == D[<<x - 1, y>>]
           d == D[<<x - 1, y - 1>>]
<1>1. /\ x \in 0 .. Len(c) /\ x - 1 \in 0 .. Len(c) /\ x # 0
      /\ y \in 0 .. Len(c0) /\ y - 1 \in 0 .. Len(c0) /\ y # 0
  OBVIOUS
<1>2. l \in Nat /\ a \in Nat /\ d \in Nat
  BY <1>1, EntryAt
<1>3. D[<<x, y>>] = Min({l, a, d})
  <2>1. D[<<x, y>>] = Cell(D, c, c0, x, y)
    BY <1>1, EntryAt
  <2> HIDE DEF D
  <2> QED
    BY <1>1, <2>1 DEF Cell
<1>4. D[<<x, y>>] <= d
  <2> HIDE DEF l, a, d, D
  <2> QED
    BY <1>2, <1>3, MinOfThree
<1> QED
  BY <1>4

-----------------------------------------------------------------------------
(***************************************************************************)
(* What a distance of 0 and of at most 1 means: the first x letters of c   *)
(* are an end of the first y of c0, or are so but for one letter, the      *)
(* place j of which is the witness.                                        *)
(***************************************************************************)
Ends(c, c0, x, y) ==
  x <= y /\ \A i \in 1 .. x : c[i] = c0[y - x + i]

WrongLetter(c, c0, x, y) ==
  /\ x <= y
  /\ \E j \in 1 .. x : \A i \in 1 .. x : i # j => c[i] = c0[y - x + i]

MoreLetter(c, c0, x, y) ==
  /\ x - 1 <= y
  /\ \E j \in 1 .. x : \A i \in 1 .. x :
       /\ i < j => c[i] = c0[y - x + 1 + i]
       /\ i > j => c[i] = c0[y - x + i]

LessLetter(c, c0, x, y) ==
  /\ x + 1 <= y
  /\ \E j \in 0 .. x : \A i \in 1 .. x :
       /\ i <= j => c[i] = c0[y - x - 1 + i]
       /\ i > j  => c[i] = c0[y - x + i]

Near(c, c0, x, y) ==
  \/ Ends(c, c0, x, y)
  \/ WrongLetter(c, c0, x, y)
  \/ MoreLetter(c, c0, x, y)
  \/ LessLetter(c, c0, x, y)

LEMMA EndsStep ==
  ASSUME NEW c, NEW c0, NEW x \in Nat \ {0}, NEW y \in Nat \ {0}
  PROVE  Ends(c, c0, x, y) <=> Ends(c, c0, x - 1, y - 1) /\ c[x] = c0[y]
<1>1. /\ x - 1 <= y - 1 <=> x <= y
      /\ (y - 1) - (x - 1) = y - x /\ y - x + x = y
      /\ 1 .. x = (1 .. x - 1) \cup {x}
  OBVIOUS
<1> QED
  BY <1>1 DEF Ends

LEMMA ZeroMeans ==
  ASSUME NEW c, NEW c0, Len(c) \in Nat, Len(c0) \in Nat,
         \A i \in 1 .. Len(c) : c[i] # Wildcard
  PROVE  \A x \in 0 .. Len(c), y \in 0 .. Len(c0) :
           Matrix(c, c0)[<<x, y>>] = 0 <=> Ends(c, c0, x, y)
<1> DEFINE D == Matrix(c, c0)
           S == {x \in 0 .. Len(c) : \A y \in 0 .. Len(c0) :
                   D[<<x, y>>] = 0 <=> Ends(c, c0, x, y)}
<1>1. 0 \in S
  <2>1. ASSUME NEW y \in 0 .. Len(c0)
        PROVE  D[<<0, y>>] = 0 /\ Ends(c, c0, 0, y)
    <3>1. 0 \in 0 .. Len(c)
      OBVIOUS
    <3>2. D[<<0, y>>] = 0
      BY <3>1, EntryOnEdge
    <3> QED
      BY <3>2 DEF Ends
  <2> QED
    BY <2>1
<1>2. ASSUME NEW x \in 1 .. Len(c), x - 1 \in S
      PROVE  x \in S
  <2>1. ASSUME NEW y \in 0 .. Len(c0)
        PROVE  D[<<x, y>>] = 0 <=> Ends(c, c0, x, y)
    <3>1. CASE y = 0
      <4>1. x \in 0 .. Len(c) /\ x # 0 /\ ~(x <= y)
        BY <3>1
      <4>2. D[<<x, y>>] = x
        BY <3>1, <4>1, EntryOnEdge
      <4> HIDE DEF D
      <4> QED
        BY <4>1, <4>2 DEF Ends
    <3>2. CASE y # 0
      <4>1. /\ y \in 1 .. Len(c0) /\ y - 1 \in 0 .. Len(c0)
            /\ x \in Nat \ {0} /\ y \in Nat \ {0} /\ c[x] # Wildcard
        BY <3>2
      <4>2. D[<<x, y>>] = 0 <=> D[<<x - 1, y - 1>>] = 0 /\ c[x] = c0[y]
        BY <4>1, ZeroEntry
      <4>3. D[<<x - 1, y - 1>>] = 0 <=> Ends(c, c0, x - 1, y - 1)
        BY <1>2, <4>1
      <4>4. Ends(c, c0, x, y) <=> Ends(c, c0, x - 1, y - 1) /\ c[x] = c0[y]
        BY <4>1, EndsStep
      <4> HIDE DEF D
      <4> QED
        BY <4>2, <4>3, <4>4
    <3> QED
      BY <3>1, <3>2
  <2> QED
    BY <2>1
<1>3. 0 .. Len(c) \subseteq S
  <2> HIDE DEF S
  <2> QED
    BY <1>1, <1>2, UpTo
<1> QED
  BY <1>3

\* An error before the last letter, or in it.
LEMMA NearStep ==
  ASSUME NEW c, NEW c0, NEW x \in Nat \ {0}, NEW y \in Nat \ {0}
  PROVE  Near(c, c0, x, y) <=>
           \/ Ends(c, c0, x, y - 1)
           \/ Ends(c, c0, x - 1, y)
           \/ Ends(c, c0, x - 1, y - 1)
           \/ Near(c, c0, x - 1, y - 1) /\ c[x] = c0[y]
<1>1. ASSUME WrongLetter(c, c0, x, y)
      PROVE  \/ Ends(c, c0, x - 1, y - 1)
             \/ WrongLetter(c, c0, x - 1, y - 1) /\ c[x] = c0[y]
  <2>1. PICK j \in 1 .. x : \A i \in 1 .. x : i # j => c[i] = c0[y - x + i]
    BY <1>1 DEF WrongLetter
  <2>2. x <= y /\ x - 1 <= y - 1 /\ (y - 1) - (x - 1) = y - x
    BY <1>1 DEF WrongLetter
  <2>3. CASE j = x
    BY <2>1, <2>2, <2>3 DEF Ends
  <2>4. CASE j # x
    <3>1. j \in 1 .. x - 1 /\ x \in 1 .. x /\ y - x + x = y
      BY <2>4
    <3>2. c[x] = c0[y]
      BY <2>1, <2>4, <3>1
    <3>3. \A i \in 1 .. x - 1 : i # j => c[i] = c0[(y - 1) - (x - 1) + i]
      BY <2>1, <2>2
    <3>4. WrongLetter(c, c0, x - 1, y - 1)
      BY <2>2, <3>1, <3>3 DEF WrongLetter
    <3> QED
      BY <3>2, <3>4
  <2> QED
    BY <2>3, <2>4
<1>2. ASSUME MoreLetter(c, c0, x, y)
      PROVE  \/ Ends(c, c0, x - 1, y)
             \/ MoreLetter(c, c0, x - 1, y - 1) /\ c[x] = c0[y]
  <2>1. PICK j \in 1 .. x : \A i \in 1 .. x :
                              /\ i < j => c[i] = c0[y - x + 1 + i]
                              /\ i > j => c[i] = c0[y - x + i]
    BY <1>2 DEF MoreLetter
  <2>2. x - 1 <= y /\ (x - 1) - 1 <= y - 1
    BY <1>2 DEF MoreLetter
  <2>3. CASE j = x
    <3>1. y - (x - 1) = y - x + 1
      OBVIOUS
    <3> QED
      BY <2>1, <2>2, <2>3, <3>1 DEF Ends
  <2>4. CASE j # x
    <3>1. /\ j \in 1 .. x - 1 /\ x \in 1 .. x /\ x > j /\ y - x + x = y
          /\ (y - 1) - (x - 1) = y - x
      BY <2>4
    <3>2. c[x] = c0[y]
      BY <2>1, <3>1
    <3>3. \A i \in 1 .. x - 1 :
             /\ i < j => c[i] = c0[(y - 1) - (x - 1) + 1 + i]
             /\ i > j => c[i] = c0[(y - 1) - (x - 1) + i]
      BY <2>1, <3>1
    <3>4. MoreLetter(c, c0, x - 1, y - 1)
      BY <2>2, <3>1, <3>3 DEF MoreLetter
    <3> QED
      BY <3>2, <3>4
  <2> QED
    BY <2>3, <2>4
<1>3. ASSUME LessLetter(c, c0, x, y)
      PROVE  \/ Ends(c, c0, x, y - 1)
             \/ LessLetter(c, c0, x - 1, y - 1) /\ c[x] = c0[y]
  <2>1. PICK j \in 0 .. x : \A i \in 1 .. x :
                              /\ i <= j => c[i] = c0[y - x - 1 + i]
                              /\ i > j  => c[i] = c0[y - x + i]
    BY <1>3 DEF LessLetter
  <2>2. x + 1 <= y /\ (x - 1) + 1 <= y - 1 /\ x <= y - 1
    BY <1>3 DEF LessLetter
  <2>3. CASE j = x
    <3>1. (y - 1) - x = y - x - 1
      OBVIOUS
    <3> QED
      BY <2>1, <2>2, <2>3, <3>1 DEF Ends
  <2>4. CASE j # x
    <3>1. /\ j \in 0 .. x - 1 /\ x \in 1 .. x /\ x > j /\ y - x + x = y
          /\ (y - 1) - (x - 1) = y - x
      BY <2>4
    <3>2. c[x] = c0[y]
      BY <2>1, <3>1
    <3>3. \A i \in 1 .. x - 1 :
             /\ i <= j => c[i] = c0[(y - 1) - (x - 1) - 1 + i]
             /\ i > j  => c[i] = c0[(y - 1) - (x - 1) + i]
      BY <2>1, <3>1
    <3>4. LessLetter(c, c0, x - 1, y - 1)
      BY <2>2, <3>1, <3>3 DEF LessLetter
    <3> QED
      BY <3>2, <3>4
  <2> QED
    BY <2>3, <2>4
<1>4. ASSUME Ends(c, c0, x, y - 1)
      PROVE  LessLetter(c, c0, x, y)
  <2>1. /\ x + 1 <= y /\ x \in 0 .. x /\ (y - 1) - x = y - x - 1
        /\ \A i \in 1 .. x : c[i] = c0[(y - 1) - x + i]
    BY <1>4 DEF Ends
  <2>2. \A i \in 1 .. x : /\ i <= x => c[i] = c0[y - x - 1 + i]
                          /\ i > x  => c[i] = c0[y - x + i]
    BY <2>1
  <2> QED
    BY <2>1, <2>2 DEF LessLetter
<1>5. ASSUME Ends(c, c0, x - 1, y)
      PROVE  MoreLetter(c, c0, x, y)
  <2>1. /\ x - 1 <= y /\ x \in 1 .. x /\ y - (x - 1) = y - x + 1
        /\ \A i \in 1 .. x - 1 : c[i] = c0[y - (x - 1) + i]
    BY <1>5 DEF Ends
  <2>2. \A i \in 1 .. x : /\ i < x => c[i] = c0[y - x + 1 + i]
                          /\ i > x => c[i] = c0[y - x + i]
    BY <2>1
  <2> QED
    BY <2>1, <2>2 DEF MoreLetter
<1>6. ASSUME Ends(c, c0, x - 1, y - 1)
      PROVE  WrongLetter(c, c0, x, y)
  <2>1. /\ x <= y /\ x \in 1 .. x /\ (y - 1) - (x - 1) = y - x
        /\ \A i \in 1 .. x - 1 : c[i] = c0[(y - 1) - (x - 1) + i]
    BY <1>6 DEF Ends
  <2>2. \A i \in 1 .. x : i # x => c[i] = c0[y - x + i]
    BY <2>1
  <2> QED
    BY <2>1, <2>2 DEF WrongLetter
<1>7. ASSUME WrongLetter(c, c0, x - 1, y - 1), c[x] = c0[y]
      PROVE  WrongLetter(c, c0, x, y)
  <2>1. PICK j \in 1 .. x - 1 : \A i \in 1 .. x - 1 :
                                  i # j => c[i] = c0[(y - 1) - (x - 1) + i]
    BY <1>7 DEF WrongLetter
  <2>2. /\ x <= y /\ j \in 1 .. x /\ (y - 1) - (x - 1) = y - x /\ y - x + x = y
        /\ 1 .. x = (1 .. x - 1) \cup {x}
    BY <1>7 DEF WrongLetter
  <2>3. \A i \in 1 .. x : i # j => c[i] = c0[y - x + i]
    BY <1>7, <2>1, <2>2
  <2> QED
    BY <2>2, <2>3 DEF WrongLetter
<1>8. ASSUME MoreLetter(c, c0, x - 1, y - 1), c[x] = c0[y]
      PROVE  MoreLetter(c, c0, x, y)
  <2>1. PICK j \in 1 .. x - 1 : \A i \in 1 .. x - 1 :
                                  /\ i < j => c[i] = c0[(y - 1) - (x - 1) + 1 + i]
                                  /\ i > j => c[i] = c0[(y - 1) - (x - 1) + i]
    BY <1>8 DEF MoreLetter
  <2>2. /\ x - 1 <= y /\ j \in 1 .. x /\ (y - 1) - (x - 1) = y - x
        /\ y - x + x = y /\ ~(x < j) /\ 1 .. x = (1 .. x - 1) \cup {x}
    BY <1>8 DEF MoreLetter
  <2>3. \A i \in 1 .. x : /\ i < j => c[i] = c0[y - x + 1 + i]
                          /\ i > j => c[i] = c0[y - x + i]
    BY <1>8, <2>1, <2>2
  <2> QED
    BY <2>2, <2>3 DEF MoreLetter
<1>9. ASSUME LessLetter(c, c0, x - 1, y - 1), c[x] = c0[y]
      PROVE  LessLetter(c, c0, x, y)
  <2>1. PICK j \in 0 .. x - 1 : \A i \in 1 .. x - 1 :
                                  /\ i <= j => c[i] = c0[(y - 1) - (x - 1) - 1 + i]
                                  /\ i > j  => c[i] = c0[(y - 1) - (x - 1) + i]
    BY <1>9 DEF LessLetter
  <2>2. /\ x + 1 <= y /\ j \in 0 .. x /\ (y - 1) - (x - 1) = y - x
        /\ y - x + x = y /\ ~(x <= j) /\ 1 .. x = (1 .. x - 1) \cup {x}
    BY <1>9 DEF LessLetter
  <2>3. \A i \in 1 .. x : /\ i <= j => c[i] = c0[y - x - 1 + i]
                          /\ i > j  => c[i] = c0[y - x + i]
    BY <1>9, <2>1, <2>2
  <2> QED
    BY <2>2, <2>3 DEF LessLetter
<1> QED
  BY <1>1, <1>2, <1>3, <1>4, <1>5, <1>6, <1>7, <1>8, <1>9, EndsStep DEF Near

LEMMA AtMostOneMeans ==
  ASSUME NEW c, NEW c0, Len(c) \in Nat, Len(c0) \in Nat,
         \A i \in 1 .. Len(c) : c[i] # Wildcard
  PROVE  \A x \in 0 .. Len(c), y \in 0 .. Len(c0) :
           Matrix(c, c0)[<<x, y>>] <= 1 <=> Near(c, c0, x, y)
<1> DEFINE D == Matrix(c, c0)
           S == {x \in 0 .. Len(c) : \A y \in 0 .. Len(c0) :
                   D[<<x, y>>] <= 1 <=> Near(c, c0, x, y)}
<1>1. 0 \in S
  <2>1. ASSUME NEW y \in 0 .. Len(c0)
        PROVE  D[<<0, y>>] <= 1 /\ Near(c, c0, 0, y)
    <3>1. 0 \in 0 .. Len(c)
      OBVIOUS
    <3>2. D[<<0, y>>] = 0
      BY <3>1, EntryOnEdge
    <3>3. Ends(c, c0, 0, y)
      BY DEF Ends
    <3> HIDE DEF D
    <3> QED
      BY <3>2, <3>3 DEF Near
  <2> QED
    BY <2>1
<1>2. ASSUME NEW x \in 1 .. Len(c), x - 1 \in S
      PROVE  x \in S
  <2>1. ASSUME NEW y \in 0 .. Len(c0)
        PROVE  D[<<x, y>>] <= 1 <=> Near(c, c0, x, y)
    <3>1. CASE y = 0
      <4>1. x \in 0 .. Len(c)
        OBVIOUS
      <4>2. D[<<x, y>>] = x
        BY <3>1, <4>1, EntryOnEdge
      <4>3. Near(c, c0, x, y) <=> x = 1
        <5>1. ~Ends(c, c0, x, y) /\ ~WrongLetter(c, c0, x, y)
          BY <3>1 DEF Ends, WrongLetter
        <5>2. ~LessLetter(c, c0, x, y)
          BY <3>1 DEF LessLetter
        <5>3. ASSUME x = 1
              PROVE  MoreLetter(c, c0, x, y)
          <6>1. /\ x - 1 <= y /\ 1 \in 1 .. x
                /\ \A i \in 1 .. x : ~(i < 1) /\ ~(i > 1)
            BY <3>1, <5>3
          <6> QED
            BY <6>1 DEF MoreLetter
        <5>4. x # 1 => ~MoreLetter(c, c0, x, y)
          BY <3>1 DEF MoreLetter
        <5> QED
          BY <5>1, <5>2, <5>3, <5>4 DEF Near
      <4> HIDE DEF D
      <4> QED
        BY <4>1, <4>2, <4>3
    <3>2. CASE y # 0
      <4>1. /\ y \in 1 .. Len(c0) /\ y - 1 \in 0 .. Len(c0)
            /\ x \in 0 .. Len(c) /\ x - 1 \in 0 .. Len(c)
            /\ x \in Nat \ {0} /\ y \in Nat \ {0} /\ c[x] # Wildcard
        BY <3>2
      <4>2. D[<<x, y>>] <= 1 <=>
              \/ D[<<x, y - 1>>] = 0
              \/ D[<<x - 1, y>>] = 0
              \/ D[<<x - 1, y - 1>>] = 0
              \/ D[<<x - 1, y - 1>>] <= 1 /\ c[x] = c0[y]
        BY <4>1, EntryAtMostOne
      <4>3. /\ D[<<x, y - 1>>] = 0 <=> Ends(c, c0, x, y - 1)
            /\ D[<<x - 1, y>>] = 0 <=> Ends(c, c0, x - 1, y)
            /\ D[<<x - 1, y - 1>>] = 0 <=> Ends(c, c0, x - 1, y - 1)
        BY <4>1, ZeroMeans
      <4>4. D[<<x - 1, y - 1>>] <= 1 <=> Near(c, c0, x - 1, y - 1)
        BY <1>2, <4>1
      <4>5. Near(c, c0, x, y) <=>
              \/ Ends(c, c0, x, y - 1)
              \/ Ends(c, c0, x - 1, y)
              \/ Ends(c, c0, x - 1, y - 1)
              \/ Near(c, c0, x - 1, y - 1) /\ c[x] = c0[y]
        BY <4>1, NearStep
      <4> HIDE DEF D
      <4> QED
        BY <4>2, <4>3, <4>4, <4>5
    <3> QED
      BY <3>1, <3>2
  <2> QED
    BY <2>1
<1>3. 0 .. Len(c) \subseteq S
  <2> HIDE DEF S
  <2> QED
    BY <1>1, <1>2, UpTo
<1> QED
  BY <1>3

\* Letters that were not copied do not make a call another one.
LEMMA BlanksCostNothing ==
  ASSUME NEW c, NEW c0, Len(c) \in Nat, Len(c0) = Len(c),
         \A i \in 1 .. Len(c) : c[i] \in {Wildcard, c0[i]}
  PROVE  Distance(c, c0) = 0
<1> DEFINE D == Matrix(c, c0)
           S == {x \in 0 .. Len(c) : D[<<x, x>>] = 0}
<1>1. 0 \in S
  <2>1. 0 \in 0 .. Len(c)
    OBVIOUS
  <2> QED
    BY <2>1, EntryOnEdge
<1>2. ASSUME NEW x \in 1 .. Len(c), x - 1 \in S
      PROVE  x \in S
  <2>1. x \in 1 .. Len(c0) /\ x \in 0 .. Len(c)
    OBVIOUS
  <2>2. D[<<x - 1, x - 1>>] = 0 /\ D[<<x, x>>] \in Nat
    BY <1>2, <2>1, EntryAt
  <2>3. CASE c[x] = Wildcard
    <3>1. D[<<x, x>>] <= D[<<x - 1, x - 1>>]
      BY <2>1, <2>3, EntryOfWildcard
    <3>2. D[<<x, x>>] = 0
      <4> HIDE DEF D
      <4> QED
        BY <2>2, <3>1
    <3> QED
      BY <2>1, <3>2
  <2>4. CASE c[x] # Wildcard
    <3>1. c[x] = c0[x]
      BY <2>4
    <3>2. D[<<x, x>>] = 0 <=> D[<<x - 1, x - 1>>] = 0 /\ c[x] = c0[x]
      BY <2>1, <2>4, ZeroEntry
    <3> QED
      BY <2>1, <2>2, <3>1, <3>2
  <2> QED
    BY <2>3, <2>4
<1>3. 0 .. Len(c) \subseteq S
  <2> HIDE DEF S
  <2> QED
    BY <1>1, <1>2, UpTo
<1>4. Len(c) \in 0 .. Len(c)
  OBVIOUS
<1> QED
  BY <1>3, <1>4 DEF Distance

-----------------------------------------------------------------------------
(***************************************************************************)
(* From places to sequences: an end of a call, and one with an error.      *)
(***************************************************************************)
EndOf(s, n) == SubSeq(s, Len(s) - n + 1, Len(s))

LEMMA EndOfIs ==
  ASSUME NEW L, NEW s \in Seq(L), NEW n \in 0 .. Len(s)
  PROVE  /\ EndOf(s, n) \in Seq(L)
         /\ Len(EndOf(s, n)) = n
         /\ \A i \in 1 .. n : EndOf(s, n)[i] = s[Len(s) - n + i]
         /\ EndOf(s, n) \in Suffixes(s)
<1>1. Len(s) \in Nat /\ Len(s) - n + 1 \in Int /\ Len(s) \in Int
  BY LenProperties
<1>2. \A i \in Len(s) - n + 1 .. Len(s) : s[i] \in L
  BY <1>1, ElementOfSeq
<1>3. /\ EndOf(s, n) \in Seq(L)
      /\ Len(EndOf(s, n)) =
           IF Len(s) - n + 1 <= Len(s) THEN Len(s) - (Len(s) - n + 1) + 1 ELSE 0
      /\ \A i \in 1 .. Len(s) - (Len(s) - n + 1) + 1 :
           EndOf(s, n)[i] = s[(Len(s) - n + 1) + i - 1]
  BY <1>1, <1>2, SubSeqProperties DEF EndOf
<1>4. /\ Len(s) - (Len(s) - n + 1) + 1 = n
      /\ \A i \in 1 .. n : (Len(s) - n + 1) + i - 1 = Len(s) - n + i
      /\ Len(s) - n + 1 <= Len(s) <=> n # 0
  BY <1>1
<1>5. EndOf(s, n) \in Suffixes(s)
  <2>1. CASE n = 0
    <3>1. EndOf(s, n) = <<>>
      BY <1>1, <2>1, SubSeqEmpty DEF EndOf
    <3> QED
      BY <3>1 DEF Suffixes
  <2>2. CASE n # 0
    <3>1. Len(s) - n + 1 \in 1 .. Len(s)
      BY <1>1, <2>2
    <3> QED
      BY <3>1 DEF Suffixes, EndOf
  <2> QED
    BY <2>1, <2>2
<1> QED
  BY <1>3, <1>4, <1>5

LEMMA SuffixIsEnd ==
  ASSUME NEW L, NEW s \in Seq(L), NEW e \in Suffixes(s)
  PROVE  \E n \in 0 .. Len(s) : e = EndOf(s, n)
<1>1. Len(s) \in Nat
  BY LenProperties
<1>2. CASE e = <<>>
  <2>1. EndOf(s, 0) = <<>>
    BY <1>1, SubSeqEmpty DEF EndOf
  <2> QED
    BY <1>1, <1>2, <2>1
<1>3. CASE e # <<>>
  <2>1. PICK l \in 1 .. Len(s) : e = SubSeq(s, l, Len(s))
    BY <1>3 DEF Suffixes
  <2>2. Len(s) - l + 1 \in 0 .. Len(s) /\ Len(s) - (Len(s) - l + 1) + 1 = l
    BY <1>1
  <2> QED
    BY <2>1, <2>2 DEF EndOf
<1> QED
  BY <1>2, <1>3

\* The library's facts on parts, for one of n letters.
LEMMA PartIs ==
  ASSUME NEW L, NEW s \in Seq(L), NEW a \in Nat \ {0}, NEW n \in Nat,
         NEW b \in Int, b = a + n - 1, b <= Len(s)
  PROVE  /\ SubSeq(s, a, b) \in Seq(L)
         /\ Len(SubSeq(s, a, b)) = n
         /\ \A t \in 1 .. n : SubSeq(s, a, b)[t] = s[a + t - 1]
<1>1. Len(s) \in Nat /\ \A t \in 1 .. Len(s) : s[t] \in L
  BY LenProperties, ElementOfSeq
<1>2. a \in Int /\ \A t \in a .. b : s[t] \in L
  BY <1>1
<1>3. /\ SubSeq(s, a, b) \in Seq(L)
      /\ Len(SubSeq(s, a, b)) = IF a <= b THEN b - a + 1 ELSE 0
      /\ \A t \in 1 .. b - a + 1 : SubSeq(s, a, b)[t] = s[a + t - 1]
  BY <1>2, SubSeqProperties
<1>4. b - a + 1 = n /\ (a <= b <=> n # 0)
  OBVIOUS
<1> QED
  BY <1>3, <1>4

LEMMA RemoveAtIs ==
  ASSUME NEW L, NEW s \in Seq(L), NEW i \in 1 .. Len(s)
  PROVE  /\ RemoveAt(s, i) \in Seq(L)
         /\ Len(RemoveAt(s, i)) = Len(s) - 1
         /\ \A t \in 1 .. Len(s) - 1 :
              RemoveAt(s, i)[t] = IF t < i THEN s[t] ELSE s[t + 1]
<1> DEFINE u == SubSeq(s, 1, i - 1)
           v == SubSeq(s, i + 1, Len(s))
           k == Len(s) - i
<1>1. Len(s) \in Nat
  BY LenProperties
<1>2. /\ u \in Seq(L) /\ Len(u) = i - 1
      /\ \A t \in 1 .. i - 1 : u[t] = s[t]
  <2>1. /\ 1 \in Nat \ {0} /\ i - 1 \in Nat /\ i - 1 \in Int
        /\ i - 1 = 1 + (i - 1) - 1 /\ i - 1 <= Len(s)
        /\ \A t \in 1 .. i - 1 : 1 + t - 1 = t
    BY <1>1
  <2> QED
    BY <2>1, PartIs
<1>3. /\ v \in Seq(L) /\ Len(v) = k
      /\ \A t \in 1 .. k : v[t] = s[(i + 1) + t - 1]
  <2>1. /\ i + 1 \in Nat \ {0} /\ k \in Nat /\ Len(s) \in Int
        /\ Len(s) = (i + 1) + k - 1 /\ Len(s) <= Len(s)
    BY <1>1
  <2> HIDE DEF k
  <2> QED
    BY <2>1, PartIs
<1>4. RemoveAt(s, i) = u \o v
  BY DEF RemoveAt
<1> HIDE DEF u, v
<1>5. /\ u \o v \in Seq(L) /\ Len(u \o v) = (i - 1) + k
      /\ \A t \in 1 .. (i - 1) + k :
           (u \o v)[t] = IF t <= i - 1 THEN u[t] ELSE v[t - (i - 1)]
  <2> DEFINE n == i - 1
  <2> HIDE DEF n, k
  <2>1. n = Len(u) /\ k = Len(v)
    BY <1>2, <1>3 DEF n
  <2>2. /\ u \o v \in Seq(L) /\ Len(u \o v) = n + k
        /\ \A t \in 1 .. n + k : (u \o v)[t] = IF t <= n THEN u[t] ELSE v[t - n]
    <3>1. /\ u \o v \in Seq(L) /\ Len(u \o v) = Len(u) + Len(v)
          /\ \A t \in 1 .. Len(u) + Len(v) :
               (u \o v)[t] = IF t <= Len(u) THEN u[t] ELSE v[t - Len(u)]
      BY <1>2, <1>3, ConcatProperties
    <3> QED
      BY <2>1, <3>1
  <2> QED
    BY <2>2 DEF n
<1>6. (i - 1) + k = Len(s) - 1
  BY <1>1
<1>7. ASSUME NEW t \in 1 .. Len(s) - 1
      PROVE  (u \o v)[t] = IF t < i THEN s[t] ELSE s[t + 1]
  <2>1. CASE t < i
    <3>1. t <= i - 1 /\ t \in 1 .. i - 1
      BY <2>1
    <3> QED
      BY <1>2, <1>5, <1>6, <2>1, <3>1
  <2>2. CASE ~(t < i)
    <3>1. /\ ~(t <= i - 1) /\ t - (i - 1) \in 1 .. k
          /\ (i + 1) + (t - (i - 1)) - 1 = t + 1
      BY <1>1, <2>2
    <3> HIDE DEF k
    <3>2. (u \o v)[t] = v[t - (i - 1)]
      BY <1>5, <1>6, <3>1
    <3>3. v[t - (i - 1)] = s[(i + 1) + (t - (i - 1)) - 1]
      BY <1>3, <3>1
    <3> QED
      BY <2>2, <3>1, <3>2, <3>3
  <2> QED
    BY <2>1, <2>2
<1> HIDE DEF k
<1> QED
  BY <1>4, <1>5, <1>6, <1>7

Inserted(r, s, i, e) ==
  /\ Len(r) = Len(s) + 1
  /\ \A t \in 1 .. Len(s) + 1 : /\ t < i => r[t] = s[t]
                                /\ t = i => r[t] = e
                                /\ t > i => r[t] = s[t - 1]

LEMMA InsertAtIs ==
  ASSUME NEW L, NEW s \in Seq(L), NEW i \in 1 .. Len(s) + 1, NEW e \in L
  PROVE  /\ InsertAt(s, i, e) \in Seq(L)
         /\ Inserted(InsertAt(s, i, e), s, i, e)
<1> DEFINE u == SubSeq(s, 1, i - 1)
           v == SubSeq(s, i, Len(s))
           w == u \o <<e>>
           k == Len(s) - i + 1
<1>1. Len(s) \in Nat
  BY LenProperties
<1>2. /\ u \in Seq(L) /\ Len(u) = i - 1
      /\ \A t \in 1 .. i - 1 : u[t] = s[t]
  <2>1. /\ 1 \in Nat \ {0} /\ i - 1 \in Nat /\ i - 1 \in Int
        /\ i - 1 = 1 + (i - 1) - 1 /\ i - 1 <= Len(s)
        /\ \A t \in 1 .. i - 1 : 1 + t - 1 = t
    BY <1>1
  <2> QED
    BY <2>1, PartIs
<1>3. /\ v \in Seq(L) /\ Len(v) = k
      /\ \A t \in 1 .. k : v[t] = s[i + t - 1]
  <2>1. /\ i \in Nat \ {0} /\ k \in Nat /\ Len(s) \in Int
        /\ Len(s) = i + k - 1 /\ Len(s) <= Len(s)
    BY <1>1
  <2> HIDE DEF k
  <2> QED
    BY <2>1, PartIs
<1>4. InsertAt(s, i, e) = w \o v
  BY DEF InsertAt
<1>5. <<e>> \in Seq(L) /\ Len(<<e>>) = 1 /\ <<e>>[1] = e
  OBVIOUS
<1> HIDE DEF u, v
<1>6. /\ w \in Seq(L) /\ Len(w) = i
      /\ \A t \in 1 .. i - 1 : w[t] = s[t]
      /\ w[i] = e
  <2> DEFINE n == i - 1
  <2>1. n + 1 = i /\ i - n = 1 /\ ~(i <= n) /\ i \in 1 .. n + 1
        /\ \A t \in 1 .. n : t \in 1 .. n + 1 /\ t <= n
    OBVIOUS
  <2>2. n = Len(u) /\ 1 = Len(<<e>>)
    BY <1>2, <1>5
  <2> HIDE DEF n
  <2>3. /\ w \in Seq(L) /\ Len(w) = n + 1
        /\ \A t \in 1 .. n + 1 : w[t] = IF t <= n THEN u[t] ELSE <<e>>[t - n]
    <3>1. /\ w \in Seq(L) /\ Len(w) = Len(u) + Len(<<e>>)
          /\ \A t \in 1 .. Len(u) + Len(<<e>>) :
               w[t] = IF t <= Len(u) THEN u[t] ELSE <<e>>[t - Len(u)]
      BY <1>2, <1>5, ConcatProperties
    <3> HIDE DEF w
    <3> QED
      BY <2>2, <3>1
  <2> HIDE DEF w
  <2>4. w[i] = <<e>>[i - n]
    BY <2>1, <2>3
  <2>5. \A t \in 1 .. n : w[t] = s[t]
    BY <1>2, <2>1, <2>3 DEF n
  <2> QED
    BY <1>5, <2>1, <2>3, <2>4, <2>5 DEF n
<1> HIDE DEF w
<1>7. /\ w \o v \in Seq(L) /\ Len(w \o v) = i + k
      /\ \A t \in 1 .. i + k : (w \o v)[t] = IF t <= i THEN w[t] ELSE v[t - i]
  <2> HIDE DEF k
  <2>1. i = Len(w) /\ k = Len(v)
    BY <1>3, <1>6
  <2>2. /\ w \o v \in Seq(L) /\ Len(w \o v) = Len(w) + Len(v)
        /\ \A t \in 1 .. Len(w) + Len(v) :
             (w \o v)[t] = IF t <= Len(w) THEN w[t] ELSE v[t - Len(w)]
    BY <1>3, <1>6, ConcatProperties
  <2> QED
    BY <2>1, <2>2
<1>8. i + k = Len(s) + 1
  BY <1>1
<1>9. ASSUME NEW t \in 1 .. Len(s) + 1
      PROVE  /\ t < i => (w \o v)[t] = s[t]
             /\ t = i => (w \o v)[t] = e
             /\ t > i => (w \o v)[t] = s[t - 1]
  <2>1. CASE t < i
    <3>1. t <= i /\ t \in 1 .. i - 1 /\ ~(t = i) /\ ~(t > i)
      BY <2>1
    <3> QED
      BY <1>6, <1>7, <1>8, <3>1
  <2>2. CASE t = i
    <3>1. t <= i /\ ~(t < i) /\ ~(t > i)
      BY <2>2
    <3> HIDE DEF k
    <3> QED
      BY <1>6, <1>7, <1>8, <2>2, <3>1
  <2>3. CASE t > i
    <3>1. /\ ~(t <= i) /\ t - i \in 1 .. k
          /\ i + (t - i) - 1 = t - 1 /\ ~(t < i) /\ ~(t = i)
      BY <1>1, <2>3
    <3> HIDE DEF k
    <3>2. (w \o v)[t] = v[t - i]
      BY <1>7, <1>8, <3>1
    <3>3. v[t - i] = s[i + (t - i) - 1]
      BY <1>3, <3>1
    <3> QED
      BY <3>1, <3>2, <3>3
  <2> QED
    BY <2>1, <2>2, <2>3
<1> HIDE DEF k
<1>10. Inserted(w \o v, s, i, e)
  BY <1>7, <1>8, <1>9 DEF Inserted
<1> QED
  BY <1>4, <1>7, <1>10

-----------------------------------------------------------------------------
\* A letter wrong, one too many or one missing at the places is one made by
\* Misspelt in an end of the call.
LEMMA WrongIsReplaced ==
  ASSUME NEW L, NEW c \in Seq(L), NEW c0 \in Seq(L)
  PROVE  WrongLetter(c, c0, Len(c), Len(c0)) <=>
           \E end \in Suffixes(c0) : \E i \in DOMAIN end : \E x \in L :
             c = ReplaceAt(end, i, x)
<1> DEFINE n == Len(c)
           k == Len(c0)
<1>1. n \in Nat /\ k \in Nat /\ \A i \in 1 .. n : c[i] \in L
  BY LenProperties, ElementOfSeq
<1>2. ASSUME WrongLetter(c, c0, n, k)
      PROVE  \E end \in Suffixes(c0) : \E i \in DOMAIN end : \E x \in L :
               c = ReplaceAt(end, i, x)
  <2>1. PICK j \in 1 .. n : \A i \in 1 .. n : i # j => c[i] = c0[k - n + i]
    BY <1>2 DEF WrongLetter
  <2>2. n \in 0 .. k
    BY <1>1, <1>2 DEF WrongLetter
  <2> DEFINE end == EndOf(c0, n)
  <2>3. /\ end \in Seq(L) /\ Len(end) = n /\ end \in Suffixes(c0)
        /\ \A i \in 1 .. n : end[i] = c0[k - n + i]
    BY <2>2, EndOfIs
  <2>4. DOMAIN end = 1 .. n
    BY <2>3, LenProperties
  <2> HIDE DEF end
  <2>5. /\ ReplaceAt(end, j, c[j]) \in Seq(L)
        /\ Len(ReplaceAt(end, j, c[j])) = n
        /\ \A t \in 1 .. n :
             ReplaceAt(end, j, c[j])[t] = IF t = j THEN c[j] ELSE end[t]
    BY <1>1, <2>3, ExceptSeq DEF ReplaceAt
  <2>6. \A t \in 1 .. n : c[t] = ReplaceAt(end, j, c[j])[t]
    BY <2>1, <2>3, <2>5
  <2>7. c = ReplaceAt(end, j, c[j])
    BY <2>5, <2>6, SeqEqual
  <2> QED
    BY <1>1, <2>3, <2>4, <2>7
<1>3. ASSUME NEW end \in Suffixes(c0), NEW i \in DOMAIN end, NEW x \in L,
             c = ReplaceAt(end, i, x)
      PROVE  WrongLetter(c, c0, n, k)
  <2>1. PICK m \in 0 .. k : end = EndOf(c0, m)
    BY SuffixIsEnd
  <2>2. /\ end \in Seq(L) /\ Len(end) = m
        /\ \A t \in 1 .. m : end[t] = c0[k - m + t]
    BY <2>1, EndOfIs
  <2>3. i \in 1 .. Len(end)
    BY <2>2, LenProperties
  <2>4. n = m /\ \A t \in 1 .. m : c[t] = IF t = i THEN x ELSE end[t]
    <3>1. /\ Len(ReplaceAt(end, i, x)) = Len(end)
          /\ \A t \in 1 .. Len(end) :
               ReplaceAt(end, i, x)[t] = IF t = i THEN x ELSE end[t]
      BY <2>2, <2>3, ExceptSeq DEF ReplaceAt
    <3>2. /\ Len(c) = Len(end)
          /\ \A t \in 1 .. Len(end) : c[t] = IF t = i THEN x ELSE end[t]
      BY <1>3, <3>1
    <3> QED
      BY <2>2, <3>2
  <2>5. m <= k /\ m \in Nat /\ k \in Nat /\ i \in 1 .. m
    BY <1>1, <2>2, <2>3
  <2>6. WrongLetter(c, c0, m, k)
    <3>1. \A t \in 1 .. m : t # i => c[t] = c0[k - m + t]
      BY <2>2, <2>4
    <3> QED
      BY <2>5, <3>1 DEF WrongLetter
  <2> QED
    BY <2>4, <2>6
<1> QED
  BY <1>2, <1>3

LEMMA MoreIsInserted ==
  ASSUME NEW L, NEW c \in Seq(L), NEW c0 \in Seq(L)
  PROVE  MoreLetter(c, c0, Len(c), Len(c0)) <=>
           \E end \in Suffixes(c0) : \E i \in 1 .. Len(end) + 1 : \E x \in L :
             c = InsertAt(end, i, x)
<1> DEFINE n == Len(c)
           k == Len(c0)
<1>1. n \in Nat /\ k \in Nat /\ \A i \in 1 .. n : c[i] \in L
  BY LenProperties, ElementOfSeq
<1>2. ASSUME MoreLetter(c, c0, n, k)
      PROVE  \E end \in Suffixes(c0) : \E i \in 1 .. Len(end) + 1 : \E x \in L :
               c = InsertAt(end, i, x)
  <2>1. PICK j \in 1 .. n : \A i \in 1 .. n :
                              /\ i < j => c[i] = c0[k - n + 1 + i]
                              /\ i > j => c[i] = c0[k - n + i]
    BY <1>2 DEF MoreLetter
  <2>2. n - 1 \in 0 .. k /\ (n - 1) + 1 = n
    BY <1>1, <1>2 DEF MoreLetter
  <2> DEFINE end == EndOf(c0, n - 1)
  <2>3. /\ end \in Seq(L) /\ Len(end) = n - 1 /\ end \in Suffixes(c0)
        /\ \A i \in 1 .. n - 1 : end[i] = c0[k - (n - 1) + i]
    BY <2>2, EndOfIs
  <2> HIDE DEF end
  <2>4. j \in 1 .. Len(end) + 1 /\ Len(end) + 1 = n
    BY <2>2, <2>3
  <2>5. /\ InsertAt(end, j, c[j]) \in Seq(L)
        /\ Inserted(InsertAt(end, j, c[j]), end, j, c[j])
    BY <1>1, <2>3, <2>4, InsertAtIs
  <2>6. ASSUME NEW t \in 1 .. n
        PROVE  c[t] = InsertAt(end, j, c[j])[t]
    <3>1. CASE t < j
      <4>1. t \in 1 .. n - 1 /\ k - (n - 1) + t = k - n + 1 + t
        BY <1>1, <3>1
      <4> QED
        BY <2>1, <2>3, <2>4, <2>5, <3>1, <4>1 DEF Inserted
    <3>2. CASE t = j
      BY <2>4, <2>5, <3>2 DEF Inserted
    <3>3. CASE t > j
      <4>1. t - 1 \in 1 .. n - 1 /\ k - (n - 1) + (t - 1) = k - n + t
        BY <1>1, <3>3
      <4> QED
        BY <2>1, <2>3, <2>4, <2>5, <3>3, <4>1 DEF Inserted
    <3> QED
      BY <3>1, <3>2, <3>3
  <2>7. c = InsertAt(end, j, c[j])
    BY <2>4, <2>5, <2>6, SeqEqual DEF Inserted
  <2> QED
    BY <1>1, <2>3, <2>4, <2>7
<1>3. ASSUME NEW end \in Suffixes(c0), NEW i \in 1 .. Len(end) + 1, NEW x \in L,
             c = InsertAt(end, i, x)
      PROVE  MoreLetter(c, c0, n, k)
  <2>1. PICK m \in 0 .. k : end = EndOf(c0, m)
    BY SuffixIsEnd
  <2>2. /\ end \in Seq(L) /\ Len(end) = m
        /\ \A t \in 1 .. m : end[t] = c0[k - m + t]
    BY <2>1, EndOfIs
  <2>3. /\ n = m + 1
        /\ \A t \in 1 .. m + 1 : /\ t < i => c[t] = end[t]
                                 /\ t > i => c[t] = end[t - 1]
    <3>1. Inserted(InsertAt(end, i, x), end, i, x)
      BY <2>2, InsertAtIs
    <3>2. /\ Len(c) = Len(end) + 1
          /\ \A t \in 1 .. Len(end) + 1 : /\ t < i => c[t] = end[t]
                                          /\ t > i => c[t] = end[t - 1]
      BY <1>3, <3>1 DEF Inserted
    <3> QED
      BY <2>2, <3>2
  <2>4. ASSUME NEW t \in 1 .. n
        PROVE  /\ t < i => c[t] = c0[k - n + 1 + t]
               /\ t > i => c[t] = c0[k - n + t]
    <3>1. t \in 1 .. m + 1 /\ i \in 1 .. m + 1
      BY <2>2, <2>3
    <3>2. ASSUME t < i
          PROVE  c[t] = c0[k - n + 1 + t]
      <4>1. t \in 1 .. m /\ k - m + t = k - n + 1 + t
        BY <1>1, <2>3, <3>1, <3>2
      <4> QED
        BY <2>2, <2>3, <3>1, <3>2, <4>1
    <3>3. ASSUME t > i
          PROVE  c[t] = c0[k - n + t]
      <4>1. t - 1 \in 1 .. m /\ k - m + (t - 1) = k - n + t
        BY <1>1, <2>3, <3>1, <3>3
      <4> QED
        BY <2>2, <2>3, <3>1, <3>3, <4>1
    <3> QED
      BY <3>2, <3>3
  <2>5. n - 1 <= k /\ i \in 1 .. n
    BY <1>1, <2>2, <2>3
  <2> QED
    BY <2>4, <2>5 DEF MoreLetter
<1> QED
  BY <1>2, <1>3

LEMMA LessIsRemoved ==
  ASSUME NEW L, NEW c \in Seq(L), NEW c0 \in Seq(L)
  PROVE  LessLetter(c, c0, Len(c), Len(c0)) <=>
           \E end \in Suffixes(c0) : \E i \in DOMAIN end : c = RemoveAt(end, i)
<1> DEFINE n == Len(c)
           k == Len(c0)
<1>1. n \in Nat /\ k \in Nat
  BY LenProperties
<1>2. ASSUME LessLetter(c, c0, n, k)
      PROVE  \E end \in Suffixes(c0) : \E i \in DOMAIN end : c = RemoveAt(end, i)
  <2>1. PICK j \in 0 .. n : \A i \in 1 .. n :
                              /\ i <= j => c[i] = c0[k - n - 1 + i]
                              /\ i > j  => c[i] = c0[k - n + i]
    BY <1>2 DEF LessLetter
  <2>2. n + 1 \in 0 .. k
    BY <1>1, <1>2 DEF LessLetter
  <2> DEFINE end == EndOf(c0, n + 1)
  <2>3. /\ end \in Seq(L) /\ Len(end) = n + 1 /\ end \in Suffixes(c0)
        /\ \A i \in 1 .. n + 1 : end[i] = c0[k - (n + 1) + i]
    BY <2>2, EndOfIs
  <2>4. DOMAIN end = 1 .. n + 1
    BY <2>3, LenProperties
  <2> HIDE DEF end
  <2>5. j + 1 \in 1 .. Len(end) /\ Len(end) - 1 = n
    BY <1>1, <2>3
  <2>6. /\ RemoveAt(end, j + 1) \in Seq(L)
        /\ Len(RemoveAt(end, j + 1)) = Len(end) - 1
        /\ \A t \in 1 .. Len(end) - 1 :
             RemoveAt(end, j + 1)[t] = IF t < j + 1 THEN end[t] ELSE end[t + 1]
    BY <2>3, <2>5, RemoveAtIs
  <2>7. ASSUME NEW t \in 1 .. n
        PROVE  c[t] = RemoveAt(end, j + 1)[t]
    <3>1. CASE t <= j
      <4>1. t < j + 1 /\ t \in 1 .. n + 1 /\ k - (n + 1) + t = k - n - 1 + t
        BY <1>1, <3>1
      <4> QED
        BY <2>1, <2>3, <2>5, <2>6, <3>1, <4>1
    <3>2. CASE ~(t <= j)
      <4>1. /\ t > j /\ ~(t < j + 1) /\ t + 1 \in 1 .. n + 1
            /\ k - (n + 1) + (t + 1) = k - n + t
        BY <1>1, <3>2
      <4> QED
        BY <2>1, <2>3, <2>5, <2>6, <4>1
    <3> QED
      BY <3>1, <3>2
  <2>8. c = RemoveAt(end, j + 1)
    BY <2>5, <2>6, <2>7, SeqEqual
  <2> QED
    BY <2>3, <2>4, <2>5, <2>8
<1>3. ASSUME NEW end \in Suffixes(c0), NEW i \in DOMAIN end, c = RemoveAt(end, i)
      PROVE  LessLetter(c, c0, n, k)
  <2>1. PICK m \in 0 .. k : end = EndOf(c0, m)
    BY SuffixIsEnd
  <2>2. /\ end \in Seq(L) /\ Len(end) = m
        /\ \A t \in 1 .. m : end[t] = c0[k - m + t]
    BY <2>1, EndOfIs
  <2>3. i \in 1 .. Len(end)
    BY <2>2, LenProperties
  <2>4. /\ n = m - 1
        /\ \A t \in 1 .. m - 1 : c[t] = IF t < i THEN end[t] ELSE end[t + 1]
    <3>1. /\ Len(RemoveAt(end, i)) = Len(end) - 1
          /\ \A t \in 1 .. Len(end) - 1 :
               RemoveAt(end, i)[t] = IF t < i THEN end[t] ELSE end[t + 1]
      BY <2>2, <2>3, RemoveAtIs
    <3> QED
      BY <1>3, <2>2, <3>1
  <2>5. ASSUME NEW t \in 1 .. n
        PROVE  /\ t <= i - 1 => c[t] = c0[k - n - 1 + t]
               /\ t > i - 1  => c[t] = c0[k - n + t]
    <3>1. t \in 1 .. m - 1 /\ i \in 1 .. m
      BY <2>2, <2>3, <2>4
    <3>2. ASSUME t <= i - 1
          PROVE  c[t] = c0[k - n - 1 + t]
      <4>1. t \in 1 .. m /\ t < i /\ k - m + t = k - n - 1 + t
        BY <1>1, <2>4, <3>1, <3>2
      <4> QED
        BY <2>2, <2>4, <3>1, <4>1
    <3>3. ASSUME t > i - 1
          PROVE  c[t] = c0[k - n + t]
      <4>1. t + 1 \in 1 .. m /\ ~(t < i) /\ k - m + (t + 1) = k - n + t
        BY <1>1, <2>4, <3>1, <3>3
      <4> QED
        BY <2>2, <2>4, <3>1, <4>1
    <3> QED
      BY <3>2, <3>3
  <2>6. n + 1 <= k /\ i - 1 \in 0 .. n
    BY <1>1, <2>2, <2>3, <2>4
  <2> QED
    BY <2>5, <2>6 DEF LessLetter
<1> QED
  BY <1>2, <1>3

LEMMA NearIsMisspelt ==
  ASSUME NEW L, NEW c \in Seq(L), NEW c0 \in Seq(L), Len(c) >= 1
  PROVE  Near(c, c0, Len(c), Len(c0)) <=>
           \E end \in Suffixes(c0) : c \in Misspelt(end, L)
<1>1. Ends(c, c0, Len(c), Len(c0)) => WrongLetter(c, c0, Len(c), Len(c0))
  <2>1. Len(c) \in Nat /\ 1 \in 1 .. Len(c)
    BY LenProperties
  <2> QED
    BY <2>1 DEF Ends, WrongLetter
<1>2. ASSUME NEW end
      PROVE  c \in Misspelt(end, L) <=>
               \/ \E i \in DOMAIN end : c = RemoveAt(end, i)
               \/ \E i \in DOMAIN end : \E x \in L : c = ReplaceAt(end, i, x)
               \/ \E i \in 1 .. Len(end) + 1 : \E x \in L : c = InsertAt(end, i, x)
  BY DEF Misspelt
<1>3. Near(c, c0, Len(c), Len(c0)) <=>
        \/ WrongLetter(c, c0, Len(c), Len(c0))
        \/ MoreLetter(c, c0, Len(c), Len(c0))
        \/ LessLetter(c, c0, Len(c), Len(c0))
  BY <1>1 DEF Near
<1> QED
  BY <1>2, <1>3, WrongIsReplaced, MoreIsInserted, LessIsRemoved

-----------------------------------------------------------------------------
(***************************************************************************)
(* What isMyCall answers, by what was sent.                                *)
(***************************************************************************)
LEMMA CopiedInFull ==
  ASSUME NEW L, Wildcard \notin L, NEW c \in Seq(L)
  PROVE  /\ Copied(c) = Len(c)
         /\ Wildcard \notin ToSet(c)
         /\ \A i \in 1 .. Len(c) : c[i] # Wildcard
<1>1. Len(c) \in Nat /\ DOMAIN c = 1 .. Len(c) /\ c \in [1 .. Len(c) -> L]
  BY LenProperties
<1>2. \A i \in 1 .. Len(c) : c[i] # Wildcard
  BY <1>1
<1>3. {i \in DOMAIN c : c[i] # Wildcard} = 1 .. Len(c)
  BY <1>1, <1>2
<1>4. 1 \in Int /\ Len(c) \in Int /\ Len(c) = IF 1 > Len(c) THEN 0 ELSE Len(c) - 1 + 1
  BY <1>1
<1>5. Cardinality(1 .. Len(c)) = Len(c)
  BY <1>4, FS_Interval
<1>6. Copied(c) = Len(c)
  BY <1>3, <1>5 DEF Copied, Quantify
<1>7. Wildcard \notin ToSet(c)
  BY <1>1, <1>2 DEF ToSet
<1> QED
  BY <1>2, <1>6, <1>7

LEMMA DistanceIsNat ==
  ASSUME NEW c, NEW c0, Len(c) \in Nat, Len(c0) \in Nat
  PROVE  Distance(c, c0) \in Nat
<1>1. Len(c) \in 0 .. Len(c) /\ Len(c0) \in 0 .. Len(c0)
  OBVIOUS
<1> QED
  BY <1>1, EntryAt DEF Distance

\* Distance 0: the call itself, unless a part of it is sent.
LEMMA ZeroIsHisOwn ==
  ASSUME NEW L, Wildcard \notin L, NEW c \in Seq(L), NEW c0 \in Seq(L),
         Len(c) >= 2, ~IsPart(c, c0)
  PROVE  Distance(c, c0) = 0 <=> c = c0
<1> DEFINE n == Len(c)
           k == Len(c0)
<1>1. n \in Nat /\ k \in Nat /\ n \in 0 .. n /\ k \in 0 .. k
  BY LenProperties
<1>2. Distance(c, c0) = 0 <=> Ends(c, c0, n, k)
  BY <1>1, CopiedInFull, ZeroMeans DEF Distance
<1>3. ASSUME Ends(c, c0, n, k)
      PROVE  c = c0
  <2>1. n <= k /\ \A i \in 1 .. n : c[i] = c0[k - n + i]
    BY <1>3 DEF Ends
  <2>2. CASE n < k
    <3>1. k - n \in 0 .. k - n
      BY <1>1, <2>2
    <3>2. \E start \in 0 .. k - n : \A i \in 1 .. n : c[i] \in {Wildcard, c0[start + i]}
      BY <2>1, <3>1
    <3> QED
      BY <2>2, <3>2 DEF IsPart
  <2>3. CASE n = k
    <3>1. \A i \in 1 .. n : k - n + i = i
      BY <1>1, <2>3
    <3>2. \A i \in 1 .. n : c[i] = c0[i]
      BY <2>1, <3>1
    <3> QED
      BY <2>3, <3>2, SeqEqual
  <2> QED
    BY <1>1, <2>1, <2>2, <2>3
<1>4. ASSUME c = c0
      PROVE  Ends(c, c0, n, k)
  <2>1. n = k /\ n <= k /\ \A i \in 1 .. n : k - n + i = i
    BY <1>1, <1>4
  <2> QED
    BY <1>4, <2>1 DEF Ends
<1> QED
  BY <1>2, <1>3, <1>4

LEMMA AnswerByDistance ==
  ASSUME NEW L, Wildcard \notin L, NEW c \in Seq(L), NEW c0 \in Seq(L),
         Len(c0) >= 2, ~IsPart(c, c0), NEW lids \in BOOLEAN
  PROVE  ByDistance(c, c0, ~lids) = Meant(c, c0, L, lids)
<1> DEFINE d == Distance(c, c0)
           misspelt == \E end \in Suffixes(c0) : c \in Misspelt(end, L)
<1>1. Len(c) \in Nat /\ Len(c0) \in Nat /\ d \in Nat
  BY LenProperties, DistanceIsNat
<1>2. Copied(c) = Len(c) /\ Wildcard \notin ToSet(c)
  BY CopiedInFull
<1>3. CASE Len(c) < 2
  <2>1. ByDistance(c, c0, ~lids) = "No"
    BY <1>1, <1>2, <1>3 DEF ByDistance
  <2>2. c # c0 /\ ~(Len(c) >= (IF lids THEN 2 ELSE 3))
    BY <1>1, <1>3
  <2>3. Meant(c, c0, L, lids) = "No"
    BY <2>2 DEF Meant
  <2> QED
    BY <2>1, <2>3
<1>4. CASE Len(c) >= 2
  <2>1. d = 0 <=> c = c0
    BY <1>4, ZeroIsHisOwn
  <2>2. d <= 1 <=> misspelt
    <3>1. Len(c) \in 0 .. Len(c) /\ Len(c0) \in 0 .. Len(c0)
      BY <1>1
    <3>2. d <= 1 <=> Near(c, c0, Len(c), Len(c0))
      BY <1>1, <3>1, CopiedInFull, AtMostOneMeans DEF Distance
    <3>3. Len(c) >= 1
      BY <1>1, <1>4
    <3> HIDE DEF d, misspelt
    <3>4. Near(c, c0, Len(c), Len(c0)) <=> misspelt
      BY <3>3, NearIsMisspelt DEF misspelt
    <3> QED
      BY <3>2, <3>4
  <2>3. CASE c = c0
    <3>1. ByDistance(c, c0, ~lids) = "Yes"
      BY <1>1, <1>2, <1>4, <2>1, <2>3 DEF ByDistance
    <3>2. Meant(c, c0, L, lids) = "Yes"
      BY <2>3 DEF Meant
    <3> QED
      BY <3>1, <3>2
  <2>4. CASE c # c0
    <3> DEFINE takes == d = 1 /\ ~(~lids /\ Len(c) = 2)
    <3>1. ByDistance(c, c0, ~lids) = IF takes THEN "Almost" ELSE "No"
      BY <1>1, <1>2, <1>4, <2>1, <2>4 DEF ByDistance
    <3>2. Meant(c, c0, L, lids) =
            IF Len(c) >= (IF lids THEN 2 ELSE 3) /\ misspelt THEN "Almost" ELSE "No"
      BY <2>4 DEF Meant
    <3>3. takes <=> Len(c) >= (IF lids THEN 2 ELSE 3) /\ misspelt
      <4> HIDE DEF d, misspelt
      <4>1. d = 1 <=> misspelt
        BY <1>1, <2>1, <2>2, <2>4
      <4>2. ~(~lids /\ Len(c) = 2) <=> Len(c) >= (IF lids THEN 2 ELSE 3)
        <5>1. CASE lids
          BY <1>4, <5>1
        <5>2. CASE ~lids
          <6>1. (IF lids THEN 2 ELSE 3) = 3
            BY <5>2
          <6>2. \A n \in Nat : n >= 2 => (n >= 3 <=> n # 2)
            OBVIOUS
          <6>3. Len(c) >= 3 <=> Len(c) # 2
            BY <1>1, <1>4, <6>2
          <6> QED
            BY <5>2, <6>1, <6>3
        <5> QED
          BY <5>1, <5>2
      <4> QED
        BY <4>1, <4>2
    <3> HIDE DEF takes, misspelt
    <3> QED
      BY <3>1, <3>2, <3>3
  <2> QED
    BY <2>3, <2>4
<1> QED
  BY <1>1, <1>3, <1>4

\* Whatever is sent in full, of whatever letters and however long, isMyCall
\* takes for the operator's own call, for nearly his or for another one just
\* as it is meant, by the ends of his call and the one error in them; the
\* operator may be careful or not.
THEOREM WordsAreTakenAsMeant ==
  ASSUME NEW L, Wildcard \notin L, NEW c \in Seq(L), NEW c0 \in Seq(L),
         Len(c0) >= 2, NEW lids \in BOOLEAN
  PROVE  IsMyCallOf(c, c0, lids) = MayAnswer(c, c0, L, lids)
<1>1. CASE IsPart(c, c0)
  BY <1>1 DEF IsMyCallOf, MayAnswer
<1>2. CASE ~IsPart(c, c0)
  <2>1. ByDistance(c, c0, ~lids) = Meant(c, c0, L, lids)
    BY <1>2, AnswerByDistance
  <2> QED
    BY <1>2, <2>1 DEF IsMyCallOf, MayAnswer
<1> QED
  BY <1>1, <1>2

\* The operator's own call with letters that were not copied, however many so
\* long as two were, is never taken for another call.
THEOREM BlanksAreForgiven ==
  ASSUME NEW c, NEW c0, Len(c) \in Nat, Len(c0) = Len(c),
         \A i \in 1 .. Len(c) : c[i] \in {Wildcard, c0[i]},
         Copied(c) \in Nat, Copied(c) >= 2, NEW lids \in BOOLEAN
  PROVE  "No" \notin IsMyCallOf(c, c0, lids)
<1>1. Distance(c, c0) = 0
  BY BlanksCostNothing
<1>2. ~(Copied(c) < 2)
  OBVIOUS
<1>3. ByDistance(c, c0, ~lids) \in {"Yes", "Almost"}
  BY <1>1, <1>2 DEF ByDistance
<1> QED
  BY <1>3 DEF IsMyCallOf, Blunder

-----------------------------------------------------------------------------
(***************************************************************************)
(* The contest with spelled calls.                                         *)
(***************************************************************************)
LEMMA BlankedType ==
  ASSUME NEW L, NEW c0 \in Seq(L), NEW M, NEW c \in [DOMAIN c0 -> M]
  PROVE  Len(c) = Len(c0) /\ DOMAIN c = 1 .. Len(c) /\ Copied(c) \in Nat
<1>1. Len(c0) \in Nat /\ DOMAIN c0 = 1 .. Len(c0)
  BY LenProperties
<1>2. c \in Seq(M) /\ Len(c) = Len(c0)
  BY <1>1
<1>3. DOMAIN c = 1 .. Len(c)
  BY <1>1, <1>2
<1> DEFINE T == {i \in DOMAIN c : c[i] # Wildcard}
<1>4. T \in SUBSET (1 .. Len(c))
  BY <1>3
<1>5. IsFiniteSet(1 .. Len(c))
  BY <1>1, <1>2, FS_Interval
<1>6. Cardinality(T) \in Nat
  <2> HIDE DEF T
  <2> QED
    BY <1>4, <1>5, FS_Subset, FS_CardinalityType
<1>7. Copied(c) = Cardinality(T)
  BY DEF Copied, Quantify
<1> QED
  BY <1>2, <1>3, <1>6, <1>7

LEMMA WithoutWildcard ==
  ASSUME NEW L, NEW c \in Seq(L), Wildcard \notin ToSet(c)
  PROVE  c \in Seq(L \ {Wildcard})
<1>1. Len(c) \in Nat /\ DOMAIN c = 1 .. Len(c) /\ \A i \in DOMAIN c : c[i] \in L
  BY LenProperties
<1>2. \A i \in DOMAIN c : c[i] # Wildcard
  BY DEF ToSet
<1>3. c \in [1 .. Len(c) -> L \ {Wildcard}]
  BY <1>1, <1>2
<1> QED
  BY <1>1, <1>3

LEMMA SeqOfMore ==
  ASSUME NEW L, NEW M, L \subseteq M, NEW c \in Seq(L)
  PROVE  c \in Seq(M)
<1>1. Len(c) \in Nat /\ DOMAIN c = 1 .. Len(c) /\ \A i \in DOMAIN c : c[i] \in L
  BY LenProperties
<1>2. c \in [1 .. Len(c) -> M]
  BY <1>1
<1> QED
  BY <1>1, <1>2

LEMMA EveryCallTakenAsMeant == Calls \subseteq TakenAsMeant
<1> SUFFICES ASSUME NEW call \in Calls
             PROVE  call \in TakenAsMeant
  OBVIOUS
<1> DEFINE c0 == Spelling[call]
<1>1. /\ c0 \in Seq(Letters) /\ Len(c0) >= 2
      /\ Wildcard \notin Letters
      /\ Lids \in BOOLEAN
  BY CallsAssumption, DxOperAssumption
<1>2. ASSUME NEW lids \in BOOLEAN, NEW c \in SentFor(call)
      PROVE  IsMyCallOf(c, c0, lids) = MayAnswer(c, c0, Letters, lids)
  <2>1. Len(c0) \in Nat
    BY <1>1, LenProperties
  <2>2. PICK n \in 0 .. Len(c0) + 1 : c \in [1 .. n -> Letters]
    BY DEF SentFor
  <2>3. n \in Nat
    BY <2>1
  <2>4. c \in Seq(Letters)
    BY <2>2, <2>3
  <2> HIDE DEF c0
  <2> QED
    BY <1>1, <2>4, WordsAreTakenAsMeant
<1>3. ASSUME NEW lids \in BOOLEAN, NEW c \in Blanked(call)
      PROVE  "No" \notin IsMyCallOf(c, c0, lids)
  <2>1. /\ c \in [DOMAIN c0 -> Letters \cup {Wildcard}]
        /\ \A i \in DOMAIN c : c[i] \in {Wildcard, c0[i]}
        /\ Copied(c) >= 2
    BY DEF Blanked
  <2> HIDE DEF c0
  <2>2. Len(c) = Len(c0) /\ DOMAIN c = 1 .. Len(c) /\ Copied(c) \in Nat
    BY <1>1, <2>1, BlankedType
  <2>3. Len(c) \in Nat
    BY <1>1, <2>2, LenProperties
  <2> QED
    BY <2>1, <2>2, <2>3, BlanksAreForgiven
<1>4. ASSUME NEW p \in DOMAIN Match, p[1] = call, Wildcard \notin ToSet(Spelt(p[2]))
      PROVE  Match[p] = MayAnswer(Spelt(p[2]), c0, Characters \ {Wildcard}, Lids)
  <2> DEFINE sent  == Spelt(p[2])
             known == Characters \ {Wildcard}
  <2>1. Match[p] = IsMyCallOf(sent, c0, Lids) /\ sent \in Seq(Characters)
    BY <1>4, MatchAssumption
  <2>2. Wildcard \notin ToSet(sent)
    BY <1>4
  <2> HIDE DEF sent
  <2>3. sent \in Seq(known)
    BY <2>1, <2>2, WithoutWildcard
  <2>4. c0 \in Seq(known)
    <3>1. Letters \subseteq known
      BY CallsAssumption
    <3> HIDE DEF c0, known
    <3> QED
      BY <1>1, <3>1, SeqOfMore
  <2> HIDE DEF c0
  <2>5. IsMyCallOf(sent, c0, Lids) = MayAnswer(sent, c0, known, Lids)
    BY <1>1, <2>3, <2>4, WordsAreTakenAsMeant
  <2> QED
    BY <2>1, <2>5 DEF sent
<1> QED
  BY <1>2, <1>3, <1>4 DEF TakenAsMeant

\* Every operator that is ever on the band takes what is sent, copied in full
\* or in part, for his call, nearly his or another one as it is meant.
THEOREM CallsTakenAsMeant == Spec => []CallsAreTakenAsMeant
<1>1. TypeOK => CallsAreTakenAsMeant
  <2>1. TypeOK => \A i \in DOMAIN stations : stations[i].call \in Calls
    BY DEF TypeOK, Station
  <2> QED
    BY <2>1, EveryCallTakenAsMeant DEF CallsAreTakenAsMeant
<1> QED
  BY <1>1, TypeCorrect, PTL

=============================================================================
