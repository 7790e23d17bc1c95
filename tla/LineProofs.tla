----------------------------- MODULE LineProofs -----------------------------
(***************************************************************************)
(* What the two readers of the serial port take from a line, for any       *)
(* reading, any place where a line is torn, and any text after the tag.    *)
(*                                                                         *)
(* A number is printed as its digits and read back as their value, one     *)
(* digit at a time: by induction over their number.  A torn line is a piece*)
(* of the printed one, and the readers go over it place by place.  What the*)
(* parsers take from an arbitrary text is four parts with commas between   *)
(* them; so is what the tests' parser takes.                               *)
(***************************************************************************)
EXTENDS Lines, Means, FiniteSetTheorems, SequenceTheorems

(* The numbers and the layout of a printed line.                           *)

(* The characters that are digits.                                         *)
DigitChars == {"0", "1", "2", "3", "4", "5", "6", "7", "8", "9"}

(* A digit is one of ten characters, and its value is its place.           *)
LEMMA DigitsAre ==
  /\ \A c : IsDigit(c) <=> c \in DigitChars
  /\ \A k \in 0 .. 9 : Digits[k + 1] \in DigitChars /\ DigitOf(Digits[k + 1]) = k
  /\ \A c \in DigitChars : DigitOf(c) \in Nat
<1>1. /\ DOMAIN Digits = 1 .. 10
      /\ Digits[1] = "0" /\ Digits[2] = "1" /\ Digits[3] = "2" /\ Digits[4] = "3" /\ Digits[5] = "4"
      /\ Digits[6] = "5" /\ Digits[7] = "6" /\ Digits[8] = "7" /\ Digits[9] = "8" /\ Digits[10] = "9"
  BY DEF Digits
<1>2. \A k \in 1 .. 10 : k = 1 \/ k = 2 \/ k = 3 \/ k = 4 \/ k = 5 \/ k = 6 \/ k = 7 \/ k = 8 \/ k = 9 \/ k = 10
  OBVIOUS
<1>3. \A c : IsDigit(c) <=> c \in DigitChars
  BY <1>1, <1>2 DEF IsDigit, Range, DigitChars
<1>4. \A k, j \in 1 .. 10 : Digits[k] = Digits[j] => k = j
  BY <1>1, <1>2
<1>5. \A k \in 1 .. 10 : DigitOf(Digits[k]) = k - 1
  BY <1>1, <1>4 DEF DigitOf
<1>6. ASSUME NEW k \in 0 .. 9 PROVE Digits[k + 1] \in DigitChars /\ DigitOf(Digits[k + 1]) = k
  <2>1. k + 1 \in 1 .. 10 /\ (k + 1) - 1 = k
    OBVIOUS
  <2>2. Digits[k + 1] \in DigitChars
    BY <1>1, <1>2, <2>1 DEF DigitChars
  <2> QED BY <1>5, <2>1, <2>2
<1>7. ASSUME NEW c \in DigitChars PROVE DigitOf(c) \in Nat
  <2>1. \E k \in 1 .. 10 : Digits[k] = c
    BY <1>1 DEF DigitChars
  <2>2. PICK k \in 1 .. 10 : Digits[k] = c
    BY <2>1
  <2> QED BY <1>5, <2>2
<1> QED BY <1>3, <1>6, <1>7

(* The value of the digits read so far.                                    *)
ValueSteps(v, s) ==
  /\ v \in [0 .. Len(s) -> Nat] /\ v[0] = 0 /\ v[Len(s)] = Value(s)
  /\ \A k \in 1 .. Len(s) : v[k] = 10 * v[k - 1] + DigitOf(s[k])

(* A text of digits has such values, one for each of its beginnings.       *)
LEMMA ValueStepsExist ==
  ASSUME NEW s \in Seq(DigitChars)
  PROVE  \E v : ValueSteps(v, s)
<1> DEFINE m == Len(s)
           g == [k \in 1 .. m |-> [x \in Nat |-> 10 * x + DigitOf(s[k])]]
           Is(f) == f = [k \in 0 .. m |-> IF k = 0 THEN 0 ELSE 10 * f[k - 1] + DigitOf(s[k])]
<1>1. m \in Nat /\ \A k \in 1 .. m : s[k] \in DigitChars /\ DigitOf(s[k]) \in Nat
  <2>1. m \in Nat /\ \A k \in 1 .. m : s[k] \in DigitChars
    OBVIOUS
  <2> HIDE DEF m
  <2> QED BY <2>1, DigitsAre
<1>2. \A k \in 1 .. m : \A x \in Nat : g[k][x] = 10 * x + DigitOf(s[k]) /\ g[k][x] \in Nat
  BY <1>1
<1> HIDE DEF g, m
<1>3. PICK t : Steps(t, g, 0, Nat, m)
  <2>1. Maps(g, Nat, m)
    BY <1>2 DEF Maps
  <2> QED BY <1>1, <2>1, StepsExist
<1>4. /\ t \in [0 .. m -> Nat] /\ t[0] = 0
      /\ \A k \in 1 .. m : t[k] = 10 * t[k - 1] + DigitOf(s[k])
  <2>1. t \in [0 .. m -> Nat] /\ t[0] = 0 /\ \A k \in 1 .. m : t[k] = g[k][t[k - 1]]
    BY <1>3 DEF Steps
  <2>2. \A k \in 1 .. m : t[k - 1] \in Nat
    BY <1>1, <2>1
  <2> QED BY <1>2, <2>1, <2>2
<1>5. Is(t)
  BY <1>1, <1>4
<1> DEFINE u == CHOOSE f : Is(f)
<1>6. Is(u)
  BY <1>5
<1>7. Value(s) = u[m]
  BY DEF Value, m
<1> HIDE DEF u
<1>7a. u[0] = 0 /\ \A k \in 1 .. m : u[k] = 10 * u[k - 1] + DigitOf(s[k])
  <2>1. \A k \in 0 .. m : u[k] = IF k = 0 THEN 0 ELSE 10 * u[k - 1] + DigitOf(s[k])
    BY <1>6
  <2>2. 0 \in 0 .. m /\ \A k \in 1 .. m : k \in 0 .. m /\ k # 0
    BY <1>1
  <2> QED BY <2>1, <2>2
<1> DEFINE T == {n \in Nat : n <= m => u[n] = t[n]}
<1>8. 0 \in T
  BY <1>4, <1>7a
<1>9. ASSUME NEW n \in Nat, n \in T PROVE n + 1 \in T
  <2> SUFFICES ASSUME n + 1 <= m PROVE u[n + 1] = t[n + 1]
    OBVIOUS
  <2>1. n + 1 \in 1 .. m /\ n + 1 \in 0 .. m /\ (n + 1) - 1 = n /\ u[n] = t[n]
    BY <1>1, <1>9
  <2>2. u[n + 1] = 10 * u[n] + DigitOf(s[n + 1])
    BY <1>7a, <2>1
  <2>3. t[n + 1] = 10 * t[n] + DigitOf(s[n + 1])
    BY <1>4, <2>1
  <2> QED BY <2>1, <2>2, <2>3
<1>10. Nat \subseteq T
  <2> HIDE DEF T
  <2> QED BY <1>8, <1>9, SetInduction
<1>11. u[m] = t[m]
  BY <1>1, <1>10
<1> QED BY <1>4, <1>7, <1>11 DEF ValueSteps, m

(* Another digit makes the value ten times as much, and its own more.      *)
LEMMA ValueIs ==
  ASSUME NEW s \in Seq(DigitChars)
  PROVE  /\ Value(s) \in Nat /\ (s = <<>> => Value(s) = 0)
         /\ \A c \in DigitChars : Value(Append(s, c)) = 10 * Value(s) + DigitOf(c)
<1>1. PICK v : ValueSteps(v, s)
  BY ValueStepsExist
<1>2. Len(s) \in Nat /\ Value(s) \in Nat /\ (s = <<>> => Value(s) = 0)
  BY <1>1 DEF ValueSteps
<1>3. ASSUME NEW c \in DigitChars PROVE Value(Append(s, c)) = 10 * Value(s) + DigitOf(c)
  <2> DEFINE a == Append(s, c)
             m == Len(s)
  <2>1. /\ a \in Seq(DigitChars) /\ Len(a) = m + 1 /\ a[m + 1] = c
        /\ \A k \in 1 .. m : a[k] = s[k]
    BY AppendProperties
  <2> HIDE DEF a
  <2>2. PICK w : ValueSteps(w, a)
    BY <2>1, ValueStepsExist
  <2> DEFINE T == {n \in Nat : n <= m => w[n] = v[n]}
  <2>3. 0 \in T
    BY <1>1, <2>2 DEF ValueSteps
  <2>4. ASSUME NEW n \in Nat, n \in T PROVE n + 1 \in T
    <3> SUFFICES ASSUME n + 1 <= m PROVE w[n + 1] = v[n + 1]
      OBVIOUS
    <3>1. n + 1 \in 1 .. m /\ n + 1 \in 1 .. m + 1 /\ (n + 1) - 1 = n /\ w[n] = v[n]
      BY <1>2, <2>4
    <3>2. v[n + 1] = 10 * v[n] + DigitOf(s[n + 1])
      BY <1>1, <3>1 DEF ValueSteps
    <3>3. w[n + 1] = 10 * w[n] + DigitOf(a[n + 1])
      BY <2>1, <2>2, <3>1 DEF ValueSteps
    <3> QED BY <2>1, <3>1, <3>2, <3>3
  <2>5. Nat \subseteq T
    <3> HIDE DEF T
    <3> QED BY <2>3, <2>4, SetInduction
  <2>6. w[m] = v[m]
    BY <1>2, <2>5
  <2>7. w[m + 1] = 10 * w[m] + DigitOf(a[m + 1])
    <3>1. m + 1 \in 1 .. m + 1 /\ (m + 1) - 1 = m
      BY <1>2
    <3> QED BY <2>1, <2>2, <3>1 DEF ValueSteps
  <2> QED BY <1>1, <2>1, <2>2, <2>6, <2>7 DEF ValueSteps, a
<1> QED BY <1>2, <1>3

(* The digits of a number have its value.                                  *)
Figures(h, n) ==
  h = [m \in 0 .. n |-> IF m < 10 THEN <<Digits[m + 1]>>
                         ELSE Append(h[m \div 10], Digits[(m % 10) + 1])]

(* The digits of all the numbers up to n.                                  *)
LEMMA FiguresExist ==
  ASSUME NEW n \in Nat
  PROVE  \E h : Figures(h, n)
<1> DEFINE Body(h, m) == IF m < 10 THEN <<Digits[m + 1]>>
                         ELSE Append(h[m \div 10], Digits[(m % 10) + 1])
           Are(h, i) == DOMAIN h = 0 .. i /\ h = [m \in 0 .. i |-> h[m]]
                        /\ \A m \in 0 .. i : h[m] = Body(h, m)
           T == {i \in Nat : \E h : Are(h, i)}
<1>1. 0 \in T
  <2> DEFINE h == [m \in 0 .. 0 |-> <<Digits[1]>>]
  <2>1. DOMAIN h = 0 .. 0 /\ \A m \in 0 .. 0 : h[m] = <<Digits[1]>> /\ m = 0
    OBVIOUS
  <2>2. h = [m \in 0 .. 0 |-> h[m]]
    OBVIOUS
  <2>3. \A m \in 0 .. 0 : h[m] = Body(h, m)
    BY <2>1
  <2> HIDE DEF h, Body
  <2>4. Are(h, 0)
    BY <2>1, <2>2, <2>3
  <2> HIDE DEF Are
  <2> QED BY <2>4
<1>2. ASSUME NEW i \in Nat, i \in T PROVE i + 1 \in T
  <2>1. PICK h : Are(h, i)
    <3> HIDE DEF Are
    <3> QED BY <1>2
  <2> DEFINE k == i + 1
             u == [m \in 0 .. k |-> IF m = k THEN Body(h, k) ELSE h[m]]
  <2>2. DOMAIN u = 0 .. k /\ u[k] = Body(h, k) /\ \A m \in 0 .. i : u[m] = h[m]
    <3> HIDE DEF Body
    <3> QED OBVIOUS
  <2>3. u = [m \in 0 .. k |-> u[m]]
    <3> HIDE DEF Body
    <3> QED OBVIOUS
  <2> HIDE DEF u
  <2>4. ASSUME NEW m \in 0 .. k PROVE u[m] = Body(u, m)
    <3>1. m >= 10 => m \div 10 \in 0 .. i
      OBVIOUS
    <3>2. m >= 10 => u[m \div 10] = h[m \div 10]
      BY <2>2, <3>1
    <3>3. Body(u, m) = Body(h, m)
      BY <3>2
    <3>4. u[m] = Body(h, m)
      <4> HIDE DEF Body
      <4>1. m = k \/ m \in 0 .. i
        OBVIOUS
      <4> QED BY <2>1, <2>2, <4>1
    <3> HIDE DEF Body
    <3> QED BY <3>3, <3>4
  <2> HIDE DEF Body
  <2>5. Are(u, k)
    BY <2>2, <2>3, <2>4
  <2> HIDE DEF Are
  <2> QED BY <2>5
<1>3. Nat \subseteq T
  <2> HIDE DEF T
  <2> QED BY <1>1, <1>2, SetInduction
<1>4. PICK h : Are(h, n)
  <2> HIDE DEF Are
  <2> QED BY <1>3
<1>5. h = [m \in 0 .. n |-> Body(h, m)]
  <2> HIDE DEF Body
  <2> QED BY <1>4
<1> QED BY <1>5 DEF Figures

(* A number has digits, and their value is the number.                     *)
LEMMA NaturalIs ==
  ASSUME NEW n \in Nat
  PROVE  /\ Natural(n) \in Seq(DigitChars) /\ Len(Natural(n)) > 0
         /\ Value(Natural(n)) = n
<1> DEFINE u == CHOOSE h : Figures(h, n)
<1>1. Figures(u, n)
  BY FiguresExist
<1>2. Natural(n) = u[n]
  BY DEF Natural, Figures
<1> HIDE DEF u
<1>3. ASSUME NEW m \in 0 .. n
      PROVE  u[m] = IF m < 10 THEN <<Digits[m + 1]>> ELSE Append(u[m \div 10], Digits[(m % 10) + 1])
  BY <1>1 DEF Figures
<1> DEFINE Good(m) == u[m] \in Seq(DigitChars) /\ Len(u[m]) > 0 /\ Value(u[m]) = m
           T == {i \in Nat : \A m \in 0 .. n : m <= i => Good(m)}
<1>4. ASSUME NEW m \in 0 .. n, m < 10 PROVE Good(m)
  <2>0. m \in 0 .. 9
    BY <1>4
  <2> DEFINE c == Digits[m + 1]
             e == <<>>
  <2>1. u[m] = <<c>> /\ c \in DigitChars /\ DigitOf(c) = m
    BY <1>3, <1>4, <2>0, DigitsAre
  <2> HIDE DEF c
  <2>2. e \in Seq(DigitChars) /\ Append(e, c) = <<c>> /\ Len(<<c>>) = 1 /\ <<c>> \in Seq(DigitChars)
    BY <2>1
  <2>3. Value(e) = 0 /\ Value(Append(e, c)) = 10 * Value(e) + DigitOf(c)
    BY <2>1, <2>2, ValueIs
  <2>4. Value(<<c>>) = m
    <3>1. m \in Nat
      OBVIOUS
    <3> QED BY <2>1, <2>2, <2>3, <3>1
  <2> QED BY <2>1, <2>2, <2>4
<1>5. ASSUME NEW m \in 0 .. n, m >= 10, Good(m \div 10) PROVE Good(m)
  <2> DEFINE c == Digits[(m % 10) + 1]
             s == u[m \div 10]
  <2>1. m % 10 \in 0 .. 9 /\ m = 10 * (m \div 10) + (m % 10)
    OBVIOUS
  <2>2. c \in DigitChars /\ DigitOf(c) = m % 10
    BY <2>1, DigitsAre
  <2>3. u[m] = Append(s, c)
    <3>1. ~(m < 10)
      BY <1>5
    <3> QED BY <1>3, <3>1, Zenon
  <2> HIDE DEF c, s
  <2>4. s \in Seq(DigitChars) /\ Len(s) > 0 /\ Value(s) = m \div 10
    BY <1>5 DEF s
  <2>5. Append(s, c) \in Seq(DigitChars) /\ Len(Append(s, c)) = Len(s) + 1 /\ Len(s) \in Nat
    BY <2>2, <2>4, AppendProperties
  <2>6. Value(Append(s, c)) = 10 * Value(s) + DigitOf(c)
    BY <2>2, <2>4, ValueIs
  <2> QED BY <2>1, <2>2, <2>3, <2>4, <2>5, <2>6
<1> HIDE DEF Good
<1>6. 0 \in T
  BY <1>4
<1>7. ASSUME NEW i \in Nat, i \in T PROVE i + 1 \in T
  <2> SUFFICES ASSUME NEW m \in 0 .. n, m <= i + 1 PROVE Good(m)
    OBVIOUS
  <2>1. CASE m < 10
    BY <1>4, <2>1
  <2>2. CASE m >= 10
    <3>1. m \div 10 \in 0 .. n /\ m \div 10 <= i
      BY <2>2
    <3>2. Good(m \div 10)
      BY <1>7, <3>1
    <3> QED BY <1>5, <2>2, <3>2
  <2> QED BY <2>1, <2>2
<1>8. Nat \subseteq T
  <2> HIDE DEF T
  <2> QED BY <1>6, <1>7, SetInduction
<1>9. Good(n)
  BY <1>8
<1> QED BY <1>2, <1>9 DEF Good

(* A part of a text that has the characters of another one is the other.   *)
LEMMA PartIs ==
  ASSUME NEW S, NEW t \in Seq(S), NEW s, NEW a \in Int, NEW b \in Int, Len(t) = b - a + 1,
         \A i \in 1 .. Len(t) : s[a + i - 1] = t[i]
  PROVE  SubSeq(s, a, b) = t
<1>0. Len(t) \in Nat /\ \A i \in 1 .. Len(t) : t[i] \in S
  OBVIOUS
<1>1. ASSUME NEW i \in a .. b PROVE s[i] \in S
  <2>1. i - a + 1 \in 1 .. Len(t) /\ a + (i - a + 1) - 1 = i
    BY <1>0
  <2>2. s[a + (i - a + 1) - 1] = t[i - a + 1]
    BY <2>1
  <2> QED BY <1>0, <2>1, <2>2
<1> DEFINE p == SubSeq(s, a, b)
<1>2. /\ p \in Seq(S) /\ Len(p) = IF a <= b THEN b - a + 1 ELSE 0
      /\ \A i \in 1 .. b - a + 1 : p[i] = s[a + i - 1]
  BY <1>1, SubSeqProperties
<1> HIDE DEF p
<1>3. Len(p) = Len(t)
  BY <1>0, <1>2
<1>4. \A i \in 1 .. Len(p) : p[i] = t[i]
  BY <1>0, <1>2, <1>3
<1>5. p = t
  BY <1>2, <1>3, <1>4, SeqEqual
<1> QED BY <1>5 DEF p

(* A number as it is printed: a sign if it is negative, and digits.        *)
LEMMA DecimalIs ==
  ASSUME NEW v \in Int, NEW d, d = Decimal(v)
  PROVE  /\ d \in Seq(DigitChars \cup {"-"}) /\ Len(d) \in Nat /\ Len(d) > 0
         /\ v >= 0 => d = Natural(v) /\ d \in Seq(DigitChars) /\ Value(d) = v
         /\ v < 0 => /\ d[1] = "-" /\ Len(d) > 1
                    /\ SubSeq(d, 2, Len(d)) \in Seq(DigitChars) /\ Value(SubSeq(d, 2, Len(d))) = -v
                    /\ \A k \in 2 .. Len(d) : d[k] \in DigitChars
<1>1. CASE v >= 0
  <2>1. v \in Nat /\ d = Natural(v)
    BY <1>1 DEF Decimal
  <2>2. d \in Seq(DigitChars) /\ Len(d) > 0 /\ Value(d) = v
    BY <2>1, NaturalIs
  <2>3. d \in Seq(DigitChars \cup {"-"})
    <3>1. DigitChars \subseteq DigitChars \cup {"-"}
      OBVIOUS
    <3> QED BY <2>2, <3>1, SeqMonotonic
  <2>4. ~(v < 0)
    BY <1>1
  <2> QED BY <2>1, <2>2, <2>3, <2>4
<1>2. CASE v < 0
  <2> DEFINE t == Natural(-v)
             S == DigitChars \cup {"-"}
  <2>1. -v \in Nat /\ d = <<"-">> \o t
    BY <1>2 DEF Decimal
  <2>2. t \in Seq(DigitChars) /\ Len(t) > 0 /\ Value(t) = -v
    BY <2>1, NaturalIs
  <2> HIDE DEF t
  <2>3. t \in Seq(S) /\ <<"-">> \in Seq(S) /\ Len(<<"-">>) = 1
    <3>1. DigitChars \subseteq S /\ "-" \in S
      OBVIOUS
    <3> HIDE DEF S
    <3> QED BY <2>2, <3>1, SeqMonotonic
  <2> HIDE DEF S
  <2>4. /\ d \in Seq(S) /\ Len(d) = 1 + Len(t) /\ Len(t) \in Nat
        /\ \A i \in 1 .. 1 + Len(t) : d[i] = IF i <= 1 THEN <<"-">>[i] ELSE t[i - 1]
    BY <2>1, <2>3, ConcatProperties
  <2>5. SubSeq(d, 2, Len(d)) = t
    <3>1. \A i \in 1 .. Len(t) : d[2 + i - 1] = t[i]
      <4>1. \A i \in 1 .. Len(t) : 2 + i - 1 \in 1 .. 1 + Len(t) /\ ~(2 + i - 1 <= 1) /\ 2 + i - 1 - 1 = i
        BY <2>4
      <4> QED BY <2>4, <4>1
    <3>2. Len(d) \in Int /\ Len(t) = Len(d) - 2 + 1
      BY <2>4
    <3> QED BY <2>3, <3>1, <3>2, PartIs
  <2>6. d[1] = "-" /\ \A k \in 2 .. Len(d) : d[k] \in DigitChars
    <3>1. d[1] = "-"
      BY <2>4
    <3>2. ASSUME NEW k \in 2 .. Len(d) PROVE d[k] \in DigitChars
      <4>1. k \in 1 .. 1 + Len(t) /\ ~(k <= 1) /\ k - 1 \in 1 .. Len(t)
        BY <2>4
      <4>2. d[k] = t[k - 1]
        BY <2>4, <4>1
      <4> QED BY <2>2, <4>1, <4>2
    <3> QED BY <3>1, <3>2
  <2>7. ~(v >= 0)
    BY <1>2
  <2>8. Len(d) > 0 /\ Len(d) > 1 /\ Len(d) \in Nat
    BY <2>2, <2>4
  <2> QED BY <1>2, <2>2, <2>4, <2>5, <2>6, <2>7, <2>8, Zenon DEF S
<1> QED BY <1>1, <1>2

(* The least of some numbers, and the greatest, when it is known.          *)
LEMMA MinIs ==
  ASSUME NEW S \in SUBSET Nat, NEW low \in S, \A r \in S : low <= r
  PROVE  Min(S) = low
<1>1. Min(S) \in S /\ \A r \in S : Min(S) <= r
  <2>1. \E x \in S : \A r \in S : x <= r
    OBVIOUS
  <2> QED BY <2>1, Zenon DEF Min
<1>2. Min(S) \in Nat /\ low \in Nat
  BY <1>1
<1>3. Min(S) <= low /\ low <= Min(S)
  BY <1>1
<1> QED BY <1>2, <1>3

LEMMA MaxIs ==
  ASSUME NEW S \in SUBSET Nat, NEW high \in S, \A r \in S : high >= r
  PROVE  Max(S) = high
<1>1. Max(S) \in S /\ \A r \in S : Max(S) >= r
  <2>1. \E x \in S : \A r \in S : x >= r
    OBVIOUS
  <2> QED BY <2>1, Zenon DEF Max
<1>2. Max(S) \in Nat /\ high \in Nat
  BY <1>1
<1>3. Max(S) >= high /\ high >= Max(S)
  BY <1>1
<1> QED BY <1>2, <1>3

(* parseInt reads the digits that there are.                               *)
LEMMA RunIs ==
  ASSUME NEW s, Len(s) \in Nat, NEW i \in Nat, i > 0, NEW begin, begin = PastSign(s, i),
         NEW j \in Nat, begin <= j, j <= Len(s) + 1,
         \A k \in begin .. j - 1 : s[k] \in DigitChars, j > Len(s) \/ s[j] \notin DigitChars
  PROVE  /\ (parseInt(s, i).ok <=> j > begin) /\ parseInt(s, i).next = j
         /\ begin = i => parseInt(s, i).val = Value(SubSeq(s, begin, j - 1))
         /\ begin # i => parseInt(s, i).val = -Value(SubSeq(s, begin, j - 1))
<1> DEFINE ends == {k \in begin .. Len(s) + 1 : k > Len(s) \/ ~IsDigit(s[k])}
           run == Value(SubSeq(s, begin, j - 1))
<1>1. begin \in Nat
  BY DEF PastSign
<1>2. j \in ends
  <2>1. \A c : IsDigit(c) <=> c \in DigitChars
    BY DigitsAre
  <2>2. j \in begin .. Len(s) + 1
    BY <1>1
  <2> QED BY <2>1, <2>2
<1>3. ASSUME NEW k \in ends PROVE j <= k
  <2>1. k \in Nat /\ begin <= k /\ (k > Len(s) \/ s[k] \notin DigitChars)
    <3>1. \A c : IsDigit(c) <=> c \in DigitChars
      BY DigitsAre
    <3> QED BY <1>1, <3>1
  <2>2. ~(k < j)
    <3>1. ASSUME k < j PROVE FALSE
      <4>1. k \in begin .. j - 1 /\ ~(k > Len(s))
        BY <1>1, <2>1, <3>1
      <4> QED BY <2>1, <4>1
    <3> QED BY <3>1
  <2> QED BY <2>1, <2>2
<1>4. ends \in SUBSET Nat
  BY <1>1
<1>5. Min(ends) = j
  <2> HIDE DEF ends
  <2> QED BY <1>2, <1>3, <1>4, MinIs
<1> HIDE DEF run
<1>6. parseInt(s, i) = [ok |-> j > begin, next |-> j, val |-> IF begin = i THEN run ELSE -run]
  <2>1. PastDigits(s, begin) = j
    BY <1>5 DEF PastDigits
  <2> QED BY <2>1, Zenon DEF parseInt, run
<1>7. parseInt(s, i).ok <=> j > begin
  <2> DEFINE ahead == j > begin
  <2> HIDE DEF ahead
  <2>1. parseInt(s, i) = [ok |-> ahead, next |-> j, val |-> IF begin = i THEN run ELSE -run]
    BY <1>6 DEF ahead
  <2>2. parseInt(s, i).ok = ahead
    BY <2>1
  <2>3. ahead <=> j > begin
    BY DEF ahead
  <2> QED BY <2>2, <2>3, Zenon
<1>8. parseInt(s, i).next = j
  BY <1>6
<1>9. parseInt(s, i).val = IF begin = i THEN run ELSE -run
  BY <1>6
<1> QED BY <1>7, <1>8, <1>9, Zenon DEF run

(* What is read as a number: a sign, if there is one, and digits.          *)
Numeral(s, i, j) ==
  /\ i \in Nat /\ j \in Nat /\ i > 0 /\ PastSign(s, i) <= j /\ j <= Len(s) + 1
  /\ \A k \in PastSign(s, i) .. j - 1 : s[k] \in DigitChars
NumeralValue(s, i, j) ==
  IF PastSign(s, i) = i THEN Value(SubSeq(s, i, j - 1)) ELSE -Value(SubSeq(s, i + 1, j - 1))

(* parseInt reads a numeral that no further digit follows.                 *)
LEMMA ParseIntIs ==
  ASSUME NEW s, Len(s) \in Nat, NEW i, NEW j, Numeral(s, i, j), j > Len(s) \/ s[j] \notin DigitChars
  PROVE  /\ (parseInt(s, i).ok <=> j > PastSign(s, i)) /\ parseInt(s, i).next = j
         /\ parseInt(s, i).val = NumeralValue(s, i, j)
<1> DEFINE b == PastSign(s, i)
<1>1. i \in Nat /\ j \in Nat /\ i > 0 /\ b <= j /\ j <= Len(s) + 1 /\ \A k \in b .. j - 1 : s[k] \in DigitChars
  BY DEF Numeral
<1>2. b = PastSign(s, i) /\ (b = i \/ b = i + 1)
  BY DEF PastSign
<1> HIDE DEF b
<1>3. /\ (parseInt(s, i).ok <=> j > b) /\ parseInt(s, i).next = j
      /\ b = i => parseInt(s, i).val = Value(SubSeq(s, b, j - 1))
      /\ b # i => parseInt(s, i).val = -Value(SubSeq(s, b, j - 1))
  BY <1>1, <1>2, RunIs
<1> QED BY <1>2, <1>3 DEF NumeralValue

(* The first k characters of a number, with no further sign after them, are*)
(* a numeral.                                                              *)
Shows(s, b, k, v) ==
  /\ k \in 0 .. Len(Decimal(v)) /\ b \in Nat /\ b + k <= Len(s)
  /\ \A j \in 1 .. k : s[b + j] = Decimal(v)[j]
  /\ b + k = Len(s) \/ s[b + k + 1] # "-"

(* The characters are a numeral, the whole number when none is missing.    *)
LEMMA DecimalNumeral ==
  ASSUME NEW v \in Int, NEW k, NEW s, Len(s) \in Nat, NEW b, Shows(s, b, k, v)
  PROVE  /\ Numeral(s, b + 1, b + k + 1)
         /\ k = Len(Decimal(v)) =>
                          /\ NumeralValue(s, b + 1, b + k + 1) = v
                          /\ b + k + 1 > PastSign(s, b + 1)
         /\ v >= 0 => /\ PastSign(s, b + 1) = b + 1
                      /\ NumeralValue(s, b + 1, b + k + 1) = Value(SubSeq(Decimal(v), 1, k))
<1> SUFFICES ASSUME NEW d, d = Decimal(v), k \in 0 .. Len(d), b \in Nat, b + k <= Len(s),
                    \A n \in 1 .. k : s[b + n] = d[n],
                    b + k = Len(s) \/ s[b + k + 1] # "-"
             PROVE  /\ Numeral(s, b + 1, b + k + 1)
                    /\ k = Len(d) => /\ NumeralValue(s, b + 1, b + k + 1) = v
                                     /\ b + k + 1 > PastSign(s, b + 1)
                    /\ v >= 0 => /\ PastSign(s, b + 1) = b + 1
                                 /\ NumeralValue(s, b + 1, b + k + 1) = Value(SubSeq(d, 1, k))
  BY DEF Shows
<1> DEFINE i == b + 1
           j == b + k + 1
           start == PastSign(s, i)
<1>0. /\ Len(d) \in Nat /\ Len(d) > 0
      /\ v >= 0 => d \in Seq(DigitChars) /\ Value(d) = v
      /\ v < 0 => /\ d[1] = "-" /\ Len(d) > 1 /\ Value(SubSeq(d, 2, Len(d))) = -v
                 /\ SubSeq(d, 2, Len(d)) \in Seq(DigitChars)
                 /\ \A n \in 2 .. Len(d) : d[n] \in DigitChars
  BY DecimalIs
<1>1. k \in Nat /\ i \in Nat /\ i > 0 /\ j \in Nat /\ j <= Len(s) + 1 /\ j - 1 = b + k
  BY <1>0
<1>2. j > Len(s) \/ s[j] # "-"
  BY <1>1
<1>3. "-" \notin DigitChars
  BY DEF DigitChars
<1>4. CASE v >= 0 \/ k = 0
  <2>1. start = i
    <3>1. CASE k = 0
      BY <1>1, <3>1 DEF PastSign
    <3>2. CASE k > 0 /\ v >= 0
      <4>1. s[b + 1] = d[1] /\ d[1] \in DigitChars
        BY <1>0, <1>1, <3>2
      <4> QED BY <1>3, <4>1 DEF PastSign
    <3> QED BY <1>1, <1>4, <3>1, <3>2
  <2>2. ASSUME NEW n \in i .. j - 1 PROVE s[n] \in DigitChars
    <3>1. n - b \in 1 .. k /\ b + (n - b) = n /\ v >= 0 /\ n - b \in 1 .. Len(d)
      BY <1>0, <1>1, <1>4, <2>2
    <3>2. s[b + (n - b)] = d[n - b]
      BY <3>1
    <3> QED BY <1>0, <3>1, <3>2
  <2> HIDE DEF j
  <2>3. Numeral(s, i, j) /\ NumeralValue(s, i, j) = Value(SubSeq(s, i, j - 1))
    <3>1. i <= j
      BY <1>1 DEF j
    <3>2. i = PastSign(s, i)
      BY <2>1
    <3> HIDE DEF i
    <3> QED BY <1>1, <2>2, <3>1, <3>2 DEF Numeral, NumeralValue
  <2>4. j > i <=> k > 0
    BY <1>1 DEF j
  <2>5. ASSUME v >= 0 PROVE Value(SubSeq(s, i, j - 1)) = Value(SubSeq(d, 1, k))
    <3> DEFINE t == SubSeq(d, 1, k)
    <3>1. /\ t \in Seq(DigitChars) /\ Len(t) = k
          /\ \A n \in 1 .. k : t[n] = d[n]
      <4>1. \A n \in 1 .. k : d[n] \in DigitChars
        BY <1>0, <1>1, <2>5
      <4>2. /\ t \in Seq(DigitChars) /\ Len(t) = IF 1 <= k THEN k - 1 + 1 ELSE 0
            /\ \A n \in 1 .. k - 1 + 1 : t[n] = d[1 + n - 1]
        BY <1>1, <4>1, SubSeqProperties
      <4>3. k - 1 + 1 = k /\ (1 <= k \/ k = 0) /\ \A n \in 1 .. k : 1 + n - 1 = n
        BY <1>1
      <4> HIDE DEF t
      <4> QED BY <4>2, <4>3
    <3> HIDE DEF t
    <3>2. i \in Int /\ j - 1 \in Int /\ Len(t) = (j - 1) - i + 1
      BY <1>1, <3>1 DEF j
    <3>3. \A n \in 1 .. Len(t) : s[i + n - 1] = t[n]
      <4>1. ASSUME NEW n \in 1 .. k PROVE i + n - 1 = b + n
        OBVIOUS
      <4> QED BY <3>1, <4>1
    <3>4. SubSeq(s, i, j - 1) = t
      <4> HIDE DEF i
      <4> QED BY <3>1, <3>2, <3>3, PartIs
    <3> QED BY <3>4 DEF t
  <2>6. ASSUME k = Len(d) PROVE k > 0 /\ v >= 0 /\ SubSeq(d, 1, k) = d
    <3>1. k > 0 /\ v >= 0
      BY <1>0, <1>4, <2>6
    <3> QED BY <1>0, <2>6, <3>1, SubSeqFull
  <2>7. j > i <=> k > 0
    BY <2>4
  <2>8. i = PastSign(s, i)
    BY <2>1
  <2> HIDE DEF i
  <2>9. ASSUME k = Len(d) PROVE NumeralValue(s, i, j) = v /\ j > PastSign(s, i)
    BY <1>0, <2>3, <2>5, <2>6, <2>7, <2>8, <2>9
  <2>10. ASSUME v >= 0
         PROVE  PastSign(s, i) = i /\ NumeralValue(s, i, j) = Value(SubSeq(d, 1, k))
    BY <2>3, <2>5, <2>8, <2>10
  <2> QED BY <2>3, <2>9, <2>10 DEF i, j
<1>5. CASE v < 0 /\ k > 0
  <2>1. start = i + 1 /\ i + 1 <= j
    <3>1. s[b + 1] = d[1] /\ d[1] = "-" /\ i <= Len(s)
      BY <1>0, <1>1, <1>5
    <3> QED BY <1>1, <1>5, <3>1 DEF PastSign
  <2>2. ASSUME NEW n \in i + 1 .. j - 1 PROVE s[n] \in DigitChars
    <3>1. n - b \in 1 .. k /\ b + (n - b) = n /\ n - b \in 2 .. Len(d)
      BY <1>0, <1>1
    <3>2. s[b + (n - b)] = d[n - b]
      BY <3>1
    <3> QED BY <1>0, <1>5, <3>1, <3>2
  <2> HIDE DEF j
  <2>3. Numeral(s, i, j) /\ NumeralValue(s, i, j) = -Value(SubSeq(s, i + 1, j - 1))
    <3> DEFINE e == i + 1
    <3>1. e = PastSign(s, i) /\ e # i /\ e <= j
      BY <1>1, <2>1
    <3>2. \A n \in e .. j - 1 : s[n] \in DigitChars
      BY <2>2
    <3>3. e = i + 1
      OBVIOUS
    <3> HIDE DEF i, e
    <3> QED BY <1>1, <3>1, <3>2, <3>3 DEF Numeral, NumeralValue
  <2>4. ASSUME k = Len(d) PROVE j > i + 1 /\ SubSeq(s, i + 1, j - 1) = SubSeq(d, 2, Len(d))
    <3> DEFINE t == SubSeq(d, 2, Len(d))
               S == DigitChars
    <3>1. /\ t \in Seq(S) /\ Len(t) = k - 1
          /\ \A n \in 1 .. k - 1 : t[n] = d[n + 1]
      <4>1. \A n \in 2 .. Len(d) : d[n] \in S
        BY <1>0, <1>5
      <4>2. /\ t \in Seq(S) /\ Len(t) = IF 2 <= Len(d) THEN Len(d) - 2 + 1 ELSE 0
            /\ \A n \in 1 .. Len(d) - 2 + 1 : t[n] = d[2 + n - 1]
        BY <1>0, <4>1, SubSeqProperties
      <4>3. Len(d) - 2 + 1 = k - 1 /\ 2 <= Len(d) /\ \A n \in 1 .. k - 1 : 2 + n - 1 = n + 1
        BY <1>0, <1>1, <1>5, <2>4
      <4> HIDE DEF t, S
      <4> QED BY <4>2, <4>3
    <3> HIDE DEF t, S
    <3>2. i + 1 \in Int /\ j - 1 \in Int /\ Len(t) = (j - 1) - (i + 1) + 1 /\ j > i + 1
      BY <1>0, <1>1, <1>5, <2>4, <3>1 DEF j
    <3>3. \A n \in 1 .. Len(t) : s[i + 1 + n - 1] = t[n]
      <4>1. ASSUME NEW n \in 1 .. k - 1 PROVE i + 1 + n - 1 = b + (n + 1) /\ n + 1 \in 1 .. k
        BY <1>1
      <4> QED BY <3>1, <4>1
    <3> DEFINE e == i + 1
    <3>4. e \in Int /\ Len(t) = (j - 1) - e + 1 /\ \A n \in 1 .. Len(t) : s[e + n - 1] = t[n]
      BY <3>2, <3>3
    <3> HIDE DEF e
    <3>5. SubSeq(s, e, j - 1) = t
      BY <3>1, <3>2, <3>4, PartIs
    <3> QED BY <3>2, <3>5 DEF t, e
  <2>5. PastSign(s, i) = i + 1
    BY <2>1
  <2>6. ASSUME k = Len(d) PROVE NumeralValue(s, i, j) = v /\ j > PastSign(s, i)
    <3>1. -(-v) = v
      OBVIOUS
    <3>2. Value(SubSeq(d, 2, Len(d))) = -v
      BY <1>0, <1>5
    <3>3. j > i + 1 /\ SubSeq(s, i + 1, j - 1) = SubSeq(d, 2, Len(d))
      BY <2>4, <2>6
    <3> HIDE DEF i
    <3> QED BY <2>3, <2>5, <3>1, <3>2, <3>3
  <2>7. ~(v >= 0)
    BY <1>5
  <2> HIDE DEF i
  <2> QED BY <2>3, <2>6, <2>7 DEF i, j
<1> QED BY <1>1, <1>4, <1>5

(* One text after another, and a text of one character.                    *)
LEMMA JoinIs ==
  ASSUME NEW S, NEW s \in Seq(S), NEW t \in Seq(S)
  PROVE  /\ s \o t \in Seq(S) /\ Len(s \o t) = Len(s) + Len(t)
         /\ \A k \in 1 .. Len(s) : (s \o t)[k] = s[k]
         /\ \A k \in 1 .. Len(t) : (s \o t)[Len(s) + k] = t[k]
<1> DEFINE u == s \o t
<1>1. /\ u \in Seq(S) /\ Len(u) = Len(s) + Len(t)
      /\ \A i \in 1 .. Len(s) + Len(t) : u[i] = IF i <= Len(s) THEN s[i] ELSE t[i - Len(s)]
  BY ConcatProperties
<1> HIDE DEF u
<1>2. Len(s) \in Nat /\ Len(t) \in Nat
  OBVIOUS
<1>3. ASSUME NEW k \in 1 .. Len(s) PROVE u[k] = s[k]
  <2>1. k \in 1 .. Len(s) + Len(t) /\ k <= Len(s)
    BY <1>2
  <2> QED BY <1>1, <2>1
<1>4. ASSUME NEW k \in 1 .. Len(t) PROVE u[Len(s) + k] = t[k]
  <2>1. Len(s) + k \in 1 .. Len(s) + Len(t) /\ ~(Len(s) + k <= Len(s)) /\ Len(s) + k - Len(s) = k
    BY <1>2
  <2> QED BY <1>1, <2>1
<1>5. /\ u \in Seq(S) /\ Len(u) = Len(s) + Len(t)
      /\ \A k \in 1 .. Len(s) : u[k] = s[k]
      /\ \A k \in 1 .. Len(t) : u[Len(s) + k] = t[k]
  BY <1>1, <1>3, <1>4
<1> QED BY <1>5 DEF u

LEMMA SingleIs ==
  ASSUME NEW S, NEW c \in S
  PROVE  <<c>> \in Seq(S) /\ Len(<<c>>) = 1 /\ <<c>>[1] = c
OBVIOUS

(* A text with a comma and another number after it.                        *)
Continues(u, s, d) ==
  /\ Len(u) = Len(s) + 1 + Len(d)
  /\ \A k \in 1 .. Len(s) : u[k] = s[k]
  /\ u[Len(s) + 1] = Comma
  /\ \A k \in 1 .. Len(d) : u[Len(s) + 1 + k] = d[k]

LEMMA CommaAndNumber ==
  ASSUME NEW S, NEW s \in Seq(S), NEW d \in Seq(S), Comma \in S
  PROVE  /\ s \o <<Comma>> \o d \in Seq(S)
         /\ Continues(s \o <<Comma>> \o d, s, d)
<1> DEFINE c == <<Comma>>
           t == s \o c
           u == t \o d
<1>0. Len(s) \in Nat /\ Len(d) \in Nat
  OBVIOUS
<1>1. Len(c) = 1 /\ c[1] = Comma
  BY SingleIs
<1>1a. c \in Seq(S)
  BY SingleIs
<1> HIDE DEF c
<1>2. /\ t \in Seq(S) /\ Len(t) = Len(s) + Len(c)
      /\ \A k \in 1 .. Len(s) : t[k] = s[k]
      /\ \A k \in 1 .. Len(c) : t[Len(s) + k] = c[k]
  BY <1>1a, JoinIs
<1> HIDE DEF t
<1>3. /\ u \in Seq(S) /\ Len(u) = Len(t) + Len(d)
      /\ \A k \in 1 .. Len(t) : u[k] = t[k]
      /\ \A k \in 1 .. Len(d) : u[Len(t) + k] = d[k]
  <2>1. t \in Seq(S)
    BY <1>2
  <2> QED BY <2>1, JoinIs
<1> HIDE DEF u
<1>4. Len(t) = Len(s) + 1 /\ Len(s) + 1 \in 1 .. Len(t) /\ \A k \in 1 .. Len(s) : k \in 1 .. Len(t)
  BY <1>0, <1>1, <1>2
<1>5. u[Len(s) + 1] = Comma /\ \A k \in 1 .. Len(s) : u[k] = s[k]
  <2>1. 1 \in 1 .. Len(c)
    BY <1>1
  <2> QED BY <1>1, <1>2, <1>3, <1>4, <2>1
<1>6. Continues(u, s, d)
  BY <1>0, <1>3, <1>4, <1>5 DEF Continues
<1> QED BY <1>3, <1>6 DEF u, t, c

(* How a printed line is laid out: number m comes after its place g[m].    *)
Laid(p, r, g) ==
  /\ g \in [1 .. 5 -> Nat] /\ g[1] = 5 /\ Len(p) = g[5] - 1
  /\ \A m \in 1 .. 4 : /\ g[m + 1] = g[m] + Len(Decimal(r[m])) + 1
                       /\ Len(Decimal(r[m])) > 0 /\ Len(Decimal(r[m])) \in Nat
                       /\ \A k \in 1 .. Len(Decimal(r[m])) : p[g[m] + k] = Decimal(r[m])[k]
  /\ p[g[2]] = Comma /\ p[g[3]] = Comma /\ p[g[4]] = Comma
  /\ p[1] = "I" /\ p[2] = "q" /\ p[3] = "f" /\ p[4] = ":" /\ p[5] = Blank

(* A line begins with five characters.                                     *)
LEMMA HeaderIs ==
  /\ Header = <<"I", "q", "f", ":", Blank>> /\ Header \in Seq(Characters)
  /\ DigitChars \subseteq Characters /\ DigitChars \cup {"-"} \subseteq Characters /\ Comma \in Characters
  /\ "e" \in Characters /\ "t" \in Characters /\ "s" \in Characters
<1>1. Header = <<"I", "q", "f", ":", Blank>>
  BY DEF Header
<1>2. Range(Digits) = DigitChars
  BY DigitsAre DEF IsDigit
<1>3. /\ DOMAIN Header = 1 .. 5 /\ Header[1] = "I" /\ Header[2] = "q" /\ Header[3] = "f" /\ Header[4] = ":"
      /\ Header[5] = Blank
  BY <1>1
<1>3a. "I" \in Range(Header) /\ "q" \in Range(Header) /\ "f" \in Range(Header) /\ ":" \in Range(Header) /\ Blank \in Range(Header)
  BY <1>3 DEF Range
<1>3b. "I" \in Characters /\ "q" \in Characters /\ "f" \in Characters /\ ":" \in Characters /\ Blank \in Characters
  BY <1>3a DEF Characters
<1>4. Header \in Seq(Characters)
  BY <1>1, <1>3b
<1> QED BY <1>1, <1>2, <1>4 DEF Characters

(* A line is laid out in four numbers with commas between them.            *)
LEMMA PrintedIs ==
  ASSUME NEW r \in Int \X Int \X Int \X Int
  PROVE  /\ Printed(r) \in Seq(Characters)
         /\ \E g : Laid(Printed(r), r, g)
<1> DEFINE S == Characters
           d1 == Decimal(r[1])
           d2 == Decimal(r[2])
           d3 == Decimal(r[3])
           d4 == Decimal(r[4])
           t0 == Header
           t1 == t0 \o d1
           t2 == t1 \o <<Comma>> \o d2
           t3 == t2 \o <<Comma>> \o d3
           t4 == t3 \o <<Comma>> \o d4
<1>1. r[1] \in Int /\ r[2] \in Int /\ r[3] \in Int /\ r[4] \in Int
  OBVIOUS
<1>2. ASSUME NEW v \in Int PROVE Decimal(v) \in Seq(S) /\ Len(Decimal(v)) \in Nat /\ Len(Decimal(v)) > 0
  <2>1. Decimal(v) \in Seq(DigitChars \cup {"-"}) /\ Len(Decimal(v)) \in Nat /\ Len(Decimal(v)) > 0
    BY DecimalIs
  <2> QED BY <2>1, HeaderIs, SeqMonotonic
<1>3. d1 \in Seq(S) /\ d2 \in Seq(S) /\ d3 \in Seq(S) /\ d4 \in Seq(S)
  BY <1>1, <1>2
<1>4. /\ t0 \in Seq(S) /\ Len(t0) = 5 /\ t0[1] = "I" /\ t0[2] = "q" /\ t0[3] = "f" /\ t0[4] = ":" /\ t0[5] = Blank
      /\ Comma \in S
  BY HeaderIs
<1>5. /\ Len(d1) \in Nat /\ Len(d2) \in Nat /\ Len(d3) \in Nat /\ Len(d4) \in Nat
      /\ Len(d1) > 0 /\ Len(d2) > 0 /\ Len(d3) > 0 /\ Len(d4) > 0
  BY <1>1, <1>2
<1> HIDE DEF S, t0, d1, d2, d3, d4
<1>6. /\ t1 \in Seq(S) /\ Len(t1) = Len(t0) + Len(d1)
      /\ \A k \in 1 .. Len(t0) : t1[k] = t0[k]
      /\ \A k \in 1 .. Len(d1) : t1[Len(t0) + k] = d1[k]
  <2>1. t0 \in Seq(S) /\ d1 \in Seq(S)
    BY <1>3, <1>4
  <2> QED BY <2>1, JoinIs
<1> HIDE DEF t1
<1>7. t2 \in Seq(S) /\ Continues(t2, t1, d2)
  BY <1>3, <1>4, <1>6, CommaAndNumber
<1> HIDE DEF t2
<1>8. t3 \in Seq(S) /\ Continues(t3, t2, d3)
  BY <1>3, <1>4, <1>7, CommaAndNumber
<1> HIDE DEF t3
<1>9. t4 \in Seq(S) /\ Continues(t4, t3, d4)
  BY <1>3, <1>4, <1>8, CommaAndNumber
<1> HIDE DEF t4
<1>10. Printed(r) = t4
  BY DEF Printed, t0, t1, t2, t3, t4, d1, d2, d3, d4
<1> DEFINE g2 == 5 + Len(d1) + 1
           g3 == g2 + Len(d2) + 1
           g4 == g3 + Len(d3) + 1
           g5 == g4 + Len(d4) + 1
           g == <<5, g2, g3, g4, g5>>
<1>11. /\ Len(t1) = g2 - 1 /\ Len(t2) = g3 - 1 /\ Len(t3) = g4 - 1 /\ Len(t4) = g5 - 1
       /\ g2 \in Nat /\ g3 \in Nat /\ g4 \in Nat /\ g5 \in Nat
       /\ 5 < g2 /\ g2 < g3 /\ g3 < g4 /\ g4 < g5
  <2>1. Len(t1) = 5 + Len(d1)
    BY <1>4, <1>6
  <2>2. Len(t2) = Len(t1) + 1 + Len(d2)
    BY <1>7 DEF Continues
  <2>3. Len(t3) = Len(t2) + 1 + Len(d3)
    BY <1>8 DEF Continues
  <2>4. Len(t4) = Len(t3) + 1 + Len(d4)
    BY <1>9 DEF Continues
  <2> QED BY <1>5, <2>1, <2>2, <2>3, <2>4
<1> HIDE DEF g2, g3, g4, g5
<1>12. ASSUME NEW k \in 1 .. g4 - 1 PROVE t4[k] = t3[k]
  BY <1>9, <1>11 DEF Continues
<1>13. ASSUME NEW k \in 1 .. g3 - 1 PROVE t4[k] = t2[k]
  <2>1. t3[k] = t2[k]
    BY <1>8, <1>11 DEF Continues
  <2> QED BY <2>1, <1>11, <1>12, SMTT(40)
<1>14. ASSUME NEW k \in 1 .. g2 - 1 PROVE t4[k] = t1[k]
  <2>1. t2[k] = t1[k]
    BY <1>7, <1>11 DEF Continues
  <2> QED BY <2>1, <1>11, <1>13, SMTT(40)
<1>15. t4[1] = "I" /\ t4[2] = "q" /\ t4[3] = "f" /\ t4[4] = ":" /\ t4[5] = Blank
  <2>1. ASSUME NEW k \in 1 .. 5 PROVE t4[k] = t0[k]
    <3>1. k \in 1 .. g2 - 1 /\ k \in 1 .. Len(t0)
      BY <1>4, <1>11
    <3> QED BY <1>6, <1>14, <3>1
  <2> QED BY <1>4, <2>1
<1>16. ASSUME NEW k \in 1 .. Len(d1) PROVE t4[5 + k] = d1[k]
  <2>1. 5 + k \in 1 .. g2 - 1
    BY <1>5 DEF g2
  <2> QED BY <1>4, <1>6, <1>14, <2>1
<1>17. t4[g2] = Comma /\ \A k \in 1 .. Len(d2) : t4[g2 + k] = d2[k]
  <2>1. t2[g2] = Comma /\ \A k \in 1 .. Len(d2) : t2[g2 + k] = d2[k]
    <3>1. Len(t1) + 1 = g2
      BY <1>11
    <3> QED BY <1>7, <3>1 DEF Continues
  <2>2. g2 \in 1 .. g3 - 1 /\ \A k \in 1 .. Len(d2) : g2 + k \in 1 .. g3 - 1
    BY <1>5, <1>11, SMTT(40) DEF g3
  <2> QED BY <1>13, <2>1, <2>2
<1>18. t4[g3] = Comma /\ \A k \in 1 .. Len(d3) : t4[g3 + k] = d3[k]
  <2>1. t3[g3] = Comma /\ \A k \in 1 .. Len(d3) : t3[g3 + k] = d3[k]
    <3>1. Len(t2) + 1 = g3
      BY <1>11
    <3> QED BY <1>8, <3>1 DEF Continues
  <2>2. g3 \in 1 .. g4 - 1 /\ \A k \in 1 .. Len(d3) : g3 + k \in 1 .. g4 - 1
    BY <1>5, <1>11, SMTT(40) DEF g4
  <2> QED BY <1>12, <2>1, <2>2
<1>19. t4[g4] = Comma /\ \A k \in 1 .. Len(d4) : t4[g4 + k] = d4[k]
  <2>1. Len(t3) + 1 = g4
    BY <1>11
  <2> QED BY <1>9, <2>1 DEF Continues
<1>20. /\ g2 = 5 + Len(d1) + 1 /\ g3 = g2 + Len(d2) + 1
       /\ g4 = g3 + Len(d3) + 1 /\ g5 = g4 + Len(d4) + 1
  BY DEF g2, g3, g4, g5
<1>21. Laid(t4, r, g)
  <2>1. g \in [1 .. 5 -> Nat] /\ g[1] = 5 /\ g[2] = g2 /\ g[3] = g3 /\ g[4] = g4 /\ g[5] = g5
    BY <1>11
  <2> HIDE DEF g
  <2>2. Len(t4) = g[5] - 1 /\ t4[g[2]] = Comma /\ t4[g[3]] = Comma /\ t4[g[4]] = Comma
    BY <1>11, <1>17, <1>18, <1>19, <2>1
  <2>3. ASSUME NEW m \in 1 .. 4
        PROVE  /\ g[m + 1] = g[m] + Len(Decimal(r[m])) + 1
               /\ Len(Decimal(r[m])) > 0 /\ Len(Decimal(r[m])) \in Nat
               /\ \A k \in 1 .. Len(Decimal(r[m])) : t4[g[m] + k] = Decimal(r[m])[k]
    <3>1. CASE m = 1
      <4>1. Decimal(r[m]) = d1 /\ g[m] = 5 /\ g[m + 1] = g2
        BY <2>1, <3>1 DEF d1
      <4> QED BY <1>5, <1>16, <1>20, <4>1
    <3>2. CASE m = 2
      <4>1. Decimal(r[m]) = d2 /\ g[m] = g2 /\ g[m + 1] = g3
        BY <2>1, <3>2 DEF d2
      <4> QED BY <1>5, <1>17, <1>20, <4>1
    <3>3. CASE m = 3
      <4>1. Decimal(r[m]) = d3 /\ g[m] = g3 /\ g[m + 1] = g4
        BY <2>1, <3>3 DEF d3
      <4> QED BY <1>5, <1>18, <1>20, <4>1
    <3>4. CASE m = 4
      <4>1. Decimal(r[m]) = d4 /\ g[m] = g4 /\ g[m + 1] = g5
        BY <2>1, <3>4 DEF d4
      <4> QED BY <1>5, <1>19, <1>20, <4>1
    <3> QED BY <3>1, <3>2, <3>3, <3>4
  <2> QED BY <1>15, <2>1, <2>2, <2>3 DEF Laid
<1> QED BY <1>9, <1>10, <1>21 DEF S

-----------------------------------------------------------------------------
(* What the parsers read of it.                                            *)

(* What parsePayload goes through, and when it has refused the line.       *)
States == [ok : BOOLEAN, out : Seq(Int), val : Nat, neg : BOOLEAN]

(* The characters that the parsers tell apart are different ones.          *)
LEMMA CharsDiffer ==
  /\ Comma \notin DigitChars /\ Comma # "-" /\ "-" \notin DigitChars
  /\ "e" \notin DigitChars \cup {"-"} /\ Comma # "e" /\ Comma # "t" /\ Comma # "s"
  /\ Comma # "q" /\ Comma # "f" /\ Comma # ":" /\ Comma # Blank
  /\ Blank \notin DigitChars /\ Blank \notin {"-", "q", "f", ":", "e", "t", "s"}
<1>1. Comma \notin DigitChars /\ Comma # "-"
  BY Zenon DEF Comma, DigitChars
<1>2. "-" \notin DigitChars /\ "e" \notin DigitChars \cup {"-"}
  BY Zenon DEF DigitChars
<1>3. Comma # "e" /\ Comma # "t" /\ Comma # "s" /\ Comma # "q" /\ Comma # "f" /\ Comma # ":"
  BY Zenon DEF Comma
<1>4. Comma # Blank
  BY Zenon DEF Comma, Blank
<1>5. Blank \notin DigitChars
  BY Zenon DEF Blank, DigitChars
<1>6. Blank \notin {"-", "q", "f", ":", "e", "t", "s"}
  BY Zenon DEF Blank
<1> QED BY <1>1, <1>2, <1>3, <1>4, <1>5, <1>6

Refused(state) == state.ok = FALSE

(* One character for parsePayload.                                         *)
LEMMA AdvanceIs ==
  ASSUME NEW state \in States, NEW c
  PROVE  /\ Advance(state, c) \in States
         /\ Refused(state) => Advance(state, c) = state
         /\ state.ok /\ c = "-" /\ ~state.neg /\ state.val = 0
              => Advance(state, c) = [ok |-> TRUE, out |-> state.out, val |-> 0, neg |-> TRUE]
         /\ state.ok /\ c \in DigitChars
              => Advance(state, c) = [ok |-> TRUE, out |-> state.out,
                                      val |-> 10 * state.val + DigitOf(c), neg |-> state.neg]
         /\ state.ok /\ c = Comma /\ Len(state.out) < 4
              => Advance(state, c) = [ok |-> TRUE, val |-> 0, neg |-> FALSE,
                   out |-> Append(state.out, IF state.neg THEN -state.val ELSE state.val)]
         /\ c \notin DigitChars \cup {"-", Comma} => Refused(Advance(state, c))
<1>1. IsDigit(c) <=> c \in DigitChars
  BY DigitsAre
<1>2. c \in DigitChars => DigitOf(c) \in Nat
  BY DigitsAre
<1>3. /\ state.ok \in BOOLEAN /\ state.out \in Seq(Int) /\ state.val \in Nat /\ state.neg \in BOOLEAN
      /\ state = [ok |-> state.ok, out |-> state.out, val |-> state.val, neg |-> state.neg]
  BY DEF States
<1>4. CASE ~state.ok
  <2>1. Advance(state, c) = state
    BY <1>4 DEF Advance
  <2>2. Refused(state)
    BY <1>3, <1>4 DEF Refused
  <2> QED BY <1>4, <2>1, <2>2
<1>5. CASE state.ok /\ c = "-" /\ ~state.neg /\ state.val = 0
  <2>1. Advance(state, c) = [state EXCEPT !.neg = TRUE]
    BY <1>1, <1>5, CharsDiffer DEF Advance
  <2>2. Advance(state, c) = [ok |-> TRUE, out |-> state.out, val |-> 0, neg |-> TRUE]
    BY <1>3, <1>5, <2>1
  <2>3. Advance(state, c) \in States
    BY <1>3, <2>2 DEF States
  <2> QED BY <1>5, <2>2, <2>3, CharsDiffer DEF Refused
<1>6. CASE state.ok /\ c \in DigitChars
  <2>1. Advance(state, c) = [state EXCEPT !.val = 10 * @ + DigitOf(c)]
    BY <1>1, <1>6, CharsDiffer DEF Advance
  <2>2. Advance(state, c) = [ok |-> TRUE, out |-> state.out, val |-> 10 * state.val + DigitOf(c), neg |-> state.neg]
    BY <1>3, <1>6, <2>1
  <2>3. Advance(state, c) \in States
    BY <1>2, <1>3, <1>6, <2>2 DEF States
  <2> QED BY <1>6, <2>2, <2>3, CharsDiffer DEF Refused
<1>7. CASE state.ok /\ c = Comma /\ Len(state.out) < 4
  <2> DEFINE num == IF state.neg THEN -state.val ELSE state.val
             new == Append(state.out, num)
  <2>1. num \in Int /\ new \in Seq(Int)
    BY <1>3
  <2>2. Advance(state, c) = [Begin EXCEPT !.out = new]
    BY <1>1, <1>7, CharsDiffer DEF Advance
  <2> HIDE DEF new
  <2>3. Advance(state, c) = [ok |-> TRUE, val |-> 0, neg |-> FALSE, out |-> new]
    BY <2>2 DEF Begin
  <2>4. Advance(state, c) \in States
    BY <2>1, <2>3 DEF States
  <2> QED BY <1>7, <2>3, <2>4, CharsDiffer DEF new, Refused
<1>8. CASE /\ state.ok /\ c \notin DigitChars /\ ~(c = "-" /\ ~state.neg /\ state.val = 0)
           /\ ~(c = Comma /\ Len(state.out) < 4)
  <2>1. Advance(state, c) = [state EXCEPT !.ok = FALSE]
    BY <1>1, <1>8 DEF Advance
  <2>2. Advance(state, c) \in States /\ Advance(state, c).ok = FALSE
    BY <1>3, <2>1 DEF States
  <2>3. Refused(Advance(state, c)) /\ ~Refused(state)
    BY <1>8, <2>2 DEF Refused
  <2> QED BY <1>8, <2>2, <2>3
<1> QED BY <1>4, <1>5, <1>6, <1>7, <1>8

(* The states of parsePayload, one after each character.                   *)
ConsumeSteps(a, t) ==
  /\ a \in [0 .. Len(t) -> States] /\ a[0] = Begin /\ a[Len(t)] = Consume(t)
  /\ \A k \in 1 .. Len(t) : a[k] = Advance(a[k - 1], t[k])

(* There is such a state after each character.                             *)
LEMMA ConsumeStepsExist ==
  ASSUME NEW s, Len(s) \in Nat
  PROVE  \E v : ConsumeSteps(v, s)
<1> DEFINE m == Len(s)
           g == [k \in 1 .. m |-> [x \in States |-> Advance(x, s[k])]]
           Is(f) == f = [k \in 0 .. m |-> IF k = 0 THEN Begin ELSE Advance(f[k - 1], s[k])]
<1>1. m \in Nat
  OBVIOUS
<1>2. \A k \in 1 .. m : \A x \in States : g[k][x] = Advance(x, s[k]) /\ g[k][x] \in States
  BY AdvanceIs
<1>2a. Begin \in States
  BY DEF Begin, States
<1> HIDE DEF g, m
<1>3. PICK t : Steps(t, g, Begin, States, m)
  <2>1. Maps(g, States, m)
    BY <1>2 DEF Maps
  <2> QED BY <1>1, <1>2a, <2>1, StepsExist
<1>4. /\ t \in [0 .. m -> States] /\ t[0] = Begin
      /\ \A k \in 1 .. m : t[k] = Advance(t[k - 1], s[k])
  <2>1. t \in [0 .. m -> States] /\ t[0] = Begin /\ \A k \in 1 .. m : t[k] = g[k][t[k - 1]]
    BY <1>3 DEF Steps
  <2>2. \A k \in 1 .. m : t[k - 1] \in States
    BY <1>1, <2>1
  <2> QED BY <1>2, <2>1, <2>2
<1>5. Is(t)
  BY <1>1, <1>4
<1> DEFINE u == CHOOSE f : Is(f)
<1>6. Is(u)
  BY <1>5
<1>7. Consume(s) = u[m]
  BY DEF Consume, m
<1> HIDE DEF u
<1>7a. u[0] = Begin /\ \A k \in 1 .. m : u[k] = Advance(u[k - 1], s[k])
  <2>1. \A k \in 0 .. m : u[k] = IF k = 0 THEN Begin ELSE Advance(u[k - 1], s[k])
    BY <1>6
  <2>2. 0 \in 0 .. m /\ \A k \in 1 .. m : k \in 0 .. m /\ k # 0
    BY <1>1
  <2> QED BY <2>1, <2>2
<1> DEFINE T == {n \in Nat : n <= m => u[n] = t[n]}
<1>8. 0 \in T
  BY <1>4, <1>7a
<1>9. ASSUME NEW n \in Nat, n \in T PROVE n + 1 \in T
  <2> SUFFICES ASSUME n + 1 <= m PROVE u[n + 1] = t[n + 1]
    OBVIOUS
  <2>1. n + 1 \in 1 .. m /\ n + 1 \in 0 .. m /\ (n + 1) - 1 = n /\ u[n] = t[n]
    BY <1>1, <1>9
  <2>2. u[n + 1] = Advance(u[n], s[n + 1])
    BY <1>7a, <2>1
  <2>3. t[n + 1] = Advance(t[n], s[n + 1])
    BY <1>4, <2>1
  <2> QED BY <2>1, <2>2, <2>3
<1>10. Nat \subseteq T
  <2> HIDE DEF T
  <2> QED BY <1>8, <1>9, SetInduction
<1>11. u[m] = t[m]
  BY <1>1, <1>10
<1> QED BY <1>4, <1>7, <1>11 DEF ConsumeSteps, m

(* It has taken the numbers o, and the next one has not begun.             *)
Ready(o) == [ok |-> TRUE, out |-> o, val |-> 0, neg |-> FALSE]

(* A numeral and a comma add a number to what parsePayload has.            *)
LEMMA NumberTaken ==
  ASSUME NEW t, Len(t) \in Nat, NEW a, ConsumeSteps(a, t), NEW i, NEW j, Numeral(t, i, j),
         NEW o \in Seq(Int), Len(o) < 4, a[i - 1] = Ready(o), j <= Len(t), t[j] = Comma
  PROVE  a[j] = Ready(Append(o, NumeralValue(t, i, j)))
<1> DEFINE b == PastSign(t, i)
           neg == b # i
           Read(n) == SubSeq(t, b, n)
           St(n) == [ok |-> TRUE, out |-> o, val |-> Value(Read(n)), neg |-> neg]
           T == {n \in Nat : b - 1 <= n /\ n < j => a[n] = St(n) /\ Read(n) \in Seq(DigitChars)}
<1>1. i \in Nat /\ j \in Nat /\ i > 0 /\ b <= j /\ j <= Len(t) /\ \A k \in b .. j - 1 : t[k] \in DigitChars
  BY DEF Numeral
<1>2. b \in Nat /\ (b = i \/ (b = i + 1 /\ t[i] = "-" /\ i <= Len(t))) /\ b > 0
  BY <1>1 DEF PastSign
<1>2a. (b = i \/ b = i + 1) /\ (b # i => b = i + 1)
  BY <1>2
<1>3. ASSUME NEW k \in 1 .. Len(t) PROVE a[k] = Advance(a[k - 1], t[k]) /\ a[k - 1] \in States
  <2>1. k - 1 \in 0 .. Len(t)
    OBVIOUS
  <2>2. a \in [0 .. Len(t) -> States] /\ a[k] = Advance(a[k - 1], t[k])
    BY DEF ConsumeSteps
  <2> QED BY <2>1, <2>2
<1>4. a[b - 1] = [ok |-> TRUE, out |-> o, val |-> 0, neg |-> neg]
  <2>1. CASE b = i
    BY <2>1 DEF Ready
  <2>2. CASE b # i
    <3>1. b = i + 1 /\ t[i] = "-" /\ i <= Len(t) /\ i \in 1 .. Len(t) /\ b - 1 = i
      BY <1>1, <1>2, <2>2
    <3>2. a[i] = Advance(a[i - 1], "-") /\ a[i - 1] \in States
      BY <1>3, <3>1
    <3> DEFINE x == a[i - 1]
    <3>2a. x.ok /\ x.out = o /\ x.val = 0 /\ ~x.neg
      BY DEF Ready
    <3>2b. a[i] = Advance(x, "-") /\ x \in States
      BY <3>2
    <3> HIDE DEF x
    <3>3. a[i] = [ok |-> TRUE, out |-> o, val |-> 0, neg |-> TRUE]
      BY <3>2a, <3>2b, AdvanceIs
    <3> QED BY <2>2, <3>1, <3>3
  <2> QED BY <2>1, <2>2
<1> HIDE DEF b
<1>5. Read(b - 1) = <<>> /\ Value(<<>>) = 0 /\ <<>> \in Seq(DigitChars)
  <2>1. <<>> \in Seq(DigitChars)
    OBVIOUS
  <2>2. Value(<<>>) = 0
    BY <2>1, ValueIs
  <2>3. Read(b - 1) = <<>>
    BY <1>2, SubSeqEmpty
  <2> QED BY <2>1, <2>2, <2>3
<1>6. 0 \in T
  <2> SUFFICES ASSUME b - 1 <= 0 PROVE a[0] = St(0) /\ Read(0) \in Seq(DigitChars)
    OBVIOUS
  <2>1. b - 1 = 0
    BY <1>2
  <2> QED BY <1>4, <1>5, <2>1
<1>7. ASSUME NEW n \in Nat, n \in T PROVE n + 1 \in T
  <2> SUFFICES ASSUME b - 1 <= n + 1, n + 1 < j PROVE a[n + 1] = St(n + 1) /\ Read(n + 1) \in Seq(DigitChars)
    OBVIOUS
  <2>1. CASE b - 1 = n + 1
    BY <1>4, <1>5, <2>1
  <2>2. CASE b - 1 <= n
    <3>1. a[n] = St(n) /\ Read(n) \in Seq(DigitChars)
      BY <1>1, <1>7, <2>2
    <3>2. n + 1 \in b .. j - 1 /\ n + 1 \in 1 .. Len(t) /\ (n + 1) - 1 = n
      BY <1>1, <1>2, <2>2
    <3> DEFINE c == t[n + 1]
               x == Read(n)
    <3>3. c \in DigitChars
      BY <1>1, <3>2
    <3>4. Read(n + 1) = Append(x, c)
      <4> DEFINE y == Append(x, c)
      <4>1. Len(x) = n - b + 1 /\ \A k \in 1 .. Len(x) : x[k] = t[b + k - 1]
        <5>1. \A k \in b .. n : t[k] \in DigitChars
          BY <1>1
        <5>2. /\ x \in Seq(DigitChars) /\ Len(x) = IF b <= n THEN n - b + 1 ELSE 0
              /\ \A k \in 1 .. n - b + 1 : x[k] = t[b + k - 1]
          BY <1>2, <5>1, SubSeqProperties
        <5>3. (b <= n \/ n - b + 1 = 0)
          BY <1>2, <2>2
        <5> HIDE DEF x
        <5> QED BY <5>2, <5>3
      <4> HIDE DEF x, c
      <4>2. /\ y \in Seq(DigitChars) /\ Len(y) = Len(x) + 1 /\ y[Len(x) + 1] = c
            /\ \A k \in 1 .. Len(x) : y[k] = x[k]
        BY <3>1, <3>3, AppendProperties DEF x
      <4> HIDE DEF y
      <4>3. \A k \in 1 .. Len(y) : t[b + k - 1] = y[k]
        <5>1. \A k \in 1 .. Len(y) : k \in 1 .. Len(x) \/ k = Len(x) + 1
          BY <1>2, <2>2, <4>1, <4>2
        <5>2. b + (Len(x) + 1) - 1 = n + 1
          BY <1>2, <4>1
        <5> QED BY <4>1, <4>2, <5>1, <5>2 DEF c
      <4>4. b \in Int /\ n + 1 \in Int /\ Len(y) = (n + 1) - b + 1
        BY <1>2, <4>1, <4>2
      <4>5. SubSeq(t, b, n + 1) = y
        BY <4>2, <4>3, <4>4, PartIs
      <4> QED BY <4>5 DEF y
    <3>5. Value(Read(n + 1)) = 10 * Value(x) + DigitOf(c) /\ Read(n + 1) \in Seq(DigitChars)
      <4> HIDE DEF c, x
      <4>1. x \in Seq(DigitChars)
        BY <3>1 DEF x
      <4>2. Append(x, c) \in Seq(DigitChars)
        BY <3>3, <4>1, AppendProperties
      <4>3. Value(Append(x, c)) = 10 * Value(x) + DigitOf(c)
        BY <3>3, <4>1, ValueIs
      <4> QED BY <3>4, <4>2, <4>3
    <3>6. a[n + 1] = Advance(a[n], c) /\ a[n] \in States
      BY <1>3, <3>2
    <3> DEFINE st == a[n]
    <3>7. st.ok /\ st.out = o /\ st.val = Value(x) /\ st.neg = neg
      BY <3>1
    <3>7a. a[n + 1] = Advance(st, c) /\ st \in States
      BY <3>6
    <3> HIDE DEF c, x, neg, st
    <3>8. a[n + 1] = [ok |-> TRUE, out |-> o, val |-> 10 * Value(x) + DigitOf(c), neg |-> neg]
      <4>1. a[n + 1] = [ok |-> TRUE, out |-> st.out, val |-> 10 * st.val + DigitOf(c), neg |-> st.neg]
        BY <3>3, <3>7, <3>7a, AdvanceIs
      <4> QED BY <3>7, <4>1
    <3> QED BY <3>5, <3>8
  <2> QED BY <1>2, <2>1, <2>2
<1>8. Nat \subseteq T
  <2> HIDE DEF T
  <2> QED BY <1>6, <1>7, SetInduction
<1>9. a[j - 1] = St(j - 1) /\ Read(j - 1) \in Seq(DigitChars)
  <2>1. j - 1 \in Nat /\ b - 1 <= j - 1 /\ j - 1 < j
    BY <1>1, <1>2
  <2> QED BY <1>8, <2>1
<1>10. Value(Read(j - 1)) \in Nat
  BY <1>9, ValueIs
<1>11. a[j] = Advance(a[j - 1], Comma) /\ a[j - 1] \in States
  <2>1. j \in 1 .. Len(t)
    BY <1>1, <1>2
  <2> QED BY <1>3, <2>1
<1> DEFINE num == IF neg THEN -Value(Read(j - 1)) ELSE Value(Read(j - 1))
<1>12. num = NumeralValue(t, i, j)
  <2>1. CASE b = i
    BY <2>1 DEF NumeralValue, b
  <2>2. CASE b # i
    <3>1. b = i + 1
      BY <1>2a, <2>2
    <3> QED BY <2>2, <3>1 DEF NumeralValue, b
  <2> QED BY <2>1, <2>2
<1>13. a[j] = Ready(Append(o, num))
  <2> DEFINE x == Value(Read(j - 1))
  <2>1. /\ a[j - 1].ok /\ a[j - 1].out = o /\ a[j - 1].val = x /\ a[j - 1].neg = neg
    BY <1>9
  <2>2. num = IF neg THEN -x ELSE x
    OBVIOUS
  <2> HIDE DEF neg, x, num
  <2>3. a[j] = [ok |-> TRUE, val |-> 0, neg |-> FALSE, out |-> Append(o, num)]
    BY <1>11, <2>1, <2>2, AdvanceIs
  <2> QED BY <2>3 DEF Ready
<1> QED BY <1>12, <1>13

(* What is refused stays refused.                                          *)
LEMMA RefusedEver ==
  ASSUME NEW t, Len(t) \in Nat, NEW a, ConsumeSteps(a, t), NEW k \in 0 .. Len(t), Refused(a[k])
  PROVE  Refused(Consume(t))
<1>1. \A n \in 1 .. Len(t) : a[n] = Advance(a[n - 1], t[n]) /\ a[n - 1] \in States
  BY DEF ConsumeSteps
<1> DEFINE T == {n \in Nat : k <= n /\ n <= Len(t) => Refused(a[n])}
<1>2. 0 \in T
  OBVIOUS
<1>3. ASSUME NEW n \in Nat, n \in T PROVE n + 1 \in T
  <2> SUFFICES ASSUME k <= n + 1, n + 1 <= Len(t) PROVE Refused(a[n + 1])
    OBVIOUS
  <2>1. CASE k = n + 1
    BY <2>1
  <2>2. CASE k <= n
    <3>1. n + 1 \in 1 .. Len(t) /\ (n + 1) - 1 = n /\ Refused(a[n])
      BY <1>3, <2>2
    <3>2. a[n + 1] = Advance(a[n], t[n + 1]) /\ a[n] \in States
      BY <1>1, <3>1
    <3>3. a[n + 1] = a[n]
      BY <3>1, <3>2, AdvanceIs
    <3> QED BY <3>1, <3>3
  <2> QED BY <2>1, <2>2
<1>4. Nat \subseteq T
  <2> HIDE DEF T
  <2> QED BY <1>2, <1>3, SetInduction
<1>5. Refused(a[Len(t)])
  BY <1>4
<1> QED BY <1>5 DEF ConsumeSteps

(* No other character is taken.                                            *)
LEMMA RefusedStays ==
  ASSUME NEW t, Len(t) \in Nat, NEW a, ConsumeSteps(a, t), NEW k \in 1 .. Len(t),
         t[k] \notin DigitChars \cup {"-", Comma}
  PROVE  Refused(Consume(t))
<1> DEFINE x == a[k - 1]
           c == t[k]
<1>1. a[k] = Advance(x, c) /\ x \in States /\ c \notin DigitChars \cup {"-", Comma}
  BY DEF ConsumeSteps
<1> HIDE DEF x, c
<1>2. Refused(a[k]) /\ k \in 0 .. Len(t)
  BY <1>1, AdvanceIs
<1> QED BY <1>2, RefusedEver

(* strings.Index finds the first place.                                    *)
StartsAt(text, s, i) == \A k \in DOMAIN text : s[i + k - 1] = text[k]

LEMMA IndexIs ==
  ASSUME NEW text, NEW s, Len(s) \in Nat, Len(text) \in Nat
  PROVE  /\ \A i \in 1 .. Len(s) + 1 - Len(text) :
              StartsAt(text, s, i) /\ (\A j \in 1 .. i - 1 : ~StartsAt(text, s, j)) => IndexOf(text, s) = i
         /\ (\A i \in 1 .. Len(s) + 1 - Len(text) : ~StartsAt(text, s, i)) => IndexOf(text, s) = 0
<1> DEFINE at == {i \in 1 .. Len(s) + 1 - Len(text) : StartsAt(text, s, i)}
<1>1. IndexOf(text, s) = IF at = {} THEN 0 ELSE Min(at)
  BY DEF IndexOf, StartsAt
<1>2. ASSUME NEW i \in 1 .. Len(s) + 1 - Len(text), StartsAt(text, s, i),
             \A j \in 1 .. i - 1 : ~StartsAt(text, s, j)
      PROVE  IndexOf(text, s) = i
  <2>1. i \in at /\ at \in SUBSET Nat
    BY <1>2
  <2>2. \A j \in at : i <= j
    BY <1>2
  <2> HIDE DEF at
  <2>3. Min(at) = i
    BY <2>1, <2>2, MinIs
  <2> QED BY <1>1, <2>1, <2>3
<1>3. ASSUME \A i \in 1 .. Len(s) + 1 - Len(text) : ~StartsAt(text, s, i)
      PROVE  IndexOf(text, s) = 0
  <2>1. at = {}
    BY <1>3
  <2> QED BY <1>1, <2>1
<1> QED BY <1>2, <1>3

(* The first place of a text, and a text that is nowhere.                  *)
FirstAt(text, s, i) ==
  /\ i \in 1 .. Len(s) + 1 - Len(text) /\ StartsAt(text, s, i)
  /\ \A j \in 1 .. i - 1 : ~StartsAt(text, s, j)
Nowhere(text, s) == \A i \in 1 .. Len(s) + 1 - Len(text) : ~StartsAt(text, s, i)

LEMMA FoundIs ==
  ASSUME NEW text, NEW s, Len(s) \in Nat, Len(text) \in Nat
  PROVE  /\ \A i : FirstAt(text, s, i) => IndexOf(text, s) = i
         /\ Nowhere(text, s) => IndexOf(text, s) = 0
  BY IndexIs DEF FirstAt, Nowhere

(* The texts that the parsers look for.                                    *)
LEMMA TagIs ==
  /\ Len(Tag) = 2 /\ DOMAIN Tag = 1 .. 2 /\ Tag[1] = "q" /\ Tag[2] = "f"
  /\ LET text == Tag \o <<":", Blank>>
     IN  Len(text) = 4 /\ DOMAIN text = 1 .. 4 /\ text[1] = "q" /\ text[2] = "f" /\ text[3] = ":" /\ text[4] = Blank
  /\ LET text == Tag \o <<":">>
     IN  Len(text) = 3 /\ DOMAIN text = 1 .. 3 /\ text[1] = "q" /\ text[2] = "f" /\ text[3] = ":"
<1> DEFINE S == {"q", "f", ":", Blank}
           c == <<":", Blank>>
           e == <<":">>
<1>1. Tag \in Seq(S) /\ Len(Tag) = 2 /\ DOMAIN Tag = 1 .. 2 /\ Tag[1] = "q" /\ Tag[2] = "f"
  BY DEF Tag
<1>2. c \in Seq(S) /\ Len(c) = 2 /\ c[1] = ":" /\ c[2] = Blank
  OBVIOUS
<1>3. e \in Seq(S) /\ Len(e) = 1 /\ e[1] = ":"
  OBVIOUS
<1> HIDE DEF S, c, e
<1>4. /\ Tag \o c \in Seq(S) /\ Len(Tag \o c) = Len(Tag) + Len(c)
      /\ \A k \in 1 .. Len(Tag) : (Tag \o c)[k] = Tag[k]
      /\ \A k \in 1 .. Len(c) : (Tag \o c)[Len(Tag) + k] = c[k]
  <2>1. Tag \in Seq(S) /\ c \in Seq(S)
    BY <1>1, <1>2
  <2> QED BY <2>1, JoinIs
<1>5. /\ Tag \o e \in Seq(S) /\ Len(Tag \o e) = Len(Tag) + Len(e)
      /\ \A k \in 1 .. Len(Tag) : (Tag \o e)[k] = Tag[k]
      /\ \A k \in 1 .. Len(e) : (Tag \o e)[Len(Tag) + k] = e[k]
  <2>1. Tag \in Seq(S) /\ e \in Seq(S)
    BY <1>1, <1>3
  <2> QED BY <2>1, JoinIs
<1> DEFINE u == Tag \o c
           w == Tag \o e
<1>6. Len(u) = 4 /\ DOMAIN u = 1 .. 4 /\ u[1] = "q" /\ u[2] = "f" /\ u[3] = ":" /\ u[4] = Blank
  <2> HIDE DEF u
  <2>1. u \in Seq(S) /\ Len(u) = 4 /\ \A k \in 1 .. 2 : u[k] = Tag[k] /\ u[2 + k] = c[k]
    BY <1>1, <1>2, <1>4 DEF u
  <2>2. u[1] = Tag[1] /\ u[2] = Tag[2] /\ u[3] = c[1] /\ u[4] = c[2]
    BY <2>1
  <2>3. DOMAIN u = 1 .. 4
    BY <2>1
  <2> QED BY <1>1, <1>2, <2>1, <2>2, <2>3
<1>7. Len(w) = 3 /\ DOMAIN w = 1 .. 3 /\ w[1] = "q" /\ w[2] = "f" /\ w[3] = ":"
  <2> HIDE DEF w
  <2>1. w \in Seq(S) /\ Len(w) = 3 /\ (\A k \in 1 .. 2 : w[k] = Tag[k]) /\ w[3] = e[1]
    BY <1>1, <1>3, <1>5 DEF w
  <2>2. w[1] = Tag[1] /\ w[2] = Tag[2]
    BY <2>1
  <2>3. DOMAIN w = 1 .. 3
    BY <2>1
  <2> QED BY <1>1, <1>3, <2>1, <2>2, <2>3
<1> QED BY <1>1, <1>6, <1>7 DEF c, e

(* The characters of a printed line.                                       *)
LEMMA LaidIs ==
  ASSUME NEW r \in Int \X Int \X Int \X Int, NEW p, NEW g, Laid(p, r, g)
  PROVE  /\ g[1] = 5 /\ g[2] \in Nat /\ g[3] \in Nat /\ g[4] \in Nat /\ g[5] \in Nat /\ Len(p) = g[5] - 1
         /\ Len(p) \in Nat
         /\ 5 < g[2] - 1 /\ g[2] < g[3] - 1 /\ g[3] < g[4] - 1 /\ g[4] < g[5] - 1
         /\ \A k \in 6 .. Len(p) : p[k] \in DigitChars \cup {"-", Comma}
<1> DEFINE D == DigitChars \cup {"-"}
           l1 == Len(Decimal(r[1]))
           l2 == Len(Decimal(r[2]))
           l3 == Len(Decimal(r[3]))
           l4 == Len(Decimal(r[4]))
           g2 == g[2]
           g3 == g[3]
           g4 == g[4]
           g5 == g[5]
<1>1. g[1] = 5 /\ g2 \in Nat /\ g3 \in Nat /\ g4 \in Nat /\ g5 \in Nat /\ Len(p) = g5 - 1
  BY DEF Laid
<1>2. /\ l1 \in Nat /\ l2 \in Nat /\ l3 \in Nat /\ l4 \in Nat
      /\ l1 > 0 /\ l2 > 0 /\ l3 > 0 /\ l4 > 0
      /\ g2 = 5 + l1 + 1 /\ g3 = g2 + l2 + 1 /\ g4 = g3 + l3 + 1 /\ g5 = g4 + l4 + 1
  BY DEF Laid
<1>4. ASSUME NEW m \in 1 .. 4, NEW k \in 1 .. Len(Decimal(r[m])) PROVE p[g[m] + k] \in D
  <2>1. p[g[m] + k] = Decimal(r[m])[k]
    BY DEF Laid
  <2>2. r[m] \in Int
    OBVIOUS
  <2>3. Decimal(r[m]) \in Seq(D)
    BY <2>2, DecimalIs
  <2> HIDE DEF D
  <2> QED BY <2>1, <2>3, ElementOfSeq
<1>5. p[g2] = Comma /\ p[g3] = Comma /\ p[g4] = Comma
  BY DEF Laid
<1> HIDE DEF D
<1>4a. ASSUME NEW k \in 1 .. l1 PROVE p[5 + k] \in D
  <2>1. 1 \in 1 .. 4
    OBVIOUS
  <2>2. p[g[1] + k] \in D
    BY <1>4, <2>1
  <2> QED BY <1>1, <2>2
<1>4b. ASSUME NEW k \in 1 .. l2 PROVE p[g2 + k] \in D
  BY <1>4
<1>4c. ASSUME NEW k \in 1 .. l3 PROVE p[g3 + k] \in D
  BY <1>4
<1>4d. ASSUME NEW k \in 1 .. l4 PROVE p[g4 + k] \in D
  BY <1>4
<1> HIDE DEF l1, l2, l3, l4, g2, g3, g4, g5
<1>3. Len(p) \in Nat /\ 5 < g2 - 1 /\ g2 < g3 - 1 /\ g3 < g4 - 1 /\ g4 < g5 - 1
  BY <1>1, <1>2
<1>6. ASSUME NEW k \in 6 .. Len(p) PROVE p[k] \in D \cup {Comma}
  <2>0. k \in Nat /\ k >= 6 /\ k <= g5 - 1
    BY <1>1
  <2>1. CASE k < g2
    <3>1. k - 5 \in 1 .. l1 /\ 5 + (k - 5) = k
      BY <1>1, <1>2, <2>0, <2>1
    <3>2. p[5 + (k - 5)] \in D
      BY <1>4a, <3>1
    <3> QED BY <3>1, <3>2
  <2>2. CASE g2 < k /\ k < g3
    <3>1. k - g2 \in 1 .. l2 /\ g2 + (k - g2) = k
      BY <1>1, <1>2, <2>0, <2>2
    <3>2. p[g2 + (k - g2)] \in D
      BY <1>4b, <3>1
    <3> QED BY <3>1, <3>2
  <2>3. CASE g3 < k /\ k < g4
    <3>1. k - g3 \in 1 .. l3 /\ g3 + (k - g3) = k
      BY <1>1, <1>2, <2>0, <2>3
    <3>2. p[g3 + (k - g3)] \in D
      BY <1>4c, <3>1
    <3> QED BY <3>1, <3>2
  <2>4. CASE g4 < k
    <3>1. k - g4 \in 1 .. l4 /\ g4 + (k - g4) = k
      BY <1>1, <1>2, <2>0, <2>4
    <3>2. p[g4 + (k - g4)] \in D
      BY <1>4d, <3>1
    <3> QED BY <3>1, <3>2
  <2>5. CASE k = g2 \/ k = g3 \/ k = g4
    BY <1>5, <2>5
  <2>6. \/ k < g2 \/ (g2 < k /\ k < g3) \/ (g3 < k /\ k < g4) \/ g4 < k
        \/ k = g2 \/ k = g3 \/ k = g4
    BY <1>1, <2>0
  <2> QED BY <2>1, <2>2, <2>3, <2>4, <2>5, <2>6
<1> QED BY <1>1, <1>3, <1>6 DEF D, g2, g3, g4, g5

(* A part of a text that goes on to N in the printed line, h further on.   *)
GoesOn(x, p, h, N) ==
  /\ h \in Int /\ h >= -5 /\ N \in 5 .. Len(p) /\ h + N <= Len(x)
  /\ \A k \in 6 .. N : x[h + k] = p[k]
  /\ h + N = Len(x) \/ x[h + N + 1] \notin DigitChars \cup {"-"}

(* Number m of the line is read up to where the text goes on.              *)
NumberRead(x, r, m, i, j, k) ==
  /\ Numeral(x, i, j) /\ (j > Len(x) \/ x[j] \notin DigitChars)
  /\ k = Len(Decimal(r[m])) => NumeralValue(x, i, j) = r[m] /\ j > PastSign(x, i)
  /\ r[m] >= 0 => /\ PastSign(x, i) = i
                  /\ NumeralValue(x, i, j) = Value(SubSeq(Decimal(r[m]), 1, k))

(* The number is whole if the text goes on to its end.                     *)
LEMMA NumbersRead ==
  ASSUME NEW r \in Int \X Int \X Int \X Int, NEW p, NEW g, Laid(p, r, g),
         NEW x, Len(x) \in Nat, NEW h, NEW N, GoesOn(x, p, h, N), NEW m \in 1 .. 4, g[m] <= N
  PROVE  /\ N >= g[m + 1] => /\ NumberRead(x, r, m, h + g[m] + 1, h + g[m + 1], Len(Decimal(r[m])))
                             /\ x[h + g[m + 1]] = Comma /\ h + g[m + 1] <= Len(x)
         /\ N < g[m + 1] => NumberRead(x, r, m, h + g[m] + 1, h + N + 1, N - g[m])
<1> DEFINE v == r[m]
           d == Decimal(v)
           a == g[m]
           z == g[m + 1]
           b == h + a
<1>2. /\ a \in Nat /\ z \in Nat /\ a >= 5 /\ z <= Len(p) + 1
      /\ m # 4 => p[z] = Comma
      /\ m = 4 => z = Len(p) + 1
  <2> DEFINE g2 == g[2]
             g3 == g[3]
             g4 == g[4]
             g5 == g[5]
  <2>1. /\ g[1] = 5 /\ g2 \in Nat /\ g3 \in Nat /\ g4 \in Nat /\ g5 \in Nat /\ Len(p) = g5 - 1
        /\ 5 < g2 - 1 /\ g2 < g3 - 1 /\ g3 < g4 - 1 /\ g4 < g5 - 1 /\ Len(p) \in Nat
    BY LaidIs
  <2>2. p[g2] = Comma /\ p[g3] = Comma /\ p[g4] = Comma
    BY DEF Laid
  <2>3. \/ m = 1 /\ a = 5 /\ z = g2
        \/ m = 2 /\ a = g2 /\ z = g3
        \/ m = 3 /\ a = g3 /\ z = g4
        \/ m = 4 /\ a = g4 /\ z = g5
    <3>1. m = 1 \/ m = 2 \/ m = 3 \/ m = 4
      OBVIOUS
    <3> QED BY <2>1, <3>1
  <2> HIDE DEF a, z, g2, g3, g4, g5
  <2>4. a \in Nat /\ z \in Nat /\ a >= 5 /\ z <= Len(p) + 1
    <3>1. /\ 5 <= g2 /\ 5 <= g3 /\ 5 <= g4 /\ Len(p) + 1 = g5
          /\ g2 <= g5 /\ g3 <= g5 /\ g4 <= g5 /\ g5 <= g5 /\ 5 \in Nat /\ 5 <= 5
      BY <2>1
    <3>2. a >= 5 /\ z <= g5
      BY <2>3, <3>1
    <3>3. a \in Nat /\ z \in Nat
      BY <2>1, <2>3, SMTT(40)
    <3> QED BY <3>1, <3>2, <3>3
  <2>5. m # 4 => p[z] = Comma
    BY <2>2, <2>3
  <2>6. m = 4 => z = Len(p) + 1
    BY <2>1, <2>3
  <2> QED BY <2>4, <2>5, <2>6
<1>2a. /\ z = a + Len(d) + 1
       /\ Len(d) \in Nat /\ Len(d) > 0
       /\ \A k \in 1 .. Len(d) : p[a + k] = d[k]
  BY DEF Laid
<1>3. v \in Int /\ d = Decimal(v)
  OBVIOUS
<1>4. /\ h \in Int /\ h >= -5 /\ N \in Nat /\ N <= Len(p) /\ Len(p) \in Nat /\ h + N <= Len(x)
      /\ \A k \in 6 .. N : x[h + k] = p[k]
      /\ h + N = Len(x) \/ x[h + N + 1] \notin DigitChars \cup {"-"}
  BY LaidIs DEF GoesOn
<1>4a. a <= N
  OBVIOUS
<1> HIDE DEF a, z, d, v
<1>5. b \in Nat
  BY <1>2, <1>4
<1>6. ASSUME N >= z
      PROVE  /\ NumberRead(x, r, m, h + a + 1, h + z, Len(d))
             /\ x[h + z] = Comma /\ h + z <= Len(x)
  <2> DEFINE k == Len(d)
  <2>1. m # 4 /\ z \in 6 .. N
    <3>1. m # 4
      BY <1>2, <1>4, <1>6
    <3>2. z \in 6 .. N
      BY <1>2, <1>2a, <1>4, <1>6
    <3> QED BY <3>1, <3>2
  <2>2. p[z] = Comma
    BY <1>2, <2>1
  <2>3. x[h + z] = Comma /\ h + z <= Len(x)
    BY <1>2, <1>4, <1>6, <2>1, <2>2, SMTT(40)
  <2>4. k \in 0 .. Len(d) /\ b + k <= Len(x) /\ b + k + 1 = h + z /\ b + 1 = h + a + 1
    BY <1>2, <1>2a, <1>4, <1>6
  <2>5. \A j \in 1 .. k : x[b + j] = d[j]
    <3>1. ASSUME NEW j \in 1 .. k PROVE a + j \in 6 .. N /\ h + (a + j) = b + j
      BY <1>2, <1>2a, <1>4, <1>6
    <3> HIDE DEF b
    <3> QED BY <1>2a, <1>4, <3>1
  <2>6. x[b + k + 1] # "-" /\ x[b + k + 1] \notin DigitChars
    BY <2>3, <2>4, CharsDiffer
  <2> HIDE DEF k, b
  <2>7. /\ Numeral(x, b + 1, b + k + 1)
        /\ k = Len(d) => NumeralValue(x, b + 1, b + k + 1) = v /\ b + k + 1 > PastSign(x, b + 1)
        /\ v >= 0 => /\ PastSign(x, b + 1) = b + 1
                     /\ NumeralValue(x, b + 1, b + k + 1) = Value(SubSeq(d, 1, k))
    <3>1. Shows(x, b, k, v)
      BY <1>3, <1>5, <2>4, <2>5, <2>6 DEF Shows
    <3>2. v \in Int
      BY <1>3
    <3> HIDE DEF k
    <3>3. Numeral(x, b + 1, b + k + 1)
      BY <3>1, <3>2, DecimalNumeral
    <3>4. k = Len(Decimal(v)) => NumeralValue(x, b + 1, b + k + 1) = v /\ b + k + 1 > PastSign(x, b + 1)
      BY <3>1, <3>2, DecimalNumeral
    <3>5. v >= 0 => /\ PastSign(x, b + 1) = b + 1
                    /\ NumeralValue(x, b + 1, b + k + 1) = Value(SubSeq(Decimal(v), 1, k))
      BY <3>1, <3>2, DecimalNumeral
    <3> QED BY <1>3, <3>3, <3>4, <3>5
  <2> DEFINE i == b + 1
             j == b + k + 1
  <2>8. /\ Numeral(x, i, j) /\ NumeralValue(x, i, j) = v /\ j > PastSign(x, i)
        /\ (j > Len(x) \/ x[j] \notin DigitChars)
    BY <2>6, <2>7 DEF k
  <2>9. NumberRead(x, r, m, i, j, Len(d))
    <3>1. v >= 0 => /\ PastSign(x, i) = i
                    /\ NumeralValue(x, i, j) = Value(SubSeq(Decimal(r[m]), 1, Len(d)))
      BY <2>7 DEF v, d, k
    <3> HIDE DEF i, j
    <3> QED BY <2>8, <3>1 DEF NumberRead, v
  <2> QED BY <2>3, <2>4, <2>9
<1>7. ASSUME N < z
      PROVE  NumberRead(x, r, m, h + a + 1, h + N + 1, N - a)
  <2> DEFINE k == N - a
  <2>4. /\ k \in 0 .. Len(d) /\ b + k <= Len(x) /\ b + k + 1 = h + N + 1 /\ b + 1 = h + a + 1
        /\ b + k = h + N
    BY <1>2, <1>2a, <1>4, <1>4a, <1>7, SMTT(40)
  <2>5. \A j \in 1 .. k : x[b + j] = d[j]
    <3>1. ASSUME NEW j \in 1 .. k PROVE a + j \in 6 .. N /\ h + (a + j) = b + j /\ j \in 1 .. Len(d)
      BY <1>2, <1>2a, <1>4, <1>7
    <3> HIDE DEF b, k
    <3> QED BY <1>2a, <1>4, <3>1
  <2> HIDE DEF k, b
  <2>6. b + k = Len(x) \/ (x[b + k + 1] # "-" /\ x[b + k + 1] \notin DigitChars)
    BY <1>4, <2>4
  <2>6a. k \in Nat
    BY <1>2a, <2>4
  <2>7. b + k + 1 > Len(x) \/ x[b + k + 1] \notin DigitChars
    BY <1>5, <2>6, <2>6a
  <2>7a. b + k = Len(x) \/ x[b + k + 1] # "-"
    BY <2>6
  <2>8. /\ Numeral(x, b + 1, b + k + 1)
        /\ k = Len(d) => NumeralValue(x, b + 1, b + k + 1) = v /\ b + k + 1 > PastSign(x, b + 1)
        /\ v >= 0 => /\ PastSign(x, b + 1) = b + 1
                     /\ NumeralValue(x, b + 1, b + k + 1) = Value(SubSeq(d, 1, k))
    <3>1. Shows(x, b, k, v)
      BY <1>3, <1>5, <2>4, <2>5, <2>7a DEF Shows
    <3>2. v \in Int
      BY <1>3
    <3> HIDE DEF k
    <3>3. Numeral(x, b + 1, b + k + 1)
      BY <3>1, <3>2, DecimalNumeral
    <3>4. k = Len(Decimal(v)) => NumeralValue(x, b + 1, b + k + 1) = v /\ b + k + 1 > PastSign(x, b + 1)
      BY <3>1, <3>2, DecimalNumeral
    <3>5. v >= 0 => /\ PastSign(x, b + 1) = b + 1
                    /\ NumeralValue(x, b + 1, b + k + 1) = Value(SubSeq(Decimal(v), 1, k))
      BY <3>1, <3>2, DecimalNumeral
    <3> QED BY <1>3, <3>3, <3>4, <3>5
  <2> DEFINE i == b + 1
             j == b + k + 1
  <2>9. /\ Numeral(x, i, j) /\ (j > Len(x) \/ x[j] \notin DigitChars)
        /\ k = Len(Decimal(r[m])) => NumeralValue(x, i, j) = r[m] /\ j > PastSign(x, i)
        /\ r[m] >= 0 => /\ PastSign(x, i) = i
                        /\ NumeralValue(x, i, j) = Value(SubSeq(Decimal(r[m]), 1, k))
    BY <2>7, <2>8 DEF v, d
  <2>10. NumberRead(x, r, m, i, j, k)
    <3> HIDE DEF i, j
    <3> QED BY <2>9 DEF NumberRead
  <2> QED BY <2>4, <2>10 DEF k
<1> QED BY <1>6, <1>7 DEF a, z, d, v

(* parseInt reads it.                                                      *)
LEMMA ParsedIs ==
  ASSUME NEW x, Len(x) \in Nat, NEW r, NEW m, NEW i, NEW j, NEW k,
         NumberRead(x, r, m, i, j, k)
  PROVE  /\ parseInt(x, i).next = j
         /\ k = Len(Decimal(r[m])) => parseInt(x, i).ok /\ parseInt(x, i).val = r[m]
         /\ r[m] >= 0 => parseInt(x, i).val = Value(SubSeq(Decimal(r[m]), 1, k))
<1>1. /\ Numeral(x, i, j) /\ (j > Len(x) \/ x[j] \notin DigitChars)
      /\ k = Len(Decimal(r[m])) => NumeralValue(x, i, j) = r[m] /\ j > PastSign(x, i)
      /\ r[m] >= 0 => NumeralValue(x, i, j) = Value(SubSeq(Decimal(r[m]), 1, k))
  BY DEF NumberRead
<1>2. /\ (parseInt(x, i).ok <=> j > PastSign(x, i)) /\ parseInt(x, i).next = j
      /\ parseInt(x, i).val = NumeralValue(x, i, j)
  <2>1. Numeral(x, i, j) /\ (j > Len(x) \/ x[j] \notin DigitChars)
    BY <1>1
  <2> QED BY <2>1, ParseIntIs
<1> QED BY <1>1, <1>2

(* A result that is right up to the last number's last digits.             *)
Near(out, r) == out = <<>> \/ \E w \in LeadingDigits(r[4]) : out = <<r[1], r[2], r[3], w>>

(* A number's first digits have the value of leading digits.               *)
LEMMA LeadingIs ==
  ASSUME NEW n \in Nat, NEW k \in 0 .. Len(Decimal(n))
  PROVE  Value(SubSeq(Decimal(n), 1, k)) \in LeadingDigits(n)
<1>1. Decimal(n) = Natural(n)
  BY DEF Decimal
<1> QED BY <1>1 DEF LeadingDigits

(* parseFast's four numbers, of a line that goes on to N.                  *)
LEMMA FourKept ==
  ASSUME NEW r \in Int \X Nat \X Nat \X Nat, NEW p, NEW g, Laid(p, r, g),
         NEW x, Len(x) \in Nat, NEW h, NEW N, GoesOn(x, p, h, N),
         h + N = Len(x) \/ x[h + N + 1] # Comma
  PROVE  /\ Near(FourNumbers(x, h + 6), r)
         /\ N = Len(p) => FourNumbers(x, h + 6) = r
<1> DEFINE g2 == g[2]
           g3 == g[3]
           g4 == g[4]
           g5 == g[5]
<1>0. r \in Int \X Int \X Int \X Int /\ r[4] \in Nat /\ r = <<r[1], r[2], r[3], r[4]>>
  OBVIOUS
<1>1. /\ g[1] = 5 /\ g2 \in Nat /\ g3 \in Nat /\ g4 \in Nat /\ g5 \in Nat /\ Len(p) = g5 - 1
      /\ 5 < g2 - 1 /\ g2 < g3 - 1 /\ g3 < g4 - 1 /\ g4 < g5 - 1 /\ Len(p) \in Nat
  BY <1>0, LaidIs
<1>2. h \in Int /\ h >= -5 /\ N \in Nat /\ N >= 5 /\ N <= Len(p) /\ h + N <= Len(x)
  BY <1>1 DEF GoesOn
<1> DEFINE i1 == h + 6
           end == h + N + 1
           Comma1(j) == j <= Len(x) /\ x[j] = Comma
<1>3. ~Comma1(end)
  BY <1>2
<1>4a. r \in Int \X Int \X Int \X Int
  BY <1>0
<1>4. ASSUME NEW m \in 1 .. 4, g[m] <= N
      PROVE  /\ N >= g[m + 1] => /\ NumberRead(x, r, m, h + g[m] + 1, h + g[m + 1], Len(Decimal(r[m])))
                             /\ x[h + g[m + 1]] = Comma /\ h + g[m + 1] <= Len(x)
             /\ N < g[m + 1] => NumberRead(x, r, m, h + g[m] + 1, h + N + 1, N - g[m])
  BY <1>4a, <1>4, NumbersRead, SMTT(40)
<1>5. /\ N >= g2 => NumberRead(x, r, 1, h + 6, h + g2, Len(Decimal(r[1]))) /\ Comma1(h + g2)
      /\ N < g2 => NumberRead(x, r, 1, h + 6, end, N - 5)
  <2>1. g[1] = 5 /\ g[1] <= N /\ 1 \in 1 .. 4 /\ g[1 + 1] = g2 /\ h + g[1] + 1 = h + 6
    BY <1>1, <1>2
  <2> QED BY <1>4, <2>1
<1>6. /\ N >= g3 => NumberRead(x, r, 2, h + g2 + 1, h + g3, Len(Decimal(r[2]))) /\ Comma1(h + g3)
      /\ N < g3 /\ N >= g2 => NumberRead(x, r, 2, h + g2 + 1, end, N - g2)
  <2>0. N >= g3 => g2 <= N
    <3> HIDE DEF g2, g3, g4, g5
    <3> QED BY <1>1, <1>2
  <2>1. 2 \in 1 .. 4 /\ g[2 + 1] = g3 /\ g[2] = g2 /\ (N >= g3 => g2 <= N)
    BY <2>0
  <2> QED BY <1>1, <1>2, <1>4, <2>1
<1>7. /\ N >= g4 => NumberRead(x, r, 3, h + g3 + 1, h + g4, Len(Decimal(r[3]))) /\ Comma1(h + g4)
      /\ N < g4 /\ N >= g3 => NumberRead(x, r, 3, h + g3 + 1, end, N - g3)
  <2>0. N >= g4 => g3 <= N
    <3> HIDE DEF g2, g3, g4, g5
    <3> QED BY <1>1, <1>2
  <2>1. 3 \in 1 .. 4 /\ g[3 + 1] = g4 /\ g[3] = g3 /\ (N >= g4 => g3 <= N)
    BY <2>0
  <2> QED BY <1>1, <1>2, <1>4, <2>1
<1>8. N >= g4 => NumberRead(x, r, 4, h + g4 + 1, end, N - g4)
  <2>1. 4 \in 1 .. 4 /\ g[4 + 1] = g5 /\ g[4] = g4 /\ N < g5
    BY <1>1, <1>2
  <2> QED BY <1>1, <1>2, <1>4, <2>1
<1> HIDE DEF g2, g3, g4, g5, end, Comma1
<1> DEFINE f1 == parseInt(x, h + 6)
           f2 == parseInt(x, f1.next + 1)
           f3 == parseInt(x, f2.next + 1)
           f4 == parseInt(x, f3.next + 1)
           out == FourNumbers(x, h + 6)
<1>9. out = IF /\ f1.ok /\ Comma1(f1.next) /\ f2.ok /\ Comma1(f2.next)
               /\ f3.ok /\ Comma1(f3.next) /\ f4.ok
            THEN <<f1.val, f2.val, f3.val, f4.val>> ELSE <<>>
  BY DEF FourNumbers, Comma1
<1>10. N >= g2 => f1.next = h + g2 /\ f1.ok /\ f1.val = r[1]
  BY <1>5, ParsedIs
<1>11. N < g2 => f1.next = end
  BY <1>5, ParsedIs
<1> HIDE DEF f1
<1>12. N >= g3 => f2.next = h + g3 /\ f2.ok /\ f2.val = r[2]
  <2> SUFFICES ASSUME N >= g3 PROVE f2.next = h + g3 /\ f2.ok /\ f2.val = r[2]
    OBVIOUS
  <2>1. f1.next = h + g2
    BY <1>1, <1>2, <1>10
  <2>2. NumberRead(x, r, 2, f1.next + 1, h + g3, Len(Decimal(r[2])))
    BY <1>6, <2>1
  <2> QED BY <2>2, ParsedIs
<1>13. N < g3 /\ N >= g2 => f2.next = end
  <2> SUFFICES ASSUME N < g3, N >= g2 PROVE f2.next = end
    OBVIOUS
  <2>1. NumberRead(x, r, 2, f1.next + 1, end, N - g2)
    BY <1>6, <1>10
  <2> QED BY <2>1, ParsedIs
<1> HIDE DEF f2
<1>14. N >= g4 => f3.next = h + g4 /\ f3.ok /\ f3.val = r[3]
  <2> SUFFICES ASSUME N >= g4 PROVE f3.next = h + g4 /\ f3.ok /\ f3.val = r[3]
    OBVIOUS
  <2>1. f2.next = h + g3
    BY <1>1, <1>2, <1>12
  <2>2. NumberRead(x, r, 3, f2.next + 1, h + g4, Len(Decimal(r[3])))
    BY <1>7, <2>1
  <2> QED BY <2>2, ParsedIs
<1>15. N < g4 /\ N >= g3 => f3.next = end
  <2> SUFFICES ASSUME N < g4, N >= g3 PROVE f3.next = end
    OBVIOUS
  <2>1. NumberRead(x, r, 3, f2.next + 1, end, N - g3)
    BY <1>7, <1>12
  <2> QED BY <2>1, ParsedIs
<1> HIDE DEF f3
<1>16. N >= g4 => f4.val = Value(SubSeq(Decimal(r[4]), 1, N - g4))
  <2> SUFFICES ASSUME N >= g4 PROVE f4.val = Value(SubSeq(Decimal(r[4]), 1, N - g4))
    OBVIOUS
  <2>1. NumberRead(x, r, 4, f3.next + 1, end, N - g4)
    BY <1>8, <1>14
  <2>2. r[4] >= 0
    BY <1>0
  <2> QED BY <2>1, <2>2, ParsedIs
<1>17. N >= g4 /\ N + 1 = g5 => f4.ok /\ f4.val = r[4]
  <2> SUFFICES ASSUME N >= g4, N + 1 = g5 PROVE f4.ok /\ f4.val = r[4]
    OBVIOUS
  <2>1. NumberRead(x, r, 4, f3.next + 1, end, N - g4)
    BY <1>8, <1>14
  <2>2. N - g4 = Len(Decimal(r[4]))
    <3>1. g5 = g4 + Len(Decimal(r[4])) + 1 /\ Len(Decimal(r[4])) \in Nat
      BY DEF Laid, g4, g5
    <3>2. g4 \in Int /\ N \in Int /\ N + 1 = g5
      BY <1>1, <1>2
    <3> DEFINE l == Len(Decimal(r[4]))
    <3>3. g5 = g4 + l + 1 /\ l \in Nat
      BY <3>1
    <3> HIDE DEF l
    <3>4. N - g4 = l
      BY <3>2, <3>3
    <3> QED BY <3>4 DEF l
  <2> QED BY <2>1, <2>2, ParsedIs
<1> HIDE DEF f4, out
<1>18. ASSUME N < g4 PROVE out = <<>> /\ N # Len(p)
  <2>1. ~Comma1(f1.next) \/ ~Comma1(f2.next) \/ ~Comma1(f3.next)
    <3>1. N < g2 \/ (N < g3 /\ N >= g2) \/ (N < g4 /\ N >= g3)
      BY <1>1, <1>2, <1>18
    <3> QED BY <1>3, <1>11, <1>13, <1>15, <3>1
  <2>2. N # Len(p)
    BY <1>1, <1>2, <1>18
  <2> QED BY <1>9, <2>1, <2>2, Zenon
<1>19. ASSUME N >= g4 PROVE Near(out, r) /\ (N = Len(p) => out = r)
  <2>1. N >= g2 /\ N >= g3
    BY <1>1, <1>2, <1>19
  <2>2. /\ f1.ok /\ Comma1(f1.next) /\ f2.ok /\ Comma1(f2.next) /\ f3.ok /\ Comma1(f3.next)
        /\ f1.val = r[1] /\ f2.val = r[2] /\ f3.val = r[3]
    BY <1>5, <1>6, <1>7, <1>10, <1>12, <1>14, <1>19, <2>1
  <2>3. out = IF f4.ok THEN <<r[1], r[2], r[3], f4.val>> ELSE <<>>
    BY <1>9, <2>2, Zenon
  <2>4. N - g4 \in 0 .. Len(Decimal(r[4]))
    <3>1. g5 = g4 + Len(Decimal(r[4])) + 1 /\ Len(Decimal(r[4])) \in Nat
      BY DEF Laid, g4, g5
    <3> QED BY <1>1, <1>2, <1>19, <3>1
  <2>5. f4.val \in LeadingDigits(r[4])
    BY <1>0, <1>16, <1>19, <2>4, LeadingIs
  <2>6. Near(out, r)
    BY <2>3, <2>5 DEF Near
  <2>7. ASSUME N = Len(p) PROVE out = r
    <3>1. N + 1 = g5
      BY <1>1, <2>7
    <3>2. f4.ok /\ f4.val = r[4]
      BY <1>17, <1>19, <3>1
    <3> QED BY <1>0, <2>3, <3>2, Zenon
  <2> QED BY <2>6, <2>7
<1>20. N < g4 \/ N >= g4
  BY <1>1, <1>2
<1> QED BY <1>18, <1>19, <1>20 DEF Near, out

(* A number that is read whole, and one that the end of the text cuts.     *)
LEMMA NumeralValueIs ==
  ASSUME NEW t, NEW i, NEW j, Numeral(t, i, j)
  PROVE  NumeralValue(t, i, j) \in Int
<1> DEFINE b == PastSign(t, i)
<1>1. i \in Nat /\ j \in Nat /\ \A k \in b .. j - 1 : t[k] \in DigitChars
  BY DEF Numeral
<1>2. b = i \/ b = i + 1
  BY DEF PastSign
<1>3. b \in Int /\ j - 1 \in Int
  BY <1>1, <1>2
<1> HIDE DEF b
<1>4. SubSeq(t, b, j - 1) \in Seq(DigitChars)
  BY <1>1, <1>3, SubSeqProperties
<1>5. Value(SubSeq(t, b, j - 1)) \in Nat
  BY <1>4, ValueIs
<1> DEFINE v == Value(SubSeq(t, b, j - 1))
<1>6. NumeralValue(t, i, j) = v \/ NumeralValue(t, i, j) = -v
  <2>1. CASE b = i
    BY <2>1 DEF NumeralValue, b
  <2>2. CASE b = i + 1
    BY <2>2 DEF NumeralValue, b
  <2> QED BY <1>2, <2>1, <2>2
<1> HIDE DEF v
<1>7. v \in Int /\ -v \in Int
  BY <1>5 DEF v
<1> QED BY <1>6, <1>7

(* parsePayload's result, of which it takes four numbers or none.          *)
PayloadTakes(t, p, r, N) ==
  \E o \in Seq(Int) : /\ Consume(t) = Ready(o)
                      /\ Len(o) = 4 => Near(o, r)
                      /\ N = Len(p) => o = r

(* Fewer than four numbers are none.                                       *)
LEMMA FewTaken ==
  ASSUME NEW t, NEW p, NEW r, NEW N, N # Len(p),
         NEW o \in Seq(Int), Len(o) < 3, NEW w \in Int, Consume(t) = Ready(Append(o, w))
  PROVE  PayloadTakes(t, p, r, N)
<1> DEFINE q == Append(o, w)
<1>1. q \in Seq(Int) /\ Len(q) = Len(o) + 1 /\ Len(o) \in Nat
  BY AppendProperties
<1>2. Consume(t) = Ready(q)
  OBVIOUS
<1>3. Len(q) # 4
  BY <1>1
<1> HIDE DEF q
<1> QED BY <1>1, <1>2, <1>3 DEF PayloadTakes

(* Texts of up to four numbers, one number longer than the one before.     *)
LEMMA AppendIs ==
  ASSUME NEW s \in Seq(Int), NEW w \in Int, NEW u \in Seq(Int), Len(u) = Len(s) + 1,
         \A k \in 1 .. Len(s) : u[k] = s[k], u[Len(s) + 1] = w
  PROVE  Append(s, w) = u
<1> DEFINE v == Append(s, w)
<1>1. v \in Seq(Int) /\ Len(v) = Len(s) + 1 /\ v[Len(s) + 1] = w /\ \A k \in 1 .. Len(s) : v[k] = s[k]
  BY AppendProperties
<1> HIDE DEF v
<1>2. Len(s) \in Nat
  OBVIOUS
<1>3. \A k \in 1 .. Len(v) : v[k] = u[k]
  <2>1. \A k \in 1 .. Len(v) : k \in 1 .. Len(s) \/ k = Len(s) + 1
    BY <1>1, <1>2
  <2> QED BY <1>1, <2>1
<1>4. v = u
  BY <1>1, <1>3, SeqEqual
<1> QED BY <1>4 DEF v

LEMMA PrefixesAre ==
  ASSUME NEW a \in Int, NEW b \in Int, NEW c \in Int
  PROVE  /\ <<>> \in Seq(Int) /\ Len(<<>>) = 0
         /\ <<a>> \in Seq(Int) /\ Len(<<a>>) = 1
         /\ <<a, b>> \in Seq(Int) /\ Len(<<a, b>>) = 2
         /\ <<a, b, c>> \in Seq(Int) /\ Len(<<a, b, c>>) = 3
         /\ Append(<<>>, a) = <<a>> /\ Append(<<a>>, b) = <<a, b>>
         /\ Append(<<a, b>>, c) = <<a, b, c>>
         /\ \A w \in Int : Append(<<a, b, c>>, w) = <<a, b, c, w>> /\ <<a, b, c, w>> \in Seq(Int)
<1>1. <<>> \in Seq(Int) /\ Len(<<>>) = 0
  OBVIOUS
<1>2. <<a>> \in Seq(Int) /\ Len(<<a>>) = 1
  OBVIOUS
<1>3. <<a, b>> \in Seq(Int) /\ Len(<<a, b>>) = 2
  OBVIOUS
<1>4. <<a, b, c>> \in Seq(Int) /\ Len(<<a, b, c>>) = 3
  OBVIOUS
<1>5. Append(<<>>, a) = <<a>>
  OBVIOUS
<1>6. Append(<<a>>, b) = <<a, b>>
  <2> DEFINE s == <<a>>
             u == <<a, b>>
             v == Append(s, b)
  <2>1. s \in Seq(Int) /\ Len(s) = 1 /\ s[1] = a
    OBVIOUS
  <2>2. u \in Seq(Int) /\ Len(u) = 2 /\ u[1] = a /\ u[2] = b
    OBVIOUS
  <2> HIDE DEF s, u
  <2>3. Len(u) = Len(s) + 1 /\ u[Len(s) + 1] = b /\ \A k \in 1 .. Len(s) : u[k] = s[k]
    BY <2>1, <2>2
  <2>4. u = v
    BY <2>1, <2>2, <2>3, AppendIs
  <2> QED BY <2>4 DEF s, u, v
<1>7. Append(<<a, b>>, c) = <<a, b, c>>
  <2> DEFINE s == <<a, b>>
             u == <<a, b, c>>
             v == Append(s, c)
  <2>1. s \in Seq(Int) /\ Len(s) = 2 /\ s[1] = a /\ s[2] = b
    OBVIOUS
  <2>2. u \in Seq(Int) /\ Len(u) = 3 /\ u[1] = a /\ u[2] = b /\ u[3] = c
    OBVIOUS
  <2> HIDE DEF s, u
  <2>3. Len(u) = Len(s) + 1 /\ u[Len(s) + 1] = c /\ \A k \in 1 .. Len(s) : u[k] = s[k]
    BY <2>1, <2>2
  <2>4. u = v
    BY <2>1, <2>2, <2>3, AppendIs
  <2> QED BY <2>4 DEF s, u, v
<1>8. ASSUME NEW w \in Int PROVE Append(<<a, b, c>>, w) = <<a, b, c, w>>
  <2> DEFINE s == <<a, b, c>>
             u == <<a, b, c, w>>
             v == Append(s, w)
  <2>1. s \in Seq(Int) /\ Len(s) = 3 /\ s[1] = a /\ s[2] = b /\ s[3] = c
    OBVIOUS
  <2>2. u \in Seq(Int) /\ Len(u) = 4 /\ u[1] = a /\ u[2] = b /\ u[3] = c /\ u[4] = w
    OBVIOUS
  <2> HIDE DEF s, u
  <2>3. Len(u) = Len(s) + 1 /\ u[Len(s) + 1] = w /\ \A k \in 1 .. Len(s) : u[k] = s[k]
    BY <2>1, <2>2
  <2>4. u = v
    BY <2>1, <2>2, <2>3, AppendIs
  <2> QED BY <2>4 DEF s, u, v
<1>9. ASSUME NEW w \in Int PROVE <<a, b, c, w>> \in Seq(Int)
  OBVIOUS
<1> QED BY <1>1, <1>2, <1>3, <1>4, <1>5, <1>6, <1>7, <1>8, <1>9

(* What parsePayload makes of a line that a comma follows.                 *)
LEMMA ConsumeKept ==
  ASSUME NEW r \in Int \X Nat \X Nat \X Nat, NEW p, NEW g, Laid(p, r, g),
         NEW t, Len(t) \in Nat, NEW h, h + 5 = 0, NEW N, GoesOn(t, p, h, N),
         Len(t) = h + N + 1, t[h + N + 1] = Comma
  PROVE  PayloadTakes(t, p, r, N)
<1> DEFINE g2 == g[2]
           g3 == g[3]
           g4 == g[4]
           g5 == g[5]
           R1 == r[1]
           R2 == r[2]
           R3 == r[3]
           R4 == r[4]
<1>0. /\ r \in Int \X Int \X Int \X Int /\ R4 \in Nat /\ r = <<R1, R2, R3, R4>>
      /\ R1 \in Int /\ R2 \in Int /\ R3 \in Int
  OBVIOUS
<1>1. /\ g[1] = 5 /\ g2 \in Nat /\ g3 \in Nat /\ g4 \in Nat /\ g5 \in Nat /\ Len(p) = g5 - 1
      /\ 5 < g2 - 1 /\ g2 < g3 - 1 /\ g3 < g4 - 1 /\ g4 < g5 - 1 /\ Len(p) \in Nat
  BY <1>0, LaidIs
<1>2. N \in Nat /\ N >= 5 /\ N <= Len(p) /\ h \in Int
  BY <1>1 DEF GoesOn
<1>3. PICK a : ConsumeSteps(a, t)
  BY ConsumeStepsExist
<1> DEFINE o0 == <<>>
           o1 == <<R1>>
           o2 == <<R1, R2>>
           o3 == <<R1, R2, R3>>
<1>4. a[h + g[1]] = Ready(o0)
  <2>1. a[0] = Ready(<<>>)
    BY <1>3 DEF ConsumeSteps, Begin, Ready
  <2>2. h + g[1] = 0
    BY <1>1, <1>2
  <2> QED BY <2>1, <2>2
<1>5. /\ g[1 + 1] = g2 /\ g[2 + 1] = g3 /\ g[3 + 1] = g4 /\ g[4 + 1] = g5
      /\ 1 \in 1 .. 4 /\ 2 \in 1 .. 4 /\ 3 \in 1 .. 4 /\ 4 \in 1 .. 4
  OBVIOUS
<1> HIDE DEF R1, R2, R3, R4
<1>6. /\ o0 \in Seq(Int) /\ Len(o0) = 0 /\ o1 \in Seq(Int) /\ Len(o1) = 1
      /\ o2 \in Seq(Int) /\ Len(o2) = 2 /\ o3 \in Seq(Int) /\ Len(o3) = 3
      /\ Append(o0, R1) = o1 /\ Append(o1, R2) = o2 /\ Append(o2, R3) = o3
      /\ \A w \in Int : Append(o3, w) = <<R1, R2, R3, w>> /\ <<R1, R2, R3, w>> \in Seq(Int)
  BY <1>0, PrefixesAre
<1> HIDE DEF o0, o1, o2, o3
<1>6a. /\ Len(o0) < 4 /\ Len(o1) < 4 /\ Len(o2) < 4 /\ Len(o3) < 4
       /\ Len(o0) < 3 /\ Len(o1) < 3 /\ Len(o2) < 3
  BY <1>6
<1>6d. r \in Int \X Int \X Int \X Int
  BY <1>0
<1>6c. ASSUME NEW m \in 1 .. 4, g[m] <= N
       PROVE  /\ N >= g[m + 1] => /\ NumberRead(t, r, m, h + g[m] + 1, h + g[m + 1], Len(Decimal(r[m])))
                                  /\ t[h + g[m + 1]] = Comma /\ h + g[m + 1] <= Len(t)
              /\ N < g[m + 1] => NumberRead(t, r, m, h + g[m] + 1, h + N + 1, N - g[m])
  BY <1>6c, <1>6d, NumbersRead
<1>6b. ASSUME NEW m \in 1 .. 4, NEW o \in Seq(Int), Len(o) < 4, g[m] <= N, a[h + g[m]] = Ready(o)
       PROVE  /\ N >= g[m + 1] => a[h + g[m + 1]] = Ready(Append(o, r[m]))
              /\ N < g[m + 1] => \E w \in Int : /\ Consume(t) = Ready(Append(o, w))
                                                /\ N + 1 = g[m + 1] => w = r[m]
                                                /\ r[m] >= 0 => w = Value(SubSeq(Decimal(r[m]), 1, N - g[m]))
  <2>0. r \in Int \X Int \X Int \X Int
    BY <1>0
  <2>1. ASSUME N >= g[m + 1] PROVE a[h + g[m + 1]] = Ready(Append(o, r[m]))
    <3> DEFINE i == h + g[m] + 1
               j == h + g[m + 1]
    <3>1. NumberRead(t, r, m, i, j, Len(Decimal(r[m]))) /\ t[j] = Comma /\ j <= Len(t)
      BY <1>6b, <1>6c, <2>1
    <3>2. Numeral(t, i, j) /\ NumeralValue(t, i, j) = r[m]
      BY <3>1 DEF NumberRead
    <3>3. h \in Int /\ g[m] \in Nat
      <4>1. g \in [1 .. 5 -> Nat] /\ m \in 1 .. 5
        BY DEF Laid
      <4>2. h \in Int
        BY DEF GoesOn
      <4> QED BY <4>1, <4>2
    <3>4. i - 1 = h + g[m]
      BY <3>3
    <3>5. a[i - 1] = Ready(o)
      BY <1>6b, <3>4
    <3> HIDE DEF i, j
    <3>6. a[j] = Ready(Append(o, NumeralValue(t, i, j)))
      BY <1>3, <1>6b, <3>1, <3>2, <3>5, NumberTaken
    <3> QED BY <3>2, <3>6 DEF j
  <2>2. ASSUME N < g[m + 1]
        PROVE \E w \in Int : /\ Consume(t) = Ready(Append(o, w))
                             /\ N + 1 = g[m + 1] => w = r[m]
                             /\ r[m] >= 0 => w = Value(SubSeq(Decimal(r[m]), 1, N - g[m]))
    <3> DEFINE i == h + g[m] + 1
               j == h + N + 1
               k == N - g[m]
               w == NumeralValue(t, i, j)
    <3>1. NumberRead(t, r, m, i, j, k)
      BY <1>6b, <2>0, <2>2, NumbersRead
    <3>2. /\ Numeral(t, i, j)
          /\ k = Len(Decimal(r[m])) => w = r[m]
          /\ r[m] >= 0 => w = Value(SubSeq(Decimal(r[m]), 1, k))
      BY <3>1 DEF NumberRead
    <3>3. /\ h \in Int /\ g[m] \in Nat /\ g[m + 1] = g[m] + Len(Decimal(r[m])) + 1
          /\ Len(Decimal(r[m])) \in Nat /\ N \in Int
      <4>1. g \in [1 .. 5 -> Nat] /\ m \in 1 .. 5
        BY DEF Laid
      <4>2. h \in Int /\ N \in Int
        <5>1. Len(p) \in Nat
          BY LaidIs
        <5> QED BY <5>1 DEF GoesOn
      <4>3. /\ g[m + 1] = g[m] + Len(Decimal(r[m])) + 1
            /\ Len(Decimal(r[m])) \in Nat
        BY DEF Laid
      <4> QED BY <4>1, <4>2, <4>3
    <3>4. i - 1 = h + g[m]
      BY <3>3, SMTT(40)
    <3>5. a[i - 1] = Ready(o) /\ j <= Len(t) /\ t[j] = Comma
      BY <1>2, <1>6b, <3>4
    <3>6. N + 1 = g[m + 1] => k = Len(Decimal(r[m]))
      <4> DEFINE u == g[m]
                 z == g[m + 1]
                 l == Len(Decimal(r[m]))
      <4>1. u \in Nat /\ z = u + l + 1 /\ l \in Nat /\ N \in Int /\ k = N - u
        BY <3>3
      <4> HIDE DEF u, z, l, k
      <4>2. N + 1 = z => k = l
        BY <4>1
      <4> QED BY <4>2 DEF z, l
    <3>7. a[j] = Consume(t)
      BY <1>3 DEF ConsumeSteps
    <3>8. w \in Int
      <4> HIDE DEF i, j
      <4> QED BY <3>2, NumeralValueIs
    <3> HIDE DEF i, j, k
    <3>9. a[j] = Ready(Append(o, w))
      BY <1>3, <1>6b, <3>2, <3>5, NumberTaken
    <3> HIDE DEF w
    <3>10. /\ Consume(t) = Ready(Append(o, w))
           /\ N + 1 = g[m + 1] => w = r[m]
           /\ r[m] >= 0 => w = Value(SubSeq(Decimal(r[m]), 1, N - g[m]))
      BY <3>2, <3>6, <3>7, <3>9 DEF k
    <3> QED BY <3>8, <3>10
  <2> QED BY <2>1, <2>2
<1> DEFINE c2 == h + g2
           c3 == h + g3
           c4 == h + g4
<1>7. N >= g2 => a[c2] = Ready(o1)
  <2> SUFFICES ASSUME N >= g2 PROVE a[c2] = Ready(o1)
    OBVIOUS
  <2>1. 1 \in 1 .. 4 /\ N >= g[1 + 1] /\ g[1] <= N
    BY <1>1, <1>2
  <2>2. a[h + g[1 + 1]] = Ready(Append(o0, r[1]))
    BY <1>4, <1>6, <1>6a, <1>6b, <2>1
  <2> QED BY <1>6, <2>2 DEF R1
<1>8. N >= g3 => a[c3] = Ready(o2)
  <2> SUFFICES ASSUME N >= g3 PROVE a[c3] = Ready(o2)
    OBVIOUS
  <2>1. N >= g2
    <3> HIDE DEF g2, g3, g4, g5
    <3> QED BY <1>1, <1>2
  <2>2. 2 \in 1 .. 4 /\ N >= g[2 + 1] /\ g[2] <= N /\ a[h + g[2]] = Ready(o1)
    BY <1>5, <1>7, <2>1
  <2>3. a[h + g[2 + 1]] = Ready(Append(o1, r[2]))
    BY <1>6, <1>6a, <1>6b, <2>2
  <2> QED BY <1>6, <2>3 DEF R2
<1>9. N >= g4 => a[c4] = Ready(o3)
  <2> SUFFICES ASSUME N >= g4 PROVE a[c4] = Ready(o3)
    OBVIOUS
  <2>1. N >= g3
    <3> HIDE DEF g2, g3, g4, g5
    <3> QED BY <1>1, <1>2
  <2>2. 3 \in 1 .. 4 /\ N >= g[3 + 1] /\ g[3] <= N /\ a[h + g[3]] = Ready(o2)
    BY <1>5, <1>8, <2>1
  <2>3. a[h + g[3 + 1]] = Ready(Append(o2, r[3]))
    BY <1>6, <1>6a, <1>6b, <2>2
  <2> QED BY <1>6, <2>3 DEF R3
<1>10. ASSUME N < g4 PROVE PayloadTakes(t, p, r, N)
  <2>1. N # Len(p)
    <3> HIDE DEF g2, g3, g4, g5
    <3> QED BY <1>1, <1>2, <1>10
  <2>2. N < g2 \/ (N < g3 /\ N >= g2) \/ (N < g4 /\ N >= g3)
    <3> HIDE DEF g2, g3, g4, g5
    <3> QED BY <1>1, <1>2, <1>10
  <2>3. CASE N < g2
    <3>1. 1 \in 1 .. 4 /\ N < g[1 + 1] /\ g[1] <= N /\ a[h + g[1]] = Ready(o0)
      BY <1>1, <1>2, <1>4, <2>3
    <3>2. \E w \in Int : /\ Consume(t) = Ready(Append(o0, w))
                         /\ N + 1 = g[1 + 1] => w = r[1]
                         /\ r[1] >= 0 => w = Value(SubSeq(Decimal(r[1]), 1, N - g[1]))
      BY <1>6, <1>6a, <1>6b, <3>1
    <3> QED BY <1>6, <1>6a, <2>1, <3>2, FewTaken
  <2>4. CASE N < g3 /\ N >= g2
    <3>1. 2 \in 1 .. 4 /\ N < g[2 + 1] /\ g[2] <= N /\ a[h + g[2]] = Ready(o1)
      BY <1>5, <1>7, <2>4
    <3>2. \E w \in Int : /\ Consume(t) = Ready(Append(o1, w))
                         /\ N + 1 = g[2 + 1] => w = r[2]
                         /\ r[2] >= 0 => w = Value(SubSeq(Decimal(r[2]), 1, N - g[2]))
      BY <1>6, <1>6a, <1>6b, <3>1
    <3> QED BY <1>6, <1>6a, <2>1, <3>2, FewTaken
  <2>5. CASE N < g4 /\ N >= g3
    <3>1. 3 \in 1 .. 4 /\ N < g[3 + 1] /\ g[3] <= N /\ a[h + g[3]] = Ready(o2)
      BY <1>5, <1>8, <2>5
    <3>2. \E w \in Int : /\ Consume(t) = Ready(Append(o2, w))
                         /\ N + 1 = g[3 + 1] => w = r[3]
                         /\ r[3] >= 0 => w = Value(SubSeq(Decimal(r[3]), 1, N - g[3]))
      BY <1>6, <1>6a, <1>6b, <3>1
    <3> QED BY <1>6, <1>6a, <2>1, <3>2, FewTaken
  <2> QED BY <2>2, <2>3, <2>4, <2>5
<1>11. ASSUME N >= g4 PROVE PayloadTakes(t, p, r, N)
  <2>0. 4 \in 1 .. 4 /\ N < g[4 + 1] /\ g[4] <= N /\ a[h + g[4]] = Ready(o3)
    <3>1. N < g5
      <4> HIDE DEF g2, g3, g4, g5
      <4> QED BY <1>1, <1>2
    <3> QED BY <1>5, <1>9, <1>11, <3>1
  <2>1. PICK w \in Int : /\ Consume(t) = Ready(Append(o3, w))
                         /\ N + 1 = g[4 + 1] => w = r[4]
                         /\ r[4] >= 0 => w = Value(SubSeq(Decimal(r[4]), 1, N - g[4]))
    BY <1>6, <1>6a, <1>6b, <2>0
  <2> DEFINE q == <<R1, R2, R3, w>>
  <2>2. q \in Seq(Int) /\ Consume(t) = Ready(q)
    BY <1>6, <2>1
  <2>3. N - g4 \in 0 .. Len(Decimal(R4))
    <3>1. g5 = g4 + Len(Decimal(R4)) + 1 /\ Len(Decimal(R4)) \in Nat
      BY DEF Laid, R4
    <3> HIDE DEF g2, g3, g4, g5
    <3> QED BY <1>1, <1>2, <1>11, <3>1
  <2>4. w \in LeadingDigits(R4)
    <3>1. w = Value(SubSeq(Decimal(R4), 1, N - g4))
      BY <1>0, <2>1 DEF R4
    <3> HIDE DEF g4
    <3> QED BY <1>0, <2>3, <3>1, LeadingIs
  <2>5. Near(q, r)
    BY <2>4 DEF Near, R1, R2, R3, R4
  <2>6. ASSUME N = Len(p) PROVE q = r
    <3>1. w = R4
      <4>1. N + 1 = g5
        <5> HIDE DEF g2, g3, g4, g5
        <5> QED BY <1>1, <2>6
      <4> QED BY <1>5, <2>1, <4>1 DEF R4
    <3> QED BY <1>0, <3>1
  <2> HIDE DEF q
  <2> QED BY <2>2, <2>5, <2>6 DEF PayloadTakes
<1>12. N < g4 \/ N >= g4
  BY <1>1, <1>2
<1> QED BY <1>10, <1>11, <1>12

-----------------------------------------------------------------------------
(* A line in pieces.                                                       *)

(* What is read of the line p: n of its characters, after the first off of *)
(* them, and maybe the three that a loader writes next.                    *)
Piece(s, p, off, n) ==
  /\ off \in Nat /\ n \in Nat /\ off + n <= Len(p) /\ Len(s) \in Nat
  /\ \A k \in 1 .. n : s[k] = p[off + k]
  /\ Len(s) = n \/ (Len(s) = n + 3 /\ s[n + 1] = "e" /\ s[n + 2] = "t" /\ s[n + 3] = "s")

(* Where the tag's characters, the colon and the space are.                *)
LEMMA PlacesAre ==
  ASSUME NEW r \in Int \X Int \X Int \X Int, NEW p, NEW g, Laid(p, r, g),
         NEW s, NEW off, NEW n, Piece(s, p, off, n), NEW i \in 1 .. Len(s)
  PROVE  /\ s[i] = "q" => i <= n /\ off + i = 2
         /\ s[i] = "f" => i <= n /\ off + i = 3
         /\ s[i] = ":" => i <= n /\ off + i = 4
         /\ s[i] = Blank => i <= n /\ off + i = 5
<1>1. /\ off \in Nat /\ n \in Nat /\ off + n <= Len(p) /\ Len(s) \in Nat
      /\ \A k \in 1 .. n : s[k] = p[off + k]
      /\ Len(s) = n \/ (Len(s) = n + 3 /\ s[n + 1] = "e" /\ s[n + 2] = "t" /\ s[n + 3] = "s")
  BY DEF Piece
<1>2. /\ Len(p) \in Nat
      /\ \A k \in 6 .. Len(p) : p[k] \in DigitChars \cup {"-", Comma}
  BY LaidIs
<1>3. p[1] = "I" /\ p[2] = "q" /\ p[3] = "f" /\ p[4] = ":" /\ p[5] = Blank
  BY DEF Laid
<1>4. i \in Nat /\ i > 0
  BY <1>1
<1>5. CASE i > n
  <2>1. i = n + 1 \/ i = n + 2 \/ i = n + 3
    BY <1>1, <1>5, SMTT(40)
  <2>1a. s[n + 1] = "e" /\ s[n + 2] = "t" /\ s[n + 3] = "s"
    BY <1>1, <1>5
  <2>2. s[i] = "e" \/ s[i] = "t" \/ s[i] = "s"
    BY <2>1, <2>1a
  <2>3. s[i] # "q" /\ s[i] # "f" /\ s[i] # ":" /\ s[i] # Blank
    BY <2>2, CharsDiffer
  <2> QED BY <2>3
<1>6. CASE i <= n
  <2> DEFINE k == off + i
  <2>1. s[i] = p[k] /\ k \in Nat /\ k > 0 /\ k <= Len(p)
    BY <1>1, <1>2, <1>4, <1>6
  <2>2. k = 1 \/ k = 2 \/ k = 3 \/ k = 4 \/ k = 5 \/ k \in 6 .. Len(p)
    <3> HIDE DEF k
    <3> QED BY <1>2, <2>1
  <2> HIDE DEF k
  <2>3. CASE k \in 6 .. Len(p)
    <3>1. p[k] # "q" /\ p[k] # "f" /\ p[k] # ":" /\ p[k] # Blank
      <4>1. p[k] \in DigitChars \/ p[k] = "-" \/ p[k] = Comma
        BY <1>2, <2>3
      <4>2. "q" \notin DigitChars /\ "f" \notin DigitChars /\ ":" \notin DigitChars
        BY Zenon DEF DigitChars
      <4> QED BY <4>1, <4>2, CharsDiffer
    <3> QED BY <2>1, <3>1
  <2>4. CASE k = 1 \/ k = 2 \/ k = 3 \/ k = 4 \/ k = 5
    <3>1. Blank # "I" /\ Blank # "q" /\ Blank # "f" /\ Blank # ":"
      <4>1. Blank # "I"
        BY Zenon DEF Blank
      <4> QED BY <4>1, CharsDiffer
    <3> QED BY <1>3, <1>6, <2>1, <2>4, <3>1 DEF k
  <2> QED BY <2>2, <2>3, <2>4
<1> QED BY <1>1, <1>4, <1>5, <1>6

(* Where the readers find the tag.                                         *)
LEMMA TagPlace ==
  ASSUME NEW r \in Int \X Int \X Int \X Int, NEW p, NEW g, Laid(p, r, g),
         NEW s, NEW off, NEW n, Piece(s, p, off, n)
  PROVE  IndexOf(Tag, s) = IF off <= 1 /\ off + n >= 3 THEN 2 - off ELSE 0
<1>1. /\ off \in Nat /\ n \in Nat /\ off + n <= Len(p) /\ Len(s) \in Nat
      /\ \A k \in 1 .. n : s[k] = p[off + k]
      /\ Len(s) >= n
  BY DEF Piece
<1>2. p[1] = "I" /\ p[2] = "q" /\ p[3] = "f"
  BY DEF Laid
<1>3. Len(Tag) = 2 /\ DOMAIN Tag = 1 .. 2 /\ Tag[1] = "q" /\ Tag[2] = "f"
  BY TagIs
<1>4. ASSUME NEW i \in Nat PROVE StartsAt(Tag, s, i) <=> s[i] = "q" /\ s[i + 1] = "f"
  <2>1. StartsAt(Tag, s, i) <=> \A k \in 1 .. 2 : s[i + k - 1] = Tag[k]
    BY <1>3 DEF StartsAt
  <2>2. i + 1 - 1 = i /\ i + 2 - 1 = i + 1
    OBVIOUS
  <2> QED BY <1>3, <2>1, <2>2
<1>5. ASSUME NEW i \in 1 .. Len(s) + 1 - Len(Tag), StartsAt(Tag, s, i)
      PROVE  off <= 1 /\ off + n >= 3 /\ i = 2 - off
  <2>1. i \in 1 .. Len(s) /\ i + 1 \in 1 .. Len(s) /\ i \in Nat
    BY <1>1, <1>3
  <2>2. s[i] = "q" /\ s[i + 1] = "f"
    BY <1>4, <1>5, <2>1
  <2>3. off + i = 2
    BY <2>1, <2>2, PlacesAre
  <2>4. i + 1 <= n /\ off + (i + 1) = 3
    <3> DEFINE j == i + 1
    <3>1. j \in 1 .. Len(s) /\ s[j] = "f"
      BY <2>1, <2>2
    <3> HIDE DEF j
    <3>2. j <= n /\ off + j = 3
      BY <3>1, PlacesAre
    <3> QED BY <3>2 DEF j
  <2> QED BY <1>1, <2>1, <2>3, <2>4
<1>6. CASE off <= 1 /\ off + n >= 3
  <2> DEFINE i == 2 - off
  <2>1. /\ i \in 1 .. Len(s) + 1 - Len(Tag) /\ i \in Nat /\ i + 1 \in 1 .. n /\ i \in 1 .. n
        /\ off + i = 2 /\ off + (i + 1) = 3
    BY <1>1, <1>3, <1>6
  <2>2. s[i] = "q" /\ s[i + 1] = "f"
    BY <1>1, <1>2, <2>1
  <2>3. StartsAt(Tag, s, i)
    BY <1>4, <2>1, <2>2
  <2>4. \A j \in 1 .. i - 1 : ~StartsAt(Tag, s, j)
    <3> SUFFICES ASSUME NEW j \in 1 .. i - 1, StartsAt(Tag, s, j) PROVE FALSE
      OBVIOUS
    <3>1. j \in 1 .. Len(s) + 1 - Len(Tag)
      BY <1>1, <1>3, <2>1
    <3>2. j = i
      BY <1>5, <3>1
    <3> QED BY <2>1, <3>2
  <2> HIDE DEF i
  <2>4a. FirstAt(Tag, s, i) /\ Len(Tag) \in Nat
    BY <1>3, <2>1, <2>3, <2>4 DEF FirstAt
  <2>5. IndexOf(Tag, s) = i
    BY <1>1, <2>4a, FoundIs
  <2> QED BY <1>6, <2>5 DEF i
<1>7. CASE ~(off <= 1 /\ off + n >= 3)
  <2>1. \A i \in 1 .. Len(s) + 1 - Len(Tag) : ~StartsAt(Tag, s, i)
    BY <1>5, <1>7
  <2>1a. Nowhere(Tag, s) /\ Len(Tag) \in Nat
    BY <1>3, <2>1 DEF Nowhere
  <2>2. IndexOf(Tag, s) = 0
    BY <1>1, <2>1a, FoundIs
  <2> QED BY <1>7, <2>2
<1> QED BY <1>6, <1>7

LEMMA PayloadPlace ==
  ASSUME NEW r \in Int \X Int \X Int \X Int, NEW p, NEW g, Laid(p, r, g),
         NEW s, NEW off, NEW n, Piece(s, p, off, n)
  PROVE  IndexOf(Tag \o <<":", Blank>>, s) = IF off <= 1 /\ off + n >= 5 THEN 2 - off ELSE 0
<1> DEFINE T == Tag \o <<":", Blank>>
<1>1. /\ off \in Nat /\ n \in Nat /\ off + n <= Len(p) /\ Len(s) \in Nat
      /\ \A k \in 1 .. n : s[k] = p[off + k]
      /\ Len(s) >= n
  BY DEF Piece
<1>2. p[1] = "I" /\ p[2] = "q" /\ p[3] = "f" /\ p[4] = ":" /\ p[5] = Blank
  BY DEF Laid
<1>3. Len(T) = 4 /\ DOMAIN T = 1 .. 4 /\ T[1] = "q" /\ T[2] = "f" /\ T[3] = ":" /\ T[4] = Blank
  BY TagIs
<1> HIDE DEF T
<1>4. ASSUME NEW i \in Nat
      PROVE  StartsAt(T, s, i) <=> s[i] = "q" /\ s[i + 1] = "f" /\ s[i + 2] = ":" /\ s[i + 3] = Blank
  <2>1. StartsAt(T, s, i) <=> \A k \in 1 .. 4 : s[i + k - 1] = T[k]
    BY <1>3 DEF StartsAt
  <2>2. i + 1 - 1 = i /\ i + 2 - 1 = i + 1 /\ i + 3 - 1 = i + 2 /\ i + 4 - 1 = i + 3
    OBVIOUS
  <2> QED BY <1>3, <2>1, <2>2
<1>5. ASSUME NEW i \in 1 .. Len(s) + 1 - Len(T), StartsAt(T, s, i)
      PROVE  off <= 1 /\ off + n >= 5 /\ i = 2 - off
  <2>1. i \in 1 .. Len(s) /\ i + 3 \in 1 .. Len(s) /\ i \in Nat
    BY <1>1, <1>3
  <2>2. s[i] = "q" /\ s[i + 3] = Blank
    BY <1>4, <1>5, <2>1
  <2>3. off + i = 2
    BY <2>1, <2>2, PlacesAre
  <2>4. i + 3 <= n /\ off + (i + 3) = 5
    <3> DEFINE j == i + 3
    <3>1. j \in 1 .. Len(s) /\ s[j] = Blank
      BY <2>1, <2>2
    <3> HIDE DEF j
    <3>2. j <= n /\ off + j = 5
      BY <3>1, PlacesAre
    <3> QED BY <3>2 DEF j
  <2> QED BY <1>1, <2>1, <2>3, <2>4
<1>6. CASE off <= 1 /\ off + n >= 5
  <2> DEFINE i == 2 - off
  <2>1. /\ i \in 1 .. Len(s) + 1 - Len(T) /\ i \in Nat
        /\ i \in 1 .. n /\ i + 1 \in 1 .. n /\ i + 2 \in 1 .. n /\ i + 3 \in 1 .. n
        /\ off + i = 2 /\ off + (i + 1) = 3 /\ off + (i + 2) = 4 /\ off + (i + 3) = 5
    BY <1>1, <1>3, <1>6
  <2>2. s[i] = "q" /\ s[i + 1] = "f" /\ s[i + 2] = ":" /\ s[i + 3] = Blank
    BY <1>1, <1>2, <2>1
  <2>3. StartsAt(T, s, i)
    BY <1>4, <2>1, <2>2
  <2>4. \A j \in 1 .. i - 1 : ~StartsAt(T, s, j)
    <3> SUFFICES ASSUME NEW j \in 1 .. i - 1, StartsAt(T, s, j) PROVE FALSE
      OBVIOUS
    <3>1. j \in 1 .. Len(s) + 1 - Len(T)
      BY <1>1, <1>3, <2>1
    <3>2. j = i
      BY <1>5, <3>1
    <3> QED BY <2>1, <3>2
  <2> HIDE DEF i
  <2>4a. FirstAt(T, s, i) /\ Len(T) \in Nat
    BY <1>3, <2>1, <2>3, <2>4 DEF FirstAt
  <2>5. IndexOf(T, s) = i
    BY <1>1, <2>4a, FoundIs
  <2> QED BY <1>6, <2>5 DEF i, T
<1>7. CASE ~(off <= 1 /\ off + n >= 5)
  <2>1. \A i \in 1 .. Len(s) + 1 - Len(T) : ~StartsAt(T, s, i)
    BY <1>5, <1>7
  <2>1a. Nowhere(T, s) /\ Len(T) \in Nat
    BY <1>3, <2>1 DEF Nowhere
  <2>2. IndexOf(T, s) = 0
    BY <1>1, <2>1a, FoundIs
  <2> QED BY <1>7, <2>2 DEF T
<1> QED BY <1>6, <1>7

(* A place without a digit is no number.                                   *)
LEMMA NoNumber ==
  ASSUME NEW s, Len(s) \in Nat, NEW i \in 1 .. Len(s) + 1,
         i > Len(s) \/ (s[i] \notin DigitChars /\ s[i] # "-")
  PROVE  FourNumbers(s, i) = <<>>
<1>1. PastSign(s, i) = i
  BY DEF PastSign
<1>2. Numeral(s, i, i) /\ (i > Len(s) \/ s[i] \notin DigitChars)
  BY <1>1 DEF Numeral
<1>3. ~parseInt(s, i).ok
  <2>1. parseInt(s, i).ok <=> i > PastSign(s, i)
    BY <1>2, ParseIntIs
  <2> QED BY <1>1, <2>1
<1> DEFINE f1 == parseInt(s, i)
<1> HIDE DEF f1
<1>4. ~f1.ok
  BY <1>3 DEF f1
<1> QED BY <1>4 DEF FourNumbers, f1

(* parseFast takes a torn line right up to its last number.                *)
LEMMA FastOfPiece ==
  ASSUME NEW r \in Int \X Nat \X Nat \X Nat, NEW p, NEW g, Laid(p, r, g),
         NEW s, NEW off, NEW n, Piece(s, p, off, n)
  PROVE  /\ Near(parseFast(s), r)
         /\ off = 0 /\ n = Len(p) => parseFast(s) = r
<1> DEFINE tagPos == IndexOf(Tag, s)
           colons == {i \in tagPos + Len(Tag) .. Len(s) : s[i] = ":"}
           places == {i \in Min(colons) + 1 .. Len(s) + 1 : i > Len(s) \/ s[i] # Blank}
<1>0. r \in Int \X Int \X Int \X Int
  OBVIOUS
<1>1. /\ off \in Nat /\ n \in Nat /\ off + n <= Len(p) /\ Len(s) \in Nat
      /\ \A k \in 1 .. n : s[k] = p[off + k]
      /\ Len(s) = n \/ (Len(s) = n + 3 /\ s[n + 1] = "e")
  BY DEF Piece
<1>1a. Len(p) \in Nat /\ Len(p) >= 5
  <2> DEFINE g2 == g[2]
             g3 == g[3]
             g4 == g[4]
             g5 == g[5]
  <2>1. /\ g2 \in Nat /\ g3 \in Nat /\ g4 \in Nat /\ g5 \in Nat /\ Len(p) = g5 - 1
        /\ 5 < g2 - 1 /\ g2 < g3 - 1 /\ g3 < g4 - 1 /\ g4 < g5 - 1 /\ Len(p) \in Nat
    BY <1>0, LaidIs
  <2> HIDE DEF g2, g3, g4, g5
  <2> QED BY <2>1
<1>2. p[4] = ":" /\ p[5] = Blank
  BY DEF Laid
<1>3. tagPos = IF off <= 1 /\ off + n >= 3 THEN 2 - off ELSE 0
  BY <1>0, TagPlace
<1>4. Len(Tag) = 2
  BY TagIs
<1>5. parseFast(s) = IF tagPos # 0 /\ colons # {} THEN FourNumbers(s, Min(places)) ELSE <<>>
  BY DEF parseFast
<1>6. ASSUME NEW i \in 1 .. Len(s) PROVE /\ s[i] = ":" => i <= n /\ off + i = 4
                                         /\ s[i] = Blank => i <= n /\ off + i = 5
  BY <1>0, PlacesAre
<1>7. CASE ~(off <= 1 /\ off + n >= 4)
  <2>1. tagPos # 0 => colons = {}
    <3> SUFFICES ASSUME tagPos # 0, NEW i \in colons PROVE FALSE
      OBVIOUS
    <3>1. off <= 1 /\ tagPos = 2 - off
      BY <1>3
    <3>2. i \in 1 .. Len(s) /\ s[i] = ":"
      BY <1>1, <1>4, <3>1
    <3>3. i <= n /\ off + i = 4 /\ i \in Int
      BY <1>6, <3>2
    <3> QED BY <1>1, <1>7, <3>1, <3>3
  <2>2. parseFast(s) = <<>>
    BY <1>5, <2>1
  <2>3. ~(off = 0 /\ n = Len(p))
    BY <1>1, <1>1a, <1>7
  <2> QED BY <2>2, <2>3 DEF Near
<1>8. CASE off <= 1 /\ off + n >= 4
  <2> DEFINE c == 4 - off
  <2>1. /\ tagPos = 2 - off /\ tagPos # 0 /\ tagPos + Len(Tag) = c
        /\ c \in 1 .. n /\ c \in 1 .. Len(s) /\ off + c = 4 /\ c \in Nat
    BY <1>1, <1>3, <1>4, <1>8, SMTT(40)
  <2>2. s[c] = ":"
    BY <1>1, <1>2, <2>1
  <2>3. colons = {c}
    <3>1. c \in colons
      BY <1>1, <2>1, <2>2
    <3>2. ASSUME NEW i \in colons PROVE i = c
      <4>1. i \in 1 .. Len(s) /\ s[i] = ":"
        BY <1>1, <2>1
      <4>2. off + i = 4
        BY <1>6, <4>1
      <4> QED BY <1>1, <4>1, <4>2
    <3> QED BY <3>1, <3>2
  <2> HIDE DEF colons
  <2>4. Min(colons) = c
    <3>1. c \in colons /\ colons \in SUBSET Nat /\ \A i \in colons : c <= i
      BY <2>1, <2>3
    <3> QED BY <3>1, MinIs
  <2>5. parseFast(s) = FourNumbers(s, Min(places))
    BY <1>5, <2>1, <2>3
  <2>6. places = {i \in c + 1 .. Len(s) + 1 : i > Len(s) \/ s[i] # Blank}
    BY <2>4
  <2>7. CASE off + n = 4
    <3> DEFINE f == c + 1
    <3>1. f = n + 1 /\ f \in 1 .. Len(s) + 1
      BY <1>1, <2>1, <2>7
    <3>2. f > Len(s) \/ s[f] = "e"
      BY <1>1, <3>1
    <3>2a. f > Len(s) \/ (s[f] # Blank /\ s[f] \notin DigitChars /\ s[f] # "-")
      BY <3>2, CharsDiffer
    <3>3a. f \in c + 1 .. Len(s) + 1
      BY <1>1, <2>1, <3>1
    <3>3b. \A i \in c + 1 .. Len(s) + 1 : i \in Nat /\ f <= i
      BY <1>1, <2>1
    <3> HIDE DEF c, f
    <3>3. f \in places /\ places \in SUBSET Nat /\ \A i \in places : f <= i
      BY <2>6, <3>2a, <3>3a, <3>3b
    <3> HIDE DEF places
    <3>4. Min(places) = f
      BY <3>3, MinIs
    <3> HIDE DEF f
    <3>5. FourNumbers(s, f) = <<>>
      BY <1>1, <3>1, <3>2a, NoNumber
    <3>6. ~(off = 0 /\ n = Len(p))
      BY <1>1, <1>1a, <2>7
    <3> QED BY <2>5, <3>4, <3>5, <3>6 DEF Near
  <2>8. CASE off + n >= 5
    <3> DEFINE f == c + 2
               N == off + n
               h == -off
    <3>1. c + 1 \in 1 .. n /\ off + (c + 1) = 5 /\ f \in c + 1 .. Len(s) + 1 /\ f \in Nat /\ h + 6 = f
      BY <1>1, <2>1, <2>8, SMTT(40)
    <3>2. s[c + 1] = Blank /\ c + 1 <= Len(s)
      <4>1. s[c + 1] = p[off + (c + 1)]
        <5> HIDE DEF c
        <5> QED BY <1>1, <3>1
      <4>2. p[off + (c + 1)] = Blank
        BY <1>2, <3>1
      <4> QED BY <1>1, <3>1, <4>1, <4>2
    <3>3. f > Len(s) \/ s[f] # Blank
      <4> SUFFICES ASSUME f <= Len(s), s[f] = Blank PROVE FALSE
        BY <1>1, <3>1, SMTT(40)
      <4>1. f \in 1 .. Len(s)
        BY <1>1, <2>1, <3>1
      <4>2. off + f = 5
        BY <1>6, <4>1
      <4> QED BY <1>1, <2>1, <4>2
    <3>4. f \in places /\ places \in SUBSET Nat
      <4>1. \A i \in c + 1 .. Len(s) + 1 : i \in Nat
        BY <1>1, <2>1
      <4> HIDE DEF c, f
      <4> QED BY <2>6, <3>1, <3>3, <4>1
    <3>5. \A i \in places : f <= i
      <4> SUFFICES ASSUME NEW i \in places PROVE f <= i
        OBVIOUS
      <4>1. i \in c + 1 .. Len(s) + 1 /\ (i > Len(s) \/ s[i] # Blank)
        BY <2>6
      <4>2. i # c + 1
        BY <1>1, <2>1, <3>2, <4>1, SMTT(40)
      <4> QED BY <1>1, <2>1, <4>1, <4>2
    <3> HIDE DEF places
    <3>6. Min(places) = f
      BY <3>4, <3>5, MinIs
    <3>7. GoesOn(s, p, h, N)
      <4>1. h \in Int /\ h >= -5 /\ N \in 5 .. Len(p) /\ h + N = n /\ n <= Len(s)
        BY <1>1, <1>1a, <1>8, <2>8
      <4>2. ASSUME NEW k \in 6 .. N PROVE s[h + k] = p[k]
        <5>1. h + k \in 1 .. n /\ off + (h + k) = k
          BY <1>1, <1>8
        <5> HIDE DEF h, N
        <5> QED BY <1>1, <5>1
      <4>3. h + N = Len(s) \/ s[h + N + 1] \notin DigitChars \cup {"-"}
        BY <1>1, <4>1, CharsDiffer
      <4> HIDE DEF h, N
      <4> QED BY <4>1, <4>2, <4>3 DEF GoesOn
    <3>8. h + N = Len(s) \/ s[h + N + 1] # Comma
      <4>1. h + N = n
        BY <1>1
      <4> QED BY <1>1, <4>1, CharsDiffer
    <3>9. N = n + off
      BY <1>1
    <3>10. off = 0 /\ n = Len(p) => N = Len(p)
      BY <1>1, <3>9
    <3>11. h + 6 = f
      BY <3>1
    <3> HIDE DEF f, N, h
    <3>12. /\ Near(FourNumbers(s, h + 6), r)
           /\ N = Len(p) => FourNumbers(s, h + 6) = r
      BY <1>1, <3>7, <3>8, FourKept
    <3> QED BY <2>5, <3>6, <3>10, <3>11, <3>12
  <2> QED BY <1>1, <1>8, <2>7, <2>8
<1> QED BY <1>7, <1>8

(* So does parsePayload.                                                   *)
LEMMA PayloadOfPiece ==
  ASSUME NEW r \in Int \X Nat \X Nat \X Nat, NEW p, NEW g, Laid(p, r, g),
         NEW S, Comma \in S, NEW s \in Seq(S), NEW off, NEW n, Piece(s, p, off, n)
  PROVE  /\ Near(parsePayload(s), r)
         /\ off = 0 /\ n = Len(p) /\ Len(s) = n => parsePayload(s) = r
<1> DEFINE start == IndexOf(Tag \o <<":", Blank>>, s)
           rest == SubSeq(s, start + Len(Tag) + 2, Len(s))
           t == Append(rest, Comma)
           end == Consume(t)
<1>0. r \in Int \X Int \X Int \X Int
  OBVIOUS
<1>1. /\ off \in Nat /\ n \in Nat /\ off + n <= Len(p) /\ Len(s) \in Nat
      /\ \A k \in 1 .. n : s[k] = p[off + k]
      /\ Len(s) = n \/ (Len(s) = n + 3 /\ s[n + 1] = "e")
  BY DEF Piece
<1>1a. Len(p) \in Nat /\ Len(p) >= 5
  <2> DEFINE g2 == g[2]
             g3 == g[3]
             g4 == g[4]
             g5 == g[5]
  <2>1. /\ g2 \in Nat /\ g3 \in Nat /\ g4 \in Nat /\ g5 \in Nat /\ Len(p) = g5 - 1
        /\ 5 < g2 - 1 /\ g2 < g3 - 1 /\ g3 < g4 - 1 /\ g4 < g5 - 1 /\ Len(p) \in Nat
    BY <1>0, LaidIs
  <2> HIDE DEF g2, g3, g4, g5
  <2> QED BY <2>1
<1>2. start = IF off <= 1 /\ off + n >= 5 THEN 2 - off ELSE 0
  BY <1>0, PayloadPlace
<1>3. parsePayload(s) = IF start # 0 /\ end.ok /\ Len(end.out) = 4 THEN end.out ELSE <<>>
  BY DEF parsePayload
<1>4. CASE ~(off <= 1 /\ off + n >= 5)
  <2>1. parsePayload(s) = <<>>
    BY <1>2, <1>3, <1>4
  <2>2. ~(off = 0 /\ n = Len(p))
    BY <1>1, <1>1a, <1>4
  <2> QED BY <2>1, <2>2 DEF Near
<1>5. CASE off <= 1 /\ off + n >= 5
  <2> DEFINE f == 6 - off
             N == off + n
             l == Len(s) - f + 1
  <2>1a. start = 2 - off
    BY <1>2, <1>5
  <2>1b. Len(Tag) = 2
    BY TagIs
  <2>1. start + Len(Tag) + 2 = f /\ start # 0 /\ f \in Int /\ f >= 1 /\ f <= n + 1 /\ l \in Nat /\ l = Len(s) - (5 - off)
    <3>1. start + Len(Tag) + 2 = f /\ start # 0
      <4> HIDE DEF start
      <4> QED BY <1>1, <1>5, <2>1a, <2>1b
    <3>2. f \in Int /\ f >= 1 /\ f <= n + 1
      BY <1>1, <1>5
    <3>3. l \in Nat /\ l = Len(s) - (5 - off)
      BY <1>1, <1>5
    <3> QED BY <3>1, <3>2, <3>3
  <2>2. rest \in Seq(S) /\ Len(rest) = l /\ \A k \in 1 .. l : rest[k] = s[f + k - 1]
    <3>1. f \in Int /\ Len(s) \in Int /\ \A k \in f .. Len(s) : s[k] \in S
      <4>1. \A k \in f .. Len(s) : k \in 1 .. Len(s)
        BY <1>1, <2>1
      <4>2. \A k \in 1 .. Len(s) : s[k] \in S
        BY ElementOfSeq
      <4> QED BY <1>1, <2>1, <4>1, <4>2
    <3> DEFINE x == SubSeq(s, f, Len(s))
    <3> HIDE DEF f
    <3>2. /\ x \in Seq(S) /\ Len(x) = IF f <= Len(s) THEN Len(s) - f + 1 ELSE 0
          /\ \A k \in 1 .. Len(s) - f + 1 : x[k] = s[f + k - 1]
      BY <3>1, SubSeqProperties
    <3>3. f <= Len(s) \/ Len(s) - f + 1 = 0
      BY <1>1, <2>1, <3>1, SMTT(40)
    <3> QED BY <2>1, <3>2, <3>3
  <2> HIDE DEF rest
  <2>3. /\ t \in Seq(S) /\ Len(t) = l + 1 /\ t[l + 1] = Comma
        /\ \A k \in 1 .. l : t[k] = s[f + k - 1]
    <3>1. rest \in Seq(S)
      BY <2>2
    <3>2. /\ t \in Seq(S) /\ Len(t) = Len(rest) + 1 /\ t[Len(rest) + 1] = Comma
          /\ \A k \in 1 .. Len(rest) : t[k] = rest[k]
      BY <3>1, AppendProperties
    <3> HIDE DEF t, f, l
    <3> QED BY <2>2, <3>2
  <2> HIDE DEF t
  <2>4. Len(t) \in Nat
    BY <2>1, <2>3
  <2>5. CASE Len(s) = n + 3
    <3> DEFINE k == n + 1 - (5 - off)
    <3>1. k \in 1 .. l /\ f + k - 1 = n + 1
      BY <1>1, <1>5, <2>5
    <3>2. t[k] = "e" /\ k \in 1 .. Len(t)
      <4>1. s[n + 1] = "e"
        BY <1>1, <2>5
      <4>2. t[k] = s[f + k - 1] /\ k \in 1 .. Len(t)
        <5> HIDE DEF k, f, l
        <5> QED BY <2>1, <2>3, <3>1, SMTT(40)
      <4> QED BY <3>1, <4>1, <4>2
    <3> HIDE DEF k
    <3>2a. t[k] \notin DigitChars \cup {"-", Comma}
      BY <3>2, CharsDiffer
    <3>3. PICK a : ConsumeSteps(a, t)
      BY <2>4, ConsumeStepsExist
    <3>4. Refused(end)
      BY <2>4, <3>2, <3>2a, <3>3, RefusedStays
    <3>5. parsePayload(s) = <<>>
      BY <1>3, <3>4 DEF Refused
    <3> QED BY <1>1, <2>5, <3>5 DEF Near
  <2>6. CASE Len(s) = n
    <3> DEFINE h == -5
    <3>0. h \in Int /\ h + 5 = 0 /\ h >= -5
      OBVIOUS
    <3> HIDE DEF h
    <3>1. N \in 5 .. Len(p) /\ l = h + N /\ N \in Nat
      BY <1>1, <1>1a, <1>5, <2>6, <3>0
    <3>2. \A k \in 6 .. N : t[h + k] = p[k]
      <4> SUFFICES ASSUME NEW k \in 6 .. N PROVE t[h + k] = p[k]
        OBVIOUS
      <4>1. h + k \in 1 .. l /\ f + (h + k) - 1 = k - off /\ k - off \in 1 .. n /\ off + (k - off) = k
        BY <1>1, <1>5, <3>0, <3>1
      <4>2. t[h + k] = s[k - off]
        <5> HIDE DEF f, l, N
        <5> QED BY <2>3, <4>1
      <4> HIDE DEF N
      <4> QED BY <1>1, <4>1, <4>2
    <3>3. t[h + N + 1] = Comma /\ Len(t) = h + N + 1
      BY <2>3, <3>1
    <3> HIDE DEF N, l, f
    <3>4. GoesOn(t, p, h, N)
      BY <2>4, <3>0, <3>1, <3>2, <3>3, CharsDiffer DEF GoesOn
    <3>5. PayloadTakes(t, p, r, N)
      BY <2>4, <3>0, <3>3, <3>4, ConsumeKept
    <3>6. PICK o \in Seq(Int) : /\ Consume(t) = Ready(o)
                                /\ Len(o) = 4 => Near(o, r)
                                /\ N = Len(p) => o = r
      BY <3>5 DEF PayloadTakes
    <3>7. end.ok /\ end.out = o
      BY <3>6 DEF Ready
    <3> HIDE DEF end
    <3>8. parsePayload(s) = IF Len(o) = 4 THEN o ELSE <<>>
      BY <1>3, <2>1, <3>7
    <3>9. off = 0 /\ n = Len(p) => N = Len(p)
      BY <1>1 DEF N
    <3>10. Len(r) = 4
      OBVIOUS
    <3> QED BY <3>6, <3>8, <3>9, <3>10 DEF Near
  <2> QED BY <1>1, <2>5, <2>6
<1> QED BY <1>4, <1>5

(* The characters that a line can have.                                    *)
Letters == Characters \cup Alphabet

(* A text after the tag.                                                   *)
Tagged(x) ==
  /\ Len(x) >= 5 /\ x[1] = "I" /\ x[2] = "q" /\ x[3] = "f" /\ x[4] = ":" /\ x[5] = Blank

(* An arbitrary one.                                                       *)
Headed(s) ==
  Tagged(s) /\ \A k \in 6 .. Len(s) : s[k] \in Alphabet

(* A line is one that was printed, a piece of one, or an arbitrary text.   *)
LineInv ==
  /\ logged \in PrintedReadings \cup {<<>>} /\ torn \in BOOLEAN /\ line \in Seq(Letters)
  /\ logged # <<>> => /\ ~torn => line = Printed(logged)
                      /\ \E off, n : Piece(line, Printed(logged), off, n)
  /\ logged = <<>> => Headed(line)

(* A printed reading is four numbers.                                      *)
LEMMA ReadingIs ==
  ASSUME NEW r \in PrintedReadings
  PROVE  r \in Int \X Nat \X Nat \X Nat /\ r # <<>> /\ r \in Int \X Int \X Int \X Int
<1>1. r \in Int \X Nat \X Nat \X Nat
  BY LinesAssumption DEF Printable
<1>2. Len(r) = 4 /\ Len(<<>>) = 0
  BY <1>1
<1>3. r # <<>>
  BY <1>2
<1> QED BY <1>1, <1>3

(* A printed line is a piece of itself.                                    *)
LEMMA WholePiece ==
  ASSUME NEW r \in Int \X Nat \X Nat \X Nat
  PROVE  Piece(Printed(r), Printed(r), 0, Len(Printed(r)))
<1> DEFINE p == Printed(r)
<1>1. p \in Seq(Characters)
  <2>1. r \in Int \X Int \X Int \X Int
    OBVIOUS
  <2> QED BY <2>1, PrintedIs
<1> HIDE DEF p
<1>2. Len(p) \in Nat
  BY <1>1
<1>3. Piece(p, p, 0, Len(p))
  BY <1>2 DEF Piece
<1> QED BY <1>3 DEF p

(* The first line is one of these texts.                                   *)
LEMMA LineInit0 ==
  ASSUME LineInit PROVE LineInv
<1>1. CASE logged \in PrintedReadings /\ line = Printed(logged)
  <2>1. logged \in Int \X Nat \X Nat \X Nat /\ logged # <<>> /\ logged \in Int \X Int \X Int \X Int
    BY <1>1, ReadingIs
  <2>2. line \in Seq(Characters)
    BY <1>1, <2>1, PrintedIs
  <2>3. line \in Seq(Letters)
    BY <2>2, SeqMonotonic DEF Letters
  <2>4. Piece(line, Printed(logged), 0, Len(Printed(logged)))
    BY <1>1, <2>1, WholePiece
  <2>5. torn = FALSE
    BY DEF LineInit
  <2> QED BY <1>1, <2>1, <2>3, <2>4, <2>5 DEF LineInv
<1>2. CASE logged = <<>> /\ line = Header
  <2>1. line \in Seq(Letters)
    <3>1. line \in Seq(Characters)
      BY <1>2, HeaderIs
    <3> QED BY <3>1, SeqMonotonic DEF Letters
  <2>2. Headed(line)
    BY <1>2, HeaderIs DEF Headed, Tagged
  <2>3. torn = FALSE
    BY DEF LineInit
  <2> QED BY <1>2, <2>1, <2>2, <2>3 DEF LineInv
<1> QED BY <1>1, <1>2 DEF LineInit

(* A part of a line is a piece of it.                                      *)
IsCut(u, p, i, z) ==
  \E off, n : Piece(u, p, off, n) /\ (i <= z => off = i /\ n = z - i /\ n = Len(u))

LEMMA CutIs ==
  ASSUME NEW S, NEW p \in Seq(S), NEW i \in Nat, NEW z \in Nat, z <= Len(p)
  PROVE  /\ SubSeq(p, i + 1, z) \in Seq(S)
         /\ IsCut(SubSeq(p, i + 1, z), p, i, z)
<1> DEFINE a == i + 1
           u == SubSeq(p, a, z)
<1>0. Len(p) \in Nat /\ a \in Int /\ z \in Int /\ a >= 1
  OBVIOUS
<1>1. \A k \in a .. z : p[k] \in S
  <2>1. \A k \in a .. z : k \in 1 .. Len(p)
    BY <1>0
  <2>2. \A k \in 1 .. Len(p) : p[k] \in S
    BY ElementOfSeq
  <2> QED BY <2>1, <2>2
<1> HIDE DEF a
<1>2. /\ u \in Seq(S) /\ Len(u) = IF a <= z THEN z - a + 1 ELSE 0
      /\ \A k \in 1 .. z - a + 1 : u[k] = p[a + k - 1]
  BY <1>0, <1>1, SubSeqProperties
<1> HIDE DEF u
<1>3. CASE i <= z
  <2> DEFINE n == z - i
  <2>1. n \in Nat /\ n = z - a + 1 /\ i + n <= Len(p) /\ Len(u) = n /\ Len(u) \in Nat
    BY <1>0, <1>2, <1>3 DEF a
  <2>2. \A k \in 1 .. n : u[k] = p[i + k]
    <3>1. ASSUME NEW k \in 1 .. n PROVE a + k - 1 = i + k
      BY <2>1 DEF a
    <3> HIDE DEF n
    <3> QED BY <1>2, <2>1, <3>1
  <2> HIDE DEF n
  <2>3. Piece(u, p, i, n)
    BY <2>1, <2>2 DEF Piece
  <2>4. n = z - i
    BY DEF n
  <2>5. IsCut(u, p, i, z)
    BY <2>1, <2>3, <2>4 DEF IsCut
  <2> QED BY <1>2, <2>5 DEF u, a
<1>4. CASE i > z
  <2>1. Len(u) = 0
    BY <1>0, <1>2, <1>4 DEF a
  <2>2. Piece(u, p, 0, 0)
    BY <1>0, <2>1 DEF Piece
  <2>3. ~(i <= z)
    BY <1>4
  <2>4. IsCut(u, p, i, z)
    BY <2>2, <2>3 DEF IsCut
  <2> QED BY <1>2, <2>4 DEF u, a
<1> QED BY <1>3, <1>4

(* A torn line is a piece of the printed one.                              *)
LEMMA LineTear ==
  ASSUME LineInv, Tear PROVE LineInv'
<1> DEFINE p == Printed(logged)
<1>1. logged # <<>> /\ ~torn /\ torn' = TRUE /\ logged' = logged
  BY DEF Tear
<1>2. line = p /\ line \in Seq(Letters) /\ logged \in PrintedReadings
  BY <1>1 DEF LineInv
<1>3. PICK i \in 0 .. Len(line), j \in 0 .. Len(line) : line' = SubSeq(line, i + 1, Len(line) - j)
  BY DEF Tear
<1> DEFINE z == Len(line) - j
<1>4. i \in Nat /\ z \in Nat /\ z <= Len(line)
  BY <1>2
<1>5. line' = SubSeq(line, i + 1, z)
  BY <1>3
<1> HIDE DEF z
<1>6. /\ SubSeq(line, i + 1, z) \in Seq(Letters)
      /\ IsCut(SubSeq(line, i + 1, z), line, i, z)
  BY <1>2, <1>4, CutIs
<1>7. line' \in Seq(Letters) /\ \E off, n : Piece(line', p, off, n)
  BY <1>2, <1>5, <1>6 DEF IsCut
<1>8. (Letters = Letters') /\ Printed(logged') = p
  BY <1>1 DEF Letters
<1> QED BY <1>1, <1>2, <1>7, <1>8 DEF LineInv

(* A restart leaves a piece of the line, and the loader's first words.     *)
LEMMA LineRestart ==
  ASSUME LineInv, Restart PROVE LineInv'
<1> DEFINE p == Printed(logged)
           e == <<"e", "t", "s">>
<1>1. logged # <<>> /\ ~torn /\ torn' = TRUE /\ logged' = logged
  BY DEF Restart
<1>2. line = p /\ line \in Seq(Letters) /\ logged \in PrintedReadings
  BY <1>1 DEF LineInv
<1>3. PICK j \in 0 .. Len(line) : line' = SubSeq(line, 1, j) \o <<"e", "t", "s">>
  BY DEF Restart
<1> DEFINE c == SubSeq(line, 0 + 1, j)
<1>4. 0 \in Nat /\ j \in Nat /\ j <= Len(line) /\ Len(line) \in Nat
  BY <1>2
<1>5. /\ c \in Seq(Letters)
      /\ IsCut(c, line, 0, j)
  BY <1>2, <1>4, CutIs
<1>5a. line' = c \o e
  BY <1>3
<1>6. e \in Seq(Letters) /\ Len(e) = 3 /\ e[1] = "e" /\ e[2] = "t" /\ e[3] = "s"
  <2>1. "e" \in Letters /\ "t" \in Letters /\ "s" \in Letters
    BY HeaderIs DEF Letters
  <2> QED BY <2>1
<1> HIDE DEF c, e
<1>7. Piece(c, line, 0, j) /\ Len(c) = j
  BY <1>4, <1>5 DEF IsCut
<1> DEFINE u == c \o e
<1>8. /\ u \in Seq(Letters) /\ Len(u) = Len(c) + Len(e)
      /\ \A k \in 1 .. Len(c) : u[k] = c[k]
      /\ \A k \in 1 .. Len(e) : u[Len(c) + k] = e[k]
  <2>1. c \in Seq(Letters) /\ e \in Seq(Letters)
    BY <1>5, <1>6
  <2> QED BY <2>1, JoinIs
<1> HIDE DEF u
<1>9. Piece(u, line, 0, j)
  <2>1. Len(u) = j + 3 /\ u[j + 1] = "e" /\ u[j + 2] = "t" /\ u[j + 3] = "s"
    BY <1>6, <1>7, <1>8
  <2>2. \A k \in 1 .. j : u[k] = c[k]
    BY <1>7, <1>8
  <2>3. \A k \in 1 .. j : c[k] = line[0 + k]
    BY <1>7 DEF Piece
  <2> QED BY <1>4, <2>1, <2>2, <2>3 DEF Piece
<1>10. line' \in Seq(Letters) /\ \E off, n : Piece(line', p, off, n)
  BY <1>2, <1>5a, <1>8, <1>9 DEF u
<1>11. (Letters = Letters') /\ Printed(logged') = p
  BY <1>1 DEF Letters
<1> QED BY <1>1, <1>2, <1>10, <1>11 DEF LineInv

(* A character more is a text after the tag still.                         *)
LEMMA LineType ==
  ASSUME LineInv, TypeCharacter PROVE LineInv'
<1>1. logged = <<>> /\ logged' = logged /\ torn' = torn
  BY DEF TypeCharacter
<1>2. PICK c \in Alphabet : line' = Append(line, c)
  BY DEF TypeCharacter
<1>3. line \in Seq(Letters) /\ Headed(line)
  BY <1>1 DEF LineInv
<1>4. c \in Letters
  BY DEF Letters
<1> DEFINE u == Append(line, c)
<1>5. /\ u \in Seq(Letters) /\ Len(u) = Len(line) + 1 /\ u[Len(line) + 1] = c
      /\ \A k \in 1 .. Len(line) : u[k] = line[k]
  BY <1>3, <1>4, AppendProperties
<1> HIDE DEF u
<1>6. Len(line) \in Nat /\ Len(line) >= 5
  BY <1>3 DEF Headed, Tagged
<1>7. Headed(u)
  <2>1. \A k \in 6 .. Len(u) : u[k] \in Alphabet
    <3>1. ASSUME NEW k \in 6 .. Len(u) PROVE k \in 6 .. Len(line) \/ k = Len(line) + 1
      BY <1>5, <1>6
    <3>2. \A k \in 6 .. Len(line) : line[k] \in Alphabet /\ k \in 1 .. Len(line)
      BY <1>3, <1>6 DEF Headed, Tagged
    <3> QED BY <1>5, <3>1, <3>2
  <2>2. 1 \in 1 .. Len(line) /\ 2 \in 1 .. Len(line) /\ 3 \in 1 .. Len(line) /\ 4 \in 1 .. Len(line) /\ 5 \in 1 .. Len(line)
    BY <1>6
  <2>3. u[1] = "I" /\ u[2] = "q" /\ u[3] = "f" /\ u[4] = ":" /\ u[5] = Blank
    BY <1>3, <1>5, <2>2 DEF Headed, Tagged
  <2>4. Len(u) >= 5
    BY <1>5, <1>6
  <2> QED BY <2>1, <2>3, <2>4 DEF Headed, Tagged
<1>8. line' \in Seq(Letters) /\ Headed(line')
  BY <1>2, <1>5, <1>7 DEF u
<1>9. logged \in PrintedReadings \cup {<<>>} /\ torn \in BOOLEAN
  BY DEF LineInv
<1>10. Letters = Letters' /\ logged' = <<>>
  BY <1>1 DEF Letters
<1> QED BY <1>1, <1>8, <1>9, <1>10 DEF LineInv

(* So every step leaves one of these texts.                                *)
LEMMA LineStep ==
  ASSUME LineInv, LineNext \/ UNCHANGED lineVars PROVE LineInv'
<1>1. CASE Tear
  BY <1>1, LineTear
<1>2. CASE Restart
  BY <1>2, LineRestart
<1>3. CASE TypeCharacter
  BY <1>3, LineType
<1>4. CASE UNCHANGED lineVars
  BY <1>4 DEF LineInv, lineVars, Letters
<1> QED BY <1>1, <1>2, <1>3, <1>4 DEF LineNext

(* What a reader gets is one of these texts in every state.                *)
THEOREM LineInvariant ==
  LineSpec => []LineInv
<1>1. LineInit => LineInv
  BY LineInit0
<1>2. LineInv /\ [LineNext]_lineVars => LineInv'
  BY LineStep
<1> QED BY <1>1, <1>2, PTL DEF LineSpec

(* The texts are of the type.                                              *)
LEMMA LineTypes ==
  ASSUME LineInv PROVE LineTypeOK
<1>1. line \in Seq(Letters)
  BY DEF LineInv
<1>2. \A k \in DOMAIN line : line[k] \in Letters
  BY <1>1
<1>3. Range(line) \subseteq Characters \cup Alphabet
  BY <1>2 DEF Range, Letters
<1> QED BY <1>3 DEF LineInv, LineTypeOK

(* A line has no other characters than the firmware prints, its loader     *)
(* writes or the tests' texts are made of (receiver/main.c ESP_LOGI).      *)
THEOREM LineTypeCorrect ==
  LineSpec => []LineTypeOK
<1>1. LineInv => LineTypeOK
  BY LineTypes
<1> QED BY <1>1, LineInvariant, PTL

(* A result of the same three numbers is nearly right.                     *)
LEMMA NearIs ==
  ASSUME NEW r \in Int \X Nat \X Nat \X Nat, NEW out, Near(out, r), out # <<>>
  PROVE  SubSeq(out, 1, 3) = SubSeq(r, 1, 3) /\ out[4] \in LeadingDigits(r[4])
<1>1. PICK w \in LeadingDigits(r[4]) : out = <<r[1], r[2], r[3], w>>
  BY DEF Near
<1> DEFINE R1 == r[1]
           R2 == r[2]
           R3 == r[3]
           R4 == r[4]
           S == {R1, R2, R3, R4, w}
<1>2. out = <<R1, R2, R3, w>> /\ r = <<R1, R2, R3, R4>>
  BY <1>1
<1>3. R1 \in S /\ R2 \in S /\ R3 \in S /\ R4 \in S /\ w \in S
  OBVIOUS
<1> HIDE DEF R1, R2, R3, R4, S
<1>4. /\ out[1] = R1 /\ out[2] = R2 /\ out[3] = R3 /\ out[4] = w
      /\ r[1] = R1 /\ r[2] = R2 /\ r[3] = R3
  BY <1>2
<1>5. \A k \in 1 .. 3 : out[k] \in S /\ out[k] = r[k]
  BY <1>3, <1>4
<1>6. ASSUME NEW x, \A k \in 1 .. 3 : x[k] \in S
      PROVE  SubSeq(x, 1, 3) \in Seq(S) /\ Len(SubSeq(x, 1, 3)) = 3 /\ \A k \in 1 .. 3 : SubSeq(x, 1, 3)[k] = x[k]
  <2> DEFINE u == SubSeq(x, 1, 3)
  <2>1. 1 \in Int /\ 3 \in Int
    OBVIOUS
  <2>2. /\ u \in Seq(S) /\ Len(u) = IF 1 <= 3 THEN 3 - 1 + 1 ELSE 0
        /\ \A k \in 1 .. 3 - 1 + 1 : u[k] = x[1 + k - 1]
    BY <1>6, <2>1, SubSeqProperties
  <2> HIDE DEF u
  <2>3. Len(u) = 3 /\ \A k \in 1 .. 3 : u[k] = x[k]
    BY <2>2
  <2> QED BY <2>2, <2>3 DEF u
<1> DEFINE u == SubSeq(out, 1, 3)
           v == SubSeq(r, 1, 3)
<1>7. u \in Seq(S) /\ Len(u) = 3 /\ \A k \in 1 .. 3 : u[k] = out[k]
  BY <1>5, <1>6
<1>8. v \in Seq(S) /\ Len(v) = 3 /\ \A k \in 1 .. 3 : v[k] = r[k]
  BY <1>5, <1>6
<1> HIDE DEF u, v
<1>9. u = v
  BY <1>5, <1>7, <1>8, SeqEqual
<1> QED BY <1>1, <1>4, <1>9 DEF u, v

(* Both readers understand a whole line, and misunderstand a torn one only *)
(* in its last number (serial.go parseFast, easy_server parsePayload).     *)
LEMMA LineUnderstood ==
  ASSUME LineInv PROVE LinesUnderstood
<1> SUFFICES ASSUME logged # <<>> PROVE LinesUnderstood
  BY DEF LinesUnderstood, WholeLinesUnderstood, NearlyRight
<1> DEFINE r == logged
           p == Printed(logged)
<1>1. logged \in PrintedReadings /\ line \in Seq(Letters)
  BY DEF LineInv
<1>2. r \in Int \X Nat \X Nat \X Nat /\ r \in Int \X Int \X Int \X Int
  BY <1>1, ReadingIs
<1>3. PICK g : Laid(p, r, g)
  BY <1>2, PrintedIs
<1>4. Comma \in Letters
  BY HeaderIs DEF Letters
<1>5. PICK off, n : Piece(line, p, off, n)
  BY DEF LineInv
<1> HIDE DEF p
<1>6. Near(parseFast(line), logged) /\ Near(parsePayload(line), logged)
  <2>1. Near(parseFast(line), logged)
    BY <1>2, <1>3, <1>5, FastOfPiece
  <2>2. Near(parsePayload(line), logged)
    BY <1>1, <1>2, <1>3, <1>4, <1>5, PayloadOfPiece
  <2> QED BY <2>1, <2>2
<1>7. NearlyRight
  BY <1>2, <1>6, NearIs DEF NearlyRight
<1>8. WholeLinesUnderstood
  <2> SUFFICES ASSUME ~torn PROVE parseFast(line) = logged /\ parsePayload(line) = logged
    BY DEF WholeLinesUnderstood
  <2>1. line = p
    BY DEF LineInv, p
  <2>2. Piece(line, p, 0, Len(p))
    BY <1>2, <2>1, WholePiece DEF p
  <2>3. parseFast(line) = logged
    BY <1>2, <1>3, <2>2, FastOfPiece
  <2>4. parsePayload(line) = logged
    BY <1>1, <1>2, <1>3, <1>4, <2>1, <2>2, PayloadOfPiece
  <2> QED BY <2>3, <2>4
<1> QED BY <1>7, <1>8 DEF LinesUnderstood

(* Both readers understand a whole line, and misunderstand a torn one only *)
(* in its last number (serial.go parseFast, easy_server parsePayload), for *)
(* any reading that can be printed and wherever the line is torn.          *)
THEOREM LinesTrue ==
  LineSpec => []LinesUnderstood
<1>1. LineInv => LinesUnderstood
  BY LineUnderstood
<1> QED BY <1>1, LineInvariant, PTL

-----------------------------------------------------------------------------
(* Four parts: what the tests' parser takes of a text.                     *)

(* Some numbers have a least one, and a greatest one if they are bounded.  *)
LEMMA LeastIs ==
  ASSUME NEW S \in SUBSET Nat, S # {}
  PROVE  Min(S) \in S /\ \A k \in S : Min(S) <= k
<1> DEFINE T == {n \in Nat : \A k \in 0 .. n : k \notin S}
<1>1. CASE \E m \in S : \A k \in S : m <= k
  BY <1>1, MinIs
<1>2. CASE ~ \E m \in S : \A k \in S : m <= k
  <2>1. 0 \in T
    BY <1>2
  <2>2. ASSUME NEW n \in Nat, n \in T PROVE n + 1 \in T
    <3>1. n + 1 \notin S
      <4> SUFFICES ASSUME n + 1 \in S PROVE FALSE
        OBVIOUS
      <4>1. PICK k \in S : ~(n + 1 <= k)
        BY <1>2
      <4>2. k \in 0 .. n
        BY <4>1
      <4> QED BY <2>2, <4>2
    <3>2. \A k \in 0 .. n + 1 : k \in 0 .. n \/ k = n + 1
      OBVIOUS
    <3> QED BY <2>2, <3>1, <3>2
  <2>3. Nat \subseteq T
    <3> HIDE DEF T
    <3> QED BY <2>1, <2>2, SetInduction
  <2>4. PICK m : m \in S
    OBVIOUS
  <2>5. m \in T /\ m \in 0 .. m
    BY <2>3, <2>4
  <2> QED BY <2>4, <2>5
<1> QED BY <1>1, <1>2

LEMMA GreatestIs ==
  ASSUME NEW S \in SUBSET Nat, S # {}, NEW N \in Nat, \A k \in S : k <= N
  PROVE  Max(S) \in S /\ \A k \in S : k <= Max(S)
<1> DEFINE R == {N - k : k \in S}
<1>1. R \in SUBSET Nat /\ R # {}
  <2>1. \A k \in S : N - k \in Nat
    OBVIOUS
  <2> QED BY <2>1
<1>2. PICK low \in R : \A k \in R : low <= k
  <2> HIDE DEF R
  <2>1. Min(R) \in R /\ \A k \in R : Min(R) <= k
    BY <1>1, LeastIs
  <2> QED BY <2>1
<1>3. PICK high \in S : low = N - high
  OBVIOUS
<1>4. \A k \in S : high >= k
  <2> SUFFICES ASSUME NEW k \in S PROVE high >= k
    OBVIOUS
  <2>1. N - k \in R
    OBVIOUS
  <2>2. low <= N - k
    BY <1>2, <2>1
  <2> QED BY <1>3, <2>2
<1>5. Max(S) = high
  BY <1>4, MaxIs
<1> QED BY <1>4, <1>5

(* Where the digits end.                                                   *)
LEMMA RunEnds ==
  ASSUME NEW s, Len(s) \in Nat, NEW j \in Nat, j <= Len(s) + 1
  PROVE  \E e \in Nat : /\ j <= e /\ e <= Len(s) + 1 /\ \A k \in j .. e - 1 : s[k] \in DigitChars
                        /\ e > Len(s) \/ s[e] \notin DigitChars
<1> DEFINE S == {k \in j .. Len(s) + 1 : k > Len(s) \/ s[k] \notin DigitChars}
           e == Min(S)
<1>1. S \in SUBSET Nat /\ Len(s) + 1 \in S
  OBVIOUS
<1>2. e \in S /\ \A k \in S : e <= k
  <2> HIDE DEF S
  <2> QED BY <1>1, LeastIs
<1> HIDE DEF e
<1>3. e \in Nat /\ j <= e /\ e <= Len(s) + 1 /\ (e > Len(s) \/ s[e] \notin DigitChars)
  BY <1>2
<1>4. ASSUME NEW k \in j .. e - 1 PROVE s[k] \in DigitChars
  <2>1. k \in j .. Len(s) + 1 /\ k \notin S
    BY <1>2, <1>3
  <2> QED BY <2>1
<1> QED BY <1>3, <1>4

(* A sign, if there is one, and at least one digit.                        *)
Number(s, i, j) == Numeral(s, i, j) /\ j > PastSign(s, i)

(* It ends with a digit.                                                   *)
LEMMA NumberIs ==
  ASSUME NEW s, Len(s) \in Nat, NEW i, NEW j, Number(s, i, j)
  PROVE  /\ i \in Nat /\ j \in Nat /\ i > 0 /\ i < j /\ j <= Len(s) + 1
         /\ \A k \in i .. j - 1 : s[k] \in DigitChars \cup {"-"}
         /\ s[j - 1] \in DigitChars
         /\ PastSign(s, i) = i \/ (PastSign(s, i) = i + 1 /\ s[i] = "-" /\ i + 1 < j)
<1> DEFINE b == PastSign(s, i)
<1>1. /\ i \in Nat /\ j \in Nat /\ i > 0 /\ b <= j /\ j <= Len(s) + 1 /\ b < j
      /\ \A k \in b .. j - 1 : s[k] \in DigitChars
  BY DEF Number, Numeral
<1>2. b = i \/ (b = i + 1 /\ s[i] = "-")
  BY DEF PastSign
<1> HIDE DEF b
<1>3. i < j /\ (b = i \/ (b = i + 1 /\ s[i] = "-" /\ i + 1 < j))
  BY <1>1, <1>2
<1>4. ASSUME NEW k \in i .. j - 1 PROVE s[k] \in DigitChars \cup {"-"}
  <2>1. k \in b .. j - 1 \/ (k = i /\ s[i] = "-")
    BY <1>1, <1>2
  <2> QED BY <1>1, <2>1
<1>5. s[j - 1] \in DigitChars
  <2>1. j - 1 \in b .. j - 1
    BY <1>1, <1>2
  <2> QED BY <1>1, <2>1
<1> QED BY <1>1, <1>3, <1>4, <1>5 DEF b

(* The same characters, d further on, are the same number.                 *)
Same(x, y, d, i, j) == \A k \in i .. j - 1 : x[k + d] = y[k]

LEMMA NumberShifted ==
  ASSUME NEW y, Len(y) \in Nat, NEW i, NEW j, Number(y, i, j),
         NEW x, Len(x) \in Nat, NEW d \in Int, i + d > 0, j + d <= Len(x) + 1,
         Same(x, y, d, i, j)
  PROVE  /\ Number(x, i + d, j + d)
         /\ NumeralValue(x, i + d, j + d) = NumeralValue(y, i, j)
<1> DEFINE b == PastSign(y, i)
           a == PastSign(x, i + d)
<1>1. /\ i \in Nat /\ j \in Nat /\ i > 0 /\ i < j /\ j <= Len(y) + 1
      /\ b = i \/ (b = i + 1 /\ y[i] = "-" /\ i + 1 < j)
  BY NumberIs
<1>2. b < j /\ \A k \in b .. j - 1 : y[k] \in DigitChars
  BY DEF Number, Numeral
<1>3. i \in i .. j - 1 /\ i <= Len(y) /\ i + d <= Len(x)
  BY <1>1
<1>4. x[i + d] = y[i]
  BY <1>3 DEF Same
<1>5. a = b + d /\ b \in Nat
  <2>1. CASE y[i] = "-"
    <3>1. b = i + 1 /\ a = i + d + 1
      BY <1>1, <1>3, <1>4, <2>1 DEF PastSign
    <3> QED BY <1>1, <3>1
  <2>2. CASE y[i] # "-"
    <3>1. b = i /\ a = i + d
      BY <1>1, <1>3, <1>4, <2>2 DEF PastSign
    <3> QED BY <1>1, <3>1
  <2> QED BY <2>1, <2>2
<1>6. PastSign(x, i + d) = a /\ PastSign(y, i) = b
  OBVIOUS
<1> HIDE DEF a, b
<1>7. ASSUME NEW k \in a .. j + d - 1 PROVE x[k] \in DigitChars
  <2>1. k - d \in b .. j - 1 /\ k - d \in i .. j - 1 /\ (k - d) + d = k
    BY <1>1, <1>5
  <2>2. x[(k - d) + d] = y[k - d]
    BY <2>1 DEF Same
  <2> QED BY <1>2, <2>1, <2>2
<1>8. Number(x, i + d, j + d)
  <2>1. i + d \in Nat /\ j + d \in Nat /\ a <= j + d /\ j + d > a
    BY <1>1, <1>2, <1>5
  <2> QED BY <1>6, <1>7, <2>1 DEF Number, Numeral
<1>9. SubSeq(x, a, j + d - 1) = SubSeq(y, b, j - 1)
  <2> DEFINE t == SubSeq(y, b, j - 1)
  <2>1. b \in Int /\ j - 1 \in Int /\ b <= j - 1
    BY <1>1, <1>2, <1>5
  <2>2. /\ t \in Seq(DigitChars) /\ Len(t) = IF b <= j - 1 THEN (j - 1) - b + 1 ELSE 0
        /\ \A k \in 1 .. (j - 1) - b + 1 : t[k] = y[b + k - 1]
    BY <1>2, <2>1, SubSeqProperties, SMTT(40)
  <2> HIDE DEF t
  <2>3. Len(t) = j - b /\ \A k \in 1 .. j - b : t[k] = y[b + k - 1]
    <3>1. (j - 1) - b + 1 = j - b
      BY <1>1, <1>5
    <3> QED BY <2>1, <2>2, <3>1
  <2>4. \A k \in 1 .. Len(t) : x[a + k - 1] = t[k]
    <3> SUFFICES ASSUME NEW k \in 1 .. Len(t) PROVE x[a + k - 1] = t[k]
      OBVIOUS
    <3>1. b + k - 1 \in i .. j - 1 /\ (b + k - 1) + d = a + k - 1 /\ k \in 1 .. j - b
      BY <1>1, <1>5, <2>3
    <3> QED BY <2>3, <3>1 DEF Same
  <2>5. a \in Int /\ j + d - 1 \in Int /\ Len(t) = (j + d - 1) - a + 1
    BY <1>1, <1>5, <2>3
  <2>6. SubSeq(x, a, j + d - 1) = t
    BY <2>2, <2>4, <2>5, PartIs
  <2> QED BY <2>6 DEF t
<1>10. NumeralValue(x, i + d, j + d) = NumeralValue(y, i, j)
  <2>1. CASE b = i
    <3>1. a = i + d
      BY <1>5, <2>1
    <3>2. NumeralValue(x, i + d, j + d) = Value(SubSeq(x, a, j + d - 1))
      <4> DEFINE I == i + d
                 J == j + d
      <4>1. PastSign(x, I) = a /\ a = I
        BY <1>6, <3>1
      <4> HIDE DEF I, J
      <4>2. NumeralValue(x, I, J) = Value(SubSeq(x, I, J - 1))
        BY <4>1 DEF NumeralValue
      <4>3. NumeralValue(x, I, J) = Value(SubSeq(x, a, J - 1))
        BY <4>1, <4>2
      <4>4. J - 1 = j + d - 1
        BY <1>1 DEF J
      <4> QED BY <4>3, <4>4 DEF I, J
    <3>3. NumeralValue(y, i, j) = Value(SubSeq(y, b, j - 1))
      BY <1>6, <2>1 DEF NumeralValue
    <3> QED BY <1>9, <3>2, <3>3
  <2>2. CASE b = i + 1
    <3>1. a = i + d + 1 /\ a # i + d /\ b # i
      BY <1>1, <1>5, <2>2
    <3>2. NumeralValue(x, i + d, j + d) = -Value(SubSeq(x, a, j + d - 1))
      <4> DEFINE I == i + d
                 J == j + d
      <4>1. PastSign(x, I) = a /\ a = I + 1 /\ a # I
        BY <1>6, <3>1
      <4> HIDE DEF I, J
      <4>2. NumeralValue(x, I, J) = -Value(SubSeq(x, I + 1, J - 1))
        BY <4>1 DEF NumeralValue
      <4>3. NumeralValue(x, I, J) = -Value(SubSeq(x, a, J - 1))
        BY <4>1, <4>2
      <4>4. J - 1 = j + d - 1
        BY <1>1 DEF J
      <4> QED BY <4>3, <4>4 DEF I, J
    <3>3. NumeralValue(y, i, j) = -Value(SubSeq(y, b, j - 1))
      BY <1>6, <2>2, <3>1 DEF NumeralValue
    <3> QED BY <1>9, <3>2, <3>3
  <2> QED BY <1>1, <2>1, <2>2
<1> QED BY <1>8, <1>10

(* A number with more digits after it is a number.                         *)
LEMMA NumberGrown ==
  ASSUME NEW s, Len(s) \in Nat, NEW i, NEW j, Number(s, i, j),
         NEW e \in Nat, j <= e, e <= Len(s) + 1, \A k \in j .. e - 1 : s[k] \in DigitChars
  PROVE  Number(s, i, e)
<1> DEFINE b == PastSign(s, i)
<1>1. /\ i \in Nat /\ j \in Nat /\ i > 0 /\ b < j
      /\ \A k \in b .. j - 1 : s[k] \in DigitChars
  BY DEF Number, Numeral
<1>2. b = i \/ b = i + 1
  BY DEF PastSign
<1> HIDE DEF b
<1>3. \A k \in b .. e - 1 : k \in b .. j - 1 \/ k \in j .. e - 1
  BY <1>1, <1>2
<1>4. b < e /\ b <= e
  BY <1>1, <1>2
<1> QED BY <1>1, <1>3, <1>4 DEF Number, Numeral, b

(* parseInt reads all the digits there are.                                *)
LEMMA NumberParsed ==
  ASSUME NEW s, Len(s) \in Nat, NEW i, NEW j, Number(s, i, j), j > Len(s) \/ s[j] \notin DigitChars
  PROVE  parseInt(s, i).ok /\ parseInt(s, i).next = j /\ parseInt(s, i).val = NumeralValue(s, i, j)
<1>1. Numeral(s, i, j) /\ j > PastSign(s, i)
  BY DEF Number
<1>2. /\ (parseInt(s, i).ok <=> j > PastSign(s, i)) /\ parseInt(s, i).next = j
      /\ parseInt(s, i).val = NumeralValue(s, i, j)
  BY <1>1, ParseIntIs
<1> QED BY <1>1, <1>2

(* What parseInt reads is a number.                                        *)
LEMMA ParsedNumber ==
  ASSUME NEW s, Len(s) \in Nat, NEW i \in Nat, i > 0, i <= Len(s) + 1, parseInt(s, i).ok
  PROVE  /\ Number(s, i, parseInt(s, i).next)
         /\ parseInt(s, i).next > Len(s) \/ s[parseInt(s, i).next] \notin DigitChars
<1> DEFINE b == PastSign(s, i)
<1>1. b \in Nat /\ b <= Len(s) + 1 /\ (b = i \/ b = i + 1)
  BY DEF PastSign
<1>2. PICK e \in Nat : /\ b <= e /\ e <= Len(s) + 1 /\ \A k \in b .. e - 1 : s[k] \in DigitChars
                       /\ e > Len(s) \/ s[e] \notin DigitChars
  <2> HIDE DEF b
  <2> QED BY <1>1, RunEnds
<1>3. Numeral(s, i, e)
  BY <1>2 DEF Numeral
<1>4. (parseInt(s, i).ok <=> e > PastSign(s, i)) /\ parseInt(s, i).next = e
  BY <1>2, <1>3, ParseIntIs
<1>5. Number(s, i, e)
  BY <1>3, <1>4 DEF Number
<1> QED BY <1>2, <1>4, <1>5

(* Four numbers with a comma after each but the last.                      *)
FourParts(s, i, c1, c2, c3, e) ==
  /\ Number(s, i, c1) /\ s[c1] = Comma /\ Number(s, c1 + 1, c2) /\ s[c2] = Comma
  /\ Number(s, c2 + 1, c3) /\ s[c3] = Comma /\ Number(s, c3 + 1, e)
FourValues(s, i, c1, c2, c3, e) ==
  <<NumeralValue(s, i, c1), NumeralValue(s, c1 + 1, c2), NumeralValue(s, c2 + 1, c3),
    NumeralValue(s, c3 + 1, e)>>

(* The parts come one after the other, and have no further comma.          *)
LEMMA PartsAre ==
  ASSUME NEW s, Len(s) \in Nat, NEW i, NEW c1, NEW c2, NEW c3, NEW e, FourParts(s, i, c1, c2, c3, e)
  PROVE  /\ i \in Nat /\ c1 \in Nat /\ c2 \in Nat /\ c3 \in Nat /\ e \in Nat
         /\ 0 < i /\ i < c1 /\ c1 + 1 < c2 /\ c2 + 1 < c3 /\ c3 + 1 < e /\ e <= Len(s) + 1
         /\ \A k \in i .. e - 1 : s[k] \in DigitChars \cup {"-", Comma}
         /\ \A k \in i .. e - 1 : s[k] = Comma => k = c1 \/ k = c2 \/ k = c3
         /\ s[e - 1] \in DigitChars
<1>1. Number(s, i, c1) /\ Number(s, c1 + 1, c2) /\ Number(s, c2 + 1, c3) /\ Number(s, c3 + 1, e)
  BY DEF FourParts
<1>2. /\ i \in Nat /\ c1 \in Nat /\ i > 0 /\ i < c1
      /\ \A k \in i .. c1 - 1 : s[k] \in DigitChars \cup {"-"}
  BY <1>1, NumberIs
<1>3. c2 \in Nat /\ c1 + 1 < c2 /\ \A k \in c1 + 1 .. c2 - 1 : s[k] \in DigitChars \cup {"-"}
  BY <1>1, NumberIs
<1>4. c3 \in Nat /\ c2 + 1 < c3 /\ \A k \in c2 + 1 .. c3 - 1 : s[k] \in DigitChars \cup {"-"}
  BY <1>1, NumberIs
<1>5. /\ e \in Nat /\ c3 + 1 < e /\ \A k \in c3 + 1 .. e - 1 : s[k] \in DigitChars \cup {"-"}
      /\ e <= Len(s) + 1 /\ s[e - 1] \in DigitChars
  BY <1>1, NumberIs
<1>6. s[c1] = Comma /\ s[c2] = Comma /\ s[c3] = Comma
  BY DEF FourParts
<1>7. ASSUME NEW k \in i .. e - 1
      PROVE  \/ k = c1 \/ k = c2 \/ k = c3
             \/ k \in i .. c1 - 1 \/ k \in c1 + 1 .. c2 - 1 \/ k \in c2 + 1 .. c3 - 1 \/ k \in c3 + 1 .. e - 1
  BY <1>2, <1>3, <1>4, <1>5
<1>8. ASSUME NEW k \in i .. e - 1
      PROVE  s[k] \in DigitChars \cup {"-", Comma} /\ (s[k] = Comma => k = c1 \/ k = c2 \/ k = c3)
  <2>1. (k = c1 \/ k = c2 \/ k = c3) \/ s[k] \in DigitChars \cup {"-"}
    BY <1>2, <1>3, <1>4, <1>5, <1>7
  <2> QED BY <1>6, <2>1, CharsDiffer
<1> QED BY <1>2, <1>3, <1>4, <1>5, <1>8

(* The same characters elsewhere are the same four parts.                  *)
LEMMA PartsShifted ==
  ASSUME NEW y, Len(y) \in Nat, NEW i, NEW c1, NEW c2, NEW c3, NEW e, FourParts(y, i, c1, c2, c3, e),
         NEW x, Len(x) \in Nat, NEW d \in Int, i + d > 0, e + d <= Len(x) + 1,
         Same(x, y, d, i, e)
  PROVE  /\ FourParts(x, i + d, c1 + d, c2 + d, c3 + d, e + d)
         /\ FourValues(x, i + d, c1 + d, c2 + d, c3 + d, e + d) = FourValues(y, i, c1, c2, c3, e)
<1>1. /\ i \in Nat /\ c1 \in Nat /\ c2 \in Nat /\ c3 \in Nat /\ e \in Nat
      /\ 0 < i /\ i < c1 /\ c1 + 1 < c2 /\ c2 + 1 < c3 /\ c3 + 1 < e /\ e <= Len(y) + 1
  BY PartsAre
<1>2. Number(y, i, c1) /\ Number(y, c1 + 1, c2) /\ Number(y, c2 + 1, c3) /\ Number(y, c3 + 1, e)
  BY DEF FourParts
<1>3. ASSUME NEW a, NEW z, Number(y, a, z), i <= a, z <= e, a \in Nat, z \in Nat
      PROVE  /\ Number(x, a + d, z + d)
             /\ NumeralValue(x, a + d, z + d) = NumeralValue(y, a, z)
  <2>1. a + d > 0 /\ z + d <= Len(x) + 1
    BY <1>1, <1>3
  <2>2. Same(x, y, d, a, z)
    <3>1. \A k \in a .. z - 1 : k \in i .. e - 1
      BY <1>1, <1>3
    <3> QED BY <3>1 DEF Same
  <2> QED BY <1>3, <2>1, <2>2, NumberShifted, SMTT(40)
<1>4. /\ c1 + 1 + d = c1 + d + 1 /\ c2 + 1 + d = c2 + d + 1 /\ c3 + 1 + d = c3 + d + 1
      /\ c1 <= e /\ c2 <= e /\ c3 <= e /\ e <= e
      /\ i <= i /\ i <= c1 + 1 /\ i <= c2 + 1 /\ i <= c3 + 1
      /\ c1 + 1 \in Nat /\ c2 + 1 \in Nat /\ c3 + 1 \in Nat
      /\ c1 \in i .. e - 1 /\ c2 \in i .. e - 1 /\ c3 \in i .. e - 1
  BY <1>1
<1>5. Number(x, i + d, c1 + d) /\ NumeralValue(x, i + d, c1 + d) = NumeralValue(y, i, c1)
  BY <1>1, <1>2, <1>3, <1>4
<1>6. /\ Number(x, c1 + d + 1, c2 + d)
      /\ NumeralValue(x, c1 + d + 1, c2 + d) = NumeralValue(y, c1 + 1, c2)
  <2>1. Number(x, c1 + 1 + d, c2 + d) /\ NumeralValue(x, c1 + 1 + d, c2 + d) = NumeralValue(y, c1 + 1, c2)
    BY <1>1, <1>2, <1>3, <1>4
  <2> QED BY <1>4, <2>1
<1>7. /\ Number(x, c2 + d + 1, c3 + d)
      /\ NumeralValue(x, c2 + d + 1, c3 + d) = NumeralValue(y, c2 + 1, c3)
  <2>1. Number(x, c2 + 1 + d, c3 + d) /\ NumeralValue(x, c2 + 1 + d, c3 + d) = NumeralValue(y, c2 + 1, c3)
    BY <1>1, <1>2, <1>3, <1>4
  <2> QED BY <1>4, <2>1
<1>8. /\ Number(x, c3 + d + 1, e + d)
      /\ NumeralValue(x, c3 + d + 1, e + d) = NumeralValue(y, c3 + 1, e)
  <2>1. Number(x, c3 + 1 + d, e + d) /\ NumeralValue(x, c3 + 1 + d, e + d) = NumeralValue(y, c3 + 1, e)
    BY <1>1, <1>2, <1>3, <1>4
  <2> QED BY <1>4, <2>1
<1>9. x[c1 + d] = Comma /\ x[c2 + d] = Comma /\ x[c3 + d] = Comma
  <2>1. y[c1] = Comma /\ y[c2] = Comma /\ y[c3] = Comma
    BY DEF FourParts
  <2> QED BY <1>4, <2>1 DEF Same
<1>10. FourParts(x, i + d, c1 + d, c2 + d, c3 + d, e + d)
  BY <1>5, <1>6, <1>7, <1>8, <1>9 DEF FourParts
<1>11. FourValues(x, i + d, c1 + d, c2 + d, c3 + d, e + d) = FourValues(y, i, c1, c2, c3, e)
  BY <1>5, <1>6, <1>7, <1>8 DEF FourValues
<1> QED BY <1>10, <1>11

(* parseFast's numbers are four parts, and four parts are its numbers.     *)
LEMMA FastOfParts ==
  ASSUME NEW s, Len(s) \in Nat, NEW i, NEW c1, NEW c2, NEW c3, NEW e, FourParts(s, i, c1, c2, c3, e),
         e > Len(s) \/ s[e] \notin DigitChars
  PROVE  FourNumbers(s, i) = FourValues(s, i, c1, c2, c3, e)
<1> DEFINE f1 == parseInt(s, i)
           f2 == parseInt(s, f1.next + 1)
           f3 == parseInt(s, f2.next + 1)
           f4 == parseInt(s, f3.next + 1)
           CommaAt(j) == j <= Len(s) /\ s[j] = Comma
<1>1. /\ Number(s, i, c1) /\ s[c1] = Comma /\ Number(s, c1 + 1, c2) /\ s[c2] = Comma
      /\ Number(s, c2 + 1, c3) /\ s[c3] = Comma /\ Number(s, c3 + 1, e)
  BY DEF FourParts
<1>2. s[c1] \notin DigitChars /\ s[c2] \notin DigitChars /\ s[c3] \notin DigitChars
  BY <1>1, CharsDiffer
<1>3. c1 <= Len(s) /\ c2 <= Len(s) /\ c3 <= Len(s)
  <2>1. /\ c1 \in Nat /\ c2 \in Nat /\ c3 \in Nat /\ e \in Nat
        /\ c1 + 1 < c2 /\ c2 + 1 < c3 /\ c3 + 1 < e /\ e <= Len(s) + 1
    BY PartsAre
  <2> QED BY <2>1
<1>4. f1.ok /\ f1.next = c1 /\ f1.val = NumeralValue(s, i, c1)
  BY <1>1, <1>2, NumberParsed
<1> HIDE DEF f1
<1>5. f2.ok /\ f2.next = c2 /\ f2.val = NumeralValue(s, c1 + 1, c2)
  BY <1>1, <1>2, <1>4, NumberParsed
<1> HIDE DEF f2
<1>6. f3.ok /\ f3.next = c3 /\ f3.val = NumeralValue(s, c2 + 1, c3)
  BY <1>1, <1>2, <1>5, NumberParsed
<1> HIDE DEF f3
<1>7. f4.ok /\ f4.val = NumeralValue(s, c3 + 1, e)
  BY <1>1, <1>6, NumberParsed
<1> HIDE DEF f4
<1>8. FourNumbers(s, i) =
        IF /\ f1.ok /\ CommaAt(f1.next) /\ f2.ok /\ CommaAt(f2.next)
           /\ f3.ok /\ CommaAt(f3.next) /\ f4.ok
        THEN <<f1.val, f2.val, f3.val, f4.val>> ELSE <<>>
  BY DEF FourNumbers, f1, f2, f3, f4
<1>9. CommaAt(f1.next) /\ CommaAt(f2.next) /\ CommaAt(f3.next)
  BY <1>1, <1>3, <1>4, <1>5, <1>6
<1> HIDE DEF CommaAt
<1>10. FourNumbers(s, i) = <<f1.val, f2.val, f3.val, f4.val>>
  BY <1>4, <1>5, <1>6, <1>7, <1>8, <1>9, Zenon
<1> QED BY <1>4, <1>5, <1>6, <1>7, <1>10 DEF FourValues

(* What parseFast takes is four parts.                                     *)
LEMMA PartsOfFast ==
  ASSUME NEW s, Len(s) \in Nat, NEW i \in Nat, i > 0, i <= Len(s) + 1, FourNumbers(s, i) # <<>>
  PROVE  \E c1, c2, c3, e : FourParts(s, i, c1, c2, c3, e) /\ (e > Len(s) \/ s[e] \notin DigitChars)
<1> DEFINE f1 == parseInt(s, i)
           f2 == parseInt(s, f1.next + 1)
           f3 == parseInt(s, f2.next + 1)
           f4 == parseInt(s, f3.next + 1)
           CommaAt(j) == j <= Len(s) /\ s[j] = Comma
<1>1. FourNumbers(s, i) =
        IF /\ f1.ok /\ CommaAt(f1.next) /\ f2.ok /\ CommaAt(f2.next)
           /\ f3.ok /\ CommaAt(f3.next) /\ f4.ok
        THEN <<f1.val, f2.val, f3.val, f4.val>> ELSE <<>>
  BY DEF FourNumbers
<1>2. /\ f1.ok /\ f2.ok /\ f3.ok /\ f4.ok
      /\ f1.next <= Len(s) /\ s[f1.next] = Comma /\ f2.next <= Len(s) /\ s[f2.next] = Comma
      /\ f3.next <= Len(s) /\ s[f3.next] = Comma
  <2> HIDE DEF f1, f2, f3, f4
  <2> QED BY <1>1
<1>3. Number(s, i, f1.next)
  BY <1>2, ParsedNumber
<1> HIDE DEF f1
<1>4. f1.next + 1 \in Nat /\ f1.next + 1 > 0 /\ f1.next + 1 <= Len(s) + 1
  <2>1. f1.next \in Nat
    BY <1>3, NumberIs
  <2> QED BY <1>2, <2>1
<1>5. Number(s, f1.next + 1, f2.next)
  BY <1>2, <1>4, ParsedNumber
<1> HIDE DEF f2
<1>6. f2.next + 1 \in Nat /\ f2.next + 1 > 0 /\ f2.next + 1 <= Len(s) + 1
  <2>1. f2.next \in Nat
    BY <1>5, NumberIs
  <2> QED BY <1>2, <2>1
<1>7. Number(s, f2.next + 1, f3.next)
  BY <1>2, <1>6, ParsedNumber
<1> HIDE DEF f3
<1>8. f3.next + 1 \in Nat /\ f3.next + 1 > 0 /\ f3.next + 1 <= Len(s) + 1
  <2>1. f3.next \in Nat
    BY <1>7, NumberIs
  <2> QED BY <1>2, <2>1
<1>9. Number(s, f3.next + 1, f4.next) /\ (f4.next > Len(s) \/ s[f4.next] \notin DigitChars)
  BY <1>2, <1>8, ParsedNumber
<1> HIDE DEF f4
<1>10. FourParts(s, i, f1.next, f2.next, f3.next, f4.next)
  BY <1>2, <1>3, <1>5, <1>7, <1>9 DEF FourParts
<1> QED BY <1>9, <1>10

(* A part that Atoi converts is a number.                                  *)
LEMMA AtoiIs ==
  ASSUME NEW S, NEW data \in Seq(S), NEW a \in Nat, NEW b \in Nat, a > 0, b <= Len(data)
  PROVE  /\ IsInt(SubSeq(data, a, b)) <=> Number(data, a, b + 1)
         /\ IsInt(SubSeq(data, a, b)) => Atoi(SubSeq(data, a, b)) = NumeralValue(data, a, b + 1)
<1> DEFINE q == SubSeq(data, a, b)
           j == b + 1
           past == PastSign(data, a)
<1>0. Len(data) \in Nat /\ j \in Nat /\ j - 1 = b /\ j <= Len(data) + 1 /\ a \in Int /\ b \in Int
  OBVIOUS
<1>1. \A k \in a .. b : data[k] \in S
  <2>1. \A k \in a .. b : k \in 1 .. Len(data)
    BY <1>0
  <2>2. \A k \in 1 .. Len(data) : data[k] \in S
    BY ElementOfSeq
  <2> QED BY <2>1, <2>2
<1>2. /\ q \in Seq(S) /\ Len(q) = IF a <= b THEN b - a + 1 ELSE 0
      /\ \A k \in 1 .. b - a + 1 : q[k] = data[a + k - 1]
  BY <1>0, <1>1, SubSeqProperties
<1> HIDE DEF q, j
<1>3. CASE a > b
  <2>1. q = <<>>
    <3>1. Len(q) = 0
      BY <1>2, <1>3
    <3> QED BY <1>2, <3>1, EmptySeq
  <2>2. ~IsInt(q)
    BY <2>1 DEF IsInt, Unsigned
  <2>3. ~Number(data, a, j)
    <3> SUFFICES ASSUME Number(data, a, j) PROVE FALSE
      OBVIOUS
    <3>1. a < j
      BY <1>0, NumberIs
    <3> QED BY <1>0, <1>3, <3>1
  <2> QED BY <2>2, <2>3 DEF q, j
<1>4. CASE a <= b
  <2>1. Len(q) = b - a + 1 /\ Len(q) \in Nat /\ Len(q) > 0 /\ q # <<>>
    <3>1. Len(q) = b - a + 1 /\ Len(q) > 0
      BY <1>2, <1>4
    <3> QED BY <1>2, <3>1, EmptySeq
  <2>2. q[1] = data[a]
    <3>1. 1 \in 1 .. b - a + 1 /\ a + 1 - 1 = a
      BY <1>4
    <3> QED BY <1>2, <3>1
  <2>3. past \in Nat /\ (past = IF data[a] = "-" THEN a + 1 ELSE a)
    BY <1>0, <1>4 DEF PastSign
  <2> HIDE DEF past
  <2>4. Number(data, a, j) <=> j > past /\ \A k \in past .. b : data[k] \in DigitChars
    BY <1>0, <2>3 DEF Number, Numeral, past
  <2>5. CASE data[a] # "-"
    <3>1. past = a
      BY <2>3, <2>5
    <3>2. Unsigned(q) = q /\ Atoi(q) = Value(q)
      BY <2>2, <2>5 DEF Unsigned, Atoi
    <3>3. DOMAIN q = 1 .. Len(q)
      BY <1>2
    <3>4. IsInt(q) <=> \A k \in 1 .. Len(q) : q[k] \in DigitChars
      BY <2>1, <3>2, <3>3, DigitsAre DEF IsInt
    <3>5. (\A k \in 1 .. Len(q) : q[k] \in DigitChars) <=> \A k \in a .. b : data[k] \in DigitChars
      <4>1. ASSUME \A k \in 1 .. Len(q) : q[k] \in DigitChars, NEW k \in a .. b PROVE data[k] \in DigitChars
        <5>1. k - a + 1 \in 1 .. Len(q) /\ a + (k - a + 1) - 1 = k /\ k - a + 1 \in 1 .. b - a + 1
          BY <2>1
        <5>2. q[k - a + 1] = data[a + (k - a + 1) - 1]
          BY <1>2, <5>1
        <5> QED BY <4>1, <5>1, <5>2
      <4>2. ASSUME \A k \in a .. b : data[k] \in DigitChars, NEW k \in 1 .. Len(q) PROVE q[k] \in DigitChars
        <5>1. a + k - 1 \in a .. b /\ k \in 1 .. b - a + 1
          BY <2>1
        <5>2. q[k] = data[a + k - 1]
          BY <1>2, <5>1
        <5> QED BY <4>2, <5>1, <5>2
      <4> QED BY <4>1, <4>2
    <3>6. j > past
      BY <1>0, <1>4, <3>1
    <3>7. IsInt(q) <=> Number(data, a, j)
      BY <2>4, <3>1, <3>4, <3>5, <3>6
    <3>8. NumeralValue(data, a, j) = Value(q)
      BY <1>0, <3>1 DEF NumeralValue, past, q
    <3> QED BY <3>2, <3>7, <3>8 DEF q, j
  <2>6. CASE data[a] = "-"
    <3>1. past = a + 1
      BY <2>3, <2>6
    <3> DEFINE u == Tail(q)
    <3>2. Unsigned(q) = u /\ Atoi(q) = -Value(u)
      BY <2>1, <2>2, <2>6 DEF Unsigned, Atoi
    <3>3. u \in Seq(S) /\ Len(u) = Len(q) - 1 /\ \A k \in 1 .. Len(u) : u[k] = q[k + 1]
      BY <1>2, <2>1, HeadTailProperties
    <3> HIDE DEF u
    <3>4. /\ Len(u) = b - a /\ Len(u) \in Nat /\ DOMAIN u = 1 .. Len(u)
          /\ \A k \in 1 .. Len(u) : u[k] = data[a + k]
      <4>1. Len(u) = b - a /\ Len(u) \in Nat
        BY <1>4, <2>1, <3>3
      <4>2. ASSUME NEW k \in 1 .. Len(u) PROVE u[k] = data[a + k]
        <5>1. k + 1 \in 1 .. b - a + 1 /\ a + (k + 1) - 1 = a + k
          BY <4>1
        <5>2. q[k + 1] = data[a + (k + 1) - 1]
          BY <1>2, <5>1
        <5> QED BY <3>3, <5>1, <5>2
      <4>3. DOMAIN u = 1 .. Len(u)
        BY <3>3
      <4> QED BY <4>1, <4>2, <4>3
    <3>5. IsInt(q) <=> u # <<>> /\ \A k \in 1 .. Len(u) : u[k] \in DigitChars
      BY <3>2, <3>4, DigitsAre DEF IsInt
    <3>5a. u # <<>> <=> b > a
      <4>1. u # <<>> <=> Len(u) # 0
        BY <3>3, EmptySeq
      <4> QED BY <1>4, <3>4, <4>1
    <3>6. (\A k \in 1 .. Len(u) : u[k] \in DigitChars) <=> \A k \in past .. b : data[k] \in DigitChars
      <4>1. ASSUME \A k \in 1 .. Len(u) : u[k] \in DigitChars, NEW k \in past .. b PROVE data[k] \in DigitChars
        <5>1. k - a \in 1 .. Len(u) /\ a + (k - a) = k
          BY <3>1, <3>4
        <5>2. u[k - a] = data[a + (k - a)]
          BY <3>4, <5>1
        <5> QED BY <4>1, <5>1, <5>2
      <4>2. ASSUME \A k \in past .. b : data[k] \in DigitChars, NEW k \in 1 .. Len(u) PROVE u[k] \in DigitChars
        <5>1. a + k \in past .. b
          BY <3>1, <3>4
        <5> QED BY <3>4, <4>2, <5>1
      <4> QED BY <4>1, <4>2
    <3>7. j > past <=> b > a
      BY <1>0, <3>1
    <3>8. IsInt(q) <=> Number(data, a, j)
      BY <2>4, <3>5, <3>5a, <3>6, <3>7
    <3>9. SubSeq(data, a + 1, b) = u
      <4>1. a + 1 \in Int /\ b \in Int /\ Len(u) = b - (a + 1) + 1
        BY <3>4
      <4>2. \A k \in 1 .. Len(u) : data[(a + 1) + k - 1] = u[k]
        <5>1. \A k \in 1 .. Len(u) : (a + 1) + k - 1 = a + k
          BY <3>4
        <5> QED BY <3>4, <5>1
      <4> QED BY <3>3, <4>1, <4>2, PartIs
    <3>10. NumeralValue(data, a, j) = -Value(u)
      <4>1. past # a
        BY <3>1
      <4>2. NumeralValue(data, a, j) = -Value(SubSeq(data, a + 1, b))
        BY <1>0, <4>1 DEF NumeralValue, past
      <4> QED BY <3>9, <4>2
    <3> QED BY <3>2, <3>8, <3>10 DEF q, j
  <2> QED BY <2>5, <2>6
<1> QED BY <1>3, <1>4

(* The commas of a text that is four parts.                                *)
LEMMA CommasAre ==
  ASSUME NEW data, Len(data) \in Nat, DOMAIN data = 1 .. Len(data), NEW c1, NEW c2, NEW c3,
         FourParts(data, 1, c1, c2, c3, Len(data) + 1), NEW commas,
         commas = {i \in DOMAIN data : data[i] = Comma}
  PROVE  /\ commas = {c1, c2, c3} /\ Cardinality(commas) = 3
         /\ Min(commas) = c1 /\ Min(commas \ {Min(commas)}) = c2 /\ Max(commas) = c3
<1>1. /\ c1 \in Nat /\ c2 \in Nat /\ c3 \in Nat
      /\ 1 < c1 /\ c1 + 1 < c2 /\ c2 + 1 < c3 /\ c3 + 1 < Len(data) + 1
      /\ \A k \in 1 .. (Len(data) + 1) - 1 : data[k] = Comma => k = c1 \/ k = c2 \/ k = c3
  BY PartsAre, SMTT(40)
<1>2. data[c1] = Comma /\ data[c2] = Comma /\ data[c3] = Comma
  BY DEF FourParts
<1>3. commas = {c1, c2, c3}
  <2>1. c1 \in 1 .. Len(data) /\ c2 \in 1 .. Len(data) /\ c3 \in 1 .. Len(data)
    BY <1>1
  <2>2. (Len(data) + 1) - 1 = Len(data)
    OBVIOUS
  <2>3. \A k \in 1 .. Len(data) : data[k] = Comma => k = c1 \/ k = c2 \/ k = c3
    BY <1>1, <2>2
  <2> QED BY <1>2, <2>1, <2>3
<1>3a. c1 < c2 /\ c2 < c3 /\ c1 < c3
  BY <1>1
<1>4. Min(commas) = c1
  <2>1. commas \in SUBSET Nat /\ c1 \in commas /\ \A k \in commas : c1 <= k
    BY <1>1, <1>3, <1>3a
  <2> QED BY <2>1, MinIs
<1>5. Min(commas \ {c1}) = c2
  <2> DEFINE R == commas \ {c1}
  <2>1. R = {c2, c3}
    BY <1>1, <1>3, <1>3a
  <2> HIDE DEF R
  <2>2. R \in SUBSET Nat /\ c2 \in R /\ \A k \in R : c2 <= k
    BY <1>1, <1>3a, <2>1
  <2>3. Min(R) = c2
    BY <2>2, MinIs
  <2> QED BY <2>3 DEF R
<1>6. Max(commas) = c3
  <2>1. commas \in SUBSET Nat /\ c3 \in commas /\ \A k \in commas : c3 >= k
    BY <1>1, <1>3, <1>3a
  <2> QED BY <2>1, MaxIs
<1>7. Cardinality(commas) = 3
  <2> DEFINE O == {c1}
             A == O \cup {c2}
             B == A \cup {c3}
  <2>1. IsFiniteSet(O) /\ Cardinality(O) = 1
    BY FS_Singleton
  <2>2. c2 \notin O
    BY <1>1, <1>3a
  <2>2a. c3 \notin A
    BY <1>1, <1>3a
  <2>2b. A \cup {c3} = {c1, c2, c3}
    OBVIOUS
  <2> HIDE DEF O
  <2>3. IsFiniteSet(A) /\ Cardinality(A) = 2
    <3>1. IsFiniteSet(O \cup {c2})
      BY <2>1, FS_AddElement
    <3>2. Cardinality(O \cup {c2}) = Cardinality(O) + 1
      BY <2>1, <2>2, FS_AddElement
    <3> QED BY <2>1, <3>1, <3>2
  <2> HIDE DEF A
  <2>5. Cardinality(B) = 3
    BY <2>2a, <2>3, FS_AddElement
  <2>6. commas = B
    BY <1>3, <2>2b
  <2> QED BY <2>5, <2>6
<1> QED BY <1>3, <1>4, <1>5, <1>6, <1>7

(* Three commas.                                                           *)
LEMMA ThreeAre ==
  ASSUME NEW S \in SUBSET Nat, IsFiniteSet(S), Cardinality(S) = 3
  PROVE  /\ Min(S) \in S /\ Min(S \ {Min(S)}) \in S /\ Max(S) \in S
         /\ Min(S) < Min(S \ {Min(S)}) /\ Min(S \ {Min(S)}) < Max(S)
         /\ \A k \in S : k = Min(S) \/ k = Min(S \ {Min(S)}) \/ k = Max(S)
<1> DEFINE a == Min(S)
           R == S \ {a}
           b == Min(R)
           Q == R \ {b}
<1>1. S # {}
  BY FS_EmptySet
<1>2. a \in S /\ \A k \in S : a <= k
  BY <1>1, LeastIs
<1> HIDE DEF a
<1>3. IsFiniteSet(R) /\ Cardinality(R) = 2
  BY <1>2, FS_RemoveElement
<1>4. R # {} /\ R \in SUBSET Nat /\ R \in SUBSET S
  <2>1. R \in SUBSET Nat /\ R \in SUBSET S
    OBVIOUS
  <2> HIDE DEF R
  <2>2. R # {}
    BY <1>3, FS_EmptySet
  <2> QED BY <2>1, <2>2
<1>4a. \A k \in R : k # a
  OBVIOUS
<1> HIDE DEF R
<1>5. b \in R /\ \A k \in R : b <= k
  BY <1>4, LeastIs
<1> HIDE DEF b
<1>6. IsFiniteSet(Q) /\ Cardinality(Q) = 1
  BY <1>3, <1>5, FS_RemoveElement
<1>7. PICK c : Q = {c}
  BY <1>6, FS_Singleton
<1>8. c \in R /\ c # b /\ c \in S
  BY <1>4, <1>7
<1>9. \A k \in S : k = a \/ k = b \/ k = c
  BY <1>7 DEF R
<1>10. a \in Nat /\ b \in Nat /\ c \in Nat
  BY <1>2, <1>4, <1>5, <1>8
<1>11. a < b /\ b < c
  BY <1>2, <1>4, <1>4a, <1>5, <1>8, <1>10
<1>12. Max(S) = c
  <2>1. \A k \in S : c >= k
    BY <1>9, <1>10, <1>11
  <2> QED BY <1>8, <2>1, MaxIs
<1> QED BY <1>2, <1>4, <1>5, <1>8, <1>9, <1>11, <1>12 DEF a, R, b

(* What the tests' parser takes from a text that it has trimmed.           *)
LEMMA PartsTaken ==
  ASSUME NEW S, NEW data \in Seq(S), NEW c1, NEW c2, NEW c3,
         FourParts(data, 1, c1, c2, c3, Len(data) + 1)
  PROVE  FourInts(data) = FourValues(data, 1, c1, c2, c3, Len(data) + 1)
<1> DEFINE commas == {i \in DOMAIN data : data[i] = Comma}
           middle == Min(commas \ {Min(commas)})
           first == Min(commas)
           last == Max(commas)
           p1 == SubSeq(data, 1, first - 1)
           p2 == SubSeq(data, first + 1, middle - 1)
           p3 == SubSeq(data, middle + 1, last - 1)
           p4 == SubSeq(data, last + 1, Len(data))
           parts == <<p1, p2, p3, p4>>
           e == Len(data) + 1
<1>1. Len(data) \in Nat /\ DOMAIN data = 1 .. Len(data)
  OBVIOUS
<1>2. FourInts(data) = IF Cardinality(commas) = 3 /\ \A k \in 1 .. 4 : IsInt(parts[k])
                       THEN [k \in 1 .. 4 |-> Atoi(parts[k])] ELSE <<>>
  BY DEF FourInts, Pieces, Commas
<1>3. Cardinality(commas) = 3 /\ first = c1 /\ middle = c2 /\ last = c3
  BY <1>1, CommasAre
<1> HIDE DEF commas, middle, first, last
<1>4. /\ c1 \in Nat /\ c2 \in Nat /\ c3 \in Nat /\ 1 < c1 /\ c1 + 1 < c2 /\ c2 + 1 < c3 /\ c3 + 1 < e
  BY <1>1, PartsAre
<1>5. /\ Number(data, 1, c1) /\ Number(data, c1 + 1, c2) /\ Number(data, c2 + 1, c3)
      /\ Number(data, c3 + 1, e)
  BY DEF FourParts
<1>6. ASSUME NEW a \in Nat, NEW z \in Nat, a > 0, z > 0, z <= e, Number(data, a, z)
      PROVE  IsInt(SubSeq(data, a, z - 1)) /\ Atoi(SubSeq(data, a, z - 1)) = NumeralValue(data, a, z)
  <2> DEFINE b == z - 1
  <2>1. b \in Nat /\ b <= Len(data) /\ b + 1 = z
    BY <1>1, <1>6
  <2> HIDE DEF b
  <2>2. /\ IsInt(SubSeq(data, a, b)) <=> Number(data, a, b + 1)
        /\ IsInt(SubSeq(data, a, b)) => Atoi(SubSeq(data, a, b)) = NumeralValue(data, a, b + 1)
    BY <1>6, <2>1, AtoiIs
  <2> QED BY <1>6, <2>1, <2>2 DEF b
<1>7. IsInt(p1) /\ Atoi(p1) = NumeralValue(data, 1, c1)
  <2>1. 1 \in Nat /\ 1 > 0 /\ c1 > 0 /\ c1 <= e
    BY <1>1, <1>4
  <2> QED BY <1>3, <1>4, <1>5, <1>6, <2>1
<1>8. IsInt(p2) /\ Atoi(p2) = NumeralValue(data, c1 + 1, c2)
  <2>1. c1 + 1 \in Nat /\ c1 + 1 > 0 /\ c2 > 0 /\ c2 <= e
    BY <1>1, <1>4
  <2> QED BY <1>3, <1>4, <1>5, <1>6, <2>1
<1>9. IsInt(p3) /\ Atoi(p3) = NumeralValue(data, c2 + 1, c3)
  <2>1. c2 + 1 \in Nat /\ c2 + 1 > 0 /\ c3 > 0 /\ c3 <= e
    BY <1>1, <1>4
  <2> QED BY <1>3, <1>4, <1>5, <1>6, <2>1
<1>10. IsInt(p4) /\ Atoi(p4) = NumeralValue(data, c3 + 1, e)
  <2>1. c3 + 1 \in Nat /\ c3 + 1 > 0 /\ e > 0 /\ e \in Nat /\ e <= e /\ e - 1 = Len(data)
    BY <1>1, <1>4
  <2> HIDE DEF e
  <2>2. IsInt(SubSeq(data, c3 + 1, e - 1)) /\ Atoi(SubSeq(data, c3 + 1, e - 1)) = NumeralValue(data, c3 + 1, e)
    BY <1>5, <1>6, <2>1
  <2> QED BY <1>3, <2>1, <2>2
<1> HIDE DEF p1, p2, p3, p4
<1>11. \A k \in 1 .. 4 : IsInt(parts[k])
  <2>1. parts[1] = p1 /\ parts[2] = p2 /\ parts[3] = p3 /\ parts[4] = p4
    OBVIOUS
  <2>2. \A k \in 1 .. 4 : k = 1 \/ k = 2 \/ k = 3 \/ k = 4
    OBVIOUS
  <2> HIDE DEF parts
  <2> QED BY <1>7, <1>8, <1>9, <1>10, <2>1, <2>2
<1>12. [k \in 1 .. 4 |-> Atoi(parts[k])] = <<Atoi(p1), Atoi(p2), Atoi(p3), Atoi(p4)>>
  OBVIOUS
<1>13. FourInts(data) = <<Atoi(p1), Atoi(p2), Atoi(p3), Atoi(p4)>>
  BY <1>2, <1>3, <1>11, <1>12
<1> QED BY <1>7, <1>8, <1>9, <1>10, <1>13 DEF FourValues

(* It takes nothing but four parts.                                        *)
LEMMA TakenParts ==
  ASSUME NEW S, NEW data \in Seq(S), FourInts(data) # <<>>
  PROVE  \E c1, c2, c3 : FourParts(data, 1, c1, c2, c3, Len(data) + 1)
<1> DEFINE commas == {i \in DOMAIN data : data[i] = Comma}
           middle == Min(commas \ {Min(commas)})
           first == Min(commas)
           last == Max(commas)
           p1 == SubSeq(data, 1, first - 1)
           p2 == SubSeq(data, first + 1, middle - 1)
           p3 == SubSeq(data, middle + 1, last - 1)
           p4 == SubSeq(data, last + 1, Len(data))
           parts == <<p1, p2, p3, p4>>
           e == Len(data) + 1
<1>1. Len(data) \in Nat /\ DOMAIN data = 1 .. Len(data)
  OBVIOUS
<1>2. FourInts(data) = IF Cardinality(commas) = 3 /\ \A k \in 1 .. 4 : IsInt(parts[k])
                       THEN [k \in 1 .. 4 |-> Atoi(parts[k])] ELSE <<>>
  BY DEF FourInts, Pieces, Commas
<1>3. Cardinality(commas) = 3 /\ \A k \in 1 .. 4 : IsInt(parts[k])
  BY <1>2
<1>4. IsInt(p1) /\ IsInt(p2) /\ IsInt(p3) /\ IsInt(p4)
  <2> HIDE DEF p1, p2, p3, p4
  <2>1. parts[1] = p1 /\ parts[2] = p2 /\ parts[3] = p3 /\ parts[4] = p4
    OBVIOUS
  <2>2. 1 \in 1 .. 4 /\ 2 \in 1 .. 4 /\ 3 \in 1 .. 4 /\ 4 \in 1 .. 4
    OBVIOUS
  <2> HIDE DEF parts
  <2> QED BY <1>3, <2>1, <2>2
<1>5. commas \in SUBSET Nat /\ IsFiniteSet(commas)
  <2>1. IsFiniteSet(1 .. Len(data))
    BY <1>1, FS_Interval
  <2>2. commas \in SUBSET (1 .. Len(data))
    BY <1>1
  <2> HIDE DEF commas
  <2>3. IsFiniteSet(commas)
    BY <2>1, <2>2, FS_Subset
  <2> QED BY <2>2, <2>3
<1>6. first \in commas /\ middle \in commas /\ last \in commas /\ first < middle /\ middle < last
  <2> HIDE DEF commas
  <2> QED BY <1>3, <1>5, ThreeAre
<1>7. /\ first \in 1 .. Len(data) /\ middle \in 1 .. Len(data) /\ last \in 1 .. Len(data)
      /\ data[first] = Comma /\ data[middle] = Comma /\ data[last] = Comma
  <2> HIDE DEF first, middle, last
  <2> QED BY <1>1, <1>6
<1> HIDE DEF commas, middle, first, last
<1>8. ASSUME NEW a \in Nat, NEW z \in Nat, a > 0, z > 0, z <= e, IsInt(SubSeq(data, a, z - 1))
      PROVE  Number(data, a, z)
  <2> DEFINE b == z - 1
  <2>1. b \in Nat /\ b <= Len(data) /\ b + 1 = z
    BY <1>1, <1>8
  <2> HIDE DEF b
  <2>2. IsInt(SubSeq(data, a, b)) <=> Number(data, a, b + 1)
    BY <1>8, <2>1, AtoiIs
  <2> QED BY <1>8, <2>1, <2>2 DEF b
<1>9. Number(data, 1, first)
  <2>1. 1 \in Nat /\ 1 > 0 /\ first > 0 /\ first <= e /\ first \in Nat
    BY <1>1, <1>7
  <2> QED BY <1>4, <1>8, <2>1
<1>10. Number(data, first + 1, middle)
  <2>1. first + 1 \in Nat /\ first + 1 > 0 /\ middle > 0 /\ middle <= e /\ middle \in Nat
    BY <1>1, <1>7
  <2> QED BY <1>4, <1>8, <2>1
<1>11. Number(data, middle + 1, last)
  <2>1. middle + 1 \in Nat /\ middle + 1 > 0 /\ last > 0 /\ last <= e /\ last \in Nat
    BY <1>1, <1>7
  <2> QED BY <1>4, <1>8, <2>1
<1>12. Number(data, last + 1, e)
  <2>1. last + 1 \in Nat /\ last + 1 > 0 /\ e > 0 /\ e \in Nat /\ e <= e /\ e - 1 = Len(data)
    BY <1>1, <1>7
  <2> HIDE DEF e
  <2>2. IsInt(SubSeq(data, last + 1, e - 1))
    BY <1>4, <2>1
  <2> QED BY <1>8, <2>1, <2>2
<1>13. FourParts(data, 1, first, middle, last, e)
  BY <1>7, <1>9, <1>10, <1>11, <1>12 DEF FourParts
<1> QED BY <1>13

(* Its first and last character that is no space.                          *)
Bounds(x, f, l) ==
  /\ f \in 5 .. Len(x) /\ l \in f .. Len(x) /\ x[f] # Blank /\ x[l] # Blank
  /\ \A k \in 5 .. f - 1 : x[k] = Blank
  /\ \A k \in l + 1 .. Len(x) : x[k] = Blank

(* There are such characters unless all are spaces.                        *)
LEMMA BoundsExist ==
  ASSUME NEW x, Len(x) \in Nat, NEW m \in 5 .. Len(x), x[m] # Blank
  PROVE  \E f, l : Bounds(x, f, l)
<1> DEFINE K == {k \in 5 .. Len(x) : x[k] # Blank}
           f == Min(K)
           l == Max(K)
<1>1. K \in SUBSET Nat /\ K # {} /\ \A k \in K : k <= Len(x)
  OBVIOUS
<1>2. \A k \in 5 .. Len(x) : k \in K \/ x[k] = Blank
  OBVIOUS
<1>3. \A k \in K : k \in 5 .. Len(x) /\ x[k] # Blank
  OBVIOUS
<1> HIDE DEF K
<1>4. f \in K /\ \A k \in K : f <= k
  BY <1>1, LeastIs
<1>5. l \in K /\ \A k \in K : k <= l
  BY <1>1, GreatestIs
<1> HIDE DEF f, l
<1>6. f \in 5 .. Len(x) /\ l \in 5 .. Len(x) /\ f <= l /\ x[f] # Blank /\ x[l] # Blank
  BY <1>3, <1>4, <1>5
<1>7. ASSUME NEW k \in 5 .. f - 1 PROVE x[k] = Blank
  <2>1. k \in 5 .. Len(x) /\ ~(f <= k)
    BY <1>6
  <2> QED BY <1>2, <1>4, <2>1
<1>8. ASSUME NEW k \in l + 1 .. Len(x) PROVE x[k] = Blank
  <2>1. k \in 5 .. Len(x) /\ ~(k <= l)
    BY <1>6
  <2> QED BY <1>2, <1>5, <2>1
<1>9. l \in f .. Len(x)
  BY <1>6
<1> QED BY <1>6, <1>7, <1>8, <1>9 DEF Bounds

(* TrimSpace leaves what is between them.                                  *)
LEMMA TrimmedIs ==
  ASSUME NEW S, NEW x \in Seq(S), Len(x) >= 5
  PROVE  /\ (\A k \in 5 .. Len(x) : x[k] = Blank) => Trimmed(SubSeq(x, 5, Len(x))) = <<>>
         /\ \A f, l : Bounds(x, f, l) =>
              /\ Trimmed(SubSeq(x, 5, Len(x))) \in Seq(S)
              /\ Len(Trimmed(SubSeq(x, 5, Len(x)))) = l - f + 1
              /\ \A k \in 1 .. l - f + 1 : Trimmed(SubSeq(x, 5, Len(x)))[k] = x[f + k - 1]
<1> DEFINE D == SubSeq(x, 5, Len(x))
           kept == {i \in DOMAIN D : D[i] # Blank}
           n == Len(x) - 4
<1>0. Len(x) \in Nat /\ n \in Nat /\ 5 \in Int /\ Len(x) \in Int
  OBVIOUS
<1>1. \A k \in 5 .. Len(x) : x[k] \in S
  <2>1. \A k \in 5 .. Len(x) : k \in 1 .. Len(x)
    BY <1>0
  <2>2. \A k \in 1 .. Len(x) : x[k] \in S
    BY ElementOfSeq
  <2> QED BY <2>1, <2>2
<1>2. D \in Seq(S) /\ Len(D) = n /\ \A k \in 1 .. n : D[k] = x[4 + k]
  <2>1. /\ D \in Seq(S) /\ Len(D) = IF 5 <= Len(x) THEN Len(x) - 5 + 1 ELSE 0
        /\ \A k \in 1 .. Len(x) - 5 + 1 : D[k] = x[5 + k - 1]
    BY <1>0, <1>1, SubSeqProperties
  <2>2. Len(x) - 5 + 1 = n /\ \A k \in 1 .. n : 5 + k - 1 = 4 + k
    BY <1>0
  <2> HIDE DEF D, n
  <2> QED BY <2>1, <2>2
<1>3. Trimmed(D) = IF kept = {} THEN <<>> ELSE SubSeq(D, Min(kept), Max(kept))
  BY DEF Trimmed
<1> HIDE DEF D
<1>4. kept = {i \in 1 .. n : x[4 + i] # Blank}
  <2>1. DOMAIN D = 1 .. n
    BY <1>2
  <2> QED BY <1>2, <2>1
<1> HIDE DEF kept
<1>5. ASSUME \A k \in 5 .. Len(x) : x[k] = Blank PROVE Trimmed(D) = <<>>
  <2>1. \A i \in 1 .. n : 4 + i \in 5 .. Len(x)
    BY <1>0
  <2>2. kept = {}
    BY <1>4, <1>5, <2>1
  <2> QED BY <1>3, <2>2
<1>6. ASSUME NEW f, NEW l, Bounds(x, f, l)
      PROVE  /\ Trimmed(D) \in Seq(S) /\ Len(Trimmed(D)) = l - f + 1
             /\ \A k \in 1 .. l - f + 1 : Trimmed(D)[k] = x[f + k - 1]
  <2> DEFINE a == f - 4
             b == l - 4
  <2>0. /\ f \in 5 .. Len(x) /\ l \in f .. Len(x) /\ x[f] # Blank /\ x[l] # Blank
        /\ \A k \in 5 .. f - 1 : x[k] = Blank
        /\ \A k \in l + 1 .. Len(x) : x[k] = Blank
    BY <1>6 DEF Bounds
  <2>1. a \in 1 .. n /\ b \in 1 .. n /\ 4 + a = f /\ 4 + b = l /\ a <= b
    BY <1>0, <2>0
  <2>2. a \in kept /\ b \in kept /\ kept \in SUBSET Nat
    BY <1>4, <2>0, <2>1
  <2>3. ASSUME NEW i \in kept PROVE a <= i /\ i <= b
    <3>1. i \in 1 .. n /\ x[4 + i] # Blank
      BY <1>4
    <3>2. 4 + i \in 5 .. Len(x) /\ 4 + i \notin 5 .. f - 1 /\ 4 + i \notin l + 1 .. Len(x)
      BY <1>0, <2>0, <3>1
    <3> QED BY <1>0, <2>0, <3>1, <3>2
  <2> HIDE DEF a, b
  <2>4. Min(kept) = a
    BY <2>2, <2>3, MinIs
  <2>5. Max(kept) = b
    <3>1. \A i \in kept : b >= i
      BY <1>4, <2>1, <2>3
    <3> QED BY <2>2, <3>1, MaxIs
  <2>6. Trimmed(D) = SubSeq(D, a, b)
    BY <1>3, <2>2, <2>4, <2>5
  <2> DEFINE u == SubSeq(D, a, b)
  <2>7. a \in Int /\ b \in Int /\ \A k \in a .. b : D[k] \in S
    <3>1. \A k \in a .. b : k \in 1 .. Len(D)
      BY <1>0, <1>2, <2>1
    <3>2. \A k \in 1 .. Len(D) : D[k] \in S
      BY <1>2, ElementOfSeq
    <3> QED BY <2>1, <3>1, <3>2
  <2>8. /\ u \in Seq(S) /\ Len(u) = IF a <= b THEN b - a + 1 ELSE 0
        /\ \A k \in 1 .. b - a + 1 : u[k] = D[a + k - 1]
    BY <2>7, SubSeqProperties
  <2> HIDE DEF u
  <2>9. Len(u) = l - f + 1 /\ b - a + 1 = l - f + 1
    <3>1. b - a + 1 = l - f + 1
      BY <1>0, <2>0 DEF a, b
    <3> QED BY <2>1, <2>8, <3>1
  <2>10. ASSUME NEW k \in 1 .. l - f + 1 PROVE u[k] = x[f + k - 1]
    <3>1. k \in 1 .. b - a + 1 /\ a + k - 1 \in 1 .. n /\ 4 + (a + k - 1) = f + k - 1
      BY <1>0, <2>0, <2>1, <2>9
    <3>2. u[k] = D[a + k - 1]
      BY <2>8, <3>1
    <3>3. D[a + k - 1] = x[4 + (a + k - 1)]
      BY <1>2, <3>1
    <3> QED BY <3>1, <3>2, <3>3
  <2> QED BY <2>6, <2>8, <2>9, <2>10 DEF u
<1> QED BY <1>5, <1>6 DEF D

(* The tag is where the text begins.                                       *)
LEMMA TagFirst ==
  ASSUME NEW x, Len(x) \in Nat, Tagged(x)
  PROVE  /\ IndexOf(Tag, x) = 2 /\ IndexOf(Tag \o <<":">>, x) = 2
         /\ IndexOf(Tag \o <<":", Blank>>, x) = 2
<1>1. Len(x) >= 5 /\ x[1] = "I" /\ x[2] = "q" /\ x[3] = "f" /\ x[4] = ":" /\ x[5] = Blank
  BY DEF Tagged
<1>2. ASSUME NEW t, NEW m \in 2 .. 4, Len(t) = m, DOMAIN t = 1 .. m, t[1] = "q", t[2] = "f",
             m >= 3 => t[3] = ":", m >= 4 => t[4] = Blank
      PROVE  IndexOf(t, x) = 2
  <2>1. ASSUME NEW k \in 1 .. m PROVE x[2 + k - 1] = t[k]
    <3>1. k = 1 \/ k = 2 \/ (k = 3 /\ m >= 3) \/ (k = 4 /\ m >= 4)
      OBVIOUS
    <3>2. 2 + 1 - 1 = 2 /\ 2 + 2 - 1 = 3 /\ 2 + 3 - 1 = 4 /\ 2 + 4 - 1 = 5
      OBVIOUS
    <3> QED BY <1>1, <1>2, <3>1, <3>2
  <2>2. StartsAt(t, x, 2)
    BY <1>2, <2>1 DEF StartsAt
  <2>3. ~StartsAt(t, x, 1)
    <3>1. 1 \in DOMAIN t /\ 1 + 1 - 1 = 1
      BY <1>2
    <3>2. StartsAt(t, x, 1) => x[1] = t[1]
      BY <3>1 DEF StartsAt
    <3> QED BY <1>1, <1>2, <3>2
  <2>4. 2 \in 1 .. Len(x) + 1 - Len(t)
    BY <1>1, <1>2
  <2>5. \A j \in 1 .. 2 - 1 : ~StartsAt(t, x, j)
    <3>1. \A j \in 1 .. 2 - 1 : j = 1
      OBVIOUS
    <3> QED BY <2>3, <3>1
  <2>6. FirstAt(t, x, 2) /\ Len(t) \in Nat
    BY <1>2, <2>2, <2>4, <2>5 DEF FirstAt
  <2> QED BY <2>6, FoundIs
<1>3. IndexOf(Tag, x) = 2
  BY <1>2, TagIs
<1> DEFINE T == Tag \o <<":">>
           U == Tag \o <<":", Blank>>
<1>4. Len(T) = 3 /\ DOMAIN T = 1 .. 3 /\ T[1] = "q" /\ T[2] = "f" /\ T[3] = ":"
  BY TagIs
<1>5. Len(U) = 4 /\ DOMAIN U = 1 .. 4 /\ U[1] = "q" /\ U[2] = "f" /\ U[3] = ":" /\ U[4] = Blank
  BY TagIs
<1> HIDE DEF T, U
<1>6. IndexOf(T, x) = 2
  BY <1>2, <1>4
<1>7. IndexOf(U, x) = 2
  BY <1>2, <1>5
<1> QED BY <1>3, <1>6, <1>7 DEF T, U

(* What the tests' parser takes from a text after the tag.                 *)
LEMMA ReferenceIs ==
  ASSUME NEW x, Len(x) \in Nat, Tagged(x)
  PROVE  parsePayloadStrings(x) = FourInts(Trimmed(SubSeq(x, 5, Len(x))))
<1>1. IndexOf(Tag \o <<":">>, x) = 2 /\ Len(Tag) = 2
  BY TagFirst, TagIs
<1> QED BY <1>1 DEF parsePayloadStrings

(* It takes four parts that are between the spaces.                        *)
LEMMA ReferenceTakes ==
  ASSUME NEW S, NEW x \in Seq(S), Tagged(x), NEW f, NEW l, Bounds(x, f, l),
         NEW c1, NEW c2, NEW c3, FourParts(x, f, c1, c2, c3, l + 1)
  PROVE  parsePayloadStrings(x) = FourValues(x, f, c1, c2, c3, l + 1)
<1> DEFINE data == Trimmed(SubSeq(x, 5, Len(x)))
           d == 1 - f
<1>0. Len(x) \in Nat /\ Len(x) >= 5
  BY DEF Tagged
<1>1. data \in Seq(S) /\ Len(data) = l - f + 1 /\ \A k \in 1 .. l - f + 1 : data[k] = x[f + k - 1]
  BY <1>0, TrimmedIs
<1>2. parsePayloadStrings(x) = FourInts(data)
  BY <1>0, ReferenceIs
<1> HIDE DEF data
<1>3. f \in 5 .. Len(x) /\ l \in f .. Len(x)
  BY DEF Bounds
<1>4. /\ d \in Int /\ f + d = 1 /\ f + d > 0 /\ l + 1 + d = Len(data) + 1 /\ Len(data) \in Nat
      /\ l + 1 + d <= Len(data) + 1
  BY <1>0, <1>1, <1>3
<1>5. Same(data, x, d, f, l + 1)
  <2> SUFFICES ASSUME NEW k \in f .. (l + 1) - 1 PROVE data[k + d] = x[k]
    BY DEF Same
  <2>1. k + d \in 1 .. l - f + 1 /\ f + (k + d) - 1 = k
    BY <1>0, <1>3
  <2> HIDE DEF d
  <2> QED BY <1>1, <2>1
<1> HIDE DEF d
<1>6. /\ FourParts(data, f + d, c1 + d, c2 + d, c3 + d, l + 1 + d)
      /\ FourValues(data, f + d, c1 + d, c2 + d, c3 + d, l + 1 + d) = FourValues(x, f, c1, c2, c3, l + 1)
  <2> DEFINE e == l + 1
  <2>1. /\ FourParts(x, f, c1, c2, c3, e) /\ Same(data, x, d, f, e) /\ f + d > 0
        /\ e + d <= Len(data) + 1
    BY <1>4, <1>5
  <2>2. e + d = l + 1 + d
    BY <1>3, <1>4
  <2> HIDE DEF e
  <2>3. /\ FourParts(data, f + d, c1 + d, c2 + d, c3 + d, e + d)
        /\ FourValues(data, f + d, c1 + d, c2 + d, c3 + d, e + d) = FourValues(x, f, c1, c2, c3, e)
    BY <1>0, <1>4, <2>1, PartsShifted
  <2> QED BY <2>2, <2>3 DEF e
<1>7. FourInts(data) = FourValues(data, 1, c1 + d, c2 + d, c3 + d, Len(data) + 1)
  BY <1>1, <1>4, <1>6, PartsTaken
<1> QED BY <1>2, <1>4, <1>6, <1>7

(* It takes nothing else.                                                  *)
LEMMA ReferenceTaken ==
  ASSUME NEW S, NEW x \in Seq(S), Tagged(x), parsePayloadStrings(x) # <<>>
  PROVE  \E f, l, c1, c2, c3 : Bounds(x, f, l) /\ FourParts(x, f, c1, c2, c3, l + 1)
<1> DEFINE data == Trimmed(SubSeq(x, 5, Len(x)))
<1>0. Len(x) \in Nat /\ Len(x) >= 5
  BY DEF Tagged
<1>1. FourInts(data) # <<>>
  BY <1>0, ReferenceIs
<1>2. ASSUME data = <<>> PROVE FALSE
  <2>1. <<>> \in Seq(S) /\ FourInts(<<>>) # <<>>
    BY <1>1, <1>2
  <2> DEFINE o == <<>>
  <2>2. o \in Seq(S) /\ Len(o) = 0 /\ FourInts(o) # <<>>
    BY <2>1
  <2> HIDE DEF o
  <2>3. PICK c1, c2, c3 : FourParts(o, 1, c1, c2, c3, Len(o) + 1)
    BY <2>2, TakenParts
  <2>4. /\ c1 \in Nat /\ c2 \in Nat /\ c3 \in Nat
        /\ 1 < c1 /\ c1 + 1 < c2 /\ c2 + 1 < c3 /\ c3 + 1 < Len(o) + 1
    BY <2>2, <2>3, PartsAre
  <2> QED BY <2>2, <2>4
<1>3. \E m \in 5 .. Len(x) : x[m] # Blank
  BY <1>0, <1>2, TrimmedIs
<1>4. PICK f, l : Bounds(x, f, l)
  BY <1>0, <1>3, BoundsExist
<1>5. data \in Seq(S) /\ Len(data) = l - f + 1 /\ \A k \in 1 .. l - f + 1 : data[k] = x[f + k - 1]
  BY <1>0, <1>4, TrimmedIs
<1> HIDE DEF data
<1>6. f \in 5 .. Len(x) /\ l \in f .. Len(x)
  BY <1>4 DEF Bounds
<1>7. PICK c1, c2, c3 : FourParts(data, 1, c1, c2, c3, Len(data) + 1)
  BY <1>1, <1>5, TakenParts
<1> DEFINE d == f - 1
           e == Len(data) + 1
<1>8. /\ d \in Int /\ 1 + d = f /\ 1 + d > 0 /\ e + d = l + 1 /\ Len(data) \in Nat
      /\ e + d <= Len(x) + 1
  BY <1>0, <1>5, <1>6
<1>9. Same(x, data, d, 1, e)
  <2> SUFFICES ASSUME NEW k \in 1 .. e - 1 PROVE x[k + d] = data[k]
    BY DEF Same
  <2>1. k \in 1 .. l - f + 1 /\ f + k - 1 = k + d
    BY <1>0, <1>5, <1>6, <1>8
  <2> HIDE DEF d
  <2> QED BY <1>5, <2>1
<1>9a. FourParts(data, 1, c1, c2, c3, e)
  BY <1>7
<1> HIDE DEF d, e
<1>10. FourParts(x, 1 + d, c1 + d, c2 + d, c3 + d, e + d)
  BY <1>0, <1>8, <1>9, <1>9a, PartsShifted
<1>11. FourParts(x, f, c1 + d, c2 + d, c3 + d, l + 1)
  BY <1>8, <1>10
<1> QED BY <1>4, <1>11

(* parseFast's first place is the first after the spaces.                  *)
LEMMA FastAfterTag ==
  ASSUME NEW x, Len(x) \in Nat, Tagged(x)
  PROVE  \E f \in 6 .. Len(x) + 1 : /\ \A k \in 5 .. f - 1 : x[k] = Blank
                                    /\ f > Len(x) \/ x[f] # Blank
                                    /\ parseFast(x) = FourNumbers(x, f)
<1> DEFINE tagPos == IndexOf(Tag, x)
           colons == {i \in tagPos + Len(Tag) .. Len(x) : x[i] = ":"}
           places == {i \in Min(colons) + 1 .. Len(x) + 1 : i > Len(x) \/ x[i] # Blank}
           f == Min(places)
<1>1. Len(x) >= 5 /\ x[4] = ":" /\ x[5] = Blank
  BY DEF Tagged
<1>2. tagPos = 2 /\ Len(Tag) = 2
  BY TagFirst, TagIs
<1>3. parseFast(x) = IF tagPos # 0 /\ colons # {} THEN FourNumbers(x, f) ELSE <<>>
  BY DEF parseFast
<1>4. colons \in SUBSET Nat /\ 4 \in colons /\ \A i \in colons : 4 <= i
  BY <1>1, <1>2
<1> HIDE DEF colons
<1>5. Min(colons) = 4
  BY <1>4, MinIs
<1>6. places = {i \in 5 .. Len(x) + 1 : i > Len(x) \/ x[i] # Blank}
  BY <1>5
<1>7. places \in SUBSET Nat /\ Len(x) + 1 \in places
  BY <1>1, <1>6
<1>8. f \in places /\ \A k \in places : f <= k
  <2> HIDE DEF places
  <2> QED BY <1>7, LeastIs
<1> HIDE DEF f, places
<1>9. f \in 5 .. Len(x) + 1 /\ (f > Len(x) \/ x[f] # Blank) /\ f # 5
  BY <1>1, <1>6, <1>8
<1>10. ASSUME NEW k \in 5 .. f - 1 PROVE x[k] = Blank
  <2>1. k \in 5 .. Len(x) + 1 /\ k \notin places
    BY <1>8, <1>9
  <2> QED BY <1>6, <2>1
<1>11. parseFast(x) = FourNumbers(x, f)
  BY <1>2, <1>3, <1>4
<1>12. f \in 6 .. Len(x) + 1
  BY <1>9
<1> QED BY <1>9, <1>10, <1>11, <1>12

(* A text's first characters are a text after the tag if the tag is there. *)
LEMMA PrefixIs ==
  ASSUME NEW S, NEW s \in Seq(S), Tagged(s), NEW i \in 5 .. Len(s)
  PROVE  /\ SubSeq(s, 1, i) \in Seq(S) /\ Len(SubSeq(s, 1, i)) = i
         /\ \A k \in 1 .. i : SubSeq(s, 1, i)[k] = s[k]
         /\ Tagged(SubSeq(s, 1, i))
<1> DEFINE x == SubSeq(s, 1, i)
<1>1. Len(s) \in Nat /\ 1 \in Int /\ i \in Int
  OBVIOUS
<1>2. \A k \in 1 .. i : s[k] \in S
  <2>1. \A k \in 1 .. Len(s) : s[k] \in S
    BY ElementOfSeq
  <2> QED BY <1>1, <2>1
<1>3. /\ x \in Seq(S) /\ Len(x) = IF 1 <= i THEN i - 1 + 1 ELSE 0
      /\ \A k \in 1 .. i - 1 + 1 : x[k] = s[1 + k - 1]
  BY <1>1, <1>2, SubSeqProperties
<1> HIDE DEF x
<1>4. Len(x) = i /\ \A k \in 1 .. i : x[k] = s[k]
  <2>1. i - 1 + 1 = i /\ \A k \in 1 .. i : 1 + k - 1 = k
    BY <1>1
  <2> QED BY <1>1, <1>3, <2>1
<1>5. 1 \in 1 .. i /\ 2 \in 1 .. i /\ 3 \in 1 .. i /\ 4 \in 1 .. i /\ 5 \in 1 .. i
  OBVIOUS
<1>6. Tagged(x)
  BY <1>1, <1>4, <1>5 DEF Tagged
<1> QED BY <1>3, <1>4, <1>6 DEF x

(* Four numbers are not the refusal.                                       *)
LEMMA FourAreMany ==
  ASSUME NEW s, NEW i, NEW c1, NEW c2, NEW c3, NEW e
  PROVE  FourValues(s, i, c1, c2, c3, e) # <<>>
<1> DEFINE a == NumeralValue(s, i, c1)
           b == NumeralValue(s, c1 + 1, c2)
           c == NumeralValue(s, c2 + 1, c3)
           d == NumeralValue(s, c3 + 1, e)
<1>1. FourValues(s, i, c1, c2, c3, e) = <<a, b, c, d>>
  BY DEF FourValues
<1> HIDE DEF a, b, c, d
<1>2. Len(<<a, b, c, d>>) = 4 /\ Len(<<>>) = 0
  OBVIOUS
<1>3. <<a, b, c, d>> # <<>>
  BY <1>2
<1> QED BY <1>1, <1>3

-----------------------------------------------------------------------------
(* The parsers and the tests' parser.                                      *)

(* After the tag and its spaces.                                           *)
After(s, f) ==
  /\ f \in 6 .. Len(s) + 1 /\ \A k \in 5 .. f - 1 : s[k] = Blank
  /\ f > Len(s) \/ s[f] # Blank

(* Four parts there, and the text up to their end is accepted.             *)
LEMMA PartsAccepted ==
  ASSUME NEW S, NEW s \in Seq(S), Tagged(s), NEW f, After(s, f),
         NEW c1, NEW c2, NEW c3, NEW e, FourParts(s, f, c1, c2, c3, e)
  PROVE  /\ e - 1 \in 5 .. Len(s)
         /\ parsePayloadStrings(SubSeq(s, 1, e - 1)) = FourValues(s, f, c1, c2, c3, e)
<1> DEFINE l == e - 1
           x == SubSeq(s, 1, l)
<1>0. Len(s) \in Nat
  OBVIOUS
<1>1. /\ f \in Nat /\ c1 \in Nat /\ c2 \in Nat /\ c3 \in Nat /\ e \in Nat
      /\ 0 < f /\ f < c1 /\ c1 + 1 < c2 /\ c2 + 1 < c3 /\ c3 + 1 < e /\ e <= Len(s) + 1
      /\ s[e - 1] \in DigitChars
  BY <1>0, PartsAre
<1>2. f \in 6 .. Len(s) + 1 /\ (\A k \in 5 .. f - 1 : s[k] = Blank) /\ (f > Len(s) \/ s[f] # Blank)
  BY DEF After
<1>3. l \in 5 .. Len(s) /\ l + 1 = e /\ f \in 5 .. l /\ l \in f .. l /\ l \in Nat
  BY <1>0, <1>1, <1>2
<1>4. s[l] \in DigitChars
  BY <1>1
<1> HIDE DEF l
<1>5. x \in Seq(S) /\ Len(x) = l /\ (\A k \in 1 .. l : x[k] = s[k]) /\ Tagged(x)
  BY <1>3, PrefixIs
<1> HIDE DEF x
<1>6. Bounds(x, f, l)
  <2>1. f \in 1 .. l /\ l \in 1 .. l /\ f <= Len(s)
    BY <1>0, <1>3
  <2>2. x[f] # Blank /\ x[l] # Blank
    BY <1>2, <1>4, <1>5, <2>1, CharsDiffer
  <2>3. \A k \in 5 .. f - 1 : x[k] = Blank
    <3>1. \A k \in 5 .. f - 1 : k \in 1 .. l
      BY <1>3
    <3> QED BY <1>2, <1>5, <3>1
  <2>4. \A k \in l + 1 .. Len(x) : x[k] = Blank
    BY <1>3, <1>5
  <2> QED BY <1>3, <1>5, <2>2, <2>3, <2>4 DEF Bounds
<1> DEFINE d == 0
<1>7. d \in Int /\ f + d = f /\ c1 + d = c1 /\ c2 + d = c2 /\ c3 + d = c3 /\ e + d = e
  BY <1>1
<1>8. f + d > 0 /\ e + d <= Len(x) + 1 /\ Len(x) \in Nat
  BY <1>1, <1>3, <1>5, <1>7
<1>9. Same(x, s, d, f, e)
  <2> SUFFICES ASSUME NEW k \in f .. e - 1 PROVE x[k + d] = s[k]
    BY DEF Same
  <2>1. k + d = k /\ k \in 1 .. l
    BY <1>1, <1>3
  <2> QED BY <1>5, <2>1
<1> HIDE DEF d
<1>10. /\ FourParts(x, f + d, c1 + d, c2 + d, c3 + d, e + d)
       /\ FourValues(x, f + d, c1 + d, c2 + d, c3 + d, e + d) = FourValues(s, f, c1, c2, c3, e)
  BY <1>0, <1>7, <1>8, <1>9, PartsShifted
<1>11. FourParts(x, f, c1, c2, c3, l + 1) /\ FourValues(x, f, c1, c2, c3, l + 1) = FourValues(s, f, c1, c2, c3, e)
  BY <1>3, <1>7, <1>10
<1>12. parsePayloadStrings(x) = FourValues(x, f, c1, c2, c3, l + 1)
  BY <1>5, <1>6, <1>11, ReferenceTakes
<1> QED BY <1>3, <1>11, <1>12 DEF x, l

(* What is accepted has four parts there, with spaces after them.          *)
LEMMA AcceptedParts ==
  ASSUME NEW S, NEW s \in Seq(S), Tagged(s), NEW f, After(s, f),
         NEW i \in 5 .. Len(s), parsePayloadStrings(SubSeq(s, 1, i)) # <<>>
  PROVE  \E c1, c2, c3 : \E l \in 5 .. i :
           /\ FourParts(s, f, c1, c2, c3, l + 1) /\ s[l] # Blank
           /\ \A k \in l + 1 .. i : s[k] = Blank
           /\ parsePayloadStrings(SubSeq(s, 1, i)) = FourValues(s, f, c1, c2, c3, l + 1)
<1> DEFINE x == SubSeq(s, 1, i)
<1>0. Len(s) \in Nat /\ i \in Nat
  OBVIOUS
<1>1. x \in Seq(S) /\ Len(x) = i /\ (\A k \in 1 .. i : x[k] = s[k]) /\ Tagged(x)
  BY PrefixIs
<1>2. parsePayloadStrings(x) # <<>>
  OBVIOUS
<1> HIDE DEF x
<1>3. PICK a, l, c1, c2, c3 : Bounds(x, a, l) /\ FourParts(x, a, c1, c2, c3, l + 1)
  BY <1>1, <1>2, ReferenceTaken
<1>4. parsePayloadStrings(x) = FourValues(x, a, c1, c2, c3, l + 1)
  BY <1>1, <1>3, ReferenceTakes
<1>5. /\ a \in 5 .. i /\ l \in a .. i /\ x[a] # Blank /\ x[l] # Blank
      /\ \A k \in 5 .. a - 1 : x[k] = Blank
      /\ \A k \in l + 1 .. i : x[k] = Blank
  BY <1>1, <1>3 DEF Bounds
<1>6. f \in 6 .. Len(s) + 1 /\ (\A k \in 5 .. f - 1 : s[k] = Blank) /\ (f > Len(s) \/ s[f] # Blank)
  BY DEF After
<1>7. a = f
  <2>1. ASSUME a < f PROVE FALSE
    <3>1. a \in 5 .. f - 1 /\ a \in 1 .. i
      BY <1>0, <1>5, <1>6, <2>1
    <3> QED BY <1>1, <1>5, <1>6, <3>1
  <2>2. ASSUME f < a PROVE FALSE
    <3>1. f \in 5 .. a - 1 /\ f \in 1 .. i /\ f <= Len(s)
      BY <1>0, <1>5, <1>6, <2>2
    <3> QED BY <1>1, <1>5, <1>6, <3>1
  <2> QED BY <1>5, <1>6, <2>1, <2>2
<1> DEFINE d == 0
           e == l + 1
<1>8. /\ c1 \in Nat /\ c2 \in Nat /\ c3 \in Nat /\ e \in Nat /\ e <= i + 1 /\ a > 0 /\ a \in Nat
      /\ FourParts(x, a, c1, c2, c3, e)
  <2>1. Len(x) \in Nat
    BY <1>0, <1>1
  <2>2. FourParts(x, a, c1, c2, c3, e)
    BY <1>3
  <2> HIDE DEF e
  <2> QED BY <1>1, <2>1, <2>2, PartsAre
<1>9. d \in Int /\ a + d = a /\ c1 + d = c1 /\ c2 + d = c2 /\ c3 + d = c3 /\ e + d = e
  BY <1>8
<1>10. a + d > 0 /\ e + d <= Len(s) + 1 /\ Len(x) \in Nat
  BY <1>0, <1>1, <1>8, <1>9
<1>11. Same(s, x, d, a, e)
  <2> SUFFICES ASSUME NEW k \in a .. e - 1 PROVE s[k + d] = x[k]
    BY DEF Same
  <2>1. k + d = k /\ k \in 1 .. i
    BY <1>0, <1>5, <1>8
  <2> QED BY <1>1, <2>1
<1>12. e = l + 1
  OBVIOUS
<1> HIDE DEF d, e
<1>13. /\ FourParts(s, a + d, c1 + d, c2 + d, c3 + d, e + d)
       /\ FourValues(s, a + d, c1 + d, c2 + d, c3 + d, e + d) = FourValues(x, a, c1, c2, c3, e)
  BY <1>0, <1>8, <1>9, <1>10, <1>11, PartsShifted
<1>14. /\ FourParts(s, f, c1, c2, c3, l + 1)
       /\ FourValues(s, f, c1, c2, c3, l + 1) = FourValues(x, a, c1, c2, c3, l + 1)
  BY <1>7, <1>9, <1>12, <1>13
<1>15. l \in 5 .. i /\ l \in 1 .. i
  BY <1>0, <1>5
<1>16. s[l] # Blank
  BY <1>1, <1>5, <1>15
<1>17. \A k \in l + 1 .. i : s[k] = Blank
  <2>1. \A k \in l + 1 .. i : k \in 1 .. i
    BY <1>0, <1>15
  <2> QED BY <1>1, <1>5, <2>1
<1>18. parsePayloadStrings(x) = FourValues(s, f, c1, c2, c3, l + 1)
  BY <1>4, <1>14
<1> QED BY <1>14, <1>15, <1>16, <1>17, <1>18 DEF x

(* parseFast takes what the reference takes from the longest prefix that it*)
(* accepts: the last number of that prefix has all the digits there are.   *)
LEMMA FastMeets ==
  ASSUME NEW S, NEW s \in Seq(S), Tagged(s), NEW accepted,
         accepted = {i \in 5 .. Len(s) : parsePayloadStrings(SubSeq(s, 1, i)) # <<>>}
  PROVE  /\ accepted = {} => parseFast(s) = <<>>
         /\ accepted # {} => parseFast(s) = parsePayloadStrings(SubSeq(s, 1, Max(accepted)))
<1>0. Len(s) \in Nat
  OBVIOUS
<1>1. PICK f : After(s, f) /\ parseFast(s) = FourNumbers(s, f)
  <2>1. PICK f \in 6 .. Len(s) + 1 : /\ \A k \in 5 .. f - 1 : s[k] = Blank
                                     /\ f > Len(s) \/ s[f] # Blank
                                     /\ parseFast(s) = FourNumbers(s, f)
    BY <1>0, FastAfterTag
  <2> QED BY <2>1 DEF After
<1>2. f \in Nat /\ f > 0 /\ f <= Len(s) + 1
  BY <1>0, <1>1 DEF After
<1>3. ASSUME NEW c1, NEW c2, NEW c3, NEW e, FourParts(s, f, c1, c2, c3, e)
      PROVE  e - 1 \in accepted
  <2> DEFINE x == SubSeq(s, 1, e - 1)
  <2>1. e - 1 \in 5 .. Len(s) /\ parsePayloadStrings(x) = FourValues(s, f, c1, c2, c3, e)
    BY <1>1, <1>3, PartsAccepted
  <2>2. parsePayloadStrings(x) # <<>>
    BY <2>1, FourAreMany
  <2> QED BY <2>1, <2>2
<1>4. ASSUME accepted = {} PROVE parseFast(s) = <<>>
  <2> SUFFICES ASSUME FourNumbers(s, f) # <<>> PROVE FALSE
    BY <1>1
  <2>1. PICK c1, c2, c3, e : FourParts(s, f, c1, c2, c3, e)
    BY <1>0, <1>2, PartsOfFast
  <2>2. e - 1 \in accepted
    BY <1>3, <2>1
  <2> QED BY <1>4, <2>2
<1>5. ASSUME accepted # {} PROVE parseFast(s) = parsePayloadStrings(SubSeq(s, 1, Max(accepted)))
  <2> DEFINE i == Max(accepted)
             x == SubSeq(s, 1, i)
  <2>1. accepted \in SUBSET Nat /\ \A k \in accepted : k <= Len(s)
    BY <1>0
  <2>2. i \in accepted /\ \A k \in accepted : k <= i
    BY <1>0, <1>5, <2>1, GreatestIs
  <2> HIDE DEF i
  <2>3. i \in 5 .. Len(s) /\ parsePayloadStrings(SubSeq(s, 1, i)) # <<>>
    BY <2>2
  <2>4. PICK c1, c2, c3 : \E l \in 5 .. i :
           /\ FourParts(s, f, c1, c2, c3, l + 1) /\ s[l] # Blank
           /\ \A k \in l + 1 .. i : s[k] = Blank
           /\ parsePayloadStrings(SubSeq(s, 1, i)) = FourValues(s, f, c1, c2, c3, l + 1)
    BY <1>1, <2>3, AcceptedParts
  <2>5. PICK l \in 5 .. i :
           /\ FourParts(s, f, c1, c2, c3, l + 1) /\ s[l] # Blank
           /\ \A k \in l + 1 .. i : s[k] = Blank
           /\ parsePayloadStrings(SubSeq(s, 1, i)) = FourValues(s, f, c1, c2, c3, l + 1)
    BY <2>4
  <2> DEFINE j == l + 1
  <2>6. j \in Nat /\ j <= Len(s) + 1 /\ FourParts(s, f, c1, c2, c3, j) /\ j = l + 1
    BY <1>0, <2>3, <2>5
  <2> HIDE DEF j
  <2>7. PICK e \in Nat : /\ j <= e /\ e <= Len(s) + 1 /\ \A k \in j .. e - 1 : s[k] \in DigitChars
                         /\ e > Len(s) \/ s[e] \notin DigitChars
    BY <1>0, <2>6, RunEnds
  <2>8. Number(s, c3 + 1, e)
    <3>1. Number(s, c3 + 1, j)
      BY <2>6 DEF FourParts
    <3> QED BY <1>0, <2>7, <3>1, NumberGrown
  <2>9. FourParts(s, f, c1, c2, c3, e)
    BY <2>6, <2>8 DEF FourParts
  <2>10. e - 1 <= i
    BY <1>3, <2>2, <2>9
  <2>11. e = j
    <3> SUFFICES ASSUME e # j PROVE FALSE
      OBVIOUS
    <3>1. e - 1 \in l + 1 .. i /\ e - 1 \in j .. e - 1
      BY <2>3, <2>6, <2>7, <2>10
    <3>2. s[e - 1] = Blank /\ s[e - 1] \in DigitChars
      BY <2>5, <2>7, <3>1
    <3> QED BY <3>2, CharsDiffer
  <2>12. FourNumbers(s, f) = FourValues(s, f, c1, c2, c3, j)
    BY <1>0, <2>7, <2>9, <2>11, FastOfParts
  <2>13. FourValues(s, f, c1, c2, c3, j) = parsePayloadStrings(SubSeq(s, 1, i))
    BY <2>5, <2>6
  <2> QED BY <1>1, <2>12, <2>13 DEF i
<1> QED BY <1>4, <1>5

(* parsePayload takes the four parts of a text without further spaces.     *)
LEMMA ConsumeOfParts ==
  ASSUME NEW t, Len(t) \in Nat, NEW c1, NEW c2, NEW c3,
         FourParts(t, 1, c1, c2, c3, Len(t)), t[Len(t)] = Comma
  PROVE  Consume(t) = Ready(FourValues(t, 1, c1, c2, c3, Len(t)))
<1> DEFINE e == Len(t)
           n1 == NumeralValue(t, 1, c1)
           n2 == NumeralValue(t, c1 + 1, c2)
           n3 == NumeralValue(t, c2 + 1, c3)
           n4 == NumeralValue(t, c3 + 1, e)
<1>1. /\ Number(t, 1, c1) /\ t[c1] = Comma /\ Number(t, c1 + 1, c2) /\ t[c2] = Comma
      /\ Number(t, c2 + 1, c3) /\ t[c3] = Comma /\ Number(t, c3 + 1, e)
  BY DEF FourParts
<1>2. /\ Numeral(t, 1, c1) /\ Numeral(t, c1 + 1, c2) /\ Numeral(t, c2 + 1, c3) /\ Numeral(t, c3 + 1, e)
  BY <1>1 DEF Number
<1>3. /\ c1 \in Nat /\ c2 \in Nat /\ c3 \in Nat /\ e \in Nat /\ t[e] = Comma
      /\ 1 < c1 /\ c1 + 1 < c2 /\ c2 + 1 < c3 /\ c3 + 1 < e /\ e <= Len(t)
  BY PartsAre
<1>4. n1 \in Int /\ n2 \in Int /\ n3 \in Int /\ n4 \in Int
  BY <1>2, NumeralValueIs
<1>5. PICK a : ConsumeSteps(a, t)
  BY ConsumeStepsExist
<1>6. a[0] = Ready(<<>>)
  BY <1>5 DEF ConsumeSteps, Begin, Ready
<1>7. FourValues(t, 1, c1, c2, c3, e) = <<n1, n2, n3, n4>>
  BY DEF FourValues
<1>8. a[e] = Consume(t)
  BY <1>5 DEF ConsumeSteps
<1>9. e = Len(t)
  OBVIOUS
<1>9a. /\ n1 = NumeralValue(t, 1, c1) /\ n2 = NumeralValue(t, c1 + 1, c2)
       /\ n3 = NumeralValue(t, c2 + 1, c3) /\ n4 = NumeralValue(t, c3 + 1, e)
  OBVIOUS
<1> HIDE DEF e, n1, n2, n3, n4
<1> DEFINE o0 == <<>>
           o1 == <<n1>>
           o2 == <<n1, n2>>
           o3 == <<n1, n2, n3>>
<1>10. /\ o0 \in Seq(Int) /\ Len(o0) = 0 /\ o1 \in Seq(Int) /\ Len(o1) = 1
       /\ o2 \in Seq(Int) /\ Len(o2) = 2 /\ o3 \in Seq(Int) /\ Len(o3) = 3
       /\ Append(o0, n1) = o1 /\ Append(o1, n2) = o2 /\ Append(o2, n3) = o3
  BY <1>4, PrefixesAre, ZenonT(60)
<1>11. Append(o3, n4) = <<n1, n2, n3, n4>>
  <2> DEFINE u == <<n1, n2, n3, n4>>
  <2>1. /\ u \in Seq(Int) /\ Len(u) = Len(o3) + 1 /\ Len(o3) = 3
        /\ u[1] = o3[1] /\ u[2] = o3[2] /\ u[3] = o3[3] /\ u[4] = n4
    BY <1>4
  <2> HIDE DEF u, o3
  <2>2. \A k \in 1 .. Len(o3) : u[k] = o3[k]
    <3>1. \A k \in 1 .. Len(o3) : k = 1 \/ k = 2 \/ k = 3
      BY <2>1
    <3> QED BY <2>1, <3>1
  <2>3. u[Len(o3) + 1] = n4
    BY <2>1
  <2>4. Append(o3, n4) = u
    BY <1>4, <1>10, <2>1, <2>2, <2>3, AppendIs
  <2> QED BY <2>4 DEF u
<1> HIDE DEF o0, o1, o2, o3
<1>12. Len(o0) < 4 /\ Len(o1) < 4 /\ Len(o2) < 4 /\ Len(o3) < 4
  BY <1>10
<1>12a. /\ c1 <= Len(t) /\ c2 <= Len(t) /\ c3 <= Len(t) /\ 0 + 1 = 1
  BY <1>3
<1>12b. ASSUME NEW k \in Nat, NEW o \in Seq(Int), a[k] = Ready(o), Len(o) < 4,
               NEW j, Numeral(t, k + 1, j), j <= Len(t), t[j] = Comma
        PROVE  a[j] = Ready(Append(o, NumeralValue(t, k + 1, j)))
  <2> DEFINE i == k + 1
  <2>1. i - 1 = k
    OBVIOUS
  <2>2. Numeral(t, i, j) /\ a[i - 1] = Ready(o)
    BY <1>12b, <2>1
  <2> HIDE DEF i
  <2>3. a[j] = Ready(Append(o, NumeralValue(t, i, j)))
    BY <1>5, <1>12b, <2>2, NumberTaken
  <2> QED BY <2>3 DEF i
<1>13. a[c1] = Ready(o1)
  <2>1. 0 \in Nat /\ o0 \in Seq(Int) /\ a[0] = Ready(o0) /\ Len(o0) < 4
    BY <1>3, <1>10, <1>12, <1>6 DEF o0
  <2>2. Numeral(t, 0 + 1, c1) /\ c1 <= Len(t) /\ t[c1] = Comma
    BY <1>1, <1>2, <1>3, <1>12a
  <2>3. a[c1] = Ready(Append(o0, NumeralValue(t, 0 + 1, c1)))
    BY <1>12b, <2>1, <2>2
  <2> QED BY <1>9a, <1>10, <1>12a, <2>3
<1>14. a[c2] = Ready(o2)
  <2>1. c1 \in Nat /\ o1 \in Seq(Int) /\ a[c1] = Ready(o1) /\ Len(o1) < 4
    BY <1>3, <1>10, <1>12, <1>13
  <2>2. Numeral(t, c1 + 1, c2) /\ c2 <= Len(t) /\ t[c2] = Comma
    BY <1>1, <1>2, <1>3, <1>12a
  <2>3. a[c2] = Ready(Append(o1, NumeralValue(t, c1 + 1, c2)))
    BY <1>12b, <2>1, <2>2
  <2> QED BY <1>9a, <1>10, <1>12a, <2>3
<1>15. a[c3] = Ready(o3)
  <2>1. c2 \in Nat /\ o2 \in Seq(Int) /\ a[c2] = Ready(o2) /\ Len(o2) < 4
    BY <1>3, <1>10, <1>12, <1>14
  <2>2. Numeral(t, c2 + 1, c3) /\ c3 <= Len(t) /\ t[c3] = Comma
    BY <1>1, <1>2, <1>3, <1>12a
  <2>3. a[c3] = Ready(Append(o2, NumeralValue(t, c2 + 1, c3)))
    BY <1>12b, <2>1, <2>2
  <2> QED BY <1>9a, <1>10, <1>12a, <2>3
<1>16. a[e] = Ready(Append(o3, n4))
  <2>1. c3 \in Nat /\ o3 \in Seq(Int) /\ a[c3] = Ready(o3) /\ Len(o3) < 4
    BY <1>3, <1>10, <1>12, <1>15
  <2>2. Numeral(t, c3 + 1, e) /\ e <= Len(t) /\ t[e] = Comma
    BY <1>1, <1>2, <1>3, <1>12a
  <2>3. a[e] = Ready(Append(o3, NumeralValue(t, c3 + 1, e)))
    BY <1>12b, <2>1, <2>2
  <2> QED BY <1>9a, <1>10, <1>12a, <2>3
<1> QED BY <1>7, <1>8, <1>11, <1>16 DEF e

(* parsePayload takes what the reference takes from a text without further *)
(* spaces.                                                                 *)
LEMMA PayloadMeets ==
  ASSUME NEW S, NEW s \in Seq(S), Comma \in S, Tagged(s), \A k \in 6 .. Len(s) : s[k] # Blank,
         parsePayloadStrings(s) # <<>>
  PROVE  parsePayload(s) = parsePayloadStrings(s)
<1>0. Len(s) \in Nat /\ s[5] = Blank
  BY DEF Tagged
<1>1. PICK a, l, c1, c2, c3 : Bounds(s, a, l) /\ FourParts(s, a, c1, c2, c3, l + 1)
  BY ReferenceTaken
<1>2. parsePayloadStrings(s) = FourValues(s, a, c1, c2, c3, l + 1)
  BY <1>1, ReferenceTakes
<1>3. /\ a \in 5 .. Len(s) /\ l \in a .. Len(s) /\ s[a] # Blank /\ s[l] # Blank
      /\ \A k \in 5 .. a - 1 : s[k] = Blank
      /\ \A k \in l + 1 .. Len(s) : s[k] = Blank
  BY <1>1 DEF Bounds
<1>4. a = 6
  <2>1. a # 5
    BY <1>0, <1>3
  <2>2. ASSUME a > 6 PROVE FALSE
    <3>1. 6 \in 5 .. a - 1 /\ 6 \in 6 .. Len(s)
      BY <1>0, <1>3, <2>2
    <3> QED BY <1>3, <3>1
  <2> QED BY <1>3, <2>1, <2>2
<1>5. l = Len(s)
  <2> SUFFICES ASSUME l # Len(s) PROVE FALSE
    OBVIOUS
  <2>1. Len(s) \in l + 1 .. Len(s) /\ Len(s) \in 6 .. Len(s)
    BY <1>0, <1>3, <1>4
  <2> QED BY <1>3, <2>1
<1> DEFINE n == Len(s) - 5
           q == SubSeq(s, 6, Len(s))
           t == Append(q, Comma)
           e == Len(s) + 1
<1>6. n \in Nat /\ Len(s) >= 6 /\ Len(s) = n + 5 /\ e = n + 6
  BY <1>0, <1>3, <1>4
<1>7. q \in Seq(S) /\ Len(q) = n /\ \A k \in 1 .. n : q[k] = s[5 + k]
  <2>1. \A k \in 6 .. Len(s) : s[k] \in S
    <3>1. \A k \in 6 .. Len(s) : k \in 1 .. Len(s)
      BY <1>0
    <3>2. \A k \in 1 .. Len(s) : s[k] \in S
      BY ElementOfSeq
    <3> QED BY <3>1, <3>2
  <2>2. 6 \in Int /\ Len(s) \in Int
    BY <1>0
  <2>3. /\ q \in Seq(S) /\ Len(q) = IF 6 <= Len(s) THEN Len(s) - 6 + 1 ELSE 0
        /\ \A k \in 1 .. Len(s) - 6 + 1 : q[k] = s[6 + k - 1]
    BY <2>1, <2>2, SubSeqProperties
  <2>4. Len(s) - 6 + 1 = n /\ \A k \in 1 .. n : 6 + k - 1 = 5 + k
    BY <1>6
  <2> HIDE DEF q, n
  <2> QED BY <1>6, <2>3, <2>4
<1> HIDE DEF q
<1>8. t \in Seq(S) /\ Len(t) = n + 1 /\ t[n + 1] = Comma /\ \A k \in 1 .. n : t[k] = q[k]
  <2> HIDE DEF n
  <2> QED BY <1>7, AppendProperties
<1> HIDE DEF t
<1> DEFINE d == -5
           f1 == c1 + d
           f2 == c2 + d
           f3 == c3 + d
<1>9. /\ d \in Int /\ 6 + d = 1 /\ 6 + d > 0 /\ e + d = Len(t) /\ e + d <= Len(t) + 1
      /\ Len(t) \in Nat
  BY <1>6, <1>8
<1>10. Same(t, s, d, 6, e)
  <2> SUFFICES ASSUME NEW k \in 6 .. e - 1 PROVE t[k + d] = s[k]
    BY DEF Same
  <2>1. k + d \in 1 .. n /\ 5 + (k + d) = k
    BY <1>6
  <2> HIDE DEF d, n
  <2> QED BY <1>7, <1>8, <2>1
<1>11. FourParts(s, 6, c1, c2, c3, e) /\ parsePayloadStrings(s) = FourValues(s, 6, c1, c2, c3, e)
  BY <1>1, <1>2, <1>4, <1>5
<1> HIDE DEF d, e
<1>12. /\ FourParts(t, 6 + d, c1 + d, c2 + d, c3 + d, e + d)
       /\ FourValues(t, 6 + d, c1 + d, c2 + d, c3 + d, e + d) = FourValues(s, 6, c1, c2, c3, e)
  BY <1>0, <1>9, <1>10, <1>11, PartsShifted
<1>13. /\ FourParts(t, 1, f1, f2, f3, Len(t))
       /\ FourValues(t, 1, f1, f2, f3, Len(t)) = parsePayloadStrings(s)
  BY <1>9, <1>11, <1>12
<1> HIDE DEF f1, f2, f3
<1>14. t[Len(t)] = Comma
  BY <1>8
<1>15. Consume(t) = Ready(FourValues(t, 1, f1, f2, f3, Len(t)))
  BY <1>9, <1>13, <1>14, ConsumeOfParts
<1>16. Consume(t) = Ready(parsePayloadStrings(s))
  BY <1>13, <1>15
<1>17. Len(parsePayloadStrings(s)) = 4
  <2>1. Len(FourValues(t, 1, f1, f2, f3, Len(t))) = 4
    BY DEF FourValues
  <2> QED BY <1>13, <2>1
<1> DEFINE text == Tag \o <<":", Blank>>
           start == IndexOf(text, s)
           z == Consume(Append(SubSeq(s, start + Len(Tag) + 2, Len(s)), Comma))
<1>18. start = 2 /\ Len(Tag) = 2
  BY <1>0, TagFirst, TagIs
<1>19. parsePayload(s) = IF start # 0 /\ z.ok /\ Len(z.out) = 4 THEN z.out ELSE <<>>
  BY DEF parsePayload
<1>20. z = Ready(parsePayloadStrings(s))
  <2>1. start + Len(Tag) + 2 = 6
    BY <1>18
  <2> HIDE DEF start
  <2>2. z = Consume(Append(SubSeq(s, 6, Len(s)), Comma))
    BY <2>1
  <2> QED BY <1>16, <2>2 DEF t, q
<1> HIDE DEF z, start
<1>21. z.ok /\ z.out = parsePayloadStrings(s)
  BY <1>20 DEF Ready
<1> QED BY <1>17, <1>18, <1>19, <1>21

(* A part in which parsePayload finds nothing wrong.                       *)
ZerosAt(t, i, k) == \A l \in i .. k : t[l] = "0"
LooseAt(t, i, j) == \A k \in i .. j - 1 : t[k] \in DigitChars \/ (t[k] = "-" /\ ZerosAt(t, i, k - 1))

(* Only "0" is the digit 0.                                                *)
LEMMA ZeroIs ==
  "0" \in DigitChars /\ DigitOf("0") = 0 /\ \A c \in DigitChars : c # "0" => DigitOf(c) > 0
<1>1. Digits[0 + 1] = "0" /\ \A k \in 0 .. 9 : Digits[k + 1] \in DigitChars /\ DigitOf(Digits[k + 1]) = k
  BY DigitsAre DEF Digits
<1>2. "0" \in DigitChars /\ DigitOf("0") = 0
  <2>1. 0 \in 0 .. 9
    OBVIOUS
  <2> QED BY <1>1, <2>1
<1>3. ASSUME NEW c \in DigitChars, c # "0" PROVE DigitOf(c) > 0
  <2>1. \E k \in 1 .. 9 : Digits[k + 1] = c
    <3>1. /\ Digits[2] = "1" /\ Digits[3] = "2" /\ Digits[4] = "3" /\ Digits[5] = "4" /\ Digits[6] = "5"
          /\ Digits[7] = "6" /\ Digits[8] = "7" /\ Digits[9] = "8" /\ Digits[10] = "9"
      BY DEF Digits
    <3>2. /\ 1 + 1 = 2 /\ 2 + 1 = 3 /\ 3 + 1 = 4 /\ 4 + 1 = 5 /\ 5 + 1 = 6 /\ 6 + 1 = 7 /\ 7 + 1 = 8
          /\ 8 + 1 = 9 /\ 9 + 1 = 10 
          /\ 1 \in 1 .. 9 /\ 2 \in 1 .. 9 /\ 3 \in 1 .. 9 /\ 4 \in 1 .. 9 /\ 5 \in 1 .. 9 /\ 6 \in 1 .. 9
          /\ 7 \in 1 .. 9 /\ 8 \in 1 .. 9 /\ 9 \in 1 .. 9
      OBVIOUS
    <3> QED BY <1>3, <3>1, <3>2 DEF DigitChars
  <2>2. PICK k \in 1 .. 9 : Digits[k + 1] = c
    BY <2>1
  <2>3. k \in 0 .. 9 /\ k > 0
    OBVIOUS
  <2> QED BY <1>1, <2>2, <2>3
<1> QED BY <1>2, <1>3

(* A sign after one, or after other digits than 0, is refused, and so is a *)
(* fifth number.                                                           *)
LEMMA RefusedAt ==
  ASSUME NEW state \in States, NEW c
  PROVE  /\ state.ok /\ c = "-" /\ (state.neg \/ state.val # 0) => Refused(Advance(state, c))
         /\ state.ok /\ c = Comma /\ ~(Len(state.out) < 4) => Refused(Advance(state, c))
<1>1. /\ state.ok \in BOOLEAN /\ state.neg \in BOOLEAN
      /\ state = [ok |-> state.ok, out |-> state.out, val |-> state.val, neg |-> state.neg]
  BY DEF States
<1>2. ASSUME state.ok, \/ c = "-" /\ (state.neg \/ state.val # 0)
                       \/ c = Comma /\ ~(Len(state.out) < 4)
      PROVE  Refused(Advance(state, c))
  <2>1. c \notin DigitChars /\ (c = "-" => c # Comma) /\ (c = Comma => c # "-")
    BY <1>2, CharsDiffer
  <2>2. Advance(state, c) = [state EXCEPT !.ok = FALSE]
    BY <1>2, <2>1, DigitsAre DEF Advance
  <2> QED BY <1>1, <2>2 DEF Refused
<1> QED BY <1>2

(* What parsePayload knows in the middle of a part.                        *)
Reading(x, t, i, k, o) ==
  /\ ZerosAt(t, i, k) => x = Ready(o)
  /\ x.ok => LooseAt(t, i, k + 1) /\ (ZerosAt(t, i, k) \/ x.neg \/ x.val > 0)

LEMMA PartStep ==
  ASSUME NEW t, NEW i \in Nat, NEW n \in Nat, i <= n + 1, NEW o, NEW x \in States, Reading(x, t, i, n, o),
         t[n + 1] # Comma
  PROVE  Reading(Advance(x, t[n + 1]), t, i, n + 1, o)
<1> DEFINE c == t[n + 1]
           y == Advance(x, c)
<1>0. /\ ZerosAt(t, i, n + 1) <=> ZerosAt(t, i, n) /\ c = "0"
      /\ LooseAt(t, i, (n + 1) + 1) <=> /\ LooseAt(t, i, n + 1)
                                        /\ c \in DigitChars \/ (c = "-" /\ ZerosAt(t, i, n))
  <2>1. n + 1 \in i .. n + 1 /\ \A k : k \in i .. n + 1 <=> k \in i .. n \/ k = n + 1
    OBVIOUS
  <2>2. ((n + 1) + 1) - 1 = n + 1 /\ (n + 1) - 1 = n
    OBVIOUS
  <2>3. ZerosAt(t, i, n + 1) <=> ZerosAt(t, i, n) /\ c = "0"
    BY <2>1 DEF ZerosAt
  <2> DEFINE Fine(k) == t[k] \in DigitChars \/ (t[k] = "-" /\ ZerosAt(t, i, k - 1))
  <2>4. LooseAt(t, i, n + 1) <=> \A k \in i .. n : Fine(k)
    BY <2>2 DEF LooseAt
  <2>5. LooseAt(t, i, (n + 1) + 1) <=> \A k \in i .. n + 1 : Fine(k)
    BY <2>2 DEF LooseAt
  <2>6. Fine(n + 1) <=> c \in DigitChars \/ (c = "-" /\ ZerosAt(t, i, n))
    BY <2>2
  <2> HIDE DEF Fine, c
  <2> QED BY <2>1, <2>3, <2>4, <2>5, <2>6
<1>1. c # Comma /\ x \in States /\ x.val \in Nat /\ x.ok \in BOOLEAN /\ x.neg \in BOOLEAN /\ y \in States
  BY AdvanceIs DEF States
<1>2. /\ ZerosAt(t, i, n) => x = Ready(o)
      /\ x.ok => LooseAt(t, i, n + 1) /\ (ZerosAt(t, i, n) \/ x.neg \/ x.val > 0)
  BY DEF Reading
<1>3. ASSUME ZerosAt(t, i, n + 1) PROVE y = Ready(o)
  <2>1. c = "0" /\ x = Ready(o) /\ c \in DigitChars /\ DigitOf(c) = 0
    BY <1>0, <1>2, <1>3, ZeroIs
  <2>2. x.ok /\ x.out = o /\ x.val = 0 /\ x.neg = FALSE
    BY <2>1 DEF Ready
  <2> HIDE DEF c
  <2>3. y = [ok |-> TRUE, out |-> o, val |-> 10 * 0 + 0, neg |-> FALSE]
    BY <1>1, <2>1, <2>2, AdvanceIs
  <2> QED BY <2>3 DEF Ready
<1>4. ASSUME y.ok
      PROVE  LooseAt(t, i, (n + 1) + 1) /\ (ZerosAt(t, i, n + 1) \/ y.neg \/ y.val > 0)
  <2> HIDE DEF c
  <2>1. x.ok
    <3>1. ~x.ok => Refused(x)
      BY <1>1 DEF Refused
    <3>2. Refused(x) => y = x
      BY <1>1, AdvanceIs
    <3> QED BY <1>4, <3>1, <3>2 DEF Refused
  <2>2. LooseAt(t, i, n + 1) /\ (ZerosAt(t, i, n) \/ x.neg \/ x.val > 0)
    BY <1>2, <2>1
  <2>3. c \in DigitChars \/ c = "-"
    <3>1. c \notin DigitChars \cup {"-", Comma} => Refused(y)
      BY <1>1, AdvanceIs
    <3> QED BY <1>1, <1>4, <3>1 DEF Refused
  <2>4. CASE c = "-"
    <3>1. ~(x.neg \/ x.val # 0)
      <4>1. x.neg \/ x.val # 0 => Refused(y)
        BY <1>1, <2>1, <2>4, RefusedAt
      <4> QED BY <1>4, <4>1 DEF Refused
    <3>2. ZerosAt(t, i, n)
      BY <1>1, <2>2, <3>1
    <3>3. y = [ok |-> TRUE, out |-> x.out, val |-> 0, neg |-> TRUE]
      BY <1>1, <2>1, <2>4, <3>1, AdvanceIs
    <3> HIDE DEF y
    <3> QED BY <1>0, <2>2, <2>4, <3>2, <3>3
  <2>5. CASE c \in DigitChars
    <3>1. y = [ok |-> TRUE, out |-> x.out, val |-> 10 * x.val + DigitOf(c), neg |-> x.neg]
      BY <1>1, <2>1, <2>5, AdvanceIs
    <3>2. y.val = 10 * x.val + DigitOf(c) /\ y.neg = x.neg /\ DigitOf(c) \in Nat
      BY <2>5, <3>1, DigitsAre
    <3>3. c # "0" => DigitOf(c) > 0
      BY <2>5, ZeroIs
    <3> HIDE DEF y
    <3>4. ZerosAt(t, i, n + 1) \/ y.neg \/ y.val > 0
      <4>1. CASE ZerosAt(t, i, n) /\ c = "0"
        BY <1>0, <4>1
      <4>2. CASE c # "0"
        BY <1>1, <3>2, <3>3, <4>2
      <4>3. CASE x.neg \/ x.val > 0
        BY <1>1, <3>2, <4>3
      <4> QED BY <2>2, <4>1, <4>2, <4>3
    <3> QED BY <1>0, <2>2, <2>5, <3>4
  <2> QED BY <2>3, <2>4, <2>5
<1> QED BY <1>3, <1>4 DEF Reading

(* So it knows it at every place of the part.                              *)
LEMMA PartSteps ==
  ASSUME NEW t, Len(t) \in Nat, NEW a, ConsumeSteps(a, t), NEW i \in Nat, i > 0, NEW j \in Nat, i <= j,
         j <= Len(t), \A k \in i .. j - 1 : t[k] # Comma, NEW o, a[i - 1] = Ready(o)
  PROVE  \A k \in i - 1 .. j - 1 : Reading(a[k], t, i, k, o)
<1>1. \A n \in 1 .. Len(t) : a[n] = Advance(a[n - 1], t[n]) /\ a[n - 1] \in States
  BY DEF ConsumeSteps
<1> DEFINE T == {n \in Nat : i - 1 <= n /\ n <= j - 1 => Reading(a[n], t, i, n, o)}
<1>2. Reading(a[i - 1], t, i, i - 1, o)
  <2>1. LooseAt(t, i, (i - 1) + 1) /\ ZerosAt(t, i, i - 1)
    BY DEF LooseAt, ZerosAt
  <2> QED BY <2>1 DEF Reading
<1>3. 0 \in T
  <2> SUFFICES ASSUME i - 1 <= 0 PROVE Reading(a[0], t, i, 0, o)
    OBVIOUS
  <2>1. i - 1 = 0
    OBVIOUS
  <2> QED BY <1>2, <2>1
<1>4. ASSUME NEW n \in Nat, n \in T PROVE n + 1 \in T
  <2> SUFFICES ASSUME i - 1 <= n + 1, n + 1 <= j - 1 PROVE Reading(a[n + 1], t, i, n + 1, o)
    OBVIOUS
  <2>1. CASE i - 1 = n + 1
    BY <1>2, <2>1
  <2>2. CASE i - 1 <= n
    <3>1. /\ n + 1 \in 1 .. Len(t) /\ (n + 1) - 1 = n /\ n + 1 \in i .. j - 1 /\ i <= n + 1
          /\ Reading(a[n], t, i, n, o)
      BY <1>4, <2>2
    <3>2. a[n + 1] = Advance(a[n], t[n + 1]) /\ a[n] \in States /\ t[n + 1] # Comma
      BY <1>1, <3>1
    <3>3. Reading(Advance(a[n], t[n + 1]), t, i, n + 1, o)
      BY <3>1, <3>2, PartStep
    <3> QED BY <3>2, <3>3
  <2> QED BY <2>1, <2>2
<1>5. Nat \subseteq T
  <2> HIDE DEF T
  <2> QED BY <1>3, <1>4, SetInduction
<1>6. \A k \in i - 1 .. j - 1 : k \in T
  <2>1. \A k \in i - 1 .. j - 1 : k \in Nat
    OBVIOUS
  <2> HIDE DEF T
  <2> QED BY <1>5, <2>1
<1> QED BY <1>6

(* Whether a part of a text is loose, and its value.                       *)
LEMMA LooseIs ==
  ASSUME NEW S, NEW data \in Seq(S), NEW a \in Nat, NEW b \in Nat, a > 0, b <= Len(data)
  PROVE  /\ IsLoose(SubSeq(data, a, b)) <=> LooseAt(data, a, b + 1)
         /\ (\A k \in a .. b : data[k] # "-") => LooseValue(SubSeq(data, a, b)) = Value(SubSeq(data, a, b))
         /\ \A m \in a .. b : data[m] = "-" /\ (\A k \in a .. m - 1 : data[k] # "-")
              => LooseValue(SubSeq(data, a, b)) = -Value(SubSeq(data, m + 1, b))
<1> DEFINE q == SubSeq(data, a, b)
           signs == {i \in DOMAIN q : q[i] = "-"}
<1>1. \A k \in 1 .. Len(data) : data[k] \in S
  BY ElementOfSeq
<1>2. /\ q \in Seq(S) /\ Len(q) = IF a <= b THEN b - a + 1 ELSE 0
      /\ \A k \in 1 .. b - a + 1 : q[k] = data[a + k - 1]
  <2>1. \A k \in a .. b : data[k] \in S
    BY <1>1
  <2> QED BY <2>1, SubSeqProperties
<1> HIDE DEF q
<1>3. DOMAIN q = 1 .. Len(q) /\ Len(q) \in Nat /\ (a <= b => Len(q) = b - a + 1)
  BY <1>2
<1>4. \A k \in 1 .. Len(q) : a + k - 1 \in a .. b /\ q[k] = data[a + k - 1]
  BY <1>2, <1>3
<1>5. \A k \in a .. b : k - a + 1 \in 1 .. Len(q) /\ q[k - a + 1] = data[k]
  <2> SUFFICES ASSUME NEW k \in a .. b PROVE k - a + 1 \in 1 .. Len(q) /\ q[k - a + 1] = data[k]
    OBVIOUS
  <2>1. k - a + 1 \in 1 .. Len(q) /\ a + (k - a + 1) - 1 = k
    BY <1>3
  <2> QED BY <1>4, <2>1
<1>6. IsLoose(q) <=> LooseAt(data, a, b + 1)
  <2>1. ASSUME IsLoose(q) PROVE LooseAt(data, a, b + 1)
    <3> SUFFICES ASSUME NEW k \in a .. b, data[k] \notin DigitChars
                 PROVE  data[k] = "-" /\ ZerosAt(data, a, k - 1)
      BY DEF LooseAt
    <3> DEFINE i == k - a + 1
    <3>1. i \in 1 .. Len(q) /\ q[i] = data[k]
      BY <1>5
    <3> HIDE DEF i
    <3>2. q[i] = "-" /\ \A j \in 1 .. i - 1 : q[j] = "0"
      BY <1>3, <2>1, <3>1, DigitsAre DEF IsLoose
    <3>3. ASSUME NEW l \in a .. k - 1 PROVE data[l] = "0"
      <4>1. l - a + 1 \in 1 .. i - 1 /\ l \in a .. b
        BY DEF i
      <4> QED BY <1>5, <3>2, <4>1
    <3> QED BY <3>1, <3>2, <3>3 DEF ZerosAt
  <2>2. ASSUME LooseAt(data, a, b + 1) PROVE IsLoose(q)
    <3> SUFFICES ASSUME NEW i \in 1 .. Len(q), q[i] \notin DigitChars
                 PROVE  q[i] = "-" /\ \A j \in 1 .. i - 1 : q[j] = "0"
      BY <1>3, DigitsAre DEF IsLoose
    <3> DEFINE k == a + i - 1
    <3>1. k \in a .. b /\ q[i] = data[k] /\ (b + 1) - 1 = b
      BY <1>4
    <3> HIDE DEF k
    <3>2. data[k] = "-" /\ ZerosAt(data, a, k - 1)
      BY <2>2, <3>1 DEF LooseAt
    <3>3. ASSUME NEW j \in 1 .. i - 1 PROVE q[j] = "0"
      <4>1. j \in 1 .. Len(q) /\ a + j - 1 \in a .. k - 1
        BY <1>3 DEF k
      <4> QED BY <1>4, <3>2, <4>1 DEF ZerosAt
    <3> QED BY <3>1, <3>2, <3>3
  <2> QED BY <2>1, <2>2
<1>7. LooseValue(q) = IF signs = {} THEN Value(q) ELSE -Value(SubSeq(q, Min(signs) + 1, Len(q)))
  BY DEF LooseValue
<1>8. ASSUME \A k \in a .. b : data[k] # "-" PROVE LooseValue(q) = Value(q)
  <2>1. signs = {}
    BY <1>3, <1>4, <1>8
  <2> HIDE DEF signs
  <2> QED BY <1>7, <2>1
<1>9. ASSUME NEW m \in a .. b, data[m] = "-", \A k \in a .. m - 1 : data[k] # "-"
      PROVE  LooseValue(q) = -Value(SubSeq(data, m + 1, b))
  <2> DEFINE i == m - a + 1
             u == SubSeq(data, m + 1, b)
  <2>1. i \in 1 .. Len(q) /\ q[i] = "-" /\ i \in Nat
    BY <1>5, <1>9
  <2>2. \A j \in signs : i <= j
    <3> SUFFICES ASSUME NEW j \in 1 .. Len(q), q[j] = "-", j < i PROVE FALSE
      BY <1>3
    <3>1. a + j - 1 \in a .. m - 1 /\ data[a + j - 1] = "-"
      BY <1>3, <1>4
    <3> QED BY <1>9, <3>1
  <2>3. signs \in SUBSET Nat /\ i \in signs
    BY <1>3, <2>1
  <2> HIDE DEF signs
  <2>4. Min(signs) = i /\ signs # {}
    <3> HIDE DEF i
    <3> QED BY <2>2, <2>3, MinIs
  <2>5. /\ u \in Seq(S) /\ Len(u) = IF m + 1 <= b THEN b - (m + 1) + 1 ELSE 0
        /\ \A k \in 1 .. b - (m + 1) + 1 : u[k] = data[(m + 1) + k - 1]
    <3>1. \A k \in m + 1 .. b : data[k] \in S
      BY <1>1
    <3>2. m + 1 \in Int /\ b \in Int
      OBVIOUS
    <3> QED BY <3>1, <3>2, SubSeqProperties
  <2> HIDE DEF u
  <2>6. Len(u) = b - m /\ Len(q) = b - a + 1 /\ Len(u) = Len(q) - (i + 1) + 1
    BY <1>3, <2>5
  <2>7. \A k \in 1 .. Len(u) : q[(i + 1) + k - 1] = u[k]
    <3> SUFFICES ASSUME NEW k \in 1 .. Len(u) PROVE q[(i + 1) + k - 1] = u[k]
      OBVIOUS
    <3>1. /\ m + k \in a .. b /\ (m + k) - a + 1 = (i + 1) + k - 1 /\ (m + 1) + k - 1 = m + k
          /\ k \in 1 .. b - (m + 1) + 1
      BY <2>6
    <3>2. q[(m + k) - a + 1] = data[m + k]
      BY <1>5, <3>1
    <3>3. u[k] = data[(m + 1) + k - 1]
      BY <2>5, <3>1
    <3> QED BY <3>1, <3>2, <3>3
  <2>8. SubSeq(q, i + 1, Len(q)) = u
    <3>1. i + 1 \in Int /\ Len(q) \in Int
      BY <1>3, <2>1
    <3> QED BY <2>5, <2>6, <2>7, <3>1, PartIs
  <2> QED BY <1>7, <2>4, <2>8 DEF u
<1> QED BY <1>6, <1>8, <1>9 DEF q

(* A loose part and a comma add its value to what parsePayload has, and    *)
(* any other part is refused.                                              *)
LEMMA LooseTaken ==
  ASSUME NEW S, NEW t \in Seq(S), NEW a, ConsumeSteps(a, t), NEW i \in Nat, i > 0, NEW j \in Nat, i <= j,
         j <= Len(t), \A k \in i .. j - 1 : t[k] # Comma, t[j] = Comma,
         NEW o \in Seq(Int), Len(o) < 4, a[i - 1] = Ready(o)
  PROVE  LET part == SubSeq(t, i, j - 1)
         IN  /\ IsLoose(part) => LooseValue(part) \in Int /\ a[j] = Ready(Append(o, LooseValue(part)))
             /\ ~IsLoose(part) => Refused(Consume(t))
<1> DEFINE part == SubSeq(t, i, j - 1)
           b == j - 1
<1>0. Len(t) \in Nat /\ b \in Nat /\ b + 1 = j /\ b <= Len(t)
  OBVIOUS
<1>1. \A k \in i - 1 .. j - 1 : Reading(a[k], t, i, k, o)
  BY <1>0, PartSteps
<1>2. /\ IsLoose(part) <=> LooseAt(t, i, j)
      /\ (\A k \in i .. b : t[k] # "-") => LooseValue(part) = Value(part)
      /\ \A m \in i .. b : t[m] = "-" /\ (\A k \in i .. m - 1 : t[k] # "-")
           => LooseValue(part) = -Value(SubSeq(t, m + 1, b))
  <2> HIDE DEF b
  <2>1. part = SubSeq(t, i, b)
    BY DEF b
  <2> HIDE DEF part
  <2> QED BY <1>0, <2>1, LooseIs
<1>3. ASSUME ~IsLoose(part) PROVE Refused(Consume(t))
  <2>1. b \in i - 1 .. j - 1 /\ b \in 0 .. Len(t)
    BY <1>0
  <2>2. ~a[b].ok
    BY <1>0, <1>1, <1>2, <1>3, <2>1 DEF Reading
  <2>3. a[b] \in States
    BY <2>1 DEF ConsumeSteps
  <2>4. Refused(a[b])
    BY <2>2, <2>3 DEF Refused, States
  <2> QED BY <1>0, <2>1, <2>4, RefusedEver
<1>4. ASSUME IsLoose(part), \A k \in i .. b : t[k] # "-"
      PROVE  LooseValue(part) \in Int /\ a[j] = Ready(Append(o, LooseValue(part)))
  <2>1. \A k \in i .. b : t[k] \in DigitChars
    BY <1>2, <1>4 DEF LooseAt
  <2>2. t[i] # "-"
    <3>1. i = j \/ i \in i .. b
      BY <1>0
    <3> QED BY <1>4, <3>1, CharsDiffer
  <2>3. PastSign(t, i) = i
    BY <2>2 DEF PastSign
  <2>4. Numeral(t, i, j)
    BY <1>0, <2>1, <2>3 DEF Numeral
  <2>5. NumeralValue(t, i, j) = LooseValue(part)
    BY <1>2, <1>4, <2>3 DEF NumeralValue
  <2>6. NumeralValue(t, i, j) \in Int
    BY <2>4, NumeralValueIs
  <2>7. a[j] = Ready(Append(o, NumeralValue(t, i, j)))
    BY <1>0, <2>4, NumberTaken
  <2> QED BY <2>5, <2>6, <2>7
<1>5. ASSUME IsLoose(part), NEW m \in i .. b, t[m] = "-"
      PROVE  LooseValue(part) \in Int /\ a[j] = Ready(Append(o, LooseValue(part)))
  <2>1. ASSUME NEW k \in i .. b, t[k] = "-" PROVE ZerosAt(t, i, k - 1)
    BY <1>2, <1>5, <2>1, CharsDiffer DEF LooseAt
  <2>2. \A k \in i .. m - 1 : t[k] # "-"
    <3> SUFFICES ASSUME NEW k \in i .. m - 1, t[k] = "-" PROVE FALSE
      OBVIOUS
    <3>1. t[k] = "0"
      BY <1>5, <2>1 DEF ZerosAt
    <3> QED BY <3>1, ZeroIs, CharsDiffer
  <2>3. \A k \in m + 1 .. b : t[k] \in DigitChars
    <3> SUFFICES ASSUME NEW k \in m + 1 .. b, t[k] \notin DigitChars PROVE FALSE
      OBVIOUS
    <3>1. k \in i .. b /\ m \in i .. k - 1
      OBVIOUS
    <3>2. t[k] = "-"
      BY <1>2, <1>5, <3>1 DEF LooseAt
    <3>3. t[m] = "0"
      BY <2>1, <3>1, <3>2 DEF ZerosAt
    <3> QED BY <1>5, <3>3, ZeroIs, CharsDiffer
  <2>4. m \in Nat /\ m > 0 /\ m <= Len(t) /\ PastSign(t, m) = m + 1 /\ m + 1 <= j /\ m # m + 1
    BY <1>0, <1>5 DEF PastSign
  <2>5. Numeral(t, m, j)
    BY <1>0, <2>3, <2>4 DEF Numeral
  <2>6. NumeralValue(t, m, j) = LooseValue(part)
    BY <1>2, <1>5, <2>2, <2>4 DEF NumeralValue
  <2>7. NumeralValue(t, m, j) \in Int
    BY <2>5, NumeralValueIs
  <2>8. a[m - 1] = Ready(o)
    <3>1. m - 1 \in i - 1 .. j - 1 /\ ZerosAt(t, i, m - 1)
      BY <1>0, <1>5, <2>1
    <3> QED BY <1>1, <3>1 DEF Reading
  <2>9. a[j] = Ready(Append(o, NumeralValue(t, m, j)))
    BY <1>0, <2>5, <2>8, NumberTaken
  <2> QED BY <2>6, <2>7, <2>9
<1>6. IsLoose(part) => LooseValue(part) \in Int /\ a[j] = Ready(Append(o, LooseValue(part)))
  BY <1>4, <1>5
<1> QED BY <1>3, <1>6

(* parsePayload has a number for each comma it has passed.                 *)
LEMMA CommasCounted ==
  ASSUME NEW t, Len(t) \in Nat, Consume(t).ok
  PROVE  Len(Consume(t).out) = Cardinality({l \in 1 .. Len(t) : t[l] = Comma})
<1> DEFINE C(n) == {l \in 1 .. n : t[l] = Comma}
<1>1. PICK a : ConsumeSteps(a, t)
  BY ConsumeStepsExist
<1>2. /\ a[0] = Begin /\ a[Len(t)] = Consume(t)
      /\ \A n \in 1 .. Len(t) : a[n] = Advance(a[n - 1], t[n]) /\ a[n - 1] \in States
  BY <1>1 DEF ConsumeSteps
<1> DEFINE T == {n \in Nat : n <= Len(t) /\ a[n].ok => IsFiniteSet(C(n)) /\ Len(a[n].out) = Cardinality(C(n))}
<1>3. 0 \in T
  <2>1. C(0) = {} /\ Len(a[0].out) = 0
    BY <1>2 DEF Begin
  <2> HIDE DEF C
  <2> QED BY <2>1, FS_EmptySet
<1>4. ASSUME NEW n \in Nat, n \in T PROVE n + 1 \in T
  <2> SUFFICES ASSUME n + 1 <= Len(t), a[n + 1].ok
               PROVE  IsFiniteSet(C(n + 1)) /\ Len(a[n + 1].out) = Cardinality(C(n + 1))
    OBVIOUS
  <2> DEFINE c == t[n + 1]
             x == a[n]
             y == a[n + 1]
  <2>1. y = Advance(x, c) /\ x \in States /\ y.ok
    <3>1. n + 1 \in 1 .. Len(t) /\ (n + 1) - 1 = n
      OBVIOUS
    <3> QED BY <1>2, <3>1
  <2>2. c = Comma => C(n + 1) = C(n) \cup {n + 1} /\ n + 1 \notin C(n)
    OBVIOUS
  <2>3. c # Comma => C(n + 1) = C(n)
    OBVIOUS
  <2>4. x.ok => IsFiniteSet(C(n)) /\ Len(x.out) = Cardinality(C(n))
    BY <1>4
  <2> SUFFICES IsFiniteSet(C(n + 1)) /\ Len(y.out) = Cardinality(C(n + 1))
    OBVIOUS
  <2> HIDE DEF C, c, x, y
  <2>5. x.ok /\ x.out \in Seq(Int) /\ x.val \in Nat /\ x.neg \in BOOLEAN
    <3>1. ~x.ok => Refused(x)
      BY <2>1 DEF Refused, States
    <3>2. Refused(x) => y = x
      BY <2>1, AdvanceIs
    <3> QED BY <2>1, <3>1, <3>2 DEF Refused, States
  <2>6. CASE c = Comma
    <3>1. Len(x.out) < 4
      <4>1. ~(Len(x.out) < 4) => Refused(y)
        BY <2>1, <2>5, <2>6, RefusedAt
      <4> QED BY <2>1, <4>1 DEF Refused
    <3> DEFINE v == IF x.neg THEN -x.val ELSE x.val
    <3>2. y = [ok |-> TRUE, val |-> 0, neg |-> FALSE, out |-> Append(x.out, v)]
      BY <2>1, <2>5, <2>6, <3>1, AdvanceIs
    <3>3. v \in Int
      BY <2>5
    <3> HIDE DEF v
    <3>4. Len(y.out) = Len(x.out) + 1
      BY <2>5, <3>2, <3>3
    <3>5. IsFiniteSet(C(n + 1)) /\ Cardinality(C(n + 1)) = Cardinality(C(n)) + 1
      BY <2>2, <2>4, <2>5, <2>6, FS_AddElement
    <3> QED BY <2>4, <2>5, <3>4, <3>5
  <2>7. CASE c # Comma
    <3>1. c \in DigitChars \/ c = "-"
      <4>1. c \notin DigitChars \cup {"-", Comma} => Refused(y)
        BY <2>1, AdvanceIs
      <4> QED BY <2>1, <2>7, <4>1 DEF Refused
    <3>2. y.out = x.out
      <4>1. CASE c \in DigitChars
        <5>1. y = [ok |-> TRUE, out |-> x.out, val |-> 10 * x.val + DigitOf(c), neg |-> x.neg]
          BY <2>1, <2>5, <4>1, AdvanceIs
        <5> QED BY <5>1
      <4>2. CASE c = "-"
        <5>1. x.neg \/ x.val # 0 => Refused(y)
          BY <2>1, <2>5, <4>2, RefusedAt
        <5>2. ~x.neg /\ x.val = 0
          BY <2>1, <2>5, <5>1 DEF Refused
        <5>3. y = [ok |-> TRUE, out |-> x.out, val |-> 0, neg |-> TRUE]
          BY <2>1, <2>5, <4>2, <5>2, AdvanceIs
        <5> QED BY <5>3
      <4> QED BY <3>1, <4>1, <4>2
    <3> QED BY <2>3, <2>4, <2>5, <2>7, <3>2
  <2> QED BY <2>6, <2>7
<1>5. Nat \subseteq T
  <2> HIDE DEF T
  <2> QED BY <1>3, <1>4, SetInduction
<1>6. Len(t) \in T
  <2> HIDE DEF T
  <2> QED BY <1>5
<1> QED BY <1>2, <1>6

(* What parsePayload makes of a text and the comma after it.               *)
LEMMA PayloadOfLoose ==
  ASSUME NEW S, NEW q \in Seq(S), NEW t \in Seq(S), Len(t) = Len(q) + 1, t[Len(q) + 1] = Comma,
         \A k \in 1 .. Len(q) : t[k] = q[k]
  PROVE  /\ LooseInts(q) # <<>> => Consume(t) = Ready(LooseInts(q)) /\ Len(LooseInts(q)) = 4
         /\ LooseInts(q) = <<>> => ~(Consume(t).ok /\ Len(Consume(t).out) = 4)
<1> DEFINE n == Len(q)
           e == n + 1
           C == Commas(q)
           c1 == Min(C)
           c2 == Min(C \ {Min(C)})
           c3 == Max(C)
           p1 == SubSeq(q, 1, c1 - 1)
           p2 == SubSeq(q, c1 + 1, c2 - 1)
           p3 == SubSeq(q, c2 + 1, c3 - 1)
           p4 == SubSeq(q, c3 + 1, n)
           parts == <<p1, p2, p3, p4>>
           AllLoose == IsLoose(p1) /\ IsLoose(p2) /\ IsLoose(p3) /\ IsLoose(p4)
           Values == <<LooseValue(p1), LooseValue(p2), LooseValue(p3), LooseValue(p4)>>
<1>1. n \in Nat /\ DOMAIN q = 1 .. n
  OBVIOUS
<1>2. Len(t) \in Nat /\ Len(t) = e /\ t[e] = Comma /\ \A k \in 1 .. n : t[k] = q[k]
  OBVIOUS
<1>3. C \in SUBSET Nat /\ IsFiniteSet(C) /\ C = {k \in 1 .. n : t[k] = Comma}
  <2>1. C = {k \in 1 .. n : t[k] = Comma} /\ C \subseteq 1 .. n /\ C \in SUBSET Nat
    BY <1>1, <1>2 DEF Commas
  <2>2. IsFiniteSet(1 .. n)
    <3>1. 1 \in Int /\ n \in Int
      BY <1>1
    <3> QED BY <3>1, FS_Interval
  <2>3. IsFiniteSet(C)
    BY <2>1, <2>2, FS_Subset
  <2> QED BY <2>1, <2>3
<1>4. LooseInts(q) = IF Cardinality(C) = 3 /\ AllLoose THEN Values ELSE <<>>
  <2>1. Pieces(q) = parts
    BY DEF Pieces
  <2> HIDE DEF p1, p2, p3, p4, C
  <2>2. parts[1] = p1 /\ parts[2] = p2 /\ parts[3] = p3 /\ parts[4] = p4
    OBVIOUS
  <2>3. (\A k \in 1 .. 4 : IsLoose(parts[k])) <=> AllLoose
    <3>1. \A k \in 1 .. 4 : k = 1 \/ k = 2 \/ k = 3 \/ k = 4
      OBVIOUS
    <3>2. 1 \in 1 .. 4 /\ 2 \in 1 .. 4 /\ 3 \in 1 .. 4 /\ 4 \in 1 .. 4
      OBVIOUS
    <3> HIDE DEF parts
    <3> QED BY <2>2, <3>1, <3>2
  <2>4. [k \in 1 .. 4 |-> LooseValue(parts[k])] = Values
    OBVIOUS
  <2>5. LooseInts(q) = IF Cardinality(C) = 3 /\ \A k \in 1 .. 4 : IsLoose(parts[k])
                       THEN [k \in 1 .. 4 |-> LooseValue(parts[k])] ELSE <<>>
    <3> HIDE DEF parts
    <3> QED BY <2>1, Zenon DEF LooseInts, C
  <2> HIDE DEF parts, Values, AllLoose
  <2> QED BY <2>3, <2>4, <2>5
<1> HIDE DEF C
<1>5. ASSUME Cardinality(C) # 3, Consume(t).ok PROVE Len(Consume(t).out) # 4
  <2> DEFINE D == {l \in 1 .. Len(t) : t[l] = Comma}
  <2>1. Len(Consume(t).out) = Cardinality(D)
    BY <1>2, <1>5, CommasCounted, Zenon
  <2>2. D = C \cup {e} /\ e \notin C
    <3>1. \A k : k \in 1 .. e <=> k \in 1 .. n \/ k = e
      BY <1>1
    <3>2. ~(e \in 1 .. n)
      BY <1>1
    <3> HIDE DEF e, n
    <3> QED BY <1>2, <1>3, <3>1, <3>2
  <2> HIDE DEF D
  <2>3. Cardinality(D) = Cardinality(C) + 1 /\ Cardinality(C) \in Nat
    BY <1>3, <2>2, FS_AddElement, FS_CardinalityType
  <2> QED BY <1>5, <2>1, <2>3
<1>6. ASSUME Cardinality(C) = 3
      PROVE  /\ AllLoose => Consume(t) = Ready(Values)
             /\ ~AllLoose => Refused(Consume(t))
  <2>1. /\ c1 \in C /\ c2 \in C /\ c3 \in C /\ c1 < c2 /\ c2 < c3
        /\ \A k \in C : k = c1 \/ k = c2 \/ k = c3
    BY <1>3, <1>6, ThreeAre
  <2> HIDE DEF c1, c2, c3
  <2>2. /\ c1 \in 1 .. n /\ c2 \in 1 .. n /\ c3 \in 1 .. n
        /\ t[c1] = Comma /\ t[c2] = Comma /\ t[c3] = Comma
    BY <1>3, <2>1
  <2>3. /\ \A k \in 1 .. c1 - 1 : t[k] # Comma
        /\ \A k \in c1 + 1 .. c2 - 1 : t[k] # Comma
        /\ \A k \in c2 + 1 .. c3 - 1 : t[k] # Comma
        /\ \A k \in c3 + 1 .. e - 1 : t[k] # Comma
    <3>1. \A k \in 1 .. n : t[k] = Comma => k = c1 \/ k = c2 \/ k = c3
      BY <1>3, <2>1
    <3> QED BY <1>1, <2>1, <2>2, <3>1
  <2>4. PICK a : ConsumeSteps(a, t)
    BY <1>1, <1>2, ConsumeStepsExist
  <2>5. a[0] = Ready(<<>>) /\ a[e] = Consume(t)
    BY <1>2, <2>4 DEF ConsumeSteps, Begin, Ready
  <2> DEFINE Part(b, j) == SubSeq(t, b + 1, j - 1)
  <2>6. ASSUME NEW b \in Nat, NEW j \in Nat, b < j, j <= e, t[j] = Comma,
               \A k \in b + 1 .. j - 1 : t[k] # Comma, NEW o \in Seq(Int), Len(o) < 4, a[b] = Ready(o)
        PROVE  /\ IsLoose(Part(b, j)) => /\ LooseValue(Part(b, j)) \in Int
                                         /\ a[j] = Ready(Append(o, LooseValue(Part(b, j))))
               /\ ~IsLoose(Part(b, j)) => Refused(Consume(t))
    <3> DEFINE i == b + 1
    <3>1. i \in Nat /\ i > 0 /\ i <= j /\ i - 1 = b /\ j <= Len(t)
      BY <1>1, <1>2, <2>6
    <3>2. a[i - 1] = Ready(o) /\ \A k \in i .. j - 1 : t[k] # Comma
      BY <2>6, <3>1
    <3> HIDE DEF i
    <3>3. LET part == SubSeq(t, i, j - 1)
          IN  /\ IsLoose(part) => LooseValue(part) \in Int /\ a[j] = Ready(Append(o, LooseValue(part)))
              /\ ~IsLoose(part) => Refused(Consume(t))
      <4> HIDE DEF n, e
      <4> QED BY <2>4, <2>6, <3>1, <3>2, LooseTaken
    <3> QED BY <3>3 DEF i
  <2>7. p1 = Part(0, c1) /\ p2 = Part(c1, c2) /\ p3 = Part(c2, c3) /\ p4 = Part(c3, e)
    <3>1. ASSUME NEW x \in Nat, NEW y \in Nat, x > 0, y <= n PROVE SubSeq(q, x, y) = SubSeq(t, x, y)
      <4> DEFINE u == SubSeq(t, x, y)
      <4>1. \A k \in x .. y : t[k] \in S /\ t[k] = q[k]
        <5>1. \A k \in x .. y : k \in 1 .. Len(t) /\ k \in 1 .. n
          BY <1>1, <1>2, <3>1
        <5>2. \A k \in 1 .. Len(t) : t[k] \in S
          BY <1>2, ElementOfSeq
        <5> QED BY <1>2, <5>1, <5>2
      <4>2. /\ u \in Seq(S) /\ Len(u) = IF x <= y THEN y - x + 1 ELSE 0
            /\ \A k \in 1 .. y - x + 1 : u[k] = t[x + k - 1]
        <5>1. x \in Int /\ y \in Int /\ \A k \in x .. y : t[k] \in S
          BY <3>1, <4>1
        <5> QED BY <5>1, SubSeqProperties
      <4> HIDE DEF u
      <4>3. CASE x <= y
        <5>1. Len(u) = y - x + 1 /\ \A k \in 1 .. Len(u) : q[x + k - 1] = u[k]
          <6>1. \A k \in 1 .. y - x + 1 : x + k - 1 \in x .. y
            BY <3>1
          <6> QED BY <4>1, <4>2, <4>3, <6>1
        <5>2. x \in Int /\ y \in Int
          BY <3>1
        <5>3. SubSeq(q, x, y) = u
          BY <4>2, <5>1, <5>2, PartIs
        <5> QED BY <5>3 DEF u
      <4>4. CASE x > y
        <5>1. u = <<>>
          BY <3>1, <4>2, <4>4, EmptySeq
        <5>2. SubSeq(q, x, y) = <<>>
          <6> DEFINE w == SubSeq(q, x, y)
          <6>1. w \in Seq(S) /\ Len(w) = IF x <= y THEN y - x + 1 ELSE 0
            <7>1. \A k \in x .. y : q[k] \in S
              BY <3>1, <4>1
            <7> QED BY <3>1, <7>1, SubSeqProperties
          <6> HIDE DEF w
          <6>2. w = <<>>
            BY <3>1, <4>4, <6>1, EmptySeq
          <6> QED BY <6>2 DEF w
        <5> QED BY <5>1, <5>2 DEF u
      <4> QED BY <3>1, <4>3, <4>4
    <3>2. /\ c1 - 1 \in Nat /\ c1 - 1 <= n /\ c1 + 1 \in Nat /\ c1 + 1 > 0
          /\ c2 - 1 \in Nat /\ c2 - 1 <= n /\ c2 + 1 \in Nat /\ c2 + 1 > 0
          /\ c3 - 1 \in Nat /\ c3 - 1 <= n /\ c3 + 1 \in Nat /\ c3 + 1 > 0
          /\ e - 1 = n /\ 0 + 1 = 1 /\ n <= n
      BY <1>1, <2>2
    <3>3. p1 = Part(0, c1)
      BY <3>1, <3>2
    <3>4. p2 = Part(c1, c2)
      BY <3>1, <3>2
    <3>5. p3 = Part(c2, c3)
      BY <3>1, <3>2
    <3>6. p4 = Part(c3, e)
      BY <1>1, <3>1, <3>2
    <3> QED BY <3>3, <3>4, <3>5, <3>6
  <2> HIDE DEF Part, p1, p2, p3, p4
  <2> DEFINE v1 == LooseValue(p1)
             v2 == LooseValue(p2)
             v3 == LooseValue(p3)
             v4 == LooseValue(p4)
  <2>8. /\ IsLoose(p1) => v1 \in Int /\ a[c1] = Ready(Append(<<>>, v1))
        /\ ~IsLoose(p1) => Refused(Consume(t))
    <3>1. 0 \in Nat /\ c1 \in Nat /\ 0 < c1 /\ c1 <= e /\ 0 + 1 = 1
      BY <1>1, <2>2
    <3>2. <<>> \in Seq(Int) /\ Len(<<>>) < 4
      OBVIOUS
    <3> QED BY <2>2, <2>3, <2>5, <2>6, <2>7, <3>1, <3>2
  <2>9. ASSUME NEW o \in Seq(Int), Len(o) < 4, a[c1] = Ready(o)
        PROVE  /\ IsLoose(p2) => v2 \in Int /\ a[c2] = Ready(Append(o, v2))
               /\ ~IsLoose(p2) => Refused(Consume(t))
    <3>1. c1 \in Nat /\ c2 \in Nat /\ c1 < c2 /\ c2 <= e
      BY <1>1, <2>1, <2>2
    <3> QED BY <2>2, <2>3, <2>6, <2>7, <2>9, <3>1
  <2>10. ASSUME NEW o \in Seq(Int), Len(o) < 4, a[c2] = Ready(o)
         PROVE  /\ IsLoose(p3) => v3 \in Int /\ a[c3] = Ready(Append(o, v3))
                /\ ~IsLoose(p3) => Refused(Consume(t))
    <3>1. c2 \in Nat /\ c3 \in Nat /\ c2 < c3 /\ c3 <= e
      BY <1>1, <2>1, <2>2
    <3> QED BY <2>2, <2>3, <2>6, <2>7, <2>10, <3>1
  <2>11. ASSUME NEW o \in Seq(Int), Len(o) < 4, a[c3] = Ready(o)
         PROVE  /\ IsLoose(p4) => v4 \in Int /\ a[e] = Ready(Append(o, v4))
                /\ ~IsLoose(p4) => Refused(Consume(t))
    <3>1. c3 \in Nat /\ e \in Nat /\ c3 < e /\ e <= e
      BY <1>1, <2>2
    <3> QED BY <1>2, <2>3, <2>6, <2>7, <2>11, <3>1
  <2> HIDE DEF v1, v2, v3, v4
  <2>12. ASSUME IsLoose(p1) PROVE v1 \in Int /\ a[c1] = Ready(<<v1>>) /\ <<v1>> \in Seq(Int) /\ Len(<<v1>>) < 4
    BY <2>8, <2>12, PrefixesAre
  <2>13. ASSUME IsLoose(p1), IsLoose(p2)
         PROVE  v2 \in Int /\ a[c2] = Ready(<<v1, v2>>) /\ <<v1, v2>> \in Seq(Int) /\ Len(<<v1, v2>>) < 4
    <3>1. v2 \in Int /\ a[c2] = Ready(Append(<<v1>>, v2))
      BY <2>9, <2>12, <2>13
    <3>2. /\ Append(<<v1>>, v2) = <<v1, v2>> /\ <<v1, v2>> \in Seq(Int)
          /\ Len(<<v1, v2>>) = 2
      <4>1. v1 \in Int /\ v2 \in Int
        BY <2>12, <2>13, <3>1
      <4> QED BY <4>1, PrefixesAre, ZenonT(60)
    <3>3. a[c2] = Ready(<<v1, v2>>)
      BY <3>1, <3>2, Zenon
    <3>4. Len(<<v1, v2>>) < 4
      BY <3>2
    <3> QED BY <3>1, <3>2, <3>3, <3>4, Zenon
  <2>14. ASSUME IsLoose(p1), IsLoose(p2), IsLoose(p3)
         PROVE  /\ v3 \in Int /\ a[c3] = Ready(<<v1, v2, v3>>)
                /\ <<v1, v2, v3>> \in Seq(Int) /\ Len(<<v1, v2, v3>>) < 4
    <3>1. v3 \in Int /\ a[c3] = Ready(Append(<<v1, v2>>, v3))
      BY <2>10, <2>13, <2>14
    <3>2. /\ Append(<<v1, v2>>, v3) = <<v1, v2, v3>> /\ <<v1, v2, v3>> \in Seq(Int)
          /\ Len(<<v1, v2, v3>>) = 3
      <4>1. v1 \in Int /\ v2 \in Int /\ v3 \in Int
        BY <2>12, <2>13, <2>14, <3>1
      <4> QED BY <4>1, PrefixesAre, ZenonT(60)
    <3>3. a[c3] = Ready(<<v1, v2, v3>>)
      BY <3>1, <3>2, Zenon
    <3>4. Len(<<v1, v2, v3>>) < 4
      BY <3>2
    <3> QED BY <3>1, <3>2, <3>3, <3>4, Zenon
  <2>15. ASSUME AllLoose PROVE Consume(t) = Ready(Values)
    <3>1. v4 \in Int /\ a[e] = Ready(Append(<<v1, v2, v3>>, v4))
      BY <2>11, <2>14, <2>15
    <3>2. Append(<<v1, v2, v3>>, v4) = <<v1, v2, v3, v4>>
      BY <2>12, <2>13, <2>14, <2>15, <3>1, PrefixesAre
    <3> QED BY <2>5, <3>1, <3>2 DEF v1, v2, v3, v4
  <2>16. ASSUME ~AllLoose PROVE Refused(Consume(t))
    <3>1. CASE ~IsLoose(p1)
      BY <2>8, <3>1
    <3>2. CASE IsLoose(p1) /\ ~IsLoose(p2)
      BY <2>9, <2>12, <3>2
    <3>3. CASE IsLoose(p1) /\ IsLoose(p2) /\ ~IsLoose(p3)
      BY <2>10, <2>13, <3>3
    <3>4. CASE IsLoose(p1) /\ IsLoose(p2) /\ IsLoose(p3) /\ ~IsLoose(p4)
      BY <2>11, <2>14, <3>4
    <3> QED BY <2>16, <3>1, <3>2, <3>3, <3>4
  <2> QED BY <2>15, <2>16
<1>7. Len(Values) = 4 /\ Values # <<>>
  OBVIOUS
<1> HIDE DEF Values, AllLoose
<1>8. ASSUME LooseInts(q) # <<>> PROVE Consume(t) = Ready(LooseInts(q)) /\ Len(LooseInts(q)) = 4
  BY <1>4, <1>6, <1>7, <1>8
<1>9. ASSUME LooseInts(q) = <<>> PROVE ~(Consume(t).ok /\ Len(Consume(t).out) = 4)
  <2>1. ~(Cardinality(C) = 3 /\ AllLoose)
    BY <1>4, <1>7, <1>9
  <2> QED BY <1>5, <1>6, <2>1 DEF Refused
<1> QED BY <1>8, <1>9

(* So parsePayload takes the loose parts after the tag, and nothing else.  *)
LEMMA PayloadLoose ==
  ASSUME NEW S, NEW s \in Seq(S), Comma \in S, Tagged(s)
  PROVE  parsePayload(s) = LooseInts(SubSeq(s, 6, Len(s)))
<1> DEFINE q == SubSeq(s, 6, Len(s))
           text == Tag \o <<":", Blank>>
           start == IndexOf(text, s)
           z == Consume(Append(SubSeq(s, start + Len(Tag) + 2, Len(s)), Comma))
<1> DEFINE t == Append(q, Comma)
<1>1. Len(s) \in Nat /\ q \in Seq(S)
  <2>1. \A k \in 6 .. Len(s) : s[k] \in S
    <3>1. \A k \in 6 .. Len(s) : k \in 1 .. Len(s)
      OBVIOUS
    <3>2. \A k \in 1 .. Len(s) : s[k] \in S
      BY ElementOfSeq
    <3> QED BY <3>1, <3>2
  <2>2. 6 \in Int /\ Len(s) \in Int
    OBVIOUS
  <2> QED BY <2>1, <2>2, SubSeqProperties
<1>2. start = 2 /\ Len(Tag) = 2
  BY <1>1, TagFirst, TagIs
<1>3. parsePayload(s) = IF start # 0 /\ z.ok /\ Len(z.out) = 4 THEN z.out ELSE <<>>
  BY DEF parsePayload
<1>4. z = Consume(t)
  <2>1. start + Len(Tag) + 2 = 6
    BY <1>2
  <2> HIDE DEF start
  <2> QED BY <2>1
<1> HIDE DEF q
<1>4a. t \in Seq(S) /\ Len(t) = Len(q) + 1 /\ t[Len(q) + 1] = Comma /\ \A k \in 1 .. Len(q) : t[k] = q[k]
  BY <1>1, AppendProperties
<1> HIDE DEF z, start, t
<1>5. /\ LooseInts(q) # <<>> => z = Ready(LooseInts(q)) /\ Len(LooseInts(q)) = 4
      /\ LooseInts(q) = <<>> => ~(z.ok /\ Len(z.out) = 4)
  BY <1>1, <1>4, <1>4a, PayloadOfLoose
<1>6. CASE LooseInts(q) # <<>>
  <2>1. z.ok /\ z.out = LooseInts(q) /\ Len(z.out) = 4
    BY <1>5, <1>6 DEF Ready
  <2> QED BY <1>2, <1>3, <2>1 DEF q
<1>7. CASE LooseInts(q) = <<>>
  BY <1>3, <1>5, <1>7 DEF q
<1> QED BY <1>6, <1>7

(* There is no other space when there is one.                              *)
LEMMA OneBlank ==
  ASSUME NEW s, Len(s) \in Nat, DOMAIN s = 1 .. Len(s), Tagged(s),
         Cardinality({i \in DOMAIN s : s[i] = Blank}) = 1
  PROVE  \A k \in 6 .. Len(s) : s[k] # Blank
<1> DEFINE blanks == {i \in DOMAIN s : s[i] = Blank}
<1>1. 5 \in blanks
  BY DEF Tagged
<1>2. IsFiniteSet(blanks)
  <2>1. blanks \subseteq 1 .. Len(s) /\ 1 \in Int /\ Len(s) \in Int
    OBVIOUS
  <2>2. IsFiniteSet(1 .. Len(s))
    BY <2>1, FS_Interval
  <2> HIDE DEF blanks
  <2> QED BY <2>1, <2>2, FS_Subset
<1>3. Cardinality(blanks) = 1
  OBVIOUS
<1>4. ASSUME NEW k \in 6 .. Len(s), s[k] = Blank PROVE FALSE
  <2>1. k \in blanks /\ k # 5
    BY <1>4
  <2> HIDE DEF blanks
  <2>2. PICK b : blanks = {b}
    BY <1>2, <1>3, FS_Singleton
  <2> QED BY <1>1, <2>1, <2>2
<1> QED BY <1>4

(* The comparisons together.                                               *)
LEMMA ParsersMeet ==
  ASSUME LineInv PROVE ParsersMeetReference
<1> SUFFICES ASSUME logged = <<>> PROVE ParsersMeetReference
  BY DEF ParsersMeetReference, FastIsReference, PayloadCoversReference, PayloadIsLoose
<1>1. line \in Seq(Letters) /\ Headed(line)
  BY DEF LineInv
<1>2. Tagged(line) /\ Len(line) \in Nat /\ DOMAIN line = 1 .. Len(line)
  BY <1>1 DEF Headed, Tagged
<1>3. Comma \in Letters
  BY HeaderIs DEF Letters
<1>4. Len(Header) = 5
  BY DEF Header
<1> DEFINE accepted == {i \in 5 .. Len(line) : parsePayloadStrings(SubSeq(line, 1, i)) # <<>>}
<1>5. /\ accepted = {} => parseFast(line) = <<>>
      /\ accepted # {} => parseFast(line) = parsePayloadStrings(SubSeq(line, 1, Max(accepted)))
  BY <1>1, <1>2, FastMeets
<1>6. FastIsReference
  <2>1. accepted = {i \in Len(Header) .. Len(line) : parsePayloadStrings(SubSeq(line, 1, i)) # <<>>}
    BY <1>4
  <2> HIDE DEF accepted
  <2> QED BY <1>5, <2>1, Zenon DEF FastIsReference
<1>7. PayloadCoversReference
  <2> SUFFICES ASSUME parsePayloadStrings(line) # <<>>, Cardinality({i \in DOMAIN line : line[i] = Blank}) = 1
               PROVE  parsePayload(line) = parsePayloadStrings(line)
    BY DEF PayloadCoversReference
  <2>1. \A k \in 6 .. Len(line) : line[k] # Blank
    BY <1>2, OneBlank
  <2> QED BY <1>1, <1>2, <1>3, <2>1, PayloadMeets
<1>8. PayloadIsLoose
  <2>1. parsePayload(line) = LooseInts(SubSeq(line, 6, Len(line)))
    BY <1>1, <1>2, <1>3, PayloadLoose
  <2>2. Len(Header) + 1 = 6
    BY <1>4
  <2> QED BY <2>1, <2>2 DEF PayloadIsLoose
<1> QED BY <1>6, <1>7, <1>8 DEF ParsersMeetReference

(* parseFast makes of any text after the tag what the tests' reference     *)
(* makes of it, up to what it ignores at the end; parsePayload takes from  *)
(* it exactly its four parts when they are loose, and those of them that   *)
(* the reference takes with the same numbers (serial.go:110-165,           *)
(* easy_server/main.go:50-93, main_test.go:18-58), whatever the text's     *)
(* length and the characters in it.                                        *)
THEOREM ParsersAgree == LineSpec => []ParsersMeetReference
<1>1. LineInv => ParsersMeetReference
  BY ParsersMeet
<1> QED BY <1>1, LineInvariant, PTL
=============================================================================
