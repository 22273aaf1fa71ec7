----------------------------- MODULE CodecProofs -----------------------------
(***************************************************************************)
(* What check and parse make of the encoding of a frame: theorems about    *)
(* Frame.                                                                  *)
(***************************************************************************)
EXTENDS Frame, SequenceLemmas, SequenceTheorems

-------------------------------------------------------------------------------
(* Bytes of a buffer.                                                      *)

\* s has the bytes e from p on, as far as s goes.
At(s, p, e) == \A i \in 1 .. Len(e) : p + i - 1 <= Len(s) => s[p + i - 1] = e[i]

\* Sequences with the same entries are the same.
LEMMA SameEntries ==
  ASSUME NEW V, NEW u \in Seq(V), NEW v \in Seq(V), NEW n, Len(u) = n, Len(v) = n,
         \A i \in 1 .. n : u[i] = v[i]
  PROVE  u = v
OBVIOUS

\* Two parts of an encoding, one behind the other.
LEMMA AtParts ==
  ASSUME NEW V, NEW s \in Seq(V), NEW p \in Nat, NEW u \in Seq(V), NEW v \in Seq(V)
  PROVE  At(s, p, u \o v) <=> At(s, p, u) /\ At(s, p + Len(u), v)
<1>1. /\ Len(u) \in Nat /\ Len(v) \in Nat /\ Len(s) \in Nat /\ Len(u \o v) = Len(u) + Len(v)
      /\ \A i \in 1 .. Len(u) : (u \o v)[i] = u[i]
      /\ \A i \in 1 .. Len(v) : (u \o v)[Len(u) + i] = v[i]
  OBVIOUS
<1>2. ASSUME At(s, p, u \o v) PROVE At(s, p, u) /\ At(s, p + Len(u), v)
  <2>1. At(s, p, u)
    BY SMTT(30), <1>1, <1>2 DEF At
  <2>2. ASSUME NEW i \in 1 .. Len(v), (p + Len(u)) + i - 1 <= Len(s)
        PROVE  s[(p + Len(u)) + i - 1] = v[i]
    <3>1. Len(u) + i \in 1 .. Len(u) + Len(v) /\ p + (Len(u) + i) - 1 = (p + Len(u)) + i - 1
      BY <1>1
    <3> QED
      BY <1>1, <1>2, <2>2, <3>1 DEF At
  <2> QED
    BY <2>1, <2>2 DEF At
<1>3. ASSUME At(s, p, u), At(s, p + Len(u), v) PROVE At(s, p, u \o v)
  <2> SUFFICES ASSUME NEW i \in 1 .. Len(u) + Len(v), p + i - 1 <= Len(s)
               PROVE  s[p + i - 1] = (u \o v)[i]
    BY <1>1 DEF At
  <2>1. CASE i <= Len(u)
    BY <1>1, <1>3, <2>1 DEF At
  <2>2. CASE i > Len(u)
    <3>1. i - Len(u) \in 1 .. Len(v) /\ Len(u) + (i - Len(u)) = i
          /\ (p + Len(u)) + (i - Len(u)) - 1 = p + i - 1
      <4>1. \A a, b, c \in Nat : c \in 1 .. a + b /\ c > a =>
              c - a \in 1 .. b /\ a + (c - a) = c /\ (p + a) + (c - a) - 1 = p + c - 1
        OBVIOUS
      <4> QED
        BY SMTT(30), <1>1, <2>2, <4>1
    <3> QED
      BY <1>1, <1>3, <3>1 DEF At
  <2> QED
    BY <1>1, <2>1, <2>2
<1> QED
  BY <1>2, <1>3

\* The byte at the cursor.
LEMMA FirstByte ==
  ASSUME NEW V, NEW s \in Seq(V), NEW p \in Nat \ {0}, NEW b \in V, At(s, p, <<b>>)
  PROVE  Byte(s, p) = IF p <= Len(s) THEN b ELSE "end"
<1>1. Len(<<b>>) = 1 /\ <<b>>[1] = b /\ Len(s) \in Nat
  OBVIOUS
<1> QED
  BY <1>1 DEF At, Byte

\* A line whose text has no line end in it is read as it was written, once it is whole.
LEMMA LineRead ==
  ASSUME Marks \subseteq Bytes,
         NEW s \in Seq(Bytes), NEW p \in Nat \ {0}, NEW text \in Seq(Bytes),
         LineEnds(text, 1) = {}, At(s, p, Line(text))
  PROVE  GetLine(s, p) = IF p + Len(text) + 1 <= Len(s) THEN Ok(p + Len(text) + 2, text)
                         ELSE Incomplete
<1> DEFINE n == Len(text)
           e == Line(text)
<1>1. /\ n \in Nat /\ Len(s) \in Nat /\ Len(e) = n + 2
      /\ \A i \in 1 .. n : e[i] = text[i]
      /\ e[n + 1] = "CR" /\ e[n + 2] = "LF"
  <2>1. <<"CR", "LF">> \in Seq(Bytes)
    BY DEF Marks
  <2> QED
    BY <2>1 DEF Line
<1>2. \A i \in 1 .. n + 2 : p + i - 1 <= Len(s) => s[p + i - 1] = e[i]
  BY <1>1 DEF At
<1> HIDE DEF e
<1>3. ASSUME NEW i \in p .. p + n - 1, i \in LineEnds(s, p) PROVE FALSE
  <2>1. i - p + 1 \in 1 .. n /\ i - p + 2 \in 1 .. n + 1 /\ i \in p .. Len(s) - 1
        /\ s[i] = "CR" /\ s[i + 1] = "LF"
    BY <1>1, <1>3 DEF LineEnds
  <2>2. e[i - p + 1] = s[i] /\ e[i - p + 2] = s[i + 1]
    <3>1. p + (i - p + 1) - 1 = i /\ p + (i - p + 2) - 1 = i + 1
      OBVIOUS
    <3>2. i - p + 1 \in 1 .. n + 2 /\ i - p + 2 \in 1 .. n + 2 /\ i <= Len(s) /\ i + 1 <= Len(s)
      BY <1>1, <2>1
    <3> QED
      BY <1>2, <3>1, <3>2
  <2>3. text[i - p + 1] = "CR"
    BY <1>1, <2>1, <2>2
  <2>4. CASE i - p + 2 <= n
    <3>1. text[(i - p + 1) + 1] = "LF" /\ i - p + 1 \in 1 .. Len(text) - 1
      BY SMTT(30), <1>1, <2>1, <2>2, <2>4
    <3> QED
      BY <2>3, <3>1 DEF LineEnds
  <2>5. CASE i - p + 2 = n + 1
    BY <1>1, <2>1, <2>2, <2>5
  <2>6. i - p + 2 <= n \/ i - p + 2 = n + 1
    <3>1. \A j, m \in Nat : j \in 1 .. m + 1 => j <= m \/ j = m + 1
      OBVIOUS
    <3>2. i - p + 2 \in Nat /\ n \in Nat
      BY <1>1, <2>1
    <3> QED
      BY <2>1, <3>1, <3>2
  <2> QED
    BY <2>4, <2>5, <2>6
<1>4. CASE p + n + 1 <= Len(s)
  <2>1. p + n \in LineEnds(s, p)
    <3>1. s[p + (n + 1) - 1] = e[n + 1] /\ s[p + (n + 2) - 1] = e[n + 2]
      BY SMTT(30), <1>1, <1>2, <1>4
    <3>2. p + (n + 1) - 1 = p + n /\ p + (n + 2) - 1 = (p + n) + 1 /\ p + n \in p .. Len(s) - 1
      BY <1>1, <1>4
    <3> QED
      BY <1>1, <3>1, <3>2 DEF LineEnds
  <2>2. \A i \in LineEnds(s, p) : i \in Nat /\ p + n <= i
    BY <1>1, <1>3 DEF LineEnds
  <2>3. Min(LineEnds(s, p)) = p + n
    BY <1>1, <2>1, <2>2 DEF Min
  <2>4. SubSeq(s, p, p + n - 1) = text
    <3>1. SubSeq(s, p, p + n - 1) \in Seq(Bytes) /\ Len(SubSeq(s, p, p + n - 1)) = n
          /\ \A i \in 1 .. n : SubSeq(s, p, p + n - 1)[i] = s[p + i - 1]
      BY <1>1, <1>4
    <3>2. \A i \in 1 .. n : s[p + i - 1] = text[i]
      BY <1>1, <1>2, <1>4
    <3> QED
      BY <1>1, <3>1, <3>2
  <2> QED
    <3> DEFINE E == LineEnds(s, p)
    <3>1. E # {} /\ Min(E) = p + n
      BY <2>1, <2>3
    <3>2. GetLine(s, p) = IF E = {} THEN Incomplete ELSE Ok(Min(E) + 2, SubSeq(s, p, Min(E) - 1))
      BY DEF GetLine, With
    <3> HIDE DEF E
    <3>3. GetLine(s, p) = Ok(p + n + 2, SubSeq(s, p, p + n - 1))
      BY <3>1, <3>2
    <3> QED
      BY <1>4, <2>4, <3>3
<1>5. CASE ~(p + n + 1 <= Len(s))
  <2>1. LineEnds(s, p) = {}
    BY SMTT(30), <1>1, <1>3, <1>5 DEF LineEnds
  <2> QED
    BY <1>5, <2>1 DEF GetLine, With
<1> QED
  BY <1>4, <1>5

-------------------------------------------------------------------------------
(* Numbers.                                                                *)

\* The digits have the values 0 to 9.
LEMMA DigitValues ==
  /\ \A i \in 0 .. 9 : Digits[i + 1] \in ToSet(Digits) /\ DigitValue(Digits[i + 1]) = i
  /\ \A b \in ToSet(Digits) : DigitValue(b) \in 0 .. 9
  /\ \A b \in ToSet(Digits) : b \notin {"+", "-", "CR", "LF", "end"}
<1>1. DOMAIN Digits = 1 .. 10
  BY DEF Digits
<1>2. \A i, j \in 1 .. 10 : Digits[i] = Digits[j] => i = j
  BY DEF Digits
<1>3. \A i \in 1 .. 10 : Digits[i] \notin {"+", "-", "CR", "LF", "end"}
  BY DEF Digits
<1> HIDE DEF Digits
<1>4. ASSUME NEW i \in 1 .. 10 PROVE DigitValue(Digits[i]) = i - 1
  BY <1>2 DEF DigitValue
<1>5. \A i \in 0 .. 9 : i + 1 \in 1 .. 10 /\ (i + 1) - 1 = i
  OBVIOUS
<1>6. \A i \in 1 .. 10 : i - 1 \in 0 .. 9
  OBVIOUS
<1> QED
  BY <1>1, <1>3, <1>4, <1>5, <1>6 DEF ToSet

\* The value of a numeral, by the recursion that defines it.
LEMMA ValueUnfold ==
  ASSUME NEW digits \in Seq(ToSet(Digits))
  PROVE  \E value \in [0 .. Len(digits) -> Nat] :
           /\ ValueOf(digits) = value[Len(digits)]
           /\ value[0] = 0
           /\ \A n \in 1 .. Len(digits) : value[n] = 10 * value[n - 1] + DigitValue(digits[n])
<1> DEFINE Def(g) ==
             [n \in 0 .. Len(digits) |->
                IF n = 0 THEN 0 ELSE 10 * g[n - 1] + DigitValue(digits[n])]
<1>1. Len(digits) \in Nat /\ \A n \in 1 .. Len(digits) : DigitValue(digits[n]) \in 0 .. 9
  BY DigitValues
<1>2. PICK g \in [0 .. Len(digits) -> Nat] : g = Def(g)
  <2> DEFINE step == [n \in Nat |-> [t \in Nat |->
                        IF n + 1 \in 1 .. Len(digits)
                        THEN 10 * t + DigitValue(digits[n + 1]) ELSE t]]
  <2>1. step \in [Nat -> [Nat -> Nat]]
    BY <1>1
  <2>2. PICK f \in [Nat -> Nat] : Iterates(f, 0, step)
    <3> HIDE DEF step
    <3> QED
      BY <2>1, PrimitiveRecursion
  <2> DEFINE g == [n \in 0 .. Len(digits) |-> f[n]]
  <2>3. ASSUME NEW n \in 0 .. Len(digits) PROVE g[n] = Def(g)[n]
    <3>1. CASE n = 0
      BY <3>1, <2>2 DEF Iterates
    <3>2. CASE n # 0
      <4>1. n - 1 \in Nat /\ (n - 1) + 1 = n /\ n - 1 \in 0 .. Len(digits) /\ n \in 1 .. Len(digits)
        BY <1>1, <3>2
      <4>2. f[n] = step[n - 1][f[n - 1]]
        BY <2>2, <4>1 DEF Iterates
      <4>3. step[n - 1][f[n - 1]] = 10 * f[n - 1] + DigitValue(digits[n])
        BY <4>1
      <4>4. g[n] = f[n] /\ g[n - 1] = f[n - 1]
        BY <4>1
      <4> HIDE DEF g, step
      <4> QED
        BY <4>2, <4>3, <4>4, <3>2
    <3> QED
      BY <3>1, <3>2
  <2>4. g \in [0 .. Len(digits) -> Nat]
    BY <1>1
  <2> QED
    BY <2>3, <2>4
<1> DEFINE value == CHOOSE h : h = Def(h)
<1>3. ValueOf(digits) = value[Len(digits)]
  BY DEF ValueOf
<1>4. value = Def(value)
  <2> HIDE DEF Def
  <2> QED
    BY <1>2
<1> HIDE DEF value
<1>5. value[0] = 0
  BY <1>1, <1>4
<1>6. ASSUME NEW n \in 1 .. Len(digits)
      PROVE  value[n] = 10 * value[n - 1] + DigitValue(digits[n])
  <2>1. n \in 0 .. Len(digits) /\ n # 0
    BY <1>1
  <2>2. Def(value)[n] = 10 * value[n - 1] + DigitValue(digits[n])
    BY <2>1
  <2> HIDE DEF Def
  <2> QED
    BY <2>2, <1>4
<1>7. value \in [0 .. Len(digits) -> Nat]
  <2> DEFINE G == {n \in Nat : n <= Len(digits) => value[n] \in Nat}
  <2>1. 0 \in G
    BY <1>5
  <2>2. ASSUME NEW n \in G PROVE n + 1 \in G
    <3> SUFFICES ASSUME n + 1 <= Len(digits) PROVE value[n + 1] \in Nat
      OBVIOUS
    <3>1. n + 1 \in 1 .. Len(digits) /\ (n + 1) - 1 = n /\ value[n] \in Nat
      BY <1>1
    <3>2. value[n + 1] = 10 * value[n] + DigitValue(digits[n + 1])
      BY <1>6, <3>1
    <3>3. DigitValue(digits[n + 1]) \in Nat
      BY SMTT(30), <1>1, <3>1
    <3> QED
      BY <3>1, <3>2, <3>3
  <2> HIDE DEF G
  <2>3. G = Nat
    BY <2>1, <2>2, SetInduction DEF G
  <2>4. \A n \in 0 .. Len(digits) : value[n] \in Nat
    BY <1>1, <2>3 DEF G
  <2> QED
    BY <1>4, <2>4
<1> HIDE DEF Def
<1> QED
  BY <1>3, <1>5, <1>6, <1>7

\* One digit more.
LEMMA ValueAppend ==
  ASSUME NEW digits \in Seq(ToSet(Digits)), NEW b \in ToSet(Digits)
  PROVE  ValueOf(Append(digits, b)) = 10 * ValueOf(digits) + DigitValue(b)
<1> DEFINE more == Append(digits, b)
<1>1. /\ Len(digits) \in Nat /\ Len(more) = Len(digits) + 1 /\ more \in Seq(ToSet(Digits))
      /\ \A i \in 1 .. Len(digits) : more[i] = digits[i]
      /\ more[Len(digits) + 1] = b
  BY AppendEntries
<1> HIDE DEF more
<1>2. PICK v \in [0 .. Len(digits) -> Nat] :
           /\ ValueOf(digits) = v[Len(digits)]
           /\ v[0] = 0
           /\ \A n \in 1 .. Len(digits) : v[n] = 10 * v[n - 1] + DigitValue(digits[n])
  BY ValueUnfold
<1>3. PICK w \in [0 .. Len(more) -> Nat] :
           /\ ValueOf(more) = w[Len(more)]
           /\ w[0] = 0
           /\ \A n \in 1 .. Len(more) : w[n] = 10 * w[n - 1] + DigitValue(more[n])
  BY <1>1, ValueUnfold
<1> DEFINE G == {n \in Nat : n <= Len(digits) => w[n] = v[n]}
<1>4. 0 \in G
  BY <1>2, <1>3
<1>5. ASSUME NEW n \in G PROVE n + 1 \in G
  <2> SUFFICES ASSUME n + 1 <= Len(digits) PROVE w[n + 1] = v[n + 1]
    OBVIOUS
  <2>1. n + 1 \in 1 .. Len(digits) /\ n + 1 \in 1 .. Len(more) /\ (n + 1) - 1 = n /\ w[n] = v[n]
    BY <1>1
  <2> QED
    BY <1>1, <1>2, <1>3, <2>1
<1> HIDE DEF G
<1>6. G = Nat
  BY <1>4, <1>5, SetInduction DEF G
<1>7. w[Len(digits)] = v[Len(digits)]
  BY <1>1, <1>6 DEF G
<1>8. w[Len(digits) + 1] = 10 * w[Len(digits)] + DigitValue(b)
  <2>1. Len(digits) + 1 \in 1 .. Len(more) /\ (Len(digits) + 1) - 1 = Len(digits)
    BY <1>1
  <2> QED
    BY <1>1, <1>3, <2>1
<1> QED
  BY <1>1, <1>2, <1>3, <1>7, <1>8 DEF more

\* Decimal, by the recursion that defines it.
LEMMA DecimalUnfold ==
  ASSUME NEW n \in Nat
  PROVE  \E decimal :
           /\ Decimal(n) = decimal[n]
           /\ \A m \in 0 .. n :
                decimal[m] = IF m < 10 THEN <<Digits[m + 1]>>
                             ELSE decimal[m \div 10] \o <<Digits[(m % 10) + 1]>>
<1> DEFINE Def(g) ==
             [m \in 0 .. n |->
                IF m < 10 THEN <<Digits[m + 1]>>
                ELSE g[m \div 10] \o <<Digits[(m % 10) + 1]>>]
           G == {k \in Nat : \E g : \A m \in 0 .. n : m <= k => g[m] = Def(g)[m]}
<1>1. \A m \in Nat : m >= 10 => m \div 10 \in Nat /\ m \div 10 < m
  OBVIOUS
<1>2. 0 \in G
  <2> DEFINE g == [m \in 0 .. n |-> <<Digits[m + 1]>>]
  <2>1. \A m \in 0 .. n : m <= 0 => g[m] = Def(g)[m]
    OBVIOUS
  <2> QED
    BY <2>1
<1>3. ASSUME NEW k \in G PROVE k + 1 \in G
  <2>1. PICK g : \A m \in 0 .. n : m <= k => g[m] = Def(g)[m]
    OBVIOUS
  <2> DEFINE h == Def(g)
  <2>2. ASSUME NEW m \in 0 .. n, m <= k + 1 PROVE h[m] = Def(h)[m]
    <3>1. CASE m < 10
      BY <3>1
    <3>2. CASE ~(m < 10)
      <4>1. m \div 10 \in 0 .. n /\ m \div 10 <= k
        BY <1>1, <2>2, <3>2
      <4>2. h[m \div 10] = g[m \div 10]
        BY <2>1, <4>1
      <4>3. h[m] = g[m \div 10] \o <<Digits[(m % 10) + 1]>>
        BY <3>2
      <4>4. Def(h)[m] = h[m \div 10] \o <<Digits[(m % 10) + 1]>>
        <5> HIDE DEF h
        <5> QED
          BY <3>2
      <4> QED
        BY <4>2, <4>3, <4>4
    <3> QED
      BY <3>1, <3>2
  <2> HIDE DEF h, Def
  <2> QED
    BY <2>2
<1> HIDE DEF G
<1>4. G = Nat
  BY <1>2, <1>3, SetInduction DEF G
<1>5. PICK g : \A m \in 0 .. n : g[m] = Def(g)[m]
  <2> HIDE DEF Def
  <2>1. n \in G
    BY <1>4
  <2> QED
    BY <2>1 DEF G
<1>6. Def(g) = Def(Def(g))
  <2> DEFINE h == Def(g)
  <2>1. ASSUME NEW m \in 0 .. n PROVE h[m] = Def(h)[m]
    <3>1. CASE m < 10
      BY <3>1
    <3>2. CASE ~(m < 10)
      <4>1. m \div 10 \in 0 .. n
        BY <1>1, <3>2
      <4>2. h[m \div 10] = g[m \div 10]
        BY <1>5, <4>1
      <4>3. h[m] = g[m \div 10] \o <<Digits[(m % 10) + 1]>>
        BY <3>2
      <4>4. Def(h)[m] = h[m \div 10] \o <<Digits[(m % 10) + 1]>>
        <5> HIDE DEF h
        <5> QED
          BY <3>2
      <4> QED
        BY <4>2, <4>3, <4>4
    <3> QED
      BY <3>1, <3>2
  <2>2. h = [m \in 0 .. n |-> h[m]] /\ Def(h) = [m \in 0 .. n |-> Def(h)[m]]
    OBVIOUS
  <2> HIDE DEF h
  <2> QED
    BY <2>1, <2>2 DEF h
<1> DEFINE decimal == CHOOSE h : h = Def(h)
<1>7. Decimal(n) = decimal[n]
  BY DEF Decimal
<1>8. decimal = Def(decimal)
  <2> HIDE DEF Def
  <2> QED
    BY <1>6
<1> HIDE DEF decimal
<1>9. ASSUME NEW m \in 0 .. n
      PROVE  decimal[m] = IF m < 10 THEN <<Digits[m + 1]>>
                          ELSE decimal[m \div 10] \o <<Digits[(m % 10) + 1]>>
  <2>1. Def(decimal)[m] = IF m < 10 THEN <<Digits[m + 1]>>
                          ELSE decimal[m \div 10] \o <<Digits[(m % 10) + 1]>>
    OBVIOUS
  <2> HIDE DEF Def
  <2> QED
    BY <2>1, <1>8
<1> HIDE DEF Def
<1> QED
  BY <1>7, <1>9

\* The decimal numeral of n has digits only, at least one, and the value n.
LEMMA DecimalNumeral ==
  ASSUME NEW n \in Nat
  PROVE  /\ Decimal(n) \in Seq(ToSet(Digits))
         /\ Len(Decimal(n)) > 0
         /\ ValueOf(Decimal(n)) = n
<1>1. PICK decimal :
        /\ Decimal(n) = decimal[n]
        /\ \A m \in 0 .. n :
             decimal[m] = IF m < 10 THEN <<Digits[m + 1]>>
                          ELSE decimal[m \div 10] \o <<Digits[(m % 10) + 1]>>
  BY DecimalUnfold
<1> DEFINE Good(m) == /\ decimal[m] \in Seq(ToSet(Digits))
                      /\ Len(decimal[m]) > 0
                      /\ ValueOf(decimal[m]) = m
           G == {m \in Nat : m <= n => Good(m)}
<1>2. ASSUME NEW i \in 0 .. 9
      PROVE  /\ <<Digits[i + 1]>> \in Seq(ToSet(Digits)) /\ Len(<<Digits[i + 1]>>) = 1
             /\ ValueOf(<<Digits[i + 1]>>) = i
  <2> DEFINE b == Digits[i + 1]
  <2>1. b \in ToSet(Digits) /\ DigitValue(b) = i
    BY DigitValues
  <2> HIDE DEF b
  <2>2. <<>> \in Seq(ToSet(Digits)) /\ Append(<<>>, b) = <<b>> /\ Len(<<b>>) = 1
        /\ <<b>> \in Seq(ToSet(Digits))
    BY <2>1
  <2>3. ValueOf(<<>>) = 0
    <3>1. Len(<<>>) = 0 /\ <<>> \in Seq(ToSet(Digits))
      OBVIOUS
    <3> QED
      BY <3>1, ValueUnfold
  <2>4. ValueOf(<<b>>) = 10 * ValueOf(<<>>) + DigitValue(b)
    BY <2>1, <2>2, ValueAppend
  <2> QED
    BY <2>1, <2>2, <2>3, <2>4 DEF b
<1>3. ASSUME NEW m \in Nat, 0 .. m - 1 \subseteq G PROVE m \in G
  <2> SUFFICES ASSUME m <= n PROVE Good(m)
    OBVIOUS
  <2>1. CASE m < 10
    <3>1. m \in 0 .. n /\ m \in 0 .. 9
      BY <2>1
    <3>2. decimal[m] = <<Digits[m + 1]>>
      BY <1>1, <2>1, <3>1
    <3> QED
      BY <1>2, <3>1, <3>2
  <2>2. CASE ~(m < 10)
    <3> DEFINE q == m \div 10
               d == m % 10
    <3>1. q \in 0 .. m - 1 /\ q <= n /\ d \in 0 .. 9 /\ 10 * q + d = m
      BY <2>2
    <3>2. Good(q)
      <4>1. q \in G
        BY <1>3, <3>1
      <4> QED
        BY <3>1, <4>1
    <3>3. decimal[m] = decimal[q] \o <<Digits[d + 1]>>
      <4>1. m \in 0 .. n
        OBVIOUS
      <4> QED
        BY <1>1, <2>2, <4>1
    <3> HIDE DEF q, d
    <3>4. decimal[m] = Append(decimal[q], Digits[d + 1]) /\ Digits[d + 1] \in ToSet(Digits)
      <4>1. Digits[d + 1] \in ToSet(Digits)
        BY <3>1, DigitValues
      <4>2. decimal[q] \o <<Digits[d + 1]>> = Append(decimal[q], Digits[d + 1])
        BY <3>2
      <4> QED
        BY <3>3, <4>1, <4>2
    <3>5. decimal[m] \in Seq(ToSet(Digits)) /\ Len(decimal[m]) > 0
      BY <3>2, <3>4
    <3>6. ValueOf(decimal[m]) = 10 * q + d
      <4>1. ValueOf(Append(decimal[q], Digits[d + 1])) = 10 * ValueOf(decimal[q]) + DigitValue(Digits[d + 1])
        BY <3>2, <3>4, ValueAppend
      <4>2. DigitValue(Digits[d + 1]) = d
        BY <3>1, DigitValues
      <4> QED
        BY <3>2, <3>4, <4>1, <4>2
    <3> QED
      BY <3>1, <3>5, <3>6
  <2> QED
    BY <2>1, <2>2
<1> HIDE DEF G
<1>4. G = Nat
  BY <1>3, StrongSetInduction DEF G
<1> QED
  BY <1>1, <1>4 DEF G

\* get_decimal reads back the number that write_decimal wrote.
LEMMA DecimalRead ==
  ASSUME Marks \subseteq Bytes, NEW s \in Seq(Bytes), NEW p \in Nat \ {0},
         NEW n \in 0 .. U64Max, At(s, p, Line(Decimal(n)))
  PROVE  GetDecimal(s, p) = IF p + Len(Decimal(n)) + 1 <= Len(s)
                            THEN Ok(p + Len(Decimal(n)) + 2, n) ELSE Incomplete
<1> DEFINE text == Decimal(n)
<1>1. /\ text \in Seq(ToSet(Digits)) /\ text \in Seq(Bytes) /\ Len(text) \in Nat \ {0}
      /\ ValueOf(text) = n /\ n \in Nat
  <2>1. n \in Nat
    BY FrameAssumption
  <2>2. text \in Seq(ToSet(Digits)) /\ Len(text) > 0 /\ ValueOf(text) = n
    BY <2>1, DecimalNumeral
  <2> HIDE DEF text
  <2>3. text \in Seq(Bytes)
    BY <2>2 DEF Marks
  <2> QED
    BY <2>1, <2>2, <2>3
<1> HIDE DEF text
<1>2. \A i \in 1 .. Len(text) : text[i] \in ToSet(Digits) /\ text[i] \notin {"+", "-", "CR", "LF", "end"}
  BY <1>1, DigitValues
<1>3. LineEnds(text, 1) = {}
  BY <1>1, <1>2 DEF LineEnds
<1>4. GetLine(s, p) = IF p + Len(text) + 1 <= Len(s) THEN Ok(p + Len(text) + 2, text) ELSE Incomplete
  BY <1>1, <1>3, LineRead DEF text
<1>5. Atoi(text) = {n}
  <2>1. text # <<>> /\ ~(text[1] \in {"+", "-"})
    BY <1>1, <1>2
  <2>2. SelectInSeq(text, LAMBDA b : ~IsDigit(b)) = 0
    BY <1>1, <1>2 DEF SelectInSeq, IsDigit
  <2>3. Number(FALSE, FALSE, text) = {n}
    BY <1>1, <2>1, FrameAssumption DEF Number, With
  <2>4. LeadingDigits(text) = text
    BY <2>2 DEF LeadingDigits, With
  <2> QED
    BY <2>1, <2>3, <2>4 DEF Atoi
<1>6. CASE p + Len(text) + 1 <= Len(s)
  <2>1. GetLine(s, p) = Ok(p + Len(text) + 2, text)
    BY <1>4, <1>6
  <2>2. (CHOOSE value \in {n} : TRUE) = n /\ {n} # {}
    OBVIOUS
  <2>3. GetDecimal(s, p) = Ok(p + Len(text) + 2, n)
    BY <1>5, <2>1, <2>2 DEF GetDecimal, Then, With, Ok
  <2> QED
    BY <1>6, <2>3 DEF text
<1>7. CASE ~(p + Len(text) + 1 <= Len(s))
  <2>1. GetLine(s, p) = Incomplete
    BY <1>4, <1>7
  <2>2. GetDecimal(s, p) = Incomplete
    BY <2>1 DEF GetDecimal, Then, With, Incomplete
  <2> QED
    BY <1>7, <2>2 DEF text
<1> QED
  BY <1>6, <1>7

-------------------------------------------------------------------------------
(* Literal frames.                                                         *)

\* What check does at a byte.
LEMMA CheckAt ==
  ASSUME NEW s, NEW p, NEW check
  PROVE  /\ Byte(s, p) = "end" => CheckOne(s, p, check) = Incomplete
         /\ Byte(s, p) \in {"+", "-"} => CheckOne(s, p, check) = GetLine(s, p + 1)
         /\ Byte(s, p) = ":" => CheckOne(s, p, check) = GetDecimal(s, p + 1)
         /\ Byte(s, p) = "$" /\ Byte(s, p + 1) = "end" => CheckOne(s, p, check) = Incomplete
         /\ Byte(s, p) = "$" /\ Byte(s, p + 1) = "-" => CheckOne(s, p, check) = Skip(s, p + 1, 4)
         /\ Byte(s, p) = "$" /\ Byte(s, p + 1) \notin {"end", "-"} =>
              LET d == GetDecimal(s, p + 1)
              IN  CheckOne(s, p, check) =
                    IF d.tag # "Ok" THEN d
                    ELSE IF d.val + 2 <= U64Max THEN Skip(s, d.pos, d.val + 2)
                    ELSE IF OverflowChecks THEN Panic ELSE Skip(s, d.pos, d.val + 2 - (U64Max + 1))
         /\ Byte(s, p) = "*" =>
              LET d == GetDecimal(s, p + 1)
              IN  CheckOne(s, p, check) = IF d.tag # "Ok" THEN d ELSE check[d.pos][d.val]
         /\ Byte(s, p) \notin {"end", "+", "-", ":", "$", "*"} => CheckOne(s, p, check) = Other
BY DEF CheckOne, Then, With, WithCrLf

\* The two bytes of a line end, and the entries of a line.
LEMMA LineEntries ==
  ASSUME Marks \subseteq Bytes, NEW text \in Seq(Bytes)
  PROVE  /\ Line(text) \in Seq(Bytes) /\ Len(Line(text)) = Len(text) + 2 /\ Len(text) \in Nat
         /\ \A i \in 1 .. Len(text) : Line(text)[i] = text[i]
<1>1. <<"CR", "LF">> \in Seq(Bytes)
  BY DEF Marks
<1> QED
  BY <1>1 DEF Line

\* A mark, and what follows it.
LEMMA MarkAndRest ==
  ASSUME NEW V, NEW b \in V, NEW rest \in Seq(V), NEW s \in Seq(V), NEW p \in Nat \ {0}
  PROVE  /\ <<b>> \o rest \in Seq(V) /\ Len(<<b>> \o rest) = Len(rest) + 1 /\ Len(rest) \in Nat
         /\ At(s, p, <<b>> \o rest) =>
              /\ Byte(s, p) = IF p <= Len(s) THEN b ELSE "end"
              /\ At(s, p + 1, rest)
<1>1. <<b>> \in Seq(V) /\ Len(<<b>>) = 1 /\ Len(rest) \in Nat
  OBVIOUS
<1>2. <<b>> \o rest \in Seq(V) /\ Len(<<b>> \o rest) = Len(rest) + 1
  BY <1>1
<1>3. ASSUME At(s, p, <<b>> \o rest)
      PROVE  /\ Byte(s, p) = IF p <= Len(s) THEN b ELSE "end"
             /\ At(s, p + 1, rest)
  BY <1>1, <1>3, AtParts, FirstByte
<1> QED
  BY <1>1, <1>2, <1>3

\* Simple and Error frames.
LEMMA TextDecoded ==
  ASSUME Marks \subseteq Bytes, NEW s \in Seq(Bytes), NEW p \in Nat \ {0}, NEW c,
         NEW f, f.type \in {"Simple", "Error"}, IsLiteral(f), At(s, p, EncodeValue(f))
  PROVE  /\ EncodeValue(f) \in Seq(Bytes) /\ Len(EncodeValue(f)) > 0
         /\ IF p + Len(EncodeValue(f)) <= Len(s) + 1
            THEN /\ CheckOne(s, p, c).tag = "Ok" /\ CheckOne(s, p, c).pos = p + Len(EncodeValue(f))
                 /\ ParseOne(s, p, c) = Ok(p + Len(EncodeValue(f)), f)
            ELSE CheckOne(s, p, c) = Incomplete
<1> DEFINE text == f.text
           b == IF f.type = "Simple" THEN "+" ELSE "-"
           n == Len(text)
<1>1. /\ IsText(text)
      /\ f = IF f.type = "Simple" THEN Simple(text) ELSE Error(text)
      /\ EncodeValue(f) = <<b>> \o Line(text)
  BY DEF IsLiteral, Null, EncodeValue
<1>2. /\ text \in Seq(Bytes) /\ LineEnds(text, 1) = {} /\ ToSet(text) \cap NotUtf8 = {}
      /\ b \in Bytes /\ b \in {"+", "-"}
  BY <1>1 DEF IsText, Marks
<1> HIDE DEF text, b
<1>3. /\ Line(text) \in Seq(Bytes) /\ Len(Line(text)) = n + 2 /\ n \in Nat
  BY <1>2, LineEntries
<1>4. /\ EncodeValue(f) \in Seq(Bytes) /\ Len(EncodeValue(f)) = n + 3
      /\ Byte(s, p) = IF p <= Len(s) THEN b ELSE "end"
      /\ At(s, p + 1, Line(text))
  BY <1>1, <1>2, <1>3, MarkAndRest
<1>5. GetLine(s, p + 1) = IF (p + 1) + n + 1 <= Len(s) THEN Ok((p + 1) + n + 2, text) ELSE Incomplete
  BY <1>2, <1>4, LineRead
<1>6. Len(s) \in Nat
  OBVIOUS
<1>7. CASE p + (n + 3) <= Len(s) + 1
  <2>1. GetLine(s, p + 1) = Ok(p + (n + 3), text) /\ Byte(s, p) = b
    BY <1>3, <1>4, <1>5, <1>6, <1>7
  <2>2. CheckOne(s, p, c) = Ok(p + (n + 3), text)
    BY <1>2, <2>1, CheckAt
  <2>3. ParseOne(s, p, c) = Ok(p + (n + 3), f)
    <3>1. CASE f.type = "Simple"
      <4>1. Byte(s, p) = "+" /\ f = Simple(text)
        BY <1>1, <2>1, <3>1 DEF b
      <4> QED
        BY <1>2, <2>1, <4>1 DEF ParseOne, Then, With, Text, Ok
    <3>2. CASE f.type # "Simple"
      <4>1. Byte(s, p) = "-" /\ f = Error(text)
        BY <1>1, <2>1, <3>2 DEF b
      <4> QED
        BY <1>2, <2>1, <4>1 DEF ParseOne, Then, With, Text, Ok
    <3> QED
      BY <3>1, <3>2
  <2> QED
    BY <1>3, <1>4, <1>7, <2>2, <2>3 DEF Ok
<1>8. CASE ~(p + (n + 3) <= Len(s) + 1)
  <2>1. GetLine(s, p + 1) = Incomplete
    BY <1>3, <1>5, <1>6, <1>8
  <2>2. CheckOne(s, p, c) = Incomplete
    BY <1>2, <1>4, <2>1, CheckAt
  <2> QED
    BY <1>3, <1>4, <1>8, <2>2
<1> QED
  BY <1>7, <1>8

\* Integer frames.
LEMMA IntegerDecoded ==
  ASSUME Marks \subseteq Bytes, NEW s \in Seq(Bytes), NEW p \in Nat \ {0}, NEW c,
         NEW f, f.type = "Integer", IsLiteral(f), At(s, p, EncodeValue(f))
  PROVE  /\ EncodeValue(f) \in Seq(Bytes) /\ Len(EncodeValue(f)) > 0
         /\ IF p + Len(EncodeValue(f)) <= Len(s) + 1
            THEN /\ CheckOne(s, p, c).tag = "Ok" /\ CheckOne(s, p, c).pos = p + Len(EncodeValue(f))
                 /\ ParseOne(s, p, c) = Ok(p + Len(EncodeValue(f)), f)
            ELSE CheckOne(s, p, c) = Incomplete
<1> DEFINE text == Decimal(f.n)
           n == Len(text)
<1>1. f.n \in 0 .. U64Max /\ f = Integer(f.n) /\ EncodeValue(f) = <<":">> \o Line(text)
  BY DEF IsLiteral, Null, EncodeValue
<1>2. text \in Seq(Bytes) /\ ":" \in Bytes
  <2>1. f.n \in Nat
    BY <1>1, FrameAssumption
  <2>2. text \in Seq(ToSet(Digits))
    BY <2>1, DecimalNumeral
  <2> HIDE DEF text
  <2> QED
    BY <2>2 DEF Marks
<1> HIDE DEF text
<1>3. Line(text) \in Seq(Bytes) /\ Len(Line(text)) = n + 2 /\ n \in Nat
  BY <1>2, LineEntries
<1>4. /\ EncodeValue(f) \in Seq(Bytes) /\ Len(EncodeValue(f)) = n + 3
      /\ Byte(s, p) = IF p <= Len(s) THEN ":" ELSE "end"
      /\ At(s, p + 1, Line(text))
  BY <1>1, <1>2, <1>3, MarkAndRest
<1>5. GetDecimal(s, p + 1) = IF (p + 1) + n + 1 <= Len(s) THEN Ok((p + 1) + n + 2, f.n) ELSE Incomplete
  <2>1. p + 1 \in Nat \ {0} /\ At(s, p + 1, Line(Decimal(f.n)))
    BY <1>4 DEF text
  <2>2. \A n1 \in 0 .. U64Max : At(s, p + 1, Line(Decimal(n1))) =>
          GetDecimal(s, p + 1) = IF (p + 1) + Len(Decimal(n1)) + 1 <= Len(s)
                                 THEN Ok((p + 1) + Len(Decimal(n1)) + 2, n1) ELSE Incomplete
    BY <2>1, DecimalRead
  <2> QED
    BY <1>1, <2>1, <2>2 DEF text
<1>6. Len(s) \in Nat
  OBVIOUS
<1>7. CASE p + (n + 3) <= Len(s) + 1
  <2>1. GetDecimal(s, p + 1) = Ok(p + (n + 3), f.n) /\ Byte(s, p) = ":"
    BY <1>3, <1>4, <1>5, <1>6, <1>7
  <2>2. CheckOne(s, p, c) = Ok(p + (n + 3), f.n)
    BY <2>1, CheckAt
  <2>3. ParseOne(s, p, c) = Ok(p + (n + 3), Integer(f.n))
    BY <2>1 DEF ParseOne, Then, With, Ok
  <2>4. ParseOne(s, p, c) = Ok(p + (n + 3), f)
    BY <1>1, <2>3
  <2>5. CheckOne(s, p, c).tag = "Ok" /\ CheckOne(s, p, c).pos = p + (n + 3)
    BY <2>2 DEF Ok
  <2> QED
    BY <1>3, <1>4, <1>7, <2>4, <2>5
<1>8. CASE ~(p + (n + 3) <= Len(s) + 1)
  <2>1. GetDecimal(s, p + 1) = Incomplete
    BY <1>3, <1>5, <1>6, <1>8
  <2>2. CheckOne(s, p, c) = Incomplete
    BY <1>4, <2>1, CheckAt
  <2> QED
    BY <1>3, <1>4, <1>8, <2>2
<1> QED
  BY <1>7, <1>8

\* Null, for which check skips four bytes where parse reads a line.
LEMMA NullDecoded ==
  ASSUME Marks \subseteq Bytes, NEW s \in Seq(Bytes), NEW p \in Nat \ {0}, NEW c,
         At(s, p, EncodeValue(Null))
  PROVE  /\ EncodeValue(Null) \in Seq(Bytes) /\ Len(EncodeValue(Null)) > 0
         /\ IF p + Len(EncodeValue(Null)) <= Len(s) + 1
            THEN /\ CheckOne(s, p, c).tag = "Ok" /\ CheckOne(s, p, c).pos = p + Len(EncodeValue(Null))
                 /\ ParseOne(s, p, c) = Ok(p + Len(EncodeValue(Null)), Null)
            ELSE CheckOne(s, p, c) = Incomplete
<1> DEFINE text == <<"-", "1">>
<1>1. EncodeValue(Null) = <<"$">> \o Line(text)
  BY DEF EncodeValue, Null
<1>2. /\ "$" \in Bytes /\ "-" \in Bytes /\ "1" \in Bytes
      /\ text \in Seq(Bytes) /\ Len(text) = 2 /\ text[1] = "-" /\ text[2] = "1"
  <2>1. Digits[2] = "1" /\ 2 \in DOMAIN Digits
    BY DEF Digits
  <2>2. "$" \in Bytes /\ "-" \in Bytes /\ "1" \in Bytes
    BY <2>1 DEF Marks, ToSet
  <2> QED
    BY <2>2
<1>3. LineEnds(text, 1) = {}
  <2>1. 1 .. Len(text) - 1 = {1}
    BY <1>2
  <2> QED
    BY <1>2, <2>1 DEF LineEnds
<1> HIDE DEF text
<1>4. /\ Line(text) \in Seq(Bytes) /\ Len(Line(text)) = 4
      /\ \A i \in 1 .. Len(text) : Line(text)[i] = text[i]
  <2>1. /\ Line(text) \in Seq(Bytes) /\ Len(Line(text)) = Len(text) + 2
        /\ \A i \in 1 .. Len(text) : Line(text)[i] = text[i]
    BY <1>2, LineEntries
  <2> QED
    BY <1>2, <2>1
<1>5. /\ EncodeValue(Null) \in Seq(Bytes) /\ Len(EncodeValue(Null)) = 5
      /\ Byte(s, p) = IF p <= Len(s) THEN "$" ELSE "end"
      /\ At(s, p + 1, Line(text))
  <2>1. At(s, p, <<"$">> \o Line(text))
    BY <1>1
  <2>2. /\ <<"$">> \o Line(text) \in Seq(Bytes) /\ Len(<<"$">> \o Line(text)) = Len(Line(text)) + 1
        /\ Byte(s, p) = IF p <= Len(s) THEN "$" ELSE "end"
        /\ At(s, p + 1, Line(text))
    <3>1. "$" \in Bytes /\ Line(text) \in Seq(Bytes)
      BY <1>2, <1>4
    <3> QED
      BY <2>1, <3>1, MarkAndRest
  <2>3. Len(Line(text)) + 1 = 5
    BY <1>4
  <2> QED
    BY <1>1, <2>2, <2>3
<1>6. Len(s) \in Nat
  OBVIOUS
<1>7. Byte(s, p + 1) = IF p + 1 <= Len(s) THEN "-" ELSE "end"
  <2>1. 1 \in 1 .. Len(Line(text)) /\ Line(text)[1] = "-"
    BY <1>2, <1>4
  <2>2. (p + 1) + 1 - 1 = p + 1
    OBVIOUS
  <2>3. p + 1 <= Len(s) => s[p + 1] = "-"
    BY <1>5, <2>1, <2>2 DEF At
  <2> QED
    BY <2>3 DEF Byte
<1>8. GetLine(s, p + 1) = IF (p + 1) + 2 + 1 <= Len(s) THEN Ok((p + 1) + 2 + 2, text) ELSE Incomplete
  <2>1. p + 1 \in Nat \ {0}
    OBVIOUS
  <2>2. GetLine(s, p + 1) = IF (p + 1) + Len(text) + 1 <= Len(s)
                            THEN Ok((p + 1) + Len(text) + 2, text) ELSE Incomplete
    BY <1>2, <1>3, <1>5, <2>1, LineRead
  <2> QED
    BY <1>2, <2>2
<1>9. CASE p + 5 <= Len(s) + 1
  <2>1. Byte(s, p) = "$" /\ Byte(s, p + 1) = "-" /\ GetLine(s, p + 1) = Ok(p + 5, text)
    BY <1>5, <1>6, <1>7, <1>8, <1>9
  <2>2. CheckOne(s, p, c) = Ok(p + 5, <<>>)
    <3>1. CheckOne(s, p, c) = Skip(s, p + 1, 4)
      BY <2>1, CheckAt
    <3>2. (p + 1) + 4 - 1 <= Len(s) /\ (p + 1) + 4 = p + 5
      BY <1>6, <1>9
    <3> QED
      BY <3>1, <3>2 DEF Skip
  <2>3. ParseOne(s, p, c) = Ok(p + 5, Null)
    BY <2>1 DEF ParseOne, Then, With, Ok, text
  <2> QED
    BY <1>5, <1>9, <2>2, <2>3 DEF Ok
<1>10. CASE ~(p + 5 <= Len(s) + 1)
  <2>1. CheckOne(s, p, c) = Incomplete
    <3>1. CASE p + 1 <= Len(s)
      <4>1. CheckOne(s, p, c) = Skip(s, p + 1, 4)
        BY <1>5, <1>6, <1>7, <3>1, CheckAt
      <4>2. ~((p + 1) + 4 - 1 <= Len(s))
        BY <1>6, <1>10
      <4> QED
        BY <4>1, <4>2 DEF Skip
    <3>2. CASE ~(p + 1 <= Len(s))
      BY <1>5, <1>7, <3>2, CheckAt
    <3> QED
      BY <3>1, <3>2
  <2> QED
    BY <1>5, <1>10, <2>1
<1> QED
  BY <1>9, <1>10

\* Bulk frames, whatever bytes they hold.
LEMMA BulkDecoded ==
  ASSUME Marks \subseteq Bytes, NEW s \in Seq(Bytes), NEW p \in Nat \ {0}, NEW c,
         NEW f, f.type = "Bulk", IsLiteral(f), At(s, p, EncodeValue(f))
  PROVE  /\ EncodeValue(f) \in Seq(Bytes) /\ Len(EncodeValue(f)) > 0
         /\ IF p + Len(EncodeValue(f)) <= Len(s) + 1
            THEN /\ CheckOne(s, p, c).tag = "Ok" /\ CheckOne(s, p, c).pos = p + Len(EncodeValue(f))
                 /\ ParseOne(s, p, c) = Ok(p + Len(EncodeValue(f)), f)
            ELSE CheckOne(s, p, c) = Incomplete
<1> DEFINE data == f.data
           len  == Len(f.data)
           text == Decimal(Len(f.data))
           n    == Len(text)
           head == <<"$">> \o Line(text)
<1>1. /\ data \in Seq(Bytes) /\ len \in Nat /\ len + 2 <= U64Max /\ f = Bulk(data)
      /\ EncodeValue(f) = head \o Line(data)
  BY DEF IsLiteral, Null, EncodeValue
<1>2. /\ text \in Seq(Bytes) /\ "$" \in Bytes /\ n \in Nat \ {0} /\ len \in 0 .. U64Max
      /\ \A i \in 1 .. n : text[i] \notin {"+", "-", "CR", "LF", "end"}
  <2>1. text \in Seq(ToSet(Digits)) /\ Len(text) > 0
    BY <1>1, DecimalNumeral
  <2>2. len \in 0 .. U64Max
    BY <1>1, FrameAssumption
  <2> HIDE DEF text
  <2> QED
    BY <2>1, <2>2, DigitValues DEF Marks
<1> HIDE DEF data, len, text
<1>3. /\ Line(text) \in Seq(Bytes) /\ Len(Line(text)) = n + 2
      /\ Line(data) \in Seq(Bytes) /\ Len(Line(data)) = Len(data) + 2 /\ Len(data) = len
      /\ Line(text)[1] = text[1]
      /\ \A i \in 1 .. len : Line(data)[i] = data[i]
  <2>1. 1 \in 1 .. n
    BY <1>2
  <2> QED
    BY <1>1, <1>2, <2>1, LineEntries DEF len, data
<1>4. head \in Seq(Bytes) /\ Len(head) = n + 3
  BY <1>2, <1>3, MarkAndRest
<1>5. At(s, p, head) /\ At(s, p + (n + 3), Line(data))
  <2> HIDE DEF head
  <2>1. At(s, p, head \o Line(data))
    BY <1>1
  <2>2. At(s, p, head) /\ At(s, p + Len(head), Line(data))
    BY <1>3, <1>4, <2>1, AtParts
  <2> QED
    BY <1>4, <2>2
<1>6. /\ Byte(s, p) = IF p <= Len(s) THEN "$" ELSE "end"
      /\ At(s, p + 1, Line(text))
  BY <1>2, <1>3, <1>5, MarkAndRest
<1>7. EncodeValue(f) \in Seq(Bytes) /\ Len(EncodeValue(f)) = n + len + 5
  <2> HIDE DEF head
  <2>1. Len(head \o Line(data)) = Len(head) + Len(Line(data)) /\ head \o Line(data) \in Seq(Bytes)
    <3>1. \A u, v \in Seq(Bytes) : Len(u \o v) = Len(u) + Len(v) /\ u \o v \in Seq(Bytes)
      OBVIOUS
    <3> QED
      BY <1>3, <1>4, <3>1, Zenon
  <2>2. Len(head) + Len(Line(data)) = n + len + 5
    BY <1>1, <1>2, <1>3, <1>4
  <2> QED
    BY <1>1, <2>1, <2>2
<1> HIDE DEF head
<1>8. Len(s) \in Nat
  OBVIOUS
<1>9. /\ p + 1 <= Len(s) => Byte(s, p + 1) \notin {"end", "-"}
      /\ ~(p + 1 <= Len(s)) => Byte(s, p + 1) = "end"
  <2>1. 1 \in 1 .. Len(Line(text)) /\ (p + 1) + 1 - 1 = p + 1 /\ 1 \in 1 .. n
    BY <1>2, <1>3
  <2>2. p + 1 <= Len(s) => s[p + 1] = text[1]
    BY <1>3, <1>6, <2>1 DEF At
  <2> QED
    BY <1>2, <2>1, <2>2 DEF Byte
<1>10. GetDecimal(s, p + 1) = IF (p + 1) + n + 1 <= Len(s) THEN Ok((p + 1) + n + 2, len) ELSE Incomplete
  <2>1. p + 1 \in Nat \ {0} /\ At(s, p + 1, Line(Decimal(len)))
    BY <1>6 DEF text, len
  <2>2. \A n1 \in 0 .. U64Max : At(s, p + 1, Line(Decimal(n1))) =>
          GetDecimal(s, p + 1) = IF (p + 1) + Len(Decimal(n1)) + 1 <= Len(s)
                                 THEN Ok((p + 1) + Len(Decimal(n1)) + 2, n1) ELSE Incomplete
    BY <2>1, DecimalRead
  <2> QED
    BY <1>2, <2>1, <2>2 DEF text, len
<1> DEFINE q == p + n + 3
<1>11. q \in Nat \ {0} /\ q + (len + 2) - 1 = p + n + len + 4 /\ q + (len + 2) = p + (n + len + 5)
  BY <1>1, <1>2
<1>12. CASE p + (n + len + 5) <= Len(s) + 1
  <2>1. /\ Byte(s, p) = "$" /\ Byte(s, p + 1) \notin {"end", "-"}
        /\ GetDecimal(s, p + 1) = Ok(q, len)
    <3>1. (p + 1) + n + 1 <= Len(s) /\ (p + 1) + n + 2 = q /\ p <= Len(s) /\ p + 1 <= Len(s)
      BY <1>1, <1>2, <1>8, <1>12
    <3> HIDE DEF q
    <3> QED
      BY <1>6, <1>9, <1>10, <3>1
  <2>2. q + (len + 2) - 1 <= Len(s) /\ q + len - 1 <= Len(s)
    BY <1>1, <1>2, <1>8, <1>12
  <2>3. SubSeq(s, q, q + len - 1) = data
    <3>1. \A i \in 1 .. len : s[q + i - 1] = data[i]
      <4> SUFFICES ASSUME NEW i \in 1 .. len PROVE s[q + i - 1] = data[i]
        OBVIOUS
      <4>1. i \in 1 .. Len(Line(data)) /\ (p + (n + 3)) + i - 1 = q + i - 1 /\ q + i - 1 <= Len(s)
        BY <1>1, <1>2, <1>3, <1>8, <2>2
      <4>2. s[(p + (n + 3)) + i - 1] = Line(data)[i]
        BY <1>5, <4>1 DEF At
      <4> HIDE DEF q
      <4> QED
        BY <1>3, <4>1, <4>2
    <3> HIDE DEF q
    <3>2. /\ SubSeq(s, q, q + len - 1) \in Seq(Bytes) /\ Len(SubSeq(s, q, q + len - 1)) = len
          /\ \A i \in 1 .. len : SubSeq(s, q, q + len - 1)[i] = s[q + i - 1]
      BY <1>1, <1>8, <1>11, <2>2
    <3>3. data \in Seq(Bytes) /\ Len(data) = len
      BY <1>1, <1>3
    <3>4. \A i \in 1 .. len : SubSeq(s, q, q + len - 1)[i] = data[i]
      BY <3>1, <3>2
    <3> QED
      BY SMTT(30), <3>2, <3>3, <3>4, SameEntries
  <2> HIDE DEF q
  <2>4. CheckOne(s, p, c) = Ok(q + (len + 2), <<>>)
    <3>1. Skip(s, q, len + 2) = Ok(q + (len + 2), <<>>)
      BY <2>2 DEF Skip
    <3> QED
      BY <1>1, <2>1, <3>1 DEF CheckOne, Then, With, WithCrLf, Ok
  <2>5. ParseOne(s, p, c) = Ok(q + (len + 2), f)
    <3>1. ParseBulk(s, q, len) = Ok(q + (len + 2), Bulk(data))
      <4>1. /\ ~(q + (len + 2) - 1 > Len(s)) /\ ~(q + len - 1 > Len(s))
        BY <1>1, <1>8, <1>11, <2>2
      <4> QED
        BY <1>1, <2>3, <4>1 DEF ParseBulk, WithCrLf
    <3>2. ParseOne(s, p, c) = Ok(q + (len + 2), Bulk(data))
      BY <2>1, <3>1 DEF ParseOne, Then, With, Ok
    <3> QED
      BY <1>1, <3>2
  <2>6. CheckOne(s, p, c).tag = "Ok" /\ CheckOne(s, p, c).pos = q + (len + 2)
    BY <2>4 DEF Ok
  <2> QED
    BY <1>2, <1>7, <1>11, <1>12, <2>5, <2>6, <1>1
<1>13. CASE ~(p + (n + len + 5) <= Len(s) + 1)
  <2>1. CheckOne(s, p, c) = Incomplete
    <3>1. CASE ~(p <= Len(s))
      BY <1>6, <3>1, CheckAt
    <3>2. CASE p <= Len(s) /\ ~(p + 1 <= Len(s))
      BY <1>6, <1>9, <3>2, CheckAt
    <3>3. CASE p + 1 <= Len(s) /\ ~((p + 1) + n + 1 <= Len(s))
      <4>1. Byte(s, p) = "$" /\ Byte(s, p + 1) \notin {"end", "-"} /\ GetDecimal(s, p + 1) = Incomplete
        BY <1>6, <1>8, <1>9, <1>10, <3>3
      <4>2. Incomplete.tag # "Ok"
        BY DEF Incomplete
      <4> QED
        BY <4>1, <4>2 DEF CheckOne, Then, With
    <3>4. CASE p + 1 <= Len(s) /\ (p + 1) + n + 1 <= Len(s)
      <4>1. Byte(s, p) = "$" /\ Byte(s, p + 1) \notin {"end", "-"} /\ GetDecimal(s, p + 1) = Ok(q, len)
        <5>1. (p + 1) + n + 2 = q /\ p <= Len(s)
          BY <1>2, <1>8, <3>4
        <5> HIDE DEF q
        <5> QED
          BY <1>6, <1>9, <1>10, <3>4, <5>1
      <4>2. ~(q + (len + 2) - 1 <= Len(s))
        BY <1>1, <1>2, <1>8, <1>13
      <4> HIDE DEF q
      <4>3. Skip(s, q, len + 2) = Incomplete
        BY <4>2 DEF Skip
      <4> QED
        BY <1>1, <4>1, <4>3 DEF CheckOne, Then, With, WithCrLf, Ok
    <3> QED
      BY <3>1, <3>2, <3>3, <3>4, <1>8
  <2> QED
    BY <1>2, <1>7, <1>13, <2>1, <1>1
<1> QED
  BY <1>12, <1>13

\* All of them.
LEMMA LiteralDecoded ==
  ASSUME Marks \subseteq Bytes, NEW s \in Seq(Bytes), NEW p \in Nat \ {0}, NEW c,
         NEW f, IsLiteral(f), At(s, p, EncodeValue(f))
  PROVE  /\ EncodeValue(f) \in Seq(Bytes) /\ Len(EncodeValue(f)) > 0
         /\ IF p + Len(EncodeValue(f)) <= Len(s) + 1
            THEN /\ CheckOne(s, p, c).tag = "Ok" /\ CheckOne(s, p, c).pos = p + Len(EncodeValue(f))
                 /\ ParseOne(s, p, c) = Ok(p + Len(EncodeValue(f)), f)
            ELSE CheckOne(s, p, c) = Incomplete
<1>1. f.type \in {"Simple", "Error"} \/ f.type = "Integer" \/ f.type = "Bulk" \/ f = Null
  BY DEF IsLiteral
<1>2. CASE f.type \in {"Simple", "Error"}
  BY <1>2, TextDecoded
<1>3. CASE f.type = "Integer"
  BY <1>3, IntegerDecoded
<1>4. CASE f.type = "Bulk"
  BY <1>4, BulkDecoded
<1>5. CASE f = Null
  BY <1>5, NullDecoded
<1> QED
  BY <1>1, <1>2, <1>3, <1>4, <1>5

\* Encodings are sequences of bytes, never empty.
LEMMA LiteralEncoding ==
  ASSUME Marks \subseteq Bytes, NEW f, IsLiteral(f)
  PROVE  EncodeValue(f) \in Seq(Bytes) /\ Len(EncodeValue(f)) \in Nat \ {0}
<1>1. <<>> \in Seq(Bytes) /\ Len(<<>>) = 0 /\ 1 \in Nat \ {0}
  OBVIOUS
<1>2. At(<<>>, 1, EncodeValue(f))
  BY <1>1 DEF At
<1>3. \A c : EncodeValue(f) \in Seq(Bytes) /\ Len(EncodeValue(f)) > 0
  BY <1>1, <1>2, LiteralDecoded
<1>4. \A u : u \in Seq(Bytes) /\ Len(u) > 0 => Len(u) \in Nat \ {0}
  OBVIOUS
<1> QED
  BY <1>3, <1>4

-------------------------------------------------------------------------------
(* check and parse go forward, whatever is in the buffer.                  *)

\* A line ends behind its beginning.
LEMMA LineMoves ==
  ASSUME NEW s \in Seq(Bytes), NEW p \in Nat
  PROVE  /\ GetLine(s, p).tag \in {"Ok", "Incomplete"}
         /\ GetLine(s, p).tag = "Ok" =>
              \E i \in LineEnds(s, p) :
                /\ GetLine(s, p) = Ok(i + 2, SubSeq(s, p, i - 1))
                /\ i \in Nat /\ i >= p /\ i + 1 <= Len(s)
                /\ \A j \in LineEnds(s, p) : i <= j
<1> DEFINE E == LineEnds(s, p)
<1>1. GetLine(s, p) = IF E = {} THEN Incomplete ELSE Ok(Min(E) + 2, SubSeq(s, p, Min(E) - 1))
  BY DEF GetLine, With
<1>2. CASE E = {}
  BY <1>1, <1>2 DEF Incomplete
<1>3. CASE E # {}
  <2>1. E \in SUBSET Nat /\ \A i \in E : i \in Nat /\ i >= p /\ i + 1 <= Len(s)
    BY DEF LineEnds
  <2>2. PICK i \in E : \A j \in E : i <= j
    BY <1>3, <2>1, LeastNumber
  <2>3. Min(E) = i
    BY <2>1, <2>2 DEF Min
  <2> HIDE DEF E
  <2>4. GetLine(s, p) = Ok(i + 2, SubSeq(s, p, i - 1))
    BY <1>1, <1>3, <2>3
  <2>5. GetLine(s, p).tag = "Ok"
    BY <2>4 DEF Ok
  <2> QED
    BY <2>1, <2>2, <2>4, <2>5 DEF E
<1> QED
  BY <1>2, <1>3

\* The digits a text begins with.
LEMMA LeadingDigitsTyped ==
  ASSUME NEW text \in Seq(Bytes)
  PROVE  LeadingDigits(text) \in Seq(ToSet(Digits))
<1> DEFINE I == {i \in 1 .. Len(text) : ~IsDigit(text[i])}
<1>1. SelectInSeq(text, LAMBDA b : ~IsDigit(b)) = IF I # {} THEN Min(I) ELSE 0
  BY DEF SelectInSeq
<1>2. CASE I = {}
  <2>1. \A i \in 1 .. Len(text) : text[i] \in ToSet(Digits)
    BY <1>2 DEF IsDigit
  <2>2. text \in Seq(ToSet(Digits))
    BY <2>1
  <2>3. LeadingDigits(text) = text
    BY <1>1, <1>2 DEF LeadingDigits, With
  <2> QED
    BY <2>2, <2>3
<1>3. CASE I # {}
  <2>1. I \in SUBSET Nat /\ \A i \in I : i \in 1 .. Len(text)
    OBVIOUS
  <2>2. PICK i \in I : \A j \in I : i <= j
    BY <1>3, <2>1, LeastNumber
  <2>3. Min(I) = i
    BY <2>1, <2>2 DEF Min
  <2>4. i \in 1 .. Len(text) /\ \A j \in 1 .. i - 1 : text[j] \in ToSet(Digits)
    BY <2>2 DEF IsDigit
  <2> HIDE DEF I
  <2>5. SelectInSeq(text, LAMBDA b : ~IsDigit(b)) = i /\ i # 0
    BY <1>1, <1>3, <2>3, <2>4
  <2>6. LeadingDigits(text) = SubSeq(text, 1, i - 1)
    BY <2>5 DEF LeadingDigits, With
  <2>7. /\ SubSeq(text, 1, i - 1) \in Seq(Bytes) /\ Len(SubSeq(text, 1, i - 1)) = i - 1
        /\ \A j \in 1 .. i - 1 : SubSeq(text, 1, i - 1)[j] = text[j]
    BY <2>4
  <2>8. SubSeq(text, 1, i - 1) \in Seq(ToSet(Digits))
    BY <2>4, <2>7
  <2> QED
    BY <2>6, <2>8
<1> QED
  BY <1>2, <1>3

\* A number read is a u64, and its line ends behind its beginning.
LEMMA DecimalMoves ==
  ASSUME NEW s \in Seq(Bytes), NEW p \in Nat \ {0}
  PROVE  /\ GetDecimal(s, p).tag \in {"Ok", "Incomplete", "Other"}
         /\ GetDecimal(s, p).tag = "Ok" =>
              /\ GetDecimal(s, p).val \in 0 .. U64Max
              /\ GetDecimal(s, p).pos \in Nat /\ GetDecimal(s, p).pos >= p + 2
              /\ GetDecimal(s, p).pos <= Len(s) + 1
<1> DEFINE l == GetLine(s, p)
<1>1. CASE l.tag # "Ok"
  <2>1. l = Incomplete
    BY <1>1, LineMoves DEF GetLine, With, Ok
  <2>2. Incomplete.tag = "Incomplete"
    BY DEF Incomplete
  <2>3. GetDecimal(s, p) = Incomplete
    BY <2>1, <2>2 DEF GetDecimal, Then, With
  <2> QED
    BY <2>2, <2>3
<1>2. CASE l.tag = "Ok"
  <2>1. PICK i \in LineEnds(s, p) : /\ l = Ok(i + 2, SubSeq(s, p, i - 1))
                                    /\ i \in Nat /\ i >= p /\ i + 1 <= Len(s)
    BY <1>2, LineMoves
  <2> DEFINE text == SubSeq(s, p, i - 1)
  <2>2. text \in Seq(Bytes)
    BY <2>1
  <2>3. Atoi(text) = {} \/ \E n \in 0 .. U64Max : Atoi(text) = {n}
    <3> HIDE DEF text
    <3> DEFINE signed == text # <<>> /\ text[1] \in {"+", "-"}
               rest == IF signed THEN Tail(text) ELSE text
               digits == LeadingDigits(rest)
    <3>1. rest \in Seq(Bytes)
      BY <2>2
    <3>2. digits \in Seq(ToSet(Digits))
      <4> HIDE DEF rest
      <4> QED
        BY <3>1, LeadingDigitsTyped
    <3>3. ValueOf(digits) \in Nat
      <4> HIDE DEF digits
      <4>1. Len(digits) \in 0 .. Len(digits)
        BY <3>2
      <4> QED
        BY <3>2, <4>1, ValueUnfold
    <3>4. Atoi(text) = Number(signed, signed /\ text[1] = "-", digits)
      BY DEF Atoi
    <3> HIDE DEF digits, signed
    <3>5. \A minus : \/ Number(signed, minus, digits) = {}
                     \/ \E n \in 0 .. U64Max : Number(signed, minus, digits) = {n}
      <4>1. U64Max \in Nat /\ 0 \in 0 .. U64Max
        BY FrameAssumption
      <4>2. TAKE minus
      <4>3. CASE digits = <<>>
        <5>1. Number(signed, minus, digits) = IF signed /\ BareSignIsZero THEN {0} ELSE {}
          BY <4>3 DEF Number
        <5> QED
          BY <4>1, <5>1
      <4>4. CASE digits # <<>>
        <5>1. Number(signed, minus, digits) =
                IF ValueOf(digits) > U64Max \/ (minus /\ ValueOf(digits) > 0)
                THEN {} ELSE {ValueOf(digits)}
          BY <4>4 DEF Number, With
        <5>2. ValueOf(digits) > U64Max \/ ValueOf(digits) \in 0 .. U64Max
          BY <3>3, <4>1
        <5> QED
          BY <5>1, <5>2
      <4> QED
        BY <4>3, <4>4
    <3> QED
      BY <3>4, <3>5
  <2>4. GetDecimal(s, p) = IF Atoi(text) = {} THEN Other ELSE Ok(i + 2, CHOOSE value \in Atoi(text) : TRUE)
    <3> HIDE DEF text
    <3>1. GetLine(s, p) = Ok(i + 2, text)
      BY <2>1 DEF text
    <3>2. Ok(i + 2, text).tag = "Ok" /\ Ok(i + 2, text).pos = i + 2 /\ Ok(i + 2, text).val = text
      BY DEF Ok
    <3> QED
      BY <3>1, <3>2 DEF GetDecimal, Then, With
  <2> HIDE DEF text
  <2>5. CASE Atoi(text) = {}
    <3>1. GetDecimal(s, p) = Other
      BY <2>4, <2>5
    <3> QED
      BY <3>1 DEF Other
  <2>6. CASE Atoi(text) # {}
    <3>1. PICK n \in 0 .. U64Max : Atoi(text) = {n}
      BY <2>3, <2>6
    <3>2. (CHOOSE value \in {n} : TRUE) = n
      OBVIOUS
    <3>3. GetDecimal(s, p) = Ok(i + 2, n)
      BY <2>4, <2>6, <3>1, <3>2
    <3>4. GetDecimal(s, p).tag = "Ok" /\ GetDecimal(s, p).pos = i + 2 /\ GetDecimal(s, p).val = n
      BY <3>3 DEF Ok
    <3> QED
      BY <2>1, <3>4
  <2> QED
    BY <2>5, <2>6
<1> QED
  BY <1>1, <1>2

\* What the checks answer lies ahead of where they began.
Forward(g) ==
  \A p, k \in Nat : g[p][k].tag = "Ok" => g[p][k].pos \in Nat /\ g[p][k].pos >= p

\* A bulk string is checked, with the overflow of its length.
LEMMA SkipMoves ==
  ASSUME NEW s \in Seq(Bytes), NEW q \in Nat, NEW len \in 0 .. U64Max,
         NEW r, r = WithCrLf(len, LAMBDA n : Skip(s, q, n)), r.tag = "Ok"
  PROVE  r.pos \in Nat /\ r.pos >= q
<1>1. U64Max \in Nat
  BY FrameAssumption
<1>2. ASSUME NEW n \in Nat, r = Skip(s, q, n) PROVE r.pos \in Nat /\ r.pos >= q
  <2>1. r = Ok(q + n, <<>>)
    <3>1. Incomplete.tag # "Ok"
      BY DEF Incomplete
    <3> QED
      BY <1>2, <3>1 DEF Skip
  <2> QED
    BY <2>1 DEF Ok
<1>3. Panic.tag # "Ok"
  BY DEF Panic
<1>4. CASE len + 2 <= U64Max
  BY <1>2, <1>4 DEF WithCrLf
<1>5. CASE ~(len + 2 <= U64Max)
  <2>1. len + 2 - (U64Max + 1) \in Nat
    BY <1>1, <1>5
  <2> QED
    BY <1>2, <1>3, <1>5, <2>1 DEF WithCrLf
<1> QED
  BY <1>4, <1>5

\* One frame checked moves the cursor, if those in an array do not move it back.
LEMMA CheckMoves ==
  ASSUME NEW s \in Seq(Bytes), NEW p \in Nat, NEW g, Forward(g), CheckOne(s, p, g).tag = "Ok"
  PROVE  CheckOne(s, p, g).pos \in Nat /\ CheckOne(s, p, g).pos > p
<1> DEFINE b == Byte(s, p)
           next == Byte(s, p + 1)
           r == CheckOne(s, p, g)
           d == GetDecimal(s, p + 1)
<1>1. Incomplete.tag # "Ok" /\ Other.tag # "Ok" /\ p + 1 \in Nat \ {0}
  BY DEF Incomplete, Other
<1>2. d.tag = "Ok" => d.val \in 0 .. U64Max /\ d.val \in Nat /\ d.pos \in Nat /\ d.pos > p
  BY <1>1, DecimalMoves, FrameAssumption
<1>3. CASE b \in {"+", "-"}
  <2>1. r = GetLine(s, p + 1)
    BY <1>3 DEF CheckOne
  <2>2. PICK i \in LineEnds(s, p + 1) : /\ r = Ok(i + 2, SubSeq(s, p + 1, i - 1))
                                        /\ i \in Nat /\ i >= p + 1
    BY <1>1, <2>1, LineMoves
  <2> QED
    BY <2>2 DEF Ok
<1>4. CASE b = ":"
  <2>1. r = d
    BY <1>4 DEF CheckOne
  <2> QED
    BY <1>2, <2>1
<1>5. CASE b = "$" /\ next = "-"
  <2>1. r = Skip(s, p + 1, 4)
    BY <1>5 DEF CheckOne
  <2>2. r = Ok(p + 5, <<>>)
    BY <1>1, <2>1 DEF Skip
  <2> QED
    BY <2>2 DEF Ok
<1>6. CASE b = "$" /\ next \notin {"end", "-"}
  <2>1. r = IF d.tag # "Ok" THEN d
            ELSE IF d.val + 2 <= U64Max THEN Skip(s, d.pos, d.val + 2)
            ELSE IF OverflowChecks THEN Panic ELSE Skip(s, d.pos, d.val + 2 - (U64Max + 1))
    BY <1>6, CheckAt
  <2>2. d.tag = "Ok" /\ r = WithCrLf(d.val, LAMBDA n : Skip(s, d.pos, n))
    BY <2>1 DEF WithCrLf
  <2>3. PICK q, len : q = d.pos /\ len = d.val
    OBVIOUS
  <2>4. q \in Nat /\ q > p /\ len \in 0 .. U64Max /\ r = WithCrLf(len, LAMBDA n : Skip(s, q, n))
    BY <1>2, <2>2, <2>3
  <2> HIDE DEF r
  <2>5. r.pos \in Nat /\ r.pos >= q
    BY <2>4, SkipMoves DEF r
  <2> QED
    BY <2>4, <2>5 DEF r
<1>7. CASE b = "*"
  <2>1. r = IF d.tag = "Ok" THEN g[d.pos][d.val] ELSE d
    BY <1>7 DEF CheckOne, Then, With
  <2>2. d.tag = "Ok" /\ r = g[d.pos][d.val]
    BY <2>1
  <2>3. r.pos \in Nat /\ r.pos >= d.pos
    BY <1>2, <2>2 DEF Forward
  <2> QED
    BY <1>2, <2>2, <2>3
<1>8. b \in {"+", "-", ":", "*"} \/ (b = "$" /\ next # "end")
  BY <1>1 DEF CheckOne
<1> QED
  BY <1>3, <1>4, <1>5, <1>6, <1>7, <1>8

\* What is checked from p on depends on the checks behind p only.
LEMMA CheckLocal ==
  ASSUME NEW s \in Seq(Bytes), NEW p \in Nat, NEW g, NEW h,
         \A q \in Nat : q > p => g[q] = h[q]
  PROVE  CheckOne(s, p, g) = CheckOne(s, p, h)
<1> DEFINE d == GetDecimal(s, p + 1)
<1>1. p + 1 \in Nat \ {0}
  OBVIOUS
<1>2. d.tag = "Ok" => g[d.pos][d.val] = h[d.pos][d.val]
  BY <1>1, DecimalMoves
<1>3. CASE Byte(s, p) = "*"
  <2>1. CheckOne(s, p, g) = IF d.tag = "Ok" THEN g[d.pos][d.val] ELSE d
    BY <1>3 DEF CheckOne, Then, With
  <2>2. CheckOne(s, p, h) = IF d.tag = "Ok" THEN h[d.pos][d.val] ELSE d
    BY <1>3 DEF CheckOne, Then, With
  <2> QED
    BY <1>2, <2>1, <2>2
<1>4. CASE Byte(s, p) # "*"
  BY <1>4 DEF CheckOne
<1> QED
  BY <1>3, <1>4

\* The answers on one more frame and the others behind it, from the answers g.
CheckMore(s, g) ==
  [p \in Nat |-> [k \in Nat |->
     IF k = 0 THEN Ok(p, <<>>)
     ELSE Then(CheckOne(s, p, g), LAMBDA r : g[r.pos][k - 1])]]

\* The checks of one more frame lie ahead if those before do.
LEMMA CheckMoreForward ==
  ASSUME NEW s \in Seq(Bytes), NEW g, Forward(g)
  PROVE  Forward(CheckMore(s, g))
<1> SUFFICES ASSUME NEW p \in Nat, NEW k \in Nat, CheckMore(s, g)[p][k].tag = "Ok"
             PROVE  /\ CheckMore(s, g)[p][k].pos \in Nat
                    /\ CheckMore(s, g)[p][k].pos >= p
  BY DEF Forward
<1> DEFINE one == CheckOne(s, p, g)
           r == CheckMore(s, g)[p][k]
<1>1. r = IF k = 0 THEN Ok(p, <<>>) ELSE IF one.tag = "Ok" THEN g[one.pos][k - 1] ELSE one
  BY DEF CheckMore, Then, With
<1>2. CASE k = 0
  BY <1>1, <1>2 DEF Ok
<1>3. CASE k # 0
  <2>1. one.tag = "Ok" /\ r = g[one.pos][k - 1] /\ k - 1 \in Nat
    BY <1>1, <1>3
  <2>2. one.pos \in Nat /\ one.pos > p
    BY <2>1, CheckMoves
  <2>3. r.pos \in Nat /\ r.pos >= one.pos
    BY <2>1, <2>2 DEF Forward
  <2> QED
    BY <2>2, <2>3
<1> QED
  BY <1>2, <1>3

\* They depend on the checks behind their beginning only.
LEMMA CheckMoreLocal ==
  ASSUME NEW s \in Seq(Bytes), NEW p \in Nat, NEW g, NEW h, Forward(g),
         \A q \in Nat : q > p => g[q] = h[q]
  PROVE  CheckMore(s, g)[p] = CheckMore(s, h)[p]
<1> DEFINE one == CheckOne(s, p, g)
<1>1. one = CheckOne(s, p, h)
  BY CheckLocal
<1>2. one.tag = "Ok" => one.pos \in Nat /\ one.pos > p
  BY CheckMoves
<1>3. CheckMore(s, g)[p] = [k \in Nat |-> IF k = 0 THEN Ok(p, <<>>)
                              ELSE IF one.tag = "Ok" THEN g[one.pos][k - 1] ELSE one]
  BY DEF CheckMore, Then, With
<1>4. CheckMore(s, h)[p] = [k \in Nat |-> IF k = 0 THEN Ok(p, <<>>)
                              ELSE IF one.tag = "Ok" THEN h[one.pos][k - 1] ELSE one]
  BY <1>1 DEF CheckMore, Then, With
<1> HIDE DEF one
<1>5. one.tag = "Ok" => g[one.pos] = h[one.pos]
  BY <1>2
<1> QED
  BY <1>3, <1>4, <1>5

\* Behind the end of the buffer there is nothing to check.
LEMMA CheckMoreEnd ==
  ASSUME NEW s \in Seq(Bytes), NEW p \in Nat, p > Len(s), NEW g
  PROVE  CheckMore(s, g)[p] = [k \in Nat |-> IF k = 0 THEN Ok(p, <<>>) ELSE Incomplete]
<1>1. Byte(s, p) = "end"
  BY DEF Byte
<1>2. CheckOne(s, p, g) = Incomplete
  BY <1>1, CheckAt
<1>3. Incomplete.tag # "Ok"
  BY DEF Incomplete
<1> QED
  BY <1>2, <1>3 DEF CheckMore, Then, With

\* The recursion of check ends: on a finite buffer its equation has a solution.
LEMMA CheckSolved ==
  ASSUME NEW s \in Seq(Bytes)
  PROVE  \E g : g = CheckMore(s, g) /\ Forward(g)
<1> DEFINE Settled(g, n) == \A p \in Nat : p + n > Len(s) => g[p] = CheckMore(s, g)[p]
           N == {n \in Nat : \E g : /\ g = [p \in Nat |-> g[p]]
                                    /\ Forward(g) /\ Settled(g, n)}
<1>1. Len(s) \in Nat /\ Len(s) + 1 \in Nat
  OBVIOUS
<1>2. 0 \in N
  <2> DEFINE g == [p \in Nat |-> [k \in Nat |-> IF k = 0 THEN Ok(p, <<>>) ELSE Incomplete]]
  <2>1. Forward(g)
    BY DEF Forward, Ok, Incomplete
  <2>2. ASSUME NEW p \in Nat, p + 0 > Len(s) PROVE g[p] = CheckMore(s, g)[p]
    <3>1. p > Len(s)
      BY <1>1, <2>2
    <3>2. g[p] = [k \in Nat |-> IF k = 0 THEN Ok(p, <<>>) ELSE Incomplete]
      OBVIOUS
    <3> HIDE DEF g
    <3> QED
      BY <3>1, <3>2, CheckMoreEnd
  <2>3. g = [p \in Nat |-> g[p]]
    OBVIOUS
  <2> HIDE DEF g
  <2>4. Settled(g, 0)
    BY <2>2
  <2> QED
    BY <2>1, <2>3, <2>4
<1>3. ASSUME NEW n \in N PROVE n + 1 \in N
  <2>1. PICK g : g = [p \in Nat |-> g[p]] /\ Forward(g) /\ Settled(g, n)
    OBVIOUS
  <2> DEFINE h == CheckMore(s, g)
  <2>2. Forward(h)
    BY <2>1, CheckMoreForward
  <2>3. ASSUME NEW p \in Nat, p + (n + 1) > Len(s) PROVE h[p] = CheckMore(s, h)[p]
    <3>1. \A q \in Nat : q > p => g[q] = h[q]
      BY <1>1, <2>1, <2>3
    <3> HIDE DEF h
    <3> QED
      BY <2>1, <3>1, CheckMoreLocal DEF h
  <2>4. h = [p \in Nat |-> h[p]]
    BY DEF CheckMore
  <2> HIDE DEF h
  <2>5. Settled(h, n + 1) /\ n + 1 \in Nat
    BY <2>3
  <2> HIDE DEF Settled
  <2> QED
    BY <2>2, <2>4, <2>5
<1>4. N = Nat
  <2> HIDE DEF N
  <2>1. N \in SUBSET Nat
    BY DEF N
  <2> QED
    BY <1>2, <1>3, <2>1, SetInduction
<1>5. PICK g : g = [p \in Nat |-> g[p]] /\ Forward(g) /\ Settled(g, Len(s) + 1)
  <2> HIDE DEF Settled
  <2>1. Len(s) + 1 \in N
    BY <1>1, <1>4
  <2> QED
    BY <2>1
<1>6. g = CheckMore(s, g)
  <2>1. \A p \in Nat : g[p] = CheckMore(s, g)[p]
    BY <1>1, <1>5
  <2>2. CheckMore(s, g) = [p \in Nat |-> CheckMore(s, g)[p]]
    BY DEF CheckMore
  <2> QED
    BY <1>5, <2>1, <2>2
<1> QED
  BY <1>5, <1>6

\* And only one.
LEMMA CheckSolvedOnce ==
  ASSUME NEW s \in Seq(Bytes), NEW g, g = CheckMore(s, g), Forward(g),
         NEW h, h = CheckMore(s, h)
  PROVE  g = h
<1> DEFINE N == {n \in Nat : \A p \in Nat : p + n > Len(s) => g[p] = h[p]}
<1>1. Len(s) \in Nat /\ Len(s) + 1 \in Nat
  OBVIOUS
<1>2. 0 \in N
  <2>1. ASSUME NEW p \in Nat, p > Len(s) PROVE CheckMore(s, g)[p] = CheckMore(s, h)[p]
    <3>1. /\ CheckMore(s, g)[p] = [k \in Nat |-> IF k = 0 THEN Ok(p, <<>>) ELSE Incomplete]
          /\ CheckMore(s, h)[p] = [k \in Nat |-> IF k = 0 THEN Ok(p, <<>>) ELSE Incomplete]
      BY <2>1, CheckMoreEnd
    <3> QED
      BY <3>1
  <2> QED
    BY <2>1
<1>3. ASSUME NEW n \in N PROVE n + 1 \in N
  <2>1. ASSUME NEW p \in Nat, p + (n + 1) > Len(s) PROVE g[p] = h[p]
    <3>1. \A q \in Nat : q > p => g[q] = h[q]
      BY <1>1, <2>1
    <3>2. CheckMore(s, g)[p] = CheckMore(s, h)[p]
      BY <3>1, CheckMoreLocal
    <3> QED
      BY <3>2
  <2> QED
    BY <2>1
<1>4. N = Nat
  <2> HIDE DEF N
  <2>1. N \in SUBSET Nat
    BY DEF N
  <2> QED
    BY <1>2, <1>3, <2>1, SetInduction
<1>5. \A p \in Nat : g[p] = h[p]
  <2>1. Len(s) + 1 \in N
    BY <1>1, <1>4
  <2> QED
    BY <1>1, <2>1
<1>6. /\ CheckMore(s, g) = [p \in Nat |-> CheckMore(s, g)[p]]
      /\ CheckMore(s, h) = [p \in Nat |-> CheckMore(s, h)[p]]
  BY DEF CheckMore
<1> QED
  BY <1>5, <1>6

\* It is what Check computes.
LEMMA CheckUnfold ==
  ASSUME NEW s \in Seq(Bytes)
  PROVE  \E check : Check(s) = check[1][1] /\ check = CheckMore(s, check) /\ Forward(check)
<1>1. PICK g : g = CheckMore(s, g) /\ Forward(g)
  BY CheckSolved
<1> DEFINE check == CHOOSE c : c = CheckMore(s, c)
<1>2. check = CheckMore(s, check)
  BY <1>1
<1>3. Check(s) = check[1][1]
  BY DEF Check, CheckMore
<1> HIDE DEF check
<1>4. g = check
  BY <1>1, <1>2, CheckSolvedOnce
<1> QED
  BY <1>1, <1>3, <1>4

-------------------------------------------------------------------------------
(* The same for parse.                                                     *)

\* What parse does at a byte.
LEMMA ParseAt ==
  ASSUME NEW s, NEW p, NEW parse
  PROVE  LET r == ParseOne(s, p, parse)
             l == GetLine(s, p + 1)
             d == GetDecimal(s, p + 1)
         IN
         /\ Byte(s, p) = "end" => r = Incomplete
         /\ Byte(s, p) = "+" => r = IF l.tag # "Ok" THEN l
                  ELSE IF ToSet(l.val) \cap NotUtf8 = {} THEN Ok(l.pos, Simple(l.val)) ELSE Other
         /\ Byte(s, p) = "-" => r = IF l.tag # "Ok" THEN l
                  ELSE IF ToSet(l.val) \cap NotUtf8 = {} THEN Ok(l.pos, Error(l.val)) ELSE Other
         /\ Byte(s, p) = ":" => r = IF d.tag # "Ok" THEN d ELSE Ok(d.pos, Integer(d.val))
         /\ Byte(s, p) = "$" /\ Byte(s, p + 1) = "end" => r = Incomplete
         /\ Byte(s, p) = "$" /\ Byte(s, p + 1) = "-" =>
              r = IF l.tag # "Ok" THEN l
                  ELSE IF l.val = <<"-", "1">> THEN Ok(l.pos, Null) ELSE Other
         /\ Byte(s, p) = "$" /\ Byte(s, p + 1) \notin {"end", "-"} =>
              r = IF d.tag # "Ok" THEN d ELSE ParseBulk(s, d.pos, d.val)
         /\ Byte(s, p) = "*" =>
              r = IF d.tag # "Ok" THEN d
                  ELSE LET a == parse[d.pos][d.val]
                       IN  IF a.tag # "Ok" THEN a ELSE Ok(a.pos, Array(a.val))
         /\ Byte(s, p) \notin {"end", "+", "-", ":", "$", "*"} => r = Panic
<1> DEFINE r == ParseOne(s, p, parse)
           l == GetLine(s, p + 1)
           d == GetDecimal(s, p + 1)
<1>1. ASSUME Byte(s, p) = "+" PROVE r = IF l.tag # "Ok" THEN l
                  ELSE IF ToSet(l.val) \cap NotUtf8 = {} THEN Ok(l.pos, Simple(l.val)) ELSE Other
  BY <1>1 DEF ParseOne, Then, With, Text
<1>2. ASSUME Byte(s, p) = "-" PROVE r = IF l.tag # "Ok" THEN l
                  ELSE IF ToSet(l.val) \cap NotUtf8 = {} THEN Ok(l.pos, Error(l.val)) ELSE Other
  BY <1>2 DEF ParseOne, Then, With, Text
<1>3. ASSUME Byte(s, p) = ":" PROVE r = IF d.tag # "Ok" THEN d ELSE Ok(d.pos, Integer(d.val))
  BY <1>3 DEF ParseOne, Then, With
<1>4. ASSUME Byte(s, p) = "$", Byte(s, p + 1) = "-"
      PROVE  r = IF l.tag # "Ok" THEN l
                 ELSE IF l.val = <<"-", "1">> THEN Ok(l.pos, Null) ELSE Other
  BY <1>4 DEF ParseOne, Then, With
<1>5. ASSUME Byte(s, p) = "$", Byte(s, p + 1) \notin {"end", "-"}
      PROVE  r = IF d.tag # "Ok" THEN d ELSE ParseBulk(s, d.pos, d.val)
  BY <1>5 DEF ParseOne, Then, With
<1>6. ASSUME Byte(s, p) = "*"
      PROVE  r = IF d.tag # "Ok" THEN d
                 ELSE LET a == parse[d.pos][d.val]
                      IN  IF a.tag # "Ok" THEN a ELSE Ok(a.pos, Array(a.val))
  BY SMTT(30), <1>6 DEF ParseOne, Then, With
<1>7. /\ Byte(s, p) = "end" => r = Incomplete
      /\ Byte(s, p) = "$" /\ Byte(s, p + 1) = "end" => r = Incomplete
      /\ Byte(s, p) \notin {"end", "+", "-", ":", "$", "*"} => r = Panic
  BY DEF ParseOne
<1> QED
  BY <1>1, <1>2, <1>3, <1>4, <1>5, <1>6, <1>7

\* A bulk string is parsed, with the overflow of its length.
LEMMA BulkMoves ==
  ASSUME NEW s \in Seq(Bytes), NEW q \in Nat, NEW len \in 0 .. U64Max,
         NEW r, r = ParseBulk(s, q, len), r.tag = "Ok"
  PROVE  r.pos \in Nat /\ r.pos >= q
<1>1. U64Max \in Nat /\ Incomplete.tag # "Ok" /\ Panic.tag # "Ok"
  BY FrameAssumption DEF Incomplete, Panic
<1> DEFINE bulk == Bulk(SubSeq(s, q, q + len - 1))
           Found(n) == CASE q + n - 1 > Len(s) -> Incomplete
                         [] q + len - 1 > Len(s) -> Panic
                         [] OTHER -> Ok(q + n, bulk)
<1>2. ASSUME NEW n \in Nat, r = Found(n) PROVE r.pos \in Nat /\ r.pos >= q
  <2>1. r = Ok(q + n, bulk)
    BY <1>1, <1>2
  <2> QED
    BY <2>1 DEF Ok
<1>3. r = IF len + 2 <= U64Max THEN Found(len + 2)
          ELSE IF OverflowChecks THEN Panic ELSE Found(len + 2 - (U64Max + 1))
  BY DEF ParseBulk, WithCrLf
<1>4. CASE len + 2 <= U64Max
  <2> HIDE DEF Found
  <2>1. len + 2 \in Nat
    OBVIOUS
  <2> QED
    BY <1>2, <1>3, <1>4, <2>1
<1>5. CASE ~(len + 2 <= U64Max)
  <2>1. len + 2 - (U64Max + 1) \in Nat
    BY <1>1, <1>5
  <2> HIDE DEF Found
  <2> QED
    BY <1>1, <1>2, <1>3, <1>5, <2>1
<1> QED
  BY <1>4, <1>5

\* One frame parsed moves the cursor, if those in an array do not move it back.
LEMMA ParseMoves ==
  ASSUME NEW s \in Seq(Bytes), NEW p \in Nat, NEW g, Forward(g), ParseOne(s, p, g).tag = "Ok"
  PROVE  ParseOne(s, p, g).pos \in Nat /\ ParseOne(s, p, g).pos > p
<1> DEFINE b == Byte(s, p)
           next == Byte(s, p + 1)
           r == ParseOne(s, p, g)
           d == GetDecimal(s, p + 1)
           l == GetLine(s, p + 1)
<1>1. Incomplete.tag # "Ok" /\ Other.tag # "Ok" /\ Panic.tag # "Ok" /\ p + 1 \in Nat \ {0}
  BY DEF Incomplete, Other, Panic
<1>2. d.tag = "Ok" => d.val \in 0 .. U64Max /\ d.val \in Nat /\ d.pos \in Nat /\ d.pos > p
  BY <1>1, DecimalMoves, FrameAssumption
<1>3. l.tag = "Ok" => l.pos \in Nat /\ l.pos > p
  <2> SUFFICES ASSUME l.tag = "Ok" PROVE l.pos \in Nat /\ l.pos > p
    OBVIOUS
  <2>1. PICK i \in LineEnds(s, p + 1) : /\ l = Ok(i + 2, SubSeq(s, p + 1, i - 1))
                                        /\ i \in Nat /\ i >= p + 1
    BY <1>1, LineMoves
  <2>2. l.pos = i + 2
    BY <2>1 DEF Ok
  <2> QED
    BY <2>1, <2>2
<1>4. \A pos, val : Ok(pos, val).pos = pos
  BY DEF Ok
<1>5. CASE b \in {"+", "-"}
  <2>1. l.tag = "Ok" /\ (r = Ok(l.pos, Simple(l.val)) \/ r = Ok(l.pos, Error(l.val)))
    BY <1>1, <1>5, ParseAt
  <2> QED
    BY <1>3, <1>4, <2>1
<1>6. CASE b = ":"
  <2>1. r = IF d.tag # "Ok" THEN d ELSE Ok(d.pos, Integer(d.val))
    BY <1>6, ParseAt
  <2> QED
    BY <1>2, <1>4, <2>1
<1>7. CASE b = "$" /\ next = "-"
  <2>1. r = IF l.tag # "Ok" THEN l ELSE IF l.val = <<"-", "1">> THEN Ok(l.pos, Null) ELSE Other
    BY <1>7, ParseAt
  <2> QED
    BY <1>1, <1>3, <1>4, <2>1
<1>8. CASE b = "$" /\ next \notin {"end", "-"}
  <2>1. r = IF d.tag # "Ok" THEN d ELSE ParseBulk(s, d.pos, d.val)
    BY <1>8, ParseAt
  <2>2. d.tag = "Ok" /\ r = ParseBulk(s, d.pos, d.val)
    BY <2>1
  <2>3. PICK q, len : q = d.pos /\ len = d.val
    OBVIOUS
  <2>4. q \in Nat /\ q > p /\ len \in 0 .. U64Max /\ r = ParseBulk(s, q, len)
    BY <1>2, <2>2, <2>3
  <2> HIDE DEF r
  <2>5. r.pos \in Nat /\ r.pos >= q
    BY <2>4, BulkMoves DEF r
  <2> QED
    BY <2>4, <2>5 DEF r
<1>9. CASE b = "*"
  <2> DEFINE a == g[d.pos][d.val]
  <2>1. r = IF d.tag # "Ok" THEN d ELSE IF a.tag # "Ok" THEN a ELSE Ok(a.pos, Array(a.val))
    BY <1>9, ParseAt
  <2>2. d.tag = "Ok" /\ a.tag = "Ok" /\ r = Ok(a.pos, Array(a.val))
    BY <2>1
  <2>3. a.pos \in Nat /\ a.pos >= d.pos
    BY <1>2, <2>2 DEF Forward
  <2>4. r.pos = a.pos
    BY <2>2 DEF Ok
  <2>5. \A x, y \in Nat : x > p /\ y >= x => y > p
    OBVIOUS
  <2>6. d.pos \in Nat /\ d.pos > p
    BY <1>2, <2>2
  <2> HIDE DEF a, d
  <2>7. a.pos > p
    BY <2>3, <2>5, <2>6
  <2> HIDE DEF r
  <2>8. r.pos \in Nat /\ r.pos > p
    BY <2>3, <2>4, <2>7
  <2> QED
    BY <2>8 DEF r
<1>10. b \in {"+", "-", ":", "*"} \/ (b = "$" /\ next # "end")
  BY <1>1, ParseAt
<1> QED
  BY <1>5, <1>6, <1>7, <1>8, <1>9, <1>10

\* What is parsed from p on depends on what is parsed behind p only.
LEMMA ParseLocal ==
  ASSUME NEW s \in Seq(Bytes), NEW p \in Nat, NEW g, NEW h,
         \A q \in Nat : q > p => g[q] = h[q]
  PROVE  ParseOne(s, p, g) = ParseOne(s, p, h)
<1> DEFINE d == GetDecimal(s, p + 1)
<1>1. p + 1 \in Nat \ {0}
  OBVIOUS
<1>2. d.tag = "Ok" => g[d.pos][d.val] = h[d.pos][d.val]
  BY <1>1, DecimalMoves
<1>3. CASE Byte(s, p) = "*"
  <2>1. ParseOne(s, p, g) = IF d.tag # "Ok" THEN d ELSE LET a == g[d.pos][d.val]
                            IN  IF a.tag # "Ok" THEN a ELSE Ok(a.pos, Array(a.val))
    BY <1>3, ParseAt
  <2>2. ParseOne(s, p, h) = IF d.tag # "Ok" THEN d ELSE LET a == h[d.pos][d.val]
                            IN  IF a.tag # "Ok" THEN a ELSE Ok(a.pos, Array(a.val))
    BY <1>3, ParseAt
  <2> QED
    BY <1>2, <2>1, <2>2
<1>4. CASE Byte(s, p) # "*"
  BY <1>4 DEF ParseOne
<1> QED
  BY <1>3, <1>4

\* The answers on one more frame and the others behind it, from the answers g.
ParseMore(s, g) ==
  [p \in Nat |-> [k \in Nat |->
     IF k = 0 THEN Ok(p, <<>>)
     ELSE Then(ParseOne(s, p, g), LAMBDA r :
            Then(g[r.pos][k - 1], LAMBDA more : Ok(more.pos, <<r.val>> \o more.val)))]]

\* The answer on k frames, without the operator `?`.
LEMMA ParseMoreEntry ==
  ASSUME NEW s, NEW p \in Nat, NEW k \in Nat, NEW g
  PROVE  ParseMore(s, g)[p][k] =
           LET one == ParseOne(s, p, g)
               more == g[one.pos][k - 1]
           IN  IF k = 0 THEN Ok(p, <<>>)
               ELSE IF one.tag # "Ok" THEN one
               ELSE IF more.tag # "Ok" THEN more
               ELSE Ok(more.pos, <<one.val>> \o more.val)
<1> DEFINE one == ParseOne(s, p, g)
           more == g[one.pos][k - 1]
           Others(r) == Then(g[r.pos][k - 1], LAMBDA m : Ok(m.pos, <<r.val>> \o m.val))
<1>1. ParseMore(s, g)[p][k] = IF k = 0 THEN Ok(p, <<>>) ELSE Then(one, Others)
  BY DEF ParseMore
<1>2. Then(one, Others) = IF one.tag # "Ok" THEN one ELSE Others(one)
  <2> HIDE DEF one, Others
  <2> QED
    BY DEF Then, With
<1>3. Others(one) =
        IF more.tag # "Ok" THEN more ELSE Ok(more.pos, <<one.val>> \o more.val)
  BY DEF Then, With
<1> QED
  BY <1>1, <1>2, <1>3

\* The parses of one more frame lie ahead if those before do.
LEMMA ParseMoreForward ==
  ASSUME NEW s \in Seq(Bytes), NEW g, Forward(g)
  PROVE  Forward(ParseMore(s, g))
<1> SUFFICES ASSUME NEW p \in Nat, NEW k \in Nat, ParseMore(s, g)[p][k].tag = "Ok"
             PROVE  /\ ParseMore(s, g)[p][k].pos \in Nat
                    /\ ParseMore(s, g)[p][k].pos >= p
  BY DEF Forward
<1> DEFINE one == ParseOne(s, p, g)
           r == ParseMore(s, g)[p][k]
           more == g[one.pos][k - 1]
<1>1. r = IF k = 0 THEN Ok(p, <<>>)
          ELSE IF one.tag # "Ok" THEN one
          ELSE IF more.tag # "Ok" THEN more
          ELSE Ok(more.pos, <<one.val>> \o more.val)
  BY ParseMoreEntry
<1>2. CASE k = 0
  BY <1>1, <1>2 DEF Ok
<1>3. CASE k # 0
  <2>1. one.tag = "Ok" /\ more.tag = "Ok" /\ r.pos = more.pos /\ k - 1 \in Nat
    BY <1>1, <1>3 DEF Ok
  <2>2. one.pos \in Nat /\ one.pos > p
    BY <2>1, ParseMoves
  <2>3. r.pos \in Nat /\ r.pos >= one.pos
    BY <2>1, <2>2 DEF Forward
  <2> QED
    BY <2>2, <2>3
<1> QED
  BY <1>2, <1>3

\* The answer on k frames depends on the first and on the answers behind it.
LEMMA ParseMoreSame ==
  ASSUME NEW s, NEW p \in Nat, NEW k \in Nat, NEW g, NEW h
  PROVE  /\ ParseOne(s, p, g) = ParseOne(s, p, h)
         /\ ParseOne(s, p, g).tag = "Ok" => g[ParseOne(s, p, g).pos] = h[ParseOne(s, p, g).pos]
         => ParseMore(s, g)[p][k] = ParseMore(s, h)[p][k]
<1> DEFINE one == ParseOne(s, p, g)
           two == ParseOne(s, p, h)
           more == g[one.pos][k - 1]
           others == h[two.pos][k - 1]
<1>1. ParseMore(s, g)[p][k] =
        IF k = 0 THEN Ok(p, <<>>)
        ELSE IF one.tag # "Ok" THEN one
        ELSE IF more.tag # "Ok" THEN more
        ELSE Ok(more.pos, <<one.val>> \o more.val)
  BY ZenonT(30), ParseMoreEntry
<1>2. ParseMore(s, h)[p][k] =
        IF k = 0 THEN Ok(p, <<>>)
        ELSE IF two.tag # "Ok" THEN two
        ELSE IF others.tag # "Ok" THEN others
        ELSE Ok(others.pos, <<two.val>> \o others.val)
  BY ZenonT(30), ParseMoreEntry
<1> SUFFICES ASSUME one = two, one.tag = "Ok" => g[one.pos] = h[one.pos]
             PROVE  ParseMore(s, g)[p][k] = ParseMore(s, h)[p][k]
  OBVIOUS
<1>3. one.tag = "Ok" => more = others
  OBVIOUS
<1> HIDE DEF one, two, more, others
<1> QED
  BY <1>1, <1>2, <1>3

\* So it depends on the parses behind its beginning only.
LEMMA ParseMoreLocal ==
  ASSUME NEW s \in Seq(Bytes), NEW p \in Nat, NEW g, NEW h, Forward(g),
         \A q \in Nat : q > p => g[q] = h[q]
  PROVE  ParseMore(s, g)[p] = ParseMore(s, h)[p]
<1> DEFINE one == ParseOne(s, p, g)
<1>1. one = ParseOne(s, p, h)
  BY ParseLocal
<1>2. one.tag = "Ok" => one.pos \in Nat /\ one.pos > p
  BY ParseMoves
<1>3. ASSUME NEW k \in Nat PROVE ParseMore(s, g)[p][k] = ParseMore(s, h)[p][k]
  <2>1. one.tag = "Ok" => g[one.pos] = h[one.pos]
    BY <1>2
  <2>2. /\ ParseOne(s, p, g) = ParseOne(s, p, h)
        /\ ParseOne(s, p, g).tag = "Ok" => g[ParseOne(s, p, g).pos] = h[ParseOne(s, p, g).pos]
    BY <1>1, <2>1
  <2> HIDE DEF one
  <2> QED
    BY <2>2, ParseMoreSame
<1>4. /\ ParseMore(s, g)[p] = [j \in Nat |-> ParseMore(s, g)[p][j]]
      /\ ParseMore(s, h)[p] = [j \in Nat |-> ParseMore(s, h)[p][j]]
  BY DEF ParseMore
<1> QED
  BY <1>3, <1>4

\* Behind the end of the buffer there is nothing to parse.
LEMMA ParseMoreEnd ==
  ASSUME NEW s \in Seq(Bytes), NEW p \in Nat, p > Len(s), NEW g
  PROVE  ParseMore(s, g)[p] = [k \in Nat |-> IF k = 0 THEN Ok(p, <<>>) ELSE Incomplete]
<1>1. Byte(s, p) = "end"
  BY DEF Byte
<1>2. ParseOne(s, p, g) = Incomplete
  BY <1>1, ParseAt
<1>3. Incomplete.tag # "Ok"
  BY DEF Incomplete
<1> QED
  BY <1>2, <1>3 DEF ParseMore, Then, With

\* The recursion of parse ends: on a finite buffer its equation has a solution.
LEMMA ParseSolved ==
  ASSUME NEW s \in Seq(Bytes)
  PROVE  \E g : g = ParseMore(s, g) /\ Forward(g)
<1> DEFINE Settled(g, n) == \A p \in Nat : p + n > Len(s) => g[p] = ParseMore(s, g)[p]
           N == {n \in Nat : \E g : /\ g = [p \in Nat |-> g[p]]
                                    /\ Forward(g) /\ Settled(g, n)}
<1>1. Len(s) \in Nat /\ Len(s) + 1 \in Nat
  OBVIOUS
<1>2. 0 \in N
  <2> DEFINE g == [p \in Nat |-> [k \in Nat |-> IF k = 0 THEN Ok(p, <<>>) ELSE Incomplete]]
  <2>1. Forward(g)
    BY DEF Forward, Ok, Incomplete
  <2>2. ASSUME NEW p \in Nat, p + 0 > Len(s) PROVE g[p] = ParseMore(s, g)[p]
    <3>1. p > Len(s)
      BY <1>1, <2>2
    <3>2. g[p] = [k \in Nat |-> IF k = 0 THEN Ok(p, <<>>) ELSE Incomplete]
      OBVIOUS
    <3> HIDE DEF g
    <3> QED
      BY <3>1, <3>2, ParseMoreEnd
  <2>3. g = [p \in Nat |-> g[p]]
    OBVIOUS
  <2> HIDE DEF g
  <2>4. Settled(g, 0)
    BY <2>2
  <2> QED
    BY <2>1, <2>3, <2>4
<1>3. ASSUME NEW n \in N PROVE n + 1 \in N
  <2>1. PICK g : g = [p \in Nat |-> g[p]] /\ Forward(g) /\ Settled(g, n)
    OBVIOUS
  <2> DEFINE h == ParseMore(s, g)
  <2>2. Forward(h)
    BY <2>1, ParseMoreForward
  <2>3. ASSUME NEW p \in Nat, p + (n + 1) > Len(s) PROVE h[p] = ParseMore(s, h)[p]
    <3>1. \A q \in Nat : q > p => g[q] = h[q]
      BY <1>1, <2>1, <2>3
    <3> HIDE DEF h
    <3> QED
      BY <2>1, <3>1, ParseMoreLocal DEF h
  <2>4. h = [p \in Nat |-> h[p]]
    BY DEF ParseMore
  <2> HIDE DEF h
  <2>5. Settled(h, n + 1) /\ n + 1 \in Nat
    BY <2>3
  <2> HIDE DEF Settled
  <2> QED
    BY <2>2, <2>4, <2>5
<1>4. N = Nat
  <2> HIDE DEF N
  <2>1. N \in SUBSET Nat
    BY DEF N
  <2> QED
    BY <1>2, <1>3, <2>1, SetInduction
<1>5. PICK g : g = [p \in Nat |-> g[p]] /\ Forward(g) /\ Settled(g, Len(s) + 1)
  <2> HIDE DEF Settled
  <2>1. Len(s) + 1 \in N
    BY <1>1, <1>4
  <2> QED
    BY <2>1
<1>6. g = ParseMore(s, g)
  <2>1. \A p \in Nat : g[p] = ParseMore(s, g)[p]
    BY <1>1, <1>5
  <2>2. ParseMore(s, g) = [p \in Nat |-> ParseMore(s, g)[p]]
    BY DEF ParseMore
  <2> QED
    BY <1>5, <2>1, <2>2
<1> QED
  BY <1>5, <1>6

\* And only one.
LEMMA ParseSolvedOnce ==
  ASSUME NEW s \in Seq(Bytes), NEW g, g = ParseMore(s, g), Forward(g),
         NEW h, h = ParseMore(s, h)
  PROVE  g = h
<1> DEFINE N == {n \in Nat : \A p \in Nat : p + n > Len(s) => g[p] = h[p]}
<1>1. Len(s) \in Nat /\ Len(s) + 1 \in Nat
  OBVIOUS
<1>2. 0 \in N
  <2>1. ASSUME NEW p \in Nat, p > Len(s) PROVE ParseMore(s, g)[p] = ParseMore(s, h)[p]
    <3>1. /\ ParseMore(s, g)[p] = [k \in Nat |-> IF k = 0 THEN Ok(p, <<>>) ELSE Incomplete]
          /\ ParseMore(s, h)[p] = [k \in Nat |-> IF k = 0 THEN Ok(p, <<>>) ELSE Incomplete]
      BY <2>1, ParseMoreEnd
    <3> QED
      BY <3>1
  <2> QED
    BY <2>1
<1>3. ASSUME NEW n \in N PROVE n + 1 \in N
  <2>1. ASSUME NEW p \in Nat, p + (n + 1) > Len(s) PROVE g[p] = h[p]
    <3>1. \A q \in Nat : q > p => g[q] = h[q]
      BY <1>1, <2>1
    <3>2. ParseMore(s, g)[p] = ParseMore(s, h)[p]
      BY <3>1, ParseMoreLocal
    <3> QED
      BY <3>2
  <2> QED
    BY <2>1
<1>4. N = Nat
  <2> HIDE DEF N
  <2>1. N \in SUBSET Nat
    BY DEF N
  <2> QED
    BY <1>2, <1>3, <2>1, SetInduction
<1>5. \A p \in Nat : g[p] = h[p]
  <2>1. Len(s) + 1 \in N
    BY <1>1, <1>4
  <2> QED
    BY <1>1, <2>1
<1>6. /\ ParseMore(s, g) = [p \in Nat |-> ParseMore(s, g)[p]]
      /\ ParseMore(s, h) = [p \in Nat |-> ParseMore(s, h)[p]]
  BY DEF ParseMore
<1> QED
  BY <1>5, <1>6

\* It is what Parse computes, of one frame.
LEMMA ParseUnfold ==
  ASSUME NEW s \in Seq(Bytes)
  PROVE  \E parse : /\ Parse(s) = Then(parse[1][1], LAMBDA r : Ok(r.pos, r.val[1]))
                    /\ parse = ParseMore(s, parse) /\ Forward(parse)
<1>1. PICK g : g = ParseMore(s, g) /\ Forward(g)
  BY ParseSolved
<1> DEFINE parse == CHOOSE c : c = ParseMore(s, c)
<1>2. parse = ParseMore(s, parse)
  BY <1>1
<1>3. Parse(s) = Then(parse[1][1], LAMBDA r : Ok(r.pos, r.val[1]))
  BY DEF Parse, ParseMore
<1> HIDE DEF parse
<1>4. g = parse
  BY <1>1, <1>2, ParseSolvedOnce
<1> QED
  BY <1>1, <1>3, <1>4

-------------------------------------------------------------------------------
(* Sequences of sequences.                                                 *)

\* cat[n] is what the first n sequences are together.
Concatenates(cat, seqs) ==
  cat[0] = <<>> /\ \A n \in 1 .. Len(seqs) : cat[n] = cat[n - 1] \o seqs[n]

\* FlattenSeq concatenates, the last sequence last.
LEMMA FlattenUnfold ==
  ASSUME NEW V, NEW seqs \in Seq(Seq(V))
  PROVE  \E cat \in [0 .. Len(seqs) -> Seq(V)] :
           FlattenSeq(seqs) = cat[Len(seqs)] /\ Concatenates(cat, seqs)
<1> DEFINE step == [n \in Nat |-> [t \in Seq(V) |->
                      IF n + 1 \in 1 .. Len(seqs) THEN t \o seqs[n + 1] ELSE t]]
<1>1. Len(seqs) \in Nat /\ <<>> \in Seq(V) /\ \A n \in 1 .. Len(seqs) : seqs[n] \in Seq(V)
  OBVIOUS
<1>2. step \in [Nat -> [Seq(V) -> Seq(V)]]
  BY <1>1
<1>3. PICK f \in [Nat -> Seq(V)] : Iterates(f, <<>>, step)
  <2> HIDE DEF step
  <2> QED
    BY <1>1, <1>2, PrimitiveRecursion
<1>4. f[0] = <<>>
  BY <1>3 DEF Iterates
<1>5. ASSUME NEW n \in 1 .. Len(seqs) PROVE f[n] = f[n - 1] \o seqs[n]
  <2>1. n - 1 \in Nat /\ (n - 1) + 1 = n
    BY <1>1
  <2>2. f[n] = step[n - 1][f[n - 1]]
    BY <1>3, <2>1 DEF Iterates
  <2> QED
    BY <2>1, <2>2
<1> HIDE DEF step
<1>10. Len(seqs) # 0 => f[1] = seqs[1]
  <2> SUFFICES ASSUME Len(seqs) # 0 PROVE f[1] = seqs[1]
    OBVIOUS
  <2>1. 1 \in 1 .. Len(seqs)
    BY <1>1
  <2>2. f[1] = f[1 - 1] \o seqs[1] /\ seqs[1] \in Seq(V)
    <3> HIDE <1>4
    <3> QED
      BY <1>1, <1>5, <2>1
  <2>3. 1 - 1 = 0
    OBVIOUS
  <2>4. <<>> \o seqs[1] = seqs[1]
    BY <2>2, ConcatEmptySeq
  <2> QED
    BY <1>4, <2>2, <2>3, <2>4
<1> DEFINE cat == [n \in 0 .. Len(seqs) |-> f[n]]
<1>6. cat \in [0 .. Len(seqs) -> Seq(V)]
  BY <1>1
<1>7. Concatenates(cat, seqs)
  <2>1. cat[0] = <<>> /\ \A n \in 1 .. Len(seqs) : cat[n] = f[n] /\ cat[n - 1] = f[n - 1]
    BY <1>1, <1>4
  <2> HIDE DEF cat
  <2> QED
    BY <1>5, <2>1 DEF Concatenates
<1>8. FlattenSeq(seqs) = f[Len(seqs)]
  <2>1. CASE Len(seqs) = 0
    <3>1. seqs = <<>>
      BY <2>1
    <3> QED
      BY <1>4, <2>1, <3>1 DEF FlattenSeq
  <2>2. CASE Len(seqs) # 0
    <3> DEFINE Def(h) == [i \in 1 .. Len(seqs) |-> IF i = 1 THEN seqs[i] ELSE h[i - 1] \o seqs[i]]
               g == [i \in 1 .. Len(seqs) |-> f[i]]
               flatten == CHOOSE h : h = Def(h)
    <3>1. ASSUME NEW i \in 1 .. Len(seqs) PROVE g[i] = Def(g)[i]
      <4>1. CASE i = 1
        BY <1>1, <1>10, <2>2, <4>1
      <4>2. CASE i # 1
        <5>1. i - 1 \in 1 .. Len(seqs)
          BY <1>1, <4>2
        <5> QED
          BY <1>5, <4>2, <5>1
      <4> QED
        BY <4>1, <4>2
    <3>2. g = Def(g)
      BY <3>1
    <3>3. flatten = Def(flatten)
      <4> HIDE DEF Def, g
      <4> QED
        BY <3>2
    <3>4. FlattenSeq(seqs) = flatten[Len(seqs)]
      BY <2>2 DEF FlattenSeq
    <3> HIDE DEF flatten
    <3> DEFINE G == {n \in Nat : n \in 1 .. Len(seqs) => flatten[n] = f[n]}
    <3>5. 0 \in G
      BY <1>1
    <3>6. ASSUME NEW n \in G PROVE n + 1 \in G
      <4> SUFFICES ASSUME n + 1 \in 1 .. Len(seqs) PROVE flatten[n + 1] = f[n + 1]
        OBVIOUS
      <4>1. CASE n = 0
        <5>1. flatten[1] = seqs[1]
          BY <3>3, <4>1
        <5> QED
          BY <1>10, <2>2, <4>1, <5>1
      <4>2. CASE n # 0
        <5>1. n \in 1 .. Len(seqs) /\ (n + 1) - 1 = n /\ n + 1 # 1
          BY <1>1, <4>2
        <5>2. flatten[n + 1] = flatten[n] \o seqs[n + 1]
          BY <3>3, <5>1
        <5>3. f[n + 1] = f[n] \o seqs[n + 1]
          BY <1>5, <5>1
        <5> QED
          BY <5>1, <5>2, <5>3
      <4> QED
        BY <4>1, <4>2
    <3> HIDE DEF G, Def
    <3>7. G = Nat
      BY <3>5, <3>6, SetInduction DEF G
    <3>8. Len(seqs) \in G /\ Len(seqs) \in 1 .. Len(seqs)
      BY <1>1, <2>2, <3>7
    <3>9. flatten[Len(seqs)] = f[Len(seqs)]
      BY <3>8 DEF G
    <3> QED
      BY <3>4, <3>9
  <2> QED
    BY <2>1, <2>2
<1>9. cat[Len(seqs)] = f[Len(seqs)]
  BY <1>1
<1> HIDE DEF cat
<1> QED
  BY <1>6, <1>7, <1>8, <1>9

\* More sequences are no shorter.
LEMMA CatGrows ==
  ASSUME NEW V, NEW seqs \in Seq(Seq(V)), NEW cat \in [0 .. Len(seqs) -> Seq(V)],
         Concatenates(cat, seqs), NEW m \in 0 .. Len(seqs)
  PROVE  \A n \in m .. Len(seqs) : Len(cat[m]) <= Len(cat[n])
<1> DEFINE G == {n \in Nat : n \in m .. Len(seqs) => Len(cat[m]) <= Len(cat[n])}
<1>1. /\ Len(seqs) \in Nat /\ \A n \in 0 .. Len(seqs) : cat[n] \in Seq(V) /\ Len(cat[n]) \in Nat
      /\ \A n \in 1 .. Len(seqs) : seqs[n] \in Seq(V)
  OBVIOUS
<1>2. 0 \in G
  BY <1>1
<1>3. ASSUME NEW n \in G PROVE n + 1 \in G
  <2> SUFFICES ASSUME n + 1 \in m .. Len(seqs) PROVE Len(cat[m]) <= Len(cat[n + 1])
    OBVIOUS
  <2>1. CASE n + 1 = m
    BY <1>1, <2>1
  <2>2. CASE n + 1 # m
    <3>1. n \in m .. Len(seqs) /\ n + 1 \in 1 .. Len(seqs) /\ (n + 1) - 1 = n
      BY <1>1, <2>2
    <3>5. n \in 0 .. Len(seqs)
      BY <1>1, <3>1
    <3>6. cat[n] \in Seq(V) /\ seqs[n + 1] \in Seq(V)
      BY <1>1, <3>1, <3>5
    <3>7. cat[n + 1] = cat[(n + 1) - 1] \o seqs[n + 1]
      BY <3>1 DEF Concatenates
    <3>2. cat[n + 1] = cat[n] \o seqs[n + 1] /\ cat[n] \in Seq(V) /\ seqs[n + 1] \in Seq(V)
      BY <3>1, <3>6, <3>7
    <3>3. Len(cat[n + 1]) = Len(cat[n]) + Len(seqs[n + 1]) /\ Len(seqs[n + 1]) \in Nat
      BY <3>2
    <3>4. Len(cat[m]) <= Len(cat[n])
      BY <3>1
    <3> QED
      BY <1>1, <3>1, <3>3, <3>4
  <2> QED
    BY <2>1, <2>2
<1> HIDE DEF G
<1>4. G = Nat
  BY <1>2, <1>3, SetInduction DEF G
<1>5. m .. Len(seqs) \subseteq G
  BY <1>1, <1>4
<1> QED
  BY <1>5 DEF G

\* Where the sequences together are, each is.
LEMMA CatParts ==
  ASSUME NEW V, NEW seqs \in Seq(Seq(V)), NEW cat \in [0 .. Len(seqs) -> Seq(V)],
         Concatenates(cat, seqs), NEW s \in Seq(V), NEW q \in Nat, At(s, q, cat[Len(seqs)])
  PROVE  \A n \in 1 .. Len(seqs) : At(s, q + Len(cat[n - 1]), seqs[n])
<1> DEFINE G == {m \in Nat : m <= Len(seqs) => At(s, q, cat[Len(seqs) - m])}
<1>1. Len(seqs) \in Nat /\ \A n \in 1 .. Len(seqs) : seqs[n] \in Seq(V) /\ cat[n - 1] \in Seq(V)
  <2>1. Len(seqs) \in Nat /\ \A n \in 1 .. Len(seqs) : seqs[n] \in Seq(V)
    OBVIOUS
  <2>2. \A n \in 1 .. Len(seqs) : n - 1 \in 0 .. Len(seqs)
    BY <2>1
  <2> QED
    BY <2>1, <2>2
<1>2. ASSUME NEW n \in 1 .. Len(seqs), At(s, q, cat[n])
      PROVE  At(s, q, cat[n - 1]) /\ At(s, q + Len(cat[n - 1]), seqs[n])
  <2>1. cat[n] = cat[n - 1] \o seqs[n] /\ cat[n - 1] \in Seq(V) /\ seqs[n] \in Seq(V)
    BY <1>1 DEF Concatenates
  <2> QED
    BY <1>2, <2>1, AtParts
<1>3. 0 \in G
  BY <1>1
<1>4. ASSUME NEW m \in G PROVE m + 1 \in G
  <2> SUFFICES ASSUME m + 1 <= Len(seqs) PROVE At(s, q, cat[Len(seqs) - (m + 1)])
    OBVIOUS
  <2>1. Len(seqs) - m \in 1 .. Len(seqs) /\ (Len(seqs) - m) - 1 = Len(seqs) - (m + 1)
    BY <1>1
  <2>2. At(s, q, cat[Len(seqs) - m])
    BY <1>1
  <2> HIDE DEF G
  <2> QED
    BY <1>2, <2>1, <2>2
<1> HIDE DEF G
<1>5. G = Nat
  BY <1>3, <1>4, SetInduction DEF G
<1>6. ASSUME NEW n \in 1 .. Len(seqs) PROVE At(s, q + Len(cat[n - 1]), seqs[n])
  <2>1. Len(seqs) - n \in G /\ Len(seqs) - n <= Len(seqs) /\ Len(seqs) - (Len(seqs) - n) = n
    BY <1>1, <1>5
  <2>2. At(s, q, cat[n])
    BY <2>1 DEF G
  <2> QED
    BY <1>2, <2>2
<1> QED
  BY <1>6

-------------------------------------------------------------------------------
(* Arrays of literal frames.                                               *)

\* check and parse on no frame, on a frame and others, on a frame that fails.
Steps(s, check) ==
  \A p, k \in Nat :
    /\ check[p][0] = Ok(p, <<>>)
    /\ CheckOne(s, p, check).tag = "Ok" =>
         check[p][k + 1] = check[CheckOne(s, p, check).pos][k]
    /\ CheckOne(s, p, check).tag # "Ok" => check[p][k + 1] = CheckOne(s, p, check)

Gathers(s, parse) ==
  \A p, k \in Nat :
    /\ parse[p][0] = Ok(p, <<>>)
    /\ LET one == ParseOne(s, p, parse)
           more == parse[one.pos][k]
       IN  one.tag = "Ok" /\ more.tag = "Ok" =>
             parse[p][k + 1] = Ok(more.pos, <<one.val>> \o more.val)

\* The checks of a buffer take such steps.
LEMMA CheckSteps ==
  ASSUME NEW s, NEW g
  PROVE  g = CheckMore(s, g) => Steps(s, g)
<1>1. ASSUME NEW p \in Nat, NEW k \in Nat
      PROVE  CheckMore(s, g)[p][k] =
               IF k = 0 THEN Ok(p, <<>>)
               ELSE IF CheckOne(s, p, g).tag = "Ok" THEN g[CheckOne(s, p, g).pos][k - 1]
               ELSE CheckOne(s, p, g)
  BY DEF CheckMore, Then, With
<1>2. ASSUME NEW p \in Nat, NEW k \in Nat
      PROVE  /\ CheckMore(s, g)[p][0] = Ok(p, <<>>)
             /\ CheckMore(s, g)[p][k + 1] =
                  IF CheckOne(s, p, g).tag = "Ok" THEN g[CheckOne(s, p, g).pos][k]
                  ELSE CheckOne(s, p, g)
  <2>1. k + 1 \in Nat /\ k + 1 # 0 /\ (k + 1) - 1 = k /\ 0 \in Nat
    OBVIOUS
  <2> QED
    BY <1>1, <2>1
<1> SUFFICES ASSUME g = CheckMore(s, g) PROVE Steps(s, g)
  OBVIOUS
<1> QED
  BY <1>2 DEF Steps

\* The parses of a buffer gather the frames so.
LEMMA ParseGathers ==
  ASSUME NEW s, NEW g
  PROVE  g = ParseMore(s, g) => Gathers(s, g)
<1>1. ASSUME NEW p \in Nat, NEW j \in Nat, NEW one, NEW more
      PROVE  one = ParseOne(s, p, g) /\ more = g[one.pos][j - 1]
             => ParseMore(s, g)[p][j] =
                  IF j = 0 THEN Ok(p, <<>>)
                  ELSE IF one.tag # "Ok" THEN one
                  ELSE IF more.tag # "Ok" THEN more
                  ELSE Ok(more.pos, <<one.val>> \o more.val)
  <2> DEFINE first == ParseOne(s, p, g)
             rest == g[first.pos][j - 1]
  <2>1. ParseMore(s, g)[p][j] =
          IF j = 0 THEN Ok(p, <<>>)
          ELSE IF first.tag # "Ok" THEN first
          ELSE IF rest.tag # "Ok" THEN rest
          ELSE Ok(rest.pos, <<first.val>> \o rest.val)
    BY ZenonT(30), ParseMoreEntry
  <2> HIDE DEF first
  <2> QED
    BY <2>1 DEF first
<1>2. ASSUME NEW p \in Nat, NEW k \in Nat, NEW one, NEW more
      PROVE  one = ParseOne(s, p, g) /\ more = g[one.pos][k]
             => /\ ParseMore(s, g)[p][0] = Ok(p, <<>>)
                /\ one.tag = "Ok" /\ more.tag = "Ok" =>
                     ParseMore(s, g)[p][k + 1] = Ok(more.pos, <<one.val>> \o more.val)
  <2>1. k + 1 \in Nat /\ k + 1 # 0 /\ (k + 1) - 1 = k /\ 0 \in Nat
    OBVIOUS
  <2>2. ParseMore(s, g)[p][0] = Ok(p, <<>>)
    BY <2>1 DEF ParseMore
  <2>3. one = ParseOne(s, p, g) /\ more = g[one.pos][(k + 1) - 1]
        => ParseMore(s, g)[p][k + 1] =
             IF k + 1 = 0 THEN Ok(p, <<>>)
             ELSE IF one.tag # "Ok" THEN one
             ELSE IF more.tag # "Ok" THEN more
             ELSE Ok(more.pos, <<one.val>> \o more.val)
    BY <1>1, <2>1
  <2> QED
    BY <2>1, <2>2, <2>3
<1> SUFFICES ASSUME g = ParseMore(s, g) PROVE Gathers(s, g)
  OBVIOUS
<1> QED
  BY <1>2 DEF Gathers

\* The bytes of a row of literal frames.
LEMMA RowEncoding ==
  ASSUME Marks \subseteq Bytes, NEW V, NEW items \in Seq(V),
         \A i \in DOMAIN items : IsLiteral(items[i])
  PROVE  LET all == FlattenSeq([i \in DOMAIN items |-> EncodeValue(items[i])])
         IN  all \in Seq(Bytes) /\ Len(all) \in Nat
<1> DEFINE seqs == [i \in DOMAIN items |-> EncodeValue(items[i])]
<1>1. DOMAIN items = 1 .. Len(items) /\ Len(items) \in Nat
  OBVIOUS
<1>2. \A i \in 1 .. Len(items) : EncodeValue(items[i]) \in Seq(Bytes)
  BY <1>1, LiteralEncoding
<1>3. seqs \in Seq(Seq(Bytes)) /\ Len(seqs) \in Nat
  BY <1>1, <1>2
<1> HIDE DEF seqs
<1>4. PICK cat \in [0 .. Len(seqs) -> Seq(Bytes)] : FlattenSeq(seqs) = cat[Len(seqs)]
  BY <1>3, FlattenUnfold
<1>5. FlattenSeq(seqs) \in Seq(Bytes)
  BY <1>3, <1>4
<1>6. \A u \in Seq(Bytes) : Len(u) \in Nat
  OBVIOUS
<1> QED
  BY <1>5, <1>6 DEF seqs

\* Of k frames m are left, and m + 1 with the one before them.
LEMMA Countdown ==
  ASSUME NEW k \in Nat, NEW m \in Nat, m + 1 <= k
  PROVE  /\ k - m \in 1 .. k /\ (k - m) - 1 = k - (m + 1)
         /\ (k - m) - 1 \in 0 .. k /\ k - m \in 0 .. k
OBVIOUS

\* A row of literal frames: all are decoded, or check waits for the first
\* that is not complete.
LEMMA ItemsDecoded ==
  ASSUME Marks \subseteq Bytes, NEW s \in Seq(Bytes), NEW q \in Nat \ {0}, q <= Len(s) + 1,
         NEW V, NEW items \in Seq(V), \A i \in DOMAIN items : IsLiteral(items[i]),
         NEW all, all = FlattenSeq([i \in DOMAIN items |-> EncodeValue(items[i])]),
         At(s, q, all), NEW check, Steps(s, check), NEW parse, Gathers(s, parse)
  PROVE  /\ all \in Seq(Bytes)
         /\ IF q + Len(all) <= Len(s) + 1
            THEN /\ check[q][Len(items)].tag = "Ok" /\ check[q][Len(items)].pos = q + Len(all)
                 /\ parse[q][Len(items)] = Ok(q + Len(all), items)
            ELSE check[q][Len(items)] = Incomplete
<1> DEFINE k == Len(items)
           seqs == [i \in DOMAIN items |-> EncodeValue(items[i])]
<1>1. k \in Nat /\ DOMAIN items = 1 .. k /\ Len(s) \in Nat
  OBVIOUS
<1>2. \A i \in 1 .. k : EncodeValue(items[i]) \in Seq(Bytes)
  BY <1>1, LiteralEncoding
<1>3. seqs \in Seq(Seq(Bytes)) /\ Len(seqs) = k /\ \A i \in 1 .. k : seqs[i] = EncodeValue(items[i])
  BY <1>1, <1>2
<1> HIDE DEF seqs
<1>4. PICK cat \in [0 .. k -> Seq(Bytes)] : all = cat[k] /\ Concatenates(cat, seqs)
  <2>1. all = FlattenSeq(seqs)
    BY DEF seqs
  <2> QED
    BY <1>3, <2>1, FlattenUnfold
<1>5. all \in Seq(Bytes) /\ Len(all) \in Nat
  BY <1>1, <1>4
<1>6. \A n \in 1 .. k : At(s, q + Len(cat[n - 1]), EncodeValue(items[n]))
  <2>1. \A n \in 1 .. Len(seqs) : At(s, q + Len(cat[n - 1]), seqs[n])
    BY <1>3, <1>4, CatParts
  <2> QED
    BY <1>3, <2>1
<1>7. \A n \in 0 .. k : Len(cat[n]) \in Nat /\ Len(cat[n]) <= Len(all)
  <2>1. ASSUME NEW n \in 0 .. k PROVE Len(cat[n]) \in Nat /\ Len(cat[n]) <= Len(all)
    <3>1. \A m \in n .. Len(seqs) : Len(cat[n]) <= Len(cat[m])
      BY <1>3, <1>4, CatGrows
    <3> QED
      BY <1>1, <1>3, <1>4, <3>1
  <2> QED
    BY <2>1
<1>8. \A n \in 1 .. k : Len(cat[n]) = Len(cat[n - 1]) + Len(EncodeValue(items[n]))
  <2>1. ASSUME NEW n \in 1 .. k
        PROVE  Len(cat[n]) = Len(cat[n - 1]) + Len(EncodeValue(items[n]))
    <3>1. n - 1 \in 0 .. k
      BY <1>1
    <3>2. cat[n] = cat[n - 1] \o EncodeValue(items[n])
      BY <1>3, <1>4 DEF Concatenates
    <3>3. cat[n - 1] \in Seq(Bytes) /\ EncodeValue(items[n]) \in Seq(Bytes)
      BY <1>2, <3>1
    <3> QED
      BY <3>2, <3>3
  <2> QED
    BY <2>1
<1>9. cat[0] = <<>> /\ Len(cat[0]) = 0
  BY <1>4 DEF Concatenates
<1> DEFINE end == q + Len(all)
           from(m) == q + Len(cat[k - m])
           Good(m) == IF end <= Len(s) + 1
                      THEN /\ check[from(m)][m].tag = "Ok" /\ check[from(m)][m].pos = end
                           /\ parse[from(m)][m] = Ok(end, SubSeq(items, k - m + 1, k))
                      ELSE check[from(m)][m] = Incomplete
           G == {m \in Nat : m <= k /\ from(m) <= Len(s) + 1 => Good(m)}
<1>10. 0 \in G
  <2>1. from(0) = end /\ end \in Nat
    BY <1>1, <1>4, <1>5
  <2>2. check[end][0] = Ok(end, <<>>) /\ parse[end][0] = Ok(end, <<>>)
    BY <2>1 DEF Steps, Gathers
  <2>3. check[end][0].tag = "Ok" /\ check[end][0].pos = end
    BY <2>2 DEF Ok
  <2>4. SubSeq(items, k - 0 + 1, k) = <<>>
    BY <1>1
  <2> HIDE DEF end
  <2> QED
    BY <2>1, <2>2, <2>3, <2>4
<1>11. ASSUME NEW m \in G PROVE m + 1 \in G
  <2>1. m \in Nat /\ m + 1 \in Nat /\ (m <= k /\ from(m) <= Len(s) + 1 => Good(m))
    OBVIOUS
  <2> SUFFICES ASSUME m + 1 <= k, from(m + 1) <= Len(s) + 1 PROVE Good(m + 1)
    <3> HIDE DEF from, Good
    <3> QED
      BY <2>1
  <2> DEFINE n == k - m
             f == items[n]
             p == from(m + 1)
             r == from(m)
  <2>2. n \in 1 .. k /\ n - 1 = k - (m + 1) /\ n - 1 \in 0 .. k /\ n \in 0 .. k
    <3> HIDE DEF from, Good, G
    <3> QED
      BY <1>1, <2>1, Countdown
  <2>3. p = q + Len(cat[n - 1]) /\ p \in Nat \ {0} /\ p <= Len(s) + 1 /\ r = q + Len(cat[n])
    BY <1>7, <2>2
  <2>4. r = p + Len(EncodeValue(f)) /\ r \in Nat /\ r <= end /\ end \in Nat
    <3>1. Len(cat[n]) = Len(cat[n - 1]) + Len(EncodeValue(f))
      BY <1>8, <2>2
    <3>2. Len(cat[n - 1]) \in Nat /\ Len(cat[n]) \in Nat /\ Len(cat[n]) <= Len(all)
      BY <1>7, <2>2
    <3>3. \A a, b, c, d \in Nat : c = a + b /\ c <= d =>
            q + c = (q + a) + b /\ q + c \in Nat /\ q + c <= q + d /\ q + d \in Nat
      OBVIOUS
    <3>4. Len(EncodeValue(f)) \in Nat
      BY <1>2, <2>2
    <3> HIDE DEF n, f, p, r, from
    <3> QED
      BY <1>5, <2>3, <3>1, <3>2, <3>3, <3>4
  <2>5. IsLiteral(f) /\ At(s, p, EncodeValue(f))
    <3>1. IsLiteral(items[n]) /\ At(s, q + Len(cat[n - 1]), EncodeValue(items[n]))
      <4> HIDE DEF from, Good, G, end
      <4> QED
        BY <1>1, <1>6, <2>2
    <3> HIDE DEF n, from, Good, G, end, p
    <3> QED
      BY <2>3, <3>1
  <2>6. <<f>> \o SubSeq(items, k - m + 1, k) = SubSeq(items, k - (m + 1) + 1, k)
    <3>1. SubSeq(items, n, k) = <<items[n]>> \o SubSeq(items, n + 1, k)
      BY SMTT(30), <2>2, SubSeqRecursiveFirst
    <3>2. n + 1 = k - m + 1 /\ n = k - (m + 1) + 1
      BY <1>1, <2>1
    <3> QED
      BY <3>1, <3>2
  <2> DEFINE done == SubSeq(items, k - m + 1, k)
             more == SubSeq(items, k - (m + 1) + 1, k)
  <2>7. r <= Len(s) + 1 =>
          IF end <= Len(s) + 1
          THEN check[r][m].tag = "Ok" /\ check[r][m].pos = end /\ parse[r][m] = Ok(end, done)
          ELSE check[r][m] = Incomplete
    BY <1>1, <2>1
  <2> SUFFICES IF end <= Len(s) + 1
               THEN /\ check[p][m + 1].tag = "Ok" /\ check[p][m + 1].pos = end
                    /\ parse[p][m + 1] = Ok(end, more)
               ELSE check[p][m + 1] = Incomplete
    OBVIOUS
  <2>8. <<f>> \o done = more
    BY <2>6
  <2> HIDE DEF n, f, p, r, from, Good, G, end, done, more
  <2>9. IF r <= Len(s) + 1
        THEN /\ CheckOne(s, p, check).tag = "Ok" /\ CheckOne(s, p, check).pos = r
             /\ ParseOne(s, p, parse) = Ok(r, f)
        ELSE CheckOne(s, p, check) = Incomplete
    <3>1. \A c : IF p + Len(EncodeValue(f)) <= Len(s) + 1
                 THEN /\ CheckOne(s, p, c).tag = "Ok" /\ CheckOne(s, p, c).pos = p + Len(EncodeValue(f))
                      /\ ParseOne(s, p, c) = Ok(p + Len(EncodeValue(f)), f)
                 ELSE CheckOne(s, p, c) = Incomplete
      BY <2>3, <2>5, LiteralDecoded
    <3> QED
      BY <2>4, <3>1
  <2>10. CASE ~(r <= Len(s) + 1)
    <3>1. ~(end <= Len(s) + 1)
      BY <1>1, <2>4, <2>10
    <3>2. CheckOne(s, p, check) = Incomplete /\ Incomplete.tag # "Ok"
      BY <2>9, <2>10 DEF Incomplete
    <3>3. check[p][m + 1] = Incomplete
      BY <2>1, <2>3, <3>2 DEF Steps
    <3> QED
      BY <3>1, <3>3
  <2>11. CASE r <= Len(s) + 1
    <3>4. CheckOne(s, p, check).tag = "Ok" /\ CheckOne(s, p, check).pos = r
      BY <2>9, <2>11
    <3>5. check[p][m + 1] = check[CheckOne(s, p, check).pos][m]
      BY <2>1, <2>3, <3>4 DEF Steps
    <3>1. check[p][m + 1] = check[r][m]
      BY <3>4, <3>5
    <3>2. CASE ~(end <= Len(s) + 1)
      BY <2>7, <2>11, <3>1, <3>2
    <3>3. CASE end <= Len(s) + 1
      <4>1. parse[r][m] = Ok(end, done) /\ ParseOne(s, p, parse) = Ok(r, f)
        BY <2>7, <2>9, <2>11, <3>3
      <4>2. /\ Ok(end, done).tag = "Ok" /\ Ok(end, done).pos = end /\ Ok(end, done).val = done
            /\ Ok(r, f).tag = "Ok" /\ Ok(r, f).pos = r /\ Ok(r, f).val = f
        BY DEF Ok
      <4> DEFINE one == ParseOne(s, p, parse)
                 rest == parse[one.pos][m]
      <4>4. one.tag = "Ok" /\ one.val = f /\ one.pos = r
        BY <4>1, <4>2
      <4>5. rest.tag = "Ok" /\ rest.pos = end /\ rest.val = done
        BY <4>1, <4>2, <4>4
      <4>6. parse[p][m + 1] = Ok(rest.pos, <<one.val>> \o rest.val)
        BY <2>1, <2>3, <4>4, <4>5 DEF Gathers
      <4>3. parse[p][m + 1] = Ok(end, <<f>> \o done)
        BY <4>4, <4>5, <4>6
      <4> QED
        BY <2>7, <2>8, <2>11, <3>1, <3>3, <4>3
    <3> QED
      BY <3>2, <3>3
  <2> QED
    BY <2>10, <2>11
<1> HIDE DEF G
<1>12. G = Nat
  BY <1>10, <1>11, SetInduction DEF G
<1>13. from(k) = q /\ k - k + 1 = 1 /\ k <= k
  BY <1>1, <1>9
<1>14. Good(k)
  <2>1. k \in G
    BY <1>1, <1>12
  <2> QED
    BY <1>13, <2>1 DEF G
<1>15. SubSeq(items, 1, k) = items
  BY SubSeqFull
<1> QED
  BY <1>5, <1>13, <1>14, <1>15

\* An array: its length, then its frames.
LEMMA ArrayDecoded ==
  ASSUME Marks \subseteq Bytes, NEW s \in Seq(Bytes), NEW check, Steps(s, check),
         NEW parse, Gathers(s, parse),
         NEW f, IsWritable(f), f.type = "Array", At(s, 1, Encode(f))
  PROVE  /\ Encode(f) \in Seq(Bytes) /\ Len(Encode(f)) > 0
         /\ IF Len(Encode(f)) <= Len(s)
            THEN /\ CheckOne(s, 1, check).tag = "Ok" /\ CheckOne(s, 1, check).pos = Len(Encode(f)) + 1
                 /\ ParseOne(s, 1, parse) = Ok(Len(Encode(f)) + 1, f)
            ELSE CheckOne(s, 1, check) = Incomplete
<1> DEFINE items == f.items
           k == Len(items)
           count == Decimal(k)
           all == FlattenSeq([i \in DOMAIN items |-> EncodeValue(items[i])])
<1>1. /\ f = Array(items) /\ items \in Seq(ToSet(items)) /\ k \in 0 .. U64Max /\ k \in Nat
      /\ \A i \in DOMAIN items : IsLiteral(items[i])
  <2>1. ~IsLiteral(f)
    BY DEF IsLiteral, Null
  <2>2. /\ f = Array(items) /\ items \in Seq(ToSet(items)) /\ k <= U64Max
        /\ \A i \in DOMAIN items : IsLiteral(items[i])
    BY <2>1 DEF IsWritable
  <2>3. k \in Nat
    BY <2>2
  <2> QED
    BY <2>2, <2>3, FrameAssumption
<1>2. Encode(f) = <<"*">> \o Line(count) \o all
  BY DEF Encode
<1>3. /\ count \in Seq(Bytes) /\ Len(count) \in Nat /\ Len(count) > 0
  <2>1. count \in Seq(ToSet(Digits)) /\ Len(count) > 0
    BY <1>1, DecimalNumeral
  <2>2. ToSet(Digits) \subseteq Bytes
    BY DEF Marks
  <2> HIDE DEF count
  <2> QED
    BY <2>1, <2>2
<1>4. \A q : q \in Nat \ {0} /\ q <= Len(s) + 1 /\ At(s, q, all) =>
        /\ all \in Seq(Bytes)
        /\ IF q + Len(all) <= Len(s) + 1
           THEN /\ check[q][k].tag = "Ok" /\ check[q][k].pos = q + Len(all)
                /\ parse[q][k] = Ok(q + Len(all), items)
           ELSE check[q][k] = Incomplete
  <2>1. all = FlattenSeq([i \in DOMAIN items |-> EncodeValue(items[i])])
    OBVIOUS
  <2> HIDE DEF items, all
  <2> QED
    BY <1>1, <2>1, ItemsDecoded
<1>5. all \in Seq(Bytes) /\ Len(all) \in Nat
  BY <1>1, RowEncoding
<1> HIDE DEF items, k, count, all
<1> DEFINE body == Line(count) \o all
           q == Len(count) + 4
<1>6. Line(count) \in Seq(Bytes) /\ Len(Line(count)) = Len(count) + 2
  BY <1>3, LineEntries
<1>7. /\ <<"*">> \in Seq(Bytes) /\ "*" \in Bytes /\ body \in Seq(Bytes)
      /\ Len(body) = Len(count) + 2 + Len(all)
  BY <1>5, <1>6 DEF Marks
<1>8. Encode(f) = <<"*">> \o body
  BY <1>2, <1>5, <1>6, <1>7, ConcatAssociative
<1>9. /\ Encode(f) \in Seq(Bytes) /\ Len(Encode(f)) = Len(count) + 3 + Len(all)
      /\ Byte(s, 1) = IF 1 <= Len(s) THEN "*" ELSE "end"
      /\ At(s, 2, body)
  <2> HIDE DEF body
  <2>1. 1 \in Nat \ {0} /\ 1 + 1 = 2 /\ At(s, 1, <<"*">> \o body)
    BY <1>8
  <2>2. /\ <<"*">> \o body \in Seq(Bytes) /\ Len(<<"*">> \o body) = Len(body) + 1
        /\ Byte(s, 1) = IF 1 <= Len(s) THEN "*" ELSE "end"
        /\ At(s, 1 + 1, body)
    BY <1>7, <2>1, MarkAndRest
  <2> QED
    BY <1>3, <1>5, <1>7, <1>8, <2>1, <2>2
<1>10. At(s, 2, Line(count)) /\ At(s, q, all)
  <2>1. At(s, 2, Line(count)) /\ At(s, 2 + Len(Line(count)), all)
    <3>1. 2 \in Nat
      OBVIOUS
    <3> QED
      BY <1>5, <1>6, <1>9, <3>1, AtParts
  <2>2. 2 + Len(Line(count)) = q
    BY <1>3, <1>6
  <2> QED
    BY <2>1, <2>2
<1>11. GetDecimal(s, 2) = IF Len(count) + 3 <= Len(s) THEN Ok(q, k) ELSE Incomplete
  <2>1. 2 \in Nat \ {0}
    OBVIOUS
  <2>2. GetDecimal(s, 2) = IF 2 + Len(count) + 1 <= Len(s) THEN Ok(2 + Len(count) + 2, k) ELSE Incomplete
    BY <1>1, <1>10, <2>1, DecimalRead DEF count
  <2>3. 2 + Len(count) + 1 = Len(count) + 3 /\ 2 + Len(count) + 2 = q
    BY <1>3
  <2> QED
    BY <2>2, <2>3
<1>12. q \in Nat \ {0} /\ Len(s) \in Nat /\ q + Len(all) = Len(Encode(f)) + 1
  BY <1>3, <1>5, <1>9
<1> HIDE DEF q, body
<1> SUFFICES IF Len(Encode(f)) <= Len(s)
             THEN /\ CheckOne(s, 1, check).tag = "Ok" /\ CheckOne(s, 1, check).pos = Len(Encode(f)) + 1
                  /\ ParseOne(s, 1, parse) = Ok(Len(Encode(f)) + 1, f)
             ELSE CheckOne(s, 1, check) = Incomplete
  BY <1>3, <1>5, <1>9
<1>13. CASE ~(1 <= Len(s))
  <2>1. Byte(s, 1) = "end"
    BY <1>9, <1>13
  <2>2. CheckOne(s, 1, check) = Incomplete
    BY <2>1, CheckAt
  <2>3. ~(Len(Encode(f)) <= Len(s))
    BY <1>3, <1>5, <1>9, <1>12, <1>13
  <2> QED
    BY <2>2, <2>3
<1>14. CASE 1 <= Len(s) /\ ~(Len(count) + 3 <= Len(s))
  <2>1. Byte(s, 1) = "*" /\ GetDecimal(s, 1 + 1) = Incomplete /\ Incomplete.tag # "Ok"
    BY <1>9, <1>11, <1>14 DEF Incomplete
  <2>2. CheckOne(s, 1, check) = Incomplete
    BY <2>1, CheckAt
  <2>3. ~(Len(Encode(f)) <= Len(s))
    BY <1>3, <1>5, <1>9, <1>12, <1>14
  <2> QED
    BY <2>2, <2>3
<1>15. CASE Len(count) + 3 <= Len(s)
  <2> DEFINE d == GetDecimal(s, 1 + 1)
  <2>1. Byte(s, 1) = "*" /\ d = Ok(q, k) /\ q <= Len(s) + 1
    BY <1>3, <1>9, <1>11, <1>12, <1>15 DEF q
  <2>2. d.tag = "Ok" /\ d.pos = q /\ d.val = k
    BY <2>1 DEF Ok
  <2>3. CheckOne(s, 1, check) = check[q][k]
    <3>1. CheckOne(s, 1, check) = IF d.tag # "Ok" THEN d ELSE check[d.pos][d.val]
      BY <2>1, CheckAt
    <3> QED
      BY <2>2, <3>1
  <2>4. CASE ~(q + Len(all) <= Len(s) + 1)
    <3>1. check[q][k] = Incomplete
      BY <1>4, <1>10, <1>12, <2>1, <2>4
    <3>2. ~(Len(Encode(f)) <= Len(s))
      BY <1>3, <1>5, <1>9, <1>12, <2>4
    <3> QED
      BY <2>3, <3>1, <3>2
  <2>5. CASE q + Len(all) <= Len(s) + 1
    <3> DEFINE a == parse[q][k]
    <3>1. /\ check[q][k].tag = "Ok" /\ check[q][k].pos = q + Len(all)
          /\ a = Ok(q + Len(all), items)
      BY <1>4, <1>10, <1>12, <2>1, <2>5
    <3>2. a.tag = "Ok" /\ a.pos = q + Len(all) /\ a.val = items
      BY <3>1 DEF Ok
    <3>3. ParseOne(s, 1, parse) = IF d.tag # "Ok" THEN d
                                  ELSE LET b == parse[d.pos][d.val]
                                       IN  IF b.tag # "Ok" THEN b ELSE Ok(b.pos, Array(b.val))
      BY <2>1, ParseAt
    <3>4. ParseOne(s, 1, parse) = Ok(q + Len(all), Array(items))
      <4> HIDE DEF d
      <4> QED
        BY <2>2, <3>2, <3>3
    <3>5. Len(Encode(f)) <= Len(s)
      BY <1>3, <1>5, <1>9, <1>12, <2>5
    <3> QED
      BY <1>1, <1>12, <2>3, <3>1, <3>4, <3>5 DEF items
  <2> QED
    BY <2>4, <2>5
<1> QED
  BY <1>13, <1>14, <1>15, <1>12

-------------------------------------------------------------------------------
(* parse_frame.                                                            *)

\* One frame of any kind.
LEMMA OneDecoded ==
  ASSUME Marks \subseteq Bytes, NEW s \in Seq(Bytes), NEW check, Steps(s, check),
         NEW parse, Gathers(s, parse), NEW f, IsWritable(f), At(s, 1, Encode(f))
  PROVE  /\ Encode(f) \in Seq(Bytes) /\ Len(Encode(f)) \in Nat \ {0}
         /\ IF Len(Encode(f)) <= Len(s)
            THEN /\ CheckOne(s, 1, check).tag = "Ok" /\ CheckOne(s, 1, check).pos = Len(Encode(f)) + 1
                 /\ ParseOne(s, 1, parse) = Ok(Len(Encode(f)) + 1, f)
            ELSE CheckOne(s, 1, check) = Incomplete
<1>1. CASE f.type = "Array"
  <2>1. Encode(f) \in Seq(Bytes) /\ Len(Encode(f)) > 0
    BY <1>1, ArrayDecoded
  <2>2. Len(Encode(f)) \in Nat \ {0}
    BY <2>1
  <2> QED
    BY <1>1, <2>1, <2>2, ArrayDecoded
<1>2. CASE f.type # "Array"
  <2>1. IsLiteral(f)
    BY <1>2 DEF IsWritable
  <2>2. Encode(f) = EncodeValue(f)
    BY <1>2 DEF Encode
  <2>3. EncodeValue(f) \in Seq(Bytes) /\ Len(EncodeValue(f)) \in Nat \ {0}
    BY <2>1, LiteralEncoding
  <2>4. At(s, 1, EncodeValue(f)) /\ 1 \in Nat \ {0}
    BY <2>2
  <2>5. \A c : IF 1 + Len(EncodeValue(f)) <= Len(s) + 1
               THEN /\ CheckOne(s, 1, c).tag = "Ok" /\ CheckOne(s, 1, c).pos = 1 + Len(EncodeValue(f))
                    /\ ParseOne(s, 1, c) = Ok(1 + Len(EncodeValue(f)), f)
               ELSE CheckOne(s, 1, c) = Incomplete
    BY <2>1, <2>4, LiteralDecoded
  <2>6. /\ 1 + Len(EncodeValue(f)) = Len(EncodeValue(f)) + 1
        /\ 1 + Len(EncodeValue(f)) <= Len(s) + 1 <=> Len(EncodeValue(f)) <= Len(s)
    BY <2>3
  <2> QED
    BY <2>2, <2>3, <2>5, <2>6
<1> QED
  BY <1>1, <1>2

\* The bytes of a frame are never none.
LEMMA FrameEncoding ==
  ASSUME Marks \subseteq Bytes, NEW f, IsWritable(f)
  PROVE  Encode(f) \in Seq(Bytes) /\ Len(Encode(f)) \in Nat \ {0}
<1>1. <<>> \in Seq(Bytes) /\ Len(<<>>) = 0
  OBVIOUS
<1>2. At(<<>>, 1, Encode(f))
  BY <1>1 DEF At
<1>3. \E check : Steps(<<>>, check)
  BY <1>1, CheckUnfold, CheckSteps
<1>4. \E parse : Gathers(<<>>, parse)
  BY <1>1, ParseUnfold, ParseGathers
<1> QED
  BY <1>1, <1>2, <1>3, <1>4, OneDecoded

\* parse_frame gives back a frame that was written as soon as all its bytes are
\* there, with the bytes behind it left in the buffer, and waits until then: for
\* every frame, every buffer that holds a part of its bytes and every buffer
\* that holds all of them and more.
THEOREM FrameDecoded ==
  ASSUME Marks \subseteq Bytes, NEW s \in Seq(Bytes), NEW f, IsWritable(f), At(s, 1, Encode(f))
  PROVE  ParseFrame(s) = IF Len(Encode(f)) <= Len(s)
                         THEN Got(f, SubSeq(s, Len(Encode(f)) + 1, Len(s)))
                         ELSE [tag |-> "Wait"]
<1> DEFINE n == Len(Encode(f))
<1>1. PICK check : Check(s) = check[1][1] /\ check = CheckMore(s, check)
  BY CheckUnfold
<1>2. PICK parse : /\ Parse(s) = Then(parse[1][1], LAMBDA r : Ok(r.pos, r.val[1]))
                   /\ parse = ParseMore(s, parse)
  BY ParseUnfold
<1>3. Steps(s, check) /\ Gathers(s, parse)
  BY <1>1, <1>2, CheckSteps, ParseGathers
<1>4. /\ n \in Nat \ {0}
      /\ IF n <= Len(s)
         THEN /\ CheckOne(s, 1, check).tag = "Ok" /\ CheckOne(s, 1, check).pos = n + 1
              /\ ParseOne(s, 1, parse) = Ok(n + 1, f)
         ELSE CheckOne(s, 1, check) = Incomplete
  BY <1>3, OneDecoded
<1> HIDE DEF n
<1>5. 1 \in Nat /\ 0 \in Nat /\ 0 + 1 = 1 /\ n + 1 \in Nat
  BY <1>4
<1>6. CASE n <= Len(s)
  <2>1. check[1][0 + 1] = check[n + 1][0] /\ check[n + 1][0] = Ok(n + 1, <<>>)
    <3>1. CheckOne(s, 1, check).tag = "Ok" /\ CheckOne(s, 1, check).pos = n + 1
      BY <1>4, <1>6
    <3>2. check[1][0 + 1] = check[CheckOne(s, 1, check).pos][0]
      BY <1>3, <1>5, <3>1 DEF Steps
    <3>3. check[n + 1][0] = Ok(n + 1, <<>>)
      BY <1>3, <1>5 DEF Steps
    <3> QED
      BY <3>1, <3>2, <3>3
  <2>2. Check(s).tag = "Ok" /\ Check(s).pos = n + 1
    <3>1. Check(s) = Ok(n + 1, <<>>)
      BY <1>1, <1>5, <2>1
    <3> QED
      BY <3>1 DEF Ok
  <2> DEFINE one == ParseOne(s, 1, parse)
             more == parse[one.pos][0]
  <2>3. one.tag = "Ok" /\ one.pos = n + 1 /\ one.val = f
    BY <1>4, <1>6 DEF Ok
  <2>4. more = Ok(n + 1, <<>>)
    BY <1>3, <1>5, <2>3 DEF Gathers
  <2>5. more.tag = "Ok" /\ more.pos = n + 1 /\ more.val = <<>>
    BY <2>4 DEF Ok
  <2>6. parse[1][0 + 1] = Ok(more.pos, <<one.val>> \o more.val)
    BY <1>3, <1>5, <2>3, <2>5 DEF Gathers
  <2>7. <<f>> \o <<>> = <<f>>
    OBVIOUS
  <2>8. parse[1][1] = Ok(n + 1, <<f>>)
    BY <1>5, <2>3, <2>5, <2>6, <2>7
  <2>9. Parse(s) = Ok(n + 1, f)
    <3>1. parse[1][1].tag = "Ok" /\ parse[1][1].pos = n + 1 /\ parse[1][1].val[1] = f
      BY <2>8 DEF Ok
    <3> QED
      BY <1>2, <3>1 DEF Then, With
  <2>10. Parse(s).tag = "Ok" /\ Parse(s).val = f
    BY <2>9 DEF Ok
  <2>11. Parsed(s, n + 1, Parse(s)) = Got(f, SubSeq(s, n + 1, Len(s)))
    BY <2>10 DEF Parsed
  <2>12. ParseFrame(s) = Parsed(s, n + 1, Parse(s))
    BY <2>2 DEF ParseFrame, With
  <2> QED
    BY <1>6, <2>11, <2>12 DEF n
<1>7. CASE ~(n <= Len(s))
  <2>1. CheckOne(s, 1, check) = Incomplete /\ Incomplete.tag = "Incomplete"
    BY <1>4, <1>7 DEF Incomplete
  <2>2. check[1][0 + 1] = Incomplete
    BY <1>3, <1>5, <2>1 DEF Steps
  <2>3. Check(s).tag = "Incomplete"
    BY <1>1, <1>5, <2>1, <2>2
  <2>4. ParseFrame(s) = [tag |-> "Wait"]
    BY <2>3 DEF ParseFrame, With
  <2> QED
    BY <1>7, <2>4 DEF n
<1> QED
  BY <1>6, <1>7

\* An empty buffer holds no frame.
LEMMA NothingDecoded == ParseFrame(<<>>) = [tag |-> "Wait"]
<1>1. <<>> \in Seq(Bytes) /\ Len(<<>>) = 0 /\ 1 \in Nat /\ 0 \in Nat /\ 0 + 1 = 1
  OBVIOUS
<1>2. PICK check : Check(<<>>) = check[1][1] /\ Steps(<<>>, check)
  BY <1>1, CheckUnfold, CheckSteps
<1>3. Byte(<<>>, 1) = "end"
  BY <1>1 DEF Byte
<1>4. CheckOne(<<>>, 1, check) = Incomplete /\ Incomplete.tag = "Incomplete"
  BY <1>3, CheckAt DEF Incomplete
<1>5. check[1][0 + 1] = Incomplete
  BY <1>1, <1>2, <1>4 DEF Steps
<1>6. Check(<<>>).tag = "Incomplete"
  BY <1>1, <1>2, <1>4, <1>5
<1> QED
  BY <1>6 DEF ParseFrame, With

===============================================================================
