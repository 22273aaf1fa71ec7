---------------------------- MODULE SequenceLemmas ----------------------------
(***************************************************************************)
(* Induction over the natural numbers, definition by primitive recursion,  *)
(* and what follows from them about Within.                                *)
(*                                                                         *)
(* The induction theorems of the library take the property as an operator. *)
(* Here it is the set of the numbers that have it, so that only first-order*)
(* facts are needed: that the inclusion of finite sets is well-founded.    *)
(***************************************************************************)
EXTENDS Subsequence, Integers, WellFoundedInduction, FiniteSetTheorems, SequenceTheorems, TLAPS

-------------------------------------------------------------------------------
(* Induction and recursion.                                                *)

\* A non-empty set of natural numbers has a least element.
LEMMA LeastNumber ==
  ASSUME NEW T \in SUBSET Nat, T # {}
  PROVE  \E n \in T : \A m \in T : n <= m
<1> DEFINE B == {T \cap (0 .. n) : n \in T}
<1>1. IsWellFoundedOn(StrictSubsetOrdering(Nat), FiniteSubsetsOf(Nat))
  BY FS_StrictSubsetOrderingWellFounded
<1>2. B \subseteq FiniteSubsetsOf(Nat) /\ B # {}
  <2>1. ASSUME NEW n \in T PROVE T \cap (0 .. n) \in FiniteSubsetsOf(Nat)
    <3>1. IsFiniteSet(0 .. n)
      BY FS_Interval
    <3>2. IsFiniteSet(T \cap (0 .. n))
      BY <3>1, FS_Subset
    <3> QED
      BY <3>2 DEF FiniteSubsetsOf
  <2> QED
    BY <2>1
<1> HIDE DEF B
<1>3. PICK L \in B : \A M \in B : ~(<<M, L>> \in StrictSubsetOrdering(Nat))
  BY WFMin, <1>1, <1>2
<1>4. PICK n \in T : L = T \cap (0 .. n)
  BY DEF B
<1>5. ASSUME NEW m \in T, m < n PROVE FALSE
  <2>1. T \cap (0 .. m) \in B
    BY DEF B
  <2>2. T \cap (0 .. m) \subseteq L /\ n \in L /\ n \notin T \cap (0 .. m)
    BY <1>4, <1>5
  <2>3. <<T \cap (0 .. m), L>> \in StrictSubsetOrdering(Nat)
    BY <2>1, <2>2, <1>4 DEF StrictSubsetOrdering
  <2> QED
    BY <2>1, <2>3, <1>3
<1> QED
  BY <1>5

\* Induction over the numbers, for a property given as the set of those that have it.
THEOREM SetInduction ==
  ASSUME NEW G \in SUBSET Nat, 0 \in G, \A n \in G : n + 1 \in G
  PROVE  G = Nat
<1> SUFFICES ASSUME Nat \ G # {} PROVE FALSE
  OBVIOUS
<1>1. PICK n \in Nat \ G : \A m \in Nat \ G : n <= m
  BY LeastNumber
<1> QED
  BY <1>1

\* The same, from all the smaller numbers.
THEOREM StrongSetInduction ==
  ASSUME NEW G \in SUBSET Nat, \A n \in Nat : 0 .. n - 1 \subseteq G => n \in G
  PROVE  G = Nat
<1> SUFFICES ASSUME Nat \ G # {} PROVE FALSE
  OBVIOUS
<1>1. PICK n \in Nat \ G : \A m \in Nat \ G : n <= m
  BY LeastNumber
<1>2. 0 .. n - 1 \subseteq G
  BY <1>1
<1> QED
  BY <1>1, <1>2

\* g has the values of a recursive definition up to n.
Approximates(g, n, base, step) ==
  g[0] = base /\ \A i \in 0 .. n - 1 : g[i + 1] = step[i][g[i]]

\* Two of them agree where both are defined.
LEMMA ApproximationsAgree ==
  ASSUME NEW V, NEW base \in V, NEW step \in [Nat -> [V -> V]],
         NEW m \in Nat, NEW n \in Nat, NEW g, NEW h,
         Approximates(g, m, base, step), Approximates(h, n, base, step)
  PROVE  \A i \in 0 .. m : i <= n => g[i] = h[i]
<1> DEFINE G == {i \in Nat : i <= m /\ i <= n => g[i] = h[i]}
<1>1. 0 \in G
  BY DEF Approximates
<1>2. ASSUME NEW i \in G PROVE i + 1 \in G
  <2> SUFFICES ASSUME i + 1 <= m, i + 1 <= n PROVE g[i + 1] = h[i + 1]
    OBVIOUS
  <2>1. i \in 0 .. m - 1 /\ i \in 0 .. n - 1 /\ g[i] = h[i]
    OBVIOUS
  <2> QED
    BY <2>1 DEF Approximates
<1> HIDE DEF G
<1>3. G = Nat
  BY <1>1, <1>2, SetInduction DEF G
<1> QED
  BY <1>3 DEF G

\* There is one for each n.
LEMMA ApproximationsExist ==
  ASSUME NEW V, NEW base \in V, NEW step \in [Nat -> [V -> V]], NEW n \in Nat
  PROVE  \E g \in [0 .. n -> V] : Approximates(g, n, base, step)
<1> DEFINE G == {k \in Nat : \E g \in [0 .. k -> V] : Approximates(g, k, base, step)}
<1>1. 0 \in G
  <2> DEFINE g == [i \in 0 .. 0 |-> base]
  <2>1. g \in [0 .. 0 -> V] /\ Approximates(g, 0, base, step)
    BY DEF Approximates
  <2> QED
    BY <2>1
<1>2. ASSUME NEW k \in G PROVE k + 1 \in G
  <2>1. PICK g \in [0 .. k -> V] : Approximates(g, k, base, step)
    OBVIOUS
  <2> DEFINE h == [i \in 0 .. k + 1 |-> IF i <= k THEN g[i] ELSE step[k][g[k]]]
  <2>2. g[k] \in V /\ step[k][g[k]] \in V
    OBVIOUS
  <2>3. h \in [0 .. k + 1 -> V]
    BY <2>2
  <2>4. ASSUME NEW i \in 0 .. k PROVE h[i + 1] = step[i][h[i]]
    <3>1. CASE i < k
      <4>1. i + 1 <= k /\ i \in 0 .. k - 1
        BY <3>1
      <4> QED
        BY <4>1, <2>1 DEF Approximates
    <3>2. CASE i = k
      BY <3>2
    <3> QED
      BY <3>1, <3>2
  <2>5. h[0] = base
    BY <2>1 DEF Approximates
  <2> HIDE DEF h
  <2>6. Approximates(h, k + 1, base, step)
    <3>1. \A i \in 0 .. (k + 1) - 1 : h[i + 1] = step[i][h[i]]
      BY <2>4
    <3> QED
      BY <2>5, <3>1 DEF Approximates
  <2> QED
    BY <2>3, <2>6
<1> HIDE DEF G
<1>3. G = Nat
  BY <1>1, <1>2, SetInduction DEF G
<1> QED
  BY <1>3 DEF G

\* f is the sequence with this first value in which each value gives the next.
Iterates(f, base, step) == f[0] = base /\ \A n \in Nat : f[n + 1] = step[n][f[n]]

\* A function of a number can be defined from its value at the number before.
THEOREM PrimitiveRecursion ==
  ASSUME NEW V, NEW base \in V, NEW step \in [Nat -> [V -> V]]
  PROVE  \E f \in [Nat -> V] : Iterates(f, base, step)
<1> DEFINE appr(n) == CHOOSE g \in [0 .. n -> V] : Approximates(g, n, base, step)
           f == [n \in Nat |-> appr(n)[n]]
<1>1. ASSUME NEW n \in Nat
      PROVE  appr(n) \in [0 .. n -> V] /\ Approximates(appr(n), n, base, step)
  BY ApproximationsExist
<1> HIDE DEF appr
<1>2. f \in [Nat -> V]
  BY <1>1
<1>3. f[0] = base
  BY <1>1 DEF Approximates
<1>4. ASSUME NEW n \in Nat PROVE f[n + 1] = step[n][f[n]]
  <2>1. appr(n + 1)[n + 1] = step[n][appr(n + 1)[n]]
    <3>1. Approximates(appr(n + 1), n + 1, base, step)
      BY <1>1
    <3> QED
      BY <3>1 DEF Approximates
  <2>2. appr(n + 1)[n] = appr(n)[n]
    <3>1. Approximates(appr(n + 1), n + 1, base, step) /\ Approximates(appr(n), n, base, step)
      BY <1>1
    <3>2. \A i \in 0 .. n : i <= n + 1 => appr(n)[i] = appr(n + 1)[i]
      BY <3>1, ApproximationsAgree
    <3> QED
      BY <3>2
  <2> QED
    BY <2>1, <2>2
<1> HIDE DEF f
<1> QED
  BY <1>2, <1>3, <1>4 DEF Iterates

-------------------------------------------------------------------------------
(* The elements of a sequence.                                             *)

\* What Append and Tail do, entry by entry.
LEMMA AppendEntries ==
  ASSUME NEW V, NEW seq \in Seq(V), NEW x
  PROVE  /\ Append(seq, x) # <<>>
         /\ Len(seq) \in Nat /\ Len(Append(seq, x)) = Len(seq) + 1
         /\ DOMAIN seq = 1 .. Len(seq) /\ DOMAIN Append(seq, x) = 1 .. Len(seq) + 1
         /\ \A i \in 1 .. Len(seq) : Append(seq, x)[i] = seq[i]
         /\ Append(seq, x)[Len(seq) + 1] = x
<1>1. seq \in Seq(V \cup {x}) /\ x \in V \cup {x}
  OBVIOUS
<1> QED
  BY <1>1

\* The same of Tail and Head.
LEMMA TailEntries ==
  ASSUME NEW V, NEW seq \in Seq(V), seq # <<>>
  PROVE  /\ Len(seq) \in Nat \ {0} /\ Len(Tail(seq)) = Len(seq) - 1 /\ Tail(seq) \in Seq(V)
         /\ DOMAIN seq = 1 .. Len(seq) /\ DOMAIN Tail(seq) = 1 .. Len(seq) - 1
         /\ \A i \in 1 .. Len(seq) - 1 : Tail(seq)[i] = seq[i + 1]
         /\ Head(seq) = seq[1] /\ 1 \in DOMAIN seq /\ seq[1] \in V
OBVIOUS

\* Appending adds one element.
LEMMA ElementsAppend ==
  ASSUME NEW V, NEW seq \in Seq(V), NEW x \in V
  PROVE  Elements(Append(seq, x)) = Elements(seq) \cup {x}
<1>1. DOMAIN Append(seq, x) = 1 .. Len(seq) + 1 /\ DOMAIN seq = 1 .. Len(seq)
  OBVIOUS
<1>2. /\ \A i \in 1 .. Len(seq) : Append(seq, x)[i] = seq[i]
      /\ Append(seq, x)[Len(seq) + 1] = x
  OBVIOUS
<1>3. \A i : i \in 1 .. Len(seq) + 1 <=> i \in 1 .. Len(seq) \/ i = Len(seq) + 1
  OBVIOUS
<1> QED
  BY <1>1, <1>2, <1>3 DEF Elements

\* The elements of two lists in one.
LEMMA ElementsConcat ==
  ASSUME NEW V, NEW u \in Seq(V), NEW v \in Seq(V)
  PROVE  Elements(u \o v) = Elements(u) \cup Elements(v)
<1>1. /\ Len(u) \in Nat /\ Len(v) \in Nat /\ DOMAIN u = 1 .. Len(u) /\ DOMAIN v = 1 .. Len(v)
      /\ DOMAIN (u \o v) = 1 .. Len(u) + Len(v)
      /\ \A i \in 1 .. Len(u) + Len(v) :
           (u \o v)[i] = IF i <= Len(u) THEN u[i] ELSE v[i - Len(u)]
  OBVIOUS
<1>2. Elements(u \o v) \subseteq Elements(u) \cup Elements(v)
  <2> SUFFICES ASSUME NEW i \in 1 .. Len(u) + Len(v)
               PROVE  (u \o v)[i] \in Elements(u) \cup Elements(v)
    BY <1>1 DEF Elements
  <2>1. CASE i <= Len(u)
    BY <1>1, <2>1 DEF Elements
  <2>2. CASE ~(i <= Len(u))
    <3>1. i - Len(u) \in 1 .. Len(v)
      BY <1>1, <2>2
    <3> QED
      BY <1>1, <2>2, <3>1 DEF Elements
  <2> QED
    BY <2>1, <2>2
<1>3. Elements(u) \subseteq Elements(u \o v)
  <2> SUFFICES ASSUME NEW i \in 1 .. Len(u) PROVE u[i] \in Elements(u \o v)
    BY <1>1 DEF Elements
  <2>1. i \in 1 .. Len(u) + Len(v) /\ i <= Len(u)
    BY <1>1
  <2> QED
    BY <1>1, <2>1 DEF Elements
<1>4. Elements(v) \subseteq Elements(u \o v)
  <2> SUFFICES ASSUME NEW i \in 1 .. Len(v) PROVE v[i] \in Elements(u \o v)
    BY <1>1 DEF Elements
  <2>1. i + Len(u) \in 1 .. Len(u) + Len(v) /\ ~(i + Len(u) <= Len(u)) /\ (i + Len(u)) - Len(u) = i
    BY <1>1
  <2> QED
    BY <1>1, <2>1 DEF Elements
<1> QED
  BY <1>2, <1>3, <1>4

-------------------------------------------------------------------------------
(* Within.                                                                 *)

\* Within(seq, S), by the recursion that defines it.
LEMMA WithinUnfold ==
  ASSUME NEW V, NEW seq \in Seq(V), NEW S
  PROVE  \E kept : /\ Within(seq, S) = kept[Len(seq)]
                   /\ kept[0] = <<>>
                   /\ \A n \in 1 .. Len(seq) :
                        kept[n] = IF seq[n] \in S THEN Append(kept[n - 1], seq[n]) ELSE kept[n - 1]
<1> DEFINE Def(g) ==
             [n \in 0 .. Len(seq) |->
                IF n = 0 THEN <<>>
                ELSE IF seq[n] \in S THEN Append(g[n - 1], seq[n]) ELSE g[n - 1]]
<1>1. \E g : g = Def(g)
  <2> DEFINE W == Seq(V)
             none == <<>>
             step == [n \in Nat |-> [t \in W |->
                        IF n + 1 \in 1 .. Len(seq) /\ seq[n + 1] \in S
                        THEN Append(t, seq[n + 1]) ELSE t]]
  <2>1. step \in [Nat -> [W -> W]]
    OBVIOUS
  <2>2. none \in W
    OBVIOUS
  <2>3. PICK f \in [Nat -> W] : Iterates(f, none, step)
    <3> HIDE DEF step, W, none
    <3> QED
      BY <2>1, <2>2, PrimitiveRecursion
  <2> DEFINE g == [n \in 0 .. Len(seq) |-> f[n]]
  <2>5. ASSUME NEW n \in 0 .. Len(seq) PROVE g[n] = Def(g)[n]
    <3>1. CASE n = 0
      BY <3>1, <2>3 DEF Iterates
    <3>2. CASE n # 0
      <4>1. n - 1 \in Nat /\ (n - 1) + 1 = n /\ n - 1 \in 0 .. Len(seq)
        BY <3>2
      <4>2. f[n] = step[n - 1][f[n - 1]]
        BY <2>3, <4>1 DEF Iterates
      <4>3. f[n - 1] \in W /\ n \in 1 .. Len(seq)
        BY <4>1, <3>2
      <4>4. step[n - 1][f[n - 1]] = IF seq[n] \in S THEN Append(f[n - 1], seq[n]) ELSE f[n - 1]
        BY <4>1, <4>3
      <4>5. g[n] = f[n] /\ g[n - 1] = f[n - 1]
        BY <4>1
      <4> HIDE DEF g, step, W
      <4> QED
        BY <4>2, <4>4, <4>5, <3>2
    <3> QED
      BY <3>1, <3>2
  <2>6. g = Def(g)
    BY <2>5
  <2> QED
    BY <2>6
<1> DEFINE kept == CHOOSE g : g = Def(g)
<1>3. Within(seq, S) = kept[Len(seq)]
  BY DEF Within
<1>4. kept = Def(kept)
  <2> HIDE DEF Def
  <2> QED
    BY <1>1
<1> HIDE DEF kept
<1>5. kept[0] = <<>>
  BY <1>4
<1>6. ASSUME NEW n \in 1 .. Len(seq)
      PROVE  kept[n] = IF seq[n] \in S THEN Append(kept[n - 1], seq[n]) ELSE kept[n - 1]
  <2>1. n \in 0 .. Len(seq) /\ n # 0
    OBVIOUS
  <2>2. Def(kept)[n] = IF seq[n] \in S THEN Append(kept[n - 1], seq[n]) ELSE kept[n - 1]
    BY <2>1
  <2> HIDE DEF Def
  <2> QED
    BY <2>2, <1>4
<1> HIDE DEF Def
<1> QED
  BY <1>3, <1>5, <1>6

\* What Within leaves: elements of S, all of them, as many as seq has places for them.
LEMMA WithinKeeps ==
  ASSUME NEW V, NEW seq \in Seq(V), NEW S
  PROVE  /\ Within(seq, S) \in Seq(V)
         /\ Elements(Within(seq, S)) = Elements(seq) \cap S
         /\ Len(Within(seq, S)) = Cardinality({i \in DOMAIN seq : seq[i] \in S})
<1>1. PICK kept : /\ Within(seq, S) = kept[Len(seq)]
                  /\ kept[0] = <<>>
                  /\ \A n \in 1 .. Len(seq) :
                       kept[n] = IF seq[n] \in S THEN Append(kept[n - 1], seq[n]) ELSE kept[n - 1]
  BY WithinUnfold, SMTT(30)
<1> DEFINE Places(n) == {i \in 1 .. n : seq[i] \in S}
           First(n) == {seq[i] : i \in 1 .. n}
           Good(n) == /\ kept[n] \in Seq(V)
                      /\ Elements(kept[n]) = First(n) \cap S
                      /\ Len(kept[n]) = Cardinality(Places(n))
           G == {n \in Nat : n <= Len(seq) => Good(n)}
<1>2. 0 \in G
  <2>1. Places(0) = {} /\ First(0) = {}
    OBVIOUS
  <2>2. Cardinality({}) = 0
    BY FS_EmptySet
  <2>3. Elements(<<>>) = {} /\ Len(<<>>) = 0 /\ <<>> \in Seq(V)
    BY DEF Elements
  <2>4. Good(0)
    <3> HIDE DEF Places, First
    <3> QED
      BY <1>1, <2>1, <2>2, <2>3
  <2> QED
    BY <2>4
<1>3. ASSUME NEW n \in G PROVE n + 1 \in G
  <2> SUFFICES ASSUME n + 1 <= Len(seq) PROVE Good(n + 1)
    OBVIOUS
  <2>1. n \in Nat /\ Good(n) /\ n + 1 \in 1 .. Len(seq) /\ (n + 1) - 1 = n
    OBVIOUS
  <2>2. kept[n + 1] = IF seq[n + 1] \in S THEN Append(kept[n], seq[n + 1]) ELSE kept[n]
    BY <1>1, <2>1
  <2>3. First(n + 1) = First(n) \cup {seq[n + 1]}
    BY <2>1
  <2>4. IsFiniteSet(Places(n)) /\ n + 1 \notin Places(n)
    <3>1. IsFiniteSet(1 .. n)
      BY <2>1, FS_Interval
    <3> QED
      BY <2>1, <3>1, FS_Subset
  <2>5. CASE seq[n + 1] \in S
    <3>1. Places(n + 1) = Places(n) \cup {n + 1}
      BY <2>1, <2>5
    <3>2. Cardinality(Places(n + 1)) = Cardinality(Places(n)) + 1
      <4> HIDE DEF Places
      <4> QED
        BY <3>1, <2>4, FS_AddElement
    <3>3. seq[n + 1] \in V /\ kept[n + 1] = Append(kept[n], seq[n + 1]) /\ kept[n] \in Seq(V)
      BY <2>1, <2>2, <2>5
    <3>4. Elements(Append(kept[n], seq[n + 1])) = Elements(kept[n]) \cup {seq[n + 1]}
      BY <3>3, ElementsAppend
    <3> HIDE DEF Places, First
    <3> QED
      BY <2>1, <2>3, <2>5, <3>2, <3>3, <3>4
  <2>6. CASE seq[n + 1] \notin S
    <3>1. Places(n + 1) = Places(n)
      BY <2>1, <2>6
    <3> HIDE DEF Places, First
    <3> QED
      BY <2>1, <2>2, <2>3, <2>6, <3>1
  <2> QED
    BY <2>5, <2>6
<1> HIDE DEF G
<1>4. G = Nat
  BY <1>2, <1>3, SetInduction DEF G
<1>5. Good(Len(seq))
  <2>1. \A n \in Nat : n <= Len(seq) => Good(n)
    <3> HIDE DEF Good
    <3> QED
      BY <1>4 DEF G
  <2>2. Len(seq) \in Nat /\ Len(seq) <= Len(seq)
    OBVIOUS
  <2> HIDE DEF Good
  <2> QED
    BY <2>1, <2>2
<1>6. DOMAIN seq = 1 .. Len(seq)
  OBVIOUS
<1>7. Places(Len(seq)) = {i \in DOMAIN seq : seq[i] \in S} /\ First(Len(seq)) = Elements(seq)
  BY <1>6 DEF Elements
<1> HIDE DEF Places, First
<1> QED
  BY <1>1, <1>5, <1>7

\* Within leaves nothing of a list that has no element of the set.
LEMMA WithinNone ==
  ASSUME NEW V, NEW seq \in Seq(V), NEW S, Elements(seq) \cap S = {}
  PROVE  Within(seq, S) = <<>>
<1> DEFINE w == Within(seq, S)
<1>1. w \in Seq(V) /\ Elements(w) = {}
  BY WithinKeeps
<1> HIDE DEF w
<1>2. CASE w # <<>>
  <2>1. 1 \in DOMAIN w
    BY <1>1, <1>2, TailEntries
  <2> QED
    BY <1>1, <2>1 DEF Elements
<1> QED
  BY <1>2 DEF w

\* Within takes a list part by part.
LEMMA WithinConcat ==
  ASSUME NEW V, NEW u \in Seq(V), NEW v \in Seq(V), NEW S
  PROVE  Within(u \o v, S) = Within(u, S) \o Within(v, S)
<1> DEFINE w == u \o v
           k == Len(u)
           l == Len(v)
<1>0. w \in Seq(V)
  OBVIOUS
<1>1. /\ w \in Seq(V) /\ k \in Nat /\ l \in Nat /\ Len(w) = k + l
      /\ \A i \in 1 .. k : w[i] = u[i]
      /\ \A i \in 1 .. l : w[k + i] = v[i] /\ v[i] \in V
  OBVIOUS
<1> HIDE DEF w
<1>2. PICK f : /\ Within(w, S) = f[Len(w)]
               /\ f[0] = <<>>
               /\ \A n \in 1 .. Len(w) :
                    f[n] = IF w[n] \in S THEN Append(f[n - 1], w[n]) ELSE f[n - 1]
  BY <1>0, WithinUnfold
<1>3. PICK g : /\ Within(u, S) = g[k]
               /\ g[0] = <<>>
               /\ \A n \in 1 .. k :
                    g[n] = IF u[n] \in S THEN Append(g[n - 1], u[n]) ELSE g[n - 1]
  BY WithinUnfold, SMTT(30)
<1>4. PICK h : /\ Within(v, S) = h[l]
               /\ h[0] = <<>>
               /\ \A n \in 1 .. l :
                    h[n] = IF v[n] \in S THEN Append(h[n - 1], v[n]) ELSE h[n - 1]
  BY WithinUnfold, SMTT(30)
<1>5. g[k] \in Seq(V)
  <2>1. Within(u, S) \in Seq(V)
    BY WithinKeeps
  <2> QED
    BY <1>3, <2>1
<1> HIDE DEF k, l
<1> DEFINE A == {n \in Nat : n <= k => f[n] = g[n]}
           B == {n \in Nat : n <= l => h[n] \in Seq(V) /\ f[k + n] = g[k] \o h[n]}
<1>6. k \in A
  <2>1. 0 \in A
    BY <1>2, <1>3
  <2>2. ASSUME NEW n \in A PROVE n + 1 \in A
    <3> SUFFICES ASSUME n + 1 <= k PROVE f[n + 1] = g[n + 1]
      OBVIOUS
    <3>1. n + 1 \in 1 .. k /\ n + 1 \in 1 .. Len(w) /\ (n + 1) - 1 = n /\ n <= k
      BY <1>1
    <3>2. f[n] = g[n] /\ w[n + 1] = u[n + 1]
      BY <1>1, <3>1
    <3>3. f[n + 1] = IF w[n + 1] \in S THEN Append(f[n], w[n + 1]) ELSE f[n]
      BY <1>2, <3>1
    <3>4. g[n + 1] = IF u[n + 1] \in S THEN Append(g[n], u[n + 1]) ELSE g[n]
      BY <1>3, <3>1
    <3> QED
      BY <3>2, <3>3, <3>4
  <2> HIDE DEF A
  <2>3. A \in SUBSET Nat
    BY DEF A
  <2>4. A = Nat
    BY <2>1, <2>2, <2>3, SetInduction
  <2> QED
    BY <1>1, <2>4
<1>7. f[k] = g[k]
  <2>1. k \in Nat /\ k <= k
    BY <1>1
  <2> QED
    BY <1>6, <2>1
<1>8. l \in B
  <2>1. 0 \in B
    <3>1. k + 0 = k /\ g[k] \o <<>> = g[k] /\ <<>> \in Seq(V)
      BY <1>1, <1>5, ConcatEmptySeq
    <3> QED
      BY <1>4, <1>7, <3>1
  <2>2. ASSUME NEW n \in B PROVE n + 1 \in B
    <3>0. n \in Nat /\ n + 1 \in Nat /\ (n <= l => h[n] \in Seq(V) /\ f[k + n] = g[k] \o h[n])
      <4>1. n \in B
        OBVIOUS
      <4> HIDE DEF B
      <4>2. n \in Nat /\ (n <= l => h[n] \in Seq(V) /\ f[k + n] = g[k] \o h[n])
        BY <4>1, Zenon DEF B
      <4>3. n + 1 \in Nat
        BY <4>2
      <4> QED
        BY <4>2, <4>3, Zenon
    <3> SUFFICES ASSUME n + 1 <= l PROVE h[n + 1] \in Seq(V) /\ f[k + (n + 1)] = g[k] \o h[n + 1]
      BY <3>0
    <3>1. /\ n + 1 \in 1 .. l /\ k + (n + 1) \in 1 .. Len(w) /\ (n + 1) - 1 = n
          /\ (k + (n + 1)) - 1 = k + n /\ n <= l
      BY <1>1, <3>0
    <3>2. h[n] \in Seq(V) /\ f[k + n] = g[k] \o h[n] /\ w[k + (n + 1)] = v[n + 1] /\ v[n + 1] \in V
      BY <1>1, <3>0, <3>1
    <3>3. f[k + (n + 1)] = IF v[n + 1] \in S THEN Append(g[k] \o h[n], v[n + 1]) ELSE g[k] \o h[n]
      <4>1. f[k + (n + 1)] = IF w[k + (n + 1)] \in S THEN Append(f[k + n], w[k + (n + 1)]) ELSE f[k + n]
        BY <1>2, <3>1
      <4> QED
        BY <3>2, <4>1
    <3>4. h[n + 1] = IF v[n + 1] \in S THEN Append(h[n], v[n + 1]) ELSE h[n]
      BY <1>4, <3>1
    <3> DEFINE x == v[n + 1]
               a == g[k]
               b == h[n]
    <3> HIDE DEF x, a, b
    <3>5. a \in Seq(V) /\ b \in Seq(V) /\ x \in V
      BY <1>5, <3>2 DEF a, b, x
    <3>6. Append(a \o b, x) = a \o Append(b, x) /\ Append(b, x) \in Seq(V)
      <4>1. Append(b, x) = b \o <<x>> /\ Append(a \o b, x) = (a \o b) \o <<x>>
        BY <3>5, AppendIsConcat, SMTT(30)
      <4>2. <<x>> \in Seq(V) /\ Append(b, x) \in Seq(V)
        BY <3>5
      <4>3. (a \o b) \o <<x>> = a \o (b \o <<x>>)
        BY <3>5, <4>2, ConcatAssociative, SMTT(30)
      <4> QED
        BY <4>1, <4>2, <4>3
    <3> QED
      BY <3>2, <3>3, <3>4, <3>6 DEF a, b, x
  <2> HIDE DEF B
  <2>3. B \in SUBSET Nat
    BY DEF B
  <2>4. B = Nat
    BY <2>1, <2>2, <2>3, SetInduction
  <2> QED
    BY <1>1, <2>4
<1>9. f[k + l] = g[k] \o h[l]
  <2>1. l \in Nat /\ l <= l
    BY <1>1
  <2> QED
    BY <1>8, <2>1
<1> QED
  BY <1>1, <1>2, <1>3, <1>4, <1>9 DEF w

\* What Within leaves of a list of one element.
LEMMA WithinSingle ==
  ASSUME NEW x, NEW S
  PROVE  Within(<<x>>, S) = IF x \in S THEN <<x>> ELSE <<>>
<1> DEFINE s == <<x>>
<1>1. s \in Seq({x}) /\ Len(s) = 1 /\ s[1] = x /\ Append(<<>>, x) = s
  OBVIOUS
<1> HIDE DEF s
<1>2. PICK f : /\ Within(s, S) = f[Len(s)]
               /\ f[0] = <<>>
               /\ \A n \in 1 .. Len(s) :
                    f[n] = IF s[n] \in S THEN Append(f[n - 1], s[n]) ELSE f[n - 1]
  BY <1>1, WithinUnfold
<1>3. f[1] = IF x \in S THEN Append(f[0], x) ELSE f[0]
  <2>1. 1 \in 1 .. Len(s) /\ 1 - 1 = 0
    BY <1>1
  <2> QED
    BY <1>1, <1>2, <2>1
<1> QED
  BY <1>1, <1>2, <1>3 DEF s

\* Within leaves a list alone that has no other elements.
LEMMA WithinAll ==
  ASSUME NEW V, NEW seq \in Seq(V), NEW S, Elements(seq) \subseteq S
  PROVE  Within(seq, S) = seq
<1>1. PICK f : /\ Within(seq, S) = f[Len(seq)]
               /\ f[0] = <<>>
               /\ \A n \in 1 .. Len(seq) :
                    f[n] = IF seq[n] \in S THEN Append(f[n - 1], seq[n]) ELSE f[n - 1]
  BY WithinUnfold, SMTT(30)
<1> DEFINE G == {n \in Nat : n <= Len(seq) => f[n] = SubSeq(seq, 1, n)}
<1>2. 0 \in G
  <2>1. SubSeq(seq, 1, 0) = <<>>
    BY SubSeqEmpty
  <2> QED
    BY <1>1, <2>1
<1>3. ASSUME NEW n \in G PROVE n + 1 \in G
  <2> SUFFICES ASSUME n + 1 <= Len(seq) PROVE f[n + 1] = SubSeq(seq, 1, n + 1)
    OBVIOUS
  <2>1. n + 1 \in 1 .. Len(seq) /\ (n + 1) - 1 = n /\ n <= Len(seq)
    OBVIOUS
  <2>2. seq[n + 1] \in S
    BY <2>1 DEF Elements
  <2>3. f[n + 1] = Append(SubSeq(seq, 1, n), seq[n + 1])
    BY <1>1, <2>1, <2>2
  <2>4. Append(SubSeq(seq, 1, n), seq[n + 1]) = SubSeq(seq, 1, n + 1)
    BY <2>1
  <2> QED
    BY <2>3, <2>4
<1> HIDE DEF G
<1>4. G = Nat
  <2>1. G \in SUBSET Nat
    BY DEF G
  <2> QED
    BY <1>2, <1>3, <2>1, SetInduction
<1>5. Len(seq) \in Nat /\ Len(seq) <= Len(seq) /\ SubSeq(seq, 1, Len(seq)) = seq
  BY SubSeqFull
<1>6. Len(seq) \in G
  BY <1>4, <1>5
<1> QED
  BY <1>1, <1>5, <1>6 DEF G

\* What Within leaves of a list with one element of the set.
LEMMA WithinOne ==
  ASSUME NEW V, NEW seq \in Seq(V), NEW S, NEW i \in DOMAIN seq, seq[i] \in S,
         \A j \in DOMAIN seq : seq[j] \in S => j = i
  PROVE  Within(seq, S) = <<seq[i]>>
<1> DEFINE w == Within(seq, S)
<1>1. /\ w \in Seq(V) /\ Elements(w) = Elements(seq) \cap S
      /\ Len(w) = Cardinality({j \in DOMAIN seq : seq[j] \in S})
  BY WithinKeeps
<1>2. {j \in DOMAIN seq : seq[j] \in S} = {i} /\ Elements(seq) \cap S = {seq[i]}
  BY DEF Elements
<1>3. Len(w) = 1
  BY <1>1, <1>2, FS_Singleton
<1> HIDE DEF w
<1>4. 1 \in DOMAIN w
  BY <1>1, <1>3
<1>5. w[1] = seq[i]
  BY <1>1, <1>2, <1>4 DEF Elements
<1>6. w = <<w[1]>>
  <2>1. ASSUME NEW u \in Seq(V), Len(u) = 1 PROVE u = <<u[1]>>
    BY <2>1
  <2> QED
    BY <1>1, <1>3, <2>1
<1> QED
  BY <1>5, <1>6 DEF w

\* Taking all entries of an element off a list: the list is shorter by their number.
LEMMA WithoutKeeps ==
  ASSUME NEW V, NEW seq \in Seq(V), NEW x
  PROVE  /\ Without(seq, x) \in Seq(V)
         /\ Elements(Without(seq, x)) = Elements(seq) \ {x}
         /\ Len(Without(seq, x)) = Len(seq) - Cardinality({i \in DOMAIN seq : seq[i] = x})
         /\ Cardinality({i \in DOMAIN seq : seq[i] = x}) \in Nat
<1> DEFINE S   == Elements(seq) \ {x}
           Out == {i \in DOMAIN seq : seq[i] = x}
           In  == {i \in DOMAIN seq : seq[i] \in S}
<1>1. DOMAIN seq = 1 .. Len(seq) /\ Len(seq) \in Nat
  OBVIOUS
<1>2. Elements(seq) \cap S = S
  OBVIOUS
<1>3. IsFiniteSet(DOMAIN seq) /\ Cardinality(DOMAIN seq) = Len(seq)
  BY <1>1, FS_Interval
<1>4. Out \subseteq DOMAIN seq /\ In = DOMAIN seq \ Out
  BY DEF Elements
<1>5. IsFiniteSet(Out) /\ Cardinality(Out) \in Nat
  BY <1>3, <1>4, FS_Subset, FS_CardinalityType
<1>6. Cardinality(In) = Cardinality(DOMAIN seq) - Cardinality(DOMAIN seq \cap Out)
  <2> HIDE DEF In, Out
  <2> QED
    BY <1>3, <1>4, FS_Difference
<1>7. DOMAIN seq \cap Out = Out
  BY <1>4
<1> HIDE DEF S
<1>8. /\ Within(seq, S) \in Seq(V) /\ Elements(Within(seq, S)) = Elements(seq) \cap S
      /\ Len(Within(seq, S)) = Cardinality(In)
  BY WithinKeeps
<1>9. Without(seq, x) = Within(seq, S)
  BY DEF Without, S
<1>10. Elements(Without(seq, x)) = Elements(seq) \ {x}
  BY <1>2, <1>8, <1>9 DEF S
<1>11. Len(Without(seq, x)) = Len(seq) - Cardinality(Out)
  <2> HIDE DEF In, Out
  <2> QED
    BY <1>3, <1>6, <1>7, <1>8, <1>9
<1> QED
  BY <1>5, <1>8, <1>9, <1>10, <1>11

\* A list shorter by one had the element.
LEMMA WithoutOne ==
  ASSUME NEW V, NEW seq \in Seq(V), NEW x, Len(Without(seq, x)) = Len(seq) - 1
  PROVE  x \in Elements(seq)
<1> DEFINE Out == {i \in DOMAIN seq : seq[i] = x}
<1>1. Len(Without(seq, x)) = Len(seq) - Cardinality(Out) /\ Cardinality(Out) \in Nat
  BY WithoutKeeps
<1>2. Cardinality(Out) = 1
  <2>1. Len(seq) \in Nat /\ Len(seq) - Cardinality(Out) = Len(seq) - 1
    BY <1>1
  <2>2. \A a, b \in Nat : a - b = a - 1 => b = 1
    OBVIOUS
  <2> QED
    BY <1>1, <2>1, <2>2, Zenon
<1>3. Cardinality({}) = 0
  BY FS_EmptySet
<1>4. Out # {}
  <2> HIDE DEF Out
  <2>1. 1 # 0
    OBVIOUS
  <2> QED
    BY <1>2, <1>3, <2>1, Zenon
<1> QED
  BY <1>4 DEF Elements

\* A list has no more different elements than entries.
LEMMA ElementsFinite ==
  ASSUME NEW V, NEW seq \in Seq(V)
  PROVE  IsFiniteSet(Elements(seq)) /\ Cardinality(Elements(seq)) <= Len(seq)
<1> DEFINE f == [i \in 1 .. Len(seq) |-> seq[i]]
<1>1. IsFiniteSet(1 .. Len(seq)) /\ Cardinality(1 .. Len(seq)) = Len(seq)
  <2>1. Len(seq) \in Nat
    OBVIOUS
  <2> HIDE DEF f
  <2> QED
    BY <2>1, FS_Interval, SMTT(30)
<1>2. f \in Surjection(1 .. Len(seq), Elements(seq))
  BY DEF Surjection, Elements
<1> HIDE DEF f
<1> QED
  BY <1>1, <1>2, FS_Surjection
===============================================================================
