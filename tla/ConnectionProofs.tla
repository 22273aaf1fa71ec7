--------------------------- MODULE ConnectionProofs ---------------------------
(***************************************************************************)
(* Theorems about Connection and Decoder: the frames that are read are the *)
(* frames that were written, wherever the stream is cut and whenever a     *)
(* read is dropped; on whatever bytes a buffer holds, check and parse end  *)
(* at the same byte, and an answer does not change when more bytes arrive. *)
(***************************************************************************)
EXTENDS Connection, Decoder, CodecProofs

-------------------------------------------------------------------------------
(* Parts of a stream.                                                      *)

\* The bytes before a cut and those behind it.
LEMMA CutAt ==
  ASSUME NEW V, NEW u \in Seq(V), NEW n \in 0 .. Len(u)
  PROVE  /\ SubSeq(u, 1, n) \in Seq(V) /\ SubSeq(u, n + 1, Len(u)) \in Seq(V)
         /\ SubSeq(u, 1, n) \o SubSeq(u, n + 1, Len(u)) = u
<1>1. Len(u) \in Nat
  OBVIOUS
<1>2. SubSeq(u, 1, n) \in Seq(V) /\ SubSeq(u, n + 1, Len(u)) \in Seq(V)
  BY <1>1
<1>3. 1 \in 1 .. Len(u) + 1 /\ n \in 1 - 1 .. Len(u) /\ Len(u) \in n .. Len(u)
  BY <1>1
<1>4. SubSeq(u, 1, n) \o SubSeq(u, n + 1, Len(u)) = SubSeq(u, 1, Len(u))
  BY <1>3, ConcatAdjacentSubSeq
<1>5. SubSeq(u, 1, Len(u)) = u
  BY SubSeqFull
<1> QED
  BY <1>2, <1>4, <1>5

\* What is needed to regroup the parts of a stream.
Joined(u, v) == u \o v

\* Joining is associative and has <<>> as its unit.
LEMMA JoinedParts ==
  /\ \A a, b \in Seq(Bytes) : Joined(a, b) \in Seq(Bytes)
  /\ \A a, b, c \in Seq(Bytes) : Joined(Joined(a, b), c) = Joined(a, Joined(b, c))
  /\ \A a \in Seq(Bytes) : Joined(a, <<>>) = a /\ Joined(<<>>, a) = a
  /\ \A a, b \in Seq(Bytes) : Joined(a, b) = a => b = <<>>
  /\ <<>> \in Seq(Bytes)
<1>1. \A a, b \in Seq(Bytes) : a \o b \in Seq(Bytes)
  OBVIOUS
<1>2. \A a, b, c \in Seq(Bytes) : (a \o b) \o c = a \o (b \o c)
  OBVIOUS
<1>3. \A a \in Seq(Bytes) : a \o <<>> = a /\ <<>> \o a = a
  OBVIOUS
<1>4. \A a, b \in Seq(Bytes) : a \o b = a => b = <<>>
  BY ConcatEqualIffEmpty
<1> QED
  BY <1>1, <1>2, <1>3, <1>4 DEF Joined

\* What is joined to the same first part is the same.
LEMMA JoinedLeft ==
  ASSUME NEW a \in Seq(Bytes), NEW b \in Seq(Bytes), NEW c \in Seq(Bytes),
         Joined(a, b) = Joined(a, c)
  PROVE  b = c
BY ConcatSimplifications DEF Joined

\* What is left of u behind as many bytes as e has.
Remains(u, e) == SubSeq(u, Len(e) + 1, Len(u))

\* The shorter first part begins the longer, and the rest of that joins the second.
LEMMA JoinedApart ==
  ASSUME NEW u \in Seq(Bytes), NEW v \in Seq(Bytes), NEW e \in Seq(Bytes), NEW w \in Seq(Bytes),
         Joined(u, v) = Joined(e, w)
  PROVE  /\ At(u, 1, e)
         /\ Len(e) <= Len(u) => Remains(u, e) \in Seq(Bytes) /\ Joined(Remains(u, e), v) = w
<1>0. u \o v = e \o w
  BY DEF Joined
<1>1. /\ Len(u) \in Nat /\ Len(v) \in Nat /\ Len(e) \in Nat /\ Len(w) \in Nat
      /\ Len(u \o v) = Len(u) + Len(v) /\ Len(e \o w) = Len(e) + Len(w)
  OBVIOUS
<1>2. \A i \in 1 .. Len(u) + Len(v) : (u \o v)[i] = IF i <= Len(u) THEN u[i] ELSE v[i - Len(u)]
  BY ConcatProperties
<1>3. \A i \in 1 .. Len(e) + Len(w) : (e \o w)[i] = IF i <= Len(e) THEN e[i] ELSE w[i - Len(e)]
  BY ConcatProperties
<1>4. Len(u) + Len(v) = Len(e) + Len(w)
  BY <1>0, <1>1
<1>5. At(u, 1, e)
  <2> SUFFICES ASSUME NEW i \in 1 .. Len(e), i <= Len(u) PROVE u[i] = e[i]
    <3>1. \A i \in 1 .. Len(e) : 1 + i - 1 = i
      BY <1>1
    <3> QED
      BY <3>1 DEF At
  <2>1. i \in 1 .. Len(u) + Len(v) /\ i \in 1 .. Len(e) + Len(w) /\ i <= Len(e)
    BY <1>1
  <2> QED
    BY <1>0, <1>2, <1>3, <2>1
<1>6. ASSUME Len(e) <= Len(u)
      PROVE  /\ SubSeq(u, Len(e) + 1, Len(u)) \in Seq(Bytes)
             /\ SubSeq(u, Len(e) + 1, Len(u)) \o v = w
  <2> DEFINE rest == SubSeq(u, Len(e) + 1, Len(u))
             m == Len(u) - Len(e)
  <2>1. /\ rest \in Seq(Bytes) /\ Len(rest) = m /\ m \in Nat
        /\ \A i \in 1 .. m : rest[i] = u[Len(e) + i]
    BY <1>1, <1>6
  <2> HIDE DEF rest
  <2>2. /\ rest \o v \in Seq(Bytes) /\ Len(rest \o v) = Len(w)
        /\ \A i \in 1 .. Len(w) : (rest \o v)[i] = IF i <= m THEN rest[i] ELSE v[i - m]
    BY SMTT(30), <1>1, <1>4, <2>1, ConcatProperties
  <2>3. ASSUME NEW i \in 1 .. Len(w) PROVE (rest \o v)[i] = w[i]
    <3>1. /\ Len(e) + i \in 1 .. Len(e) + Len(w) /\ Len(e) + i \in 1 .. Len(u) + Len(v)
          /\ ~(Len(e) + i <= Len(e)) /\ (Len(e) + i) - Len(e) = i
          /\ Len(e) + i <= Len(u) <=> i <= m
          /\ (Len(e) + i) - Len(u) = i - m
      BY <1>1, <1>4
    <3>2. w[i] = (u \o v)[Len(e) + i]
      BY <1>0, <1>3, <3>1
    <3>3. CASE i <= m
      <4>1. i \in 1 .. m
        BY <2>1, <3>3
      <4>2. (rest \o v)[i] = u[Len(e) + i]
        BY <2>1, <2>2, <3>3, <4>1
      <4>3. (u \o v)[Len(e) + i] = u[Len(e) + i]
        BY <1>2, <3>1, <3>3
      <4> QED
        BY <3>2, <4>2, <4>3
    <3>4. CASE ~(i <= m)
      <4>1. (rest \o v)[i] = v[i - m]
        BY <2>2, <3>4
      <4>2. (u \o v)[Len(e) + i] = v[i - m]
        BY <1>2, <3>1, <3>4
      <4> QED
        BY <3>2, <4>1, <4>2
    <3> QED
      BY <3>3, <3>4
  <2>4. rest \o v = w
    BY <2>2, <2>3, SameEntries
  <2> QED
    BY <2>1, <2>4 DEF rest
<1> QED
  BY <1>5, <1>6 DEF Joined, Remains

\* The end of a sequence, as SequencesExt has it.
LEMMA SuffixOf ==
  ASSUME NEW V, NEW u \in Seq(V), NEW v \in Seq(V), NEW w, w = u \o v, u # <<>>
  PROVE  IsStrictSuffix(v, w)
<1>1. /\ Len(u) \in Nat /\ Len(v) \in Nat /\ w \in Seq(V) /\ Len(w) = Len(u) + Len(v)
      /\ \A i \in 1 .. Len(v) : w[Len(u) + i] = v[i]
  OBVIOUS
<1>2. Len(u) # 0
  OBVIOUS
<1> DEFINE n == Len(v)
           m == Len(w)
           rv == Reverse(v)
           rw == Reverse(w)
<1>3. /\ rv \in Seq(V) /\ Len(rv) = n /\ \A i \in 1 .. n : rv[i] = v[(n - i) + 1]
  BY <1>1 DEF Reverse
<1>4. /\ rw \in Seq(V) /\ Len(rw) = m /\ \A i \in 1 .. m : rw[i] = w[(m - i) + 1]
  BY <1>1 DEF Reverse
<1>5. ASSUME NEW i \in 1 .. n PROVE rv[i] = rw[i]
  <2>1. i \in 1 .. m /\ (n - i) + 1 \in 1 .. n /\ Len(u) + ((n - i) + 1) = (m - i) + 1
    BY <1>1
  <2>2. w[(m - i) + 1] = v[(n - i) + 1]
    BY <1>1, <2>1
  <2> QED
    BY <1>3, <1>4, <2>1, <2>2
<1> HIDE DEF rv, rw
<1>6. SubSeq(rv, 1, n) = SubSeq(rw, 1, n)
  <2>1. SubSeq(rv, 1, n) \in Seq(V) /\ Len(SubSeq(rv, 1, n)) = n
        /\ \A i \in 1 .. n : SubSeq(rv, 1, n)[i] = rv[i]
    BY <1>1, <1>3
  <2>2. SubSeq(rw, 1, n) \in Seq(V) /\ Len(SubSeq(rw, 1, n)) = n
        /\ \A i \in 1 .. n : SubSeq(rw, 1, n)[i] = rw[i]
    BY <1>1, <1>4
  <2> QED
    BY <1>5, <2>1, <2>2, SameEntries
<1>7. IsPrefix(rv, rw)
  BY <1>1, <1>3, <1>4, <1>6 DEF IsPrefix
<1>8. v # w
  BY <1>1, <1>2
<1> QED
  BY <1>7, <1>8 DEF IsStrictSuffix, IsSuffix, rv, rw

-------------------------------------------------------------------------------
(* The bytes of a row of frames.                                           *)

\* One sequence more.
LEMMA FlattenAppend ==
  ASSUME NEW V, NEW seqs \in Seq(Seq(V)), NEW x \in Seq(V)
  PROVE  /\ FlattenSeq(seqs) \in Seq(V)
         /\ FlattenSeq(Append(seqs, x)) = FlattenSeq(seqs) \o x
<1> DEFINE more == Append(seqs, x)
<1>1. /\ more \in Seq(Seq(V)) /\ Len(seqs) \in Nat /\ Len(more) = Len(seqs) + 1
      /\ \A i \in 1 .. Len(seqs) : more[i] = seqs[i]
      /\ more[Len(seqs) + 1] = x
  BY AppendEntries
<1> HIDE DEF more
<1>2. PICK cat \in [0 .. Len(seqs) -> Seq(V)] :
        FlattenSeq(seqs) = cat[Len(seqs)] /\ Concatenates(cat, seqs)
  BY FlattenUnfold
<1>3. PICK next \in [0 .. Len(more) -> Seq(V)] :
        FlattenSeq(more) = next[Len(more)] /\ Concatenates(next, more)
  BY <1>1, FlattenUnfold
<1> DEFINE G == {n \in Nat : n <= Len(seqs) => next[n] = cat[n]}
<1>4. 0 \in G
  BY <1>2, <1>3 DEF Concatenates
<1>5. ASSUME NEW n \in G PROVE n + 1 \in G
  <2> SUFFICES ASSUME n + 1 <= Len(seqs) PROVE next[n + 1] = cat[n + 1]
    OBVIOUS
  <2>1. n + 1 \in 1 .. Len(seqs) /\ n + 1 \in 1 .. Len(more) /\ (n + 1) - 1 = n /\ next[n] = cat[n]
    BY <1>1
  <2>2. cat[n + 1] = cat[(n + 1) - 1] \o seqs[n + 1] /\ next[n + 1] = next[(n + 1) - 1] \o more[n + 1]
    BY <1>2, <1>3, <2>1 DEF Concatenates
  <2>3. more[n + 1] = seqs[n + 1]
    BY <1>1, <2>1
  <2> QED
    BY <2>1, <2>2, <2>3
<1> HIDE DEF G
<1>6. G = Nat
  BY <1>4, <1>5, SetInduction DEF G
<1>7. next[Len(seqs)] = cat[Len(seqs)]
  <2>1. Len(seqs) \in G /\ Len(seqs) <= Len(seqs)
    BY <1>1, <1>6
  <2> QED
    BY <2>1 DEF G
<1>8. next[Len(more)] = next[Len(seqs)] \o x
  <2>1. Len(more) \in 1 .. Len(more) /\ Len(more) - 1 = Len(seqs)
    BY <1>1
  <2>2. next[Len(more)] = next[Len(more) - 1] \o more[Len(more)]
    BY <1>3, <2>1 DEF Concatenates
  <2> QED
    BY <1>1, <2>1, <2>2
<1>9. FlattenSeq(seqs) \in Seq(V)
  <2>1. Len(seqs) \in 0 .. Len(seqs)
    BY <1>1
  <2> QED
    BY <1>2, <2>1
<1> QED
  BY <1>2, <1>3, <1>7, <1>8, <1>9 DEF more

\* One frame more.
LEMMA BytesAppend ==
  ASSUME NEW frames \in Seq(Frames), NEW f \in Frames
  PROVE  /\ BytesOf(frames) \in Seq(Bytes) /\ Encode(f) \in Seq(Bytes)
         /\ Len(Encode(f)) \in Nat \ {0}
         /\ BytesOf(Append(frames, f)) = BytesOf(frames) \o Encode(f)
<1> DEFINE seqs == [i \in DOMAIN frames |-> Encode(frames[i])]
           more == Append(frames, f)
           next == [i \in DOMAIN more |-> Encode(more[i])]
<1>1. \A g \in Frames : Encode(g) \in Seq(Bytes) /\ Len(Encode(g)) \in Nat \ {0}
  BY ConnectionAssumption, FrameEncoding
<1>2. /\ DOMAIN frames = 1 .. Len(frames) /\ Len(frames) \in Nat
      /\ \A i \in 1 .. Len(frames) : frames[i] \in Frames
  OBVIOUS
<1>3. /\ DOMAIN more = 1 .. Len(frames) + 1 /\ more[Len(frames) + 1] = f
      /\ \A i \in 1 .. Len(frames) : more[i] = frames[i]
  BY AppendEntries
<1> HIDE DEF more
<1>4. /\ seqs \in Seq(Seq(Bytes)) /\ Len(seqs) = Len(frames)
      /\ \A i \in 1 .. Len(frames) : seqs[i] = Encode(frames[i])
  BY <1>1, <1>2
<1>5. /\ next \in Seq(Seq(Bytes)) /\ Len(next) = Len(frames) + 1
      /\ \A i \in 1 .. Len(frames) : next[i] = Encode(frames[i])
      /\ next[Len(frames) + 1] = Encode(f)
  <2>1. \A i \in 1 .. Len(frames) + 1 : more[i] \in Frames
    <3>1. ASSUME NEW i \in 1 .. Len(frames) + 1 PROVE more[i] \in Frames
      <4>1. i \in 1 .. Len(frames) \/ i = Len(frames) + 1
        BY <1>2
      <4> QED
        BY <1>2, <1>3, <4>1
    <3> QED
      BY <3>1
  <2>2. next = [i \in 1 .. Len(frames) + 1 |-> Encode(more[i])]
    BY <1>3
  <2>3. Len(frames) + 1 \in 1 .. Len(frames) + 1 /\ 1 .. Len(frames) \subseteq 1 .. Len(frames) + 1
    BY <1>2
  <2> HIDE DEF next
  <2> QED
    BY <1>1, <1>2, <1>3, <2>1, <2>2, <2>3
<1> HIDE DEF seqs, next
<1>6. next = Append(seqs, Encode(f))
  <2>1. /\ Append(seqs, Encode(f)) \in Seq(Seq(Bytes)) /\ Len(Append(seqs, Encode(f))) = Len(frames) + 1
        /\ \A i \in 1 .. Len(frames) : Append(seqs, Encode(f))[i] = seqs[i]
        /\ Append(seqs, Encode(f))[Len(frames) + 1] = Encode(f)
    BY <1>1, <1>4, AppendEntries
  <2>2. \A i \in 1 .. Len(frames) + 1 : Append(seqs, Encode(f))[i] = next[i]
    <3>1. ASSUME NEW i \in 1 .. Len(frames) + 1 PROVE Append(seqs, Encode(f))[i] = next[i]
      <4>1. i \in 1 .. Len(frames) \/ i = Len(frames) + 1
        BY <1>2
      <4> QED
        BY <1>4, <1>5, <2>1, <4>1
    <3> QED
      BY <3>1
  <2> QED
    BY <1>5, <2>1, <2>2, SameEntries
<1>7. FlattenSeq(seqs) \in Seq(Bytes) /\ FlattenSeq(next) = FlattenSeq(seqs) \o Encode(f)
  BY <1>1, <1>4, <1>6, FlattenAppend
<1> QED
  BY <1>1, <1>7 DEF BytesOf, seqs, next, more

\* No frame, and what is left of a row behind its first frames: the next frame,
\* and at least the last one if that is another.
LEMMA BytesNone == BytesOf(<<>>) = <<>>
BY DEF BytesOf, FlattenSeq

\* The bytes of frames: those of the first n, those of the next, the rest.
LEMMA BytesSplit ==
  ASSUME NEW frames \in Seq(Frames), NEW n \in Nat, n < Len(frames)
  PROVE  \E rest \in Seq(Bytes) :
           /\ BytesOf(frames) = BytesOf(SubSeq(frames, 1, n)) \o (Encode(frames[n + 1]) \o rest)
           /\ n + 1 = Len(frames) => rest = <<>>
           /\ n + 1 < Len(frames) => Len(rest) >= Len(Encode(frames[Len(frames)]))
<1> DEFINE first(j) == SubSeq(frames, 1, j)
           head == BytesOf(first(n))
           e == Encode(frames[n + 1])
           Split(j, rest) ==
             /\ BytesOf(first(j)) = head \o (e \o rest)
             /\ n + 1 = j => rest = <<>>
             /\ n + 1 < j => Len(rest) >= Len(Encode(frames[j]))
           G == {j \in Nat : j \in n + 1 .. Len(frames) => \E rest \in Seq(Bytes) : Split(j, rest)}
<1>1. Len(frames) \in Nat /\ \A j \in 1 .. Len(frames) : frames[j] \in Frames
  OBVIOUS
<1>2. ASSUME NEW j \in Nat, j < Len(frames)
      PROVE  /\ first(j) \in Seq(Frames) /\ frames[j + 1] \in Frames
             /\ first(j + 1) = Append(first(j), frames[j + 1])
             /\ BytesOf(first(j)) \in Seq(Bytes) /\ Encode(frames[j + 1]) \in Seq(Bytes)
             /\ Len(Encode(frames[j + 1])) \in Nat \ {0}
             /\ BytesOf(first(j + 1)) = BytesOf(first(j)) \o Encode(frames[j + 1])
  <2>1. j + 1 \in 1 .. Len(frames)
    BY <1>1, <1>2
  <2>2. first(j) \in Seq(Frames) /\ frames[j + 1] \in Frames
    BY <1>1, <1>2, <2>1
  <2>3. first(j + 1) = Append(first(j), frames[j + 1])
    <3>1. /\ first(j + 1) \in Seq(Frames) /\ Len(first(j + 1)) = j + 1
          /\ \A i \in 1 .. j + 1 : first(j + 1)[i] = frames[i]
      BY <1>1, <1>2, <2>1
    <3>2. /\ Len(first(j)) = j /\ \A i \in 1 .. j : first(j)[i] = frames[i]
      BY <1>1, <1>2
    <3> HIDE DEF first
    <3>3. /\ Append(first(j), frames[j + 1]) \in Seq(Frames)
          /\ Len(Append(first(j), frames[j + 1])) = j + 1
          /\ \A i \in 1 .. j : Append(first(j), frames[j + 1])[i] = frames[i]
          /\ Append(first(j), frames[j + 1])[j + 1] = frames[j + 1]
      BY <2>2, <3>2, AppendEntries
    <3>4. \A i \in 1 .. j + 1 : i \in 1 .. j \/ i = j + 1
      OBVIOUS
    <3>5. \A i \in 1 .. j + 1 : first(j + 1)[i] = Append(first(j), frames[j + 1])[i]
      BY <3>1, <3>3, <3>4
    <3> QED
      BY <3>1, <3>3, <3>5, SameEntries
  <2> HIDE DEF first
  <2> QED
    BY <2>2, <2>3, BytesAppend
<1> HIDE DEF first
<1>3. head \in Seq(Bytes) /\ e \in Seq(Bytes)
  BY <1>2
<1>4. 0 \in G
  BY <1>1
<1>5. ASSUME NEW j \in G PROVE j + 1 \in G
  <2> SUFFICES ASSUME j + 1 \in n + 1 .. Len(frames)
               PROVE  \E rest \in Seq(Bytes) : Split(j + 1, rest)
    <3>1. j + 1 \in Nat
      OBVIOUS
    <3> HIDE DEF Split
    <3> QED
      BY <3>1
  <2>1. j \in Nat /\ j < Len(frames) /\ j >= n
    BY <1>1
  <2> DEFINE x == Encode(frames[j + 1])
  <2>2. /\ x \in Seq(Bytes) /\ BytesOf(first(j)) \in Seq(Bytes)
        /\ BytesOf(first(j + 1)) = BytesOf(first(j)) \o x
    BY <1>2, <2>1
  <2>3. CASE j = n
    <3>1. /\ e \o <<>> = e /\ <<>> \in Seq(Bytes)
      BY <1>3
    <3>2. Split(j + 1, <<>>)
      BY <2>2, <2>3, <3>1
    <3> QED
      BY <3>1, <3>2
  <2>4. CASE j # n
    <3>1. j \in n + 1 .. Len(frames)
      BY <1>1, <2>1, <2>4
    <3>2. PICK rest \in Seq(Bytes) : BytesOf(first(j)) = head \o (e \o rest)
      BY <3>1
    <3>3. head \o (e \o (rest \o x)) = (head \o (e \o rest)) \o x
      <4> HIDE DEF head, e, x
      <4>1. x \in Seq(Bytes) /\ head \in Seq(Bytes) /\ e \in Seq(Bytes) /\ rest \in Seq(Bytes)
        BY <1>3, <2>2
      <4>2. Joined(head, Joined(e, Joined(rest, x))) = Joined(Joined(head, Joined(e, rest)), x)
        BY <4>1, JoinedParts
      <4> QED
        BY <4>2 DEF Joined
    <3>4. rest \o x \in Seq(Bytes) /\ Len(rest \o x) >= Len(x)
      <4> HIDE DEF x
      <4>1. Len(rest \o x) = Len(rest) + Len(x) /\ Len(rest) \in Nat /\ Len(x) \in Nat
        BY <2>2
      <4> QED
        BY <2>2, <4>1
    <3>5. n + 1 # j + 1
      BY <2>4, <2>1
    <3>6. Split(j + 1, rest \o x)
      BY <2>2, <3>2, <3>3, <3>4, <3>5
    <3> QED
      BY <3>4, <3>6
  <2> QED
    BY <2>3, <2>4
<1> HIDE DEF G
<1>6. G = Nat
  BY <1>4, <1>5, SetInduction DEF G
<1>7. \E rest \in Seq(Bytes) : Split(Len(frames), rest)
  <2>1. Len(frames) \in G /\ Len(frames) \in n + 1 .. Len(frames)
    BY <1>1, <1>6
  <2> HIDE DEF Split
  <2> QED
    BY <2>1 DEF G
<1>8. first(Len(frames)) = frames
  BY SubSeqFull DEF first
<1> QED
  BY <1>7, <1>8 DEF first

-------------------------------------------------------------------------------
(* The inductive invariant.                                                *)

\* The bytes that have been written and not been taken as a frame.
Behind == socket \o (stream \o lost)
Waiting == buffer \o Behind

Types ==
  /\ sent \in Seq(Frames)
  /\ stream \in Seq(Bytes) /\ lost \in Seq(Bytes)
  /\ socket \in Seq(Bytes) /\ buffer \in Seq(Bytes)
  /\ open \in BOOLEAN
  /\ pc \in {"caller", "parse", "read"}
  /\ result \in {"none", "end", "reset", "failed"}

\* The frames received are the first of those sent, and the bytes of the others
\* are on their way or lost.
InOrder ==
  /\ Len(received) \in Nat /\ Len(received) <= Len(sent)
  /\ received = SubSeq(sent, 1, Len(received))
  /\ BytesOf(received) \o Waiting = BytesOf(sent)

\* Only a drop of the writer loses bytes, and none but of the last frame: the
\* flush before it has emptied the write buffer.
Unflushed ==
  /\ open => lost = <<>>
  /\ ~open => stream = <<>>
  /\ \/ stream \o lost = <<>>
     \/ /\ sent # <<>>
        /\ \E flushed \in Seq(Bytes) :
             Encode(sent[Len(sent)]) = flushed \o (stream \o lost)

\* The reader waits for bytes only when its buffer holds no whole frame, and
\* the end it reports is the end of the socket.
Ended ==
  /\ pc # "caller" => result = "none"
  /\ pc = "read" => ParseFrame(buffer).tag = "Wait"
  /\ result \in {"end", "reset"} =>
       /\ ~open /\ socket = <<>> /\ ParseFrame(buffer).tag = "Wait"
       /\ result = "end" <=> buffer = <<>>

StreamInvariant == Types /\ InOrder /\ Unflushed /\ Ended

-------------------------------------------------------------------------------
(* What lies ahead of the reader.                                          *)

\* The parts of the stream are bytes.
LEMMA WaitingTyped ==
  ASSUME Types
  PROVE  Behind \in Seq(Bytes) /\ Waiting \in Seq(Bytes) /\ stream \o lost \in Seq(Bytes)
<1>1. stream \o lost \in Seq(Bytes)
  BY DEF Types
<1>2. Behind \in Seq(Bytes)
  BY <1>1 DEF Types, Behind
<1>3. Waiting \in Seq(Bytes)
  BY <1>2 DEF Types, Waiting
<1> QED
  BY <1>1, <1>2, <1>3

\* So are the encodings of the frames.
LEMMA ReceivedTyped ==
  ASSUME Types, InOrder
  PROVE  /\ received \in Seq(Frames) /\ BytesOf(received) \in Seq(Bytes)
         /\ BytesOf(sent) \in Seq(Bytes) /\ Len(sent) \in Nat
         /\ \A i \in 1 .. Len(sent) : /\ sent[i] \in Frames /\ Encode(sent[i]) \in Seq(Bytes)
                                      /\ Len(Encode(sent[i])) \in Nat \ {0}
<1>0. Len(sent) \in Nat /\ \A i \in 1 .. Len(sent) : sent[i] \in Frames
  BY DEF Types
<1>1. received \in Seq(Frames) /\ Len(sent) \in Nat /\ \A i \in 1 .. Len(sent) : sent[i] \in Frames
  <2>1. Len(received) \in 0 .. Len(sent)
    BY <1>0 DEF InOrder
  <2>2. SubSeq(sent, 1, Len(received)) \in Seq(Frames)
    BY <2>1, CutAt DEF Types
  <2> QED
    BY <1>0, <2>2 DEF InOrder
<1>2. BytesOf(<<>>) \in Seq(Bytes)
  <2>1. <<>> \in Seq(Bytes)
    OBVIOUS
  <2> QED
    BY <2>1, BytesNone
<1>3. \A f \in Frames : /\ BytesOf(received) \in Seq(Bytes) /\ BytesOf(sent) \in Seq(Bytes)
                        /\ Encode(f) \in Seq(Bytes) /\ Len(Encode(f)) \in Nat \ {0}
  BY <1>1, BytesAppend DEF Types
<1>4. CASE Frames = {}
  <2>1. sent = <<>> /\ received = <<>>
    BY <1>1, <1>4 DEF Types
  <2> QED
    BY <1>1, <1>2, <2>1
<1>5. CASE Frames # {}
  BY <1>1, <1>3, <1>5
<1> QED
  BY <1>4, <1>5

\* Either every frame is received and no byte is left, or the bytes of the next
\* frame come first, and the last frame of several comes whole behind it.
LEMMA FrameAhead ==
  ASSUME Types, InOrder
  PROVE  \/ received = sent /\ Len(received) = Len(sent) /\ Waiting = <<>>
         \/ /\ Len(received) < Len(sent)
            /\ \E rest \in Seq(Bytes) :
                 /\ Waiting = Encode(sent[Len(received) + 1]) \o rest
                 /\ Len(received) + 1 = Len(sent) => rest = <<>>
                 /\ Len(received) + 1 < Len(sent) => Len(rest) >= Len(Encode(sent[Len(sent)]))
<1> DEFINE n == Len(received)
<1>1. /\ received \in Seq(Frames) /\ BytesOf(received) \in Seq(Bytes)
      /\ Waiting \in Seq(Bytes) /\ sent \in Seq(Frames) /\ n \in Nat /\ n <= Len(sent)
      /\ received = SubSeq(sent, 1, n) /\ BytesOf(received) \o Waiting = BytesOf(sent)
      /\ Len(sent) \in Nat
  BY ReceivedTyped, WaitingTyped DEF Types, InOrder
<1>2. CASE n = Len(sent)
  <2>1. received = sent
    BY <1>1, <1>2, SubSeqFull
  <2>2. Joined(BytesOf(received), Waiting) = BytesOf(received)
    BY <1>1, <2>1 DEF Joined
  <2>3. Waiting = <<>>
    BY <1>1, <2>2, JoinedParts
  <2> QED
    BY <1>2, <2>1, <2>3
<1>3. CASE n < Len(sent)
  <2>1. PICK rest \in Seq(Bytes) :
          /\ BytesOf(sent) = BytesOf(received) \o (Encode(sent[n + 1]) \o rest)
          /\ n + 1 = Len(sent) => rest = <<>>
          /\ n + 1 < Len(sent) => Len(rest) >= Len(Encode(sent[Len(sent)]))
    BY <1>1, <1>3, BytesSplit
  <2>2. Encode(sent[n + 1]) \o rest \in Seq(Bytes)
    <3>1. n + 1 \in 1 .. Len(sent)
      BY <1>1, <1>3
    <3>2. Encode(sent[n + 1]) \in Seq(Bytes)
      BY <3>1, ReceivedTyped
    <3> QED
      BY <3>2
  <2>3. Joined(BytesOf(received), Waiting) = Joined(BytesOf(received), Encode(sent[n + 1]) \o rest)
    BY <1>1, <2>1 DEF Joined
  <2>4. Waiting = Encode(sent[n + 1]) \o rest
    BY <1>1, <2>2, <2>3, JoinedLeft
  <2> QED
    BY <1>3, <2>1, <2>4
<1>4. n = Len(sent) \/ n < Len(sent)
  BY <1>1
<1> QED
  BY <1>2, <1>3, <1>4

\* parse_frame waits, or it takes the next frame and leaves the bytes behind it.
LEMMA Decides ==
  ASSUME Types, InOrder
  PROVE  \/ /\ ParseFrame(buffer) = [tag |-> "Wait"]
            /\ buffer # <<>> => /\ Len(received) < Len(sent)
                                /\ Len(buffer) < Len(Encode(sent[Len(received) + 1]))
         \/ /\ Len(received) < Len(sent)
            /\ \E left \in Seq(Bytes) :
                 /\ ParseFrame(buffer) = Got(sent[Len(received) + 1], left)
                 /\ Waiting = Encode(sent[Len(received) + 1]) \o (left \o Behind)
<1> DEFINE f == sent[Len(received) + 1]
<1>1. buffer \in Seq(Bytes) /\ Behind \in Seq(Bytes)
  BY WaitingTyped DEF Types
<1>2. CASE received = sent /\ Waiting = <<>>
  <2>1. buffer = <<>>
    BY <1>1, <1>2 DEF Waiting
  <2> QED
    BY <2>1, NothingDecoded
<1>3. ASSUME Len(received) < Len(sent), NEW rest \in Seq(Bytes), Waiting = Encode(f) \o rest
      PROVE  \/ /\ ParseFrame(buffer) = [tag |-> "Wait"]
                /\ Len(buffer) < Len(Encode(f))
             \/ \E left \in Seq(Bytes) :
                  /\ ParseFrame(buffer) = Got(f, left)
                  /\ Waiting = Encode(f) \o (left \o Behind)
  <2>1. Len(received) + 1 \in 1 .. Len(sent)
    BY <1>3, ReceivedTyped DEF InOrder
  <2>2. f \in Frames /\ Encode(f) \in Seq(Bytes) /\ Len(Encode(f)) \in Nat \ {0}
    BY <2>1, ReceivedTyped
  <2> DEFINE left == SubSeq(buffer, Len(Encode(f)) + 1, Len(buffer))
  <2>3. buffer \o Behind = Encode(f) \o rest
    BY <1>3 DEF Waiting
  <2> HIDE DEF f
  <2>4. /\ At(buffer, 1, Encode(f))
        /\ Len(Encode(f)) <= Len(buffer) => left \in Seq(Bytes) /\ left \o Behind = rest
    <3>1. Encode(f) \in Seq(Bytes)
      BY <2>2
    <3>2. Joined(buffer, Behind) = Joined(Encode(f), rest)
      BY <2>3 DEF Joined
    <3>3. /\ At(buffer, 1, Encode(f))
          /\ Len(Encode(f)) <= Len(buffer) =>
               /\ Remains(buffer, Encode(f)) \in Seq(Bytes)
               /\ Joined(Remains(buffer, Encode(f)), Behind) = rest
      BY <1>1, <3>1, <3>2, JoinedApart
    <3> QED
      BY <3>3 DEF Joined, Remains
  <2>5. IsWritable(f) /\ Marks \subseteq Bytes
    BY <2>2, ConnectionAssumption
  <2>6. ParseFrame(buffer) = IF Len(Encode(f)) <= Len(buffer) THEN Got(f, left) ELSE [tag |-> "Wait"]
    BY <1>1, <2>4, <2>5, FrameDecoded
  <2>7. Len(buffer) \in Nat
    BY <1>1
  <2> HIDE DEF left
  <2>8. CASE Len(Encode(f)) <= Len(buffer)
    BY <1>3, <2>4, <2>6, <2>8
  <2>9. CASE ~(Len(Encode(f)) <= Len(buffer))
    BY <2>2, <2>6, <2>7, <2>9
  <2> QED
    BY <2>8, <2>9
<1> QED
  BY <1>2, <1>3, FrameAhead

-------------------------------------------------------------------------------
(* The invariant is inductive.                                             *)

\* Nothing is written, under way or received.
LEMMA InitStream == Init => StreamInvariant
<1> SUFFICES ASSUME Init PROVE StreamInvariant
  OBVIOUS
<1>1. <<>> \in Seq(Bytes) /\ <<>> \in Seq(Frames) /\ Len(<<>>) = 0
  OBVIOUS
<1>2. Types
  BY <1>1 DEF Init, Types
<1>3. InOrder
  <2>1. Waiting = <<>>
    BY DEF Init, Waiting, Behind
  <2>2. SubSeq(sent, 1, Len(received)) = <<>>
    BY DEF Init
  <2>3. BytesOf(received) = <<>> /\ BytesOf(sent) = <<>> /\ <<>> \o <<>> = <<>>
    BY BytesNone DEF Init
  <2> QED
    BY <1>1, <2>1, <2>2, <2>3 DEF Init, InOrder
<1>4. Unflushed
  <2>1. stream \o lost = <<>>
    BY DEF Init
  <2> QED
    BY <2>1 DEF Init, Unflushed
<1>5. Ended
  BY DEF Init, Ended
<1> QED
  BY <1>2, <1>3, <1>4, <1>5 DEF StreamInvariant

\* A frame is written when the write buffer is empty.
LEMMA WriteFrameStream ==
  ASSUME StreamInvariant, WriteFrame
  PROVE  StreamInvariant'
<1> USE DEF StreamInvariant
<1>1. PICK f \in Frames : sent' = Append(sent, f) /\ stream' = Encode(f)
  BY DEF WriteFrame
<1>2. /\ open /\ stream = <<>> /\ lost = <<>> /\ open' = open /\ lost' = lost
      /\ socket' = socket /\ buffer' = buffer /\ pc' = pc /\ received' = received
      /\ result' = result
  BY DEF WriteFrame, Unflushed
<1>3. /\ Encode(f) \in Seq(Bytes) /\ BytesOf(sent) \in Seq(Bytes)
      /\ BytesOf(Append(sent, f)) = BytesOf(sent) \o Encode(f)
  BY BytesAppend DEF Types
<1>4. Types'
  <2>1. Append(sent, f) \in Seq(Frames)
    BY DEF Types
  <2> QED
    BY <1>1, <1>2, <1>3, <2>1 DEF Types
<1>5. InOrder'
  <2> DEFINE n == Len(received)
  <2>1. /\ n \in Nat /\ n <= Len(sent) /\ Len(sent) \in Nat /\ sent \in Seq(Frames)
        /\ received = SubSeq(sent, 1, n) /\ BytesOf(received) \in Seq(Bytes)
    BY ReceivedTyped DEF InOrder, Types
  <2>2. /\ Len(Append(sent, f)) = Len(sent) + 1
        /\ SubSeq(Append(sent, f), 1, n) = SubSeq(sent, 1, n)
    <3>1. /\ Append(sent, f) \in Seq(Frames) /\ Len(Append(sent, f)) = Len(sent) + 1
          /\ \A i \in 1 .. Len(sent) : Append(sent, f)[i] = sent[i]
      BY <2>1, AppendEntries
    <3>2. /\ SubSeq(sent, 1, n) \in Seq(Frames) /\ Len(SubSeq(sent, 1, n)) = n
          /\ \A i \in 1 .. n : SubSeq(sent, 1, n)[i] = sent[i]
      BY <2>1
    <3> DEFINE more == Append(sent, f)
    <3> HIDE DEF more
    <3>3. more \in Seq(Frames) /\ n <= Len(more) /\ Len(more) \in Nat
      BY <2>1, <3>1 DEF more
    <3>4. /\ SubSeq(more, 1, n) \in Seq(Frames) /\ Len(SubSeq(more, 1, n)) = n
          /\ \A i \in 1 .. n : SubSeq(more, 1, n)[i] = more[i]
      BY <2>1, <3>3
    <3>5. \A i \in 1 .. n : SubSeq(more, 1, n)[i] = SubSeq(sent, 1, n)[i]
      BY <2>1, <3>1, <3>2, <3>4 DEF more
    <3>6. SubSeq(more, 1, n) = SubSeq(sent, 1, n)
      BY <3>2, <3>4, <3>5, SameEntries
    <3> QED
      BY <3>1, <3>6 DEF more
  <2>3. BytesOf(received) \o Waiting' = BytesOf(sent) \o Encode(f)
    <3> DEFINE e == Encode(f)
               got == BytesOf(received)
               all == BytesOf(sent)
    <3>1. Joined(got, Joined(buffer, Joined(socket, Joined(<<>>, <<>>)))) = all
      BY <1>2 DEF InOrder, Joined, Waiting, Behind
    <3>2. /\ got \in Seq(Bytes) /\ e \in Seq(Bytes) /\ all \in Seq(Bytes)
          /\ buffer \in Seq(Bytes) /\ socket \in Seq(Bytes)
      BY <1>3, <2>1 DEF Types
    <3>3. Waiting' = Joined(buffer, Joined(socket, Joined(e, <<>>)))
      BY <1>1, <1>2 DEF Waiting, Behind, Joined
    <3> HIDE DEF e, got, all
    <3>4. Joined(got, Joined(buffer, socket)) = all
      BY <3>1, <3>2, JoinedParts
    <3>5. Joined(got, Joined(buffer, Joined(socket, e))) = Joined(all, e)
      BY <3>2, <3>4, JoinedParts
    <3>6. Joined(got, Joined(buffer, Joined(socket, Joined(e, <<>>)))) = Joined(all, e)
      BY <3>2, <3>5, JoinedParts
    <3> QED
      BY <3>3, <3>6 DEF Joined, e, got, all
  <2> QED
    BY <1>1, <1>2, <1>3, <2>1, <2>2, <2>3 DEF InOrder
<1>6. Unflushed'
  <2>1. sent' # <<>> /\ sent'[Len(sent')] = f
    BY <1>1, AppendEntries DEF Types
  <2>2. Encode(f) = <<>> \o (Encode(f) \o <<>>) /\ <<>> \in Seq(Bytes)
    BY <1>3
  <2> QED
    BY <1>1, <1>2, <2>1, <2>2 DEF Unflushed
<1>7. Ended'
  BY <1>2 DEF Ended
<1> QED
  BY <1>4, <1>5, <1>6, <1>7

\* A write to the socket moves bytes from one buffer to the next.
LEMMA FlushStream ==
  ASSUME StreamInvariant, Flush
  PROVE  StreamInvariant'
<1> USE DEF StreamInvariant
<1>1. PICK n \in 1 .. Len(stream) : /\ socket' = socket \o SubSeq(stream, 1, n)
                                    /\ stream' = SubSeq(stream, n + 1, Len(stream))
  BY DEF Flush
<1>2. /\ sent' = sent /\ open' = open /\ lost' = lost /\ buffer' = buffer
      /\ pc' = pc /\ received' = received /\ result' = result
  BY DEF Flush
<1> DEFINE a == SubSeq(stream, 1, n)
           b == SubSeq(stream, n + 1, Len(stream))
<1>3. a \in Seq(Bytes) /\ b \in Seq(Bytes) /\ a \o b = stream /\ stream # <<>>
  <2>1. n \in 0 .. Len(stream) /\ stream \in Seq(Bytes) /\ stream # <<>>
    BY DEF Types
  <2> QED
    BY <2>1, CutAt
<1>4. open /\ lost = <<>>
  BY <1>3 DEF Unflushed, Types
<1>5. socket' = socket \o a /\ stream' = b
  BY <1>1
<1> HIDE DEF a, b
<1>6. socket \in Seq(Bytes) /\ lost \in Seq(Bytes) /\ socket' \in Seq(Bytes)
  BY <1>3, <1>5 DEF Types
<1>7. Types'
  BY <1>2, <1>3, <1>5, <1>6 DEF Types
<1>8. Behind' = Behind
  <2>1. Behind = Joined(socket, Joined(Joined(a, b), lost))
    BY <1>3 DEF Behind, Joined
  <2>2. Behind' = Joined(Joined(socket, a), Joined(b, lost))
    BY <1>2, <1>5 DEF Behind, Joined
  <2> QED
    BY <1>3, <1>6, <2>1, <2>2, JoinedParts
<1>9. InOrder'
  BY <1>2, <1>8 DEF InOrder, Waiting
<1>10. Unflushed'
  <2>1. stream \o lost # <<>>
    BY <1>3, <1>4 DEF Types
  <2>2. PICK flushed \in Seq(Bytes) : Encode(sent[Len(sent)]) = flushed \o (stream \o lost)
    BY <2>1 DEF Unflushed
  <2>3. sent # <<>>
    BY <2>1 DEF Unflushed
  <2>4. Encode(sent[Len(sent)]) = Joined(flushed, Joined(Joined(a, b), lost))
    BY <1>3, <2>2 DEF Joined
  <2>5. Encode(sent[Len(sent)]) = Joined(Joined(flushed, a), Joined(b, lost))
    BY <1>3, <1>6, <2>4, JoinedParts
  <2>6. Joined(flushed, a) \in Seq(Bytes)
    BY <1>3, JoinedParts
  <2> QED
    BY <1>2, <1>4, <1>5, <2>3, <2>5, <2>6 DEF Unflushed, Joined
<1>11. Ended'
  BY <1>2, <1>4 DEF Ended
<1> QED
  BY <1>7, <1>9, <1>10, <1>11

\* A drop of the writer loses what its write buffer holds.
LEMMA DropWriterStream ==
  ASSUME StreamInvariant, DropWriter
  PROVE  StreamInvariant'
<1> USE DEF StreamInvariant
<1>1. /\ open /\ lost = <<>> /\ ~open' /\ lost' = stream /\ stream' = <<>>
      /\ sent' = sent /\ socket' = socket /\ buffer' = buffer /\ pc' = pc
      /\ received' = received /\ result' = result
  BY DEF DropWriter, Unflushed
<1>2. stream \o <<>> = stream /\ <<>> \o stream = stream /\ <<>> \in Seq(Bytes)
  BY DEF Types
<1>3. Types'
  BY <1>1, <1>2 DEF Types, DropWriter
<1>4. stream' \o lost' = stream \o lost
  BY <1>1, <1>2
<1>5. InOrder'
  <2>1. Waiting' = Waiting
    BY <1>1, <1>4 DEF Waiting, Behind
  <2> QED
    BY <1>1, <2>1 DEF InOrder
<1>6. Unflushed'
  BY <1>1, <1>4 DEF Unflushed
<1>7. Ended'
  BY <1>1 DEF Ended
<1> QED
  BY <1>3, <1>5, <1>6, <1>7

\* The caller asks for a frame.
LEMMA ReadFrameStream ==
  ASSUME StreamInvariant, ReadFrame
  PROVE  StreamInvariant'
<1> USE DEF StreamInvariant
<1>1. /\ pc' = "parse" /\ result = "none" /\ open' = open /\ socket' = socket
      /\ buffer' = buffer /\ received' = received /\ result' = result
      /\ sent' = sent /\ stream' = stream /\ lost' = lost
  BY DEF ReadFrame, writer
<1>2. Types'
  BY <1>1 DEF Types
<1>3. InOrder'
  BY <1>1 DEF InOrder, Waiting, Behind
<1>4. Unflushed'
  BY <1>1 DEF Unflushed
<1>5. Ended'
  BY <1>1 DEF Ended
<1> QED
  BY <1>2, <1>3, <1>4, <1>5

\* parse_frame takes the next frame of the stream or finds none whole, and it
\* never meets an error.
LEMMA TakeStream ==
  ASSUME StreamInvariant, Take
  PROVE  StreamInvariant'
<1> USE DEF StreamInvariant
<1>1. /\ pc = "parse" /\ result = "none"
      /\ sent' = sent /\ stream' = stream /\ open' = open /\ lost' = lost /\ socket' = socket
  BY DEF Take, writer, Ended
<1>2. Behind' = Behind /\ Behind \in Seq(Bytes) /\ buffer \in Seq(Bytes)
  BY <1>1, WaitingTyped DEF Behind, Types
<1>3. Unflushed'
  BY <1>1 DEF Unflushed
<1>4. CASE ParseFrame(buffer) = [tag |-> "Wait"]
  <2>1. ParseFrame(buffer).tag = "Wait"
    BY <1>4
  <2>2. pc' = "read" /\ buffer' = buffer /\ received' = received /\ result' = result
    BY <2>1 DEF Take
  <2>3. Types'
    BY <1>1, <2>2 DEF Types
  <2>4. InOrder'
    BY <1>1, <1>2, <2>2 DEF InOrder, Waiting
  <2>5. Ended'
    BY <1>1, <2>1, <2>2 DEF Ended
  <2> QED
    BY <1>3, <2>3, <2>4, <2>5
<1>5. ASSUME Len(received) < Len(sent), NEW left \in Seq(Bytes),
             ParseFrame(buffer) = Got(sent[Len(received) + 1], left),
             Waiting = Encode(sent[Len(received) + 1]) \o (left \o Behind)
      PROVE  StreamInvariant'
  <2> DEFINE n == Len(received)
             f == sent[n + 1]
             e == Encode(f)
             got == BytesOf(received)
  <2>1. /\ ParseFrame(buffer).tag = "Got" /\ ParseFrame(buffer).frame = f
        /\ ParseFrame(buffer).rest = left
    BY <1>5 DEF Got
  <2>2. pc' = "caller" /\ buffer' = left /\ received' = Append(received, f) /\ result' = result
    BY <2>1 DEF Take
  <2>3. /\ n \in Nat /\ Len(sent) \in Nat /\ n + 1 \in 1 .. Len(sent) /\ n + 1 <= Len(sent)
        /\ sent \in Seq(Frames) /\ received \in Seq(Frames) /\ got \in Seq(Bytes)
        /\ received = SubSeq(sent, 1, n) /\ got \o Waiting = BytesOf(sent)
    BY SMTT(30), <1>5, ReceivedTyped DEF InOrder, Types
  <2>4. f \in Frames /\ e \in Seq(Bytes)
    BY <2>3, ReceivedTyped
  <2>5. Types'
    BY <1>1, <1>5, <2>2 DEF Types
  <2> HIDE DEF f
  <2>6. Append(received, f) = SubSeq(sent, 1, n + 1) /\ Len(Append(received, f)) = n + 1
    <3>1. /\ Append(received, f) \in Seq(Frames) /\ Len(Append(received, f)) = n + 1
          /\ Append(received, f)[n + 1] = f
          /\ \A i \in 1 .. n : Append(received, f)[i] = received[i]
      BY <2>3, <2>4, AppendEntries
    <3>2. /\ SubSeq(sent, 1, n + 1) \in Seq(Frames) /\ Len(SubSeq(sent, 1, n + 1)) = n + 1
          /\ \A i \in 1 .. n + 1 : SubSeq(sent, 1, n + 1)[i] = sent[i]
      BY <2>3
    <3>3. \A i \in 1 .. n : received[i] = sent[i]
      BY <2>3
    <3>4. ASSUME NEW i \in 1 .. n + 1 PROVE Append(received, f)[i] = sent[i]
      <4>1. i = n + 1 \/ i \in 1 .. n
        BY <2>3
      <4> QED
        BY <3>1, <3>3, <4>1 DEF f
    <3> QED
      BY <3>1, <3>2, <3>4, SameEntries
  <2>7. BytesOf(Append(received, f)) = got \o e
    BY <2>3, <2>4, BytesAppend
  <2>8. (got \o e) \o Waiting' = BytesOf(sent)
    <3> HIDE DEF got, e
    <3>1. Waiting' = Joined(left, Behind) /\ Waiting = Joined(e, Joined(left, Behind))
      BY <1>2, <1>5, <2>2 DEF Waiting, Joined, e, f
    <3>2. Joined(got, Joined(e, Joined(left, Behind))) = BytesOf(sent)
      BY <2>3, <3>1 DEF Joined
    <3>3. Joined(Joined(got, e), Joined(left, Behind)) = BytesOf(sent)
      BY <1>2, <1>5, <2>3, <2>4, <3>2, JoinedParts
    <3> QED
      BY <3>1, <3>3 DEF Joined
  <2>9. InOrder'
    <3>1. Len(received') = n + 1 /\ n + 1 \in Nat /\ n + 1 <= Len(sent')
      BY <1>1, <2>2, <2>3, <2>6
    <3>2. received' = SubSeq(sent', 1, Len(received'))
      BY <1>1, <2>2, <2>6
    <3>3. BytesOf(received') \o Waiting' = BytesOf(sent')
      BY <1>1, <2>2, <2>7, <2>8
    <3> QED
      BY <3>1, <3>2, <3>3 DEF InOrder
  <2>10. Ended'
    BY <1>1, <2>2 DEF Ended
  <2> QED
    BY <1>3, <2>5, <2>9, <2>10
<1> QED
  BY <1>4, <1>5, Decides

\* A read moves bytes from the socket to the read buffer.
LEMMA ReadBufStream ==
  ASSUME StreamInvariant, ReadBuf
  PROVE  StreamInvariant'
<1> USE DEF StreamInvariant
<1>1. PICK n \in 1 .. Len(socket) : /\ buffer' = buffer \o SubSeq(socket, 1, n)
                                    /\ socket' = SubSeq(socket, n + 1, Len(socket))
  BY DEF ReadBuf
<1>2. /\ sent' = sent /\ open' = open /\ lost' = lost /\ stream' = stream /\ result = "none"
      /\ pc' = "parse" /\ received' = received /\ result' = result
  BY DEF ReadBuf, writer, Ended
<1> DEFINE a == SubSeq(socket, 1, n)
           b == SubSeq(socket, n + 1, Len(socket))
           tail == stream \o lost
<1>3. a \in Seq(Bytes) /\ b \in Seq(Bytes) /\ a \o b = socket
  <2>1. n \in 0 .. Len(socket) /\ socket \in Seq(Bytes)
    BY DEF Types
  <2> QED
    BY <2>1, CutAt
<1>4. buffer' = buffer \o a /\ socket' = b
  BY <1>1
<1> HIDE DEF a, b
<1>5. /\ buffer \in Seq(Bytes) /\ stream \in Seq(Bytes) /\ lost \in Seq(Bytes)
      /\ buffer' \in Seq(Bytes) /\ tail \in Seq(Bytes)
  BY <1>3, <1>4, WaitingTyped DEF Types
<1>6. Types'
  BY <1>2, <1>3, <1>4, <1>5 DEF Types
<1>7. Waiting' = Waiting
  <2>1. Waiting = Joined(buffer, Joined(Joined(a, b), tail))
    BY <1>3 DEF Waiting, Behind, Joined
  <2>2. Waiting' = Joined(Joined(buffer, a), Joined(b, tail))
    BY <1>2, <1>4 DEF Waiting, Behind, Joined
  <2> HIDE DEF tail
  <2> QED
    BY <1>3, <1>5, <2>1, <2>2, JoinedParts
<1>8. InOrder'
  BY <1>2, <1>7 DEF InOrder
<1>9. Unflushed'
  BY <1>2 DEF Unflushed
<1>10. Ended'
  BY <1>2 DEF Ended
<1> QED
  BY <1>6, <1>8, <1>9, <1>10

\* The end of the stream, an error of the network and a dropped read leave the
\* stream alone.
LEMMA LeaveStream ==
  ASSUME StreamInvariant, ReadEnd \/ ReadFails \/ Cancel
  PROVE  StreamInvariant'
<1> USE DEF StreamInvariant
<1>1. /\ pc = "read" /\ pc' = "caller" /\ open' = open /\ socket' = socket
      /\ buffer' = buffer /\ received' = received
      /\ sent' = sent /\ stream' = stream /\ lost' = lost
  BY DEF ReadEnd, ReadFails, Cancel, writer
<1>2. result = "none" /\ ParseFrame(buffer).tag = "Wait"
  BY <1>1 DEF Ended
<1>3. \/ ~open /\ socket = <<>> /\ result' = IF buffer = <<>> THEN "end" ELSE "reset"
      \/ result' \in {"failed", "none"}
  BY <1>2 DEF ReadEnd, ReadFails, Cancel
<1>4. Types'
  BY <1>1, <1>3 DEF Types
<1>5. InOrder'
  BY <1>1 DEF InOrder, Waiting, Behind
<1>6. Unflushed'
  BY <1>1 DEF Unflushed
<1>7. Ended'
  BY <1>1, <1>2, <1>3 DEF Ended
<1> QED
  BY <1>4, <1>5, <1>6, <1>7

\* The invariant of the stream holds in every state of the specification.
THEOREM StreamInvariance == Spec => []StreamInvariant
<1>1. Init => StreamInvariant
  BY InitStream
<1>2. StreamInvariant /\ [Next]_vars => StreamInvariant'
  <2> SUFFICES ASSUME StreamInvariant, [Next]_vars PROVE StreamInvariant'
    OBVIOUS
  <2>1. CASE WriteFrame
    BY <2>1, WriteFrameStream
  <2>2. CASE Flush
    BY <2>2, FlushStream
  <2>3. CASE DropWriter
    BY <2>3, DropWriterStream
  <2>4. CASE ReadFrame
    BY <2>4, ReadFrameStream
  <2>5. CASE Take
    BY <2>5, TakeStream
  <2>6. CASE ReadBuf
    BY <2>6, ReadBufStream
  <2>7. CASE ReadEnd \/ ReadFails \/ Cancel
    BY <2>7, LeaveStream
  <2>8. CASE UNCHANGED vars
    BY <2>8 DEF vars, StreamInvariant, Types, InOrder, Unflushed, Ended, Waiting, Behind
  <2> QED
    BY <2>1, <2>2, <2>3, <2>4, <2>5, <2>6, <2>7, <2>8 DEF Next
<1> QED
  BY <1>1, <1>2, PTL DEF Spec

-------------------------------------------------------------------------------
(* The properties.                                                         *)

\* read_frame returns the frames that write_frame was given, in order, each
\* once, and never an error of the protocol.
THEOREM ReceivedInOrderCorrect == Spec => []ReceivedInOrder
<1>1. StreamInvariant => ReceivedInOrder
  <2> SUFFICES ASSUME StreamInvariant PROVE ReceivedInOrder
    OBVIOUS
  <2> USE DEF StreamInvariant
  <2>1. received \in Seq(Frames) /\ Len(received) <= Len(sent)
        /\ received = SubSeq(sent, 1, Len(received))
    BY ReceivedTyped DEF InOrder
  <2>2. SubSeq(received, 1, Len(received)) = received
    BY <2>1, SubSeqFull
  <2>3. IsPrefix(received, sent)
    BY <2>1, <2>2 DEF IsPrefix
  <2>4. result # "invalid"
    BY DEF Types
  <2> QED
    BY <2>3, <2>4 DEF ReceivedInOrder
<1> QED
  BY <1>1, StreamInvariance, PTL

\* Every byte written is in a frame received, in a buffer, in the socket or
\* lost with the writer, in this order.
THEOREM StreamIsWholeCorrect == Spec => []StreamIsWhole
<1>1. StreamInvariant => StreamIsWhole
  <2> SUFFICES ASSUME StreamInvariant PROVE StreamIsWhole
    OBVIOUS
  <2> USE DEF StreamInvariant
  <2> DEFINE got == BytesOf(received)
             all == BytesOf(sent)
  <2>1. /\ got \in Seq(Bytes) /\ buffer \in Seq(Bytes) /\ socket \in Seq(Bytes)
        /\ stream \in Seq(Bytes) /\ lost \in Seq(Bytes)
    BY ReceivedTyped DEF Types
  <2>2. Joined(got, Joined(buffer, Joined(socket, Joined(stream, lost)))) = all
    BY DEF InOrder, Waiting, Behind, Joined
  <2>3. StreamIsWhole <=>
          Joined(Joined(Joined(Joined(got, buffer), socket), stream), lost) = all
    BY DEF StreamIsWhole, Joined
  <2> HIDE DEF got, all
  <2>4. Joined(Joined(Joined(Joined(got, buffer), socket), stream), lost) = all
    <3>1. Joined(Joined(got, buffer), Joined(socket, Joined(stream, lost))) = all
      BY <2>1, <2>2, JoinedParts
    <3>2. Joined(Joined(Joined(got, buffer), socket), Joined(stream, lost)) = all
      BY <2>1, <3>1, JoinedParts
    <3> DEFINE head == Joined(Joined(got, buffer), socket)
    <3>3. head \in Seq(Bytes)
      BY <2>1, JoinedParts
    <3>4. Joined(head, Joined(stream, lost)) = all
      BY <3>2
    <3> HIDE DEF head
    <3>5. Joined(Joined(head, stream), lost) = all
      BY <2>1, <3>3, <3>4, JoinedParts
    <3> QED
      BY <3>5 DEF head
  <2> QED
    BY <2>3, <2>4
<1> QED
  BY <1>1, StreamInvariance, PTL

\* At the end of the stream at most the last frame is missing, and what is
\* missing of it is what was lost behind the reader's buffer.
LEMMA AtEnd ==
  ASSUME StreamInvariant, result \in {"end", "reset"}
  PROVE  /\ Waiting = buffer \o lost /\ buffer \in Seq(Bytes) /\ lost \in Seq(Bytes)
         /\ ParseFrame(buffer).tag = "Wait"
         /\ \/ received = sent /\ buffer = <<>> /\ lost = <<>>
            \/ /\ Len(sent) \in Nat /\ Len(received) + 1 = Len(sent)
               /\ received = SubSeq(sent, 1, Len(sent) - 1)
               /\ Encode(sent[Len(sent)]) = buffer \o lost
               /\ Encode(sent[Len(sent)]) \in Seq(Bytes)
               /\ Len(buffer) < Len(Encode(sent[Len(sent)]))
<1> USE DEF StreamInvariant
<1>1. /\ ~open /\ socket = <<>> /\ stream = <<>> /\ ParseFrame(buffer).tag = "Wait"
      /\ buffer \in Seq(Bytes) /\ lost \in Seq(Bytes)
  BY DEF Ended, Unflushed, Types
<1>2. stream \o lost = lost /\ Behind = lost /\ Waiting = buffer \o lost
  <2>1. <<>> \o lost = lost
    BY <1>1
  <2> QED
    BY <1>1, <2>1 DEF Behind, Waiting
<1> DEFINE n == Len(received)
           m == Len(sent)
<1>3. n \in Nat /\ m \in Nat /\ received = SubSeq(sent, 1, n)
      /\ \A i \in 1 .. m : Encode(sent[i]) \in Seq(Bytes) /\ Len(Encode(sent[i])) \in Nat \ {0}
  BY ReceivedTyped DEF InOrder
<1>4. CASE received = sent /\ Waiting = <<>>
  <2>1. \A a, b \in Seq(Bytes) : a \o b = <<>> => a = <<>> /\ b = <<>>
    OBVIOUS
  <2>2. buffer \o lost = <<>>
    BY <1>2, <1>4
  <2>3. buffer = <<>> /\ lost = <<>>
    BY <1>1, <2>1, <2>2
  <2> QED
    BY <1>1, <1>2, <1>4, <2>3
<1>5. ASSUME n < m, NEW rest \in Seq(Bytes), Waiting = Encode(sent[n + 1]) \o rest,
             n + 1 = m => rest = <<>>,
             n + 1 < m => Len(rest) >= Len(Encode(sent[m]))
      PROVE  /\ n + 1 = m /\ received = SubSeq(sent, 1, m - 1)
             /\ Encode(sent[m]) = buffer \o lost
             /\ Encode(sent[m]) \in Seq(Bytes)
             /\ Len(buffer) < Len(Encode(sent[m]))
  <2> DEFINE e == Encode(sent[n + 1])
             last == Encode(sent[m])
  <2>1. n + 1 \in 1 .. m /\ m \in 1 .. m
    BY <1>3, <1>5
  <2>2. e \in Seq(Bytes) /\ Len(e) \in Nat \ {0} /\ last \in Seq(Bytes) /\ Len(last) \in Nat
    BY <1>3, <2>1
  <2>3. Len(buffer) < Len(e)
    <3>1. CASE buffer = <<>>
      <4>1. Len(buffer) = 0
        BY <3>1
      <4> QED
        BY <2>2, <4>1
    <3>2. CASE buffer # <<>>
      <4>1. ASSUME NEW f, NEW left PROVE ParseFrame(buffer) # Got(f, left)
        <5>1. Got(f, left).tag = "Got"
          BY DEF Got
        <5> QED
          BY <1>1, <5>1
      <4> QED
        BY <3>2, <4>1, Decides
    <3> QED
      BY <3>1, <3>2
  <2>4. Len(lost) \in Nat /\ Len(buffer) \in Nat /\ Len(rest) \in Nat
        /\ Len(buffer) + Len(lost) = Len(e) + Len(rest)
    <3> HIDE DEF e
    <3>1. buffer \o lost = e \o rest
      BY <1>2, <1>5 DEF e
    <3>2. /\ Len(buffer \o lost) = Len(buffer) + Len(lost) /\ Len(e \o rest) = Len(e) + Len(rest)
      BY <1>1, <1>5, <2>2
    <3>3. Len(lost) \in Nat /\ Len(buffer) \in Nat /\ Len(rest) \in Nat
      BY <1>1, <1>5
    <3> QED
      BY <3>1, <3>2, <3>3
  <2>5. Len(lost) <= Len(last)
    <3>1. CASE lost = <<>>
      <4>1. Len(lost) = 0
        BY <3>1
      <4> QED
        BY <2>2, <4>1
    <3>2. CASE lost # <<>>
      <4>1. PICK flushed \in Seq(Bytes) : last = flushed \o lost
        BY <1>2, <3>2 DEF Unflushed
      <4>2. Len(flushed) \in Nat /\ Len(flushed \o lost) = Len(flushed) + Len(lost)
        BY <1>1
      <4> HIDE DEF last
      <4> QED
        BY <2>4, <4>1, <4>2
    <3> QED
      BY <3>1, <3>2
  <2>6. n + 1 = m
    <3>1. \A x, y, z, w, l \in Nat : x < y /\ x + z = y + w /\ z <= l => w < l
      OBVIOUS
    <3>2. Len(rest) < Len(last)
      <4> HIDE DEF e, last
      <4> QED
        BY <2>2, <2>3, <2>4, <2>5, <3>1
    <3>3. ~(n + 1 < m)
      <4> HIDE DEF e
      <4>1. \A x, y \in Nat : x < y => ~(x >= y)
        OBVIOUS
      <4> QED
        BY <1>5, <2>2, <2>4, <3>2, <4>1
    <3> QED
      BY <1>3, <1>5, <3>3
  <2>7. rest = <<>> /\ e = last
    BY <1>5, <2>6
  <2>8. last = buffer \o lost
    <3>1. buffer \o lost = e \o rest
      BY <1>2, <1>5
    <3>2. e \o <<>> = e
      BY <2>2
    <3> QED
      BY <2>7, <3>1, <3>2
  <2>9. received = SubSeq(sent, 1, m - 1)
    BY <1>3, <2>6
  <2>10. Len(buffer) < Len(last)
    BY <2>3, <2>7
  <2> QED
    BY <2>2, <2>6, <2>8, <2>9, <2>10
<1> QED
  BY <1>1, <1>2, <1>3, <1>4, <1>5, FrameAhead

\* The end that read_frame reports is what became of the last frame: None when
\* it is received or wholly lost, an error when a part of it is missing.
THEOREM EndTellsTruthCorrect == Spec => []EndTellsTruth
<1>1. StreamInvariant => EndTellsTruth
  <2> SUFFICES ASSUME StreamInvariant, result \in {"end", "reset"} PROVE EndTellsTruth
    BY DEF EndTellsTruth
  <2>1. /\ buffer \in Seq(Bytes) /\ lost \in Seq(Bytes)
        /\ \/ received = sent /\ buffer = <<>> /\ lost = <<>>
           \/ /\ Len(sent) \in Nat /\ Len(received) + 1 = Len(sent)
              /\ received = SubSeq(sent, 1, Len(sent) - 1)
              /\ Encode(sent[Len(sent)]) = buffer \o lost
              /\ Encode(sent[Len(sent)]) \in Seq(Bytes)
              /\ Len(buffer) < Len(Encode(sent[Len(sent)]))
    BY AtEnd
  <2>2. result = "end" <=> buffer = <<>>
    BY DEF StreamInvariant, Ended
  <2>3. CASE received = sent /\ buffer = <<>> /\ lost = <<>>
    BY <2>2, <2>3 DEF EndTellsTruth
  <2>4. CASE /\ received = SubSeq(sent, 1, Len(sent) - 1)
             /\ Encode(sent[Len(sent)]) = buffer \o lost
             /\ Len(buffer) < Len(Encode(sent[Len(sent)]))
    <3>1. received = Front(sent) /\ Encode(Last(sent)) = buffer \o lost
      BY <2>4 DEF Front, Last
    <3>2. CASE buffer = <<>>
      <4>1. <<>> \o lost = lost
        BY <2>1
      <4> QED
        BY <2>2, <3>1, <3>2, <4>1 DEF EndTellsTruth
    <3>3. CASE buffer # <<>>
      <4>1. IsStrictSuffix(lost, Encode(Last(sent)))
        BY <2>1, <3>1, <3>3, SuffixOf
      <4>2. lost # <<>>
        <5>1. buffer \o <<>> = buffer /\ Len(buffer) \in Nat
          BY <2>1
        <5>2. Len(buffer) < Len(buffer \o lost)
          BY <2>4
        <5> QED
          BY <5>1, <5>2
      <4>3. result = "reset" /\ result # "end"
        BY <2>2, <3>3
      <4> QED
        BY <3>1, <4>1, <4>2, <4>3 DEF EndTellsTruth
    <3> QED
      BY <3>2, <3>3
  <2> QED
    BY <2>1, <2>3, <2>4
<1> QED
  BY <1>1, StreamInvariance, PTL

-------------------------------------------------------------------------------
(* check and parse side by side.                                           *)

\* What holds behind the end of a buffer, and at a position when it holds
\* behind it, holds everywhere.
LEMMA Backwards ==
  ASSUME NEW L \in Nat, NEW P,
         \A p \in Nat : p > L => p \in P,
         \A p \in Nat : (\A q \in Nat : q > p => q \in P) => p \in P
  PROVE  \A p \in Nat : p \in P
<1> DEFINE G == {n \in Nat : \A p \in Nat : p + n > L => p \in P}
<1>1. 0 \in G
  OBVIOUS
<1>2. ASSUME NEW n \in G PROVE n + 1 \in G
  <2>1. ASSUME NEW p \in Nat, p + (n + 1) > L PROVE p \in P
    <3>1. \A q \in Nat : q > p => q \in P
      BY <2>1
    <3> QED
      BY <3>1
  <2> QED
    BY <2>1
<1>3. G = Nat
  <2> HIDE DEF G
  <2>1. G \in SUBSET Nat
    BY DEF G
  <2> QED
    BY <1>1, <1>2, <2>1, SetInduction
<1>4. L + 1 \in G
  <2> HIDE DEF G
  <2> QED
    BY <1>3
<1>5. \A p \in Nat : p + (L + 1) > L
  OBVIOUS
<1> QED
  BY <1>4, <1>5

\* What parse answers on no frame, and on a frame and k others: Steps says the
\* same of check.
Rows(s, g) ==
  \A p, k \in Nat :
    /\ g[p][0] = Ok(p, <<>>)
    /\ LET one == ParseOne(s, p, g)
           more == g[one.pos][k]
       IN  g[p][k + 1] = IF one.tag # "Ok" THEN one
                         ELSE IF more.tag # "Ok" THEN more
                         ELSE Ok(more.pos, <<one.val>> \o more.val)

\* The parses of a buffer are such rows.
LEMMA ParseRows ==
  ASSUME NEW s, NEW g
  PROVE  g = ParseMore(s, g) => Rows(s, g)
<1> DEFINE First(p) == ParseOne(s, p, g)
           Row(one, more) == IF one.tag # "Ok" THEN one
                             ELSE IF more.tag # "Ok" THEN more
                             ELSE Ok(more.pos, <<one.val>> \o more.val)
<1>0. ASSUME NEW p \in Nat, NEW j \in Nat
      PROVE  ParseMore(s, g)[p][j] =
               IF j = 0 THEN Ok(p, <<>>) ELSE Row(First(p), g[First(p).pos][j - 1])
  BY ZenonT(30), ParseMoreEntry
<1>1. ASSUME NEW p \in Nat, NEW k \in Nat
      PROVE  /\ ParseMore(s, g)[p][0] = Ok(p, <<>>)
             /\ ParseMore(s, g)[p][k + 1] = Row(First(p), g[First(p).pos][k])
  <2>1. k + 1 \in Nat /\ k + 1 # 0 /\ (k + 1) - 1 = k /\ 0 \in Nat
    OBVIOUS
  <2>2. ParseMore(s, g)[p][0] = Ok(p, <<>>)
    BY <2>1 DEF ParseMore
  <2> HIDE DEF Row, First
  <2>3. ParseMore(s, g)[p][k + 1] =
          IF k + 1 = 0 THEN Ok(p, <<>>) ELSE Row(First(p), g[First(p).pos][(k + 1) - 1])
    BY <1>0, <2>1
  <2> QED
    BY <2>1, <2>2, <2>3
<1>2. Rows(s, g) <=> \A p, k \in Nat : /\ g[p][0] = Ok(p, <<>>)
                                     /\ g[p][k + 1] = Row(First(p), g[First(p).pos][k])
  BY DEF Rows
<1> HIDE DEF Row, First
<1> SUFFICES ASSUME g = ParseMore(s, g)
             PROVE  \A p, k \in Nat : /\ g[p][0] = Ok(p, <<>>)
                                      /\ g[p][k + 1] = Row(First(p), g[First(p).pos][k])
  BY <1>2
<1> QED
  BY <1>1

-------------------------------------------------------------------------------
(* The end of a frame.                                                     *)

\* When check and parse both accept the frames at p they stop at the same byte.
Together(c, g, p) ==
  \A k \in Nat : c[p][k].tag = "Ok" /\ g[p][k].tag = "Ok" => c[p][k].pos = g[p][k].pos

\* A bulk string of any length.
LEMMA BulkTogether ==
  ASSUME NEW s, NEW q, NEW len, NEW r, NEW t,
         r = IF len + 2 <= U64Max THEN Skip(s, q, len + 2)
             ELSE IF OverflowChecks THEN Panic ELSE Skip(s, q, len + 2 - (U64Max + 1)),
         t = ParseBulk(s, q, len),
         r.tag = "Ok", t.tag = "Ok"
  PROVE  r.pos = t.pos
<1> DEFINE bulk == Bulk(SubSeq(s, q, q + len - 1))
           Found(n) == CASE q + n - 1 > Len(s) -> Incomplete
                         [] q + len - 1 > Len(s) -> Panic
                         [] OTHER -> Ok(q + n, bulk)
<1>1. Incomplete.tag # "Ok" /\ Panic.tag # "Ok" /\ \A pos, val : Ok(pos, val).pos = pos
  BY DEF Incomplete, Panic, Ok
<1>2. ASSUME NEW n, r = Skip(s, q, n), t = Found(n) PROVE r.pos = t.pos
  <2>1. r = Ok(q + n, <<>>)
    BY <1>1, <1>2 DEF Skip
  <2>2. t = Ok(q + n, bulk)
    BY <1>1, <1>2
  <2> QED
    BY <1>1, <2>1, <2>2
<1>3. t = IF len + 2 <= U64Max THEN Found(len + 2)
          ELSE IF OverflowChecks THEN Panic ELSE Found(len + 2 - (U64Max + 1))
  BY DEF ParseBulk, WithCrLf
<1> HIDE DEF Found
<1> QED
  BY <1>1, <1>2, <1>3

\* The null bulk string: check skips four bytes, which are the line parse wants.
LEMMA NullTogether ==
  ASSUME NEW s \in Seq(Bytes), NEW p \in Nat,
         GetLine(s, p).tag = "Ok", GetLine(s, p).val = <<"-", "1">>
  PROVE  GetLine(s, p).pos = p + 4 /\ p + 3 <= Len(s)
<1>1. PICK i \in LineEnds(s, p) : /\ GetLine(s, p) = Ok(i + 2, SubSeq(s, p, i - 1))
                                  /\ i \in Nat /\ i >= p /\ i + 1 <= Len(s)
  BY LineMoves
<1>2. GetLine(s, p).pos = i + 2 /\ SubSeq(s, p, i - 1) = <<"-", "1">>
  BY <1>1 DEF Ok
<1>3. Len(SubSeq(s, p, i - 1)) = 2
  <2>1. Len(<<"-", "1">>) = 2
    OBVIOUS
  <2> QED
    BY <1>2, <2>1
<1>4. Len(SubSeq(s, p, i - 1)) = i - p
  <2>1. i - 1 \in Nat \/ i = 0
    BY <1>1
  <2> QED
    BY <1>1, <2>1
<1> QED
  BY <1>1, <1>2, <1>3, <1>4

\* One frame.
LEMMA OneTogether ==
  ASSUME NEW s \in Seq(Bytes), NEW p \in Nat, NEW c, NEW g,
         \A q \in Nat : q > p => Together(c, g, q),
         CheckOne(s, p, c).tag = "Ok", ParseOne(s, p, g).tag = "Ok"
  PROVE  CheckOne(s, p, c).pos = ParseOne(s, p, g).pos
<1> DEFINE b == Byte(s, p)
           next == Byte(s, p + 1)
           r == CheckOne(s, p, c)
           t == ParseOne(s, p, g)
           d == GetDecimal(s, p + 1)
           l == GetLine(s, p + 1)
<1>1. /\ Incomplete.tag # "Ok" /\ Other.tag # "Ok" /\ Panic.tag # "Ok" /\ p + 1 \in Nat \ {0}
      /\ \A pos, val : Ok(pos, val).pos = pos
  BY DEF Incomplete, Other, Panic, Ok
<1>2. d.tag = "Ok" => d.val \in Nat /\ d.pos \in Nat /\ d.pos > p
  BY <1>1, DecimalMoves, FrameAssumption
<1>3. CASE b \in {"+", "-"}
  <2>1. r = l
    BY <1>3, CheckAt
  <2>2. t = Ok(l.pos, Simple(l.val)) \/ t = Ok(l.pos, Error(l.val))
    BY <1>1, <1>3, ParseAt
  <2> QED
    BY <1>1, <2>1, <2>2
<1>4. CASE b = ":"
  <2>1. r = d
    BY <1>4, CheckAt
  <2>2. t = IF d.tag # "Ok" THEN d ELSE Ok(d.pos, Integer(d.val))
    BY <1>4, ParseAt
  <2> QED
    BY <1>1, <2>1, <2>2
<1>5. CASE b = "$" /\ next = "-"
  <2>1. r = Skip(s, p + 1, 4)
    BY <1>5, CheckAt
  <2>2. r = Ok(p + 1 + 4, <<>>)
    BY <1>1, <2>1 DEF Skip
  <2>3. t = IF l.tag # "Ok" THEN l ELSE IF l.val = <<"-", "1">> THEN Ok(l.pos, Null) ELSE Other
    BY <1>5, ParseAt
  <2>4. l.tag = "Ok" /\ l.val = <<"-", "1">> /\ t = Ok(l.pos, Null)
    BY <1>1, <2>3
  <2>5. l.pos = p + 1 + 4
    BY <1>1, <2>4, NullTogether
  <2> QED
    BY <1>1, <2>2, <2>4, <2>5
<1>6. CASE b = "$" /\ next \notin {"end", "-"}
  <2>1. r = IF d.tag # "Ok" THEN d
            ELSE IF d.val + 2 <= U64Max THEN Skip(s, d.pos, d.val + 2)
            ELSE IF OverflowChecks THEN Panic ELSE Skip(s, d.pos, d.val + 2 - (U64Max + 1))
    BY <1>6, CheckAt
  <2>2. t = IF d.tag # "Ok" THEN d ELSE ParseBulk(s, d.pos, d.val)
    BY <1>6, ParseAt
  <2> HIDE DEF r, t, d
  <2>3. r.tag = "Ok" /\ t.tag = "Ok"
    BY DEF r, t
  <2>4. d.tag = "Ok"
    BY <2>1, <2>3
  <2>5. PICK q, len : q = d.pos /\ len = d.val
    OBVIOUS
  <2>6. /\ r = IF len + 2 <= U64Max THEN Skip(s, q, len + 2)
               ELSE IF OverflowChecks THEN Panic ELSE Skip(s, q, len + 2 - (U64Max + 1))
        /\ t = ParseBulk(s, q, len)
    BY <2>1, <2>2, <2>4, <2>5
  <2>7. r.pos = t.pos
    BY <2>3, <2>6, BulkTogether
  <2> QED
    BY <2>7 DEF r, t
<1>7. CASE b = "*"
  <2> DEFINE a == g[d.pos][d.val]
  <2>1. r = IF d.tag # "Ok" THEN d ELSE c[d.pos][d.val]
    BY <1>7, CheckAt
  <2>2. t = IF d.tag # "Ok" THEN d ELSE IF a.tag # "Ok" THEN a ELSE Ok(a.pos, Array(a.val))
    BY <1>7, ParseAt
  <2>3. d.tag = "Ok" /\ r = c[d.pos][d.val] /\ a.tag = "Ok" /\ t = Ok(a.pos, Array(a.val))
    BY <2>1, <2>2
  <2>4. Together(c, g, d.pos)
    BY <1>2, <2>3
  <2>5. r.pos = a.pos
    BY <1>2, <2>3, <2>4 DEF Together
  <2> HIDE DEF a, d, r, t
  <2>6. r.pos = t.pos
    BY <1>1, <2>3, <2>5
  <2> QED
    BY <2>6 DEF r, t
<1>8. b \in {"+", "-", ":", "*"} \/ (b = "$" /\ next # "end")
  BY <1>1, ParseAt
<1> QED
  BY <1>3, <1>4, <1>5, <1>6, <1>7, <1>8

\* All the frames of a buffer.
LEMMA AllTogether ==
  ASSUME NEW s \in Seq(Bytes), NEW c, NEW g, Steps(s, c), Forward(c), Rows(s, g), NEW p \in Nat
  PROVE  Together(c, g, p)
<1>1. ASSUME NEW q \in Nat, NEW k \in Nat, k # 0, c[q][k].tag = "Ok", g[q][k].tag = "Ok"
      PROVE  \E j \in Nat :
               /\ CheckOne(s, q, c).tag = "Ok" /\ ParseOne(s, q, g).tag = "Ok"
               /\ c[q][k] = c[CheckOne(s, q, c).pos][j]
               /\ g[ParseOne(s, q, g).pos][j].tag = "Ok"
               /\ g[q][k].pos = g[ParseOne(s, q, g).pos][j].pos
  <2> DEFINE r == CheckOne(s, q, c)
             t == ParseOne(s, q, g)
             j == k - 1
             more == g[t.pos][j]
  <2>1. j \in Nat /\ k = j + 1
    BY <1>1
  <2> HIDE DEF j
  <2>2. r.tag = "Ok" /\ c[q][k] = c[r.pos][j]
    BY ZenonT(30), <1>1, <2>1 DEF Steps
  <2>3. g[q][k] = IF t.tag # "Ok" THEN t
                  ELSE IF more.tag # "Ok" THEN more
                  ELSE Ok(more.pos, <<t.val>> \o more.val)
    BY <2>1 DEF Rows
  <2>4. t.tag = "Ok" /\ more.tag = "Ok" /\ g[q][k].pos = more.pos
    BY <1>1, <2>3 DEF Ok
  <2> QED
    BY <2>1, <2>2, <2>4
<1>2. ASSUME NEW q \in Nat PROVE c[q][0].pos = g[q][0].pos
  BY DEF Steps, Rows
<1> DEFINE P == {q \in Nat : Together(c, g, q)}
<1>3. ASSUME NEW q \in Nat, q > Len(s) PROVE q \in P
  <2>1. Byte(s, q) = "end"
    BY <1>3 DEF Byte
  <2>2. CheckOne(s, q, c) = Incomplete /\ Incomplete.tag # "Ok"
    BY <2>1, CheckAt DEF Incomplete
  <2> QED
    BY <1>1, <1>2, <2>2 DEF Together
<1>4. ASSUME NEW q \in Nat, \A n \in Nat : n > q => n \in P PROVE q \in P
  <2> SUFFICES ASSUME NEW k \in Nat, c[q][k].tag = "Ok", g[q][k].tag = "Ok"
               PROVE  c[q][k].pos = g[q][k].pos
    BY DEF Together
  <2> DEFINE r == CheckOne(s, q, c)
             t == ParseOne(s, q, g)
  <2>1. CASE k = 0
    BY <1>2, <2>1
  <2>2. CASE k # 0
    <3>1. PICK j \in Nat :
            /\ r.tag = "Ok" /\ t.tag = "Ok" /\ c[q][k] = c[r.pos][j]
            /\ g[t.pos][j].tag = "Ok" /\ g[q][k].pos = g[t.pos][j].pos
      BY <1>1, <2>2
    <3>2. r.pos = t.pos
      BY <1>4, <3>1, OneTogether
    <3>3. r.pos \in Nat /\ r.pos > q
      BY <3>1, CheckMoves
    <3>4. Together(c, g, r.pos)
      BY <1>4, <3>3
    <3> HIDE DEF r, t, P
    <3>5. c[r.pos][j].tag = "Ok" /\ g[r.pos][j].tag = "Ok"
      BY <3>1, <3>2
    <3>6. c[r.pos][j].pos = g[r.pos][j].pos
      BY <3>4, <3>5 DEF Together
    <3> QED
      BY <3>1, <3>2, <3>6
  <2> QED
    BY <2>1, <2>2
<1>5. Len(s) \in Nat
  OBVIOUS
<1> HIDE DEF P
<1>6. \A q \in Nat : q \in P
  BY <1>3, <1>4, <1>5, Backwards
<1> QED
  BY <1>6 DEF P

\* When Check and Parse accept a buffer, they end at the same byte of it.
LEMMA EndsAgree ==
  ASSUME NEW s \in Seq(Bytes), Check(s).tag = "Ok", Parse(s).tag = "Ok"
  PROVE  Check(s).pos = Parse(s).pos
<1>1. PICK c : Check(s) = c[1][1] /\ Steps(s, c) /\ Forward(c)
  BY CheckUnfold, CheckSteps
<1>2. PICK g : Parse(s) = Then(g[1][1], LAMBDA r : Ok(r.pos, r.val[1])) /\ Rows(s, g)
  BY ParseUnfold, ParseRows
<1>3. Parse(s) = IF g[1][1].tag = "Ok" THEN Ok(g[1][1].pos, g[1][1].val[1]) ELSE g[1][1]
  BY <1>2 DEF Then, With
<1>4. g[1][1].tag = "Ok" /\ Parse(s).pos = g[1][1].pos
  BY <1>3 DEF Ok
<1>5. 1 \in Nat
  OBVIOUS
<1>6. Together(c, g, 1)
  BY <1>1, <1>2, <1>5, AllTogether
<1> QED
  BY <1>1, <1>4, <1>5, <1>6 DEF Together

-------------------------------------------------------------------------------
(* What check answers, and where it ends.                                  *)

\* check answers with one of four tags, and it ends in the buffer or behind its
\* last byte.
Bounded(s, r) ==
  /\ r.tag \in {"Ok", "Incomplete", "Other", "Panic"}
  /\ r.tag = "Ok" => r.pos \in Nat /\ r.pos <= Len(s) + 1

AllBounded(s, c, p) == \A k \in Nat : Bounded(s, c[p][k])

\* A skip.
LEMMA SkipBounded ==
  ASSUME NEW s \in Seq(Bytes), NEW q \in Nat, NEW n \in Nat
  PROVE  Bounded(s, Skip(s, q, n))
<1>1. Len(s) \in Nat
  OBVIOUS
<1>2. CASE q + n - 1 <= Len(s)
  <2>1. Skip(s, q, n) = Ok(q + n, <<>>) /\ q + n \in Nat /\ q + n <= Len(s) + 1
    BY <1>1, <1>2 DEF Skip
  <2> QED
    BY <2>1 DEF Bounded, Ok
<1>3. CASE ~(q + n - 1 <= Len(s))
  <2>1. Skip(s, q, n) = Incomplete
    BY <1>3 DEF Skip
  <2> QED
    BY <2>1 DEF Bounded, Incomplete
<1> QED
  BY <1>2, <1>3

\* One frame.
LEMMA OneBounded ==
  ASSUME NEW s \in Seq(Bytes), NEW p \in Nat, p <= Len(s), NEW c,
         \A q \in Nat : q > p /\ q <= Len(s) + 1 => AllBounded(s, c, q)
  PROVE  Bounded(s, CheckOne(s, p, c))
<1> DEFINE b == Byte(s, p)
           next == Byte(s, p + 1)
           r == CheckOne(s, p, c)
           d == GetDecimal(s, p + 1)
<1>1. /\ Bounded(s, Incomplete) /\ Bounded(s, Other) /\ Bounded(s, Panic)
      /\ p + 1 \in Nat \ {0} /\ U64Max \in Nat /\ Len(s) \in Nat
  BY FrameAssumption DEF Incomplete, Other, Panic, Bounded
<1>2. Bounded(s, GetLine(s, p + 1))
  <2>1. CASE GetLine(s, p + 1).tag # "Ok"
    BY <1>1, <2>1, LineMoves DEF Bounded
  <2>2. CASE GetLine(s, p + 1).tag = "Ok"
    <3>1. PICK i \in LineEnds(s, p + 1) : /\ GetLine(s, p + 1) = Ok(i + 2, SubSeq(s, p + 1, i - 1))
                                          /\ i \in Nat /\ i + 1 <= Len(s)
      BY <1>1, <2>2, LineMoves
    <3>2. GetLine(s, p + 1).pos = i + 2
      BY <3>1 DEF Ok
    <3> QED
      BY <1>1, <2>2, <3>1, <3>2 DEF Bounded
  <2> QED
    BY <2>1, <2>2
<1>3. /\ Bounded(s, d)
      /\ d.tag = "Ok" => /\ d.val \in 0 .. U64Max /\ d.val \in Nat /\ d.pos \in Nat /\ d.pos > p
                         /\ d.pos <= Len(s) + 1
  BY <1>1, DecimalMoves DEF Bounded
<1>4. CASE b = "$" /\ next \notin {"end", "-"}
  <2>1. r = IF d.tag # "Ok" THEN d
            ELSE IF d.val + 2 <= U64Max THEN Skip(s, d.pos, d.val + 2)
            ELSE IF OverflowChecks THEN Panic ELSE Skip(s, d.pos, d.val + 2 - (U64Max + 1))
    BY <1>4, CheckAt
  <2>2. \A n \in Nat : d.tag = "Ok" => Bounded(s, Skip(s, d.pos, n))
    BY <1>3, SkipBounded
  <2>3. /\ d.tag = "Ok" => d.val + 2 \in Nat
        /\ d.tag = "Ok" /\ ~(d.val + 2 <= U64Max) => d.val + 2 - (U64Max + 1) \in Nat
    BY SMTT(30), <1>1, <1>3
  <2> HIDE DEF d, r
  <2> QED
    BY <1>1, <1>3, <2>1, <2>2, <2>3 DEF r
<1>5. CASE b = "*"
  <2>1. r = IF d.tag # "Ok" THEN d ELSE c[d.pos][d.val]
    BY <1>5, CheckAt
  <2>2. d.tag = "Ok" => AllBounded(s, c, d.pos)
    BY <1>3
  <2> QED
    BY <1>3, <2>1, <2>2 DEF AllBounded
<1>6. CASE b = "$" /\ next = "-"
  <2>1. r = Skip(s, p + 1, 4)
    BY <1>6, CheckAt
  <2> QED
    BY <1>1, <2>1, SkipBounded
<1>7. CASE b = "end" \/ (b = "$" /\ next = "end") \/ b \notin {"end", "+", "-", ":", "$", "*"}
  <2>1. r = Incomplete \/ r = Other
    BY <1>7, CheckAt
  <2> QED
    BY <1>1, <2>1
<1>8. CASE b \in {"+", "-", ":"}
  <2>1. r = GetLine(s, p + 1) \/ r = d
    BY <1>8, CheckAt
  <2> QED
    BY <1>2, <1>3, <2>1
<1> QED
  BY <1>4, <1>5, <1>6, <1>7, <1>8

\* All the frames of a buffer.
LEMMA CheckBounded ==
  ASSUME NEW s \in Seq(Bytes), NEW c, Steps(s, c), Forward(c), NEW p \in Nat, p <= Len(s) + 1
  PROVE  AllBounded(s, c, p)
<1> DEFINE P == {q \in Nat : q <= Len(s) + 1 => AllBounded(s, c, q)}
<1>1. Len(s) \in Nat
  OBVIOUS
<1>2. ASSUME NEW q \in Nat, NEW k \in Nat
      PROVE  \/ c[q][k] = Ok(q, <<>>)
             \/ c[q][k] = CheckOne(s, q, c) /\ CheckOne(s, q, c).tag # "Ok"
             \/ CheckOne(s, q, c).tag = "Ok" /\ \E j \in Nat : c[q][k] = c[CheckOne(s, q, c).pos][j]
  <2>1. CASE k = 0
    BY <2>1 DEF Steps
  <2>2. CASE k # 0
    <3> DEFINE j == k - 1
    <3>1. j \in Nat /\ k = j + 1
      BY <2>2
    <3> HIDE DEF j
    <3> QED
      BY <3>1 DEF Steps
  <2> QED
    BY <2>1, <2>2
<1>3. ASSUME NEW q \in Nat, q <= Len(s) + 1 PROVE Bounded(s, Ok(q, <<>>))
  BY <1>3 DEF Bounded, Ok
<1>4. ASSUME NEW q \in Nat, q > Len(s) PROVE q \in P
  <2>1. Byte(s, q) = "end"
    BY <1>4 DEF Byte
  <2>2. CheckOne(s, q, c) = Incomplete /\ Incomplete.tag # "Ok" /\ Bounded(s, Incomplete)
    BY <2>1, CheckAt DEF Incomplete, Bounded
  <2> QED
    BY <1>2, <1>3, <2>2 DEF AllBounded
<1>5. ASSUME NEW q \in Nat, \A n \in Nat : n > q => n \in P PROVE q \in P
  <2>1. CASE q > Len(s)
    BY <1>4, <2>1
  <2>2. CASE q <= Len(s)
    <3> DEFINE r == CheckOne(s, q, c)
    <3>1. \A n \in Nat : n > q /\ n <= Len(s) + 1 => AllBounded(s, c, n)
      BY <1>5
    <3>2. Bounded(s, r)
      BY <2>2, <3>1, OneBounded
    <3>3. r.tag = "Ok" => r.pos \in Nat /\ r.pos > q
      BY CheckMoves
    <3>4. r.tag = "Ok" => AllBounded(s, c, r.pos)
      BY <3>1, <3>2, <3>3 DEF Bounded
    <3>5. q <= Len(s) + 1
      BY <1>1, <2>2
    <3> HIDE DEF r, P
    <3>6. AllBounded(s, c, q)
      BY <1>2, <1>3, <3>2, <3>4, <3>5 DEF AllBounded, r
    <3> QED
      BY <3>6 DEF P
  <2> QED
    BY <1>1, <2>1, <2>2
<1> HIDE DEF P
<1>6. \A q \in Nat : q \in P
  BY <1>1, <1>4, <1>5, Backwards
<1> QED
  BY <1>6 DEF P

-------------------------------------------------------------------------------
(* More bytes.                                                             *)

\* t is s with bytes behind it.
Continues(s, t) == Len(s) <= Len(t) /\ \A i \in 1 .. Len(s) : t[i] = s[i]

\* A byte that has arrived stays.
LEMMA ByteStays ==
  ASSUME NEW s \in Seq(Bytes), NEW t \in Seq(Bytes), Continues(s, t),
         NEW p \in Nat \ {0}, Byte(s, p) # "end"
  PROVE  Byte(t, p) = Byte(s, p) /\ p <= Len(s)
<1>1. p <= Len(s) /\ Len(s) \in Nat /\ Len(t) \in Nat
  BY DEF Byte
<1>2. p \in 1 .. Len(s) /\ p <= Len(t)
  BY <1>1 DEF Continues
<1> QED
  BY <1>1, <1>2 DEF Byte, Continues

\* A line that is whole stays.
LEMMA LineStays ==
  ASSUME NEW s \in Seq(Bytes), NEW t \in Seq(Bytes), Continues(s, t),
         NEW p \in Nat \ {0}, GetLine(s, p).tag = "Ok"
  PROVE  GetLine(t, p) = GetLine(s, p)
<1>1. PICK i \in LineEnds(s, p) : /\ GetLine(s, p) = Ok(i + 2, SubSeq(s, p, i - 1))
                                  /\ i \in Nat /\ i >= p /\ i + 1 <= Len(s)
                                  /\ \A j \in LineEnds(s, p) : i <= j
  BY LineMoves
<1>2. /\ Len(s) \in Nat /\ Len(t) \in Nat /\ Len(s) <= Len(t)
      /\ \A j \in 1 .. Len(s) : t[j] = s[j]
  BY DEF Continues
<1>3. i \in LineEnds(t, p)
  <2>1. i \in p .. Len(s) - 1 /\ s[i] = "CR" /\ s[i + 1] = "LF"
    BY DEF LineEnds
  <2>2. i \in 1 .. Len(s) /\ i + 1 \in 1 .. Len(s) /\ i \in p .. Len(t) - 1
    BY <1>2, <2>1
  <2> QED
    BY <1>2, <2>1, <2>2 DEF LineEnds
<1>4. \A j \in LineEnds(t, p) : j \in Nat /\ i <= j
  <2> SUFFICES ASSUME NEW j \in LineEnds(t, p), ~(i <= j) PROVE FALSE
    BY DEF LineEnds
  <2>1. j \in p .. Len(t) - 1 /\ t[j] = "CR" /\ t[j + 1] = "LF"
    BY DEF LineEnds
  <2>2. j \in 1 .. Len(s) /\ j + 1 \in 1 .. Len(s) /\ j \in p .. Len(s) - 1
    BY <1>1, <1>2, <2>1
  <2>3. j \in LineEnds(s, p)
    BY <1>2, <2>1, <2>2 DEF LineEnds
  <2> QED
    BY <1>1, <2>3
<1>5. SubSeq(t, p, i - 1) = SubSeq(s, p, i - 1)
  <2>1. i - 1 <= Len(s) /\ i - 1 <= Len(t) /\ p >= 1 /\ i - 1 \in Nat
    BY <1>1, <1>2
  <2>2. /\ SubSeq(s, p, i - 1) \in Seq(Bytes) /\ Len(SubSeq(s, p, i - 1)) = i - p
        /\ \A j \in 1 .. i - p : SubSeq(s, p, i - 1)[j] = s[p + j - 1]
    BY <1>1, <1>2, <2>1
  <2>3. /\ SubSeq(t, p, i - 1) \in Seq(Bytes) /\ Len(SubSeq(t, p, i - 1)) = i - p
        /\ \A j \in 1 .. i - p : SubSeq(t, p, i - 1)[j] = t[p + j - 1]
    BY <1>1, <1>2, <2>1
  <2>4. \A j \in 1 .. i - p : p + j - 1 \in 1 .. Len(s)
    BY <1>1, <1>2
  <2>5. \A j \in 1 .. i - p : SubSeq(t, p, i - 1)[j] = SubSeq(s, p, i - 1)[j]
    BY <1>2, <2>2, <2>3, <2>4
  <2> QED
    BY <2>2, <2>3, <2>5, SameEntries
<1> DEFINE E == LineEnds(t, p)
<1>6. E # {} /\ Min(E) = i
  <2>1. i \in E /\ i \in Nat /\ \A j \in E : j \in Nat /\ i <= j
    BY <1>1, <1>3, <1>4
  <2> HIDE DEF E
  <2>2. \A j \in E : (\A n \in E : j <= n) => j = i
    BY <2>1
  <2>3. Min(E) \in E /\ \A n \in E : Min(E) <= n
    BY <2>1 DEF Min
  <2> QED
    BY <2>1, <2>2, <2>3
<1>7. GetLine(t, p) = IF E = {} THEN Incomplete ELSE Ok(Min(E) + 2, SubSeq(t, p, Min(E) - 1))
  BY DEF GetLine, With
<1> HIDE DEF E
<1>8. GetLine(t, p) = Ok(i + 2, SubSeq(t, p, i - 1))
  BY <1>6, <1>7
<1> QED
  BY <1>1, <1>5, <1>8

\* A number whose line is whole stays, and so does its refusal.
LEMMA DecimalStays ==
  ASSUME NEW s \in Seq(Bytes), NEW t \in Seq(Bytes), Continues(s, t),
         NEW p \in Nat \ {0}, GetDecimal(s, p).tag # "Incomplete"
  PROVE  GetDecimal(t, p) = GetDecimal(s, p)
<1>1. CASE GetLine(s, p).tag = "Ok"
  <2>1. GetLine(t, p) = GetLine(s, p)
    BY <1>1, LineStays
  <2> QED
    BY <2>1 DEF GetDecimal
<1>2. CASE GetLine(s, p).tag # "Ok"
  <2>1. GetDecimal(s, p) = GetLine(s, p)
    BY <1>2 DEF GetDecimal, Then, With
  <2>2. GetLine(s, p).tag = "Incomplete"
    BY <1>2, LineMoves
  <2> QED
    BY <2>1, <2>2
<1> QED
  BY <1>1, <1>2

\* Bytes that could be skipped can be skipped.
LEMMA SkipStays ==
  ASSUME NEW s \in Seq(Bytes), NEW t \in Seq(Bytes), Continues(s, t),
         NEW q \in Nat, NEW n \in Nat, Skip(s, q, n).tag # "Incomplete"
  PROVE  Skip(t, q, n) = Skip(s, q, n) /\ q + n - 1 <= Len(s)
<1>1. Len(s) \in Nat /\ Len(t) \in Nat /\ Len(s) <= Len(t)
  BY DEF Continues
<1>2. q + n - 1 <= Len(s)
  BY DEF Skip, Incomplete
<1>3. q + n - 1 <= Len(t)
  BY <1>1, <1>2
<1> QED
  BY <1>2, <1>3 DEF Skip

\* Unless check waits for more, its answer on the frames at p is final.
Stays(c, d, p) == \A k \in Nat : c[p][k].tag # "Incomplete" => d[p][k] = c[p][k]

\* One frame.
LEMMA OneStays ==
  ASSUME NEW s \in Seq(Bytes), NEW t \in Seq(Bytes), Continues(s, t),
         NEW p \in Nat \ {0}, NEW c, NEW e, \A q \in Nat : q > p => Stays(c, e, q),
         CheckOne(s, p, c).tag # "Incomplete"
  PROVE  CheckOne(t, p, e) = CheckOne(s, p, c)
<1> DEFINE b == Byte(s, p)
           next == Byte(s, p + 1)
           r == CheckOne(s, p, c)
           d == GetDecimal(s, p + 1)
<1>1. Incomplete.tag = "Incomplete" /\ p + 1 \in Nat \ {0} /\ U64Max \in Nat
  BY FrameAssumption DEF Incomplete
<1>2. b # "end"
  BY <1>1, CheckAt
<1>3. Byte(t, p) = b
  BY <1>2, ByteStays
<1>4. d.tag # "Incomplete" => GetDecimal(t, p + 1) = d
  BY <1>1, DecimalStays
<1>5. /\ d.tag \in {"Ok", "Incomplete", "Other"}
      /\ d.tag = "Ok" => d.val \in 0 .. U64Max /\ d.val \in Nat /\ d.pos \in Nat /\ d.pos > p
  BY <1>1, DecimalMoves
<1>6. CASE b \in {"+", "-"}
  <2>1. r = GetLine(s, p + 1) /\ CheckOne(t, p, e) = GetLine(t, p + 1)
    BY <1>3, <1>6, CheckAt
  <2>2. GetLine(s, p + 1).tag = "Ok"
    BY <1>1, <2>1, LineMoves
  <2> QED
    BY <1>1, <2>1, <2>2, LineStays
<1>7. CASE b = ":"
  <2>1. r = d /\ CheckOne(t, p, e) = GetDecimal(t, p + 1)
    BY <1>3, <1>7, CheckAt
  <2> QED
    BY <1>4, <2>1
<1>8. CASE b = "$"
  <2>1. next # "end"
    BY <1>1, <1>8, CheckAt
  <2>2. Byte(t, p + 1) = next
    BY <1>1, <2>1, ByteStays
  <2>3. CASE next = "-"
    <3>1. r = Skip(s, p + 1, 4) /\ CheckOne(t, p, e) = Skip(t, p + 1, 4)
      BY <1>3, <1>8, <2>2, <2>3, CheckAt
    <3> QED
      BY <1>1, <3>1, SkipStays
  <2>4. CASE next # "-"
    <3> DEFINE d2 == GetDecimal(t, p + 1)
    <3>1. r = IF d.tag # "Ok" THEN d
              ELSE IF d.val + 2 <= U64Max THEN Skip(s, d.pos, d.val + 2)
              ELSE IF OverflowChecks THEN Panic ELSE Skip(s, d.pos, d.val + 2 - (U64Max + 1))
      BY <1>8, <2>1, <2>4, CheckAt
    <3>2. CheckOne(t, p, e) =
            IF d2.tag # "Ok" THEN d2
            ELSE IF d2.val + 2 <= U64Max THEN Skip(t, d2.pos, d2.val + 2)
            ELSE IF OverflowChecks THEN Panic ELSE Skip(t, d2.pos, d2.val + 2 - (U64Max + 1))
      BY <1>3, <1>8, <2>1, <2>2, <2>4, CheckAt
    <3>3. d.tag # "Incomplete"
      BY <3>1
    <3>4. d2 = d
      BY <1>4, <3>3
    <3>5. \A n \in Nat : d.tag = "Ok" /\ Skip(s, d.pos, n).tag # "Incomplete" =>
                           Skip(t, d.pos, n) = Skip(s, d.pos, n)
      BY <1>5, SkipStays
    <3>6. /\ d.tag = "Ok" => d.val + 2 \in Nat
          /\ d.tag = "Ok" /\ ~(d.val + 2 <= U64Max) => d.val + 2 - (U64Max + 1) \in Nat
      BY SMTT(30), <1>1, <1>5
    <3> HIDE DEF d, d2, r
    <3>7. r.tag # "Incomplete"
      BY DEF r
    <3> QED
      BY <3>1, <3>2, <3>4, <3>5, <3>6, <3>7 DEF r
  <2> QED
    BY <2>3, <2>4
<1>9. CASE b = "*"
  <2> DEFINE d2 == GetDecimal(t, p + 1)
  <2>1. r = IF d.tag # "Ok" THEN d ELSE c[d.pos][d.val]
    BY <1>9, CheckAt
  <2>2. CheckOne(t, p, e) = IF d2.tag # "Ok" THEN d2 ELSE e[d2.pos][d2.val]
    BY <1>3, <1>9, CheckAt
  <2>3. d.tag # "Incomplete"
    BY <2>1
  <2>4. d2 = d
    BY <1>4, <2>3
  <2>5. d.tag = "Ok" => Stays(c, e, d.pos)
    BY <1>5
  <2> HIDE DEF d, d2, r
  <2>6. r.tag # "Incomplete"
    BY DEF r
  <2> QED
    BY <1>5, <2>1, <2>2, <2>4, <2>5, <2>6 DEF Stays, r
<1>10. CASE b \notin {"end", "+", "-", ":", "$", "*"}
  BY <1>3, <1>10, CheckAt
<1> QED
  BY <1>2, <1>6, <1>7, <1>8, <1>9, <1>10

\* The first of k frames, and the others.
LEMMA StepCases ==
  ASSUME NEW s, NEW c, Steps(s, c), NEW p \in Nat, NEW k \in Nat
  PROVE  \/ k = 0 /\ c[p][k] = Ok(p, <<>>)
         \/ \E j \in Nat : /\ k = j + 1
                           /\ c[p][k] = IF CheckOne(s, p, c).tag = "Ok"
                                        THEN c[CheckOne(s, p, c).pos][j] ELSE CheckOne(s, p, c)
<1>1. CASE k = 0
  BY <1>1 DEF Steps
<1>2. CASE k # 0
  <2> DEFINE j == k - 1
  <2>1. j \in Nat /\ k = j + 1
    BY <1>2
  <2> HIDE DEF j
  <2> QED
    BY <2>1 DEF Steps
<1> QED
  BY <1>1, <1>2

\* All the frames of a buffer.
LEMMA CheckStays ==
  ASSUME NEW s \in Seq(Bytes), NEW t \in Seq(Bytes), Continues(s, t),
         NEW c, Steps(s, c), Forward(c), NEW e, Steps(t, e), NEW p \in Nat \ {0}
  PROVE  Stays(c, e, p)
<1>1. ASSUME NEW q \in Nat \ {0}, \A n \in Nat : n > q => Stays(c, e, n),
             CheckOne(s, q, c).tag # "Incomplete"
      PROVE  CheckOne(t, q, e) = CheckOne(s, q, c)
  BY <1>1, OneStays
<1> DEFINE P == {q \in Nat : q # 0 => Stays(c, e, q)}
<1>2. Len(s) \in Nat /\ Incomplete.tag = "Incomplete"
  BY DEF Incomplete
<1>3. ASSUME NEW q \in Nat PROVE e[q][0] = c[q][0]
  BY DEF Steps
<1>4. ASSUME NEW q \in Nat, q > Len(s) PROVE q \in P
  <2>1. Byte(s, q) = "end"
    BY <1>4 DEF Byte
  <2>2. CheckOne(s, q, c) = Incomplete
    BY <2>1, CheckAt
  <2> HIDE DEF P
  <2>3. ASSUME NEW k \in Nat PROVE k = 0 \/ c[q][k] = Incomplete
    <3>1. k = 0 \/ \E j \in Nat : c[q][k] = IF CheckOne(s, q, c).tag = "Ok"
                                          THEN c[CheckOne(s, q, c).pos][j] ELSE CheckOne(s, q, c)
      BY StepCases
    <3> QED
      BY <1>2, <2>2, <3>1
  <2> USE DEF P
  <2> QED
    BY <1>2, <1>3, <2>3 DEF Stays
<1>5. ASSUME NEW q \in Nat, \A n \in Nat : n > q => n \in P PROVE q \in P
  <2> SUFFICES ASSUME q # 0, NEW k \in Nat, c[q][k].tag # "Incomplete"
               PROVE  e[q][k] = c[q][k]
    BY DEF Stays
  <2> DEFINE r == CheckOne(s, q, c)
             r2 == CheckOne(t, q, e)
  <2>1. CASE k = 0
    BY <1>3, <2>1
  <2>2. CASE k # 0
    <3>1. PICK j \in Nat : k = j + 1 /\ c[q][k] = IF r.tag = "Ok" THEN c[r.pos][j] ELSE r
      BY <2>2, StepCases
    <3>2. e[q][k] = IF r2.tag = "Ok" THEN e[r2.pos][j] ELSE r2
      BY <3>1 DEF Steps
    <3>3. \A n \in Nat : n > q => Stays(c, e, n)
      BY <1>5
    <3>4. r.tag # "Incomplete"
      BY <3>1
    <3>5. r2 = r
      <4>1. q \in Nat \ {0}
        OBVIOUS
      <4>2. CheckOne(s, q, c).tag # "Incomplete"
        BY <3>4
      <4> HIDE DEF P, r, r2
      <4>3. CheckOne(t, q, e) = CheckOne(s, q, c)
        BY <1>1, <3>3, <4>1, <4>2, Zenon
      <4> QED
        BY <4>3 DEF r, r2
    <3>6. r.tag = "Ok" => Stays(c, e, r.pos)
      BY <3>3, CheckMoves
    <3>7. r.tag = "Ok" => r.pos \in Nat
      BY CheckMoves
    <3> HIDE DEF r, r2, P
    <3> QED
      BY <3>1, <3>2, <3>5, <3>6, <3>7 DEF Stays
  <2> QED
    BY <2>1, <2>2
<1> HIDE DEF P
<1>6. \A q \in Nat : q \in P
  BY <1>2, <1>4, <1>5, Backwards
<1> QED
  BY <1>6 DEF P

\* What parse answers on a buffer that check accepts, it answers when there are
\* more bytes: a frame, a panic or a refusal.
SameFate(x, y) ==
  /\ x.tag = "Ok" => y = x
  /\ x.tag = "Panic" <=> y.tag = "Panic"
  /\ x.tag # "Ok" => y.tag # "Ok"

\* A line that ends among the bytes of s was whole in s.
LEMMA LineThere ==
  ASSUME NEW s \in Seq(Bytes), NEW t \in Seq(Bytes), Continues(s, t), NEW p \in Nat \ {0},
         GetLine(t, p).tag = "Ok", GetLine(t, p).pos <= Len(s) + 1
  PROVE  GetLine(s, p).tag = "Ok"
<1>1. PICK i \in LineEnds(t, p) : GetLine(t, p) = Ok(i + 2, SubSeq(t, p, i - 1)) /\ i \in Nat
  BY LineMoves
<1>2. i + 2 <= Len(s) + 1
  BY <1>1 DEF Ok
<1>3. i \in p .. Len(t) - 1 /\ t[i] = "CR" /\ t[i + 1] = "LF" /\ Len(s) \in Nat
  BY DEF LineEnds
<1>4. i \in p .. Len(s) - 1 /\ i \in 1 .. Len(s) /\ i + 1 \in 1 .. Len(s)
  BY <1>1, <1>2, <1>3
<1>5. i \in LineEnds(s, p)
  BY <1>3, <1>4 DEF LineEnds, Continues
<1> DEFINE E == LineEnds(s, p)
<1>6. GetLine(s, p) = IF E = {} THEN Incomplete ELSE Ok(Min(E) + 2, SubSeq(s, p, Min(E) - 1))
  BY DEF GetLine, With
<1> HIDE DEF E
<1> QED
  BY <1>5, <1>6 DEF Ok, E

\* The bytes of a bulk string that is whole, and the panic of one that wraps.
LEMMA BulkKept ==
  ASSUME NEW s \in Seq(Bytes), NEW t \in Seq(Bytes), Continues(s, t), Len(t) < U64Max,
         NEW q \in Nat, q >= 2, NEW len \in 0 .. U64Max, NEW r,
         r = IF len + 2 <= U64Max THEN Skip(s, q, len + 2)
             ELSE IF OverflowChecks THEN Panic ELSE Skip(s, q, len + 2 - (U64Max + 1)),
         r.tag = "Ok"
  PROVE  SameFate(ParseBulk(s, q, len), ParseBulk(t, q, len))
<1> DEFINE Found(u, n) == CASE q + n - 1 > Len(u) -> Incomplete
                            [] q + len - 1 > Len(u) -> Panic
                            [] OTHER -> Ok(q + n, Bulk(SubSeq(u, q, q + len - 1)))
           wrapped == len + 2 - (U64Max + 1)
<1>1. /\ Incomplete.tag # "Ok" /\ Panic.tag # "Ok" /\ Panic.tag = "Panic"
      /\ Len(s) \in Nat /\ Len(t) \in Nat /\ Len(s) <= Len(t) /\ U64Max \in Nat /\ len \in Nat
  BY FrameAssumption DEF Incomplete, Panic, Continues
<1>2. ASSUME NEW u
      PROVE  ParseBulk(u, q, len) =
               IF len + 2 <= U64Max THEN Found(u, len + 2)
               ELSE IF OverflowChecks THEN Panic ELSE Found(u, wrapped)
  BY DEF ParseBulk, WithCrLf
<1>3. \A n \in Nat : Skip(s, q, n).tag = "Ok" => q + n - 1 <= Len(s) /\ q + n - 1 <= Len(t)
  <2> SUFFICES ASSUME NEW n \in Nat, Skip(s, q, n).tag = "Ok"
               PROVE  q + n - 1 <= Len(s) /\ q + n - 1 <= Len(t)
    OBVIOUS
  <2>1. q + n - 1 <= Len(s)
    BY <1>1 DEF Skip
  <2> QED
    BY <1>1, <2>1
<1>4. CASE len + 2 <= U64Max
  <2>1. r = Skip(s, q, len + 2) /\ len + 2 \in Nat
    BY <1>1, <1>4
  <2>2. q + (len + 2) - 1 <= Len(s) /\ q + (len + 2) - 1 <= Len(t)
    BY <1>3, <2>1
  <2>3. /\ ~(q + (len + 2) - 1 > Len(s)) /\ ~(q + (len + 2) - 1 > Len(t))
        /\ ~(q + len - 1 > Len(s)) /\ ~(q + len - 1 > Len(t))
    BY <1>1, <2>2
  <2>4. /\ Found(s, len + 2) = Ok(q + (len + 2), Bulk(SubSeq(s, q, q + len - 1)))
        /\ Found(t, len + 2) = Ok(q + (len + 2), Bulk(SubSeq(t, q, q + len - 1)))
    BY <2>3
  <2>5. SubSeq(t, q, q + len - 1) = SubSeq(s, q, q + len - 1)
    <3>1. /\ SubSeq(s, q, q + len - 1) \in Seq(Bytes) /\ Len(SubSeq(s, q, q + len - 1)) = len
          /\ \A j \in 1 .. len : SubSeq(s, q, q + len - 1)[j] = s[q + j - 1]
      BY <1>1, <2>2
    <3>2. /\ SubSeq(t, q, q + len - 1) \in Seq(Bytes) /\ Len(SubSeq(t, q, q + len - 1)) = len
          /\ \A j \in 1 .. len : SubSeq(t, q, q + len - 1)[j] = t[q + j - 1]
      BY <1>1, <2>2
    <3>3. \A j \in 1 .. len : t[q + j - 1] = s[q + j - 1]
      <4>1. \A j \in 1 .. len : q + j - 1 \in 1 .. Len(s)
        BY <1>1, <2>2
      <4> QED
        BY <4>1 DEF Continues
    <3> DEFINE u == SubSeq(s, q, q + len - 1)
               v == SubSeq(t, q, q + len - 1)
    <3> HIDE DEF u, v
    <3>4. /\ u \in Seq(Bytes) /\ Len(u) = len /\ v \in Seq(Bytes) /\ Len(v) = len
          /\ \A j \in 1 .. len : v[j] = u[j]
      BY <3>1, <3>2, <3>3 DEF u, v
    <3>5. v = u
      BY <3>4, SameEntries
    <3> QED
      BY <3>5 DEF u, v
  <2>6. Found(t, len + 2) = Found(s, len + 2)
    BY <2>4, <2>5
  <2>7. Found(s, len + 2).tag = "Ok"
    BY <2>4 DEF Ok
  <2> HIDE DEF Found
  <2>8. /\ ParseBulk(s, q, len) = Found(s, len + 2) /\ ParseBulk(t, q, len) = Found(t, len + 2)
    BY <1>2, <1>4
  <2> QED
    BY <2>6, <2>8 DEF SameFate
<1>5. CASE ~(len + 2 <= U64Max)
  <2>1. ~OverflowChecks /\ r = Skip(s, q, wrapped) /\ wrapped \in Nat
    BY <1>1, <1>5
  <2> HIDE DEF wrapped
  <2>2. q + wrapped - 1 <= Len(s) /\ q + wrapped - 1 <= Len(t)
    BY <1>3, <2>1
  <2>3. /\ ~(q + wrapped - 1 > Len(s)) /\ ~(q + wrapped - 1 > Len(t))
    BY <1>1, <2>1, <2>2
  <2>4. q + len - 1 > Len(s) /\ q + len - 1 > Len(t)
    BY <1>1, <1>5
  <2>5. Found(s, wrapped) = Panic /\ Found(t, wrapped) = Panic
    BY <2>3, <2>4
  <2> HIDE DEF Found
  <2>6. ParseBulk(s, q, len) = Panic /\ ParseBulk(t, q, len) = Panic
    BY <1>2, <1>5, <2>1, <2>5
  <2> QED
    BY <1>1, <2>6 DEF SameFate
<1> QED
  BY <1>4, <1>5

\* On the frames at p, if check accepts them.
Kept(c, g, h, p) == \A k \in Nat : c[p][k].tag = "Ok" => SameFate(g[p][k], h[p][k])

\* One frame.
LEMMA OneKept ==
  ASSUME NEW s \in Seq(Bytes), NEW t \in Seq(Bytes), Continues(s, t), Len(t) < U64Max,
         NEW p \in Nat \ {0}, NEW c, NEW g, NEW h,
         \A q \in Nat : q > p => Kept(c, g, h, q),
         CheckOne(s, p, c).tag = "Ok"
  PROVE  SameFate(ParseOne(s, p, g), ParseOne(t, p, h))
<1> DEFINE b == Byte(s, p)
           next == Byte(s, p + 1)
           r == CheckOne(s, p, c)
           x == ParseOne(s, p, g)
           y == ParseOne(t, p, h)
           d == GetDecimal(s, p + 1)
           d2 == GetDecimal(t, p + 1)
           l == GetLine(s, p + 1)
           l2 == GetLine(t, p + 1)
<1>1. /\ Incomplete.tag = "Incomplete" /\ Other.tag = "Other" /\ p + 1 \in Nat \ {0}
      /\ \A pos, val : Ok(pos, val).tag = "Ok"
  BY DEF Incomplete, Other, Ok
<1>2. b \in {"+", "-", ":", "*"} \/ (b = "$" /\ next # "end")
  BY <1>1, CheckAt
<1>3. Byte(t, p) = b
  BY <1>2, ByteStays
<1>4. next # "end" => Byte(t, p + 1) = next
  BY <1>1, ByteStays
<1>5. d.tag = "Ok" => /\ d2 = d /\ d.val \in 0 .. U64Max /\ d.val \in Nat
                      /\ d.pos \in Nat /\ d.pos > p /\ d.pos >= 2
  BY <1>1, DecimalStays, DecimalMoves, FrameAssumption
<1>6. l.tag = "Ok" => l2 = l
  BY <1>1, LineStays
<1>7. x = y => SameFate(x, y)
  BY DEF SameFate
<1>8. CASE b \in {"+", "-"}
  <2>1. r = l
    BY <1>8, CheckAt
  <2>2. l2 = l
    BY <1>6, <2>1
  <2>3. CASE b = "+"
    <3>1. /\ x = IF l.tag # "Ok" THEN l
                 ELSE IF ToSet(l.val) \cap NotUtf8 = {} THEN Ok(l.pos, Simple(l.val)) ELSE Other
          /\ y = IF l2.tag # "Ok" THEN l2
                 ELSE IF ToSet(l2.val) \cap NotUtf8 = {} THEN Ok(l2.pos, Simple(l2.val)) ELSE Other
      BY <1>3, <2>3, ParseAt
    <3> QED
      BY <1>7, <2>2, <3>1
  <2>4. CASE b = "-"
    <3>1. /\ x = IF l.tag # "Ok" THEN l
                 ELSE IF ToSet(l.val) \cap NotUtf8 = {} THEN Ok(l.pos, Error(l.val)) ELSE Other
          /\ y = IF l2.tag # "Ok" THEN l2
                 ELSE IF ToSet(l2.val) \cap NotUtf8 = {} THEN Ok(l2.pos, Error(l2.val)) ELSE Other
      BY <1>3, <2>4, ParseAt
    <3> QED
      BY <1>7, <2>2, <3>1
  <2> QED
    BY <1>8, <2>3, <2>4
<1>9. CASE b = ":"
  <2>1. r = d
    BY <1>9, CheckAt
  <2>2. d2 = d
    BY <1>5, <2>1
  <2>3. /\ x = IF d.tag # "Ok" THEN d ELSE Ok(d.pos, Integer(d.val))
        /\ y = IF d2.tag # "Ok" THEN d2 ELSE Ok(d2.pos, Integer(d2.val))
    BY <1>3, <1>9, ParseAt
  <2> QED
    BY <1>7, <2>2, <2>3
<1>10. CASE b = "$" /\ next = "-"
  <2>1. r = Skip(s, p + 1, 4)
    BY <1>10, CheckAt
  <2>2. p + 1 + 4 - 1 <= Len(s)
    BY <1>1, <2>1 DEF Skip
  <2>3. x = IF l.tag # "Ok" THEN l ELSE IF l.val = <<"-", "1">> THEN Ok(l.pos, Null) ELSE Other
    BY <1>10, ParseAt
  <2>4. y = IF l2.tag # "Ok" THEN l2 ELSE IF l2.val = <<"-", "1">> THEN Ok(l2.pos, Null) ELSE Other
    BY <1>3, <1>4, <1>10, ParseAt
  <2>5. CASE l.tag = "Ok"
    BY <1>6, <1>7, <2>3, <2>4, <2>5
  <2>6. CASE l.tag # "Ok"
    <3>1. x.tag = "Incomplete"
      BY <1>1, <2>3, <2>6, LineMoves
    <3>2. ~(l2.tag = "Ok" /\ l2.val = <<"-", "1">>)
      <4> SUFFICES ASSUME l2.tag = "Ok", l2.val = <<"-", "1">> PROVE FALSE
        OBVIOUS
      <4>1. l2.pos = p + 1 + 4
        BY <1>1, NullTogether
      <4>2. l2.pos <= Len(s) + 1
        <5>1. Len(s) \in Nat
          OBVIOUS
        <5> QED
          BY <2>2, <4>1, <5>1
      <4> QED
        BY <1>1, <2>6, <4>2, LineThere
    <3>3. l2.tag \in {"Ok", "Incomplete"}
      BY <1>1, LineMoves
    <3>4. y.tag \in {"Incomplete", "Other"}
      <4> HIDE DEF l2, y
      <4> QED
        BY <1>1, <2>4, <3>2, <3>3
    <3> HIDE DEF x, y
    <3>5. SameFate(x, y)
      BY <3>1, <3>4 DEF SameFate
    <3> QED
      BY <3>5 DEF x, y
  <2> QED
    BY <2>5, <2>6
<1>11. CASE b = "$" /\ next \notin {"end", "-"}
  <2>1. r = IF d.tag # "Ok" THEN d
            ELSE IF d.val + 2 <= U64Max THEN Skip(s, d.pos, d.val + 2)
            ELSE IF OverflowChecks THEN Panic ELSE Skip(s, d.pos, d.val + 2 - (U64Max + 1))
    BY <1>11, CheckAt
  <2>2. x = IF d.tag # "Ok" THEN d ELSE ParseBulk(s, d.pos, d.val)
    BY <1>11, ParseAt
  <2>3. y = IF d2.tag # "Ok" THEN d2 ELSE ParseBulk(t, d2.pos, d2.val)
    BY <1>3, <1>4, <1>11, ParseAt
  <2>4. r.tag = "Ok"
    OBVIOUS
  <2> HIDE DEF r, d, d2, x, y
  <2>5. d.tag = "Ok" /\ d2 = d
    BY <1>5, <2>1, <2>4
  <2>6. PICK q, len : q = d.pos /\ len = d.val
    OBVIOUS
  <2>7. /\ q \in Nat /\ q >= 2 /\ len \in 0 .. U64Max
        /\ r = IF len + 2 <= U64Max THEN Skip(s, q, len + 2)
               ELSE IF OverflowChecks THEN Panic ELSE Skip(s, q, len + 2 - (U64Max + 1))
        /\ x = ParseBulk(s, q, len) /\ y = ParseBulk(t, q, len)
    BY <1>5, <2>1, <2>2, <2>3, <2>5, <2>6
  <2>8. SameFate(ParseBulk(s, q, len), ParseBulk(t, q, len))
    BY <2>4, <2>7, BulkKept
  <2> QED
    BY <2>7, <2>8 DEF x, y
<1>12. CASE b = "*"
  <2> DEFINE a == g[d.pos][d.val]
             a2 == h[d2.pos][d2.val]
  <2>1. r = IF d.tag # "Ok" THEN d ELSE c[d.pos][d.val]
    BY <1>12, CheckAt
  <2>2. x = IF d.tag # "Ok" THEN d ELSE IF a.tag # "Ok" THEN a ELSE Ok(a.pos, Array(a.val))
    BY <1>12, ParseAt
  <2>3. y = IF d2.tag # "Ok" THEN d2 ELSE IF a2.tag # "Ok" THEN a2 ELSE Ok(a2.pos, Array(a2.val))
    BY <1>3, <1>12, ParseAt
  <2>4. d.tag = "Ok" /\ c[d.pos][d.val].tag = "Ok"
    BY <2>1
  <2>5. d2 = d /\ Kept(c, g, h, d.pos)
    BY <1>5, <2>4
  <2>6. SameFate(g[d.pos][d.val], h[d.pos][d.val])
    BY <1>5, <2>4, <2>5 DEF Kept
  <2>7. SameFate(a, a2)
    BY <2>5, <2>6
  <2> HIDE DEF a, a2, d, d2, x, y
  <2>8. SameFate(x, y)
    BY <1>1, <2>2, <2>3, <2>4, <2>5, <2>7 DEF SameFate
  <2> QED
    BY <2>8 DEF x, y
<1> QED
  BY <1>2, <1>8, <1>9, <1>10, <1>11, <1>12

\* All the frames of a buffer.
LEMMA ParseKept ==
  ASSUME NEW s \in Seq(Bytes), NEW t \in Seq(Bytes), Continues(s, t), Len(t) < U64Max,
         NEW c, Steps(s, c), Forward(c), NEW g, Rows(s, g), NEW h, Rows(t, h),
         NEW p \in Nat \ {0}
  PROVE  Kept(c, g, h, p)
<1> DEFINE P == {q \in Nat : q # 0 => Kept(c, g, h, q)}
<1>1. Len(s) \in Nat /\ Incomplete.tag # "Ok"
  BY DEF Incomplete
<1>2. ASSUME NEW q \in Nat PROVE SameFate(g[q][0], h[q][0])
  BY DEF Rows, SameFate
<1>3. ASSUME NEW q \in Nat, q > Len(s) PROVE q \in P
  <2>1. Byte(s, q) = "end"
    BY <1>3 DEF Byte
  <2>2. CheckOne(s, q, c) = Incomplete
    BY <2>1, CheckAt
  <2>3. ASSUME NEW k \in Nat PROVE k = 0 \/ c[q][k] = Incomplete
    BY <1>1, <2>2, StepCases
  <2> QED
    BY <1>1, <1>2, <2>3 DEF Kept
<1>4. ASSUME NEW q \in Nat, \A n \in Nat : n > q => n \in P PROVE q \in P
  <2> SUFFICES ASSUME q # 0, NEW k \in Nat, c[q][k].tag = "Ok"
               PROVE  SameFate(g[q][k], h[q][k])
    BY DEF Kept
  <2>1. CASE k = 0
    BY <1>2, <2>1
  <2>2. CASE k # 0
    <3> DEFINE r == CheckOne(s, q, c)
               x == ParseOne(s, q, g)
               y == ParseOne(t, q, h)
               m == g[x.pos]
               n == h[y.pos]
    <3>1. PICK j \in Nat : k = j + 1 /\ c[q][k] = IF r.tag = "Ok" THEN c[r.pos][j] ELSE r
      BY <2>2, StepCases
    <3>2. r.tag = "Ok" /\ c[r.pos][j].tag = "Ok"
      BY <3>1
    <3>3. g[q][k] = IF x.tag # "Ok" THEN x ELSE IF m[j].tag # "Ok" THEN m[j]
                    ELSE Ok(m[j].pos, <<x.val>> \o m[j].val)
      BY <3>1 DEF Rows
    <3>4. h[q][k] = IF y.tag # "Ok" THEN y ELSE IF n[j].tag # "Ok" THEN n[j]
                    ELSE Ok(n[j].pos, <<y.val>> \o n[j].val)
      BY <3>1 DEF Rows
    <3>5. \A i \in Nat : i > q => Kept(c, g, h, i)
      BY <1>4
    <3>6. q \in Nat \ {0}
      OBVIOUS
    <3>7. SameFate(x, y)
      <4> HIDE DEF P
      <4> QED
        BY <3>2, <3>5, <3>6, OneKept
    <3>8. r.pos \in Nat /\ r.pos > q
      BY <3>2, CheckMoves
    <3>9. x.tag = "Ok" => x.pos = r.pos
      <4>1. \A i \in Nat : i > q => Together(c, g, i)
        BY AllTogether
      <4> QED
        BY <3>2, <4>1, OneTogether
    <3>10. \A pos, val : Ok(pos, val).tag = "Ok"
      BY DEF Ok
    <3>11. CASE x.tag # "Ok"
      <4>1. g[q][k] = x /\ h[q][k] = y
        BY <3>3, <3>4, <3>7, <3>11 DEF SameFate
      <4> QED
        BY <3>7, <4>1
    <3>12. CASE x.tag = "Ok"
      <4>1. y = x /\ x.pos = r.pos
        BY <3>7, <3>9, <3>12 DEF SameFate
      <4>2. Kept(c, g, h, r.pos)
        BY <3>5, <3>8
      <4>3. SameFate(m[j], n[j])
        BY <3>2, <4>1, <4>2 DEF Kept
      <4>4. y.tag = "Ok" /\ y.val = x.val
        BY <3>12, <4>1
      <4> HIDE DEF m, n, x, y, P
      <4> QED
        BY <3>3, <3>4, <3>10, <3>12, <4>3, <4>4 DEF SameFate
    <3> QED
      BY <3>11, <3>12
  <2> QED
    BY <2>1, <2>2
<1> HIDE DEF P
<1>5. \A q \in Nat : q \in P
  BY <1>1, <1>3, <1>4, Backwards
<1> QED
  BY <1>5 DEF P

\* What Check and Parse answer on a buffer and on the same with more bytes.
LEMMA BothStay ==
  ASSUME NEW s \in Seq(Bytes), NEW t \in Seq(Bytes), Continues(s, t), Len(t) < U64Max
  PROVE  /\ Bounded(s, Check(s))
         /\ Check(s).tag # "Incomplete" => Check(t) = Check(s)
         /\ Check(s).tag = "Ok" => SameFate(Parse(s), Parse(t))
<1>1. PICK c : Check(s) = c[1][1] /\ Steps(s, c) /\ Forward(c)
  BY CheckUnfold, CheckSteps
<1>2. PICK e : Check(t) = e[1][1] /\ Steps(t, e)
  BY CheckUnfold, CheckSteps
<1>3. PICK g : Parse(s) = Then(g[1][1], LAMBDA r : Ok(r.pos, r.val[1])) /\ Rows(s, g)
  BY ParseUnfold, ParseRows
<1>4. PICK h : Parse(t) = Then(h[1][1], LAMBDA r : Ok(r.pos, r.val[1])) /\ Rows(t, h)
  BY ParseUnfold, ParseRows
<1>5. 1 \in Nat /\ 1 \in Nat \ {0} /\ 1 <= Len(s) + 1
  OBVIOUS
<1>6. Bounded(s, Check(s))
  BY <1>1, <1>5, CheckBounded DEF AllBounded
<1>7. Check(s).tag # "Incomplete" => Check(t) = Check(s)
  BY <1>1, <1>2, <1>5, CheckStays DEF Stays
<1>8. ASSUME Check(s).tag = "Ok" PROVE SameFate(Parse(s), Parse(t))
  <2> DEFINE x == g[1][1]
             y == h[1][1]
  <2>1. Kept(c, g, h, 1)
    BY <1>1, <1>3, <1>4, <1>5, ParseKept
  <2>2. SameFate(x, y)
    BY <1>1, <1>5, <1>8, <2>1 DEF Kept
  <2>3. Parse(s) = IF x.tag = "Ok" THEN Ok(x.pos, x.val[1]) ELSE x
    BY <1>3 DEF Then, With
  <2>4. Parse(t) = IF y.tag = "Ok" THEN Ok(y.pos, y.val[1]) ELSE y
    BY <1>4 DEF Then, With
  <2>5. \A pos, val : Ok(pos, val).tag = "Ok"
    BY DEF Ok
  <2> HIDE DEF x, y
  <2> QED
    BY <2>2, <2>3, <2>4, <2>5 DEF SameFate
<1> QED
  BY <1>6, <1>7, <1>8

\* Once parse_frame has an answer, more bytes do not change it.
LEMMA AnswerStays ==
  ASSUME NEW s \in Seq(Bytes), NEW t \in Seq(Bytes), Continues(s, t), Len(t) < U64Max,
         Answer(s).tag # "Wait"
  PROVE  Answer(t) = Answer(s)
<1>1. \A u : Answer(u) = IF ParseFrame(u).tag = "Got"
                         THEN Ok(Len(u) - Len(ParseFrame(u).rest), ParseFrame(u).frame)
                         ELSE ParseFrame(u)
  BY DEF Answer, With
<1>2. \A u : ParseFrame(u) = CASE Check(u).tag = "Incomplete" -> [tag |-> "Wait"]
                               [] Check(u).tag = "Ok" -> Parsed(u, Check(u).pos, Parse(u))
                               [] OTHER -> Check(u)
  BY DEF ParseFrame, With
<1>3. /\ Bounded(s, Check(s))
      /\ Check(s).tag # "Incomplete" => Check(t) = Check(s)
      /\ Check(s).tag = "Ok" => SameFate(Parse(s), Parse(t))
  BY BothStay
<1>4. Check(s).tag # "Incomplete"
  <2> SUFFICES ASSUME Check(s).tag = "Incomplete" PROVE FALSE
    OBVIOUS
  <2>1. ParseFrame(s) = [tag |-> "Wait"]
    BY <1>2
  <2>2. ParseFrame(s).tag = "Wait"
    BY <2>1
  <2>3. Answer(s) = ParseFrame(s)
    BY <1>1, <2>2
  <2> QED
    BY <2>2, <2>3
<1>5. Check(t) = Check(s)
  BY <1>3, <1>4
<1>6. CASE Check(s).tag # "Ok"
  <2>1. ParseFrame(s) = Check(s) /\ ParseFrame(t) = Check(s)
    BY <1>2, <1>4, <1>5, <1>6
  <2>2. Check(s).tag # "Got"
    BY <1>3 DEF Bounded
  <2> QED
    BY <1>1, <2>1, <2>2
<1>7. CASE Check(s).tag = "Ok"
  <2> DEFINE pos == Check(s).pos
             x == Parse(s)
             y == Parse(t)
  <2>1. ParseFrame(s) = Parsed(s, pos, x) /\ ParseFrame(t) = Parsed(t, pos, y)
    BY <1>2, <1>5, <1>7
  <2>2. pos \in Nat /\ pos <= Len(s) + 1 /\ SameFate(x, y)
    BY <1>3, <1>7 DEF Bounded
  <2>3. pos <= Len(t) + 1 /\ Len(s) \in Nat /\ Len(t) \in Nat
    BY <2>2 DEF Continues
  <2>4. pos >= 1
    <3>1. PICK c : Check(s) = c[1][1] /\ Forward(c)
      BY CheckUnfold
    <3>2. 1 \in Nat
      OBVIOUS
    <3> QED
      BY <1>7, <3>1, <3>2 DEF Forward
  <2> HIDE DEF pos, x, y
  <2>5. CASE x.tag = "Ok"
    <3>1. y = x
      BY <2>2, <2>5 DEF SameFate
    <3>2. ASSUME NEW u \in Seq(Bytes), pos <= Len(u) + 1, ParseFrame(u) = Parsed(u, pos, x)
          PROVE  Answer(u) = Ok(pos - 1, x.val)
      <4>1. ParseFrame(u) = Got(x.val, SubSeq(u, pos, Len(u)))
        BY <2>5, <3>2 DEF Parsed
      <4>2. /\ ParseFrame(u).tag = "Got" /\ ParseFrame(u).frame = x.val
            /\ ParseFrame(u).rest = SubSeq(u, pos, Len(u))
        <5> DEFINE rest == SubSeq(u, pos, Len(u))
        <5> HIDE DEF rest
        <5>1. /\ Got(x.val, rest).tag = "Got" /\ Got(x.val, rest).frame = x.val
              /\ Got(x.val, rest).rest = rest
          BY DEF Got
        <5>2. ParseFrame(u) = Got(x.val, rest)
          BY <4>1 DEF rest
        <5>3. ParseFrame(u).rest = rest /\ rest = SubSeq(u, pos, Len(u))
          BY <5>1, <5>2 DEF rest
        <5> QED
          BY <5>1, <5>2, <5>3
      <4>3. Len(u) - Len(SubSeq(u, pos, Len(u))) = pos - 1
        <5>1. Len(u) \in Nat
          OBVIOUS
        <5>2. Len(SubSeq(u, pos, Len(u))) = Len(u) - pos + 1
          BY <2>2, <2>4, <3>2, <5>1
        <5>3. \A a, b \in Nat : a - (a - b + 1) = b - 1
          OBVIOUS
        <5> QED
          BY <2>2, <5>1, <5>2, <5>3
      <4> QED
        BY <1>1, <4>2, <4>3
    <3> QED
      BY <2>1, <2>2, <2>3, <3>1, <3>2
  <2>6. CASE x.tag = "Panic"
    <3>1. y.tag = "Panic"
      BY <2>2, <2>6 DEF SameFate
    <3>2. ParseFrame(s) = Panic /\ ParseFrame(t) = Panic /\ Panic.tag # "Got"
      BY <2>1, <2>6, <3>1 DEF Parsed, Panic
    <3> QED
      BY <1>1, <3>2
  <2>7. CASE x.tag \notin {"Ok", "Panic"}
    <3>1. y.tag \notin {"Ok", "Panic"}
      BY <2>2, <2>7 DEF SameFate
    <3>2. ParseFrame(s) = Other /\ ParseFrame(t) = Other /\ Other.tag # "Got"
      BY <2>1, <2>7, <3>1 DEF Parsed, Other
    <3> QED
      BY <1>1, <3>2
  <2> QED
    BY <2>5, <2>6, <2>7
<1> QED
  BY <1>6, <1>7

-------------------------------------------------------------------------------
(* The properties of Decoder.                                              *)

\* What the buffer holds.
Buffers == arrived \in Seq(Bytes) /\ Len(arrived) <= MaxBytes

\* The buffer holds bytes, and no more than the bound.
THEOREM BufferTyped == ArriveSpec => []Buffers
<1>1. EmptyBuffer => Buffers
  <2>1. <<>> \in Seq(Bytes) /\ Len(<<>>) = 0 /\ MaxBytes \in Nat
    BY DecoderAssumption
  <2> QED
    BY <2>1 DEF EmptyBuffer, Buffers
<1>2. Buffers /\ [Arrive]_arrived => Buffers'
  <2> SUFFICES ASSUME Buffers, [Arrive]_arrived PROVE Buffers'
    OBVIOUS
  <2>1. CASE Arrive
    <3>1. PICK b \in Bytes : arrived' = Append(arrived, b)
      BY <2>1 DEF Arrive
    <3>2. Len(arrived) < MaxBytes /\ MaxBytes \in Nat /\ arrived \in Seq(Bytes)
      BY <2>1, DecoderAssumption DEF Arrive, Buffers
    <3>3. Append(arrived, b) \in Seq(Bytes) /\ Len(Append(arrived, b)) = Len(arrived) + 1
      BY <3>2
    <3> QED
      BY <3>1, <3>2, <3>3 DEF Buffers
  <2>2. CASE UNCHANGED arrived
    BY <2>2 DEF Buffers
  <2> QED
    BY <2>1, <2>2
<1> QED
  BY <1>1, <1>2, PTL DEF ArriveSpec

\* check and parse stop at the same byte of whatever a peer has sent.
THEOREM SameEndCorrect == ArriveSpec => []SameEnd
<1>1. Buffers => SameEnd
  BY EndsAgree DEF Buffers, SameEnd
<1> QED
  BY <1>1, BufferTyped, PTL

\* The answer of parse_frame is the same however the stream was cut.
THEOREM AnswerIsFinalCorrect == ArriveSpec => AnswerIsFinal
<1>1. Buffers /\ Buffers' /\ [Arrive]_arrived
      => [Answer(arrived).tag # "Wait" => Answer(arrived') = Answer(arrived)]_arrived
  <2> SUFFICES ASSUME Buffers, Buffers', Arrive, Answer(arrived).tag # "Wait"
               PROVE  Answer(arrived') = Answer(arrived)
    OBVIOUS
  <2>1. PICK b \in Bytes : arrived' = Append(arrived, b)
    BY DEF Arrive
  <2>2. /\ arrived \in Seq(Bytes) /\ arrived' \in Seq(Bytes)
        /\ Len(arrived') <= MaxBytes /\ MaxBytes < U64Max /\ MaxBytes \in Nat /\ U64Max \in Nat
    BY DecoderAssumption, FrameAssumption DEF Buffers
  <2>3. Len(arrived') < U64Max /\ Len(arrived) <= Len(arrived')
    <3>1. Len(Append(arrived, b)) = Len(arrived) + 1 /\ Len(arrived) \in Nat
      BY <2>2
    <3> QED
      BY <2>1, <2>2, <3>1
  <2>4. Continues(arrived, arrived')
    <3>1. \A i \in 1 .. Len(arrived) : Append(arrived, b)[i] = arrived[i]
      BY <2>2
    <3> QED
      BY <2>1, <2>3, <3>1 DEF Continues
  <2> QED
    BY <2>2, <2>3, <2>4, AnswerStays
<1>2. ArriveSpec => [][Arrive]_arrived
  BY DEF ArriveSpec
<1> QED
  BY <1>1, <1>2, BufferTyped, PTL DEF AnswerIsFinal
===============================================================================
