-------------------------- MODULE RpcStreamProofs --------------------------
(***************************************************************************)
(* The safety of a call over a stream, for every message, every piece of   *)
(* it that arrives, every max_packet_size and whatever follows an answer.  *)
(*                                                                         *)
(* Most of it is about ProtoBuf: that merge_from makes of what the         *)
(* generated code writes the message that was written, and that            *)
(* compute_size is its length.  The folds and the recursive functions are  *)
(* reasoned about by induction on a set of numbers or of sequences, which  *)
(* the least element of a well-founded order gives.  The rest is about the *)
(* stream: the bytes that are read, those that have arrived and those to   *)
(* come are always the answer and what follows it.                         *)
(***************************************************************************)
EXTENDS RpcStream, SequenceTheorems, WellFoundedInduction, TLAPS

-----------------------------------------------------------------------------
(* Induction over the naturals and over sequences, on a set.               *)

\* The order of the naturals, as the relation the library knows.
LEMMA LessWellFounded ==
  \E R : IsWellFoundedOn(R, Nat) /\ \A x, y \in Nat : x < y => <<x, y>> \in R
<1> DEFINE R == {ss \in Nat \X Nat : ss[1] < ss[2]}
<1>1. IsWellFoundedOn(R, Nat)
  <2>1. R = {ss \in Nat \X Nat : ss[1] < ss[2]}
    OBVIOUS
  <2> QED
    BY <2>1, NatLessThanWellFounded DEF OpToRel
<1>2. \A x, y \in Nat : x < y => <<x, y>> \in R
  BY DEF R
<1> QED
  BY <1>1, <1>2

\* Every set of naturals that is not empty has a least element.
LEMMA LeastNat ==
  ASSUME NEW T \in SUBSET Nat, T # {}
  PROVE  \E x \in T : \A y \in T : x <= y
<1>1. PICK R : IsWellFoundedOn(R, Nat) /\ \A x, y \in Nat : x < y => <<x, y>> \in R
  BY LessWellFounded
<1>2. \E x \in T : \A y \in T : ~ (<<y, x>> \in R)
  <2>1. IsWellFoundedOn(R, Nat) /\ T \subseteq Nat /\ T # {}
    BY <1>1
  <2> QED
    BY <2>1, WFMin, Zenon
<1>3. PICK x \in T : \A y \in T : ~ (<<y, x>> \in R)
  BY <1>2
<1>4. \A y \in T : ~(y < x)
  BY <1>1, <1>3
<1>5. T \subseteq Nat
  OBVIOUS
<1> QED
  BY <1>4, <1>5

\* What holds of 0, and of n + 1 when it holds of n, holds of all.
LEMMA NatSetInduction ==
  ASSUME NEW T, 0 \in T, \A n \in Nat : n \in T => n + 1 \in T
  PROVE  Nat \subseteq T
<1> SUFFICES ASSUME ~(Nat \subseteq T) PROVE FALSE
  OBVIOUS
<1>1. PICK x \in Nat \ T : \A y \in Nat \ T : x <= y
  BY LeastNat
<1>2. x # 0 /\ x - 1 \in Nat /\ x - 1 \notin Nat \ T
  BY <1>1
<1> QED
  BY <1>1, <1>2

\* What holds of the empty sequence, and of one that is an element longer
\* when it holds of the shorter one, holds of all.
LEMMA SeqSetInduction ==
  ASSUME NEW S, NEW T, <<>> \in T,
         \A s \in Seq(S), e \in S : s \in T => Append(s, e) \in T
  PROVE  Seq(S) \subseteq T
<1> DEFINE L == {n \in Nat : \A s \in Seq(S) : Len(s) = n => s \in T}
<1>1. 0 \in L
  <2>1. \A s \in Seq(S) : Len(s) = 0 => s = <<>>
    BY EmptySeq
  <2> QED
    BY <2>1
<1>2. ASSUME NEW n \in Nat, n \in L
      PROVE  n + 1 \in L
  <2> SUFFICES ASSUME NEW s \in Seq(S), Len(s) = n + 1 PROVE s \in T
    OBVIOUS
  <2>1. s # <<>>
    OBVIOUS
  <2>2. PICK t \in Seq(S), e \in S : s = Append(t, e)
    BY <2>1, SequenceEmptyOrAppend
  <2>3. Len(s) = Len(t) + 1 /\ Len(t) \in Nat
    BY <2>2
  <2>4. Len(t) = n
    BY <2>3
  <2> QED
    BY <1>2, <2>2, <2>4
<1>3. Nat \subseteq L
  <2> HIDE DEF L
  <2> QED
    BY <1>1, <1>2, NatSetInduction
<1> QED
  BY <1>3

\* The same, when the sequence gets longer at its head.
LEMMA SeqConsInduction ==
  ASSUME NEW S, NEW T, <<>> \in T,
         \A s \in Seq(S), e \in S : s \in T => <<e>> \o s \in T
  PROVE  Seq(S) \subseteq T
<1> DEFINE L == {n \in Nat : \A s \in Seq(S) : Len(s) = n => s \in T}
<1>1. 0 \in L
  <2>1. \A s \in Seq(S) : Len(s) = 0 => s = <<>>
    BY EmptySeq
  <2> QED
    BY <2>1
<1>2. ASSUME NEW n \in Nat, n \in L
      PROVE  n + 1 \in L
  <2> SUFFICES ASSUME NEW s \in Seq(S), Len(s) = n + 1 PROVE s \in T
    OBVIOUS
  <2>1. s # <<>>
    OBVIOUS
  <2>2. Head(s) \in S /\ Tail(s) \in Seq(S) /\ Len(Tail(s)) = n
    BY <2>1
  <2>3. s = <<Head(s)>> \o Tail(s)
    <3>1. s = Append(<<>>, Head(s)) \o Tail(s)
      BY <2>1
    <3> QED
      BY <3>1
  <2> QED
    BY <1>2, <2>2, <2>3
<1>3. Nat \subseteq L
  <2> HIDE DEF L
  <2> QED
    BY <1>1, <1>2, NatSetInduction
<1> QED
  BY <1>3

-----------------------------------------------------------------------------
(* Sequences of sequences, one after the other.                            *)

\* f[i] is what there is after i of the n sequences.
Flattens(f, s, n) ==
  /\ FlattenSeq(s) = f[n]
  /\ f[1] = s[1]
  /\ \A i \in 1 .. n - 1 : f[i + 1] = f[i] \o s[i + 1]

\* FlattenSeq appends one after the other.
LEMMA FlattenSteps ==
  ASSUME NEW n \in Nat \ {0}, NEW S, NEW s \in [1 .. n -> Seq(S)]
  PROVE  \E f \in [1 .. n -> Seq(S)] : Flattens(f, s, n)
<1> DEFINE Body(g, i) == IF i = 1 THEN s[i] ELSE g[i - 1] \o s[i]
           T == {m \in Nat : \E g : g = [i \in 1 .. m |-> Body(g, i)]}
           flatten == CHOOSE g : g = [i \in 1 .. n |-> Body(g, i)]
<1>1. 0 \in T
  <2> DEFINE e == [i \in 1 .. 0 |-> <<>>]
  <2>1. e = [i \in 1 .. 0 |-> Body(e, i)]
    OBVIOUS
  <2> QED
    BY <2>1
<1>2. ASSUME NEW m \in T
      PROVE  m + 1 \in T
  <2>1. PICK g : g = [i \in 1 .. m |-> Body(g, i)]
    OBVIOUS
  <2> DEFINE h == [i \in 1 .. m + 1 |-> Body(g, i)]
  <2>2. \A i \in 1 .. m + 1 : Body(h, i) = Body(g, i)
    <3> TAKE i \in 1 .. m + 1
    <3>1. CASE i = 1
      BY <3>1
    <3>2. CASE i # 1
      <4>1. i - 1 \in 1 .. m /\ i - 1 \in 1 .. m + 1
        BY <3>2
      <4> HIDE DEF Body
      <4>2. h[i - 1] = Body(g, i - 1) /\ g[i - 1] = Body(g, i - 1)
        BY <2>1, <4>1
      <4> HIDE DEF h
      <4> QED
        BY <3>2, <4>2 DEF Body
    <3> QED
      BY <3>1, <3>2
  <2>3. h = [i \in 1 .. m + 1 |-> Body(h, i)]
    BY <2>2
  <2> HIDE DEF h, Body
  <2>4. \E x : x = [i \in 1 .. m + 1 |-> Body(x, i)]
    BY <2>3
  <2> QED
    BY <2>4
<1>3. n \in T
  BY <1>1, <1>2, NatSetInduction
<1>4. flatten = [i \in 1 .. n |-> Body(flatten, i)]
  <2>1. \E g : g = [i \in 1 .. n |-> Body(g, i)]
    BY <1>3
  <2> HIDE DEF Body
  <2> QED
    BY <2>1
<1>5. Len(s) = n
  OBVIOUS
<1>6. FlattenSeq(s) = flatten[n]
  BY <1>5 DEF FlattenSeq
<1> HIDE DEF flatten, T
<1>7. DOMAIN flatten = 1 .. n /\ \A i \in 1 .. n : flatten[i] = Body(flatten, i)
  <2> HIDE DEF Body
  <2> QED
    BY <1>4
<1>8. flatten[1] = s[1]
  BY <1>7
<1>9. \A i \in 1 .. n - 1 : flatten[i + 1] = flatten[i] \o s[i + 1]
  <2> SUFFICES ASSUME NEW i \in 1 .. n - 1, NEW j, j = i + 1
               PROVE  flatten[j] = flatten[i] \o s[j]
    OBVIOUS
  <2>1. j \in 1 .. n /\ j # 1 /\ j - 1 = i
    OBVIOUS
  <2>2. flatten[j] = Body(flatten, j)
    <3> HIDE DEF Body
    <3> QED
      BY <1>7, <2>1
  <2>3. Body(flatten, j) = flatten[j - 1] \o s[j]
    BY <2>1, Zenon
  <2>4. flatten[j - 1] = flatten[i]
    BY <2>1
  <2> HIDE DEF Body
  <2> QED
    BY <2>2, <2>3, <2>4, Zenon
<1> HIDE DEF Body
<1>10. \A i \in 1 .. n : flatten[i] \in Seq(S)
  <2> DEFINE U == {m \in Nat : m + 1 \in 1 .. n => flatten[m + 1] \in Seq(S)}
  <2>1. 0 \in U
    BY <1>8
  <2>2. ASSUME NEW m \in Nat, m \in U
        PROVE  m + 1 \in U
    <3>1. CASE m + 1 \in 1 .. n - 1
      <4>1. flatten[m + 1] \in Seq(S) /\ s[m + 1 + 1] \in Seq(S)
        BY <2>2, <3>1
      <4>2. flatten[m + 1 + 1] = flatten[m + 1] \o s[m + 1 + 1]
        BY <1>9, <3>1
      <4>3. flatten[m + 1 + 1] \in Seq(S)
        BY <4>1, <4>2, ConcatProperties
      <4> QED
        BY <4>3
    <3>2. CASE ~(m + 1 \in 1 .. n - 1)
      BY <3>2
    <3> QED
      BY <3>1, <3>2
  <2>3. Nat \subseteq U
    <3> HIDE DEF U
    <3> QED
      BY <2>1, <2>2, NatSetInduction
  <2> SUFFICES ASSUME NEW i \in 1 .. n PROVE flatten[i] \in Seq(S)
    OBVIOUS
  <2>4. i - 1 \in Nat /\ i - 1 + 1 = i
    OBVIOUS
  <2> QED
    BY <2>3, <2>4
<1>11. flatten \in [1 .. n -> Seq(S)]
  <2>1. flatten = [i \in 1 .. n |-> flatten[i]]
    BY <1>4
  <2> QED
    BY <1>10, <2>1
<1> QED
  BY <1>6, <1>8, <1>9, <1>11 DEF Flattens

\* Nothing, and one more.
LEMMA FlattenEmpty == FlattenSeq(<<>>) = <<>>
<1>1. Len(<<>>) = 0
  OBVIOUS
<1> QED
  BY <1>1 DEF FlattenSeq

\* A sequence of sequences with one more at its end.
LEMMA FlattenAppend ==
  ASSUME NEW S, NEW s \in Seq(Seq(S)), NEW x \in Seq(S)
  PROVE  /\ FlattenSeq(s) \in Seq(S)
         /\ FlattenSeq(Append(s, x)) \in Seq(S)
         /\ FlattenSeq(Append(s, x)) = FlattenSeq(s) \o x
<1> DEFINE n == Len(s)
           t == Append(s, x)
<1>1. /\ n \in Nat /\ t \in Seq(Seq(S)) /\ Len(t) = n + 1
      /\ s \in [1 .. n -> Seq(S)] /\ t \in [1 .. n + 1 -> Seq(S)]
      /\ \A i \in 1 .. n : t[i] = s[i]
      /\ t[n + 1] = x
  <2>1. /\ n \in Nat /\ t \in Seq(Seq(S)) /\ Len(t) = n + 1
        /\ \A i \in 1 .. n : t[i] = s[i]
        /\ t[n + 1] = x
    BY AppendProperties, LenProperties
  <2>2. s \in [1 .. n -> Seq(S)] /\ t \in [1 .. Len(t) -> Seq(S)]
    BY <2>1, LenProperties
  <2> QED
    BY <2>1, <2>2
<1> HIDE DEF n, t
<1>2. PICK g \in [1 .. n + 1 -> Seq(S)] : Flattens(g, t, n + 1)
  <2>1. n + 1 \in Nat \ {0}
    BY <1>1
  <2> QED
    BY <1>1, <2>1, FlattenSteps
<1>3. CASE n = 0
  <2>1. s = <<>>
    BY <1>3, EmptySeq DEF n
  <2>2. g[1] = x /\ FlattenSeq(t) = x
    BY <1>1, <1>2, <1>3 DEF Flattens
  <2>3. <<>> \o x = x /\ <<>> \in Seq(S)
    BY ConcatEmptySeq
  <2> QED
    BY <2>1, <2>2, <2>3, FlattenEmpty DEF t
<1>4. CASE n # 0
  <2>1. PICK f \in [1 .. n -> Seq(S)] : Flattens(f, s, n)
    <3>1. n \in Nat \ {0}
      BY <1>1, <1>4
    <3> QED
      BY <1>1, <3>1, FlattenSteps
  <2> DEFINE U == {m \in Nat : m + 1 \in 1 .. n => g[m + 1] = f[m + 1]}
  <2>2. 0 \in U
    BY <1>1, <1>2, <2>1 DEF Flattens
  <2>3. ASSUME NEW m \in Nat, m \in U
        PROVE  m + 1 \in U
    <3> SUFFICES ASSUME m + 1 + 1 \in 1 .. n PROVE g[m + 1 + 1] = f[m + 1 + 1]
      OBVIOUS
    <3>1. m + 1 \in 1 .. n - 1 /\ m + 1 \in 1 .. (n + 1) - 1 /\ m + 1 \in 1 .. n
      BY <1>1
    <3>2. g[m + 1 + 1] = g[m + 1] \o t[m + 1 + 1] /\ f[m + 1 + 1] = f[m + 1] \o s[m + 1 + 1]
      BY <1>2, <2>1, <3>1 DEF Flattens
    <3>3. g[m + 1] = f[m + 1] /\ t[m + 1 + 1] = s[m + 1 + 1]
      BY <1>1, <2>3, <3>1
    <3> QED
      BY <3>2, <3>3
  <2>4. Nat \subseteq U
    <3> HIDE DEF U
    <3> QED
      BY <2>2, <2>3, NatSetInduction
  <2>5. g[n] = f[n]
    <3>1. n - 1 \in Nat /\ n - 1 + 1 = n /\ n \in 1 .. n
      BY <1>1, <1>4
    <3> QED
      BY <2>4, <3>1
  <2>6. g[n + 1] = g[n] \o t[n + 1]
    <3>1. n \in 1 .. (n + 1) - 1
      BY <1>1, <1>4
    <3> QED
      BY <1>2, <3>1 DEF Flattens
  <2>7. FlattenSeq(t) = g[n + 1] /\ FlattenSeq(s) = f[n]
    BY <1>2, <2>1 DEF Flattens
  <2>8. n \in 1 .. n /\ n + 1 \in 1 .. n + 1
    BY <1>1, <1>4
  <2> QED
    BY <1>1, <2>1, <2>5, <2>6, <2>7, <2>8 DEF t
<1> QED
  BY <1>3, <1>4

\* Flattening what is made of the elements, one by one.
LEMMA FlattenConcat ==
  ASSUME NEW S, NEW s \in Seq(Seq(S)), NEW t \in Seq(Seq(S))
  PROVE  FlattenSeq(s \o t) = FlattenSeq(s) \o FlattenSeq(t)
<1> DEFINE T == {r \in Seq(Seq(S)) : FlattenSeq(s \o r) = FlattenSeq(s) \o FlattenSeq(r)}
<1>1. <<>> \in T
  <2>1. /\ FlattenSeq(s) \in Seq(S)
    BY FlattenAppend, EmptySeq
  <2>2. s \o <<>> = s /\ FlattenSeq(s) \o <<>> = FlattenSeq(s)
    BY <2>1, ConcatEmptySeq
  <2> QED
    BY <2>2, EmptySeq, FlattenEmpty
<1>2. ASSUME NEW r \in Seq(Seq(S)), NEW e \in Seq(S), r \in T
      PROVE  Append(r, e) \in T
  <2>1. s \o Append(r, e) = Append(s \o r, e) /\ s \o r \in Seq(Seq(S))
    <3>1. Append(r, e) = r \o <<e>> /\ <<e>> \in Seq(Seq(S))
      BY AppendIsConcat
    <3>2. s \o (r \o <<e>>) = (s \o r) \o <<e>>
      BY <3>1, ConcatAssociative
    <3>3. s \o r \in Seq(Seq(S))
      BY ConcatProperties
    <3>4. Append(s \o r, e) = (s \o r) \o <<e>>
      BY <3>3, AppendIsConcat
    <3> QED
      BY <3>1, <3>2, <3>3, <3>4
  <2>2. FlattenSeq(Append(s \o r, e)) = FlattenSeq(s \o r) \o e
    BY <2>1, FlattenAppend
  <2>3. FlattenSeq(Append(r, e)) = FlattenSeq(r) \o e
    BY FlattenAppend
  <2>4. FlattenSeq(s) \in Seq(S) /\ FlattenSeq(r) \in Seq(S)
    BY FlattenAppend
  <2>5. (FlattenSeq(s) \o FlattenSeq(r)) \o e = FlattenSeq(s) \o (FlattenSeq(r) \o e)
    BY <2>4, ConcatAssociative, SMTT(20)
  <2>6. Append(r, e) \in Seq(Seq(S))
    BY AppendProperties
  <2> QED
    BY <1>2, <2>1, <2>2, <2>3, <2>5, <2>6
<1>3. Seq(Seq(S)) \subseteq T
  <2> HIDE DEF T
  <2> QED
    BY <1>1, <1>2, SeqSetInduction
<1> QED
  BY <1>3

\* One sequence, and one before the others.
LEMMA FlattenCons ==
  ASSUME NEW S, NEW x \in Seq(S), NEW t \in Seq(Seq(S))
  PROVE  /\ FlattenSeq(<<x>>) = x
         /\ FlattenSeq(<<x>> \o t) = x \o FlattenSeq(t)
<1>1. <<x>> = Append(<<>>, x) /\ <<>> \in Seq(Seq(S)) /\ <<x>> \in Seq(Seq(S))
  OBVIOUS
<1>2. FlattenSeq(<<x>>) = <<>> \o x
  BY <1>1, FlattenAppend, FlattenEmpty
<1>3. <<>> \o x = x
  BY ConcatEmptySeq
<1> QED
  BY <1>1, <1>2, <1>3, FlattenConcat

\* u and then v.
Cat(u, v) == u \o v

-----------------------------------------------------------------------------
(* Sequences of numbers, and of what is made of the elements of another.   *)

\* f[i] is the sum of the first i numbers.
Sums(f, s, n) ==
  /\ Total(s) = f[n]
  /\ f[0] = 0
  /\ \A i \in 1 .. n : f[i] = f[i - 1] + s[i]

\* Total adds one number after the other.
LEMMA TotalSteps ==
  ASSUME NEW s \in Seq(Nat)
  PROVE  \E f \in [0 .. Len(s) -> Nat] : Sums(f, s, Len(s))
<1> DEFINE n == Len(s)
           Body(g, i) == IF i = 0 THEN 0 ELSE g[i - 1] + s[i]
           T == {m \in Nat : \E g : g = [i \in 0 .. m |-> Body(g, i)]}
           sum == CHOOSE g : g = [i \in 0 .. n |-> Body(g, i)]
<1>1. 0 \in T
  <2> DEFINE e == [i \in 0 .. 0 |-> 0]
  <2>1. e = [i \in 0 .. 0 |-> Body(e, i)]
    OBVIOUS
  <2> QED
    BY <2>1
<1>2. ASSUME NEW m \in T
      PROVE  m + 1 \in T
  <2>1. PICK g : g = [i \in 0 .. m |-> Body(g, i)]
    OBVIOUS
  <2> DEFINE h == [i \in 0 .. m + 1 |-> Body(g, i)]
  <2>2. \A i \in 0 .. m + 1 : Body(h, i) = Body(g, i)
    <3> TAKE i \in 0 .. m + 1
    <3>1. CASE i = 0
      BY <3>1
    <3>2. CASE i # 0
      <4>1. i - 1 \in 0 .. m /\ i - 1 \in 0 .. m + 1
        BY <3>2
      <4> HIDE DEF Body
      <4>2. h[i - 1] = Body(g, i - 1) /\ g[i - 1] = Body(g, i - 1)
        BY <2>1, <4>1
      <4> HIDE DEF h
      <4> QED
        BY <3>2, <4>2 DEF Body
    <3> QED
      BY <3>1, <3>2
  <2>3. h = [i \in 0 .. m + 1 |-> Body(h, i)]
    BY <2>2
  <2> HIDE DEF h, Body
  <2>4. \E x : x = [i \in 0 .. m + 1 |-> Body(x, i)]
    BY <2>3
  <2> QED
    BY <2>4
<1>3. n \in T
  <2>1. n \in Nat
    BY LenProperties
  <2>2. Nat \subseteq T
    <3> HIDE DEF T
    <3> QED
      BY <1>1, <1>2, NatSetInduction
  <2> QED
    BY <2>1, <2>2
<1>4. sum = [i \in 0 .. n |-> Body(sum, i)]
  <2>1. \E g : g = [i \in 0 .. n |-> Body(g, i)]
    BY <1>3
  <2> HIDE DEF Body
  <2> QED
    BY <2>1
<1>5. Total(s) = sum[n]
  BY DEF Total
<1>6. n \in Nat /\ \A i \in 1 .. n : s[i] \in Nat
  BY LenProperties, ElementOfSeq
<1> HIDE DEF sum, T, n
<1>7. DOMAIN sum = 0 .. n /\ \A i \in 0 .. n : sum[i] = Body(sum, i)
  <2> HIDE DEF Body
  <2> QED
    BY <1>4
<1>8. sum[0] = 0
  BY <1>6, <1>7
<1>9. \A i \in 1 .. n : sum[i] = sum[i - 1] + s[i]
  BY <1>6, <1>7
<1> HIDE DEF Body
<1>10. \A i \in 0 .. n : sum[i] \in Nat
  <2> DEFINE U == {m \in Nat : m \in 0 .. n => sum[m] \in Nat}
  <2>1. 0 \in U
    BY <1>8
  <2>2. ASSUME NEW m \in Nat, m \in U
        PROVE  m + 1 \in U
    <3> SUFFICES ASSUME m + 1 \in 0 .. n PROVE sum[m + 1] \in Nat
      OBVIOUS
    <3>1. m + 1 \in 1 .. n /\ m + 1 - 1 = m /\ m \in 0 .. n
      BY <1>6
    <3>2. sum[m + 1] = sum[m] + s[m + 1]
      BY <1>9, <3>1
    <3> QED
      BY <1>6, <2>2, <3>1, <3>2
  <2>3. Nat \subseteq U
    <3> HIDE DEF U
    <3> QED
      BY <2>1, <2>2, NatSetInduction
  <2> QED
    BY <1>6, <2>3
<1>11. sum \in [0 .. n -> Nat]
  <2>1. sum = [i \in 0 .. n |-> sum[i]]
    BY <1>4
  <2> QED
    BY <1>10, <2>1
<1> QED
  BY <1>5, <1>8, <1>9, <1>11 DEF Sums, n

\* Nothing, and one more.
LEMMA TotalAppend ==
  /\ Total(<<>>) = 0
  /\ \A s \in Seq(Nat), x \in Nat :
        Total(s) \in Nat /\ Total(Append(s, x)) = Total(s) + x
<1>1. Total(<<>>) = 0
  <2>1. <<>> \in Seq(Nat) /\ Len(<<>>) = 0
    OBVIOUS
  <2> QED
    BY <2>1, TotalSteps DEF Sums
<1>2. ASSUME NEW s \in Seq(Nat), NEW x \in Nat
      PROVE  Total(s) \in Nat /\ Total(Append(s, x)) = Total(s) + x
  <2> DEFINE n == Len(s)
             t == Append(s, x)
  <2>1. /\ n \in Nat /\ t \in Seq(Nat) /\ Len(t) = n + 1
        /\ \A i \in 1 .. n : t[i] = s[i]
        /\ t[n + 1] = x
    BY AppendProperties, LenProperties
  <2>2. PICK f \in [0 .. n -> Nat] : Sums(f, s, n)
    BY TotalSteps
  <2>3. PICK g \in [0 .. n + 1 -> Nat] : Sums(g, t, n + 1)
    BY <2>1, TotalSteps
  <2> HIDE DEF n, t
  <2> DEFINE U == {m \in Nat : m \in 0 .. n => g[m] = f[m]}
  <2>4. 0 \in U
    BY <2>2, <2>3 DEF Sums
  <2>5. ASSUME NEW m \in Nat, m \in U
        PROVE  m + 1 \in U
    <3> SUFFICES ASSUME m + 1 \in 0 .. n PROVE g[m + 1] = f[m + 1]
      OBVIOUS
    <3>1. m + 1 \in 1 .. n /\ m + 1 - 1 = m /\ m \in 0 .. n /\ m + 1 \in 1 .. n + 1
      BY <2>1
    <3>2. f[m + 1] = f[m] + s[m + 1] /\ g[m + 1] = g[m] + t[m + 1]
      BY <2>2, <2>3, <3>1 DEF Sums
    <3>3. g[m] = f[m] /\ t[m + 1] = s[m + 1]
      BY <2>1, <2>5, <3>1
    <3> QED
      BY <3>2, <3>3
  <2>6. Nat \subseteq U
    <3> HIDE DEF U
    <3> QED
      BY <2>4, <2>5, NatSetInduction
  <2>7. g[n] = f[n] /\ f[n] \in Nat
    BY <2>1, <2>6
  <2>8. n + 1 \in 1 .. n + 1 /\ n + 1 - 1 = n
    BY <2>1
  <2>9. g[n + 1] = g[n] + t[n + 1]
    <3>1. \A j \in 1 .. n + 1 : g[j] = g[j - 1] + t[j]
      BY <2>3 DEF Sums
    <3>2. ASSUME NEW j, j = n + 1
          PROVE  g[j] = g[n] + t[j]
      <4>1. j \in 1 .. n + 1 /\ j - 1 = n
        BY <2>1, <3>2
      <4> QED
        BY <3>1, <4>1
    <3> QED
      BY <3>2
  <2>10. Total(t) = g[n + 1] /\ Total(s) = f[n]
    BY <2>2, <2>3 DEF Sums
  <2> QED
    BY <2>1, <2>7, <2>9, <2>10 DEF t
<1> QED
  BY <1>1, <1>2

\* An element after two sequences is an element after the second.
LEMMA AppendConcat ==
  ASSUME NEW S, NEW s \in Seq(S), NEW r \in Seq(S), NEW e \in S
  PROVE  /\ Append(r, e) \in Seq(S) /\ s \o r \in Seq(S) /\ Append(s \o r, e) \in Seq(S)
         /\ s \o Append(r, e) = Append(s \o r, e)
<1>1. Append(r, e) = r \o <<e>> /\ <<e>> \in Seq(S)
  BY AppendIsConcat
<1>2. s \o (r \o <<e>>) = (s \o r) \o <<e>>
  BY <1>1, ConcatAssociative
<1>3. s \o r \in Seq(S)
  BY ConcatProperties
<1>4. Append(s \o r, e) = (s \o r) \o <<e>>
  BY <1>3, AppendIsConcat
<1> QED
  BY <1>1, <1>2, <1>3, <1>4, AppendProperties

\* Two sequences of numbers in a row.
LEMMA TotalConcat ==
  ASSUME NEW s \in Seq(Nat), NEW t \in Seq(Nat)
  PROVE  /\ Total(s \o t) = Total(s) + Total(t)
         /\ Total(s) \in Nat /\ Total(t) \in Nat
<1>0. \A r \in Seq(Nat) : Total(r) \in Nat
  BY TotalAppend
<1> DEFINE T == {r \in Seq(Nat) : Total(s \o r) = Total(s) + Total(r)}
<1>1. <<>> \in T
  <2>1. s \o <<>> = s
    BY ConcatEmptySeq
  <2>2. <<>> \in Seq(Nat)
    OBVIOUS
  <2> QED
    BY <1>0, <2>1, <2>2, TotalAppend
<1>2. ASSUME NEW r \in Seq(Nat), NEW e \in Nat, r \in T
      PROVE  Append(r, e) \in T
  <2>1. Append(r, e) \in Seq(Nat) /\ s \o r \in Seq(Nat) /\ s \o Append(r, e) = Append(s \o r, e)
    BY AppendConcat
  <2>2. Total(Append(s \o r, e)) = Total(s \o r) + e /\ Total(Append(r, e)) = Total(r) + e
    BY <2>1, TotalAppend
  <2>3. Total(s \o r) = Total(s) + Total(r)
    BY <1>2
  <2>4. Total(s) \in Nat /\ Total(r) \in Nat
    BY <1>0
  <2>5. Total(s \o Append(r, e)) = Total(s) + Total(Append(r, e))
    BY <2>1, <2>2, <2>3, <2>4
  <2> QED
    BY <2>1, <2>5
<1>3. Seq(Nat) \subseteq T
  <2> HIDE DEF T
  <2> QED
    BY <1>1, <1>2, SeqSetInduction
<1> QED
  BY <1>0, <1>3

\* What a function makes of the elements.
Mapped(h, s) == [i \in DOMAIN s |-> h[s[i]]]

\* What is made of two sequences is what is made of each.
LEMMA MapConcat ==
  ASSUME NEW S, NEW h, NEW u \in Seq(S), NEW v \in Seq(S)
  PROVE  Mapped(h, Cat(u, v)) = Cat(Mapped(h, u), Mapped(h, v))
<1> DEFINE R == {h[y] : y \in S}
<1>0. \A y \in S : h[y] \in R
  OBVIOUS
<1> HIDE DEF R
<1>1. \A s \in Seq(S) : /\ Mapped(h, s) \in Seq(R) /\ Len(Mapped(h, s)) = Len(s)
                        /\ Len(s) \in Nat
                        /\ \A i \in 1 .. Len(s) : Mapped(h, s)[i] = h[s[i]]
  BY <1>0 DEF Mapped
<1>2. /\ u \o v \in Seq(S) /\ Len(u \o v) = Len(u) + Len(v)
      /\ \A i \in 1 .. Len(u) + Len(v) : (u \o v)[i] = IF i <= Len(u) THEN u[i] ELSE v[i - Len(u)]
  BY ConcatProperties
<1>3. /\ Mapped(h, u) \o Mapped(h, v) \in Seq(R)
      /\ Len(Mapped(h, u) \o Mapped(h, v)) = Len(u) + Len(v)
      /\ \A i \in 1 .. Len(u) + Len(v) :
            (Mapped(h, u) \o Mapped(h, v))[i] =
               IF i <= Len(u) THEN Mapped(h, u)[i] ELSE Mapped(h, v)[i - Len(u)]
  <2> SUFFICES ASSUME NEW a \in Seq(R), NEW b \in Seq(R), Len(a) = Len(u), Len(b) = Len(v)
               PROVE  /\ a \o b \in Seq(R) /\ Len(a \o b) = Len(u) + Len(v)
                      /\ \A i \in 1 .. Len(u) + Len(v) :
                            (a \o b)[i] = IF i <= Len(u) THEN a[i] ELSE b[i - Len(u)]
    BY <1>1
  <2>1. /\ a \o b \in Seq(R) /\ Len(a \o b) = Len(a) + Len(b)
        /\ \A i \in 1 .. Len(a) + Len(b) :
              (a \o b)[i] = IF i <= Len(a) THEN a[i] ELSE b[i - Len(a)]
    BY ConcatProperties
  <2> QED
    BY <2>1
<1>4. Mapped(h, u \o v) = Mapped(h, u) \o Mapped(h, v)
  <2> DEFINE a == Mapped(h, u \o v)
             b == Mapped(h, u) \o Mapped(h, v)
  <2>1. a \in Seq(R) /\ b \in Seq(R) /\ Len(a) = Len(b) /\ Len(a) = Len(u) + Len(v)
    BY <1>1, <1>2, <1>3
  <2>2. ASSUME NEW i \in 1 .. Len(u) + Len(v)
        PROVE  a[i] = b[i]
    <3>1. a[i] = h[(u \o v)[i]]
      BY <1>1, <1>2
    <3>2. CASE i <= Len(u)
      <4>1. i \in 1 .. Len(u)
        BY <1>1, <3>2
      <4> QED
        BY <1>1, <1>2, <1>3, <3>1, <3>2, <4>1
    <3>3. CASE ~(i <= Len(u))
      <4>1. i - Len(u) \in 1 .. Len(v)
        BY <1>1, <3>3
      <4> QED
        BY <1>1, <1>2, <1>3, <3>1, <3>3, <4>1
    <3> QED
      BY <3>2, <3>3
  <2> HIDE DEF a, b
  <2>3. a = b
    BY <2>1, <2>2, SeqEqual
  <2> QED
    BY <2>3 DEF a, b
<1> QED
  BY <1>4 DEF Cat

\* What is made of one element, and of none.
LEMMA MapOne ==
  ASSUME NEW h, NEW x
  PROVE  Mapped(h, <<x>>) = <<h[x]>> /\ Mapped(h, <<>>) = <<>>
BY DEF Mapped

\* What is made of a sequence is a sequence.
LEMMA MapSeq ==
  ASSUME NEW S, NEW R, NEW h, \A y \in S : h[y] \in R
  PROVE  \A u \in Seq(S) : Mapped(h, u) \in Seq(R)
BY DEF Mapped

-----------------------------------------------------------------------------
(* Varints.                                                                *)

\* What the groups of a number amount to.
LEMMA Groups ==
  ASSUME NEW n \in Number
  PROVE  /\ n >= 0 => (n % 128) + 128 * ((n \div 128) % 128) + 16384 * ((n \div 16384) % 128)
                       + 2097152 * (n \div 2097152) = n
         /\ n < 0 => (n % 128) + 128 * ((n \div 128) % 128) + 16384 * ((n \div 16384) % 128)
                       + 2097152 * ((n \div 2097152) % 128) - 268435456 = n
  BY SMT DEF Number

\* A varint has the size that compute_raw_varint64_size says, all its bytes
\* but the last go on, and the last is zero only for zero.
LEMMA VarintShape ==
  ASSUME NEW n \in Number
  PROVE  /\ Varint(n) \in Seq(Byte) /\ Len(Varint(n)) = VarintSize(n)
         /\ VarintSize(n) \in 1 .. 10
         /\ \A j \in 1 .. VarintSize(n) - 1 : Varint(n)[j] >= 128
         /\ Varint(n)[VarintSize(n)] < 128
         /\ VarintSize(n) > 1 => Varint(n)[VarintSize(n)] # 0
<1>1. CASE n < 0
  <2> DEFINE a == 128 + (n % 128)
             b == 128 + ((n \div 128) % 128)
             c == 128 + ((n \div 16384) % 128)
             d == 128 + ((n \div 2097152) % 128)
  <2>1. a \in Byte /\ b \in Byte /\ c \in Byte /\ d \in Byte
        /\ a >= 128 /\ b >= 128 /\ c >= 128 /\ d >= 128
    BY SMT DEF Number, Byte
  <2>2. Varint(n) = <<a, b, c, d, 255, 255, 255, 255, 255, 1>> /\ VarintSize(n) = 10
    BY SMT, <1>1 DEF Varint, VarintSize
  <2> HIDE DEF a, b, c, d
  <2>3. 255 \in Byte /\ 1 \in Byte
    BY SMT DEF Byte
  <2> QED
    BY SMT, <2>1, <2>2, <2>3
<1>2. CASE 0 <= n /\ n < 128
  <2>1. Varint(n) = <<n>> /\ VarintSize(n) = 1 /\ n \in Byte
    BY SMT, <1>2 DEF Number, Byte, Varint, VarintSize
  <2> QED
    BY SMT, <1>2, <2>1
<1>3. CASE 128 <= n /\ n < 16384
  <2> DEFINE a == 128 + (n % 128)
             b == n \div 128
  <2>1. a \in Byte /\ b \in Byte /\ a >= 128 /\ b < 128 /\ b # 0
    BY SMT, <1>3 DEF Number, Byte
  <2>2. Varint(n) = <<a, b>> /\ VarintSize(n) = 2
    BY SMT, <1>3 DEF Varint, VarintSize, Number
  <2> HIDE DEF a, b
  <2> QED
    BY SMT, <2>1, <2>2
<1>4. CASE 16384 <= n /\ n < 2097152
  <2> DEFINE a == 128 + (n % 128)
             b == 128 + ((n \div 128) % 128)
             c == n \div 16384
  <2>1. a \in Byte /\ b \in Byte /\ c \in Byte /\ a >= 128 /\ b >= 128 /\ c < 128 /\ c # 0
    BY SMT, <1>4 DEF Number, Byte
  <2>2. Varint(n) = <<a, b, c>> /\ VarintSize(n) = 3
    BY SMT, <1>4 DEF Varint, VarintSize, Number
  <2> HIDE DEF a, b, c
  <2> QED
    BY SMT, <2>1, <2>2
<1>5. CASE 2097152 <= n
  <2> DEFINE a == 128 + (n % 128)
             b == 128 + ((n \div 128) % 128)
             c == 128 + ((n \div 16384) % 128)
             d == n \div 2097152
  <2>1. a \in Byte /\ b \in Byte /\ c \in Byte /\ d \in Byte
        /\ a >= 128 /\ b >= 128 /\ c >= 128 /\ d < 128 /\ d # 0
    BY SMT, <1>5 DEF Number, Byte
  <2>2. Varint(n) = <<a, b, c, d>> /\ VarintSize(n) = 4
    BY SMT, <1>5 DEF Varint, VarintSize, Number
  <2> HIDE DEF a, b, c, d
  <2> QED
    BY SMT, <2>1, <2>2
<1> QED
  BY SMT, <1>1, <1>2, <1>3, <1>4, <1>5 DEF Number

\* Bytes, one by one.
LEMMA ByteAt ==
  ASSUME NEW b \in Seq(Byte)
  PROVE  Len(b) \in Nat /\ \A j \in 1 .. Len(b) : b[j] \in Int /\ 0 <= b[j] /\ b[j] < 256
<1>1. Len(b) \in Nat /\ \A j \in 1 .. Len(b) : b[j] \in Byte
  BY LenProperties, ElementOfSeq
<1>2. \A x \in Byte : x \in Int /\ 0 <= x /\ x < 256
  BY DEF Byte
<1> QED
  BY <1>1, <1>2

\* Where the number ends whose bytes go on up to byte e.
LEMMA VarintEnd ==
  ASSUME NEW b \in Seq(Byte), NEW i \in 1 .. Len(b), NEW e \in i .. Len(b), e < i + 10,
         b[e] < 128, \A j \in i .. e - 1 : b[j] >= 128
  PROVE  {k \in i .. Len(b) : k < i + 10 /\ b[k] < 128 /\ \A j \in i .. (k - 1) : b[j] >= 128} = {e}
<1>1. Len(b) \in Nat /\ \A j \in i .. Len(b) : b[j] \in Int
  BY ByteAt
<1>2. ASSUME NEW k \in i .. Len(b), b[k] < 128, \A j \in i .. (k - 1) : b[j] >= 128
      PROVE  k = e
  <2>1. CASE k < e
    <3>1. k \in i .. e - 1
      BY <1>1, <2>1
    <3>2. b[k] >= 128 /\ b[k] \in Int
      BY <1>1, <3>1
    <3> QED
      BY <1>2, <3>2
  <2>2. CASE e < k
    <3>1. e \in i .. k - 1
      BY <1>1, <2>2
    <3>2. b[e] >= 128 /\ b[e] \in Int
      BY <1>1, <1>2, <3>1
    <3> QED
      BY <3>2
  <2> QED
    BY <1>1, <2>1, <2>2
<1> QED
  BY <1>2

\* A number that is written is read, wherever it is.
LEMMA VarintAt ==
  ASSUME NEW n \in Number, NEW b \in Seq(Byte), NEW i \in 1 .. Len(b),
         i + VarintSize(n) - 1 <= Len(b),
         \A j \in 1 .. VarintSize(n) : b[i + j - 1] = Varint(n)[j]
  PROVE  ReadVarint(b, i) = {[value |-> n, next |-> i + VarintSize(n)]}
<1> DEFINE s == VarintSize(n)
           e == i + s - 1
           v == Varint(n)
           Digit(j, x) == IF j <= x THEN b[j] % 128 ELSE 0
           Value(x) == Digit(i, x) + 128 * Digit(i + 1, x) + 16384 * Digit(i + 2, x)
                       + 2097152 * Digit(i + 3, x) - (IF x = i + 9 THEN 268435456 ELSE 0)
<1>1. /\ v \in Seq(Byte) /\ Len(v) = s /\ s \in 1 .. 10
      /\ \A j \in 1 .. s - 1 : v[j] >= 128
      /\ v[s] < 128
  BY VarintShape
<1>2. Len(b) \in Nat /\ \A j \in 1 .. s : i + j - 1 \in 1 .. Len(b) /\ b[i + j - 1] = v[j]
  <2> HIDE DEF v
  <2>1. Len(b) \in Nat /\ s \in Int
    BY <1>1, LenProperties
  <2> HIDE DEF s
  <2>2. \A j \in 1 .. s : i + j - 1 \in 1 .. Len(b)
    BY <2>1 DEF s
  <2> QED
    BY <2>1, <2>2 DEF s, v
<1> HIDE DEF v, s
<1>3. e \in i .. Len(b) /\ e < i + 10 /\ b[e] < 128 /\ e + 1 = i + s
  <2>1. s \in 1 .. s /\ i + s - 1 \in 1 .. Len(b) /\ b[i + s - 1] = v[s]
    BY SMT, <1>1, <1>2
  <2> QED
    BY SMT, <1>1, <1>2, <2>1
<1>4. \A j \in i .. e - 1 : b[j] >= 128
  <2> TAKE j \in i .. e - 1
  <2>1. \E m \in 1 .. s - 1 : m \in 1 .. s /\ i + m - 1 = j
    <3>1. j - i + 1 \in 1 .. s - 1 /\ j - i + 1 \in 1 .. s /\ i + (j - i + 1) - 1 = j
      BY SMT, <1>1
    <3> QED
      BY <3>1
  <2>2. PICK m \in 1 .. s - 1 : m \in 1 .. s /\ i + m - 1 = j
    BY <2>1
  <2>3. b[i + m - 1] = v[m] /\ v[m] >= 128
    BY <1>1, <1>2, <2>2
  <2> QED
    BY <2>2, <2>3
<1> HIDE DEF e
<1>5. {k \in i .. Len(b) : k < i + 10 /\ b[k] < 128 /\ \A j \in i .. (k - 1) : b[j] >= 128} = {e}
  BY <1>3, <1>4, VarintEnd
<1>6. ReadVarint(b, i) = {[value |-> Value(e), next |-> e + 1]}
  <2> DEFINE E == {k \in i .. Len(b) : k < i + 10 /\ b[k] < 128 /\ \A j \in i .. (k - 1) : b[j] >= 128}
  <2>1. ReadVarint(b, i) = {[value |-> Value(x), next |-> x + 1] : x \in E}
    BY DEF ReadVarint
  <2>2. E = {e}
    BY <1>5
  <2> HIDE DEF E, Value
  <2> QED
    BY <2>1, <2>2
<1>7. Value(e) = n
  <2>0. e = i + s - 1 /\ \A j \in 1 .. s : b[i + j - 1] = v[j]
    BY <1>2 DEF e
  <2>1. CASE n < 0
    <3>1. /\ s = 10
          /\ v[1] = 128 + (n % 128) /\ v[2] = 128 + ((n \div 128) % 128)
          /\ v[3] = 128 + ((n \div 16384) % 128) /\ v[4] = 128 + ((n \div 2097152) % 128)
      BY SMT, <2>1 DEF Varint, VarintSize, v, s
    <3>2. /\ b[i] = v[1] /\ b[i + 1] = v[2] /\ b[i + 2] = v[3] /\ b[i + 3] = v[4]
      BY SMT, <2>0, <3>1
    <3>3. e = i + 9
      BY SMT, <2>0, <3>1
    <3>4. /\ b[i] % 128 = n % 128 /\ b[i + 1] % 128 = (n \div 128) % 128
          /\ b[i + 2] % 128 = (n \div 16384) % 128 /\ b[i + 3] % 128 = (n \div 2097152) % 128
      BY SMT, <3>1, <3>2 DEF Number
    <3>5. Value(e) = (n % 128) + 128 * ((n \div 128) % 128) + 16384 * ((n \div 16384) % 128)
                       + 2097152 * ((n \div 2097152) % 128) - 268435456
      BY SMT, <3>3, <3>4
    <3> QED
      BY SMT, <2>1, <3>5, Groups
  <2>2. CASE 0 <= n /\ n < 128
    <3>1. s = 1 /\ v[1] = n
      BY SMT, <2>2 DEF Varint, VarintSize, Number, v, s
    <3>2. b[i] = n
      BY SMT, <2>0, <3>1
    <3>3. e = i
      BY SMT, <2>0, <3>1
    <3> QED
      BY SMT, <2>2, <3>2, <3>3 DEF Number
  <2>3. CASE 128 <= n /\ n < 16384
    <3>1. s = 2 /\ v[1] = 128 + (n % 128) /\ v[2] = n \div 128
      BY SMT, <2>3 DEF Varint, VarintSize, Number, v, s
    <3>2. b[i] = v[1] /\ b[i + 1] = v[2]
      BY SMT, <2>0, <3>1
    <3>3. e = i + 1
      BY SMT, <2>0, <3>1
    <3>4. b[i] % 128 = n % 128 /\ b[i + 1] % 128 = n \div 128
      BY SMT, <2>3, <3>1, <3>2 DEF Number
    <3>5. ~(i + 2 <= e) /\ ~(i + 3 <= e) /\ e # i + 9 /\ i <= e /\ i + 1 <= e
      BY SMT, <3>3
    <3>6. n \in Int /\ (n % 128) + 128 * (n \div 128) = n
      BY SMT DEF Number
    <3> QED
      BY SMT, <3>4, <3>5, <3>6
  <2>4. CASE 16384 <= n /\ n < 2097152
    <3>1. s = 3 /\ v[1] = 128 + (n % 128) /\ v[2] = 128 + ((n \div 128) % 128) /\ v[3] = n \div 16384
      BY SMT, <2>4 DEF Varint, VarintSize, Number, v, s
    <3>2. b[i] = v[1] /\ b[i + 1] = v[2] /\ b[i + 2] = v[3]
      BY SMT, <2>0, <3>1
    <3>3. e = i + 2
      BY SMT, <2>0, <3>1
    <3>4. /\ b[i] % 128 = n % 128 /\ b[i + 1] % 128 = (n \div 128) % 128
          /\ b[i + 2] % 128 = n \div 16384
      BY SMT, <2>4, <3>1, <3>2 DEF Number
    <3>5. ~(i + 3 <= e) /\ e # i + 9 /\ i <= e /\ i + 1 <= e /\ i + 2 <= e
      BY SMT, <3>3
    <3>6. n \in Int /\ (n % 128) + 128 * ((n \div 128) % 128) + 16384 * (n \div 16384) = n
      BY SMT DEF Number
    <3>7. /\ Digit(i, e) = n % 128 /\ Digit(i + 1, e) = (n \div 128) % 128
          /\ Digit(i + 2, e) = n \div 16384 /\ Digit(i + 3, e) = 0
      BY <3>4, <3>5
    <3> HIDE DEF Digit
    <3>8. PICK p, q, r, t \in Int : /\ p = n % 128 /\ q = (n \div 128) % 128
                                   /\ r = n \div 16384 /\ t = 0
                                   /\ p + 128 * q + 16384 * r + 2097152 * t = n
      BY SMT, <3>6
    <3>9. p = Digit(i, e) /\ q = Digit(i + 1, e) /\ r = Digit(i + 2, e) /\ t = Digit(i + 3, e)
      BY SMT, <3>7, <3>8
    <3>10. Value(e) = p + 128 * q + 16384 * r + 2097152 * t - 0
      BY SMT, <3>5, <3>9
    <3> QED
      BY SMT, <3>8, <3>10
  <2>5. CASE 2097152 <= n
    <3>1. /\ s = 4 /\ v[1] = 128 + (n % 128) /\ v[2] = 128 + ((n \div 128) % 128)
          /\ v[3] = 128 + ((n \div 16384) % 128) /\ v[4] = n \div 2097152
      BY SMT, <2>5 DEF Varint, VarintSize, Number, v, s
    <3>2. b[i] = v[1] /\ b[i + 1] = v[2] /\ b[i + 2] = v[3] /\ b[i + 3] = v[4]
      BY SMT, <2>0, <3>1
    <3>3. e = i + 3
      BY SMT, <2>0, <3>1
    <3>4. /\ b[i] % 128 = n % 128 /\ b[i + 1] % 128 = (n \div 128) % 128
          /\ b[i + 2] % 128 = (n \div 16384) % 128 /\ b[i + 3] % 128 = n \div 2097152
      <4>1. b[i] % 128 = n % 128 /\ b[i + 1] % 128 = (n \div 128) % 128
        BY SMT, <3>1, <3>2 DEF Number
      <4>2. b[i + 2] % 128 = (n \div 16384) % 128
        BY SMT, <3>1, <3>2 DEF Number
      <4>3. b[i + 3] % 128 = n \div 2097152
        BY SMTT(30), <2>5, <3>1, <3>2 DEF Number
      <4> QED
        BY <4>1, <4>2, <4>3
    <3>5. e # i + 9 /\ i <= e /\ i + 1 <= e /\ i + 2 <= e /\ i + 3 <= e
      BY SMT, <3>3
    <3>6. n \in Int /\ (n % 128) + 128 * ((n \div 128) % 128) + 16384 * ((n \div 16384) % 128)
                       + 2097152 * (n \div 2097152) = n
      BY SMT DEF Number
    <3>7. /\ Digit(i, e) = n % 128 /\ Digit(i + 1, e) = (n \div 128) % 128
          /\ Digit(i + 2, e) = (n \div 16384) % 128 /\ Digit(i + 3, e) = n \div 2097152
      BY <3>4, <3>5
    <3> HIDE DEF Digit
    <3>8. PICK p, q, r, t \in Int : /\ p = n % 128 /\ q = (n \div 128) % 128
                                   /\ r = (n \div 16384) % 128 /\ t = n \div 2097152
                                   /\ p + 128 * q + 16384 * r + 2097152 * t = n
      BY SMT, <3>6
    <3>9. p = Digit(i, e) /\ q = Digit(i + 1, e) /\ r = Digit(i + 2, e) /\ t = Digit(i + 3, e)
      BY SMT, <3>7, <3>8
    <3>10. Value(e) = p + 128 * q + 16384 * r + 2097152 * t - 0
      BY SMT, <3>5, <3>9
    <3> QED
      BY SMT, <3>8, <3>10
  <2> QED
    BY SMT, <2>1, <2>2, <2>3, <2>4, <2>5 DEF Number
<1> QED
  BY SMT, <1>3, <1>6, <1>7 DEF s

-----------------------------------------------------------------------------
(* Items.                                                                  *)

\* Items, and those with a length that fits the numbers of the model.
ItemSet == {item \in [tag : Number, value : Number \cup Seq(Byte), size : Nat] : IsItem(item)}

\* Items with a size that a number holds.
Small   == {item \in ItemSet : item.size \in Number}

\* What is between two other sequences.
LEMMA Middle ==
  ASSUME NEW S, NEW u \in Seq(S), NEW w \in Seq(S), NEW v \in Seq(S)
  PROVE  /\ (u \o w) \o v \in Seq(S) /\ u \o w \in Seq(S) /\ w \o v \in Seq(S)
         /\ Len(u) \in Nat /\ Len(w) \in Nat /\ Len(v) \in Nat
         /\ Len((u \o w) \o v) = Len(u) + Len(w) + Len(v)
         /\ Len(u \o w) = Len(u) + Len(w)
         /\ (u \o w) \o v = u \o (w \o v)
         /\ \A j \in 1 .. Len(w) : ((u \o w) \o v)[Len(u) + j] = w[j]
         /\ SubSeq((u \o w) \o v, Len(u) + 1, Len(u) + Len(w)) = w
<1> DEFINE x == u \o w
           b == x \o v
<1>1. /\ x \in Seq(S) /\ Len(x) = Len(u) + Len(w)
      /\ \A i \in 1 .. Len(u) + Len(w) : x[i] = IF i <= Len(u) THEN u[i] ELSE w[i - Len(u)]
  BY ConcatProperties
<1>2. Len(u) \in Nat /\ Len(w) \in Nat /\ Len(v) \in Nat
  BY LenProperties
<1>0. x \in Seq(S)
  BY <1>1
<1> HIDE DEF x
<1>3. /\ b \in Seq(S) /\ Len(b) = Len(x) + Len(v)
      /\ \A i \in 1 .. Len(x) + Len(v) : b[i] = IF i <= Len(x) THEN x[i] ELSE v[i - Len(x)]
  BY <1>0, ConcatProperties, Zenon
<1>4. b = u \o (w \o v)
  BY ConcatAssociative DEF x
<1> HIDE DEF b
<1>5. \A j \in 1 .. Len(w) : b[Len(u) + j] = w[j]
  <2> SUFFICES ASSUME NEW j \in 1 .. Len(w), NEW i, i = Len(u) + j
               PROVE  b[i] = w[j]
    OBVIOUS
  <2>1. i \in 1 .. Len(x) + Len(v) /\ i <= Len(x) /\ i \in 1 .. Len(u) + Len(w)
        /\ ~(i <= Len(u)) /\ i - Len(u) = j
    BY <1>1, <1>2
  <2>2. b[i] = x[i] /\ x[i] = w[i - Len(u)]
    BY <1>1, <1>3, <2>1
  <2> QED
    BY <2>1, <2>2
<1>6. SubSeq(b, Len(u) + 1, Len(u) + Len(w)) = w
  <2> DEFINE m == Len(u) + 1
             n == Len(u) + Len(w)
             s == SubSeq(b, m, n)
  <2>1. m \in Int /\ n \in Int /\ \A i \in m .. n : b[i] \in S
    <3>1. \A i \in 1 .. Len(b) : b[i] \in S
      BY <1>3, ElementOfSeq
    <3>2. \A i \in m .. n : i \in 1 .. Len(b)
      BY <1>1, <1>2, <1>3
    <3> QED
      BY <1>2, <3>1, <3>2
  <2>2. /\ s \in Seq(S) /\ Len(s) = IF m <= n THEN n - m + 1 ELSE 0
        /\ \A i \in 1 .. n - m + 1 : s[i] = b[m + i - 1]
    <3> HIDE DEF m, n
    <3> QED
      BY <2>1, SubSeqProperties
  <2>3. n - m + 1 = Len(w) /\ Len(s) = Len(w)
    <3>1. n - m + 1 = Len(w)
      BY <1>2
    <3>2. m <= n \/ Len(w) = 0
      BY <1>2
    <3>3. ~(m <= n) \/ Len(w) # 0
      BY <1>2
    <3> HIDE DEF m, n, s
    <3> QED
      BY <2>2, <3>1, <3>2, <3>3
  <2>4. \A i \in 1 .. Len(w) : s[i] = w[i]
    <3> TAKE i \in 1 .. Len(w)
    <3>1. m + i - 1 = Len(u) + i
      BY <1>2
    <3>2. s[i] = b[m + i - 1]
      <4> HIDE DEF m, n, s
      <4> QED
        BY <2>2, <2>3
    <3> QED
      BY <1>5, <3>1, <3>2
  <2> HIDE DEF s
  <2>5. s = w
    BY <2>2, <2>3, <2>4, SeqEqual
  <2> QED
    BY <2>5 DEF s
<1>7. w \o v \in Seq(S)
  BY ConcatProperties
<1>8. Len(b) = Len(u) + Len(w) + Len(v)
  BY <1>1, <1>3
<1> QED
  BY <1>1, <1>2, <1>3, <1>4, <1>5, <1>6, <1>7, <1>8, Zenon DEF b, x

\* A number is read where it was written.
LEMMA VarintIn ==
  ASSUME NEW n \in Number, NEW u \in Seq(Byte), NEW v \in Seq(Byte)
  PROVE  ReadVarint((u \o Varint(n)) \o v, Len(u) + 1)
           = {[value |-> n, next |-> Len(u) + 1 + VarintSize(n)]}
<1> DEFINE w == Varint(n)
           b == (u \o w) \o v
           i == Len(u) + 1
<1>1. w \in Seq(Byte) /\ Len(w) = VarintSize(n) /\ VarintSize(n) \in 1 .. 10
  BY VarintShape
<1> HIDE DEF w
<1>2. /\ b \in Seq(Byte) /\ Len(u) \in Nat /\ Len(v) \in Nat /\ Len(b) = Len(u) + Len(w) + Len(v)
      /\ \A j \in 1 .. Len(w) : b[Len(u) + j] = w[j]
  <2>1. w \in Seq(Byte)
    BY <1>1
  <2>2. b \in Seq(Byte) /\ Len(u) \in Nat /\ Len(v) \in Nat
    BY <2>1, Middle
  <2>3. Len(b) = Len(u) + Len(w) + Len(v)
    BY <2>1, Middle
  <2>4. \A j \in 1 .. Len(w) : b[Len(u) + j] = w[j]
    BY <2>1, Middle
  <2> QED
    BY <2>2, <2>3, <2>4
<1> HIDE DEF b
<1>3. i \in 1 .. Len(b) /\ i + VarintSize(n) - 1 <= Len(b)
  BY <1>1, <1>2
<1>4. \A j \in 1 .. VarintSize(n) : b[i + j - 1] = w[j]
  <2> TAKE j \in 1 .. VarintSize(n)
  <2>1. i + j - 1 = Len(u) + j
    BY <1>1, <1>2
  <2> QED
    BY <1>1, <1>2, <2>1
<1>5. ReadVarint(b, i) = {[value |-> n, next |-> i + VarintSize(n)]}
  <2> HIDE DEF i
  <2> QED
    BY <1>2, <1>3, <1>4, VarintAt DEF w
<1> QED
  BY <1>5 DEF b, w

\* The size of an item is how many bytes are written.
LEMMA ItemWritten ==
  ASSUME NEW item \in Small
  PROVE  /\ WriteItem(item) \in Seq(Byte) /\ Len(WriteItem(item)) = ItemSize(item)
         /\ ItemSize(item) \in Nat \ {0}
<1> DEFINE t == Varint(item.tag)
           a == Varint(item.value)
           l == Varint(item.size)
           z == l \o item.value
<1>1. IsItem(item) /\ item.tag \in Number /\ item.size \in Number /\ item.size \in Nat
  BY DEF Small, ItemSet
<1>2. t \in Seq(Byte) /\ Len(t) = VarintSize(item.tag) /\ VarintSize(item.tag) \in 1 .. 10
  BY <1>1, VarintShape
<1>3. CASE item.tag % 8 = 0
  <2>1. item.value \in Number
    BY <1>1, <1>3 DEF IsItem
  <2>2. a \in Seq(Byte) /\ Len(a) = VarintSize(item.value) /\ VarintSize(item.value) \in 1 .. 10
    BY <2>1, VarintShape
  <2>3. WriteItem(item) = t \o a /\ ItemSize(item) = VarintSize(item.tag) + VarintSize(item.value)
    BY <1>3 DEF WriteItem, ItemSize
  <2> HIDE DEF t, a
  <2>4. t \o a \in Seq(Byte) /\ Len(t \o a) = Len(t) + Len(a)
    BY <1>2, <2>2, ConcatProperties
  <2> QED
    BY <1>2, <2>2, <2>3, <2>4
<1>4. CASE item.tag % 8 = 2
  <2>1. item.value \in Seq(Byte) /\ Len(item.value) = item.size
    BY <1>1, <1>4 DEF IsItem
  <2>2. l \in Seq(Byte) /\ Len(l) = VarintSize(item.size) /\ VarintSize(item.size) \in 1 .. 10
    BY <1>1, VarintShape
  <2>3. ItemSize(item) = VarintSize(item.tag) + (VarintSize(item.size) + item.size)
    BY <1>4 DEF ItemSize
  <2>4. WriteItem(item) = t \o z
    <3> DEFINE y == IF item.tag % 8 = 0 THEN a ELSE IF item.tag % 8 = 2 THEN z ELSE item.value
    <3>1. WriteItem(item) = t \o y
      BY DEF WriteItem
    <3>2. y = z
      <4> HIDE DEF z, a
      <4> QED
        BY <1>4
    <3> HIDE DEF y
    <3> QED
      BY <3>1, <3>2
  <2> HIDE DEF t, l
  <2>5. z \in Seq(Byte) /\ Len(z) = Len(l) + Len(item.value)
    BY <2>1, <2>2, ConcatProperties
  <2> HIDE DEF z
  <2>6. t \o z \in Seq(Byte) /\ Len(t \o z) = Len(t) + Len(z)
    BY <1>2, <2>5, ConcatProperties
  <2>7. VarintSize(item.tag) \in Nat \ {0} /\ VarintSize(item.size) \in Nat /\ item.size \in Nat
    BY <1>1, <1>2, <2>2
  <2>8. ItemSize(item) \in Nat \ {0}
    BY <2>3, <2>7
  <2>9. Len(t \o z) = ItemSize(item)
    <3>1. Len(t) = VarintSize(item.tag) /\ Len(l) = VarintSize(item.size)
          /\ Len(item.value) = item.size
      BY <1>2, <2>1, <2>2
    <3>2. Len(t \o z) = Len(t) + (Len(l) + Len(item.value))
      BY <2>5, <2>6
    <3> QED
      BY <2>3, <3>1, <3>2
  <2> QED
    BY <2>4, <2>6, <2>8, <2>9
<1>5. CASE item.tag % 8 # 0 /\ item.tag % 8 # 2
  <2>1. item.value \in Seq(Byte) /\ Len(item.value) = item.size
    BY <1>1, <1>5 DEF IsItem
  <2>3. WriteItem(item) = t \o item.value /\ ItemSize(item) = VarintSize(item.tag) + item.size
    BY <1>5 DEF WriteItem, ItemSize
  <2> HIDE DEF t
  <2>4. t \o item.value \in Seq(Byte) /\ Len(t \o item.value) = Len(t) + Len(item.value)
    BY <1>2, <2>1, ConcatProperties
  <2>5. VarintSize(item.tag) \in Nat \ {0} /\ item.size \in Nat
    BY <1>1, <1>2
  <2>6. ItemSize(item) \in Nat \ {0}
    BY <2>3, <2>5
  <2>7. Len(t \o item.value) = ItemSize(item)
    <3>1. Len(t) = VarintSize(item.tag) /\ Len(item.value) = item.size
      BY <1>2, <2>1
    <3> QED
      BY <2>3, <2>4, <3>1
  <2> QED
    BY <2>3, <2>4, <2>6, <2>7
<1> QED
  BY <1>3, <1>4, <1>5

-----------------------------------------------------------------------------
(* Strings of bytes.  The operators are folded, so that of one string after  *)
(* another the provers see these facts only.                                 *)

\* The strings of bytes.
Bytes     == Seq(Byte)

\* What there is to know of them.
LEMMA CatBytes ==
  /\ \A u, v, w \in Bytes : Cat(Cat(u, v), w) = Cat(u, Cat(v, w))
  /\ \A u, v \in Bytes : Cat(u, v) \in Bytes /\ Len(Cat(u, v)) = Len(u) + Len(v)
  /\ \A u \in Bytes : Len(u) \in Nat
<1>1. \A u, v, w \in Seq(Byte) : (u \o v) \o w = u \o (v \o w)
  BY ConcatAssociative
<1>2. \A u, v \in Seq(Byte) : u \o v \in Seq(Byte) /\ Len(u \o v) = Len(u) + Len(v)
  BY ConcatProperties
<1>3. \A u \in Seq(Byte) : Len(u) \in Nat
  BY LenProperties
<1> QED
  BY <1>1, <1>2, <1>3, Zenon DEF Cat, Bytes

\* A number is read where it was written, and is as long as its size says.
LEMMA VarintRead ==
  ASSUME NEW n \in Number, NEW u \in Bytes, NEW v \in Bytes
  PROVE  /\ Varint(n) \in Bytes /\ Len(Varint(n)) = VarintSize(n) /\ VarintSize(n) \in 1 .. 10
         /\ ReadVarint(Cat(u, Cat(Varint(n), v)), Len(u) + 1)
              = {[value |-> n, next |-> Len(u) + 1 + VarintSize(n)]}
<1>1. /\ Varint(n) \in Bytes /\ Len(Varint(n)) = VarintSize(n) /\ VarintSize(n) \in 1 .. 10
  BY VarintShape DEF Bytes
<1>2. ReadVarint(Cat(Cat(u, Varint(n)), v), Len(u) + 1)
              = {[value |-> n, next |-> Len(u) + 1 + VarintSize(n)]}
  BY VarintIn DEF Cat, Bytes
<1>3. Cat(Cat(u, Varint(n)), v) = Cat(u, Cat(Varint(n), v))
  BY <1>1, CatBytes
<1> QED
  BY <1>1, <1>2, <1>3

\* The bytes of a value are read where they were written.
LEMMA BytesIn ==
  ASSUME NEW u \in Bytes, NEW w \in Bytes, NEW v \in Bytes, NEW tag,
         NEW b, b = Cat(Cat(u, w), v), NEW i, i = Len(u) + 1, NEW size, size = Len(w)
  PROVE  ReadBytes(b, tag, i, size)
           = {[item |-> [tag |-> tag, value |-> w, size |-> size], next |-> i + size]}
<1>1. Len(u) \in Nat /\ Len(w) \in Nat /\ Len(v) \in Nat
  BY CatBytes
<1>0. u \in Seq(Byte) /\ w \in Seq(Byte) /\ v \in Seq(Byte) /\ b = (u \o w) \o v
  BY DEF Bytes, Cat
<1>2. Len(b) = Len(u) + Len(w) + Len(v)
  BY <1>0, Middle
<1>3. SubSeq(b, Len(u) + 1, Len(u) + Len(w)) = w
  BY <1>0, Middle
<1>4. SubSeq(b, i, (i + size) - 1) = w
  <2>1. (i + size) - 1 = Len(u) + Len(w)
    BY <1>1
  <2> QED
    BY <1>3, <2>1
<1>5. {i + size} \cap (i .. (Len(b) + 1)) = {i + size}
  BY <1>1, <1>2
<1> QED
  BY <1>4, <1>5, ZenonT(30) DEF ReadBytes

\* What is read of an item after its tag: bytes of which the tag tells the length,
LEMMA ReadFixedItem ==
  ASSUME NEW b, NEW i, NEW tag, NEW j,
         ReadVarint(b, i) = {[value |-> tag, next |-> j]}
  PROVE  /\ ReadItem(b, i) =
              IF tag % 8 = 0
              THEN {[item |-> [tag |-> tag, value |-> n.value, size |-> 0], next |-> n.next] :
                      n \in ReadVarint(b, j)}
              ELSE IF tag % 8 = 2
              THEN UNION {ReadBytes(b, tag, n.next, n.value) : n \in ReadVarint(b, j)}
              ELSE IF tag % 8 = 1 THEN ReadBytes(b, tag, j, 8)
              ELSE IF tag % 8 = 5 THEN ReadBytes(b, tag, j, 4)
              ELSE {}
         /\ tag % 8 = 1 => ReadItem(b, i) = ReadBytes(b, tag, j, 8)
         /\ tag % 8 = 5 => ReadItem(b, i) = ReadBytes(b, tag, j, 4)
<1> DEFINE Rest(t) ==
      IF t.value % 8 = 0
      THEN {[item |-> [tag |-> t.value, value |-> n.value, size |-> 0], next |-> n.next] :
              n \in ReadVarint(b, t.next)}
      ELSE IF t.value % 8 = 2
      THEN UNION {ReadBytes(b, t.value, n.next, n.value) : n \in ReadVarint(b, t.next)}
      ELSE IF t.value % 8 = 1 THEN ReadBytes(b, t.value, t.next, 8)
      ELSE IF t.value % 8 = 5 THEN ReadBytes(b, t.value, t.next, 4)
      ELSE {}
           r == [value |-> tag, next |-> j]
<1>1. ReadItem(b, i) = UNION {Rest(t) : t \in ReadVarint(b, i)}
  BY DEF ReadItem
<1>2. ReadItem(b, i) = Rest(r)
  <2> HIDE DEF Rest
  <2> QED
    BY <1>1
<1>3. r.value = tag /\ r.next = j
  OBVIOUS
<1> HIDE DEF r
<1>4. Rest(r) =
      IF tag % 8 = 0
      THEN {[item |-> [tag |-> tag, value |-> n.value, size |-> 0], next |-> n.next] :
              n \in ReadVarint(b, j)}
      ELSE IF tag % 8 = 2
      THEN UNION {ReadBytes(b, tag, n.next, n.value) : n \in ReadVarint(b, j)}
      ELSE IF tag % 8 = 1 THEN ReadBytes(b, tag, j, 8)
      ELSE IF tag % 8 = 5 THEN ReadBytes(b, tag, j, 4)
      ELSE {}
  BY <1>3
<1> HIDE DEF Rest
<1> QED
  BY <1>2, <1>4

\* a number,
LEMMA ReadNumberItem ==
  ASSUME NEW b, NEW i, NEW tag, NEW j, NEW v, NEW k, NEW read,
         read = [item |-> [tag |-> tag, value |-> v, size |-> 0], next |-> k],
         ReadVarint(b, i) = {[value |-> tag, next |-> j]},
         ReadVarint(b, j) = {[value |-> v, next |-> k]}, tag % 8 = 0
  PROVE  ReadItem(b, i) = {read}
<1>1. ReadItem(b, i) = {[item |-> [tag |-> tag, value |-> n.value, size |-> 0], next |-> n.next] :
                          n \in ReadVarint(b, j)}
  BY ReadFixedItem
<1> QED
  BY <1>1

\* or bytes behind their length.
LEMMA ReadLengthItem ==
  ASSUME NEW b, NEW i, NEW tag, NEW j, NEW v, NEW k,
         ReadVarint(b, i) = {[value |-> tag, next |-> j]},
         ReadVarint(b, j) = {[value |-> v, next |-> k]}, tag % 8 = 2
  PROVE  ReadItem(b, i) = ReadBytes(b, tag, k, v)
<1>1. tag % 8 # 0
  OBVIOUS
<1>2. ReadItem(b, i) = UNION {ReadBytes(b, tag, n.next, n.value) : n \in ReadVarint(b, j)}
  BY <1>1, ReadFixedItem, Zenon
<1> QED
  BY <1>2

\* What an item is made of, and what is written of it.
LEMMA ItemParts ==
  ASSUME NEW item \in Small
  PROVE  \E tag \in Number, size \in Number, value \in Number \cup Bytes :
            /\ item = [tag |-> tag, value |-> value, size |-> size]
            /\ size \in Nat /\ tag % 8 \in {0, 1, 2, 5}
            /\ tag % 8 = 0 => value \in Number /\ size = 0
            /\ tag % 8 # 0 => value \in Bytes /\ size = Len(value)
            /\ tag % 8 = 1 => size = 8
            /\ tag % 8 = 5 => size = 4
            /\ WriteItem(item) = Cat(Varint(tag), IF tag % 8 = 0 THEN Varint(value)
                                                  ELSE IF tag % 8 = 2 THEN Cat(Varint(size), value)
                                                  ELSE value)
            /\ ItemSize(item) = VarintSize(tag) + IF tag % 8 = 0 THEN VarintSize(value)
                                                  ELSE IF tag % 8 = 2 THEN VarintSize(size) + size
                                                  ELSE size
<1>1. IsItem(item) /\ item.tag \in Number /\ item.size \in Number /\ item.size \in Nat
  BY DEF Small, ItemSet
<1>2. /\ item = [tag |-> item.tag, value |-> item.value, size |-> item.size]
      /\ item.tag % 8 \in {0, 1, 2, 5}
      /\ item.tag % 8 = 0 => item.value \in Number /\ item.size = 0
      /\ item.tag % 8 # 0 => item.value \in Bytes /\ item.size = Len(item.value)
      /\ item.tag % 8 = 1 => item.size = 8
      /\ item.tag % 8 = 5 => item.size = 4
  BY <1>1 DEF IsItem, Bytes
<1>3. WriteItem(item) = Cat(Varint(item.tag),
                            IF item.tag % 8 = 0 THEN Varint(item.value)
                            ELSE IF item.tag % 8 = 2 THEN Cat(Varint(item.size), item.value)
                            ELSE item.value)
  BY DEF WriteItem, Cat
<1>4. ItemSize(item) = VarintSize(item.tag) + IF item.tag % 8 = 0 THEN VarintSize(item.value)
                                              ELSE IF item.tag % 8 = 2
                                              THEN VarintSize(item.size) + item.size
                                              ELSE item.size
  BY DEF ItemSize
<1>5. item.value \in Number \cup Bytes
  BY <1>2
<1> QED
  BY <1>1, <1>2, <1>3, <1>4, <1>5, Zenon

\* An item is read where it was written.
LEMMA ItemRead ==
  ASSUME NEW pre \in Bytes, NEW item \in Small, NEW post \in Bytes,
         NEW b, b = Cat(pre, Cat(WriteItem(item), post))
  PROVE  ReadItem(b, Len(pre) + 1) = {[item |-> item, next |-> Len(pre) + 1 + ItemSize(item)]}
<1>0. PICK tag \in Number, size \in Number, val \in Number \cup Bytes :
            /\ item = [tag |-> tag, value |-> val, size |-> size]
            /\ size \in Nat /\ tag % 8 \in {0, 1, 2, 5}
            /\ tag % 8 = 0 => val \in Number /\ size = 0
            /\ tag % 8 # 0 => val \in Bytes /\ size = Len(val)
            /\ tag % 8 = 1 => size = 8
            /\ tag % 8 = 5 => size = 4
            /\ WriteItem(item) = Cat(Varint(tag), IF tag % 8 = 0 THEN Varint(val)
                                                  ELSE IF tag % 8 = 2 THEN Cat(Varint(size), val)
                                                  ELSE val)
            /\ ItemSize(item) = VarintSize(tag) + IF tag % 8 = 0 THEN VarintSize(val)
                                                  ELSE IF tag % 8 = 2 THEN VarintSize(size) + size
                                                  ELSE size
  BY ItemParts
<1> DEFINE t == Varint(tag)
           a == Varint(val)
           l == Varint(size)
           y == IF tag % 8 = 0 THEN a ELSE IF tag % 8 = 2 THEN Cat(l, val) ELSE val
           i == Len(pre) + 1
           p == Cat(pre, t)
           j == i + VarintSize(tag)
<1>1. size \in Nat
  BY <1>0
<1>2. t \in Bytes /\ Len(t) = VarintSize(tag) /\ VarintSize(tag) \in 1 .. 10
  BY <1>1, VarintRead
<1>3. WriteItem(item) = Cat(t, y)
  BY <1>0
<1>4. item = [tag |-> tag, value |-> val, size |-> size]
  BY <1>0
<1>5. p \in Bytes /\ Len(p) + 1 = j /\ Len(pre) \in Nat
  <2>1. p \in Bytes /\ Len(p) = Len(pre) + Len(t) /\ Len(pre) \in Nat
    BY <1>2, CatBytes
  <2> QED
    BY <1>2, <2>1
<1>6. ASSUME y \in Bytes
      PROVE  ReadVarint(b, i) = {[value |-> tag, next |-> j]} /\ b = Cat(p, Cat(y, post))
  <2>1. y \in Bytes
    BY <1>6
  <2> HIDE DEF t, y
  <2>2. b = Cat(p, Cat(y, post)) /\ b = Cat(pre, Cat(t, Cat(y, post))) /\ Cat(y, post) \in Bytes
    BY <1>2, <1>3, <2>1, CatBytes
  <2> QED
    BY <1>1, <2>2, VarintRead DEF t
<1> HIDE DEF p, i
<1>7. CASE tag % 8 = 0
  <2>1. val \in Number /\ size = 0
    BY <1>0, <1>7
  <2>2. a \in Bytes /\ VarintSize(val) \in 1 .. 10
    BY <2>1, VarintRead
  <2>3. y = a
    BY <1>7
  <2> HIDE DEF y
  <2>4. ReadVarint(b, i) = {[value |-> tag, next |-> j]} /\ b = Cat(p, Cat(a, post))
    <3>1. y \in Bytes
      BY <2>2, <2>3, Zenon
    <3>2. ReadVarint(b, i) = {[value |-> tag, next |-> j]} /\ b = Cat(p, Cat(y, post))
      BY <1>6, <3>1, Zenon
    <3> QED
      BY <2>3, <3>2, Zenon
  <2>6. ReadVarint(b, j) = {[value |-> val, next |-> j + VarintSize(val)]}
    <3>1. ReadVarint(Cat(p, Cat(a, post)), Len(p) + 1)
            = {[value |-> val, next |-> Len(p) + 1 + VarintSize(val)]}
      BY <1>5, <2>1, VarintRead
    <3> HIDE DEF j, a
    <3> QED
      BY <1>5, <2>4, <3>1, Zenon
  <2>7. ItemSize(item) = VarintSize(tag) + VarintSize(val)
    BY <1>0, <1>7
  <2>8. j + VarintSize(val) = i + ItemSize(item)
    <3>1. VarintSize(tag) \in Nat /\ VarintSize(val) \in Nat /\ i \in Nat
      BY <1>2, <1>5, <2>2 DEF i
    <3> QED
      BY <2>7, <3>1
  <2> HIDE DEF j
  <2>10. ReadItem(b, i) = {[item |-> [tag |-> tag, value |-> val, size |-> 0],
                            next |-> j + VarintSize(val)]}
    <3> DEFINE k == j + VarintSize(val)
               read == [item |-> [tag |-> tag, value |-> val, size |-> 0], next |-> k]
    <3>1. ReadVarint(b, i) = {[value |-> tag, next |-> j]}
      BY <2>4
    <3>2. ReadVarint(b, j) = {[value |-> val, next |-> k]}
      BY <2>6
    <3>4. read = [item |-> [tag |-> tag, value |-> val, size |-> 0], next |-> k]
      OBVIOUS
    <3> HIDE DEF k, a, t, y, read
    <3>3. ReadItem(b, i) = {read}
      BY <1>7, <3>1, <3>2, <3>4, ReadNumberItem
    <3> QED
      BY <3>3 DEF k, read
  <2> QED
    BY <1>4, <2>1, <2>8, <2>10 DEF i
<1>8. CASE tag % 8 = 2
  <2> DEFINE q == Cat(p, l)
             k == j + VarintSize(size)
  <2>1. val \in Bytes /\ Len(val) = size
    BY <1>0, <1>8
  <2>2. l \in Bytes /\ Len(l) = VarintSize(size) /\ VarintSize(size) \in 1 .. 10
    BY <1>1, VarintRead
  <2>3. y = Cat(l, val)
    <3> HIDE DEF a, l, t
    <3> QED
      BY <1>8
  <2>4. Cat(l, val) \in Bytes
    BY <2>1, <2>2, CatBytes
  <2> HIDE DEF y
  <2>5. ReadVarint(b, i) = {[value |-> tag, next |-> j]} /\ b = Cat(p, Cat(Cat(l, val), post))
    BY <1>6, <2>3, <2>4
  <2>6. q \in Bytes /\ Len(q) + 1 = k
    <3>1. q \in Bytes /\ Len(q) = Len(p) + Len(l) /\ Len(p) \in Nat
      BY <1>5, <2>2, CatBytes
    <3>2. VarintSize(size) \in Nat
      BY <2>2
    <3> HIDE DEF j, q
    <3> QED
      BY <1>5, <2>2, <3>1, <3>2
  <2>7. b = Cat(p, Cat(l, Cat(val, post))) /\ b = Cat(Cat(q, val), post) /\ Cat(val, post) \in Bytes
    <3> HIDE DEF l
    <3>1. Cat(Cat(l, val), post) = Cat(l, Cat(val, post)) /\ Cat(val, post) \in Bytes
      BY <2>1, <2>2, CatBytes
    <3>2. Cat(p, Cat(l, Cat(val, post))) = Cat(q, Cat(val, post))
      BY <1>5, <2>2, <3>1, CatBytes
    <3> HIDE DEF q
    <3>3. Cat(q, Cat(val, post)) = Cat(Cat(q, val), post)
      BY <2>1, <2>6, CatBytes
    <3> QED
      BY <2>5, <3>1, <3>2, <3>3
  <2>8. ReadVarint(b, j) = {[value |-> size, next |-> k]}
    BY <1>1, <1>5, <2>7, VarintRead
  <2> HIDE DEF q, k, j, t, l
  <2>11. ReadBytes(b, tag, k, size)
           = {[item |-> [tag |-> tag, value |-> val, size |-> size], next |-> k + size]}
    <3> SUFFICES ASSUME NEW s, s = size, NEW w, w = val
                 PROVE  ReadBytes(b, tag, k, s)
                          = {[item |-> [tag |-> tag, value |-> w, size |-> s], next |-> k + s]}
      OBVIOUS
    <3>1. w \in Bytes /\ s = Len(w) /\ b = Cat(Cat(q, w), post) /\ k = Len(q) + 1
      BY <2>1, <2>6, <2>7
    <3> QED
      BY <2>6, <3>1, BytesIn
  <2>13. ReadItem(b, i) = ReadBytes(b, tag, k, size)
    BY <1>8, <2>5, <2>8, ReadLengthItem
  <2>14. ItemSize(item) = VarintSize(tag) + (VarintSize(size) + size)
    BY <1>0, <1>8
  <2>15. k + size = i + ItemSize(item)
    <3>1. VarintSize(tag) \in Nat /\ VarintSize(size) \in Nat /\ size \in Nat
          /\ i \in Nat
      BY <1>1, <1>2, <1>5, <2>2 DEF i
    <3> QED
      BY <2>14, <3>1 DEF k, j
  <2> QED
    BY <1>4, <2>11, <2>13, <2>15 DEF i
<1>9. CASE tag % 8 = 1 \/ tag % 8 = 5
  <2>1. val \in Bytes /\ Len(val) = size
    BY <1>0, <1>9
  <2>2. y = val
    <3> HIDE DEF l, a
    <3> QED
      BY <1>9
  <2> HIDE DEF y
  <2>3. ReadVarint(b, i) = {[value |-> tag, next |-> j]} /\ b = Cat(p, Cat(val, post))
    BY <1>6, <2>1, <2>2
  <2>10. b = Cat(Cat(p, val), post)
    BY <1>5, <2>1, <2>3, CatBytes
  <2>8. ItemSize(item) = VarintSize(tag) + size
    BY <1>0, <1>9
  <2>9. j + size = i + ItemSize(item)
    <3>1. VarintSize(tag) \in Nat /\ size \in Nat /\ i \in Nat
      BY <1>1, <1>2, <1>5 DEF i
    <3> QED
      BY <2>8, <3>1
  <2> HIDE DEF j, t
  <2>4. ReadBytes(b, tag, j, size)
           = {[item |-> [tag |-> tag, value |-> val, size |-> size], next |-> j + size]}
    <3> SUFFICES ASSUME NEW s, s = size, NEW w, w = val
                 PROVE  ReadBytes(b, tag, j, s)
                          = {[item |-> [tag |-> tag, value |-> w, size |-> s], next |-> j + s]}
      OBVIOUS
    <3>1. w \in Bytes /\ s = Len(w) /\ b = Cat(Cat(p, w), post) /\ j = Len(p) + 1
      BY <1>5, <2>1, <2>10
    <3> QED
      BY <1>5, <3>1, BytesIn
  <2>5. tag % 8 = 1 => size = 8
    BY <1>0
  <2>6. tag % 8 = 5 => size = 4
    BY <1>0
  <2>7. ReadItem(b, i) = ReadBytes(b, tag, j, size)
    <3> SUFFICES ASSUME NEW s, s = size
                 PROVE  ReadItem(b, i) = ReadBytes(b, tag, j, s)
      OBVIOUS
    <3>1. ReadVarint(b, i) = {[value |-> tag, next |-> j]}
      BY <2>3
    <3>2. CASE tag % 8 = 1
      BY <2>5, <3>1, <3>2, ReadFixedItem
    <3>3. CASE tag % 8 = 5
      BY <2>6, <3>1, <3>3, ReadFixedItem
    <3> QED
      BY <1>9, <3>2, <3>3
  <2> QED
    BY <1>4, <2>4, <2>7, <2>9 DEF i
<1>10. tag % 8 \in {0, 1, 2, 5}
  BY <1>0
<1> QED
  BY <1>7, <1>8, <1>9, <1>10 DEF i

-----------------------------------------------------------------------------
(* Lists of items.                                                         *)

\* What is written of a list, and how long that is.
LEMMA WriteAllSteps ==
  ASSUME NEW s \in Seq(Small), NEW e \in Small
  PROVE  /\ WriteAll(s) \in Bytes
         /\ WriteAll(<<>>) = <<>>
         /\ WriteAll(<<e>> \o s) = Cat(WriteItem(e), WriteAll(s))
<1> DEFINE h == [it \in Small |-> WriteItem(it)]
<1>1. h \in [Small -> Bytes] /\ h[e] = WriteItem(e)
  BY ItemWritten DEF Bytes
<1>2. \A r \in Seq(Small) : WriteAll(r) = FlattenSeq(Mapped(h, r))
  <2> SUFFICES ASSUME NEW r \in Seq(Small) PROVE WriteAll(r) = FlattenSeq(Mapped(h, r))
    OBVIOUS
  <2>1. \A i \in DOMAIN r : r[i] \in Small
    OBVIOUS
  <2>2. [i \in DOMAIN r |-> WriteItem(r[i])] = Mapped(h, r)
    BY <2>1 DEF Mapped
  <2> QED
    BY <2>2 DEF WriteAll
<1> HIDE DEF h
<1>3. <<e>> \in Seq(Small) /\ <<>> \in Seq(Small) /\ <<e>> \o s \in Seq(Small)
  <2>1. <<e>> \in Seq(Small) /\ <<>> \in Seq(Small)
    OBVIOUS
  <2> QED
    BY <2>1, ConcatProperties
<1>4. /\ \A r \in Seq(Small) : Mapped(h, r) \in Seq(Bytes)
      /\ Mapped(h, <<e>>) = <<h[e]>> /\ Mapped(h, <<>>) = <<>>
      /\ Mapped(h, <<e>> \o s) = Mapped(h, <<e>>) \o Mapped(h, s)
  <2>1. \A r \in Seq(Small) : Mapped(h, r) \in Seq(Bytes)
    BY <1>1, MapSeq
  <2>2. Mapped(h, <<e>>) = <<h[e]>> /\ Mapped(h, <<>>) = <<>>
    BY MapOne
  <2>3. Mapped(h, <<e>> \o s) = Mapped(h, <<e>>) \o Mapped(h, s)
    <3>1. h \in [Small -> Bytes] /\ <<e>> \in Seq(Small)
      BY <1>1, <1>3
    <3> DEFINE x == <<e>>
    <3>2. x \in Seq(Small)
      BY <3>1
    <3> HIDE DEF x
    <3>3. Mapped(h, Cat(x, s)) = Cat(Mapped(h, x), Mapped(h, s))
      BY <3>2, MapConcat
    <3> QED
      BY <3>3 DEF Cat, x
  <2> QED
    BY <2>1, <2>2, <2>3
<1>5. WriteAll(s) \in Bytes
  <2>1. Mapped(h, s) \in Seq(Seq(Byte))
    BY <1>4 DEF Bytes
  <2>2. FlattenSeq(Mapped(h, s)) \in Seq(Byte)
    <3> SUFFICES ASSUME NEW x \in Seq(Seq(Byte)) PROVE FlattenSeq(x) \in Seq(Byte)
      BY <2>1
    <3>1. <<>> \in Seq(Byte)
      OBVIOUS
    <3> QED
      BY <3>1, FlattenAppend
  <2> QED
    BY <1>2, <2>2 DEF Bytes
<1>6. WriteAll(<<>>) = <<>>
  BY <1>2, <1>3, <1>4, FlattenEmpty
<1>7. WriteAll(<<e>> \o s) = Cat(WriteItem(e), WriteAll(s))
  <2>1. WriteAll(<<e>> \o s) = FlattenSeq(<<h[e]>> \o Mapped(h, s))
    BY <1>2, <1>3, <1>4
  <2>2. h[e] \in Seq(Byte) /\ Mapped(h, s) \in Seq(Seq(Byte))
    BY <1>1, <1>4 DEF Bytes
  <2>3. FlattenSeq(<<h[e]>> \o Mapped(h, s)) = h[e] \o FlattenSeq(Mapped(h, s))
    BY <2>2, FlattenCons
  <2> QED
    BY <1>1, <1>2, <2>1, <2>3 DEF Cat
<1> QED
  BY <1>5, <1>6, <1>7

\* Sums of sizes, of any items with a size.
LEMMA SizeSteps ==
  ASSUME NEW S, \A it \in S : ItemSize(it) \in Nat, NEW s \in Seq(S), NEW r \in Seq(S), NEW e \in S
  PROVE  /\ SizeOfAll(s) \in Nat
         /\ SizeOfAll(<<>>) = 0
         /\ SizeOfAll(<<e>>) = ItemSize(e)
         /\ SizeOfAll(s \o r) = SizeOfAll(s) + SizeOfAll(r)
<1> DEFINE h == [it \in S |-> ItemSize(it)]
<1>1. h \in [S -> Nat] /\ h[e] = ItemSize(e)
  OBVIOUS
<1>2. \A q \in Seq(S) : SizeOfAll(q) = Total(Mapped(h, q))
  <2> SUFFICES ASSUME NEW q \in Seq(S) PROVE SizeOfAll(q) = Total(Mapped(h, q))
    OBVIOUS
  <2>1. \A i \in DOMAIN q : q[i] \in S
    OBVIOUS
  <2>2. [i \in DOMAIN q |-> ItemSize(q[i])] = Mapped(h, q)
    BY <2>1 DEF Mapped
  <2> QED
    BY <2>2 DEF SizeOfAll
<1> HIDE DEF h
<1>3. <<e>> \in Seq(S) /\ <<>> \in Seq(S) /\ s \o r \in Seq(S)
  <2>1. <<e>> \in Seq(S) /\ <<>> \in Seq(S)
    OBVIOUS
  <2> QED
    BY <2>1, ConcatProperties
<1>4. \A q \in Seq(S) : Mapped(h, q) \in Seq(Nat)
  BY <1>1, MapSeq
<1>5. Mapped(h, <<e>>) = <<h[e]>> /\ Mapped(h, <<>>) = <<>>
  BY MapOne
<1>6. Mapped(h, s \o r) = Mapped(h, s) \o Mapped(h, r)
  <2>1. h \in [S -> Nat]
    BY <1>1
  <2>2. Mapped(h, Cat(s, r)) = Cat(Mapped(h, s), Mapped(h, r))
    BY MapConcat
  <2> QED
    BY <2>2 DEF Cat
<1>7. SizeOfAll(s) \in Nat
  BY <1>2, <1>4, TotalAppend
<1>8. SizeOfAll(<<>>) = 0
  BY <1>2, <1>3, <1>5, TotalAppend
<1>9. SizeOfAll(<<e>>) = ItemSize(e)
  <2>1. <<h[e]>> = Append(<<>>, h[e]) /\ <<>> \in Seq(Nat) /\ h[e] \in Nat
    BY <1>1
  <2>2. Total(<<h[e]>>) = 0 + h[e]
    BY <2>1, TotalAppend
  <2> QED
    <3>1. SizeOfAll(<<e>>) = Total(<<h[e]>>)
      BY <1>2, <1>3, <1>5
    <3> QED
      BY <1>1, <2>1, <2>2, <3>1
<1>10. SizeOfAll(s \o r) = SizeOfAll(s) + SizeOfAll(r)
  <2>1. Total(Mapped(h, s) \o Mapped(h, r)) = Total(Mapped(h, s)) + Total(Mapped(h, r))
    BY <1>4, TotalConcat
  <2> QED
    BY <1>2, <1>3, <1>6, <2>1
<1> QED
  BY <1>7, <1>8, <1>9, <1>10

\* What is written is as long as it says.
LEMMA AllWritten ==
  ASSUME NEW s \in Seq(Small)
  PROVE  WriteAll(s) \in Bytes /\ Len(WriteAll(s)) = SizeOfAll(s) /\ SizeOfAll(s) \in Nat
<1> DEFINE T == {r \in Seq(Small) : Len(WriteAll(r)) = SizeOfAll(r)}
<1>0. \A it \in Small : WriteItem(it) \in Bytes /\ Len(WriteItem(it)) = ItemSize(it) /\ ItemSize(it) \in Nat
  BY ItemWritten DEF Bytes
<1>1. <<>> \in T
  <2>1. <<>> \in Seq(Small)
    OBVIOUS
  <2>2. SizeOfAll(<<>>) = 0
    <3>1. CASE Small = {}
      <4>1. [i \in DOMAIN <<>> |-> ItemSize(<<>>[i])] = <<>>
        OBVIOUS
      <4> QED
        BY <4>1, TotalAppend DEF SizeOfAll
    <3>2. CASE Small # {}
      BY <1>0, <2>1, <3>2, SizeSteps
    <3> QED
      BY <3>1, <3>2
  <2>3. WriteAll(<<>>) = <<>>
    BY FlattenEmpty DEF WriteAll
  <2> QED
    BY <2>1, <2>2, <2>3
<1>2. ASSUME NEW r \in Seq(Small), NEW e \in Small, r \in T
      PROVE  <<e>> \o r \in T
  <2>1. <<e>> \in Seq(Small) /\ <<e>> \o r \in Seq(Small)
    <3>1. <<e>> \in Seq(Small)
      OBVIOUS
    <3> QED
      BY <3>1, ConcatProperties
  <2>2. SizeOfAll(<<e>> \o r) = SizeOfAll(<<e>>) + SizeOfAll(r)
    BY <1>0, <2>1, SizeSteps
  <2>3. SizeOfAll(<<e>>) = ItemSize(e) /\ SizeOfAll(r) \in Nat
    BY <1>0, SizeSteps
  <2>4. WriteAll(<<e>> \o r) = Cat(WriteItem(e), WriteAll(r)) /\ WriteAll(r) \in Bytes
    BY WriteAllSteps
  <2>5. Len(Cat(WriteItem(e), WriteAll(r))) = Len(WriteItem(e)) + Len(WriteAll(r))
    BY <1>0, <2>4, CatBytes
  <2>6. Len(WriteAll(r)) = SizeOfAll(r)
    BY <1>2
  <2> QED
    BY <1>0, <2>1, <2>2, <2>3, <2>4, <2>5, <2>6
<1>3. Seq(Small) \subseteq T
  <2> HIDE DEF T
  <2> QED
    BY <1>1, <1>2, SeqConsInduction
<1>4. WriteAll(s) \in Bytes /\ SizeOfAll(s) \in Nat
  <2>1. CASE s = <<>>
    <3>1. WriteAll(s) = <<>> /\ <<>> \in Bytes
      BY <2>1, FlattenEmpty DEF WriteAll, Bytes
    <3>2. SizeOfAll(s) = Len(WriteAll(s))
      BY <1>3
    <3> QED
      BY <3>1, <3>2
  <2>2. CASE s # <<>>
    <3>1. PICK e \in Small : TRUE
      BY <2>2
    <3> QED
      BY <1>0, <3>1, SizeSteps, WriteAllSteps
  <2> QED
    BY <2>1, <2>2
<1> QED
  BY <1>3, <1>4

\* What is read of an item ends behind where it begins, and in the string.
LEMMA ReadVarintNext ==
  ASSUME NEW b, NEW i \in Int, NEW r \in ReadVarint(b, i), Len(b) \in Nat
  PROVE  r.next \in (i + 1) .. (Len(b) + 1)
<1> DEFINE E == {k \in i .. Len(b) : k < i + 10 /\ b[k] < 128 /\ \A j \in i .. (k - 1) : b[j] >= 128}
           Digit(j, e) == IF j <= e THEN b[j] % 128 ELSE 0
           Value(e) == Digit(i, e) + 128 * Digit(i + 1, e) + 16384 * Digit(i + 2, e)
                       + 2097152 * Digit(i + 3, e) - (IF e = i + 9 THEN 268435456 ELSE 0)
<1>1. ReadVarint(b, i) = {[value |-> Value(e), next |-> e + 1] : e \in E}
  BY DEF ReadVarint
<1>2. \A e \in E : e \in i .. Len(b)
  OBVIOUS
<1> HIDE DEF E, Value
<1>3. PICK e \in E : r = [value |-> Value(e), next |-> e + 1]
  BY <1>1
<1> QED
  BY <1>2, <1>3

\* What follows bytes that are read is on the string or at its end.
LEMMA ReadBytesNext ==
  ASSUME NEW b, NEW tag, NEW i \in Int, NEW size, NEW r \in ReadBytes(b, tag, i, size), Len(b) \in Nat
  PROVE  r.next \in i .. (Len(b) + 1)
BY DEF ReadBytes

\* Reading an item gets further.
LEMMA ReadItemNext ==
  ASSUME NEW b, NEW i \in Int, NEW r \in ReadItem(b, i), Len(b) \in Nat
  PROVE  r.next \in (i + 1) .. (Len(b) + 1)
<1> DEFINE Rest(t) ==
      IF t.value % 8 = 0
      THEN {[item |-> [tag |-> t.value, value |-> n.value, size |-> 0], next |-> n.next] :
              n \in ReadVarint(b, t.next)}
      ELSE IF t.value % 8 = 2
      THEN UNION {ReadBytes(b, t.value, n.next, n.value) : n \in ReadVarint(b, t.next)}
      ELSE IF t.value % 8 = 1 THEN ReadBytes(b, t.value, t.next, 8)
      ELSE IF t.value % 8 = 5 THEN ReadBytes(b, t.value, t.next, 4)
      ELSE {}
<1>1. ReadItem(b, i) = UNION {Rest(t) : t \in ReadVarint(b, i)}
  BY DEF ReadItem
<1>2. PICK t \in ReadVarint(b, i) : r \in Rest(t)
  <2> HIDE DEF Rest
  <2> QED
    BY <1>1
<1>3. t.next \in (i + 1) .. (Len(b) + 1)
  BY ReadVarintNext
<1>4. ASSUME NEW n \in ReadVarint(b, t.next)
      PROVE  n.next \in (t.next + 1) .. (Len(b) + 1)
  <2>1. t.next \in Int
    BY <1>3
  <2> QED
    BY <2>1, ReadVarintNext
<1>5. CASE t.value % 8 = 0
  <2>1. r \in {[item |-> [tag |-> t.value, value |-> n.value, size |-> 0], next |-> n.next] :
              n \in ReadVarint(b, t.next)}
    BY <1>2, <1>5
  <2> QED
    BY <1>3, <1>4, <2>1
<1>6. CASE t.value % 8 = 2
  <2>1. t.value % 8 # 0
    BY <1>6
  <2>2. r \in UNION {ReadBytes(b, t.value, n.next, n.value) : n \in ReadVarint(b, t.next)}
    BY <1>2, <1>6, <2>1, Zenon
  <2>3. PICK n \in ReadVarint(b, t.next) : r \in ReadBytes(b, t.value, n.next, n.value)
    BY <2>2
  <2>4. n.next \in (t.next + 1) .. (Len(b) + 1)
    BY <1>4
  <2>5. n.next \in Int /\ t.next \in Int
    BY <1>3, <2>4
  <2>6. r.next \in n.next .. (Len(b) + 1)
    BY <2>3, <2>5, ReadBytesNext
  <2> QED
    BY <1>3, <2>4, <2>6
<1>7. CASE t.value % 8 # 0 /\ t.value % 8 # 2
  <2>1. \E size : r \in ReadBytes(b, t.value, t.next, size)
    BY <1>2, <1>7
  <2>2. PICK size : r \in ReadBytes(b, t.value, t.next, size)
    BY <2>1
  <2>3. t.next \in Int
    BY <1>3
  <2>4. r.next \in t.next .. (Len(b) + 1)
    BY <2>2, <2>3, ReadBytesNext
  <2> QED
    BY <1>3, <2>4
<1> QED
  BY <1>5, <1>6, <1>7

\* ReadItems reads one item after the other.
ReadsFrom(f, b) ==
  \A i \in 1 .. (Len(b) + 1) :
     f[i] = IF i = Len(b) + 1 THEN {<<>>}
            ELSE UNION {{<<read.item>> \o rest : rest \in f[read.next]} : read \in ReadItem(b, i)}

\* ReadItems is a function of the byte to begin at, which its body tells.
LEMMA ReadSteps ==
  ASSUME NEW b \in Bytes
  PROVE  \E f : ReadItems(b) = f[1] /\ ReadsFrom(f, b)
<1> DEFINE n == Len(b)
           Body(g, i) == IF i = n + 1 THEN {<<>>}
                         ELSE UNION {{<<read.item>> \o rest : rest \in g[read.next]} :
                                        read \in ReadItem(b, i)}
           T == {m \in Nat : \E g : g = [i \in ((n + 1) - m) .. (n + 1) |-> Body(g, i)]}
           from == CHOOSE g : g = [i \in 1 .. (n + 1) |-> Body(g, i)]
<1>0. n \in Nat
  BY CatBytes
<1>1. 0 \in T
  <2> DEFINE e == [i \in ((n + 1) - 0) .. (n + 1) |-> {<<>>}]
  <2>1. \A i \in ((n + 1) - 0) .. (n + 1) : Body(e, i) = {<<>>}
    <3> TAKE i \in ((n + 1) - 0) .. (n + 1)
    <3>1. i = n + 1
      BY <1>0
    <3> QED
      BY <3>1, Zenon
  <2>2. e = [i \in ((n + 1) - 0) .. (n + 1) |-> Body(e, i)]
    <3> HIDE DEF Body
    <3> QED
      BY <2>1
  <2> HIDE DEF e, Body
  <2>3. \E g : g = [i \in ((n + 1) - 0) .. (n + 1) |-> Body(g, i)]
    BY <2>2
  <2> QED
    BY <2>3
<1>2. ASSUME NEW m \in Nat, m \in T
      PROVE  m + 1 \in T
  <2> DEFINE lo == (n + 1) - (m + 1)
  <2>1. PICK g : g = [i \in ((n + 1) - m) .. (n + 1) |-> Body(g, i)]
    BY <1>2
  <2> DEFINE h == [i \in lo .. (n + 1) |-> Body(g, i)]
  <2>2. ASSUME NEW i \in ((n + 1) - m) .. (n + 1)
        PROVE  h[i] = g[i]
    <3>1. i \in lo .. (n + 1)
      BY <1>0
    <3> HIDE DEF Body, lo
    <3> QED
      BY <2>1, <3>1
  <2>3. ASSUME NEW i \in lo .. (n + 1)
        PROVE  Body(h, i) = Body(g, i)
    <3>1. i \in Int
      BY <1>0
    <3>2. \A read \in ReadItem(b, i) : read.next \in ((n + 1) - m) .. (n + 1)
      <4> TAKE read \in ReadItem(b, i)
      <4>1. read.next \in (i + 1) .. (n + 1)
        BY <1>0, <3>1, ReadItemNext
      <4> QED
        BY <1>0, <4>1
    <3>3. \A read \in ReadItem(b, i) : h[read.next] = g[read.next]
      <4> HIDE DEF h
      <4> QED
        BY <2>2, <3>2
    <3> DEFINE Rests(x, read) == {<<read.item>> \o rest : rest \in x[read.next]}
    <3> HIDE DEF h
    <3>4. \A read \in ReadItem(b, i) : Rests(h, read) = Rests(g, read)
      BY <3>3
    <3>5. /\ Body(h, i) = IF i = n + 1 THEN {<<>>} ELSE UNION {Rests(h, read) : read \in ReadItem(b, i)}
          /\ Body(g, i) = IF i = n + 1 THEN {<<>>} ELSE UNION {Rests(g, read) : read \in ReadItem(b, i)}
      OBVIOUS
    <3> HIDE DEF Rests, Body
    <3>6. UNION {Rests(h, read) : read \in ReadItem(b, i)} = UNION {Rests(g, read) : read \in ReadItem(b, i)}
      BY <3>4
    <3> QED
      BY <3>5, <3>6, Zenon
  <2>4. h = [i \in lo .. (n + 1) |-> Body(h, i)]
    <3> HIDE DEF Body
    <3> QED
      BY <2>3
  <2> HIDE DEF h, Body
  <2>5. \E x : x = [i \in lo .. (n + 1) |-> Body(x, i)]
    BY <2>4
  <2> QED
    BY <2>5
<1>3. n \in T
  <2> HIDE DEF T
  <2>1. T \subseteq Nat
    BY DEF T
  <2> QED
    BY <1>0, <1>1, <1>2, NatSetInduction
<1>4. from = [i \in 1 .. (n + 1) |-> Body(from, i)]
  <2>1. (n + 1) - n = 1
    BY <1>0
  <2> HIDE DEF Body
  <2>2. \E g : g = [i \in 1 .. (n + 1) |-> Body(g, i)]
    BY <1>3, <2>1
  <2> QED
    BY <2>2
<1>5. ReadItems(b) = from[1]
  BY DEF ReadItems
<1> HIDE DEF from, T
<1>6. \A i \in 1 .. (n + 1) : from[i] = Body(from, i)
  <2> HIDE DEF Body, n
  <2> QED
    BY <1>4
<1>7. ReadsFrom(from, b)
  BY <1>6 DEF ReadsFrom
<1> QED
  BY <1>5, <1>7

\* A list is read as it was written.
LEMMA ItemsRead ==
  ASSUME NEW items \in Seq(Small)
  PROVE  ReadItems(WriteAll(items)) = {items}
<1> DEFINE b == WriteAll(items)
<1>1. b \in Bytes /\ Len(b) \in Nat
  BY AllWritten, CatBytes
<1>2. PICK f : ReadItems(b) = f[1] /\ ReadsFrom(f, b)
  BY <1>1, ReadSteps
<1> HIDE DEF b
<1> DEFINE T == {s \in Seq(Small) :
                   \A pre \in Bytes : b = Cat(pre, WriteAll(s)) => f[Len(pre) + 1] = {s}}
<1>3. <<>> \in T
  <2>1. ASSUME NEW pre \in Bytes, b = Cat(pre, WriteAll(<<>>))
        PROVE  f[Len(pre) + 1] = {<<>>}
    <3>1. WriteAll(<<>>) = <<>>
      BY FlattenEmpty DEF WriteAll
    <3>2. b = pre
      BY <2>1, <3>1, ConcatEmptySeq DEF Cat, Bytes
    <3>3. Len(pre) + 1 = Len(b) + 1 /\ Len(b) + 1 \in 1 .. (Len(b) + 1)
      BY <1>1, <3>2
    <3>4. f[Len(b) + 1] = {<<>>}
      <4> SUFFICES ASSUME NEW i, i = Len(b) + 1 PROVE f[i] = {<<>>}
        OBVIOUS
      <4> QED
        BY <1>2, <3>3, Zenon DEF ReadsFrom
    <3> QED
      BY <3>3, <3>4
  <2>2. <<>> \in Seq(Small)
    OBVIOUS
  <2> QED
    BY <2>1, <2>2
<1>4. ASSUME NEW s \in Seq(Small), NEW e \in Small, s \in T
      PROVE  <<e>> \o s \in T
  <2>1. <<e>> \o s \in Seq(Small)
    <3>1. <<e>> \in Seq(Small)
      OBVIOUS
    <3> QED
      BY <3>1, ConcatProperties
  <2>2. ASSUME NEW pre \in Bytes, b = Cat(pre, WriteAll(<<e>> \o s))
        PROVE  f[Len(pre) + 1] = {<<e>> \o s}
    <3> DEFINE w == WriteItem(e)
               r == WriteAll(s)
               i == Len(pre) + 1
               z == ItemSize(e)
    <3>1. w \in Bytes /\ Len(w) = z /\ z \in Nat \ {0} /\ r \in Bytes
      BY ItemWritten, AllWritten DEF Bytes
    <3>2. b = Cat(pre, Cat(w, r))
      BY <2>2, WriteAllSteps
    <3>3. ReadItem(b, i) = {[item |-> e, next |-> i + z]}
      BY <3>1, <3>2, ItemRead
    <3>4. b = Cat(Cat(pre, w), r) /\ Cat(pre, w) \in Bytes
      <4> HIDE DEF w, r
      <4> QED
        BY <3>1, <3>2, CatBytes
    <3>5. Len(Cat(pre, w)) = Len(pre) + Len(w) /\ Len(b) = Len(Cat(pre, w)) + Len(r)
          /\ Len(pre) \in Nat /\ Len(r) \in Nat
      <4> HIDE DEF w, r
      <4> QED
        BY <3>1, <3>4, CatBytes
    <3> HIDE DEF w, r, z
    <3>6. Len(Cat(pre, w)) + 1 = i + z /\ i \in 1 .. (Len(b) + 1) /\ i # Len(b) + 1
      BY <3>1, <3>5
    <3>7. f[i + z] = {s}
      <4>1. f[Len(Cat(pre, w)) + 1] = {s}
        BY <1>4, <3>4 DEF r
      <4> QED
        BY <3>6, <4>1
    <3> HIDE DEF i
    <3>8. f[i] = UNION {{<<read.item>> \o rest : rest \in f[read.next]} : read \in ReadItem(b, i)}
      BY <1>2, <3>6, Zenon DEF ReadsFrom
    <3>9. f[i] = {<<e>> \o s}
      <4> DEFINE k == i + z
                 x == [item |-> e, next |-> k]
                 Rests(read) == {<<read.item>> \o rest : rest \in f[read.next]}
      <4>1. x.item = e /\ x.next = k
        OBVIOUS
      <4>2. f[k] = {s} /\ ReadItem(b, i) = {x}
        BY <3>3, <3>7 DEF i
      <4> HIDE DEF x, k
      <4>3. Rests(x) = {<<e>> \o s}
        BY <4>1, <4>2
      <4>4. f[i] = UNION {Rests(read) : read \in {x}}
        BY <3>8, <4>2, Zenon
      <4> HIDE DEF Rests
      <4> QED
        BY <4>3, <4>4
    <3> QED
      BY <3>9 DEF i
  <2> QED
    BY <2>1, <2>2
<1>5. Seq(Small) \subseteq T
  <2> HIDE DEF T
  <2> QED
    BY <1>3, <1>4, SeqConsInduction
<1>6. f[1] = {items}
  <2>1. <<>> \in Bytes /\ b = Cat(<<>>, WriteAll(items)) /\ Len(<<>>) + 1 = 1
    <3>1. <<>> \o b = b
      BY <1>1, ConcatEmptySeq DEF Bytes
    <3> QED
      BY <3>1 DEF b, Cat, Bytes
  <2> QED
    BY <1>5, <2>1
<1> QED
  BY <1>2, <1>6 DEF b

-----------------------------------------------------------------------------
(* Which items are of a field.                                             *)

\* The items of one list after another.
LEMMA SiftedConcat ==
  ASSUME NEW S, NEW tags, NEW u \in Seq(S), NEW v \in Seq(S)
  PROVE  /\ Sifted(Cat(u, v), tags) = Cat(Sifted(u, tags), Sifted(v, tags))
         /\ Sifted(u, tags) \in Seq(S)
<1> DEFINE h == [e \in S |-> IF e.tag \in tags THEN <<e>> ELSE <<>>]
<1>1. \A e \in S : h[e] \in Seq(S)
  OBVIOUS
<1>2. \A r \in Seq(S) : Sifted(r, tags) = FlattenSeq(Mapped(h, r))
  <2> SUFFICES ASSUME NEW r \in Seq(S) PROVE Sifted(r, tags) = FlattenSeq(Mapped(h, r))
    OBVIOUS
  <2>1. \A i \in DOMAIN r : r[i] \in S
    OBVIOUS
  <2>2. [i \in DOMAIN r |-> IF r[i].tag \in tags THEN <<r[i]>> ELSE <<>>] = Mapped(h, r)
    BY <2>1 DEF Mapped
  <2> QED
    BY <2>2 DEF Sifted
<1> HIDE DEF h
<1>3. \A r \in Seq(S) : Mapped(h, r) \in Seq(Seq(S))
  BY <1>1, MapSeq
<1>4. Cat(u, v) \in Seq(S)
  BY ConcatProperties DEF Cat
<1>5. Mapped(h, Cat(u, v)) = Cat(Mapped(h, u), Mapped(h, v))
  BY MapConcat
<1>6. FlattenSeq(Cat(Mapped(h, u), Mapped(h, v))) = Cat(FlattenSeq(Mapped(h, u)), FlattenSeq(Mapped(h, v)))
  <2> SUFFICES ASSUME NEW a \in Seq(Seq(S)), NEW b \in Seq(Seq(S))
               PROVE  FlattenSeq(Cat(a, b)) = Cat(FlattenSeq(a), FlattenSeq(b))
    BY <1>3
  <2> QED
    BY FlattenConcat DEF Cat
<1>7. Sifted(u, tags) \in Seq(S)
  <2> SUFFICES ASSUME NEW a \in Seq(Seq(S)) PROVE FlattenSeq(a) \in Seq(S)
    BY <1>2, <1>3
  <2>1. <<>> \in Seq(S)
    OBVIOUS
  <2> QED
    BY <2>1, FlattenAppend
<1> QED
  BY <1>2, <1>4, <1>5, <1>6, <1>7

\* One item, and none.
LEMMA SiftedOne ==
  ASSUME NEW tags, NEW e
  PROVE  /\ Sifted(<<>>, tags) = <<>>
         /\ e.tag \in tags => Sifted(<<e>>, tags) = <<e>>
         /\ e.tag \notin tags => Sifted(<<e>>, tags) = <<>>
<1>1. Sifted(<<>>, tags) = <<>>
  <2>1. [i \in DOMAIN <<>> |-> IF <<>>[i].tag \in tags THEN <<<<>>[i]>> ELSE <<>>] = <<>>
    OBVIOUS
  <2> QED
    BY <2>1, FlattenEmpty DEF Sifted
<1>2. ASSUME e.tag \in tags
      PROVE  Sifted(<<e>>, tags) = <<e>>
  <2>1. [i \in DOMAIN <<e>> |-> IF <<e>>[i].tag \in tags THEN <<<<e>>[i]>> ELSE <<>>] = << <<e>> >>
    BY <1>2
  <2>2. FlattenSeq(<< <<e>> >>) = <<e>>
    <3>1. <<e>> \in Seq({e}) /\ <<>> \in Seq(Seq({e}))
      OBVIOUS
    <3> DEFINE x == <<e>>
    <3> HIDE DEF x
    <3>2. FlattenSeq(<<x>>) = x
      BY <3>1, FlattenCons DEF x
    <3> QED
      BY <3>2 DEF x
  <2> QED
    BY <2>1, <2>2 DEF Sifted
<1>3. ASSUME e.tag \notin tags
      PROVE  Sifted(<<e>>, tags) = <<>>
  <2>1. [i \in DOMAIN <<e>> |-> IF <<e>>[i].tag \in tags THEN <<<<e>>[i]>> ELSE <<>>] = << <<>> >>
    BY <1>3
  <2>2. FlattenSeq(<< <<>> >>) = <<>>
    <3>1. <<>> \in Seq({e}) /\ <<>> \in Seq(Seq({e}))
      OBVIOUS
    <3> DEFINE x == <<>>
    <3> HIDE DEF x
    <3>2. FlattenSeq(<<x>>) = x
      BY <3>1, FlattenCons DEF x
    <3> QED
      BY <3>2 DEF x
  <2> QED
    BY <2>1, <2>2 DEF Sifted
<1> QED
  BY <1>1, <1>2, <1>3

\* All of the items, and none of them.
LEMMA SiftedAll ==
  ASSUME NEW S, NEW tags, \A e \in S : e.tag \in tags, NEW u \in Seq(S)
  PROVE  Sifted(u, tags) = u
<1> DEFINE T == {r \in Seq(S) : Sifted(r, tags) = r}
<1>1. <<>> \in T
  <2>1. <<>> \in Seq(S)
    OBVIOUS
  <2> QED
    BY <2>1, SiftedOne
<1>2. ASSUME NEW r \in Seq(S), NEW e \in S, r \in T
      PROVE  <<e>> \o r \in T
  <2> DEFINE x == <<e>>
  <2>1. x \in Seq(S) /\ Sifted(x, tags) = x
    BY SiftedOne
  <2> HIDE DEF x
  <2>2. Cat(x, r) \in Seq(S)
    BY <2>1, ConcatProperties DEF Cat
  <2>3. Sifted(Cat(x, r), tags) = Cat(x, r)
    BY <1>2, <2>1, SiftedConcat
  <2> QED
    BY <2>2, <2>3 DEF x, Cat
<1>3. Seq(S) \subseteq T
  <2> HIDE DEF T
  <2> QED
    BY <1>1, <1>2, SeqConsInduction
<1> QED
  BY <1>3

\* Of items of other tags nothing is left.
LEMMA SiftedNone ==
  ASSUME NEW S, NEW tags, \A e \in S : e.tag \notin tags, NEW u \in Seq(S)
  PROVE  Sifted(u, tags) = <<>>
<1> DEFINE T == {r \in Seq(S) : Sifted(r, tags) = <<>>}
<1>1. <<>> \in T
  <2>1. <<>> \in Seq(S)
    OBVIOUS
  <2> QED
    BY <2>1, SiftedOne
<1>2. ASSUME NEW r \in Seq(S), NEW e \in S, r \in T
      PROVE  <<e>> \o r \in T
  <2> DEFINE x == <<e>>
  <2>1. x \in Seq(S) /\ Sifted(x, tags) = <<>>
    BY SiftedOne
  <2> HIDE DEF x
  <2>2. Cat(x, r) \in Seq(S)
    BY <2>1, ConcatProperties DEF Cat
  <2>3. Sifted(Cat(x, r), tags) = Cat(<<>>, <<>>)
    BY <1>2, <2>1, SiftedConcat
  <2>4. Cat(<<>>, <<>>) = <<>>
    BY DEF Cat
  <2> QED
    BY <2>2, <2>3, <2>4 DEF x, Cat
<1>3. Seq(S) \subseteq T
  <2> HIDE DEF T
  <2> QED
    BY <1>1, <1>2, SeqConsInduction
<1> QED
  BY <1>3

\* Nothing before or behind.
LEMMA CatEmpty ==
  ASSUME NEW S, NEW u \in Seq(S)
  PROVE  Cat(<<>>, u) = u /\ Cat(u, <<>>) = u
BY ConcatEmptySeq DEF Cat

\* A list of what is coded for n fields with different tags, and of the rest.
Grouped(S, n, tag, coded, unknown, items) ==
  /\ n \in Nat \ {0}
  /\ \A i, k \in 1 .. n : tag[i] = tag[k] => i = k
  /\ coded \in [1 .. n -> Seq(S)]
  /\ \A i \in 1 .. n : \A j \in DOMAIN coded[i] : coded[i][j].tag = tag[i]
  /\ unknown \in Seq(S)
  /\ \A j \in DOMAIN unknown : \A i \in 1 .. n : unknown[j].tag # tag[i]
  /\ items = Listed(coded, unknown)

\* The items of each tag, and those that have none of the tags.
Separated(n, tag, coded, unknown, items) ==
  /\ \A k \in 1 .. n : Sifted(items, {tag[k]}) = coded[k]
  /\ Sifted(items, {items[i].tag : i \in DOMAIN items} \ {tag[i] : i \in 1 .. n}) = unknown

\* The items of a field are those that were listed for it, and the unknown ones
\* are those that were unknown.
LEMMA Regrouped ==
  ASSUME NEW S, NEW n, NEW tag, NEW coded, NEW unknown, NEW items,
         Grouped(S, n, tag, coded, unknown, items)
  PROVE  Separated(n, tag, coded, unknown, items)
<1> SUFFICES ASSUME n \in Nat \ {0},
         \A i, k \in 1 .. n : tag[i] = tag[k] => i = k,
         coded \in [1 .. n -> Seq(S)],
         \A i \in 1 .. n : \A j \in DOMAIN coded[i] : coded[i][j].tag = tag[i],
         unknown \in Seq(S),
         \A j \in DOMAIN unknown : \A i \in 1 .. n : unknown[j].tag # tag[i],
         items = Listed(coded, unknown)
             PROVE  /\ \A k \in 1 .. n : Sifted(items, {tag[k]}) = coded[k]
                    /\ Sifted(items, {items[i].tag : i \in DOMAIN items} \ {tag[i] : i \in 1 .. n})
                         = unknown
  BY DEF Grouped, Separated
<1> DEFINE Of(i) == {e \in S : e.tag = tag[i]}
           K == {e \in S : \E i \in 1 .. n : e.tag = tag[i]}
           U == {e \in S : \A i \in 1 .. n : e.tag # tag[i]}
           flat == FlattenSeq(coded)
<1>1. \A i \in 1 .. n : coded[i] \in Seq(Of(i)) /\ coded[i] \in Seq(K)
  <2> SUFFICES ASSUME NEW i \in 1 .. n
               PROVE  coded[i] \in Seq(Of(i)) /\ coded[i] \in Seq(K)
    OBVIOUS
  <2>1. coded[i] \in Seq(S) /\ \A j \in DOMAIN coded[i] : coded[i][j] \in S
    OBVIOUS
  <2>2. \A j \in DOMAIN coded[i] : coded[i][j] \in Of(i) /\ coded[i][j] \in K
    BY <2>1
  <2> HIDE DEF Of, K
  <2> QED
    BY <2>1, <2>2
<1>2. unknown \in Seq(U)
  <2>1. \A j \in DOMAIN unknown : unknown[j] \in U
    OBVIOUS
  <2> HIDE DEF U
  <2> QED
    BY <2>1
<1>3. PICK f \in [1 .. n -> Seq(S)] : Flattens(f, coded, n)
  BY FlattenSteps
<1>4. flat \in Seq(S) /\ flat = f[n]
  BY <1>3 DEF Flattens
<1>5. items = Cat(flat, unknown) /\ items \in Seq(S)
  <2>1. items = flat \o unknown
    BY DEF Listed
  <2> HIDE DEF flat
  <2>2. flat \o unknown \in Seq(S)
    BY <1>4, ConcatProperties
  <2> QED
    BY <2>1, <2>2 DEF Cat
<1>6. ASSUME NEW k \in 1 .. n
      PROVE  Sifted(items, {tag[k]}) = coded[k]
  <2> DEFINE Good(j) == j \in 1 .. n =>
                          Sifted(f[j], {tag[k]}) = IF k <= j THEN coded[k] ELSE <<>>
             P == {m \in Nat : Good(m + 1)}
  <2>1. \A i \in 1 .. n : Sifted(coded[i], {tag[k]}) = IF i = k THEN coded[k] ELSE <<>>
    <3> SUFFICES ASSUME NEW i \in 1 .. n
                 PROVE  Sifted(coded[i], {tag[k]}) = IF i = k THEN coded[k] ELSE <<>>
      OBVIOUS
    <3>1. coded[i] \in Seq(Of(i))
      BY <1>1
    <3>2. CASE i = k
      <4>1. \A e \in Of(i) : e.tag \in {tag[k]}
        BY <3>2
      <4> HIDE DEF Of
      <4> QED
        BY <3>1, <3>2, <4>1, SiftedAll
    <3>3. CASE i # k
      <4>1. \A e \in Of(i) : e.tag \notin {tag[k]}
        BY <3>3
      <4> HIDE DEF Of
      <4> QED
        BY <3>1, <3>3, <4>1, SiftedNone
    <3> QED
      BY <3>2, <3>3
  <2>2. 0 \in P
    <3>1. f[1] = coded[1] /\ 1 \in 1 .. n
      BY <1>3 DEF Flattens
    <3>2. Sifted(coded[1], {tag[k]}) = IF 1 = k THEN coded[k] ELSE <<>>
      BY <2>1, <3>1
    <3> QED
      BY <3>1, <3>2
  <2>3. ASSUME NEW m \in Nat, m \in P
        PROVE  m + 1 \in P
    <3> SUFFICES ASSUME NEW i, i = m + 1, NEW j, j = i + 1, j \in 1 .. n
                 PROVE  Good(j)
      <4> HIDE DEF Good
      <4>1. m + 1 \in Nat /\ \A i, j : i = m + 1 /\ j = i + 1 => Good(j)
        <5> HIDE DEF P
        <5> SUFFICES ASSUME NEW i, i = m + 1, NEW j, j = i + 1 PROVE Good(j)
          OBVIOUS
        <5> QED
          BY DEF Good
      <4> QED
        BY <4>1
    <3>1. i \in 1 .. n - 1 /\ i \in 1 .. n
      OBVIOUS
    <3>2. f[j] = Cat(f[i], coded[j])
      BY <1>3, <3>1 DEF Flattens, Cat
    <3>3. Sifted(f[j], {tag[k]}) = Cat(Sifted(f[i], {tag[k]}), Sifted(coded[j], {tag[k]}))
      <4>1. f[i] \in Seq(S) /\ coded[j] \in Seq(S)
        BY <3>1
      <4> QED
        BY <3>2, <4>1, SiftedConcat
    <3>4. Sifted(f[i], {tag[k]}) = IF k <= i THEN coded[k] ELSE <<>>
      BY <2>3, <3>1
    <3>5. Sifted(coded[j], {tag[k]}) = IF j = k THEN coded[k] ELSE <<>>
      BY <2>1
    <3>6. Cat(coded[k], <<>>) = coded[k] /\ Cat(<<>>, coded[k]) = coded[k] /\ Cat(<<>>, <<>>) = <<>>
      <4>1. coded[k] \in Seq(S) /\ <<>> \in Seq(S)
        OBVIOUS
      <4> QED
        BY <4>1, CatEmpty
    <3>7. k <= i => j # k
      OBVIOUS
    <3>8. k <= j => k <= i \/ j = k
      OBVIOUS
    <3>9. j = k => ~(k <= i) /\ k <= j
      OBVIOUS
    <3>10. k <= i => k <= j
      OBVIOUS
    <3> QED
      BY <3>3, <3>4, <3>5, <3>6, <3>7, <3>8, <3>9, <3>10, Zenon
  <2>4. Nat \subseteq P
    <3> HIDE DEF P
    <3> QED
      BY <2>2, <2>3, NatSetInduction
  <2>5. Sifted(flat, {tag[k]}) = coded[k]
    <3>1. n - 1 \in Nat /\ n - 1 + 1 = n /\ n \in 1 .. n /\ k <= n
      OBVIOUS
    <3>2. Sifted(f[n], {tag[k]}) = coded[k]
      BY <2>4, <3>1
    <3> QED
      BY <1>4, <3>2
  <2>6. Sifted(unknown, {tag[k]}) = <<>>
    <3>1. \A e \in U : e.tag \notin {tag[k]}
      OBVIOUS
    <3> HIDE DEF U
    <3> QED
      BY <1>2, <3>1, SiftedNone
  <2> HIDE DEF flat
  <2>7. Sifted(items, {tag[k]}) = Cat(coded[k], <<>>)
    <3>1. flat \in Seq(S)
      BY <1>4
    <3>2. Sifted(Cat(flat, unknown), {tag[k]}) = Cat(Sifted(flat, {tag[k]}), Sifted(unknown, {tag[k]}))
      BY <3>1, SiftedConcat
    <3> QED
      BY <1>5, <2>5, <2>6, <3>2
  <2>8. coded[k] \in Seq(S)
    OBVIOUS
  <2> QED
    BY <2>7, <2>8, CatEmpty
<1>7. Sifted(items, {items[i].tag : i \in DOMAIN items} \ {tag[i] : i \in 1 .. n}) = unknown
  <2> DEFINE tags == {items[i].tag : i \in DOMAIN items} \ {tag[i] : i \in 1 .. n}
             R == {unknown[j] : j \in DOMAIN unknown}
  <2>1. flat \in Seq(K)
    <3>1. coded \in Seq(Seq(K))
      <4> DEFINE L == Seq(K)
      <4>1. \A i \in 1 .. n : coded[i] \in L
        BY <1>1
      <4> HIDE DEF L
      <4>2. coded \in Seq(L)
        BY <4>1
      <4> QED
        BY <4>2 DEF L
    <3>2. <<>> \in Seq(K)
      OBVIOUS
    <3> HIDE DEF K
    <3> QED
      BY <3>1, <3>2, FlattenAppend
  <2>2. Sifted(flat, tags) = <<>>
    <3>1. \A e \in K : e.tag \notin tags
      OBVIOUS
    <3> HIDE DEF K, flat, tags
    <3> QED
      BY <2>1, <3>1, SiftedNone
  <2>3. Sifted(unknown, tags) = unknown
    <3>1. unknown \in Seq(R)
      OBVIOUS
    <3>2. \A e \in R : e.tag \in tags
      <4> SUFFICES ASSUME NEW j \in DOMAIN unknown
                   PROVE  unknown[j].tag \in tags
        OBVIOUS
      <4>1. \E i \in DOMAIN items : items[i] = unknown[j]
        <5> HIDE DEF flat
        <5>1. /\ Len(flat) \in Nat /\ Len(unknown) \in Nat /\ DOMAIN unknown = 1 .. Len(unknown)
          BY <1>4, LenProperties
        <5>2. /\ DOMAIN items = 1 .. Len(items) /\ Len(items) = Len(flat) + Len(unknown)
              /\ \A i \in 1 .. Len(flat) + Len(unknown) :
                   items[i] = IF i <= Len(flat) THEN flat[i] ELSE unknown[i - Len(flat)]
          <6>1. items = flat \o unknown
            BY <1>5 DEF Cat
          <6>2. /\ Len(flat \o unknown) = Len(flat) + Len(unknown)
                /\ \A i \in 1 .. Len(flat) + Len(unknown) :
                     (flat \o unknown)[i] = IF i <= Len(flat) THEN flat[i] ELSE unknown[i - Len(flat)]
            BY <1>4, ConcatProperties
          <6>3. DOMAIN items = 1 .. Len(items)
            BY <1>5
          <6> QED
            BY <6>1, <6>2, <6>3
        <5> DEFINE i == Len(flat) + j
        <5>3. i \in 1 .. Len(flat) + Len(unknown) /\ ~(i <= Len(flat)) /\ i - Len(flat) = j
          BY <5>1
        <5> HIDE DEF i
        <5>4. items[i] = unknown[j]
          BY <5>2, <5>3
        <5> QED
          BY <5>2, <5>3, <5>4
      <4>2. unknown[j].tag \in {items[i].tag : i \in DOMAIN items}
        BY <4>1
      <4> QED
        BY <4>2
    <3> HIDE DEF R, tags
    <3> QED
      BY <3>1, <3>2, SiftedAll
  <2> HIDE DEF flat, tags
  <2>4. Sifted(items, tags) = Cat(<<>>, unknown)
    BY <1>4, <1>5, <2>2, <2>3, SiftedConcat
  <2>5. Cat(<<>>, unknown) = unknown
    BY CatEmpty
  <2> QED
    BY <2>4, <2>5 DEF tags
<1> QED
  BY <1>6, <1>7

-----------------------------------------------------------------------------
(* Messages.                                                               *)

\* What is below a number is one.
LEMMA NumberBelow ==
  ASSUME NEW x \in Number, NEW y \in 0 .. x
  PROVE  y \in Number
BY SMT DEF Number

\* An item is no larger than the list it is in.
LEMMA SizeBound ==
  ASSUME NEW S, \A it \in S : ItemSize(it) \in Nat, NEW s \in Seq(S)
  PROVE  \A k \in DOMAIN s : ItemSize(s[k]) <= SizeOfAll(s) /\ SizeOfAll(s) \in Nat
<1> DEFINE T == {r \in Seq(S) : \A k \in DOMAIN r : ItemSize(r[k]) <= SizeOfAll(r)}
<1>1. <<>> \in T
  OBVIOUS
<1>2. ASSUME NEW r \in Seq(S), NEW e \in S, r \in T
      PROVE  Append(r, e) \in T
  <2>1. Append(r, e) = r \o <<e>> /\ <<e>> \in Seq(S) /\ Append(r, e) \in Seq(S)
    BY AppendIsConcat
  <2>2. SizeOfAll(r \o <<e>>) = SizeOfAll(r) + SizeOfAll(<<e>>)
    BY <2>1, SizeSteps
  <2>3. SizeOfAll(<<e>>) = ItemSize(e) /\ SizeOfAll(r) \in Nat /\ ItemSize(e) \in Nat
    BY SizeSteps
  <2> DEFINE t == Append(r, e)
  <2>4. SizeOfAll(t) = SizeOfAll(r) + ItemSize(e)
    BY <2>1, <2>2, <2>3
  <2>5. ASSUME NEW k \in DOMAIN t
        PROVE  ItemSize(t[k]) <= SizeOfAll(t)
    <3>1. CASE k \in DOMAIN r
      <4>1. t[k] = r[k]
        BY <3>1
      <4>2. ItemSize(r[k]) <= SizeOfAll(r) /\ r[k] \in S
        BY <1>2, <3>1
      <4> HIDE DEF t
      <4> QED
        BY <2>3, <2>4, <4>1, <4>2
    <3>2. CASE k \notin DOMAIN r
      <4>1. t[k] = e
        BY <3>2
      <4> HIDE DEF t
      <4> QED
        BY <2>3, <2>4, <4>1
    <3> QED
      BY <3>1, <3>2
  <2> QED
    BY <2>1, <2>5
<1>3. Seq(S) \subseteq T
  <2> HIDE DEF T
  <2> QED
    BY <1>1, <1>2, SeqSetInduction
<1>4. ASSUME NEW k \in DOMAIN s
      PROVE  SizeOfAll(s) \in Nat
  <2>1. s[k] \in S
    OBVIOUS
  <2> QED
    BY <2>1, SizeSteps
<1> QED
  BY <1>3, <1>4

\* An item that can be written when its length is a number of the model.
Weak(it) ==
  /\ ItemSize(it) \in Nat
  /\ it.size \in 0 .. ItemSize(it)
  /\ it.size \in Number => it \in Small

\* In a list that is small every item is.
LEMMA WeakList ==
  ASSUME NEW S, \A it \in S : Weak(it), NEW s \in Seq(S), SizeOfAll(s) \in Number
  PROVE  s \in Seq(Small)
<1>1. \A k \in DOMAIN s : ItemSize(s[k]) <= SizeOfAll(s) /\ SizeOfAll(s) \in Nat
  <2>1. \A it \in S : ItemSize(it) \in Nat
    BY DEF Weak
  <2> QED
    BY <2>1, SizeBound
<1>2. ASSUME NEW k \in DOMAIN s
      PROVE  s[k] \in Small
  <2>1. Weak(s[k])
    OBVIOUS
  <2>2. s[k].size \in 0 .. SizeOfAll(s)
    BY <1>1, <2>1 DEF Weak
  <2>3. s[k].size \in Number
    BY <2>2, NumberBelow
  <2> QED
    BY <2>1, <2>3 DEF Weak
<1> QED
  BY <1>2

\* The types of the generated code: names and numbers are distinct, and a field
\* that is no Option is no message.
IsFields(fields) ==
  /\ fields \in Seq(Range(fields)) /\ fields # <<>>
  /\ \A i \in DOMAIN fields :
       /\ fields[i].name # "unknown"
       /\ fields[i].num \in Nat \ {0} /\ TagOf(fields[i]) \in Number
       /\ fields[i].kind \in {"varint", "bytes", "string", "message"}
       /\ fields[i].label \in {"optional", "required", "repeated", "plain"}
       /\ fields[i].label = "plain" => fields[i].kind # "message"
  /\ \A i, j \in DOMAIN fields :
       fields[i].name = fields[j].name \/ fields[i].num = fields[j].num => i = j

\* Types that nest none, and one and two deep.
IsType0(fields) == IsFields(fields) /\ \A i \in DOMAIN fields : fields[i].kind # "message"
IsType1(fields) ==
  IsFields(fields) /\ \A i \in DOMAIN fields : fields[i].kind = "message" => IsType0(fields[i].of)
IsType2(fields) ==
  IsFields(fields) /\ \A i \in DOMAIN fields : fields[i].kind = "message" => IsType1(fields[i].of)

\* A sequence is one over any set its elements are in.
LEMMA SeqOver ==
  ASSUME NEW s, s \in Seq(Range(s)), NEW S, \A j \in DOMAIN s : s[j] \in S
  PROVE  s \in Seq(S)
BY DEF Range

\* IsSeq says what Seq says: one direction,
LEMMA SeqInRange ==
  ASSUME NEW s, IsSeq(s)
  PROVE  s \in Seq(Range(s))
<1> DEFINE n == Len(s)
<1>1. n \in Nat /\ s = [j \in 1 .. n |-> s[j]]
  BY DEF IsSeq
<1> QED
  BY <1>1 DEF Range

\* and the other.
LEMMA InRangeSeq ==
  ASSUME NEW s, s \in Seq(Range(s))
  PROVE  IsSeq(s)
<1>1. Len(s) \in Nat /\ s = [j \in 1 .. Len(s) |-> s[j]]
  <2> DEFINE S == Range(s)
  <2>1. s \in Seq(S)
    OBVIOUS
  <2> HIDE DEF S
  <2> QED
    BY <2>1
<1> QED
  BY <1>1 DEF IsSeq

\* Shaped, where a sequence is one over the set of its elements.
ShapedOver(fields, m) ==
  /\ m = [name \in Names(fields) \union {"unknown"} |-> m[name]]
  /\ \A i \in DOMAIN fields :
       /\ m[fields[i].name] \in Seq(Range(m[fields[i].name]))
       /\ fields[i].label # "repeated" => Len(m[fields[i].name]) <= 1
       /\ fields[i].label = "plain"    => m[fields[i].name] # << >>
  /\ m["unknown"] \in Seq(Range(m["unknown"]))
  /\ \A j \in DOMAIN m["unknown"] :
       IsItem(m["unknown"][j]) /\ m["unknown"][j].tag \notin Tags(fields)

\* Shaped says that.
LEMMA ShapedIsOver ==
  ASSUME NEW fields, NEW m
  PROVE  Shaped(fields, m) <=> ShapedOver(fields, m)
<1>1. ASSUME Shaped(fields, m)
      PROVE  ShapedOver(fields, m)
  <2>1. m["unknown"] \in Seq(Range(m["unknown"]))
    <3>1. IsSeq(m["unknown"])
      BY <1>1 DEF Shaped
    <3> QED
      BY <3>1, SeqInRange, Zenon
  <2>2. ASSUME NEW i \in DOMAIN fields
        PROVE  m[fields[i].name] \in Seq(Range(m[fields[i].name]))
    <3>1. IsSeq(m[fields[i].name])
      BY <1>1 DEF Shaped
    <3> QED
      BY <3>1, SeqInRange, Zenon
  <2> QED
    BY <1>1, <2>1, <2>2, Zenon DEF Shaped, ShapedOver
<1>2. ASSUME ShapedOver(fields, m)
      PROVE  Shaped(fields, m)
  <2>1. IsSeq(m["unknown"])
    <3>1. m["unknown"] \in Seq(Range(m["unknown"]))
      BY <1>2, Zenon DEF ShapedOver
    <3> QED
      BY <3>1, InRangeSeq, Zenon
  <2>2. ASSUME NEW i \in DOMAIN fields
        PROVE  IsSeq(m[fields[i].name])
    <3>1. m[fields[i].name] \in Seq(Range(m[fields[i].name]))
      BY <1>2, Zenon DEF ShapedOver
    <3> QED
      BY <3>1, InRangeSeq, Zenon
  <2> QED
    BY <1>2, <2>1, <2>2, Zenon DEF Shaped, ShapedOver
<1> QED
  BY <1>1, <1>2

\* A sequence is one over its range.
LEMMA SeqIsOver ==
  ASSUME NEW S, NEW s \in Seq(S)
  PROVE  s \in Seq(Range(s)) /\ \A j \in DOMAIN s : s[j] \in S
BY DEF Range

\* Fields have different tags, which are no groups' and no fixed numbers'.
LEMMA TagFacts ==
  ASSUME NEW fields, IsFields(fields)
  PROVE  /\ \E n \in Nat \ {0} : DOMAIN fields = 1 .. n
         /\ \A i, k \in DOMAIN fields : TagOf(fields[i]) = TagOf(fields[k]) => i = k
         /\ \A i \in DOMAIN fields :
               /\ TagOf(fields[i]) \in Number /\ TagOf(fields[i]) >= 8
               /\ TagOf(fields[i]) % 8 = WireType(fields[i]) /\ WireType(fields[i]) \in {0, 2}
<1>1. \E n \in Nat \ {0} : DOMAIN fields = 1 .. n
  <2>1. fields \in Seq(Range(fields)) /\ fields # <<>>
    BY DEF IsFields
  <2>2. Len(fields) \in Nat /\ DOMAIN fields = 1 .. Len(fields) /\ Len(fields) # 0
    BY <2>1, EmptySeq
  <2> QED
    BY <2>2
<1>2. \A i \in DOMAIN fields : WireType(fields[i]) \in {0, 2} /\ fields[i].num \in Nat \ {0}
                               /\ TagOf(fields[i]) = 8 * fields[i].num + WireType(fields[i])
                               /\ TagOf(fields[i]) \in Number
  BY DEF IsFields, WireType, TagOf
<1>3. ASSUME NEW i \in DOMAIN fields, NEW k \in DOMAIN fields, TagOf(fields[i]) = TagOf(fields[k])
      PROVE  i = k
  <2>1. fields[i].num = fields[k].num
    BY <1>2, <1>3
  <2> QED
    BY <2>1 DEF IsFields
<1>4. ASSUME NEW i \in DOMAIN fields
      PROVE  TagOf(fields[i]) >= 8 /\ TagOf(fields[i]) % 8 = WireType(fields[i])
  <2> DEFINE num == fields[i].num
             wt == WireType(fields[i])
             tag == TagOf(fields[i])
  <2>1. num \in Nat /\ num >= 1 /\ wt \in {0, 2} /\ tag = 8 * num + wt
    BY <1>2
  <2> HIDE DEF num, wt, tag
  <2>2. tag >= 8 /\ tag % 8 = wt
    BY <2>1
  <2> QED
    BY <2>2 DEF wt, tag
<1> QED
  BY <1>1, <1>2, <1>3, <1>4

\* What is written of a field are its values, or the values are the default.
LEMMA WrittenFacts ==
  ASSUME NEW fields, IsFields(fields), NEW m, Shaped(fields, m), NEW i \in DOMAIN fields
  PROVE  /\ Written(fields[i], m) \in Seq(Range(m[fields[i].name]))
         /\ \A j \in DOMAIN Written(fields[i], m) :
               /\ j \in DOMAIN m[fields[i].name]
               /\ Written(fields[i], m)[j] = m[fields[i].name][j]
<1> DEFINE values == m[fields[i].name]
<1>1. values \in Seq(Range(values))
  BY ShapedIsOver DEF ShapedOver
<1>2. Written(fields[i], m) = <<>> \/ Written(fields[i], m) = values
  BY DEF Written
<1>3. <<>> \in Seq(Range(values)) /\ DOMAIN <<>> = {}
  OBVIOUS
<1> HIDE DEF values
<1>4. CASE Written(fields[i], m) = <<>>
  BY <1>3, <1>4 DEF values
<1>5. CASE Written(fields[i], m) = values
  BY <1>1, <1>5 DEF values
<1> QED
  BY <1>2, <1>4, <1>5

\* An unknown field is an item of which the size may be large.
LEMMA WeakUnknown ==
  ASSUME NEW it, IsItem(it)
  PROVE  Weak(it)
<1>1. PICK tag, value, size : it = [tag |-> tag, value |-> value, size |-> size]
  BY DEF IsItem
<1>2. tag \in Number /\ it.tag = tag /\ it.size = size /\ it.value = value
  BY <1>1 DEF IsItem
<1>3. /\ tag % 8 = 0 => value \in Number /\ size = 0
      /\ tag % 8 # 0 => value \in Seq(Byte) /\ size = Len(value)
  BY <1>2 DEF IsItem
<1>4. size \in Nat
  <2>1. value \in Seq(Byte) => Len(value) \in Nat
    OBVIOUS
  <2> QED
    BY <1>3, <2>1
<1>5. it \in ItemSet
  <2>1. it \in [tag : Number, value : Number \cup Seq(Byte), size : Nat]
    BY <1>1, <1>2, <1>3, <1>4
  <2> QED
    BY <2>1 DEF ItemSet
<1>6. it.size \in Number => it \in Small
  BY <1>5 DEF Small
<1>7. ItemSize(it) \in Nat /\ size \in 0 .. ItemSize(it)
  <2>1. ItemSize(it) = VarintSize(tag) + IF tag % 8 = 0 THEN VarintSize(value)
                         ELSE IF tag % 8 = 2 THEN VarintSize(size) + size ELSE size
    BY <1>2 DEF ItemSize
  <2>2. VarintSize(tag) \in Nat /\ VarintSize(value) \in Nat /\ VarintSize(size) \in Nat
    BY DEF VarintSize
  <2> QED
    BY <1>3, <1>4, <2>1, <2>2
<1> QED
  BY <1>2, <1>6, <1>7 DEF Weak

\* A list of a message's items, and how it is read.
Codes(fields, m, coded, items) ==
  /\ coded = [i \in DOMAIN fields |-> coded[i]]
  /\ \A i \in DOMAIN fields : coded[i] \in Seq(Range(coded[i]))
  /\ \A i \in DOMAIN fields : \A j \in DOMAIN coded[i] :
        Weak(coded[i][j]) /\ coded[i][j].tag = TagOf(fields[i])
  /\ items = Listed(coded, m["unknown"])

\* The items of a message are read where they were written, and told apart.
IsRead(fields, m, coded, items) ==
  /\ SizeOfAll(items) \in Nat
  /\ \A i \in DOMAIN fields : OfField(items, fields[i]) = coded[i]
  /\ Sifted(items, {items[i].tag : i \in DOMAIN items} \ Tags(fields)) = m["unknown"]
  /\ SizeOfAll(items) \in Number =>
        /\ \A i \in DOMAIN fields : \A j \in DOMAIN coded[i] : coded[i][j].size \in Number
        /\ WriteAll(items) \in Bytes /\ Len(WriteAll(items)) = SizeOfAll(items)
        /\ ReadItems(WriteAll(items)) = {items}

\* So they are, whatever the coding of the values.
LEMMA MessageCore ==
  ASSUME NEW fields, IsFields(fields), NEW m, Shaped(fields, m), NEW coded, NEW items,
         Codes(fields, m, coded, items)
  PROVE  IsRead(fields, m, coded, items)
<1> SUFFICES ASSUME coded = [i \in DOMAIN fields |-> coded[i]],
                    \A i \in DOMAIN fields : coded[i] \in Seq(Range(coded[i])),
                    \A i \in DOMAIN fields : \A j \in DOMAIN coded[i] :
                       Weak(coded[i][j]) /\ coded[i][j].tag = TagOf(fields[i]),
                    items = Listed(coded, m["unknown"])
             PROVE  IsRead(fields, m, coded, items)
  BY DEF Codes
<1> DEFINE unknown == m["unknown"]
           K == UNION {Range(coded[i]) : i \in DOMAIN fields}
           R == Range(unknown)
           S == {it \in K \cup R : Weak(it)}
<1>1. PICK n \in Nat \ {0} : DOMAIN fields = 1 .. n
  BY TagFacts
<1> DEFINE tag == [i \in 1 .. n |-> TagOf(fields[i])]
<1>2. \A i, k \in 1 .. n : tag[i] = tag[k] => i = k
  BY <1>1, TagFacts
<1>3. unknown \in Seq(Range(unknown)) /\ \A j \in DOMAIN unknown :
         IsItem(unknown[j]) /\ unknown[j].tag \notin Tags(fields)
  BY ShapedIsOver DEF ShapedOver
<1>4. \A j \in DOMAIN unknown : Weak(unknown[j])
  <2> TAKE j \in DOMAIN unknown
  <2> DEFINE it == unknown[j]
  <2>1. IsItem(it)
    BY <1>3
  <2> HIDE DEF it
  <2> QED
    BY <2>1, WeakUnknown DEF it
<1>5. unknown \in Seq(S)
  <2>1. \A j \in DOMAIN unknown : unknown[j] \in S
    <3>1. \A j \in DOMAIN unknown : unknown[j] \in R
      BY DEF Range
    <3> HIDE DEF K, R, unknown
    <3> QED
      BY <1>4, <3>1
  <2> HIDE DEF S, unknown
  <2> QED
    BY <1>3, <2>1, SeqOver
<1>6. coded \in [1 .. n -> Seq(S)]
  <2>1. \A i \in 1 .. n : coded[i] \in Seq(S)
    <3> TAKE i \in 1 .. n
    <3>1. \A j \in DOMAIN coded[i] : coded[i][j] \in S
      <4>1. \A j \in DOMAIN coded[i] : coded[i][j] \in Range(coded[i])
        BY DEF Range
      <4>2. Range(coded[i]) \subseteq K
        BY <1>1
      <4>3. \A j \in DOMAIN coded[i] : Weak(coded[i][j])
        BY <1>1
      <4> HIDE DEF K, R
      <4> QED
        BY <4>1, <4>2, <4>3
    <3> HIDE DEF S
    <3> QED
      BY <1>1, <3>1, SeqOver
  <2> HIDE DEF S
  <2> QED
    BY <1>1, <2>1
<1>7. \A i \in 1 .. n : \A j \in DOMAIN coded[i] : coded[i][j].tag = tag[i]
  BY <1>1
<1>8. \A j \in DOMAIN unknown : \A i \in 1 .. n : unknown[j].tag # tag[i]
  BY <1>1, <1>3 DEF Tags
<1>9. \A it \in S : Weak(it)
  OBVIOUS
<1>10. Tags(fields) = {tag[i] : i \in 1 .. n}
  BY <1>1 DEF Tags
<1> HIDE DEF S, unknown, tag
<1>11. items = Listed(coded, unknown)
  BY DEF unknown
<1>12. /\ \A k \in 1 .. n : Sifted(items, {tag[k]}) = coded[k]
       /\ Sifted(items, {items[i].tag : i \in DOMAIN items} \ {tag[i] : i \in 1 .. n}) = unknown
  <2>1. Grouped(S, n, tag, coded, unknown, items)
    BY <1>2, <1>5, <1>6, <1>7, <1>8, <1>11 DEF Grouped
  <2>2. Separated(n, tag, coded, unknown, items)
    BY <2>1, Regrouped
  <2> QED
    BY <2>2 DEF Separated
<1>13. /\ \A i \in DOMAIN fields : OfField(items, fields[i]) = coded[i]
       /\ Sifted(items, {items[i].tag : i \in DOMAIN items} \ Tags(fields)) = m["unknown"]
  <2>1. \A i \in DOMAIN fields : tag[i] = TagOf(fields[i])
    BY <1>1 DEF tag
  <2> QED
    BY <1>1, <1>10, <1>12, <2>1 DEF OfField, unknown
<1>14. items \in Seq(S)
  <2>1. coded \in Seq(Seq(S))
    <3> DEFINE L == Seq(S)
    <3>1. coded \in [1 .. n -> L]
      BY <1>6
    <3> HIDE DEF L
    <3>2. coded \in Seq(L)
      BY <3>1
    <3> QED
      BY <3>2 DEF L
  <2>2. FlattenSeq(coded) \in Seq(S)
    <3>1. <<>> \in Seq(S)
      OBVIOUS
    <3> QED
      BY <2>1, <3>1, FlattenAppend
  <2> QED
    BY <1>5, <1>11, <2>2, ConcatProperties, ZenonT(30) DEF Listed
<1>0. \A it \in S : ItemSize(it) \in Nat
  BY <1>9 DEF Weak
<1>15. SizeOfAll(items) \in Nat
  <2>1. CASE items = <<>>
    BY <2>1, AllWritten, EmptySeq
  <2>2. CASE items # <<>>
    <3>1. Len(items) \in Nat /\ Len(items) # 0 /\ DOMAIN items = 1 .. Len(items)
      BY <1>14, <2>2, EmptySeq, LenProperties
    <3>2. 1 \in DOMAIN items
      BY <3>1
    <3> QED
      BY <1>0, <1>14, <3>2, SizeBound
  <2> QED
    BY <2>1, <2>2
<1>16. ASSUME SizeOfAll(items) \in Number
       PROVE  /\ WriteAll(items) \in Bytes /\ Len(WriteAll(items)) = SizeOfAll(items)
              /\ ReadItems(WriteAll(items)) = {items}
  <2>1. items \in Seq(Small)
    BY <1>9, <1>14, <1>16, WeakList
  <2> QED
    BY <2>1, AllWritten, ItemsRead
<1>17. ASSUME SizeOfAll(items) \in Number, NEW i \in DOMAIN fields, NEW j \in DOMAIN coded[i]
       PROVE  coded[i][j].size \in Number
  <2>1. items \in Seq(Small)
    BY <1>9, <1>14, <1>17, WeakList
  <2>2. Sifted(items, {TagOf(fields[i])}) \in Seq(Small)
    BY <2>1, SiftedConcat
  <2>3. coded[i] \in Seq(Small)
    BY <1>13, <1>17, <2>2 DEF OfField
  <2>4. coded[i][j] \in Small
    BY <1>17, <2>3
  <2> QED
    BY <2>4 DEF Small
<1> QED
  BY <1>13, <1>15, <1>16, <1>17 DEF IsRead

\* The last of at most one.
LEMMA LastOfOne ==
  ASSUME NEW S, NEW x \in Seq(S), Len(x) <= 1, x # <<>>
  PROVE  x = <<Last(x)>>
<1>1. Len(x) \in Nat /\ Len(x) # 0
  BY EmptySeq
<1>2. Len(x) = 1
  BY <1>1
<1>3. x = <<x[1]>>
  BY <1>2
<1> QED
  BY <1>2, <1>3 DEF Last

\* A field is found by its name.
LEMMA FieldByName ==
  ASSUME NEW fields, IsFields(fields)
  PROVE  \A i \in DOMAIN fields : FieldNamed(fields, fields[i].name) = fields[i]
<1> TAKE i \in DOMAIN fields
<1> DEFINE k == CHOOSE k \in DOMAIN fields : fields[k].name = fields[i].name
<1>1. k \in DOMAIN fields /\ fields[k].name = fields[i].name
  OBVIOUS
<1>2. k = i
  <2> HIDE DEF k
  <2> QED
    BY <1>1 DEF IsFields
<1>3. FieldNamed(fields, fields[i].name) = fields[k]
  BY DEF FieldNamed
<1> QED
  BY <1>2, <1>3

\* What is merged is the message, when its fields have the values written and
\* the items it does not know are those it was written with.
LEMMA MergedBack ==
  ASSUME NEW fields, IsFields(fields), NEW m, Shaped(fields, m), NEW items,
         Sifted(items, {items[i].tag : i \in DOMAIN items} \ Tags(fields)) = m["unknown"],
         NEW values, \A i \in DOMAIN fields : values[fields[i].name] = Written(fields[i], m)
  PROVE  Merged(fields, items, values) = m
<1> DEFINE names == Names(fields) \union {"unknown"}
           unknown == Sifted(items, {items[i].tag : i \in DOMAIN items} \ Tags(fields))
           Got(name) == IF name = "unknown" THEN unknown
                        ELSE IF values[name] = <<>> THEN New(fields)[name]
                        ELSE IF FieldNamed(fields, name).label = "repeated" THEN values[name]
                        ELSE <<Last(values[name])>>
<1>1. Merged(fields, items, values) = [name \in names |-> Got(name)]
  BY DEF Merged
<1>2. m = [name \in names |-> m[name]]
  BY DEF Shaped
<1>3. ASSUME NEW i \in DOMAIN fields
      PROVE  Got(fields[i].name) = m[fields[i].name]
  <2> DEFINE f == fields[i]
             v == m[f.name]
             w == values[f.name]
  <2>1. /\ f.name # "unknown" /\ FieldNamed(fields, f.name) = f
        /\ f.name \in Names(fields)
    BY FieldByName DEF IsFields, Names
  <2>2. v \in Seq(Range(v)) /\ (f.label # "repeated" => Len(v) <= 1) /\ (f.label = "plain" => v # <<>>)
    BY ShapedIsOver DEF ShapedOver
  <2>3. w = Written(f, m)
    OBVIOUS
  <2>4. New(fields)[f.name] = IF f.label = "plain" THEN <<Default(f)>> ELSE <<>>
    BY <2>1 DEF New
  <2>5. Got(f.name) = IF w = <<>> THEN New(fields)[f.name]
                      ELSE IF f.label = "repeated" THEN w ELSE <<Last(w)>>
    BY <2>1
  <2>6. v # <<>> /\ f.label # "repeated" => v = <<Last(v)>>
    BY <2>2, LastOfOne
  <2>7. w = IF f.label = "plain" /\ v = <<Default(f)>> THEN <<>> ELSE v
    BY <2>3 DEF Written
  <2> HIDE DEF f, v, w, Got
  <2>8. Got(f.name) = v
    <3>1. CASE f.label = "plain" /\ v = <<Default(f)>>
      BY <2>4, <2>5, <2>7, <3>1
    <3>2. CASE ~(f.label = "plain" /\ v = <<Default(f)>>)
      <4>1. w = v
        BY <2>7, <3>2
      <4>2. CASE v = <<>>
        BY <2>2, <2>4, <2>5, <4>1, <4>2
      <4>3. CASE v # <<>>
        BY <2>5, <2>6, <4>1, <4>3
      <4> QED
        BY <4>2, <4>3
    <3> QED
      BY <3>1, <3>2
  <2> QED
    BY <2>8 DEF f, v
<1>4. Got("unknown") = m["unknown"]
  OBVIOUS
<1> HIDE DEF Got
<1>5. \A name \in names : Got(name) = m[name]
  BY <1>3, <1>4 DEF Names
<1> QED
  BY <1>1, <1>2, <1>5

\* A field that is no message.
LEMMA LeafItem ==
  ASSUME NEW f, f.kind \in {"varint", "bytes", "string"},
         TagOf(f) \in Number, TagOf(f) >= 8, TagOf(f) % 8 = WireType(f),
         NEW v, Is0(f, v), NEW it, it = Coded0(f, v)
  PROVE  /\ Weak(it) /\ it.tag = TagOf(f)
         /\ it.value = v /\ Read0(f, v) = {v}
<1> DEFINE size == IF f.kind = "varint" THEN 0 ELSE Len(v)
<1>1. it = [tag |-> TagOf(f), value |-> v, size |-> size]
  BY DEF Coded0
<1>2. Read0(f, v) = {v}
  BY DEF Read0, Is0
<1>3. CASE f.kind = "varint"
  <2>1. v \in Number /\ TagOf(f) % 8 = 0
    BY <1>3 DEF Is0, WireType
  <2>2. IsItem(it)
    BY <1>1, <1>3, <2>1 DEF IsItem
  <2>3. Weak(it)
    BY <2>2, WeakUnknown
  <2>4. it.tag = TagOf(f) /\ it.value = v
    BY <1>1
  <2> QED
    BY <1>2, <2>3, <2>4
<1>4. CASE f.kind # "varint"
  <2>1. v \in Seq(Byte) /\ TagOf(f) % 8 = 2
    BY <1>4 DEF Is0, WireType
  <2>2. IsItem(it)
    BY <1>1, <1>4, <2>1 DEF IsItem
  <2>3. Weak(it)
    BY <2>2, WeakUnknown
  <2>4. it.tag = TagOf(f) /\ it.value = v
    BY <1>1
  <2> QED
    BY <1>2, <2>3, <2>4
<1> QED
  BY <1>3, <1>4

\* A field that is a message, of which the items are given.
LEMMA NestedItem ==
  ASSUME NEW f, f.kind = "message",
         TagOf(f) \in Number, TagOf(f) >= 8, TagOf(f) % 8 = WireType(f),
         NEW items, SizeOfAll(items) \in Nat, NEW it, it = Message(f, items),
         SizeOfAll(items) \in Number =>
            WriteAll(items) \in Bytes /\ Len(WriteAll(items)) = SizeOfAll(items)
  PROVE  /\ Weak(it) /\ it.tag = TagOf(f)
         /\ it.value = WriteAll(items) /\ it.size = SizeOfAll(items)
<1> DEFINE tag == TagOf(f)
           value == WriteAll(items)
           size == SizeOfAll(items)
<1>1. it = [tag |-> tag, value |-> value, size |-> size]
  BY DEF Message
<1>2. tag % 8 = 2 /\ tag \in Number /\ tag >= 8
  BY DEF WireType
<1>3. size \in Nat
  OBVIOUS
<1>4. size \in Number => value \in Seq(Byte) /\ Len(value) = size
  BY DEF Bytes
<1> HIDE DEF tag, value, size
<1>5. it.tag = tag /\ it.value = value /\ it.size = size
  BY <1>1
<1>6. ItemSize(it) \in Nat /\ size \in 0 .. ItemSize(it)
  <2>1. ItemSize(it) = VarintSize(tag) + (VarintSize(size) + size)
    <3>1. tag % 8 # 0
      BY <1>2
    <3> QED
      BY <1>2, <1>5, <3>1, Zenon DEF ItemSize
  <2>2. VarintSize(tag) \in Nat /\ VarintSize(size) \in Nat
    BY DEF VarintSize
  <2> QED
    BY <1>3, <2>1, <2>2
<1>7. ASSUME size \in Number
      PROVE  it \in Small
  <2>1. IsItem(it)
    BY <1>1, <1>2, <1>4, <1>5, <1>7 DEF IsItem
  <2>2. Weak(it)
    BY <2>1, WeakUnknown
  <2> QED
    BY <1>5, <1>7, <2>2 DEF Weak
<1>8. Weak(it)
  BY <1>5, <1>6, <1>7 DEF Weak
<1> QED
  BY <1>5, <1>8 DEF tag, value, size

\* A function on 1 .. n is a sequence.
LEMMA MadeSeq ==
  ASSUME NEW n \in Nat, NEW s, s = [j \in 1 .. n |-> s[j]]
  PROVE  s \in Seq(Range(s))
<1> DEFINE S == {s[j] : j \in DOMAIN s}
<1>1. DOMAIN s = 1 .. n
  OBVIOUS
<1>2. \A j \in 1 .. n : s[j] \in S
  BY <1>1
<1> HIDE DEF S
<1>3. s \in Seq(S)
  BY <1>2
<1> QED
  BY <1>3 DEF S, Range

\* Messages of types that nest none.
LEMMA Message0 ==
  ASSUME NEW fields, IsType0(fields), NEW m, IsMessage(Is0, fields, m),
         NEW items, items = Items(Coded0, fields, m)
  PROVE  /\ SizeOfAll(items) \in Nat
         /\ SizeOfAll(items) \in Number =>
               /\ WriteAll(items) \in Bytes /\ Len(WriteAll(items)) = SizeOfAll(items)
               /\ Merge(Read0, fields, WriteAll(items)) = {m}
<1> DEFINE W(i) == Written(fields[i], m)
           coded == [i \in DOMAIN fields |-> [j \in DOMAIN W(i) |-> Coded0(fields[i], W(i)[j])]]
<1>1. IsFields(fields) /\ Shaped(fields, m)
  BY DEF IsType0, IsMessage
<1>2. items = Listed(coded, m["unknown"])
  BY DEF Items
<1>3. ASSUME NEW i \in DOMAIN fields
      PROVE  /\ W(i) \in Seq(Range(m[fields[i].name]))
             /\ \A j \in DOMAIN W(i) : Is0(fields[i], W(i)[j])
  <2>1. \A j \in DOMAIN m[fields[i].name] : Is0(fields[i], m[fields[i].name][j])
    BY DEF IsMessage
  <2> HIDE DEF W
  <2>2. W(i) = Written(fields[i], m)
    BY DEF W
  <2> QED
    BY <1>1, <2>1, <2>2, WrittenFacts
<1> HIDE DEF W
<1>4. ASSUME NEW i \in DOMAIN fields, NEW j \in DOMAIN W(i), NEW it, it = Coded0(fields[i], W(i)[j])
      PROVE  /\ Weak(it) /\ it.tag = TagOf(fields[i])
             /\ it.size \in Number => Read0(fields[i], it.value) = {W(i)[j]}
  <2>1. /\ TagOf(fields[i]) \in Number /\ TagOf(fields[i]) >= 8
        /\ TagOf(fields[i]) % 8 = WireType(fields[i])
    BY <1>1, TagFacts
  <2>2. fields[i].kind \in {"varint", "bytes", "string", "message"}
    BY <1>1 DEF IsFields
  <2>3. fields[i].kind # "message" /\ Is0(fields[i], W(i)[j])
    BY <1>3 DEF IsType0
  <2>4. fields[i].kind \in {"varint", "bytes", "string"}
    BY <2>2, <2>3
  <2> DEFINE f == fields[i]
             v == W(i)[j]
  <2> HIDE DEF f, v
  <2>5. Weak(it) /\ it.tag = TagOf(f) /\ it.value = v /\ Read0(f, v) = {v}
    BY <1>4, <2>1, <2>3, <2>4, LeafItem DEF f, v
  <2> QED
    BY <2>5 DEF f, v
<1>5. \A i \in DOMAIN fields :
         /\ coded[i] = [j \in DOMAIN W(i) |-> Coded0(fields[i], W(i)[j])]
         /\ DOMAIN coded[i] = DOMAIN W(i)
         /\ \A j \in DOMAIN W(i) : coded[i][j] = Coded0(fields[i], W(i)[j])
  OBVIOUS
<1>6. coded = [i \in DOMAIN fields |-> coded[i]]
  OBVIOUS
<1> HIDE DEF coded
<1>7. \A i \in DOMAIN fields : coded[i] \in Seq(Range(coded[i]))
  <2> TAKE i \in DOMAIN fields
  <2>1. W(i) \in Seq(Range(m[fields[i].name]))
    BY <1>3
  <2> DEFINE n == Len(W(i))
  <2>2. DOMAIN W(i) = 1 .. n /\ n \in Nat
    BY <2>1, LenProperties
  <2>3. coded[i] = [j \in 1 .. n |-> Coded0(fields[i], W(i)[j])]
    BY <1>5, <2>2
  <2> HIDE DEF n
  <2> QED
    BY <2>2, <2>3, MadeSeq
<1>8. \A i \in DOMAIN fields : \A j \in DOMAIN coded[i] :
         Weak(coded[i][j]) /\ coded[i][j].tag = TagOf(fields[i])
  <2> TAKE i \in DOMAIN fields
  <2> TAKE j \in DOMAIN coded[i]
  <2>1. j \in DOMAIN W(i) /\ coded[i][j] = Coded0(fields[i], W(i)[j])
    BY <1>5
  <2> QED
    BY <1>4, <2>1
<1>9. IsRead(fields, m, coded, items)
  <2>1. Codes(fields, m, coded, items)
    BY <1>2, <1>6, <1>7, <1>8 DEF Codes
  <2> QED
    BY <1>1, <2>1, MessageCore
<1>10. ASSUME SizeOfAll(items) \in Number
       PROVE  Merge(Read0, fields, WriteAll(items)) = {m}
  <2>1. ASSUME NEW i \in DOMAIN fields
        PROVE  /\ OfField(items, fields[i]) = coded[i]
               /\ DOMAIN OfField(items, fields[i]) = DOMAIN W(i)
               /\ \A j \in DOMAIN W(i) :
                     Read0(fields[i], OfField(items, fields[i])[j].value) = {W(i)[j]}
    <3>1. OfField(items, fields[i]) = coded[i] /\ DOMAIN coded[i] = DOMAIN W(i)
      BY <1>5, <1>9 DEF IsRead
    <3>2. ASSUME NEW j \in DOMAIN W(i)
          PROVE  Read0(fields[i], coded[i][j].value) = {W(i)[j]}
      <4>1. coded[i][j] = Coded0(fields[i], W(i)[j]) /\ coded[i][j].size \in Number
        BY <1>5, <1>9, <1>10 DEF IsRead
      <4> QED
        BY <1>4, <4>1
    <3> QED
      BY <3>1, <3>2
  <2> DEFINE Readable(is) == \A i \in DOMAIN fields :
                                \A j \in DOMAIN OfField(is, fields[i]) :
                                   Read0(fields[i], OfField(is, fields[i])[j].value) # {}
             Of(is, f) == [j \in DOMAIN OfField(is, f) |->
                              CHOOSE v \in Read0(f, OfField(is, f)[j].value) : TRUE]
             Values(is) == [name \in Names(fields) |-> Of(is, FieldNamed(fields, name))]
  <2>2. Merge(Read0, fields, WriteAll(items)) =
          {Merged(fields, is, Values(is)) : is \in {is \in ReadItems(WriteAll(items)) : Readable(is)}}
    BY Zenon DEF Merge
  <2>3. Readable(items)
    BY <2>1
  <2>4. \A i \in DOMAIN fields : Values(items)[fields[i].name] = Written(fields[i], m)
    <3> TAKE i \in DOMAIN fields
    <3>1. Values(items)[fields[i].name] = Of(items, fields[i])
      <4>1. FieldNamed(fields, fields[i].name) = fields[i] /\ fields[i].name \in Names(fields)
        BY <1>1, FieldByName DEF Names
      <4> HIDE DEF Of
      <4> QED
        BY <4>1
    <3>2. Of(items, fields[i]) = [j \in DOMAIN W(i) |-> W(i)[j]]
      BY <2>1
    <3>3. [j \in DOMAIN W(i) |-> W(i)[j]] = W(i)
      BY <1>3
    <3> HIDE DEF Values, Of
    <3> QED
      BY <3>1, <3>2, <3>3 DEF W
  <2> HIDE DEF Readable, Values
  <2>5. Merged(fields, items, Values(items)) = m
    BY <1>1, <1>9, <2>4, MergedBack DEF IsRead
  <2>6. ReadItems(WriteAll(items)) = {items}
    BY <1>9, <1>10 DEF IsRead
  <2> QED
    BY <2>6, <2>2, <2>3, <2>5
<1> QED
  BY <1>9, <1>10 DEF IsRead

\* Messages of types that nest one level deep.
LEMMA Message1 ==
  ASSUME NEW fields, IsType1(fields), NEW m, IsMessage(Is1, fields, m),
         NEW items, items = Items(Coded1, fields, m)
  PROVE  /\ SizeOfAll(items) \in Nat
         /\ SizeOfAll(items) \in Number =>
               /\ WriteAll(items) \in Bytes /\ Len(WriteAll(items)) = SizeOfAll(items)
               /\ Merge(Read1, fields, WriteAll(items)) = {m}
<1> DEFINE W(i) == Written(fields[i], m)
           coded == [i \in DOMAIN fields |-> [j \in DOMAIN W(i) |-> Coded1(fields[i], W(i)[j])]]
<1>1. IsFields(fields) /\ Shaped(fields, m)
  BY DEF IsType1, IsMessage
<1>2. items = Listed(coded, m["unknown"])
  BY DEF Items
<1>3. ASSUME NEW i \in DOMAIN fields
      PROVE  /\ W(i) \in Seq(Range(m[fields[i].name]))
             /\ \A j \in DOMAIN W(i) : Is1(fields[i], W(i)[j])
  <2>1. \A j \in DOMAIN m[fields[i].name] : Is1(fields[i], m[fields[i].name][j])
    BY DEF IsMessage
  <2> HIDE DEF W
  <2>2. W(i) = Written(fields[i], m)
    BY DEF W
  <2> QED
    BY <1>1, <2>1, <2>2, WrittenFacts
<1> HIDE DEF W
<1>4. ASSUME NEW i \in DOMAIN fields, NEW j \in DOMAIN W(i), NEW it, it = Coded1(fields[i], W(i)[j])
      PROVE  /\ Weak(it) /\ it.tag = TagOf(fields[i])
             /\ it.size \in Number => Read1(fields[i], it.value) = {W(i)[j]}
  <2>1. /\ TagOf(fields[i]) \in Number /\ TagOf(fields[i]) >= 8
        /\ TagOf(fields[i]) % 8 = WireType(fields[i])
    BY <1>1, TagFacts
  <2>2. fields[i].kind \in {"varint", "bytes", "string", "message"}
    BY <1>1 DEF IsFields
  <2>3. Is1(fields[i], W(i)[j])
    BY <1>3
  <2>4. CASE fields[i].kind # "message"
    <3>1. Is0(fields[i], W(i)[j])
      BY <2>3, <2>4 DEF Is1
    <3>2. it = Coded0(fields[i], W(i)[j])
      BY <1>4, <2>4 DEF Coded1
    <3>3. Read1(fields[i], it.value) = Read0(fields[i], it.value)
      BY <2>4 DEF Read1
    <3>4. fields[i].kind \in {"varint", "bytes", "string"}
      BY <2>2, <2>4
    <3>5. Weak(it) /\ it.tag = TagOf(fields[i]) /\ it.value = W(i)[j]
          /\ Read0(fields[i], W(i)[j]) = {W(i)[j]}
      BY <2>1, <3>1, <3>2, <3>4, LeafItem
    <3> QED
      BY <3>3, <3>5
  <2>5. CASE fields[i].kind = "message"
    <3> DEFINE f == fields[i]
               v == W(i)[j]
               nested == Items(Coded0, f.of, v)
    <3>1. IsType0(f.of)
      BY <2>5 DEF IsType1
    <3>2. IsMessage(Is0, f.of, v)
      BY <2>3, <2>5 DEF Is1
    <3>3. it = Message(f, nested)
      BY <1>4, <2>5 DEF Coded1
    <3>4. \A b : Read1(f, b) = Merge(Read0, f.of, b)
      BY <2>5 DEF Read1
    <3>5. /\ SizeOfAll(nested) \in Nat
          /\ SizeOfAll(nested) \in Number =>
               /\ WriteAll(nested) \in Bytes /\ Len(WriteAll(nested)) = SizeOfAll(nested)
               /\ Merge(Read0, f.of, WriteAll(nested)) = {v}
      BY <3>1, <3>2, Message0
    <3> HIDE DEF nested
    <3>6. Weak(it) /\ it.tag = TagOf(f) /\ it.value = WriteAll(nested) /\ it.size = SizeOfAll(nested)
      BY <2>1, <2>5, <3>3, <3>5, NestedItem
    <3> QED
      BY <3>4, <3>5, <3>6
  <2> QED
    BY <2>4, <2>5
<1>5. \A i \in DOMAIN fields :
         /\ coded[i] = [j \in DOMAIN W(i) |-> Coded1(fields[i], W(i)[j])]
         /\ DOMAIN coded[i] = DOMAIN W(i)
         /\ \A j \in DOMAIN W(i) : coded[i][j] = Coded1(fields[i], W(i)[j])
  OBVIOUS
<1>6. coded = [i \in DOMAIN fields |-> coded[i]]
  OBVIOUS
<1> HIDE DEF coded
<1>7. \A i \in DOMAIN fields : coded[i] \in Seq(Range(coded[i]))
  <2> TAKE i \in DOMAIN fields
  <2>1. W(i) \in Seq(Range(m[fields[i].name]))
    BY <1>3
  <2> DEFINE n == Len(W(i))
  <2>2. DOMAIN W(i) = 1 .. n /\ n \in Nat
    BY <2>1, LenProperties
  <2>3. coded[i] = [j \in 1 .. n |-> Coded1(fields[i], W(i)[j])]
    BY <1>5, <2>2
  <2> HIDE DEF n
  <2> QED
    BY <2>2, <2>3, MadeSeq
<1>8. \A i \in DOMAIN fields : \A j \in DOMAIN coded[i] :
         Weak(coded[i][j]) /\ coded[i][j].tag = TagOf(fields[i])
  <2> TAKE i \in DOMAIN fields
  <2> TAKE j \in DOMAIN coded[i]
  <2>1. j \in DOMAIN W(i) /\ coded[i][j] = Coded1(fields[i], W(i)[j])
    BY <1>5
  <2> QED
    BY <1>4, <2>1
<1>9. IsRead(fields, m, coded, items)
  <2>1. Codes(fields, m, coded, items)
    BY <1>2, <1>6, <1>7, <1>8 DEF Codes
  <2> QED
    BY <1>1, <2>1, MessageCore
<1>10. ASSUME SizeOfAll(items) \in Number
       PROVE  Merge(Read1, fields, WriteAll(items)) = {m}
  <2>1. ASSUME NEW i \in DOMAIN fields
        PROVE  /\ OfField(items, fields[i]) = coded[i]
               /\ DOMAIN OfField(items, fields[i]) = DOMAIN W(i)
               /\ \A j \in DOMAIN W(i) :
                     Read1(fields[i], OfField(items, fields[i])[j].value) = {W(i)[j]}
    <3>1. OfField(items, fields[i]) = coded[i] /\ DOMAIN coded[i] = DOMAIN W(i)
      BY <1>5, <1>9 DEF IsRead
    <3>2. ASSUME NEW j \in DOMAIN W(i)
          PROVE  Read1(fields[i], coded[i][j].value) = {W(i)[j]}
      <4>1. coded[i][j] = Coded1(fields[i], W(i)[j]) /\ coded[i][j].size \in Number
        BY <1>5, <1>9, <1>10 DEF IsRead
      <4> QED
        BY <1>4, <4>1
    <3> QED
      BY <3>1, <3>2
  <2> DEFINE Readable(is) == \A i \in DOMAIN fields :
                                \A j \in DOMAIN OfField(is, fields[i]) :
                                   Read1(fields[i], OfField(is, fields[i])[j].value) # {}
             Of(is, f) == [j \in DOMAIN OfField(is, f) |->
                              CHOOSE v \in Read1(f, OfField(is, f)[j].value) : TRUE]
             Values(is) == [name \in Names(fields) |-> Of(is, FieldNamed(fields, name))]
  <2>2. Merge(Read1, fields, WriteAll(items)) =
          {Merged(fields, is, Values(is)) : is \in {is \in ReadItems(WriteAll(items)) : Readable(is)}}
    BY Zenon DEF Merge
  <2>3. Readable(items)
    BY <2>1
  <2>4. \A i \in DOMAIN fields : Values(items)[fields[i].name] = Written(fields[i], m)
    <3> TAKE i \in DOMAIN fields
    <3>1. Values(items)[fields[i].name] = Of(items, fields[i])
      <4>1. FieldNamed(fields, fields[i].name) = fields[i] /\ fields[i].name \in Names(fields)
        BY <1>1, FieldByName DEF Names
      <4> HIDE DEF Of
      <4> QED
        BY <4>1
    <3>2. Of(items, fields[i]) = [j \in DOMAIN W(i) |-> W(i)[j]]
      BY <2>1
    <3>3. [j \in DOMAIN W(i) |-> W(i)[j]] = W(i)
      BY <1>3
    <3> HIDE DEF Values, Of
    <3> QED
      BY <3>1, <3>2, <3>3 DEF W
  <2> HIDE DEF Readable, Values
  <2>5. Merged(fields, items, Values(items)) = m
    BY <1>1, <1>9, <2>4, MergedBack DEF IsRead
  <2>6. ReadItems(WriteAll(items)) = {items}
    BY <1>9, <1>10 DEF IsRead
  <2> QED
    BY <2>6, <2>2, <2>3, <2>5
<1> QED
  BY <1>9, <1>10 DEF IsRead

\* Messages of types that nest two levels deep.
LEMMA Message2 ==
  ASSUME NEW fields, IsType2(fields), NEW m, IsMessage(Is2, fields, m),
         NEW items, items = Items(Coded2, fields, m)
  PROVE  /\ SizeOfAll(items) \in Nat
         /\ SizeOfAll(items) \in Number =>
               /\ WriteAll(items) \in Bytes /\ Len(WriteAll(items)) = SizeOfAll(items)
               /\ Merge(Read2, fields, WriteAll(items)) = {m}
<1> DEFINE W(i) == Written(fields[i], m)
           coded == [i \in DOMAIN fields |-> [j \in DOMAIN W(i) |-> Coded2(fields[i], W(i)[j])]]
<1>1. IsFields(fields) /\ Shaped(fields, m)
  BY DEF IsType2, IsMessage
<1>2. items = Listed(coded, m["unknown"])
  BY DEF Items
<1>3. ASSUME NEW i \in DOMAIN fields
      PROVE  /\ W(i) \in Seq(Range(m[fields[i].name]))
             /\ \A j \in DOMAIN W(i) : Is2(fields[i], W(i)[j])
  <2>1. \A j \in DOMAIN m[fields[i].name] : Is2(fields[i], m[fields[i].name][j])
    BY DEF IsMessage
  <2> HIDE DEF W
  <2>2. W(i) = Written(fields[i], m)
    BY DEF W
  <2> QED
    BY <1>1, <2>1, <2>2, WrittenFacts
<1> HIDE DEF W
<1>4. ASSUME NEW i \in DOMAIN fields, NEW j \in DOMAIN W(i), NEW it, it = Coded2(fields[i], W(i)[j])
      PROVE  /\ Weak(it) /\ it.tag = TagOf(fields[i])
             /\ it.size \in Number => Read2(fields[i], it.value) = {W(i)[j]}
  <2>1. /\ TagOf(fields[i]) \in Number /\ TagOf(fields[i]) >= 8
        /\ TagOf(fields[i]) % 8 = WireType(fields[i])
    BY <1>1, TagFacts
  <2>2. fields[i].kind \in {"varint", "bytes", "string", "message"}
    BY <1>1 DEF IsFields
  <2>3. Is2(fields[i], W(i)[j])
    BY <1>3
  <2>4. CASE fields[i].kind # "message"
    <3>1. Is0(fields[i], W(i)[j])
      BY <2>3, <2>4 DEF Is2
    <3>2. it = Coded0(fields[i], W(i)[j])
      BY <1>4, <2>4 DEF Coded2
    <3>3. Read2(fields[i], it.value) = Read0(fields[i], it.value)
      BY <2>4 DEF Read2
    <3>4. fields[i].kind \in {"varint", "bytes", "string"}
      BY <2>2, <2>4
    <3>5. Weak(it) /\ it.tag = TagOf(fields[i]) /\ it.value = W(i)[j]
          /\ Read0(fields[i], W(i)[j]) = {W(i)[j]}
      BY <2>1, <3>1, <3>2, <3>4, LeafItem
    <3> QED
      BY <3>3, <3>5
  <2>5. CASE fields[i].kind = "message"
    <3> DEFINE f == fields[i]
               v == W(i)[j]
               nested == Items(Coded1, f.of, v)
    <3>1. IsType1(f.of)
      BY <2>5 DEF IsType2
    <3>2. IsMessage(Is1, f.of, v)
      BY <2>3, <2>5 DEF Is2
    <3>3. it = Message(f, nested)
      BY <1>4, <2>5 DEF Coded2
    <3>4. \A b : Read2(f, b) = Merge(Read1, f.of, b)
      BY <2>5 DEF Read2
    <3>5. /\ SizeOfAll(nested) \in Nat
          /\ SizeOfAll(nested) \in Number =>
               /\ WriteAll(nested) \in Bytes /\ Len(WriteAll(nested)) = SizeOfAll(nested)
               /\ Merge(Read1, f.of, WriteAll(nested)) = {v}
      BY <3>1, <3>2, Message1
    <3> HIDE DEF nested
    <3>6. Weak(it) /\ it.tag = TagOf(f) /\ it.value = WriteAll(nested) /\ it.size = SizeOfAll(nested)
      BY <2>1, <2>5, <3>3, <3>5, NestedItem
    <3> QED
      BY <3>4, <3>5, <3>6
  <2> QED
    BY <2>4, <2>5
<1>5. \A i \in DOMAIN fields :
         /\ coded[i] = [j \in DOMAIN W(i) |-> Coded2(fields[i], W(i)[j])]
         /\ DOMAIN coded[i] = DOMAIN W(i)
         /\ \A j \in DOMAIN W(i) : coded[i][j] = Coded2(fields[i], W(i)[j])
  OBVIOUS
<1>6. coded = [i \in DOMAIN fields |-> coded[i]]
  OBVIOUS
<1> HIDE DEF coded
<1>7. \A i \in DOMAIN fields : coded[i] \in Seq(Range(coded[i]))
  <2> TAKE i \in DOMAIN fields
  <2>1. W(i) \in Seq(Range(m[fields[i].name]))
    BY <1>3
  <2> DEFINE n == Len(W(i))
  <2>2. DOMAIN W(i) = 1 .. n /\ n \in Nat
    BY <2>1, LenProperties
  <2>3. coded[i] = [j \in 1 .. n |-> Coded2(fields[i], W(i)[j])]
    BY <1>5, <2>2
  <2> HIDE DEF n
  <2> QED
    BY <2>2, <2>3, MadeSeq
<1>8. \A i \in DOMAIN fields : \A j \in DOMAIN coded[i] :
         Weak(coded[i][j]) /\ coded[i][j].tag = TagOf(fields[i])
  <2> TAKE i \in DOMAIN fields
  <2> TAKE j \in DOMAIN coded[i]
  <2>1. j \in DOMAIN W(i) /\ coded[i][j] = Coded2(fields[i], W(i)[j])
    BY <1>5
  <2> QED
    BY <1>4, <2>1
<1>9. IsRead(fields, m, coded, items)
  <2>1. Codes(fields, m, coded, items)
    BY <1>2, <1>6, <1>7, <1>8 DEF Codes
  <2> QED
    BY <1>1, <2>1, MessageCore
<1>10. ASSUME SizeOfAll(items) \in Number
       PROVE  Merge(Read2, fields, WriteAll(items)) = {m}
  <2>1. ASSUME NEW i \in DOMAIN fields
        PROVE  /\ OfField(items, fields[i]) = coded[i]
               /\ DOMAIN OfField(items, fields[i]) = DOMAIN W(i)
               /\ \A j \in DOMAIN W(i) :
                     Read2(fields[i], OfField(items, fields[i])[j].value) = {W(i)[j]}
    <3>1. OfField(items, fields[i]) = coded[i] /\ DOMAIN coded[i] = DOMAIN W(i)
      BY <1>5, <1>9 DEF IsRead
    <3>2. ASSUME NEW j \in DOMAIN W(i)
          PROVE  Read2(fields[i], coded[i][j].value) = {W(i)[j]}
      <4>1. coded[i][j] = Coded2(fields[i], W(i)[j]) /\ coded[i][j].size \in Number
        BY <1>5, <1>9, <1>10 DEF IsRead
      <4> QED
        BY <1>4, <4>1
    <3> QED
      BY <3>1, <3>2
  <2> DEFINE Readable(is) == \A i \in DOMAIN fields :
                                \A j \in DOMAIN OfField(is, fields[i]) :
                                   Read2(fields[i], OfField(is, fields[i])[j].value) # {}
             Of(is, f) == [j \in DOMAIN OfField(is, f) |->
                              CHOOSE v \in Read2(f, OfField(is, f)[j].value) : TRUE]
             Values(is) == [name \in Names(fields) |-> Of(is, FieldNamed(fields, name))]
  <2>2. Merge(Read2, fields, WriteAll(items)) =
          {Merged(fields, is, Values(is)) : is \in {is \in ReadItems(WriteAll(items)) : Readable(is)}}
    BY Zenon DEF Merge
  <2>3. Readable(items)
    BY <2>1
  <2>4. \A i \in DOMAIN fields : Values(items)[fields[i].name] = Written(fields[i], m)
    <3> TAKE i \in DOMAIN fields
    <3>1. Values(items)[fields[i].name] = Of(items, fields[i])
      <4>1. FieldNamed(fields, fields[i].name) = fields[i] /\ fields[i].name \in Names(fields)
        BY <1>1, FieldByName DEF Names
      <4> HIDE DEF Of
      <4> QED
        BY <4>1
    <3>2. Of(items, fields[i]) = [j \in DOMAIN W(i) |-> W(i)[j]]
      BY <2>1
    <3>3. [j \in DOMAIN W(i) |-> W(i)[j]] = W(i)
      BY <1>3
    <3> HIDE DEF Values, Of
    <3> QED
      BY <3>1, <3>2, <3>3 DEF W
  <2> HIDE DEF Readable, Values
  <2>5. Merged(fields, items, Values(items)) = m
    BY <1>1, <1>9, <2>4, MergedBack DEF IsRead
  <2>6. ReadItems(WriteAll(items)) = {items}
    BY <1>9, <1>10 DEF IsRead
  <2> QED
    BY <2>6, <2>2, <2>3, <2>5
<1> QED
  BY <1>9, <1>10 DEF IsRead

\* The types that nest none: identity.rs, DCUtR.rs and the innermost of the others.
LEMMA FlatTypes ==
  /\ IsType0(Identity) /\ IsType0(CircuitPeer) /\ IsType0(ReservationFields)
  /\ IsType0(LimitFields) /\ IsType0(HolePunch) /\ IsType0(AutonatPeer)
  /\ IsType0(DialResponse) /\ IsType0(KadRecord) /\ IsType0(KadPeer)
<1>1. IsType0(Identity)
  BY SMTT(60) DEF IsType0, IsFields, Field, TagOf, WireType, Number, Identity, Range
<1>2. IsType0(CircuitPeer)
  BY SMTT(30) DEF IsType0, IsFields, Field, TagOf, WireType, Number, CircuitPeer, Range
<1>3. IsType0(ReservationFields)
  BY SMTT(30) DEF IsType0, IsFields, Field, TagOf, WireType, Number, ReservationFields, Range
<1>4. IsType0(LimitFields)
  BY SMTT(30) DEF IsType0, IsFields, Field, TagOf, WireType, Number, LimitFields, Range
<1>5. IsType0(HolePunch)
  BY SMTT(30) DEF IsType0, IsFields, Field, TagOf, WireType, Number, HolePunch, Range
<1>6. IsType0(AutonatPeer)
  BY SMTT(30) DEF IsType0, IsFields, Field, TagOf, WireType, Number, AutonatPeer, Range
<1>7. IsType0(DialResponse)
  BY SMTT(30) DEF IsType0, IsFields, Field, TagOf, WireType, Number, DialResponse, Range
<1>8. IsType0(KadRecord)
  BY SMTT(30) DEF IsType0, IsFields, Field, TagOf, WireType, Number, KadRecord, Range
<1>9. IsType0(KadPeer)
  BY SMTT(30) DEF IsType0, IsFields, Field, TagOf, WireType, Number, KadPeer, Range
<1> QED
  BY <1>1, <1>2, <1>3, <1>4, <1>5, <1>6, <1>7, <1>8, <1>9

\* The fields of each of the other types are well formed.
LEMMA DialFields == IsType1(Dial)
<1>1. IsType0(AutonatPeer)
  BY FlatTypes
<1> QED
  BY <1>1, SMT DEF IsType1, IsFields, Nested, TagOf, WireType, Number, Dial, Range

LEMMA HopFields == IsFields(HopMessage)
  BY SMT DEF IsFields, Field, Nested, TagOf, WireType, Number, HopMessage, Range

LEMMA StopFields == IsFields(StopMessage)
  BY SMT DEF IsFields, Field, Nested, TagOf, WireType, Number, StopMessage, Range

LEMMA AutonatFields == IsFields(AutonatMessage)
  BY SMT DEF IsFields, Field, Nested, TagOf, WireType, Number, AutonatMessage, Range

LEMMA KadFields == IsFields(KadMessage)
  BY SMTT(60) DEF IsFields, Field, Nested, TagOf, WireType, Number, KadMessage, Range

\* A type that nests less deep is also one of those that may nest deeper.
LEMMA Flat1 == \A fields : IsType0(fields) => IsType1(fields)
  BY DEF IsType0, IsType1
LEMMA Flat2 == \A fields : IsType1(fields) => IsType2(fields)
  BY Flat1 DEF IsType1, IsType2

\* The types that nest others.
LEMMA Nest1 ==
   /\ IsType1(HopMessage) /\ IsType1(StopMessage) /\ IsType1(KadMessage) /\ IsType2(AutonatMessage)
<1>1. IsType1(HopMessage)
  BY HopFields, FlatTypes DEF IsType1, HopMessage, Nested, Field
<1>2. IsType1(StopMessage)
  BY StopFields, FlatTypes DEF IsType1, StopMessage, Nested, Field
<1>3. IsType1(KadMessage)
  BY KadFields, FlatTypes DEF IsType1, KadMessage, Nested, Field
<1>4. IsType2(AutonatMessage)
  BY AutonatFields, FlatTypes, DialFields, Flat1 DEF IsType2, AutonatMessage, Nested, Field
<1> QED
  BY <1>1, <1>2, <1>3, <1>4

\* The type of every call is one of those.
LEMMA Types == \A c : IsType2(TypeOf(c))
<1>1. IsType2(HopMessage) /\ IsType2(StopMessage) /\ IsType2(HolePunch) /\ IsType2(Identity)
      /\ IsType2(AutonatMessage) /\ IsType2(KadMessage)
  BY FlatTypes, Nest1, Flat1, Flat2
<1> QED
  BY <1>1 DEF TypeOf

\* What a field may hold, but for the values themselves.
Fits(f, v) ==
  /\ v \in Seq(Range(v))
  /\ f.label # "repeated" => Len(v) <= 1
  /\ f.label = "plain" => v # <<>>

\* One value fits every field,
LEMMA FitsOne ==
  ASSUME NEW f, NEW x
  PROVE  Fits(f, <<x>>)
BY DEF Fits, Range

\* and many a repeated one.
LEMMA FitsMany ==
  ASSUME NEW f, f.label = "repeated", NEW S, NEW v \in Seq(S)
  PROVE  Fits(f, v)
BY SeqIsOver DEF Fits

\* M::new() is a message of the type, with the default values only.
LEMMA NewShaped ==
  ASSUME NEW fields, IsFields(fields)
  PROVE  /\ Shaped(fields, New(fields))
         /\ \A i \in DOMAIN fields :
              \A j \in DOMAIN New(fields)[fields[i].name] :
                 /\ fields[i].kind # "message"
                 /\ Is0(fields[i], New(fields)[fields[i].name][j])
<1> DEFINE names == Names(fields) \union {"unknown"}
           Has(name) == IF name # "unknown" /\ FieldNamed(fields, name).label = "plain"
                        THEN <<Default(FieldNamed(fields, name))>> ELSE <<>>
           m == New(fields)
<1>1. m = [name \in names |-> Has(name)]
  BY DEF New
<1> HIDE DEF m
<1>2. \A i \in DOMAIN fields :
         m[fields[i].name] = IF fields[i].label = "plain" THEN <<Default(fields[i])>> ELSE <<>>
  <2> TAKE i \in DOMAIN fields
  <2>1. FieldNamed(fields, fields[i].name) = fields[i] /\ fields[i].name \in Names(fields)
        /\ fields[i].name # "unknown"
    BY FieldByName DEF Names, IsFields
  <2> QED
    BY <1>1, <2>1
<1>3. m["unknown"] = <<>>
  BY <1>1
<1>4. m = [name \in names |-> m[name]]
  <2> HIDE DEF Has
  <2> QED
    BY <1>1
<1>5. <<>> \in Seq(Range(<<>>)) /\ \A x : <<x>> \in Seq(Range(<<x>>))
  BY DEF Range
<1>6. \A i \in DOMAIN fields :
           /\ m[fields[i].name] \in Seq(Range(m[fields[i].name]))
           /\ fields[i].label # "repeated" => Len(m[fields[i].name]) <= 1
           /\ fields[i].label = "plain"    => m[fields[i].name] # << >>
  <2> TAKE i \in DOMAIN fields
  <2>1. CASE fields[i].label = "plain"
    <3>1. m[fields[i].name] = <<Default(fields[i])>>
      BY <1>2, <2>1
    <3> QED
      BY <1>5, <3>1
  <2>2. CASE fields[i].label # "plain"
    <3>1. m[fields[i].name] = <<>>
      BY <1>2, <2>2
    <3> QED
      BY <1>5, <2>2, <3>1
  <2> QED
    BY <2>1, <2>2
<1>7. Shaped(fields, m)
  <2>1. m["unknown"] \in Seq(Range(m["unknown"])) /\ DOMAIN m["unknown"] = {}
    BY <1>3, <1>5
  <2> QED
    BY <1>4, <1>6, <2>1, ShapedIsOver DEF ShapedOver
<1>8. ASSUME NEW i \in DOMAIN fields, NEW j \in DOMAIN m[fields[i].name]
      PROVE  fields[i].kind # "message" /\ Is0(fields[i], m[fields[i].name][j])
  <2>1. fields[i].label = "plain" /\ m[fields[i].name][j] = Default(fields[i])
    <3>1. m[fields[i].name] # <<>>
      BY <1>8
    <3>2. fields[i].label = "plain"
      BY <1>2, <3>1
    <3>3. m[fields[i].name] = <<Default(fields[i])>>
      BY <1>2, <3>2
    <3> QED
      BY <1>8, <3>2, <3>3
  <2>2. fields[i].kind # "message"
    BY <2>1 DEF IsFields
  <2>3. 0 \in Number /\ <<>> \in Seq(Byte) /\ Utf8(<<>>)
    BY SMT DEF Number, Utf8
  <2> QED
    BY <2>1, <2>2, <2>3 DEF Is0, Default
<1> QED
  BY <1>7, <1>8 DEF m

\* The message with the i-th field set.
IsSet(fields, m, i, v, n) ==
  /\ i \in DOMAIN fields
  /\ Fits(fields[i], v)
  /\ n = [m EXCEPT ![fields[i].name] = v]

\* n is m with its field i set to Some(x).
IsSetTo(fields, m, i, x, n) ==
  /\ i \in DOMAIN fields
  /\ n = [m EXCEPT ![fields[i].name] = <<x>>]

\* A message of which a field is set is one.
LEMMA SetShaped ==
  ASSUME NEW fields, IsFields(fields), NEW m, Shaped(fields, m),
         NEW i, NEW v, NEW n, IsSet(fields, m, i, v, n)
  PROVE  /\ Shaped(fields, n) /\ n[fields[i].name] = v
         /\ \A k \in DOMAIN fields : k # i => n[fields[k].name] = m[fields[k].name]
<1> DEFINE names == Names(fields) \union {"unknown"}
           name == fields[i].name
<1>0. i \in DOMAIN fields /\ Fits(fields[i], v) /\ n = [m EXCEPT ![name] = v]
  BY DEF IsSet
<1>1. m = [x \in names |-> m[x]]
  BY DEF Shaped
<1>2. name \in names /\ name # "unknown"
  BY <1>0 DEF Names, IsFields
<1>3. \A k \in DOMAIN fields : fields[k].name \in names /\ (k # i => fields[k].name # name)
  BY <1>0 DEF Names, IsFields
<1> HIDE DEF names, name
<1>4. DOMAIN n = names /\ n[name] = v /\ \A x \in names : x # name => n[x] = m[x]
  BY <1>0, <1>1, <1>2
<1>5. n = [x \in names |-> n[x]]
  BY <1>0, <1>1, <1>2
<1>6. n["unknown"] = m["unknown"]
  BY <1>2, <1>4 DEF names
<1>7. \A k \in DOMAIN fields : k # i => n[fields[k].name] = m[fields[k].name]
  BY <1>3, <1>4
<1>8. \A k \in DOMAIN fields :
           /\ n[fields[k].name] \in Seq(Range(n[fields[k].name]))
           /\ fields[k].label # "repeated" => Len(n[fields[k].name]) <= 1
           /\ fields[k].label = "plain"    => n[fields[k].name] # << >>
  <2> TAKE k \in DOMAIN fields
  <2>1. CASE k = i
    BY <1>0, <1>4, <2>1 DEF Fits, name
  <2>2. CASE k # i
    BY <1>7, <2>2, ShapedIsOver DEF ShapedOver
  <2> QED
    BY <2>1, <2>2
<1>9. Shaped(fields, n)
  BY <1>5, <1>6, <1>8, ShapedIsOver DEF ShapedOver, names
<1> QED
  BY <1>4, <1>7, <1>9 DEF name

\* M::new(), and a message of which a field is set, for a type that nests none:
LEMMA New0 ==
  ASSUME NEW fields, IsType0(fields)
  PROVE  IsMessage(Is0, fields, New(fields))
<1>1. IsFields(fields)
  BY DEF IsType0
<1>2. Shaped(fields, New(fields))
  BY <1>1, NewShaped
<1>3. ASSUME NEW i \in DOMAIN fields, NEW j \in DOMAIN New(fields)[fields[i].name]
      PROVE  Is0(fields[i], New(fields)[fields[i].name][j])
  <2>1. /\ fields[i].kind # "message"
        /\ Is0(fields[i], New(fields)[fields[i].name][j])
    BY <1>1, NewShaped
  <2> QED
    BY <2>1 DEF Is0
<1> QED
  BY <1>2, <1>3 DEF IsMessage

\* a field of several values,
LEMMA Set0 ==
  ASSUME NEW fields, IsFields(fields), NEW m, IsMessage(Is0, fields, m),
         NEW i, NEW v, NEW n, IsSet(fields, m, i, v, n),
         \A j \in DOMAIN v : Is0(fields[i], v[j])
  PROVE  IsMessage(Is0, fields, n)
<1>1. Shaped(fields, m) /\ \A k \in DOMAIN fields :
           \A j \in DOMAIN m[fields[k].name] : Is0(fields[k], m[fields[k].name][j])
  BY DEF IsMessage
<1>2. /\ Shaped(fields, n) /\ n[fields[i].name] = v
      /\ \A k \in DOMAIN fields : k # i => n[fields[k].name] = m[fields[k].name]
  BY <1>1, SetShaped
<1>3. ASSUME NEW k \in DOMAIN fields, NEW j \in DOMAIN n[fields[k].name]
      PROVE  Is0(fields[k], n[fields[k].name][j])
  BY <1>1, <1>2, <1>3
<1> QED
  BY <1>2, <1>3 DEF IsMessage

\* and of one.
LEMMA SetOne0 ==
  ASSUME NEW fields, IsFields(fields), NEW m, IsMessage(Is0, fields, m),
         NEW i, NEW x, NEW n, IsSetTo(fields, m, i, x, n), Is0(fields[i], x)
  PROVE  IsMessage(Is0, fields, n)
<1> DEFINE v == <<x>>
<1>1. IsSet(fields, m, i, v, n)
  BY FitsOne DEF IsSet, IsSetTo
<1>2. \A j \in DOMAIN v : Is0(fields[i], v[j])
  OBVIOUS
<1> HIDE DEF v
<1> QED
  BY <1>1, <1>2, Set0

\* For a type that nests one deep:
LEMMA New1 ==
  ASSUME NEW fields, IsType1(fields)
  PROVE  IsMessage(Is1, fields, New(fields))
<1>1. IsFields(fields)
  BY DEF IsType1
<1>2. Shaped(fields, New(fields))
  BY <1>1, NewShaped
<1>3. ASSUME NEW i \in DOMAIN fields, NEW j \in DOMAIN New(fields)[fields[i].name]
      PROVE  Is1(fields[i], New(fields)[fields[i].name][j])
  <2>1. /\ fields[i].kind # "message"
        /\ Is0(fields[i], New(fields)[fields[i].name][j])
    BY <1>1, NewShaped
  <2> QED
    BY <2>1 DEF Is1
<1> QED
  BY <1>2, <1>3 DEF IsMessage

\* a field of several values,
LEMMA Set1 ==
  ASSUME NEW fields, IsFields(fields), NEW m, IsMessage(Is1, fields, m),
         NEW i, NEW v, NEW n, IsSet(fields, m, i, v, n),
         \A j \in DOMAIN v : Is1(fields[i], v[j])
  PROVE  IsMessage(Is1, fields, n)
<1>1. Shaped(fields, m) /\ \A k \in DOMAIN fields :
           \A j \in DOMAIN m[fields[k].name] : Is1(fields[k], m[fields[k].name][j])
  BY DEF IsMessage
<1>2. /\ Shaped(fields, n) /\ n[fields[i].name] = v
      /\ \A k \in DOMAIN fields : k # i => n[fields[k].name] = m[fields[k].name]
  BY <1>1, SetShaped
<1>3. ASSUME NEW k \in DOMAIN fields, NEW j \in DOMAIN n[fields[k].name]
      PROVE  Is1(fields[k], n[fields[k].name][j])
  BY <1>1, <1>2, <1>3
<1> QED
  BY <1>2, <1>3 DEF IsMessage

\* and of one.
LEMMA SetOne1 ==
  ASSUME NEW fields, IsFields(fields), NEW m, IsMessage(Is1, fields, m),
         NEW i, NEW x, NEW n, IsSetTo(fields, m, i, x, n), Is1(fields[i], x)
  PROVE  IsMessage(Is1, fields, n)
<1> DEFINE v == <<x>>
<1>1. IsSet(fields, m, i, v, n)
  BY FitsOne DEF IsSet, IsSetTo
<1>2. \A j \in DOMAIN v : Is1(fields[i], v[j])
  OBVIOUS
<1> HIDE DEF v
<1> QED
  BY <1>1, <1>2, Set1

\* For a type that nests two deep:
LEMMA New2 ==
  ASSUME NEW fields, IsType2(fields)
  PROVE  IsMessage(Is2, fields, New(fields))
<1>1. IsFields(fields)
  BY DEF IsType2
<1>2. Shaped(fields, New(fields))
  BY <1>1, NewShaped
<1>3. ASSUME NEW i \in DOMAIN fields, NEW j \in DOMAIN New(fields)[fields[i].name]
      PROVE  Is2(fields[i], New(fields)[fields[i].name][j])
  <2>1. /\ fields[i].kind # "message"
        /\ Is0(fields[i], New(fields)[fields[i].name][j])
    BY <1>1, NewShaped
  <2> QED
    BY <2>1 DEF Is2
<1> QED
  BY <1>2, <1>3 DEF IsMessage

\* a field of several values,
LEMMA Set2 ==
  ASSUME NEW fields, IsFields(fields), NEW m, IsMessage(Is2, fields, m),
         NEW i, NEW v, NEW n, IsSet(fields, m, i, v, n),
         \A j \in DOMAIN v : Is2(fields[i], v[j])
  PROVE  IsMessage(Is2, fields, n)
<1>1. Shaped(fields, m) /\ \A k \in DOMAIN fields :
           \A j \in DOMAIN m[fields[k].name] : Is2(fields[k], m[fields[k].name][j])
  BY DEF IsMessage
<1>2. /\ Shaped(fields, n) /\ n[fields[i].name] = v
      /\ \A k \in DOMAIN fields : k # i => n[fields[k].name] = m[fields[k].name]
  BY <1>1, SetShaped
<1>3. ASSUME NEW k \in DOMAIN fields, NEW j \in DOMAIN n[fields[k].name]
      PROVE  Is2(fields[k], n[fields[k].name][j])
  BY <1>1, <1>2, <1>3
<1> QED
  BY <1>2, <1>3 DEF IsMessage

\* and of one.
LEMMA SetOne2 ==
  ASSUME NEW fields, IsFields(fields), NEW m, IsMessage(Is2, fields, m),
         NEW i, NEW x, NEW n, IsSetTo(fields, m, i, x, n), Is2(fields[i], x)
  PROVE  IsMessage(Is2, fields, n)
<1> DEFINE v == <<x>>
<1>1. IsSet(fields, m, i, v, n)
  BY FitsOne DEF IsSet, IsSetTo
<1>2. \A j \in DOMAIN v : Is2(fields[i], v[j])
  OBVIOUS
<1> HIDE DEF v
<1> QED
  BY <1>1, <1>2, Set2

-----------------------------------------------------------------------------
(* The requests.                                                           *)

\* How deep the types of the requests nest.
LEMMA AllTypes ==
  /\ IsType0(AutonatPeer)
  /\ IsType1(CircuitPeer) /\ IsType1(KadRecord) /\ IsType1(KadPeer) /\ IsType1(Dial)
  /\ IsType2(HopMessage) /\ IsType2(StopMessage) /\ IsType2(HolePunch) /\ IsType2(Identity)
  /\ IsType2(AutonatMessage) /\ IsType2(KadMessage)
BY FlatTypes, Nest1, DialFields, Flat1, Flat2

\* Their fields are well formed.
LEMMA AllFields ==
  /\ IsFields(AutonatPeer)
  /\ IsFields(CircuitPeer) /\ IsFields(KadRecord) /\ IsFields(KadPeer) /\ IsFields(Dial)
  /\ IsFields(HopMessage) /\ IsFields(StopMessage) /\ IsFields(HolePunch) /\ IsFields(Identity)
  /\ IsFields(AutonatMessage) /\ IsFields(KadMessage)
BY AllTypes DEF IsType0, IsType1, IsType2

\* A small number is a value of a number field,
LEMMA NumberIs ==
  ASSUME NEW f, f.kind = "varint", NEW v \in 0 .. 300
  PROVE  Is0(f, v) /\ Is1(f, v) /\ Is2(f, v)
<1>1. v \in Number
  BY SMT DEF Number
<1> QED
  BY <1>1 DEF Is0, Is1, Is2

\* bytes are one of a bytes field,
LEMMA BytesIs ==
  ASSUME NEW f, f.kind = "bytes", NEW v \in Seq(Byte)
  PROVE  Is0(f, v) /\ Is1(f, v) /\ Is2(f, v)
BY DEF Is0, Is1, Is2

\* ASCII is one of a string field,
LEMMA StringIs ==
  ASSUME NEW f, f.kind = "string", NEW v \in Seq(Byte), Utf8(v)
  PROVE  Is0(f, v) /\ Is1(f, v) /\ Is2(f, v)
BY DEF Is0, Is1, Is2

\* and a message of a field of its type.
LEMMA MessageIs ==
  ASSUME NEW f, f.kind = "message", NEW v
  PROVE  /\ IsMessage(Is0, f.of, v) => Is1(f, v)
         /\ IsMessage(Is1, f.of, v) => Is2(f, v)
BY DEF Is1, Is2

\* The same for several bytes,
LEMMA ManyIs ==
  ASSUME NEW f, f.kind = "bytes", f.label = "repeated", NEW v \in Seq(Seq(Byte))
  PROVE  Fits(f, v) /\ \A j \in DOMAIN v : Is0(f, v[j]) /\ Is1(f, v[j]) /\ Is2(f, v[j])
<1>1. Fits(f, v)
  BY FitsMany
<1>2. \A j \in DOMAIN v : v[j] \in Seq(Byte)
  BY SeqIsOver
<1> QED
  BY <1>1, <1>2, BytesIs

\* and several strings.
LEMMA StringsIs ==
  ASSUME NEW f, f.kind = "string", f.label = "repeated", NEW v \in Seq({b \in Seq(Byte) : Utf8(b)})
  PROVE  Fits(f, v) /\ \A j \in DOMAIN v : Is0(f, v[j]) /\ Is1(f, v[j]) /\ Is2(f, v[j])
<1> DEFINE S == {b \in Seq(Byte) : Utf8(b)}
<1>1. Fits(f, v) /\ \A j \in DOMAIN v : v[j] \in S
  <2>1. v \in Seq(S)
    OBVIOUS
  <2> HIDE DEF S
  <2> QED
    BY <2>1, FitsMany, SeqIsOver
<1> QED
  BY <1>1, StringIs

\* circuit_v2_hop_reserve writes a message of its type.
LEMMA HopReserveIs ==
  IsMessage(Is2, HopMessage, HopReserve)
<1> DEFINE m0 == New(HopMessage)
           m1 == [m0 EXCEPT !.type_ = <<0>>]
<1>1. IsMessage(Is2, HopMessage, m0)
  BY New2, AllTypes
<1>2. IsMessage(Is2, HopMessage, m1)
  <2>0. 1 \in DOMAIN HopMessage /\ HopMessage[1].name = "type_"
    BY DEF HopMessage, Field, Nested
  <2>1. IsSetTo(HopMessage, m0, 1, 0, m1)
    BY <2>0 DEF IsSetTo
  <2>2. Is2(HopMessage[1], 0)
    BY NumberIs DEF HopMessage, Field, Nested
  <2> HIDE DEF m0, m1
  <2> QED
    BY <1>1, <2>1, <2>2, AllFields, SetOne2
<1>3. HopReserve = m1
  BY DEF HopReserve, HopType, Some
<1> QED
  BY <1>2, <1>3

\* So does circuit_v2_hop_connect,
LEMMA HopConnectIs ==
  IsMessage(Is2, HopMessage, HopConnect)
<1> DEFINE p0 == New(CircuitPeer)
           p1 == [p0 EXCEPT !.id = <<ConnPeer>>]
           m0 == New(HopMessage)
           m1 == [m0 EXCEPT !.type_ = <<1>>]
           m2 == [m1 EXCEPT !.peer = <<p1>>]
<1>1. IsMessage(Is1, CircuitPeer, p0)
  BY New1, AllTypes
<1>2. IsMessage(Is1, CircuitPeer, p1)
  <2>0. 1 \in DOMAIN CircuitPeer /\ CircuitPeer[1].name = "id"
    BY DEF CircuitPeer, Field, Nested
  <2>1. IsSetTo(CircuitPeer, p0, 1, ConnPeer, p1)
    BY <2>0 DEF IsSetTo
  <2>2. Is1(CircuitPeer[1], ConnPeer)
    BY RpcAssumption, BytesIs DEF CircuitPeer, Field, Nested
  <2> HIDE DEF p0, p1
  <2> QED
    BY <1>1, <2>1, <2>2, AllFields, SetOne1
<1>3. IsMessage(Is2, HopMessage, m0)
  BY New2, AllTypes
<1>4. IsMessage(Is2, HopMessage, m1)
  <2>0. 1 \in DOMAIN HopMessage /\ HopMessage[1].name = "type_"
    BY DEF HopMessage, Field, Nested
  <2>1. IsSetTo(HopMessage, m0, 1, 1, m1)
    BY <2>0 DEF IsSetTo
  <2>2. Is2(HopMessage[1], 1)
    BY NumberIs DEF HopMessage, Field, Nested
  <2> HIDE DEF m0, m1
  <2> QED
    BY <1>3, <2>1, <2>2, AllFields, SetOne2
<1>5. IsMessage(Is2, HopMessage, m2)
  <2>0. 2 \in DOMAIN HopMessage /\ HopMessage[2].name = "peer"
    BY DEF HopMessage, Field, Nested
  <2>1. IsSetTo(HopMessage, m1, 2, p1, m2)
    BY <2>0 DEF IsSetTo
  <2>2. Is2(HopMessage[2], p1)
    BY <1>2, MessageIs DEF HopMessage, Field, Nested
  <2> HIDE DEF m1, m2, p1
  <2> QED
    BY <1>4, <2>1, <2>2, AllFields, SetOne2
<1>6. HopConnect = m2
  BY DEF HopConnect, HopType, Some
<1> QED
  BY <1>5, <1>6

\* circuit_v2_stop_connect,
LEMMA StopConnectIs ==
  IsMessage(Is2, StopMessage, StopConnect)
<1> DEFINE p0 == New(CircuitPeer)
           p1 == [p0 EXCEPT !.id = <<LocalId>>]
           m0 == New(StopMessage)
           m1 == [m0 EXCEPT !.type_ = <<0>>]
           m2 == [m1 EXCEPT !.peer = <<p1>>]
<1>1. IsMessage(Is1, CircuitPeer, p0)
  BY New1, AllTypes
<1>2. IsMessage(Is1, CircuitPeer, p1)
  <2>0. 1 \in DOMAIN CircuitPeer /\ CircuitPeer[1].name = "id"
    BY DEF CircuitPeer, Field, Nested
  <2>1. IsSetTo(CircuitPeer, p0, 1, LocalId, p1)
    BY <2>0 DEF IsSetTo
  <2>2. Is1(CircuitPeer[1], LocalId)
    BY RpcAssumption, BytesIs DEF CircuitPeer, Field, Nested
  <2> HIDE DEF p0, p1
  <2> QED
    BY <1>1, <2>1, <2>2, AllFields, SetOne1
<1>3. IsMessage(Is2, StopMessage, m0)
  BY New2, AllTypes
<1>4. IsMessage(Is2, StopMessage, m1)
  <2>0. 1 \in DOMAIN StopMessage /\ StopMessage[1].name = "type_"
    BY DEF StopMessage, Field, Nested
  <2>1. IsSetTo(StopMessage, m0, 1, 0, m1)
    BY <2>0 DEF IsSetTo
  <2>2. Is2(StopMessage[1], 0)
    BY NumberIs DEF StopMessage, Field, Nested
  <2> HIDE DEF m0, m1
  <2> QED
    BY <1>3, <2>1, <2>2, AllFields, SetOne2
<1>5. IsMessage(Is2, StopMessage, m2)
  <2>0. 2 \in DOMAIN StopMessage /\ StopMessage[2].name = "peer"
    BY DEF StopMessage, Field, Nested
  <2>1. IsSetTo(StopMessage, m1, 2, p1, m2)
    BY <2>0 DEF IsSetTo
  <2>2. Is2(StopMessage[2], p1)
    BY <1>2, MessageIs DEF StopMessage, Field, Nested
  <2> HIDE DEF m1, m2, p1
  <2> QED
    BY <1>4, <2>1, <2>2, AllFields, SetOne2
<1>6. StopConnect = m2
  BY DEF StopConnect, StopType, Some
<1> QED
  BY <1>5, <1>6

\* circuit_v2_stop_connect_accept,
LEMMA StopAcceptedIs ==
  IsMessage(Is2, StopMessage, StopAccepted)
<1> DEFINE m0 == New(StopMessage)
           m1 == [m0 EXCEPT !.type_ = <<1>>]
           m2 == [m1 EXCEPT !.status = <<100>>]
<1>1. IsMessage(Is2, StopMessage, m0)
  BY New2, AllTypes
<1>2. IsMessage(Is2, StopMessage, m1)
  <2>0. 1 \in DOMAIN StopMessage /\ StopMessage[1].name = "type_"
    BY DEF StopMessage, Field, Nested
  <2>1. IsSetTo(StopMessage, m0, 1, 1, m1)
    BY <2>0 DEF IsSetTo
  <2>2. Is2(StopMessage[1], 1)
    BY NumberIs DEF StopMessage, Field, Nested
  <2> HIDE DEF m0, m1
  <2> QED
    BY <1>1, <2>1, <2>2, AllFields, SetOne2
<1>3. IsMessage(Is2, StopMessage, m2)
  <2>0. 4 \in DOMAIN StopMessage /\ StopMessage[4].name = "status"
    BY DEF StopMessage, Field, Nested
  <2>1. IsSetTo(StopMessage, m1, 4, 100, m2)
    BY <2>0 DEF IsSetTo
  <2>2. Is2(StopMessage[4], 100)
    BY NumberIs DEF StopMessage, Field, Nested
  <2> HIDE DEF m1, m2
  <2> QED
    BY <1>2, <2>1, <2>2, AllFields, SetOne2
<1>4. StopAccepted = m2
  BY DEF StopAccepted, StopType, Status, Some
<1> QED
  BY <1>3, <1>4

\* dcutr_send_connect,
LEMMA DcutrConnectIs ==
  IsMessage(Is2, HolePunch, DcutrConnect)
<1> DEFINE m0 == New(HolePunch)
           m1 == [m0 EXCEPT !.type_ = <<100>>]
           m2 == [m1 EXCEPT !.ObsAddrs = LocalAddrs]
<1>1. IsMessage(Is2, HolePunch, m0)
  BY New2, AllTypes
<1>2. IsMessage(Is2, HolePunch, m1)
  <2>0. 1 \in DOMAIN HolePunch /\ HolePunch[1].name = "type_"
    BY DEF HolePunch, Field, Nested
  <2>1. IsSetTo(HolePunch, m0, 1, 100, m1)
    BY <2>0 DEF IsSetTo
  <2>2. Is2(HolePunch[1], 100)
    BY NumberIs DEF HolePunch, Field, Nested
  <2> HIDE DEF m0, m1
  <2> QED
    BY <1>1, <2>1, <2>2, AllFields, SetOne2
<1>3. IsMessage(Is2, HolePunch, m2)
  <2>0. 2 \in DOMAIN HolePunch /\ HolePunch[2].name = "ObsAddrs"
    BY DEF HolePunch, Field, Nested
  <2>1. HolePunch[2].kind = "bytes" /\ HolePunch[2].label = "repeated"
    BY DEF HolePunch, Field, Nested
  <2>2. Fits(HolePunch[2], LocalAddrs) /\ \A j \in DOMAIN LocalAddrs : Is2(HolePunch[2], LocalAddrs[j])
    BY <2>1, RpcAssumption, ManyIs
  <2>3. IsSet(HolePunch, m1, 2, LocalAddrs, m2)
    BY <2>0, <2>2 DEF IsSet
  <2> HIDE DEF m1, m2
  <2> QED
    BY <1>2, <2>2, <2>3, AllFields, Set2
<1>4. DcutrConnect = m2
  BY DEF DcutrConnect, HolePunchType, Some
<1> QED
  BY <1>3, <1>4

\* dcutr_send_sync,
LEMMA DcutrSyncIs ==
  IsMessage(Is2, HolePunch, DcutrSync)
<1> DEFINE m0 == New(HolePunch)
           m1 == [m0 EXCEPT !.type_ = <<300>>]
<1>1. IsMessage(Is2, HolePunch, m0)
  BY New2, AllTypes
<1>2. IsMessage(Is2, HolePunch, m1)
  <2>0. 1 \in DOMAIN HolePunch /\ HolePunch[1].name = "type_"
    BY DEF HolePunch, Field, Nested
  <2>1. IsSetTo(HolePunch, m0, 1, 300, m1)
    BY <2>0 DEF IsSetTo
  <2>2. Is2(HolePunch[1], 300)
    BY NumberIs DEF HolePunch, Field, Nested
  <2> HIDE DEF m0, m1
  <2> QED
    BY <1>1, <2>1, <2>2, AllFields, SetOne2
<1>3. DcutrSync = m1
  BY DEF DcutrSync, HolePunchType, Some
<1> QED
  BY <1>2, <1>3

\* find_node, get_value and get_providers of the Kademlia calls,
LEMMA KadRequestIs ==
  ASSUME NEW type \in 0 .. 5
  PROVE  IsMessage(Is2, KadMessage, KadRequest(type))
<1> DEFINE m0 == New(KadMessage)
           m1 == [m0 EXCEPT !.type_ = <<type>>]
           m2 == [m1 EXCEPT !.key = <<Key>>]
<1>t. type \in 0 .. 300
  OBVIOUS
<1>1. IsMessage(Is2, KadMessage, m0)
  BY New2, AllTypes
<1>2. IsMessage(Is2, KadMessage, m1)
  <2>0. 1 \in DOMAIN KadMessage /\ KadMessage[1].name = "type_"
    BY DEF KadMessage, Field, Nested
  <2>1. IsSetTo(KadMessage, m0, 1, type, m1)
    BY <2>0 DEF IsSetTo
  <2>2. Is2(KadMessage[1], type)
    BY <1>t, NumberIs DEF KadMessage, Field, Nested
  <2> HIDE DEF m0, m1
  <2> QED
    BY <1>1, <2>1, <2>2, AllFields, SetOne2
<1>3. IsMessage(Is2, KadMessage, m2)
  <2>0. 3 \in DOMAIN KadMessage /\ KadMessage[3].name = "key"
    BY DEF KadMessage, Field, Nested
  <2>1. IsSetTo(KadMessage, m1, 3, Key, m2)
    BY <2>0 DEF IsSetTo
  <2>2. Is2(KadMessage[3], Key)
    BY RpcAssumption, BytesIs DEF KadMessage, Field, Nested
  <2> HIDE DEF m1, m2
  <2> QED
    BY <1>2, <2>1, <2>2, AllFields, SetOne2
<1>4. KadRequest(type) = m2
  BY DEF KadRequest, Some
<1> QED
  BY <1>3, <1>4

\* put_value,
LEMMA PutValueIs ==
  IsMessage(Is2, KadMessage, PutValue)
<1> DEFINE p0 == New(KadRecord)
           p1 == [p0 EXCEPT !.key = <<Key>>]
           p2 == [p1 EXCEPT !.value = <<Val>>]
           m0 == KadRequest(MessageType.PUT_VALUE)
           m1 == [m0 EXCEPT !.record = <<p2>>]
<1>1. IsMessage(Is1, KadRecord, p0)
  BY New1, AllTypes
<1>2. IsMessage(Is1, KadRecord, p1)
  <2>0. 1 \in DOMAIN KadRecord /\ KadRecord[1].name = "key"
    BY DEF KadRecord, Field, Nested
  <2>1. IsSetTo(KadRecord, p0, 1, Key, p1)
    BY <2>0 DEF IsSetTo
  <2>2. Is1(KadRecord[1], Key)
    BY RpcAssumption, BytesIs DEF KadRecord, Field, Nested
  <2> HIDE DEF p0, p1
  <2> QED
    BY <1>1, <2>1, <2>2, AllFields, SetOne1
<1>3. IsMessage(Is1, KadRecord, p2)
  <2>0. 2 \in DOMAIN KadRecord /\ KadRecord[2].name = "value"
    BY DEF KadRecord, Field, Nested
  <2>1. IsSetTo(KadRecord, p1, 2, Val, p2)
    BY <2>0 DEF IsSetTo
  <2>2. Is1(KadRecord[2], Val)
    BY RpcAssumption, BytesIs DEF KadRecord, Field, Nested
  <2> HIDE DEF p1, p2
  <2> QED
    BY <1>2, <2>1, <2>2, AllFields, SetOne1
<1>4. IsMessage(Is2, KadMessage, m0)
  BY KadRequestIs DEF MessageType
<1>5. IsMessage(Is2, KadMessage, m1)
  <2>0. 4 \in DOMAIN KadMessage /\ KadMessage[4].name = "record"
    BY DEF KadMessage, Field, Nested
  <2>1. IsSetTo(KadMessage, m0, 4, p2, m1)
    BY <2>0 DEF IsSetTo
  <2>2. Is2(KadMessage[4], p2)
    BY <1>3, MessageIs DEF KadMessage, Field, Nested
  <2> HIDE DEF m0, m1, p2
  <2> QED
    BY <1>4, <2>1, <2>2, AllFields, SetOne2
<1>6. PutValue = m1
  BY DEF PutValue, Some
<1> QED
  BY <1>5, <1>6

\* add_provider,
LEMMA AddProviderIs ==
  IsMessage(Is2, KadMessage, AddProvider)
<1> DEFINE c == IF Provider.appear
                THEN IF Provider.disappear THEN ConnectionType.CAN_CONNECT
                                           ELSE ConnectionType.CONNECTED
                ELSE IF Provider.disappear THEN ConnectionType.CANNOT_CONNECT
                                           ELSE ConnectionType.NOT_CONNECTED
           p0 == New(KadPeer)
           p1 == [p0 EXCEPT !.id = <<Provider.id>>]
           p2 == [p1 EXCEPT !.addrs = Provider.addrs]
           p3 == [p2 EXCEPT !.connection = <<c>>]
           m0 == KadRequest(MessageType.ADD_PROVIDER)
           m1 == [m0 EXCEPT !.providerPeers = <<p3>>]
<1>c. c \in 0 .. 300
  BY DEF ConnectionType
<1> HIDE DEF c
<1>1. IsMessage(Is1, KadPeer, p0)
  BY New1, AllTypes
<1>2. IsMessage(Is1, KadPeer, p1)
  <2>0. 1 \in DOMAIN KadPeer /\ KadPeer[1].name = "id"
    BY DEF KadPeer, Field, Nested
  <2>1. IsSetTo(KadPeer, p0, 1, Provider.id, p1)
    BY <2>0 DEF IsSetTo
  <2>2. Is1(KadPeer[1], Provider.id)
    BY RpcAssumption, BytesIs DEF KadPeer, Field, Nested
  <2> HIDE DEF p0, p1
  <2> QED
    BY <1>1, <2>1, <2>2, AllFields, SetOne1
<1>3. IsMessage(Is1, KadPeer, p2)
  <2>0. 2 \in DOMAIN KadPeer /\ KadPeer[2].name = "addrs"
    BY DEF KadPeer, Field, Nested
  <2>1. KadPeer[2].kind = "bytes" /\ KadPeer[2].label = "repeated"
    BY DEF KadPeer, Field, Nested
  <2>2. Fits(KadPeer[2], Provider.addrs) /\ \A j \in DOMAIN Provider.addrs : Is1(KadPeer[2], Provider.addrs[j])
    BY <2>1, RpcAssumption, ManyIs
  <2>3. IsSet(KadPeer, p1, 2, Provider.addrs, p2)
    BY <2>0, <2>2 DEF IsSet
  <2> HIDE DEF p1, p2
  <2> QED
    BY <1>2, <2>2, <2>3, AllFields, Set1
<1>4. IsMessage(Is1, KadPeer, p3)
  <2>0. 3 \in DOMAIN KadPeer /\ KadPeer[3].name = "connection"
    BY DEF KadPeer, Field, Nested
  <2>1. IsSetTo(KadPeer, p2, 3, c, p3)
    BY <2>0 DEF IsSetTo
  <2>2. Is1(KadPeer[3], c)
    BY <1>c, NumberIs DEF KadPeer, Field, Nested
  <2> HIDE DEF p2, p3
  <2> QED
    BY <1>3, <2>1, <2>2, AllFields, SetOne1
<1>5. IsMessage(Is2, KadMessage, m0)
  BY KadRequestIs DEF MessageType
<1>6. IsMessage(Is2, KadMessage, m1)
  <2>0. 6 \in DOMAIN KadMessage /\ KadMessage[6].name = "providerPeers"
    BY DEF KadMessage, Field, Nested
  <2>1. IsSetTo(KadMessage, m0, 6, p3, m1)
    BY <2>0 DEF IsSetTo
  <2>2. Is2(KadMessage[6], p3)
    BY <1>4, MessageIs DEF KadMessage, Field, Nested
  <2> HIDE DEF m0, m1, p3
  <2> QED
    BY <1>5, <2>1, <2>2, AllFields, SetOne2
<1>7. AddProvider = m1
  BY DEF AddProvider, PeerOf, Some, c
<1> QED
  BY <1>6, <1>7

\* identity_response on a relayed connection
LEMMA IdentityIsTrue ==
  IsMessage(Is2, Identity, IdentityResponse(TRUE))
<1> DEFINE agent == <<120>>
           addr == LocalAddrs[1]
           m0 == New(Identity)
           m1 == [m0 EXCEPT !.observedAddr = <<>>]
           m2 == [m1 EXCEPT !.publicKey = <<LocalKey>>]
           m3 == [m2 EXCEPT !.agentVersion = <<agent>>]
           m4 == [m3 EXCEPT !.protocols = LocalProtos]
           m5 == [m4 EXCEPT !.listenAddrs = LocalAddrs]
<1>a. agent \in Seq(Byte) /\ Utf8(agent)
  BY DEF Byte, Utf8
<1>b. addr \in Seq(Byte)
  BY RpcAssumption, EmptySeq
<1> HIDE DEF agent, addr
<1>1. IsMessage(Is2, Identity, m0)
  BY New2, AllTypes
<1>2. IsMessage(Is2, Identity, m1)
  <2>0. 5 \in DOMAIN Identity /\ Identity[5].name = "observedAddr"
    BY DEF Identity, Field, Nested
  <2>1. Fits(Identity[5], <<>>)
    BY DEF Fits, Range, Identity, Field, Nested
  <2>2. IsSet(Identity, m0, 5, <<>>, m1)
    BY <2>0, <2>1 DEF IsSet
  <2>3. \A j \in DOMAIN <<>> : Is2(Identity[5], <<>>[j])
    OBVIOUS
  <2> HIDE DEF m0, m1
  <2> QED
    BY <1>1, <2>2, <2>3, AllFields, Set2
<1>3. IsMessage(Is2, Identity, m2)
  <2>0. 3 \in DOMAIN Identity /\ Identity[3].name = "publicKey"
    BY DEF Identity, Field, Nested
  <2>1. IsSetTo(Identity, m1, 3, LocalKey, m2)
    BY <2>0 DEF IsSetTo
  <2>2. Is2(Identity[3], LocalKey)
    BY RpcAssumption, BytesIs DEF Identity, Field, Nested
  <2> HIDE DEF m1, m2
  <2> QED
    BY <1>2, <2>1, <2>2, AllFields, SetOne2
<1>4. IsMessage(Is2, Identity, m3)
  <2>0. 2 \in DOMAIN Identity /\ Identity[2].name = "agentVersion"
    BY DEF Identity, Field, Nested
  <2>1. IsSetTo(Identity, m2, 2, agent, m3)
    BY <2>0 DEF IsSetTo
  <2>2. Is2(Identity[2], agent)
    BY <1>a, StringIs DEF Identity, Field, Nested
  <2> HIDE DEF m2, m3
  <2> QED
    BY <1>3, <2>1, <2>2, AllFields, SetOne2
<1>5. IsMessage(Is2, Identity, m4)
  <2>0. 6 \in DOMAIN Identity /\ Identity[6].name = "protocols"
    BY DEF Identity, Field, Nested
  <2>1. Identity[6].kind = "string" /\ Identity[6].label = "repeated"
    BY DEF Identity, Field, Nested
  <2>2. Fits(Identity[6], LocalProtos) /\ \A j \in DOMAIN LocalProtos : Is2(Identity[6], LocalProtos[j])
    BY <2>1, RpcAssumption, StringsIs
  <2>3. IsSet(Identity, m3, 6, LocalProtos, m4)
    BY <2>0, <2>2 DEF IsSet
  <2> HIDE DEF m3, m4
  <2> QED
    BY <1>4, <2>2, <2>3, AllFields, Set2
<1>6. IsMessage(Is2, Identity, m5)
  <2>0. 4 \in DOMAIN Identity /\ Identity[4].name = "listenAddrs"
    BY DEF Identity, Field, Nested
  <2>1. Identity[4].kind = "bytes" /\ Identity[4].label = "repeated"
    BY DEF Identity, Field, Nested
  <2>2. Fits(Identity[4], LocalAddrs) /\ \A j \in DOMAIN LocalAddrs : Is2(Identity[4], LocalAddrs[j])
    BY <2>1, RpcAssumption, ManyIs
  <2>3. IsSet(Identity, m4, 4, LocalAddrs, m5)
    BY <2>0, <2>2 DEF IsSet
  <2> HIDE DEF m4, m5
  <2> QED
    BY <1>5, <2>2, <2>3, AllFields, Set2
<1>7. IdentityResponse(TRUE) = m5
  BY DEF IdentityResponse, Some, None, agent, addr
<1> QED
  BY <1>6, <1>7

\* and on another,
LEMMA IdentityIsFalse ==
  IsMessage(Is2, Identity, IdentityResponse(FALSE))
<1> DEFINE agent == <<120>>
           addr == LocalAddrs[1]
           m0 == New(Identity)
           m1 == [m0 EXCEPT !.observedAddr = <<addr>>]
           m2 == [m1 EXCEPT !.publicKey = <<LocalKey>>]
           m3 == [m2 EXCEPT !.agentVersion = <<agent>>]
           m4 == [m3 EXCEPT !.protocols = LocalProtos]
           m5 == [m4 EXCEPT !.listenAddrs = LocalAddrs]
<1>a. agent \in Seq(Byte) /\ Utf8(agent)
  BY DEF Byte, Utf8
<1>b. addr \in Seq(Byte)
  BY RpcAssumption, EmptySeq
<1> HIDE DEF agent, addr
<1>1. IsMessage(Is2, Identity, m0)
  BY New2, AllTypes
<1>2. IsMessage(Is2, Identity, m1)
  <2>0. 5 \in DOMAIN Identity /\ Identity[5].name = "observedAddr"
    BY DEF Identity, Field, Nested
  <2>1. IsSetTo(Identity, m0, 5, addr, m1)
    BY <2>0 DEF IsSetTo
  <2>2. Is2(Identity[5], addr)
    BY <1>b, BytesIs DEF Identity, Field, Nested
  <2> HIDE DEF m0, m1
  <2> QED
    BY <1>1, <2>1, <2>2, AllFields, SetOne2
<1>3. IsMessage(Is2, Identity, m2)
  <2>0. 3 \in DOMAIN Identity /\ Identity[3].name = "publicKey"
    BY DEF Identity, Field, Nested
  <2>1. IsSetTo(Identity, m1, 3, LocalKey, m2)
    BY <2>0 DEF IsSetTo
  <2>2. Is2(Identity[3], LocalKey)
    BY RpcAssumption, BytesIs DEF Identity, Field, Nested
  <2> HIDE DEF m1, m2
  <2> QED
    BY <1>2, <2>1, <2>2, AllFields, SetOne2
<1>4. IsMessage(Is2, Identity, m3)
  <2>0. 2 \in DOMAIN Identity /\ Identity[2].name = "agentVersion"
    BY DEF Identity, Field, Nested
  <2>1. IsSetTo(Identity, m2, 2, agent, m3)
    BY <2>0 DEF IsSetTo
  <2>2. Is2(Identity[2], agent)
    BY <1>a, StringIs DEF Identity, Field, Nested
  <2> HIDE DEF m2, m3
  <2> QED
    BY <1>3, <2>1, <2>2, AllFields, SetOne2
<1>5. IsMessage(Is2, Identity, m4)
  <2>0. 6 \in DOMAIN Identity /\ Identity[6].name = "protocols"
    BY DEF Identity, Field, Nested
  <2>1. Identity[6].kind = "string" /\ Identity[6].label = "repeated"
    BY DEF Identity, Field, Nested
  <2>2. Fits(Identity[6], LocalProtos) /\ \A j \in DOMAIN LocalProtos : Is2(Identity[6], LocalProtos[j])
    BY <2>1, RpcAssumption, StringsIs
  <2>3. IsSet(Identity, m3, 6, LocalProtos, m4)
    BY <2>0, <2>2 DEF IsSet
  <2> HIDE DEF m3, m4
  <2> QED
    BY <1>4, <2>2, <2>3, AllFields, Set2
<1>6. IsMessage(Is2, Identity, m5)
  <2>0. 4 \in DOMAIN Identity /\ Identity[4].name = "listenAddrs"
    BY DEF Identity, Field, Nested
  <2>1. Identity[4].kind = "bytes" /\ Identity[4].label = "repeated"
    BY DEF Identity, Field, Nested
  <2>2. Fits(Identity[4], LocalAddrs) /\ \A j \in DOMAIN LocalAddrs : Is2(Identity[4], LocalAddrs[j])
    BY <2>1, RpcAssumption, ManyIs
  <2>3. IsSet(Identity, m4, 4, LocalAddrs, m5)
    BY <2>0, <2>2 DEF IsSet
  <2> HIDE DEF m4, m5
  <2> QED
    BY <1>5, <2>2, <2>3, AllFields, Set2
<1>7. IdentityResponse(FALSE) = m5
  BY DEF IdentityResponse, Some, None, agent, addr
<1> QED
  BY <1>6, <1>7

\* and autonat_request_prv.
LEMMA AutonatDialIs ==
  IsMessage(Is2, AutonatMessage, AutonatDial)
<1> DEFINE p0 == New(AutonatPeer)
           p1 == [p0 EXCEPT !.id = <<LocalId>>]
           p2 == [p1 EXCEPT !.addrs = LocalAddrs]
           q0 == New(Dial)
           q1 == [q0 EXCEPT !.peer = <<p2>>]
           m0 == New(AutonatMessage)
           m1 == [m0 EXCEPT !.type_ = <<0>>]
           m2 == [m1 EXCEPT !.dial = <<q1>>]
<1>1. IsMessage(Is0, AutonatPeer, p0)
  BY New0, AllTypes
<1>2. IsMessage(Is0, AutonatPeer, p1)
  <2>0. 1 \in DOMAIN AutonatPeer /\ AutonatPeer[1].name = "id"
    BY DEF AutonatPeer, Field, Nested
  <2>1. IsSetTo(AutonatPeer, p0, 1, LocalId, p1)
    BY <2>0 DEF IsSetTo
  <2>2. Is0(AutonatPeer[1], LocalId)
    BY RpcAssumption, BytesIs DEF AutonatPeer, Field, Nested
  <2> HIDE DEF p0, p1
  <2> QED
    BY <1>1, <2>1, <2>2, AllFields, SetOne0
<1>3. IsMessage(Is0, AutonatPeer, p2)
  <2>0. 2 \in DOMAIN AutonatPeer /\ AutonatPeer[2].name = "addrs"
    BY DEF AutonatPeer, Field, Nested
  <2>1. AutonatPeer[2].kind = "bytes" /\ AutonatPeer[2].label = "repeated"
    BY DEF AutonatPeer, Field, Nested
  <2>2. Fits(AutonatPeer[2], LocalAddrs) /\ \A j \in DOMAIN LocalAddrs : Is0(AutonatPeer[2], LocalAddrs[j])
    BY <2>1, RpcAssumption, ManyIs
  <2>3. IsSet(AutonatPeer, p1, 2, LocalAddrs, p2)
    BY <2>0, <2>2 DEF IsSet
  <2> HIDE DEF p1, p2
  <2> QED
    BY <1>2, <2>2, <2>3, AllFields, Set0
<1>4. IsMessage(Is1, Dial, q0)
  BY New1, AllTypes
<1>5. IsMessage(Is1, Dial, q1)
  <2>0. 1 \in DOMAIN Dial /\ Dial[1].name = "peer"
    BY DEF Dial, Field, Nested
  <2>1. IsSetTo(Dial, q0, 1, p2, q1)
    BY <2>0 DEF IsSetTo
  <2>2. Is1(Dial[1], p2)
    BY <1>3, MessageIs DEF Dial, Field, Nested
  <2> HIDE DEF q0, q1, p2
  <2> QED
    BY <1>4, <2>1, <2>2, AllFields, SetOne1
<1>6. IsMessage(Is2, AutonatMessage, m0)
  BY New2, AllTypes
<1>7. IsMessage(Is2, AutonatMessage, m1)
  <2>0. 1 \in DOMAIN AutonatMessage /\ AutonatMessage[1].name = "type_"
    BY DEF AutonatMessage, Field, Nested
  <2>1. IsSetTo(AutonatMessage, m0, 1, 0, m1)
    BY <2>0 DEF IsSetTo
  <2>2. Is2(AutonatMessage[1], 0)
    BY NumberIs DEF AutonatMessage, Field, Nested
  <2> HIDE DEF m0, m1
  <2> QED
    BY <1>6, <2>1, <2>2, AllFields, SetOne2
<1>8. IsMessage(Is2, AutonatMessage, m2)
  <2>0. 2 \in DOMAIN AutonatMessage /\ AutonatMessage[2].name = "dial"
    BY DEF AutonatMessage, Field, Nested
  <2>1. IsSetTo(AutonatMessage, m1, 2, q1, m2)
    BY <2>0 DEF IsSetTo
  <2>2. Is2(AutonatMessage[2], q1)
    BY <1>5, MessageIs DEF AutonatMessage, Field, Nested
  <2> HIDE DEF m1, m2, q1
  <2> QED
    BY <1>7, <2>1, <2>2, AllFields, SetOne2
<1>9. AutonatDial = m2
  BY DEF AutonatDial, AutonatType, Some
<1> QED
  BY <1>8, <1>9

-----------------------------------------------------------------------------
(* What is written is read.                                                *)

\* What the generated code writes of a message has the length that compute_size
\* says, and merge_from makes of it that message and no other.
THEOREM WrittenIsRead ==
  ASSUME NEW fields, IsType2(fields), NEW m, IsMessage(Is2, fields, m),
         ComputeSize(fields, m) \in Number
  PROVE  /\ Write(fields, m) \in Bytes /\ Len(Write(fields, m)) = ComputeSize(fields, m)
         /\ MergeFrom(fields, Write(fields, m)) = {m}
<1> DEFINE items == Items(Coded2, fields, m)
<1>1. SizeOfAll(items) \in Number
  BY Zenon DEF ComputeSize
<1> HIDE DEF items
<1>2. items = Items(Coded2, fields, m)
  BY Zenon DEF items
<1>3. /\ WriteAll(items) \in Bytes /\ Len(WriteAll(items)) = SizeOfAll(items)
      /\ Merge(Read2, fields, WriteAll(items)) = {m}
  BY <1>1, <1>2, Message2, Zenon
<1> QED
  BY <1>2, <1>3, Zenon DEF ComputeSize, Write, MergeFrom

\* What is read is the message when it has what is required.
LEMMA ParsedIs ==
  ASSUME NEW fields, NEW m, NEW b, MergeFrom(fields, b) = {m}
  PROVE  ParseFromBytes(fields, b) = {x \in {m} : Initialized(fields, x)}
BY Zenon DEF ParseFromBytes

\* A frame is a length that reads back, and that many bytes.
LEMMA FrameParts ==
  ASSUME NEW fields, IsType2(fields), NEW m, IsMessage(Is2, fields, m),
         NEW s, s = ComputeSize(fields, m), s \in Number, NEW v \in Bytes
  PROVE  /\ s \in Nat /\ Varint(s) \in Bytes /\ Len(Varint(s)) = VarintSize(s)
         /\ VarintSize(s) \in 1 .. 10
         /\ Frame(fields, m) = Cat(Varint(s), Write(fields, m))
         /\ Frame(fields, m) \in Bytes /\ Len(Frame(fields, m)) = VarintSize(s) + s
         /\ ReadVarint(Cat(Frame(fields, m), v), 1) = {[value |-> s, next |-> 1 + VarintSize(s)]}
<1> DEFINE w == Write(fields, m)
           F == Frame(fields, m)
           x == Varint(s)
           e == <<>>
<1>1. w \in Bytes /\ Len(w) = s
  BY WrittenIsRead, Zenon
<1>2. e \in Bytes /\ Len(e) = 0
  BY DEF Bytes
<1>3. F = Cat(x, w)
  BY Zenon DEF Frame, Cat
<1>4. ASSUME NEW u \in Bytes
      PROVE  Cat(e, u) = u
  BY <1>4, CatEmpty, Zenon DEF Bytes
<1> HIDE DEF w, F, x, e
<1>5. s \in Nat
  BY <1>1, CatBytes
<1>6. /\ x \in Bytes /\ Len(x) = VarintSize(s) /\ VarintSize(s) \in 1 .. 10
  BY <1>1, VarintRead DEF x
<1>7. F \in Bytes /\ Len(F) = VarintSize(s) + s
  BY <1>1, <1>3, <1>6, CatBytes
<1>8. ReadVarint(Cat(F, v), 1) = {[value |-> s, next |-> 1 + VarintSize(s)]}
  <2>1. Cat(F, v) = Cat(x, Cat(w, v)) /\ Cat(w, v) \in Bytes
    BY <1>1, <1>3, <1>6, CatBytes
  <2> DEFINE r == Cat(w, v)
  <2> HIDE DEF r
  <2>2. Cat(F, v) = Cat(x, r) /\ r \in Bytes
    BY <2>1 DEF r
  <2>3. ReadVarint(Cat(e, Cat(Varint(s), r)), Len(e) + 1)
          = {[value |-> s, next |-> Len(e) + 1 + VarintSize(s)]}
    BY <2>2, <1>2, VarintRead
  <2>4. Cat(e, Cat(x, r)) = Cat(x, r)
    BY <1>4, <1>6, <2>2, CatBytes
  <2> QED
    BY <1>2, <2>2, <2>3, <2>4 DEF x
<1> QED
  BY <1>1, <1>3, <1>5, <1>6, <1>7, <1>8 DEF x, F, w

-----------------------------------------------------------------------------
(* A number at the beginning of bytes that go on.                          *)

\* The byte where the number that begins the bytes ends.
Ends(b, e) ==
  /\ e \in 1 .. Len(b) /\ e < 11 /\ b[e] < 128
  /\ \A j \in 1 .. (e - 1) : b[j] >= 128

\* There is a number for each end.
LEMMA ReadByEnds ==
  ASSUME NEW b \in Bytes
  PROVE  \E E, R : /\ ReadVarint(b, 1) = {R[e] : e \in E}
                   /\ E \in SUBSET Nat
                   /\ \A e \in Nat : e \in E <=> Ends(b, e)
                   /\ \A e \in E : R[e].next = e + 1
<1> DEFINE E == {k \in 1 .. Len(b) : k < 1 + 10 /\ b[k] < 128 /\ \A j \in 1 .. (k - 1) : b[j] >= 128}
           D(j, e) == IF j <= e THEN b[j] % 128 ELSE 0
           V(e) == [value |-> D(1, e) + 128 * D(1 + 1, e) + 16384 * D(1 + 2, e)
                              + 2097152 * D(1 + 3, e) - (IF e = 1 + 9 THEN 268435456 ELSE 0),
                    next  |-> e + 1]
           R == [e \in E |-> V(e)]
<1>1. \A e \in Nat : e \in E <=> Ends(b, e)
  BY SMT DEF Ends
<1>2. E \in SUBSET Nat
  BY SMT, CatBytes
<1>3. ReadVarint(b, 1) = {V(e) : e \in E}
  BY SMT DEF ReadVarint
<1>4. \A e \in E : R[e] = V(e) /\ R[e].next = e + 1
  BY SMT
<1> HIDE DEF E, R, D, V
<1>5. ReadVarint(b, 1) = {R[e] : e \in E}
  BY <1>3, <1>4, SMT
<1> QED
  BY <1>1, <1>2, <1>4, <1>5, Zenon

\* A varint is read up to where it ends,
LEMMA ReadEnds ==
  ASSUME NEW b \in Bytes, NEW r \in ReadVarint(b, 1)
  PROVE  \E e \in Nat : Ends(b, e) /\ r.next = e + 1
<1>1. PICK E, R : /\ ReadVarint(b, 1) = {R[e] : e \in E}
                  /\ E \in SUBSET Nat
                  /\ \A e \in Nat : e \in E <=> Ends(b, e)
                  /\ \A e \in E : R[e].next = e + 1
  BY ReadByEnds, Zenon
<1>2. PICK e \in E : r = R[e]
  BY <1>1, SMT
<1>3. e \in Nat /\ Ends(b, e) /\ R[e].next = e + 1
  BY <1>1
<1> QED
  BY <1>2, <1>3, Zenon

\* and read when it ends.
LEMMA EndsRead ==
  ASSUME NEW b \in Bytes, NEW e \in Nat, Ends(b, e)
  PROVE  \E r \in ReadVarint(b, 1) : r.next = e + 1
BY ReadByEnds

\* It ends once.
LEMMA EndsOnce ==
  ASSUME NEW b \in Bytes, NEW e \in Nat, NEW k \in Nat, Ends(b, e), Ends(b, k)
  PROVE  e = k
<1>1. Len(b) \in Nat /\ \A j \in 1 .. Len(b) : b[j] \in Int
  BY ByteAt DEF Bytes
<1>2. ~(e < k)
  <2>1. SUFFICES ASSUME e < k PROVE FALSE
    OBVIOUS
  <2>2. e \in 1 .. (k - 1) /\ e \in 1 .. Len(b) /\ b[e] < 128
    BY <2>1 DEF Ends
  <2>3. b[e] >= 128
    BY <2>2 DEF Ends
  <2> QED
    BY <1>1, <2>2, <2>3
<1>3. ~(k < e)
  <2>1. SUFFICES ASSUME k < e PROVE FALSE
    OBVIOUS
  <2>2. k \in 1 .. (e - 1) /\ k \in 1 .. Len(b) /\ b[k] < 128
    BY <2>1 DEF Ends
  <2>3. b[k] >= 128
    BY <2>2 DEF Ends
  <2> QED
    BY <1>1, <2>2, <2>3
<1> QED
  BY <1>2, <1>3

\* The first bytes are the same, whatever follows them.
LEMMA CatFirst ==
  ASSUME NEW p \in Bytes, NEW q \in Bytes
  PROVE  /\ Cat(p, q) \in Bytes /\ Len(Cat(p, q)) = Len(p) + Len(q) /\ Len(p) \in Nat /\ Len(q) \in Nat
         /\ \A j \in 1 .. Len(p) : Cat(p, q)[j] = p[j]
         /\ \A j \in 1 .. Len(q) : Cat(p, q)[Len(p) + j] = q[j]
BY DEF Bytes, Cat

\* What follows a varint does not matter.
LEMMA EndsInFirst ==
  ASSUME NEW p \in Bytes, NEW q \in Bytes, NEW e \in Nat
  PROVE  /\ Ends(p, e) => Ends(Cat(p, q), e)
         /\ Ends(Cat(p, q), e) /\ e <= Len(p) => Ends(p, e)
<1> DEFINE z == Cat(p, q)
<1>1. /\ Len(z) = Len(p) + Len(q) /\ Len(p) \in Nat /\ Len(q) \in Nat
      /\ \A j \in 1 .. Len(p) : z[j] = p[j]
  BY CatFirst
<1> HIDE DEF z
<1>2. ASSUME Ends(p, e)
      PROVE  Ends(z, e)
  <2>1. e \in 1 .. Len(p) /\ e \in 1 .. Len(z) /\ e < 11 /\ z[e] < 128
    BY <1>1, <1>2 DEF Ends
  <2>2. ASSUME NEW j \in 1 .. (e - 1)
        PROVE  z[j] >= 128
    <3>1. j \in 1 .. Len(p) /\ p[j] >= 128
      BY <1>1, <1>2, <2>1 DEF Ends
    <3> QED
      BY <1>1, <3>1
  <2> QED
    BY <2>1, <2>2 DEF Ends
<1>3. ASSUME Ends(z, e), e <= Len(p)
      PROVE  Ends(p, e)
  <2>1. e \in 1 .. Len(p) /\ e < 11 /\ p[e] < 128
    BY <1>1, <1>3 DEF Ends
  <2>2. ASSUME NEW j \in 1 .. (e - 1)
        PROVE  p[j] >= 128
    <3>1. j \in 1 .. Len(p) /\ z[j] >= 128
      BY <1>1, <1>3, <2>1 DEF Ends
    <3> QED
      BY <1>1, <3>1
  <2> QED
    BY <2>1, <2>2 DEF Ends
<1> QED
  BY <1>2, <1>3 DEF z

\* At most one varint is read.
LEMMA ReadOnce ==
  ASSUME NEW b \in Bytes, NEW r \in ReadVarint(b, 1), NEW t \in ReadVarint(b, 1)
  PROVE  r = t
<1>1. PICK E, R : /\ ReadVarint(b, 1) = {R[e] : e \in E}
                  /\ E \in SUBSET Nat
                  /\ \A e \in Nat : e \in E <=> Ends(b, e)
  BY ReadByEnds, Zenon
<1>2. \A e, k \in E : e = k
  BY <1>1, EndsOnce
<1> QED
  BY <1>1, <1>2, SMT

-----------------------------------------------------------------------------
(* What the calls write.                                                   *)

\* M::new() has no values but the defaults.
LEMMA NewEmpty ==
  ASSUME NEW fields, IsFields(fields)
  PROVE  /\ DOMAIN New(fields) = Names(fields) \cup {"unknown"}
         /\ New(fields)["unknown"] = <<>>
         /\ \A i \in DOMAIN fields :
               /\ fields[i].name \in Names(fields)
               /\ fields[i].label # "plain" => New(fields)[fields[i].name] = <<>>
<1>1. \A i \in DOMAIN fields : /\ FieldNamed(fields, fields[i].name) = fields[i]
                               /\ fields[i].name # "unknown" /\ fields[i].name \in Names(fields)
  BY FieldByName DEF IsFields, Names
<1> QED
  BY <1>1 DEF New

\* The values of the answer of circuit_v2_stop_connect_accept.
LEMMA StopAcceptedValues ==
  /\ StopAccepted["type_"] = <<1>> /\ StopAccepted["peer"] = <<>>
  /\ StopAccepted["limit"] = <<>> /\ StopAccepted["status"] = <<100>>
  /\ StopAccepted["unknown"] = <<>>
<1> DEFINE m0 == New(StopMessage)
<1>1. /\ StopMessage[1].name = "type_" /\ StopMessage[1].label = "optional"
      /\ StopMessage[2].name = "peer" /\ StopMessage[2].label = "optional"
      /\ StopMessage[3].name = "limit" /\ StopMessage[3].label = "optional"
      /\ StopMessage[4].name = "status" /\ StopMessage[4].label = "optional"
      /\ DOMAIN StopMessage = 1 .. 4
  BY DEF StopMessage, Field, Nested
<1>2. /\ {"type_", "peer", "limit", "status", "unknown"} \subseteq DOMAIN m0
      /\ m0["type_"] = <<>> /\ m0["peer"] = <<>> /\ m0["limit"] = <<>> /\ m0["status"] = <<>>
      /\ m0["unknown"] = <<>>
  <2>1. \A i \in {1, 2, 3, 4} : /\ StopMessage[i].name \in DOMAIN m0
                                /\ m0[StopMessage[i].name] = <<>>
    <3>1. \A i \in {1, 2, 3, 4} : i \in DOMAIN StopMessage /\ StopMessage[i].label # "plain"
      BY <1>1
    <3>2. /\ DOMAIN m0 = Names(StopMessage) \cup {"unknown"}
          /\ \A i \in DOMAIN StopMessage :
                /\ StopMessage[i].name \in Names(StopMessage)
                /\ StopMessage[i].label # "plain" => m0[StopMessage[i].name] = <<>>
      BY AllFields, NewEmpty, Zenon
    <3> HIDE DEF m0
    <3> QED
      BY <3>1, <3>2, Zenon
  <2>2. "unknown" \in DOMAIN m0 /\ m0["unknown"] = <<>>
    BY AllFields, NewEmpty
  <2> QED
    BY <1>1, <2>1, <2>2
<1> HIDE DEF m0
<1>3. StopAccepted = [m0 EXCEPT !["type_"] = <<1>>, !["status"] = <<100>>]
  BY DEF StopAccepted, StopType, Status, Some, m0
<1> QED
  BY <1>2, <1>3

\* One element and a sequence.
LEMMA ConsOne ==
  ASSUME NEW S, NEW a \in S, NEW t \in Seq(S), NEW w, w = <<a>> \o t
  PROVE  /\ w \in Seq(S) /\ Len(w) = Len(t) + 1 /\ Len(t) \in Nat
         /\ w[1] = a /\ \A j \in 1 .. Len(t) : w[j + 1] = t[j]
<1> DEFINE p == <<a>>
<1>1. p \in Seq(S) /\ Len(p) = 1 /\ p[1] = a /\ w = p \o t
  OBVIOUS
<1> HIDE DEF p
<1> QED
  BY <1>1, ConcatProperties

\* Four things, one after the other.
LEMMA FourInTurn ==
  ASSUME NEW S, NEW a \in S, NEW b \in S, NEW c \in S, NEW d \in S
  PROVE  <<a, b, c, d>> = <<a>> \o (<<b>> \o (<<c>> \o <<d>>))
<1> DEFINE p == <<a>>
           q == <<b>>
           r == <<c>>
           s == <<d>>
<1>1. /\ p \in Seq(S) /\ q \in Seq(S) /\ r \in Seq(S) /\ s \in Seq(S)
      /\ Len(p) = 1 /\ Len(q) = 1 /\ Len(r) = 1 /\ Len(s) = 1
      /\ p[1] = a /\ q[1] = b /\ r[1] = c /\ s[1] = d
  OBVIOUS
<1> HIDE DEF p, q, r, s
<1> DEFINE u == r \o s
           v == q \o u
           w == p \o v
<1>0. u = <<c>> \o s /\ v = <<b>> \o u /\ w = <<a>> \o v
  BY Zenon DEF p, q, r
<1> HIDE DEF u, v, w
<1>2. u \in Seq(S) /\ Len(u) = 2 /\ u[1] = c /\ u[2] = d
  <2>0. s \in Seq(S) /\ u = <<c>> \o s
    BY <1>0, <1>1, Zenon
  <2>1. /\ u \in Seq(S) /\ Len(u) = Len(s) + 1
        /\ u[1] = c /\ \A j \in 1 .. Len(s) : u[j + 1] = s[j]
    BY <2>0, ConsOne
  <2> QED
    BY <1>1, <2>1
<1>3. v \in Seq(S) /\ Len(v) = 3 /\ v[1] = b /\ v[2] = c /\ v[3] = d
  <2>1. /\ v \in Seq(S) /\ Len(v) = Len(u) + 1
        /\ v[1] = b /\ \A j \in 1 .. Len(u) : v[j + 1] = u[j]
    BY <1>2, <1>0, ConsOne
  <2> QED
    BY <1>2, <2>1
<1>4. w \in Seq(S) /\ Len(w) = 4 /\ w[1] = a /\ w[2] = b /\ w[3] = c /\ w[4] = d
  <2>1. /\ w \in Seq(S) /\ Len(w) = Len(v) + 1
        /\ w[1] = a /\ \A j \in 1 .. Len(v) : w[j + 1] = v[j]
    BY <1>3, <1>0, ConsOne
  <2> QED
    BY <1>3, <2>1
<1>5. w = <<a, b, c, d>>
  BY <1>4
<1> QED
  BY <1>0, <1>5, Zenon DEF s

\* It is small.
LEMMA StopAcceptedSize == ComputeSize(StopMessage, StopAccepted) \in Number
<1> DEFINE m == StopAccepted
           W(i) == Written(StopMessage[i], m)
           C(i) == [j \in DOMAIN W(i) |-> Coded2(StopMessage[i], W(i)[j])]
           c == Coded0(StopMessage[1], 1)
           d == Coded0(StopMessage[4], 100)
           coded == [i \in DOMAIN StopMessage |-> C(i)]
<1>1. /\ DOMAIN StopMessage = 1 .. 4
      /\ StopMessage[1] = Field("type_", 1, "varint", "optional")
      /\ StopMessage[2].name = "peer" /\ StopMessage[2].label = "optional"
      /\ StopMessage[3].name = "limit" /\ StopMessage[3].label = "optional"
      /\ StopMessage[4] = Field("status", 4, "varint", "optional")
  BY DEF StopMessage, Nested, Field
<1>2. W(1) = <<1>> /\ W(2) = <<>> /\ W(3) = <<>> /\ W(4) = <<100>>
  BY <1>1, StopAcceptedValues DEF Written, Field
<1>3. C(1) = <<c>> /\ C(2) = <<>> /\ C(3) = <<>> /\ C(4) = <<d>>
  BY <1>1, <1>2 DEF Coded2, Field
<1>4. /\ ItemSize(c) \in 0 .. 20 /\ ItemSize(d) \in 0 .. 20
  BY <1>1, SMT DEF c, d, Coded0, ItemSize, VarintSize, TagOf, WireType, Field
<1>5. Items(Coded2, StopMessage, m) = Listed(coded, m["unknown"])
  BY Zenon DEF Items
<1> HIDE DEF c, d, W, C, m
<1>6. coded = <<<<c>>, <<>>, <<>>, <<d>>>>
  BY <1>1, <1>3
<1> DEFINE S == {c, d}
<1>7. Items(Coded2, StopMessage, m) = <<c>> \o <<d>>
  <2>1. m["unknown"] = <<>>
    BY StopAcceptedValues DEF m
  <2> DEFINE x == <<c>>
             y == <<d>>
             e == <<>>
  <2>2. x \in Seq(S) /\ y \in Seq(S) /\ e \in Seq(S)
    OBVIOUS
  <2> HIDE DEF x, y, e, S
  <2>3. FlattenSeq(<<x>> \o (<<e>> \o (<<e>> \o <<y>>))) = x \o (e \o (e \o y))
    <3> DEFINE t == <<y>>
               u == <<e>> \o t
               v == <<e>> \o u
    <3>1. t \in Seq(Seq(S)) /\ u \in Seq(Seq(S)) /\ v \in Seq(Seq(S))
      BY <2>2
    <3> HIDE DEF t, u, v
    <3>2. FlattenSeq(t) = y
      <4>1. FlattenSeq(<<y>>) = y
        BY <2>2, <3>1, FlattenCons
      <4> QED
        BY <4>1 DEF t
    <3>3. FlattenSeq(u) = e \o FlattenSeq(t)
      BY <2>2, <3>1, FlattenCons DEF u
    <3>4. FlattenSeq(v) = e \o FlattenSeq(u)
      BY <2>2, <3>1, FlattenCons DEF v
    <3>5. FlattenSeq(<<x>> \o v) = x \o FlattenSeq(v)
      BY <2>2, <3>1, FlattenCons
    <3> QED
      BY <3>2, <3>3, <3>4, <3>5 DEF t, u, v
  <2>4. coded = <<x>> \o (<<e>> \o (<<e>> \o <<y>>))
    <3>1. coded = <<x, e, e, y>>
      BY <1>6, Zenon DEF x, y, e
    <3> HIDE DEF coded
    <3>2. <<x, e, e, y>> = <<x>> \o (<<e>> \o (<<e>> \o <<y>>))
      BY <2>2, FourInTurn, ZenonT(30)
    <3> QED
      BY <3>1, <3>2, Zenon
  <2>5. x \o (e \o (e \o y)) = x \o y /\ (x \o y) \o e = x \o y
    BY <2>2 DEF e
  <2> HIDE DEF coded
  <2>6. Items(Coded2, StopMessage, m) = (x \o (e \o (e \o y))) \o e
    BY <1>5, <2>1, <2>3, <2>4, Zenon DEF Listed, e
  <2> QED
    BY <2>5, <2>6 DEF x, y
<1>8. SizeOfAll(<<c>> \o <<d>>) = ItemSize(c) + ItemSize(d)
  <2>1. \A it \in S : ItemSize(it) \in Nat
    BY <1>4
  <2>2. c \in S /\ d \in S
    OBVIOUS
  <2> HIDE DEF S
  <2> DEFINE x == <<c>>
             y == <<d>>
  <2>3. x \in Seq(S) /\ y \in Seq(S)
    BY <2>2
  <2>4. SizeOfAll(x) = ItemSize(c) /\ SizeOfAll(y) = ItemSize(d)
    BY <2>1, <2>2, <2>3, SizeSteps
  <2> HIDE DEF x, y
  <2>5. SizeOfAll(x \o y) = SizeOfAll(x) + SizeOfAll(y)
    BY <2>1, <2>2, <2>3, SizeSteps
  <2> QED
    BY <2>4, <2>5 DEF x, y
<1>9. ComputeSize(StopMessage, m) = SizeOfAll(Items(Coded2, StopMessage, m))
  BY Zenon DEF ComputeSize
<1>10. ComputeSize(StopMessage, m) = ItemSize(c) + ItemSize(d)
  BY <1>7, <1>8, <1>9, Zenon
<1> QED
  BY <1>4, <1>10, SMT DEF Number, m

\* Only HolePunch has a field that is required.
LEMMA NoneRequired ==
  \A fields \in {HopMessage, StopMessage, Identity, AutonatMessage, KadMessage} :
     \A m : Initialized(fields, m)
<1>1. \A i \in DOMAIN HopMessage : HopMessage[i].label # "required"
  BY DEF HopMessage, Field, Nested
<1>2. \A i \in DOMAIN StopMessage : StopMessage[i].label # "required"
  BY DEF StopMessage, Field, Nested
<1>3. \A i \in DOMAIN Identity : Identity[i].label # "required"
  BY DEF Identity, Field, Nested
<1>4. \A i \in DOMAIN AutonatMessage : AutonatMessage[i].label # "required"
  BY DEF AutonatMessage, Field, Nested
<1>5. \A i \in DOMAIN KadMessage : KadMessage[i].label # "required"
  BY DEF KadMessage, Field, Nested
<1> QED
  BY <1>1, <1>2, <1>3, <1>4, <1>5, Zenon DEF Initialized

\* The type of a DCUtR message, which is required, is set.
LEMMA PunchSet == Initialized(HolePunch, DcutrConnect) /\ Initialized(HolePunch, DcutrSync)
<1> DEFINE m == New(HolePunch)
<1>1. \A i \in DOMAIN HolePunch : HolePunch[i].label = "required" => HolePunch[i].name = "type_"
  BY DEF HolePunch, Field, Nested
<1>2. "type_" \in DOMAIN m
  <2>1. 1 \in DOMAIN HolePunch /\ HolePunch[1].name = "type_"
    BY DEF HolePunch, Field, Nested
  <2> QED
    BY <2>1, AllFields, NewEmpty
<1> HIDE DEF m
<1>3. DcutrConnect = [m EXCEPT !["type_"] = <<100>>, !["ObsAddrs"] = LocalAddrs]
  BY DEF DcutrConnect, HolePunchType, Some, m
<1>4. DcutrSync = [m EXCEPT !["type_"] = <<300>>]
  BY DEF DcutrSync, HolePunchType, Some, m
<1>5. DcutrConnect["type_"] # <<>> /\ DcutrSync["type_"] # <<>>
  BY <1>2, <1>3, <1>4
<1> QED
  BY <1>1, <1>5, Zenon DEF Initialized

\* Every request is a message of its protocol, and has what is required.
LEMMA RequestIs ==
  ASSUME NEW c, Request(c) # None
  PROVE  /\ Request(c) = <<Request(c)[1]>>
         /\ IsMessage(Is2, TypeOf(c), Request(c)[1]) /\ Initialized(TypeOf(c), Request(c)[1])
<1>1. CASE c = "hop_reserve"
  <2>1. Request(c) = <<HopReserve>> /\ TypeOf(c) = HopMessage
    BY <1>1 DEF Request, TypeOf, Some
  <2>2. IsMessage(Is2, HopMessage, HopReserve)
    BY HopReserveIs, Zenon
  <2>3. Initialized(HopMessage, HopReserve)
    BY NoneRequired
  <2>4. <<HopReserve>>[1] = HopReserve
    OBVIOUS
  <2> QED
    BY <2>1, <2>2, <2>3, <2>4, Zenon
<1>2. CASE c = "hop_connect"
  <2>1. Request(c) = <<HopConnect>> /\ TypeOf(c) = HopMessage
    BY <1>2 DEF Request, TypeOf, Some
  <2>2. IsMessage(Is2, HopMessage, HopConnect)
    BY HopConnectIs, Zenon
  <2>3. Initialized(HopMessage, HopConnect)
    BY NoneRequired
  <2>4. <<HopConnect>>[1] = HopConnect
    OBVIOUS
  <2> QED
    BY <2>1, <2>2, <2>3, <2>4, Zenon
<1>3. CASE c = "stop_connect"
  <2>1. Request(c) = <<StopConnect>> /\ TypeOf(c) = StopMessage
    BY <1>3 DEF Request, TypeOf, Some
  <2>2. IsMessage(Is2, StopMessage, StopConnect)
    BY StopConnectIs, Zenon
  <2>3. Initialized(StopMessage, StopConnect)
    BY NoneRequired
  <2>4. <<StopConnect>>[1] = StopConnect
    OBVIOUS
  <2> QED
    BY <2>1, <2>2, <2>3, <2>4, Zenon
<1>4. CASE c = "dcutr_send_connect"
  <2>1. Request(c) = <<DcutrConnect>> /\ TypeOf(c) = HolePunch
    BY <1>4 DEF Request, TypeOf, Some
  <2>2. IsMessage(Is2, HolePunch, DcutrConnect)
    BY DcutrConnectIs, Zenon
  <2>3. Initialized(HolePunch, DcutrConnect)
    BY PunchSet
  <2>4. <<DcutrConnect>>[1] = DcutrConnect
    OBVIOUS
  <2> QED
    BY <2>1, <2>2, <2>3, <2>4, Zenon
<1>5. CASE c = "dcutr_send_sync"
  <2>1. Request(c) = <<DcutrSync>> /\ TypeOf(c) = HolePunch
    BY <1>5 DEF Request, TypeOf, Some
  <2>2. IsMessage(Is2, HolePunch, DcutrSync)
    BY DcutrSyncIs, Zenon
  <2>3. Initialized(HolePunch, DcutrSync)
    BY PunchSet
  <2>4. <<DcutrSync>>[1] = DcutrSync
    OBVIOUS
  <2> QED
    BY <2>1, <2>2, <2>3, <2>4, Zenon
<1>6. CASE c = "find_node"
  <2>1. Request(c) = <<KadRequest(MessageType.FIND_NODE)>> /\ TypeOf(c) = KadMessage
    BY <1>6 DEF Request, TypeOf, Some
  <2>2. IsMessage(Is2, KadMessage, KadRequest(MessageType.FIND_NODE))
    BY KadRequestIs DEF MessageType
  <2>3. Initialized(KadMessage, KadRequest(MessageType.FIND_NODE))
    BY NoneRequired
  <2>4. <<KadRequest(MessageType.FIND_NODE)>>[1] = KadRequest(MessageType.FIND_NODE)
    OBVIOUS
  <2> QED
    BY <2>1, <2>2, <2>3, <2>4, Zenon
<1>7. CASE c = "put_value"
  <2>1. Request(c) = <<PutValue>> /\ TypeOf(c) = KadMessage
    BY <1>7 DEF Request, TypeOf, Some
  <2>2. IsMessage(Is2, KadMessage, PutValue)
    BY PutValueIs, Zenon
  <2>3. Initialized(KadMessage, PutValue)
    BY NoneRequired
  <2>4. <<PutValue>>[1] = PutValue
    OBVIOUS
  <2> QED
    BY <2>1, <2>2, <2>3, <2>4, Zenon
<1>8. CASE c = "get_value"
  <2>1. Request(c) = <<KadRequest(MessageType.GET_VALUE)>> /\ TypeOf(c) = KadMessage
    BY <1>8 DEF Request, TypeOf, Some
  <2>2. IsMessage(Is2, KadMessage, KadRequest(MessageType.GET_VALUE))
    BY KadRequestIs DEF MessageType
  <2>3. Initialized(KadMessage, KadRequest(MessageType.GET_VALUE))
    BY NoneRequired
  <2>4. <<KadRequest(MessageType.GET_VALUE)>>[1] = KadRequest(MessageType.GET_VALUE)
    OBVIOUS
  <2> QED
    BY <2>1, <2>2, <2>3, <2>4, Zenon
<1>9. CASE c = "add_provider"
  <2>1. Request(c) = <<AddProvider>> /\ TypeOf(c) = KadMessage
    BY <1>9 DEF Request, TypeOf, Some
  <2>2. IsMessage(Is2, KadMessage, AddProvider)
    BY AddProviderIs, Zenon
  <2>3. Initialized(KadMessage, AddProvider)
    BY NoneRequired
  <2>4. <<AddProvider>>[1] = AddProvider
    OBVIOUS
  <2> QED
    BY <2>1, <2>2, <2>3, <2>4, Zenon
<1>10. CASE c = "get_providers"
  <2>1. Request(c) = <<KadRequest(MessageType.GET_PROVIDERS)>> /\ TypeOf(c) = KadMessage
    BY <1>10 DEF Request, TypeOf, Some
  <2>2. IsMessage(Is2, KadMessage, KadRequest(MessageType.GET_PROVIDERS))
    BY KadRequestIs DEF MessageType
  <2>3. Initialized(KadMessage, KadRequest(MessageType.GET_PROVIDERS))
    BY NoneRequired
  <2>4. <<KadRequest(MessageType.GET_PROVIDERS)>>[1] = KadRequest(MessageType.GET_PROVIDERS)
    OBVIOUS
  <2> QED
    BY <2>1, <2>2, <2>3, <2>4, Zenon
<1>11. CASE c = "identity_response"
  <2>1. Request(c) = <<IdentityResponse(FALSE)>> /\ TypeOf(c) = Identity
    BY <1>11 DEF Request, TypeOf, Some
  <2>2. IsMessage(Is2, Identity, IdentityResponse(FALSE))
    BY IdentityIsFalse, Zenon
  <2>3. Initialized(Identity, IdentityResponse(FALSE))
    BY NoneRequired
  <2>4. <<IdentityResponse(FALSE)>>[1] = IdentityResponse(FALSE)
    OBVIOUS
  <2> QED
    BY <2>1, <2>2, <2>3, <2>4, Zenon
<1>12. CASE c = "identity_response_relay"
  <2>1. Request(c) = <<IdentityResponse(TRUE)>> /\ TypeOf(c) = Identity
    BY <1>12 DEF Request, TypeOf, Some
  <2>2. IsMessage(Is2, Identity, IdentityResponse(TRUE))
    BY IdentityIsTrue, Zenon
  <2>3. Initialized(Identity, IdentityResponse(TRUE))
    BY NoneRequired
  <2>4. <<IdentityResponse(TRUE)>>[1] = IdentityResponse(TRUE)
    OBVIOUS
  <2> QED
    BY <2>1, <2>2, <2>3, <2>4, Zenon
<1>13. CASE c = "autonat"
  <2>1. Request(c) = <<AutonatDial>> /\ TypeOf(c) = AutonatMessage
    BY <1>13 DEF Request, TypeOf, Some
  <2>2. IsMessage(Is2, AutonatMessage, AutonatDial)
    BY AutonatDialIs, Zenon
  <2>3. Initialized(AutonatMessage, AutonatDial)
    BY NoneRequired
  <2>4. <<AutonatDial>>[1] = AutonatDial
    OBVIOUS
  <2> QED
    BY <2>1, <2>2, <2>3, <2>4, Zenon
<1> QED
  BY <1>1, <1>2, <1>3, <1>4, <1>5, <1>6, <1>7, <1>8, <1>9, <1>10, <1>11, <1>12, <1>13 DEF Request, None

-----------------------------------------------------------------------------
(* What is taken off a stream.                                             *)

\* Of bytes that are cut in two at the same place the parts are the same.
LEMMA SameParts ==
  ASSUME NEW u \in Bytes, NEW v \in Bytes, NEW x \in Bytes, NEW y \in Bytes,
         Cat(u, v) = Cat(x, y), Len(u) = Len(x)
  PROVE  u = x /\ v = y
<1> DEFINE z == Cat(u, v)
<1>1. /\ Len(z) = Len(u) + Len(v) /\ Len(u) \in Nat /\ Len(v) \in Nat
      /\ \A j \in 1 .. Len(u) : z[j] = u[j]
      /\ \A j \in 1 .. Len(v) : z[Len(u) + j] = v[j]
  BY CatFirst
<1>2. /\ Len(z) = Len(x) + Len(y) /\ Len(x) \in Nat /\ Len(y) \in Nat
      /\ \A j \in 1 .. Len(x) : z[j] = x[j]
      /\ \A j \in 1 .. Len(y) : z[Len(x) + j] = y[j]
  <2>1. z = Cat(x, y)
    OBVIOUS
  <2> HIDE DEF z
  <2> QED
    BY <2>1, CatFirst, ZenonT(30)
<1> HIDE DEF z
<1>3. \A j \in 1 .. Len(u) : u[j] = x[j]
  BY <1>1, <1>2
<1>4. Len(v) = Len(y) /\ \A j \in 1 .. Len(v) : v[j] = y[j]
  BY <1>1, <1>2
<1> QED
  BY <1>3, <1>4 DEF Bytes

\* Two parts of a string, one after the other, are the string.
LEMMA WholeOf ==
  ASSUME NEW w \in Bytes, NEW u \in Bytes, NEW v \in Bytes, Len(u) + Len(v) = Len(w),
         \A j \in 1 .. Len(u) : u[j] = w[j],
         \A j \in 1 .. Len(v) : v[j] = w[Len(u) + j]
  PROVE  Cat(u, v) = w
<1> DEFINE z == Cat(u, v)
<1>1. /\ z \in Bytes /\ Len(z) = Len(w) /\ Len(u) \in Nat /\ Len(v) \in Nat
      /\ \A j \in 1 .. Len(u) : z[j] = u[j]
      /\ \A j \in 1 .. Len(v) : z[Len(u) + j] = v[j]
  BY CatFirst
<1> HIDE DEF z
<1>2. \A j \in 1 .. Len(w) : z[j] = w[j]
  <2> TAKE j \in 1 .. Len(w)
  <2>1. CASE j <= Len(u)
    BY <1>1, <2>1
  <2>2. CASE j > Len(u)
    <3>1. j - Len(u) \in 1 .. Len(v) /\ Len(u) + (j - Len(u)) = j
      BY <1>1, <2>2
    <3>2. z[Len(u) + (j - Len(u))] = v[j - Len(u)] /\ v[j - Len(u)] = w[Len(u) + (j - Len(u))]
      BY <1>1, <3>1
    <3> QED
      BY <3>1, <3>2
  <2> QED
    BY <1>1, <2>1, <2>2
<1>3. z = w
  BY <1>1, <1>2 DEF Bytes
<1> QED
  BY <1>3 DEF z

\* The bytes between two strings may be of the first or of the second.
LEMMA CatMoved ==
  ASSUME NEW p \in Bytes, NEW h \in Bytes, NEW v \in Bytes, NEW z \in Bytes
  PROVE  Cat(Cat(p, h), Cat(v, z)) = Cat(p, Cat(Cat(h, v), z))
<1> DEFINE x == Cat(v, z)
<1>1. x \in Bytes /\ Cat(Cat(h, v), z) = Cat(h, x)
  BY CatBytes
<1> HIDE DEF x
<1>2. Cat(Cat(p, h), x) = Cat(p, Cat(h, x))
  BY <1>1, CatBytes
<1> QED
  BY <1>1, <1>2 DEF x

\* What is taken and what is left are what was there.
LEMMA CutAt ==
  ASSUME NEW w \in Bytes, NEW n \in Nat, n <= Len(w)
  PROVE  /\ SubSeq(w, 1, n) \in Bytes /\ SubSeq(w, n + 1, Len(w)) \in Bytes
         /\ Len(SubSeq(w, 1, n)) = n
         /\ Cat(SubSeq(w, 1, n), SubSeq(w, n + 1, Len(w))) = w
<1> DEFINE u == SubSeq(w, 1, n)
           v == SubSeq(w, n + 1, Len(w))
<1>1. u \in Bytes /\ v \in Bytes /\ Len(u) = n /\ Len(v) = Len(w) - n /\ Len(w) \in Nat
  BY DEF Bytes
<1>2. /\ \A j \in 1 .. n : u[j] = w[j]
      /\ \A j \in 1 .. (Len(w) - n) : v[j] = w[n + j]
  BY DEF Bytes
<1> HIDE DEF u, v
<1>3. \A j \in 1 .. Len(v) : v[j] = w[Len(u) + j]
  BY <1>1, <1>2
<1>4. \A j \in 1 .. Len(u) : u[j] = w[j]
  BY <1>1, <1>2
<1>5. Len(u) + Len(v) = Len(w)
  <2> DEFINE a == Len(u)
             b == Len(v)
             c == Len(w)
  <2>1. a = n /\ b = c - n /\ c \in Nat
    BY <1>1
  <2> HIDE DEF a, b, c
  <2>2. a + b = c
    BY <2>1
  <2> QED
    BY <2>2 DEF a, b, c
<1>6. Cat(u, v) = w
  BY <1>1, <1>3, <1>4, <1>5, WholeOf
<1> QED
  BY <1>1, <1>6 DEF u, v

\* No bytes.
LEMMA EmptyBytes ==
  /\ <<>> \in Bytes /\ Len(<<>>) = 0
  /\ \A u \in Bytes : Cat(<<>>, u) = u /\ Cat(u, <<>>) = u
BY CatEmpty DEF Bytes

\* A byte goes from one string to the end of another,
LEMMA OneByte ==
  ASSUME NEW w \in Bytes, w # <<>>, NEW p \in Bytes,
         NEW q, q = Append(p, Head(w)), NEW v, v = Tail(w)
  PROVE  /\ q \in Bytes /\ v \in Bytes /\ Len(q) = Len(p) + 1 /\ Len(p) \in Nat
         /\ \A j \in 1 .. Len(p) : q[j] = p[j]
BY DEF Bytes

\* and what they are one after the other stays the same.
LEMMA OneByteMoved ==
  ASSUME NEW w \in Bytes, w # <<>>, NEW p \in Bytes, NEW z \in Bytes
  PROVE  Cat(Append(p, Head(w)), Cat(Tail(w), z)) = Cat(p, Cat(w, z))
<1> DEFINE h == <<Head(w)>>
           q == Append(p, Head(w))
           v == Tail(w)
<1>1. h \in Bytes /\ v \in Bytes /\ q = Cat(p, h) /\ w = Cat(h, v)
  <2>1. Head(w) \in Byte /\ w \in Seq(Byte) /\ p \in Seq(Byte) /\ v \in Seq(Byte)
    BY DEF Bytes
  <2>2. q = p \o <<Head(w)>>
    BY <2>1
  <2>3. w = <<Head(w)>> \o Tail(w)
    BY <2>1
  <2> QED
    BY <2>1, <2>2, <2>3 DEF Cat, Bytes
<1> HIDE DEF h, q, v
<1>2. Cat(Cat(p, h), Cat(v, z)) = Cat(p, Cat(Cat(h, v), z))
  <2>1. v \in Bytes /\ h \in Bytes
    BY <1>1, Zenon
  <2> QED
    BY <2>1, CatMoved
<1>3. Cat(q, Cat(v, z)) = Cat(p, Cat(w, z))
  BY <1>1, <1>2, Zenon
<1> QED
  BY <1>3 DEF q, v

\* A number that has been read stays what it is when bytes follow.
LEMMA ReadInFirst ==
  ASSUME NEW p \in Bytes, NEW q \in Bytes, NEW r \in ReadVarint(p, 1)
  PROVE  r \in ReadVarint(Cat(p, q), 1)
<1> DEFINE z == Cat(p, q)
           E(b) == {k \in 1 .. Len(b) : k < 1 + 10 /\ b[k] < 128 /\ \A j \in 1 .. (k - 1) : b[j] >= 128}
           D(b, j, e) == IF j <= e THEN b[j] % 128 ELSE 0
           V(b, e) == [value |-> D(b, 1, e) + 128 * D(b, 1 + 1, e) + 16384 * D(b, 1 + 2, e)
                                 + 2097152 * D(b, 1 + 3, e) - (IF e = 1 + 9 THEN 268435456 ELSE 0),
                       next  |-> e + 1]
<1>1. \A b : ReadVarint(b, 1) = {V(b, e) : e \in E(b)}
  BY SMT DEF ReadVarint
<1>2. \A b, e : e \in Nat => (e \in E(b) <=> Ends(b, e))
  BY SMT DEF Ends
<1>3. /\ Len(z) = Len(p) + Len(q) /\ Len(p) \in Nat /\ Len(q) \in Nat /\ z \in Bytes
      /\ \A j \in 1 .. Len(p) : z[j] = p[j]
  BY CatFirst, SMT
<1>4. \A e \in E(p) : e \in Nat /\ e <= Len(p)
  BY <1>3, SMT
<1> HIDE DEF z
<1>5. ASSUME NEW e \in E(p)
      PROVE  V(p, e) = V(z, e)
  <2>1. e \in Nat /\ e <= Len(p)
    BY <1>4
  <2>2. /\ D(p, 1, e) = D(z, 1, e) /\ D(p, 1 + 1, e) = D(z, 1 + 1, e)
        /\ D(p, 1 + 2, e) = D(z, 1 + 2, e) /\ D(p, 1 + 3, e) = D(z, 1 + 3, e)
    BY <1>3, <2>1, SMT
  <2> HIDE DEF D
  <2> QED
    BY <2>2, SMT
<1> HIDE DEF E, V
<1>6. PICK e \in E(p) : r = V(p, e)
  BY <1>1, SMT
<1>7. e \in E(z)
  <2>1. e \in Nat /\ Ends(p, e)
    BY <1>2, <1>4, Zenon
  <2>2. Ends(z, e)
    BY <2>1, EndsInFirst, Zenon DEF z
  <2> QED
    BY <1>2, <2>1, <2>2, Zenon
<1>8. r = V(z, e)
  BY <1>5, <1>6, Zenon
<1>9. r \in ReadVarint(z, 1)
  BY <1>1, <1>7, <1>8, SMT
<1> QED
  BY <1>9 DEF z

\* Bytes that begin with a length that was read, a body of that length and the
\* rest, where an answer begins whose length is known too.
LEMMA SameLength ==
  ASSUME NEW a \in Bytes, NEW t \in Bytes, NEW p \in Bytes, NEW z \in Bytes,
         Cat(p, z) = Cat(a, t),
         NEW r \in ReadVarint(p, 1), NEW len \in ReadVarint(Cat(a, t), 1)
  PROVE  len = r
<1>1. Cat(a, t) \in Bytes
  BY CatBytes
<1>2. r \in ReadVarint(Cat(a, t), 1)
  BY ReadInFirst
<1> HIDE DEF Cat
<1> QED
  BY <1>1, <1>2, ReadOnce

\* read_exact takes the message, no more and no less.
LEMMA FrameTaken ==
  ASSUME NEW fields, IsType2(fields), NEW m, IsMessage(Is2, fields, m),
         ComputeSize(fields, m) \in Number,
         NEW p \in Bytes, NEW b \in Bytes, NEW z \in Bytes, NEW t \in Bytes,
         Cat(p, Cat(b, z)) = Cat(Frame(fields, m), t),
         NEW r, r \in ReadVarint(p, 1), r.next = Len(p) + 1, Len(b) = r.value
  PROVE  b = Write(fields, m) /\ z = t
<1> DEFINE s == ComputeSize(fields, m)
           x == Varint(s)
           w == Write(fields, m)
           F == Frame(fields, m)
           y == Cat(b, z)
           d == Cat(w, t)
<1>1. s \in Number /\ s = ComputeSize(fields, m)
  OBVIOUS
<1>2. /\ s \in Nat /\ x \in Bytes /\ Len(x) = VarintSize(s) /\ VarintSize(s) \in 1 .. 10
      /\ F = Cat(x, w) /\ F \in Bytes
      /\ ReadVarint(Cat(F, t), 1) = {[value |-> s, next |-> 1 + VarintSize(s)]}
  BY FrameParts, Zenon
<1>3. w \in Bytes /\ Len(w) = s
  BY WrittenIsRead, Zenon
<1>4. Cat(p, y) = Cat(F, t)
  OBVIOUS
<1> HIDE DEF s, x, w, F
<1>5. y \in Bytes /\ d \in Bytes
  BY <1>3, CatBytes
<1>6. Cat(F, t) = Cat(x, d)
  BY <1>2, <1>3, CatBytes
<1> HIDE DEF y, d
<1>7. r = [value |-> s, next |-> 1 + VarintSize(s)]
  <2> DEFINE len == [value |-> s, next |-> 1 + VarintSize(s)]
  <2>1. len \in ReadVarint(Cat(F, t), 1)
    BY <1>2, Zenon
  <2> HIDE DEF len
  <2>2. len = r
    BY <1>2, <1>4, <1>5, <2>1, SameLength
  <2> QED
    BY <2>2 DEF len
<1>8. r.value = s /\ Len(p) = Len(x)
  <2>1. r.value = s /\ r.next = 1 + VarintSize(s)
    BY <1>7
  <2>2. Len(p) \in Nat
    BY CatBytes
  <2>3. Len(p) + 1 = 1 + VarintSize(s)
    BY <2>1, Zenon
  <2> QED
    BY <1>2, <2>1, <2>2, <2>3
<1>9. p = x /\ y = d
  BY <1>2, <1>4, <1>5, <1>6, <1>8, SameParts
<1>10. Cat(b, z) = Cat(w, t) /\ Len(b) = Len(w)
  BY <1>3, <1>8, <1>9, Zenon DEF y, d
<1>11. b = w /\ z = t
  BY <1>3, <1>10, SameParts
<1> QED
  BY <1>11 DEF w

\* Of what is no frame a body is only taken that is there and no message.
LEMMA GarbageTaken ==
  ASSUME NEW g \in Garbage,
         NEW p \in Bytes, NEW b \in Bytes, NEW z \in Bytes, NEW t \in Bytes,
         Cat(p, Cat(b, z)) = Cat(g, t),
         NEW r, r \in ReadVarint(p, 1), r.next = Len(p) + 1, Len(b) = r.value,
         ~(Len(p) > 1 /\ p[Len(p)] = 0), r.value \in 0 .. MaxRecvLen
  PROVE  z = t /\ \A c \in DOMAIN Replies : ParseFromBytes(TypeOf(c), b) = {}
<1> DEFINE y == Cat(b, z)
<1>1. g \in Bytes
  BY GarbageAssumption DEF Bytes
<1>2. Cat(p, y) = Cat(g, t) /\ y \in Bytes /\ Cat(p, y) \in Bytes /\ Cat(g, t) \in Bytes
  BY <1>1, CatBytes
<1> HIDE DEF y
<1>3. PICK e \in Nat : Ends(p, e) /\ r.next = e + 1
  BY ReadEnds
<1>4. e = Len(p) /\ Len(p) \in Nat /\ e >= 1 /\ e <= 10
  BY <1>3, CatBytes DEF Ends
<1>5. Ends(Cat(g, t), e)
  BY <1>2, <1>3, EndsInFirst
<1>6. ~(Len(g) >= 10 /\ \A i \in 1 .. 10 : g[i] >= 128)
  <2> SUFFICES ASSUME Len(g) >= 10, \A i \in 1 .. 10 : g[i] >= 128
               PROVE  FALSE
    OBVIOUS
  <2>1. Len(g) \in Nat
    BY <1>1, CatBytes
  <2>2. Ends(g, e)
    BY <1>1, <1>4, <1>5, <2>1, EndsInFirst
  <2>3. g[e] < 128 /\ g[e] \in Int
    BY <1>1, <2>2, ByteAt DEF Ends, Bytes
  <2>4. g[e] >= 128
    BY <1>4, SMTT(20)
  <2> QED
    BY <2>3, <2>4
<1>7. PICK len \in ReadVarint(g, 1) :
         \/ len.next > 2 /\ g[len.next - 1] = 0
         \/ len.value \notin 0 .. MaxRecvLen
         \/ /\ len.next + len.value = Len(g) + 1
            /\ \A c \in DOMAIN Replies :
                  ParseFromBytes(TypeOf(c), SubSeq(g, len.next, Len(g))) = {}
  BY <1>6, GarbageAssumption, Zenon
<1>8. len = r
  <2>1. len \in ReadVarint(Cat(g, t), 1)
    BY <1>1, ReadInFirst
  <2> QED
    BY <1>1, <1>2, <2>1, SameLength
<1>9. ~(len.next > 2 /\ g[len.next - 1] = 0)
  <2>1. len.next = Len(p) + 1
    BY <1>8
  <2>2. len.next - 1 = Len(p) /\ (len.next > 2 => Len(p) > 1)
    BY <1>4, <2>1
  <2>3. Len(p) \in 1 .. Len(g)
    <3>1. PICK k \in Nat : Ends(g, k) /\ len.next = k + 1
      BY <1>1, ReadEnds
    <3>2. k = Len(p)
      BY <1>4, <2>1, <3>1
    <3> QED
      BY <3>1, <3>2 DEF Ends
  <2>4. g[Len(p)] = p[Len(p)]
    <3>1. Cat(g, t)[Len(p)] = g[Len(p)]
      BY <1>1, <2>3, CatFirst
    <3>2. Cat(p, y)[Len(p)] = p[Len(p)]
      <4>1. Len(p) \in 1 .. Len(p)
        BY <1>4
      <4>2. y \in Bytes
        BY <1>2
      <4>3. \A j \in 1 .. Len(p) : Cat(p, y)[j] = p[j]
        BY <4>2, CatFirst
      <4> QED
        BY <4>1, <4>3, Zenon
    <3> QED
      BY <1>2, <3>1, <3>2
  <2> QED
    BY <2>2, <2>4
<1>10. /\ len.next + len.value = Len(g) + 1
       /\ \A c \in DOMAIN Replies :
             ParseFromBytes(TypeOf(c), SubSeq(g, len.next, Len(g))) = {}
  BY <1>7, <1>8, <1>9
<1>11. Len(p) + Len(b) = Len(g)
  <2> DEFINE i == Len(p)
             j == Len(b)
             k == Len(g)
  <2>1. i \in Nat /\ j \in Nat /\ k \in Nat /\ (i + 1) + j = k + 1
    BY <1>1, <1>8, <1>10, CatBytes
  <2> HIDE DEF i, j, k
  <2>2. i + j = k
    BY <2>1
  <2> QED
    BY <2>2 DEF i, j, k
<1> DEFINE h == Cat(p, b)
<1>12. h \in Bytes /\ Len(h) = Len(p) + Len(b) /\ Cat(h, z) = Cat(p, y)
  <2>1. h \in Bytes /\ Len(h) = Len(p) + Len(b)
    BY CatBytes
  <2>2. Cat(h, z) = Cat(p, Cat(b, z))
    BY CatBytes
  <2> QED
    BY <2>1, <2>2, Zenon DEF y
<1>13. \A j \in 1 .. Len(b) : h[Len(p) + j] = b[j]
  BY CatFirst
<1> HIDE DEF h
<1>14. h = g /\ z = t
  BY <1>1, <1>2, <1>11, <1>12, SameParts
<1>15. b = SubSeq(g, len.next, Len(g))
  <2>1. len.next = Len(p) + 1 /\ Len(b) \in Nat /\ Len(p) \in Nat /\ Len(g) = Len(p) + Len(b)
    BY <1>4, <1>8, <1>11, CatBytes
  <2> DEFINE u == SubSeq(g, Len(p) + 1, Len(p) + Len(b))
  <2>2. /\ u \in Seq(Byte) /\ Len(u) = Len(b)
        /\ \A j \in 1 .. Len(b) : u[j] = g[Len(p) + j]
    BY <1>1, <2>1, SMTT(20) DEF Bytes
  <2>3. b = u
    <3> HIDE DEF u
    <3> QED
      <4>1. b \in Seq(Byte)
        BY DEF Bytes
      <4>2. \A j \in 1 .. Len(b) : u[j] = b[j]
        BY <1>13, <1>14, <2>2
      <4> QED
        BY <2>1, <2>2, <4>1, <4>2
  <2> QED
    BY <2>1, <2>3
<1> QED
  BY <1>10, <1>14, <1>15

\* The second of two strings.
LEMMA SecondPart ==
  ASSUME NEW x \in Bytes, NEW w \in Bytes
  PROVE  SubSeq(Cat(x, w), Len(x) + 1, Len(x) + Len(w)) = w
<1> DEFINE z == Cat(x, w)
           u == SubSeq(z, Len(x) + 1, Len(x) + Len(w))
<1>1. /\ z \in Bytes /\ Len(z) = Len(x) + Len(w) /\ Len(x) \in Nat /\ Len(w) \in Nat
      /\ \A j \in 1 .. Len(w) : z[Len(x) + j] = w[j]
  BY CatFirst
<1> HIDE DEF z
<1>2. u \in Seq(Byte) /\ Len(u) = Len(w) /\ \A j \in 1 .. Len(w) : u[j] = z[Len(x) + j]
  BY <1>1 DEF Bytes
<1> HIDE DEF u
<1>3. \A j \in 1 .. Len(w) : u[j] = w[j]
  BY <1>1, <1>2
<1>4. w \in Seq(Byte)
  BY DEF Bytes
<1>5. u = w
  BY <1>1, <1>2, <1>3, <1>4
<1> QED
  BY <1>5 DEF u, z

\* What one end writes as a frame the other reads as the message.
LEMMA FrameDeframed ==
  ASSUME NEW fields, IsType2(fields), NEW m, IsMessage(Is2, fields, m),
         ComputeSize(fields, m) \in Number
  PROVE  /\ Frame(fields, m) \in Bytes
         /\ Deframed(fields, Frame(fields, m)) = {x \in {m} : Initialized(fields, x)}
<1> DEFINE s == ComputeSize(fields, m)
           x == Varint(s)
           w == Write(fields, m)
           F == Frame(fields, m)
           e == <<>>
           len == [value |-> s, next |-> 1 + VarintSize(s)]
<1>1. s \in Number /\ s = ComputeSize(fields, m)
  OBVIOUS
<1>2. e \in Bytes /\ \A u \in Bytes : Cat(u, e) = u
  BY EmptyBytes, Zenon
<1> HIDE DEF e
<1>3. /\ s \in Nat /\ x \in Bytes /\ Len(x) = VarintSize(s) /\ VarintSize(s) \in 1 .. 10
      /\ F = Cat(x, w) /\ F \in Bytes /\ Len(F) = VarintSize(s) + s
      /\ ReadVarint(Cat(F, e), 1) = {len}
  BY <1>2, FrameParts, Zenon
<1>4. w \in Bytes /\ Len(w) = s
  BY WrittenIsRead, Zenon
<1>5. ParseFromBytes(fields, w) = {y \in {m} : Initialized(fields, y)}
  BY WrittenIsRead, ParsedIs, ZenonT(30)
<1> HIDE DEF s, x, w, F
<1>6. ReadVarint(F, 1) = {len}
  BY <1>2, <1>3, Zenon
<1>7. len.value = Len(F) - len.next + 1
  BY <1>3
<1>8. SubSeq(F, len.next, Len(F)) = w
  <2>1. len.next = Len(x) + 1 /\ Len(F) = Len(x) + Len(w)
    BY <1>3, <1>4
  <2>2. SubSeq(Cat(x, w), Len(x) + 1, Len(x) + Len(w)) = w
    BY <1>3, <1>4, SecondPart
  <2> HIDE DEF len
  <2> QED
    BY <1>3, <2>1, <2>2, Zenon
<1> HIDE DEF len
<1>9. Deframed(fields, F) = ParseFromBytes(fields, w)
  BY <1>6, <1>7, <1>8 DEF Deframed
<1> QED
  BY <1>3, <1>5, <1>9, Zenon DEF F

\* One element, and none.
LEMMA ToSetOne ==
  ASSUME NEW x
  PROVE  ToSet(<<x>>) = {x}
BY DEF ToSet

LEMMA ToSetNone == ToSet(<<>>) = {}
BY DEF ToSet

\* What a call writes is read as the message it is.
LEMMA RequestRead ==
  ASSUME NEW c \in Calls
  PROVE  /\ Requests[c] \in Bytes
         /\ Requests[c] # <<>> => Deframed(TypeOf(c), Requests[c]) = ToSet(Request(c))
<1>1. CASE Request(c) = None
  <2>1. Requests[c] = <<>>
    BY <1>1 DEF Requests
  <2> QED
    BY <2>1, EmptyBytes
<1>2. CASE Request(c) # None
  <2> DEFINE m == Request(c)[1]
  <2>1. Request(c) = <<m>> /\ IsMessage(Is2, TypeOf(c), m) /\ Initialized(TypeOf(c), m)
    BY <1>2, RequestIs, Zenon
  <2>2. Requests[c] = Frame(TypeOf(c), m)
    BY <1>2 DEF Requests
  <2>3. ToSet(Request(c)) = {m}
    <3> HIDE DEF m
    <3> QED
      BY <2>1, ToSetOne, Zenon
  <2>4. ComputeSize(TypeOf(c), m) \in Number
    BY <2>3, MessageAssumption, Zenon
  <2>5. IsType2(TypeOf(c))
    BY Types, Zenon
  <2> HIDE DEF m
  <2>6. /\ Frame(TypeOf(c), m) \in Bytes
        /\ Deframed(TypeOf(c), Frame(TypeOf(c), m)) = {x \in {m} : Initialized(TypeOf(c), x)}
    BY <2>1, <2>4, <2>5, FrameDeframed, Zenon
  <2>7. {x \in {m} : Initialized(TypeOf(c), x)} = {m}
    BY <2>1, Zenon
  <2> QED
    BY <2>2, <2>3, <2>6, <2>7, Zenon
<1> QED
  BY <1>1, <1>2

\* What circuit_v2_stop_connect_accept answers is read too.
LEMMA AcceptedRead ==
  Deframed(StopMessage, Frame(StopMessage, StopAccepted)) = {StopAccepted}
<1>1. Deframed(StopMessage, Frame(StopMessage, StopAccepted))
        = {x \in {StopAccepted} : Initialized(StopMessage, x)}
  BY AllTypes, StopAcceptedIs, StopAcceptedSize, FrameDeframed, Zenon
<1>2. Initialized(StopMessage, StopAccepted)
  BY NoneRequired
<1> QED
  BY <1>1, <1>2, Zenon

\* What the other end answers.
LEMMA ReplyFacts ==
  ASSUME NEW c \in DOMAIN Replies, NEW m \in Replies[c]
  PROVE  /\ IsType2(TypeOf(c)) /\ IsMessage(Is2, TypeOf(c), m)
         /\ ComputeSize(TypeOf(c), m) \in Number /\ Frame(TypeOf(c), m) \in Bytes
<1>1. IsType2(TypeOf(c))
  BY Types, Zenon
<1>2. IsMessage(Is2, TypeOf(c), m) /\ ComputeSize(TypeOf(c), m) \in Number
  BY MessageAssumption, Zenon
<1> QED
  BY <1>1, <1>2, FrameDeframed, Zenon

-----------------------------------------------------------------------------
(* The inductive invariant.                                                *)

\* What the other end has begun to write.
IsAnswer(a) ==
  \/ /\ call # "ping"
     /\ \E m \in Replies[call] : reply = Some(m) /\ a = Frame(TypeOf(call), m)
  \/ call # "ping" /\ reply = None /\ a \in Garbage
  \/ call = "ping" /\ reply = None /\ a \in Echoes /\ (Len(a) >= Len(Nonce) \/ tail = <<>>)

\* What is read, what has arrived and what is still to come are the answer and
\* what follows it; of a stream that is closed the rest is lost.
Flows(a) ==
  \E rest \in Bytes :
     /\ ~closed => rest = coming
     /\ Cat(prefix, Cat(body, Cat(wire, rest))) = Cat(a, tail)

\* The types that TypeOK leaves out.
Typed ==
  /\ answered \in BOOLEAN /\ closed \in BOOLEAN
  /\ sent \in Bytes /\ wire \in Bytes /\ coming \in Bytes /\ tail \in Bytes
  /\ prefix \in Bytes /\ body \in Bytes

\* Nothing is there before the other end answers; then it is the answer.
Answered ==
  /\ ~answered => /\ wire = <<>> /\ coming = <<>> /\ tail = <<>>
                  /\ prefix = <<>> /\ body = <<>> /\ reply = None
  /\ closed => coming = <<>>
  /\ answered => \E a \in Bytes : IsAnswer(a) /\ (outcome \in {"pending", "read"} => Flows(a))

\* How far the call has read.
Progress ==
  /\ phase # "done" => body = <<>>
  /\ phase = "begin" => prefix = <<>>
  /\ phase = "length" => /\ call # "ping" /\ Len(prefix) < 10
                         /\ \A j \in 1 .. Len(prefix) : prefix[j] >= 128
  /\ phase = "body" \/ outcome = "read" =>
        IF call = "ping" THEN prefix = <<>> /\ need = Len(Nonce)
        ELSE /\ \E r \in ReadVarint(prefix, 1) : r.value = need /\ r.next = Len(prefix) + 1
             /\ ~(Len(prefix) > 1 /\ prefix[Len(prefix)] = 0)
  /\ outcome = "read" => Len(body) = need /\ (call = "ping" => body = Nonce)

\* A call that fails on a malformed answer got no message, and what is written
\* is the request.
Faithful ==
  /\ outcome = "malformed" => answered /\ reply = None
  /\ sent \in {<<>>, IF call = "ping" THEN Nonce ELSE Requests[call]}

\* The inductive invariant.
Inv == TypeOK /\ Typed /\ Answered /\ Progress /\ Faithful

\* The constants, as the proofs use them.
LEMMA Constants ==
  /\ MaxRecvLen \in Nat /\ DOMAIN Replies = Calls \ {"ping"}
  /\ Nonce \in Bytes /\ Nonce # <<>> /\ Len(Nonce) \in Nat /\ Len(Nonce) >= 1
  /\ \A t \in Tails : t \in Bytes
  /\ \A e \in Echoes : e \in Bytes /\ Len(e) <= Len(Nonce)
  /\ \A g \in Garbage : g \in Bytes
<1>1. Nonce \in Seq(Byte) /\ Nonce # <<>>
  BY StreamAssumption
<1>2. Len(Nonce) \in Nat /\ Len(Nonce) >= 1
  BY <1>1
<1> QED
  BY <1>1, <1>2, StreamAssumption, GarbageAssumption DEF Bytes

\* A call begins in it.
LEMMA InitInv == Init => Inv
<1> SUFFICES ASSUME Init PROVE Inv
  OBVIOUS
<1> USE DEF Init
<1>1. TypeOK
  <2>1. 0 \in 0 .. (IF call = "ping" THEN Len(Nonce) ELSE MaxRecvLen)
    BY Constants
  <2> QED
    BY <2>1 DEF TypeOK
<1>2. Typed
  BY EmptyBytes DEF Typed
<1>3. Answered
  BY DEF Answered
<1>4. Progress
  BY DEF Progress
<1>5. Faithful
  BY DEF Faithful
<1> QED
  BY <1>1, <1>2, <1>3, <1>4, <1>5 DEF Inv

-----------------------------------------------------------------------------
(* Each action keeps the invariant.                                        *)

\* Begin writes and reads nothing.
LEMMA BeginInv ==
  ASSUME Inv, Begin
  PROVE  Inv'
<1> USE DEF remote
<1>1. /\ phase = "begin" /\ outcome = "pending" /\ prefix = <<>> /\ body = <<>>
      /\ call \in Calls
  BY DEF Inv, TypeOK, Progress, Begin
<1>2. CASE call = "ping"
  <2>1. /\ sent' = Nonce /\ need' = Len(Nonce) /\ phase' = "body"
        /\ UNCHANGED <<call, wire, remote, prefix, body, outcome>>
    BY <1>2 DEF Begin
  <2>2. TypeOK'
    BY <1>1, <1>2, <2>1, Constants DEF TypeOK
  <2>3. Typed'
    BY <2>1, Constants DEF Inv, Typed
  <2>4. Answered'
    BY <2>1 DEF Inv, Answered, IsAnswer, Flows
  <2>5. Progress'
    BY <1>1, <1>2, <2>1 DEF Progress
  <2>6. Faithful'
    BY <1>1, <1>2, <2>1 DEF Faithful
  <2> QED
    BY <2>2, <2>3, <2>4, <2>5, <2>6 DEF Inv
<1>3. CASE call # "ping" /\ call \in SendOnly
  <2>1. /\ sent' = Requests[call] /\ phase' = "done" /\ outcome' = "sent"
        /\ UNCHANGED <<call, wire, remote, prefix, need, body>>
    BY <1>3 DEF Begin, Done
  <2>2. TypeOK'
    BY <1>1, <2>1 DEF Inv, TypeOK
  <2>3. Typed'
    BY <1>1, <2>1, RequestRead DEF Inv, Typed
  <2>4. Answered'
    BY <2>1 DEF Inv, Answered, IsAnswer
  <2>5. Progress'
    BY <1>1, <2>1 DEF Progress
  <2>6. Faithful'
    BY <1>1, <1>3, <2>1 DEF Faithful
  <2> QED
    BY <2>2, <2>3, <2>4, <2>5, <2>6 DEF Inv
<1>4. CASE call # "ping" /\ call \notin SendOnly
  <2>1. /\ sent' = Requests[call] /\ phase' = "length"
        /\ UNCHANGED <<call, wire, remote, prefix, need, body, outcome>>
    BY <1>4 DEF Begin
  <2>2. TypeOK'
    BY <1>1, <2>1 DEF Inv, TypeOK
  <2>3. Typed'
    BY <1>1, <2>1, RequestRead DEF Inv, Typed
  <2>4. Answered'
    BY <2>1 DEF Inv, Answered, IsAnswer, Flows
  <2>5. Progress'
    <3>1. Len(prefix) = 0
      BY <1>1
    <3> QED
      BY <1>1, <1>4, <2>1, <3>1 DEF Progress
  <2>6. Faithful'
    BY <1>1, <1>4, <2>1 DEF Faithful
  <2> QED
    BY <2>2, <2>3, <2>4, <2>5, <2>6 DEF Inv
<1> QED
  BY <1>2, <1>3, <1>4

\* A byte of the length.
LEMMA ByteRead ==
  ASSUME Inv, ReadLength
  PROVE  /\ phase = "length" /\ outcome = "pending" /\ call # "ping" /\ call \in Calls /\ body = <<>>
         /\ wire # <<>> /\ answered
         /\ prefix' \in Bytes /\ wire' \in Bytes /\ Len(prefix') = Len(prefix) + 1
         /\ Len(prefix) \in Nat /\ Len(prefix) < 10
         /\ \A j \in 1 .. Len(prefix) : prefix'[j] >= 128
         /\ \A z \in Bytes : Cat(prefix', Cat(wire', z)) = Cat(prefix, Cat(wire, z))
         /\ UNCHANGED <<call, sent, remote, body>>
<1>1. /\ phase = "length" /\ wire # <<>> /\ prefix' = Append(prefix, Head(wire))
      /\ wire' = Tail(wire) /\ UNCHANGED <<call, sent, remote, body>>
  BY DEF ReadLength
<1>2. /\ outcome = "pending" /\ call # "ping" /\ call \in Calls /\ body = <<>> /\ answered
      /\ Len(prefix) < 10 /\ \A j \in 1 .. Len(prefix) : prefix[j] >= 128
  BY <1>1 DEF Inv, TypeOK, Typed, Answered, Progress
<1>3. prefix \in Bytes /\ wire \in Bytes
  BY DEF Inv, Typed
<1>4. /\ prefix' \in Bytes /\ wire' \in Bytes /\ Len(prefix') = Len(prefix) + 1
      /\ Len(prefix) \in Nat
      /\ \A j \in 1 .. Len(prefix) : prefix'[j] = prefix[j]
      /\ \A z \in Bytes : Cat(prefix', Cat(wire', z)) = Cat(prefix, Cat(wire, z))
  <2>1. /\ prefix' \in Bytes /\ wire' \in Bytes /\ Len(prefix') = Len(prefix) + 1
        /\ Len(prefix) \in Nat
        /\ \A j \in 1 .. Len(prefix) : prefix'[j] = prefix[j]
    BY <1>1, <1>3, OneByte, ZenonT(30)
  <2>2. \A z \in Bytes : Cat(prefix', Cat(wire', z)) = Cat(prefix, Cat(wire, z))
    <3> TAKE z \in Bytes
    <3>1. Cat(Append(prefix, Head(wire)), Cat(Tail(wire), z)) = Cat(prefix, Cat(wire, z))
      BY <1>1, <1>3, OneByteMoved, Zenon
    <3> QED
      BY <1>1, <3>1, Zenon
  <2> QED
    BY <2>1, <2>2
<1> QED
  BY <1>1, <1>2, <1>4

\* The bytes of a frame's length: the last one ends it, is one of the first
\* ten and is not zero behind others.
LEMMA FrameLength ==
  ASSUME NEW c \in DOMAIN Replies, NEW m \in Replies[c],
         NEW p \in Bytes, NEW y \in Bytes, NEW t \in Bytes,
         Cat(p, y) = Cat(Frame(TypeOf(c), m), t)
  PROVE  /\ Len(p) >= 10 => \E j \in 1 .. 10 : p[j] < 128
         /\ \A r \in ReadVarint(p, 1) : r.next = Len(p) + 1 => ~(Len(p) > 1 /\ p[Len(p)] = 0)
<1> DEFINE fields == TypeOf(c)
           s == ComputeSize(fields, m)
           x == Varint(s)
           w == Write(fields, m)
           F == Frame(fields, m)
           d == Cat(w, t)
<1>1. /\ IsType2(fields) /\ IsMessage(Is2, fields, m) /\ s \in Number
      /\ s = ComputeSize(fields, m)
  BY ReplyFacts, Zenon
<1> HIDE DEF s
<1>2. w \in Bytes
  BY <1>1, WrittenIsRead, Zenon
<1>3. /\ x \in Bytes /\ Len(x) = VarintSize(s) /\ VarintSize(s) \in 1 .. 10 /\ F = Cat(x, w)
  BY <1>1, FrameParts, EmptyBytes, ZenonT(30)
<1>4. /\ x[Len(x)] < 128 /\ \A j \in 1 .. (Len(x) - 1) : x[j] >= 128
      /\ Len(x) > 1 => x[Len(x)] # 0
  BY <1>1, <1>3, VarintShape
<1>5. Cat(p, y) = Cat(F, t)
  OBVIOUS
<1> HIDE DEF fields, x, w, F
<1>6. d \in Bytes /\ Cat(F, t) = Cat(x, d)
  BY <1>2, <1>3, CatBytes
<1> HIDE DEF d
<1>7. /\ \A j \in 1 .. Len(x) : Cat(F, t)[j] = x[j]
      /\ Len(Cat(F, t)) = Len(x) + Len(d) /\ Len(d) \in Nat /\ Cat(F, t) \in Bytes
  <2>1. /\ \A j \in 1 .. Len(x) : Cat(x, d)[j] = x[j]
        /\ Len(Cat(x, d)) = Len(x) + Len(d) /\ Len(d) \in Nat /\ Cat(x, d) \in Bytes
    BY <1>3, <1>6, CatFirst
  <2> QED
    BY <1>6, <2>1, Zenon
<1>8. /\ \A j \in 1 .. Len(p) : Cat(F, t)[j] = p[j]
      /\ Len(p) \in Nat
  <2>1. /\ \A j \in 1 .. Len(p) : Cat(p, y)[j] = p[j]
        /\ Len(p) \in Nat
    BY CatFirst
  <2> QED
    BY <1>5, <2>1, Zenon
<1> DEFINE z == Cat(F, t)
<1>9. Ends(z, Len(x)) /\ Len(x) \in Nat
  <2> HIDE DEF z
  <2>1. /\ \A j \in 1 .. Len(x) : z[j] = x[j]
        /\ Len(z) = Len(x) + Len(d) /\ Len(d) \in Nat /\ z \in Bytes
    BY <1>7 DEF z
  <2>2. Len(x) \in 1 .. 10
    BY <1>3
  <2> DEFINE k == Len(x)
             n == Len(z)
  <2>3. /\ k \in 1 .. 10 /\ n = k + Len(d) /\ Len(d) \in Nat
        /\ x[k] < 128 /\ \A j \in 1 .. (k - 1) : x[j] >= 128
        /\ \A j \in 1 .. k : z[j] = x[j]
    BY <1>4, <2>1, <2>2, Zenon
  <2> HIDE DEF k, n
  <2>4. /\ k \in 1 .. n /\ k < 11 /\ k \in Nat /\ z[k] < 128
        /\ \A j \in 1 .. (k - 1) : z[j] >= 128
    BY <2>3
  <2> QED
    BY <2>4, Zenon DEF Ends, k, n
<1>10. ASSUME Len(p) >= 10
       PROVE  \E j \in 1 .. 10 : p[j] < 128
  <2>1. Len(x) \in 1 .. 10 /\ Len(x) \in 1 .. Len(p)
    BY <1>3, <1>8, <1>10
  <2>2. p[Len(x)] = x[Len(x)]
    BY <1>3, <1>7, <1>8, <2>1
  <2> QED
    BY <1>4, <2>1, <2>2
<1>11. ASSUME NEW r \in ReadVarint(p, 1), r.next = Len(p) + 1
       PROVE  ~(Len(p) > 1 /\ p[Len(p)] = 0)
  <2>1. PICK e \in Nat : Ends(p, e) /\ r.next = e + 1
    BY ReadEnds
  <2>2. e = Len(p)
    BY <1>8, <1>11, <2>1
  <2>3. Ends(z, e)
    BY <1>5, <2>1, EndsInFirst
  <2>4. Len(p) = Len(x) /\ Len(x) \in 1 .. 10
    BY <1>3, <1>7, <1>9, <2>2, <2>3, EndsOnce
  <2>5. p[Len(p)] = x[Len(x)]
    BY <1>7, <1>8, <2>4
  <2> QED
    BY <1>4, <2>4, <2>5
<1> QED
  BY <1>10, <1>11

\* What has been read and what has not are together what they were.
LEMMA LengthFlows ==
  ASSUME Inv, ReadLength, NEW rest \in Bytes
  PROVE  Cat(prefix', Cat(body', Cat(wire', rest))) = Cat(prefix, Cat(body, Cat(wire, rest)))
<1>1. /\ body = <<>> /\ body' = body
      /\ prefix' \in Bytes /\ wire' \in Bytes
      /\ Cat(prefix', Cat(wire', rest)) = Cat(prefix, Cat(wire, rest))
  BY ByteRead
<1>2. wire \in Bytes
  BY DEF Inv, Typed
<1>3. Cat(<<>>, Cat(wire', rest)) = Cat(wire', rest) /\ Cat(<<>>, Cat(wire, rest)) = Cat(wire, rest)
  <2>1. Cat(wire', rest) \in Bytes /\ Cat(wire, rest) \in Bytes
    BY <1>1, <1>2, CatBytes
  <2> QED
    BY <2>1, EmptyBytes
<1> QED
  BY <1>1, <1>3, Zenon

\* ReadLength moves a byte from the stream to the length,
LEMMA LengthAnswered ==
  ASSUME Inv, ReadLength
  PROVE  Answered'
<1> USE DEF remote
<1>1. /\ answered /\ outcome = "pending" /\ UNCHANGED <<call, remote>>
  BY ByteRead
<1>2. PICK a \in Bytes : IsAnswer(a) /\ Flows(a)
  BY <1>1 DEF Inv, Answered
<1>3. IsAnswer(a)'
  BY <1>1, <1>2 DEF IsAnswer
<1>4. Flows(a)'
  <2>1. PICK rest \in Bytes : /\ ~closed => rest = coming
                              /\ Cat(prefix, Cat(body, Cat(wire, rest))) = Cat(a, tail)
    BY <1>2 DEF Flows
  <2>2. Cat(prefix', Cat(body', Cat(wire', rest))) = Cat(a, tail)
    BY <2>1, LengthFlows, Zenon
  <2> QED
    BY <1>1, <2>1, <2>2 DEF Flows
<1> QED
  BY <1>1, <1>3, <1>4 DEF Inv, Answered

\* When a message is on the way, its frame is what is read.
LEMMA LengthAhead ==
  ASSUME Inv, ReadLength, reply # None
  PROVE  /\ call \in DOMAIN Replies
         /\ \E m \in Replies[call], y \in Bytes :
               Cat(prefix', y) = Cat(Frame(TypeOf(call), m), tail)
<1>1. /\ answered /\ outcome = "pending" /\ call # "ping" /\ call \in Calls /\ body' = <<>>
      /\ wire' \in Bytes
  BY ByteRead
<1>2. PICK a \in Bytes : IsAnswer(a) /\ Flows(a)
  BY <1>1 DEF Inv, Answered
<1>3. PICK rest \in Bytes : Cat(prefix, Cat(body, Cat(wire, rest))) = Cat(a, tail)
  BY <1>2 DEF Flows
<1>4. PICK m \in Replies[call] : a = Frame(TypeOf(call), m)
  BY <1>2 DEF IsAnswer
<1> DEFINE y == Cat(body', Cat(wire', rest))
<1>5. y \in Bytes
  BY <1>1, EmptyBytes, CatBytes
<1>6. Cat(prefix', y) = Cat(a, tail)
  BY <1>3, LengthFlows, Zenon
<1>7. call \in DOMAIN Replies
  BY <1>1, Constants
<1> HIDE DEF y
<1> QED
  BY <1>4, <1>5, <1>6, <1>7

\* and refuses no length of a message.
LEMMA LengthFaithful ==
  ASSUME Inv, ReadLength
  PROVE  Faithful'
<1> USE DEF remote
<1>1. /\ UNCHANGED <<call, sent, remote>> /\ outcome = "pending" /\ prefix' \in Bytes /\ answered
      /\ Len(prefix') = Len(prefix) + 1 /\ Len(prefix) \in Nat
      /\ \A j \in 1 .. Len(prefix) : prefix'[j] >= 128
  BY ByteRead
<1>2. ASSUME reply # None, outcome' = "malformed"
      PROVE  FALSE
  <2>1. tail \in Bytes
    BY DEF Inv, Typed
  <2>2. PICK m \in Replies[call], y \in Bytes :
           call \in DOMAIN Replies /\ Cat(prefix', y) = Cat(Frame(TypeOf(call), m), tail)
    BY <1>2, LengthAhead
  <2>3. /\ Len(prefix') >= 10 => \E j \in 1 .. 10 : prefix'[j] < 128
        /\ \A r \in ReadVarint(prefix', 1) :
              r.next = Len(prefix') + 1 => ~(Len(prefix') > 1 /\ prefix'[Len(prefix')] = 0)
    BY <1>1, <2>1, <2>2, FrameLength, Zenon
  <2>4. CASE ReadVarint(prefix', 1) = {} /\ Len(prefix') = 10
    <3>1. PICK j \in 1 .. 10 : prefix'[j] < 128
      BY <2>3, <2>4
    <3>2. j = 10
      <4>1. \A i \in 1 .. Len(prefix') : prefix'[i] \in Int
        BY <1>1, ByteAt DEF Bytes
      <4>2. ~(j \in 1 .. Len(prefix))
        <5> SUFFICES ASSUME j \in 1 .. Len(prefix) PROVE FALSE
          OBVIOUS
        <5>1. prefix'[j] >= 128 /\ prefix'[j] \in Int
          BY <1>1, <2>4, <4>1
        <5> QED
          BY <3>1, <5>1
      <4> DEFINE k == Len(prefix)
                 n == Len(prefix')
      <4>3. k \in Nat /\ n = k + 1 /\ n = 10 /\ ~(j \in 1 .. k)
        BY <1>1, <2>4, <4>2, Zenon
      <4> HIDE DEF k, n
      <4> QED
        BY <4>3
    <3>3. Ends(prefix', 10)
      <4> DEFINE k == Len(prefix)
                 n == Len(prefix')
      <4>1. /\ k \in Nat /\ n = k + 1 /\ n = 10 /\ prefix'[10] < 128
            /\ \A i \in 1 .. k : prefix'[i] >= 128
        BY <1>1, <2>4, <3>1, <3>2, Zenon
      <4> HIDE DEF k, n
      <4>2. /\ 10 \in 1 .. n /\ 10 < 11 /\ prefix'[10] < 128
            /\ \A i \in 1 .. (10 - 1) : prefix'[i] >= 128
        BY <4>1
      <4> QED
        BY <4>2, Zenon DEF Ends, n
    <3> QED
      BY <1>1, <2>4, <3>3, EndsRead
  <2>5. CASE \E len \in ReadVarint(prefix', 1) : Len(prefix') > 1 /\ Last(prefix') = 0
    <3>1. PICK len \in ReadVarint(prefix', 1) : Len(prefix') > 1 /\ Last(prefix') = 0
      BY <2>5
    <3>2. PICK e \in Nat : Ends(prefix', e) /\ len.next = e + 1
      BY <1>1, ReadEnds
    <3>3. e = Len(prefix')
      <4>1. \A i \in 1 .. Len(prefix') : prefix'[i] \in Int
        BY <1>1, ByteAt DEF Bytes
      <4>2. e \in 1 .. Len(prefix') /\ prefix'[e] < 128 /\ prefix'[e] \in Int
        BY <3>2, <4>1 DEF Ends
      <4>3. ~(e \in 1 .. Len(prefix))
        BY <1>1, <4>2
      <4> QED
        BY <1>1, <4>2, <4>3
    <3>4. prefix'[Len(prefix')] = 0
      BY <3>1 DEF Last
    <3> QED
      BY <2>3, <3>1, <3>2, <3>3, <3>4
  <2> QED
    BY <1>1, <1>2, <2>4, <2>5 DEF ReadLength, Done
<1> QED
  BY <1>1, <1>2 DEF Inv, Faithful

\* ReadLength keeps the invariant.
LEMMA ReadLengthInv ==
  ASSUME Inv, ReadLength
  PROVE  Inv'
<1> USE DEF remote
<1>1. /\ phase = "length" /\ outcome = "pending" /\ call # "ping" /\ call \in Calls /\ body = <<>>
      /\ prefix' \in Bytes /\ wire' \in Bytes /\ Len(prefix') = Len(prefix) + 1
      /\ Len(prefix) \in Nat /\ Len(prefix) < 10
      /\ \A j \in 1 .. Len(prefix) : prefix'[j] >= 128
      /\ UNCHANGED <<call, sent, remote, body>>
  BY ByteRead
<1>2. Answered' /\ Faithful'
  BY LengthAnswered, LengthFaithful
<1>3. Typed'
  BY <1>1 DEF Inv, Typed
<1>4. CASE ReadVarint(prefix', 1) = {} /\ Len(prefix') = 10 /\ Done("malformed") /\ need' = need
  <2>1. TypeOK'
    BY <1>1, <1>4 DEF Inv, TypeOK, Done
  <2>2. Progress'
    BY <1>1, <1>4 DEF Progress, Done
  <2> QED
    BY <1>2, <1>3, <2>1, <2>2 DEF Inv
<1>5. CASE /\ ReadVarint(prefix', 1) = {} /\ Len(prefix') # 10 /\ need' = need
           /\ phase' = phase /\ outcome' = outcome
  <2>1. TypeOK'
    BY <1>1, <1>5 DEF Inv, TypeOK
  <2>2. \A j \in 1 .. Len(prefix') : prefix'[j] >= 128
    <3>1. \A j \in 1 .. Len(prefix') : prefix'[j] \in Int
      BY <1>1, ByteAt DEF Bytes
    <3>2. ASSUME prefix'[Len(prefix')] < 128
          PROVE  FALSE
      <4>1. Ends(prefix', Len(prefix')) /\ Len(prefix') \in Nat
        BY <1>1, <3>2 DEF Ends
      <4> QED
        BY <1>1, <1>5, <4>1, EndsRead
    <3>3. Len(prefix') \in 1 .. Len(prefix')
      BY <1>1
    <3> TAKE j \in 1 .. Len(prefix')
    <3>4. CASE j = Len(prefix')
      BY <3>1, <3>2, <3>4
    <3>5. CASE j # Len(prefix')
      BY <1>1, <3>5
    <3> QED
      BY <3>4, <3>5
  <2>3. Progress'
    BY <1>1, <1>5, <2>2 DEF Progress
  <2> QED
    BY <1>2, <1>3, <2>1, <2>3 DEF Inv
<1>6. CASE /\ phase' = "done" /\ outcome' \in {"malformed", "overflow"} /\ need' = need
  <2>1. TypeOK'
    BY <1>1, <1>6 DEF Inv, TypeOK
  <2>2. Progress'
    BY <1>1, <1>6 DEF Progress
  <2> QED
    BY <1>2, <1>3, <2>1, <2>2 DEF Inv
<1>7. ASSUME NEW len \in ReadVarint(prefix', 1), ~(Len(prefix') > 1 /\ Last(prefix') = 0),
             ~Overflows(len.value), need' = len.value, phase' = "body", outcome' = outcome
      PROVE  Inv'
  <2>1. len.value \in 0 .. MaxRecvLen
    BY <1>7 DEF Overflows
  <2>2. TypeOK'
    BY <1>1, <1>7, <2>1 DEF Inv, TypeOK
  <2>3. len.next = Len(prefix') + 1
    <3>1. PICK e \in Nat : Ends(prefix', e) /\ len.next = e + 1
      BY <1>1, ReadEnds
    <3>2. e \in 1 .. Len(prefix') /\ prefix'[e] < 128 /\ prefix'[e] \in Int
      BY <1>1, <3>1, ByteAt DEF Ends, Bytes
    <3>3. ~(e \in 1 .. Len(prefix))
      BY <1>1, <3>2
    <3> QED
      BY <1>1, <3>1, <3>2, <3>3
  <2>4. ~(Len(prefix') > 1 /\ prefix'[Len(prefix')] = 0)
    BY <1>7 DEF Last
  <2>5. Progress'
    BY <1>1, <1>7, <2>3, <2>4 DEF Progress
  <2> QED
    BY <1>2, <1>3, <2>2, <2>5 DEF Inv
<1>8. \/ ReadVarint(prefix', 1) = {} /\ Len(prefix') = 10 /\ Done("malformed") /\ need' = need
      \/ /\ ReadVarint(prefix', 1) = {} /\ Len(prefix') # 10 /\ need' = need
         /\ phase' = phase /\ outcome' = outcome
      \/ phase' = "done" /\ outcome' \in {"malformed", "overflow"} /\ need' = need
      \/ \E len \in ReadVarint(prefix', 1) :
            /\ ~(Len(prefix') > 1 /\ Last(prefix') = 0) /\ ~Overflows(len.value)
            /\ need' = len.value /\ phase' = "body" /\ outcome' = outcome
  BY DEF ReadLength, Done
<1> QED
  BY <1>4, <1>5, <1>6, <1>7, <1>8

\* ReadBody splits what has arrived.
LEMMA BodyTaken ==
  ASSUME Inv, ReadBody
  PROVE  /\ phase = "body" /\ outcome = "pending" /\ body = <<>> /\ need \in Nat
         /\ body' \in Bytes /\ wire' \in Bytes /\ Len(body') = need
         /\ Cat(body', wire') = wire
         /\ phase' = "done" /\ outcome' \in {"read", "malformed", "panic"}
         /\ outcome' = "malformed" => call = "ping"
         /\ outcome' = "read" /\ call = "ping" => body' = Nonce
         /\ UNCHANGED <<call, sent, remote, prefix, need>>
<1>1. /\ phase = "body" /\ Len(wire) >= need
      /\ body' = SubSeq(wire, 1, need) /\ wire' = SubSeq(wire, need + 1, Len(wire))
      /\ phase' = "done" /\ outcome' \in {"read", "malformed", "panic"}
      /\ outcome' = "malformed" => call = "ping"
      /\ outcome' = "read" /\ call = "ping" => body' = Nonce
      /\ UNCHANGED <<call, sent, remote, prefix, need>>
  BY DEF ReadBody, Take, Done
<1>2. outcome = "pending" /\ body = <<>> /\ need \in Nat /\ wire \in Bytes
  BY <1>1, Constants DEF Inv, TypeOK, Typed, Progress
<1>3. need <= Len(wire)
  BY <1>1, <1>2, CatBytes
<1>4. /\ body' \in Bytes /\ wire' \in Bytes /\ Len(body') = need /\ Cat(body', wire') = wire
  <2>1. /\ SubSeq(wire, 1, need) \in Bytes /\ SubSeq(wire, need + 1, Len(wire)) \in Bytes
        /\ Len(SubSeq(wire, 1, need)) = need
        /\ Cat(SubSeq(wire, 1, need), SubSeq(wire, need + 1, Len(wire))) = wire
    BY <1>2, <1>3, CutAt
  <2> QED
    BY <1>1, <2>1, Zenon
<1> QED
  BY <1>1, <1>2, <1>4

\* ReadBody keeps the invariant.
LEMMA ReadBodyInv ==
  ASSUME Inv, ReadBody
  PROVE  Inv'
<1> USE DEF remote
<1>1. /\ phase = "body" /\ outcome = "pending" /\ body = <<>> /\ need \in Nat
      /\ body' \in Bytes /\ wire' \in Bytes /\ Len(body') = need
      /\ Cat(body', wire') = wire
      /\ phase' = "done" /\ outcome' \in {"read", "malformed", "panic"}
      /\ outcome' = "malformed" => call = "ping"
      /\ outcome' = "read" /\ call = "ping" => body' = Nonce
      /\ UNCHANGED <<call, sent, remote, prefix, need>>
  BY BodyTaken
<1>2. TypeOK'
  BY <1>1 DEF Inv, TypeOK
<1>3. Typed'
  BY <1>1 DEF Inv, Typed
<1>4. answered
  <2> SUFFICES ASSUME ~answered PROVE FALSE
    OBVIOUS
  <2>1. prefix = <<>> /\ wire = <<>> /\ answered \in BOOLEAN
    BY DEF Inv, Typed, Answered
  <2>2. CASE call = "ping"
    <3>1. need = Len(Nonce)
      BY <1>1, <2>2 DEF Inv, Progress
    <3>2. Len(wire) >= need
      BY DEF ReadBody
    <3>3. Len(wire) = 0
      BY <2>1
    <3> QED
      BY <3>1, <3>2, <3>3, Constants
  <2>3. CASE call # "ping"
    <3>1. PICK r \in ReadVarint(prefix, 1) : TRUE
      BY <1>1, <2>3 DEF Inv, Progress
    <3>2. PICK e \in Nat : Ends(prefix, e)
      BY <2>1, <3>1, ReadEnds, EmptyBytes
    <3>3. Len(prefix) = 0
      BY <2>1
    <3> QED
      BY <3>2, <3>3 DEF Ends
  <2> QED
    BY <2>2, <2>3
<1>5. Answered'
  <2>1. PICK a \in Bytes : IsAnswer(a) /\ Flows(a)
    BY <1>1, <1>4 DEF Inv, Answered
  <2>2. IsAnswer(a)'
    BY <1>1, <2>1 DEF IsAnswer
  <2>3. Flows(a)'
    <3>1. PICK rest \in Bytes : /\ ~closed => rest = coming
                                /\ Cat(prefix, Cat(body, Cat(wire, rest))) = Cat(a, tail)
      BY <2>1 DEF Flows
    <3>2. Cat(body, Cat(wire, rest)) = Cat(body', Cat(wire', rest))
      <4>1. wire \in Bytes
        BY DEF Inv, Typed
      <4>2. Cat(wire, rest) \in Bytes
        BY <4>1, CatBytes
      <4>3. Cat(body, Cat(wire, rest)) = Cat(wire, rest)
        BY <1>1, <4>2, EmptyBytes
      <4>4. Cat(Cat(body', wire'), rest) = Cat(body', Cat(wire', rest))
        BY <1>1, CatBytes
      <4> QED
        BY <1>1, <4>3, <4>4, Zenon
    <3>3. Cat(prefix', Cat(body', Cat(wire', rest))) = Cat(a, tail)
      BY <1>1, <3>1, <3>2, Zenon
    <3> QED
      BY <1>1, <3>1, <3>3 DEF Flows
  <2> QED
    BY <1>1, <1>4, <2>2, <2>3 DEF Inv, Answered
<1>6. Progress'
  <2>1. outcome' = "read" => Len(body') = need' /\ (call = "ping" => body' = Nonce)
    BY <1>1
  <2>2. IF call = "ping" THEN prefix = <<>> /\ need = Len(Nonce)
        ELSE /\ \E r \in ReadVarint(prefix, 1) : r.value = need /\ r.next = Len(prefix) + 1
             /\ ~(Len(prefix) > 1 /\ prefix[Len(prefix)] = 0)
    BY <1>1 DEF Inv, Progress
  <2> QED
    BY <1>1, <2>1, <2>2 DEF Progress
<1>7. Faithful'
  <2>1. reply # None => call # "ping"
    <3>1. PICK a \in Bytes : IsAnswer(a)
      BY <1>4 DEF Inv, Answered
    <3> QED
      BY <3>1 DEF IsAnswer
  <2> QED
    BY <1>1, <1>4, <2>1 DEF Inv, Faithful
<1> QED
  BY <1>2, <1>3, <1>5, <1>6, <1>7 DEF Inv

\* ReadEof keeps the invariant.
LEMMA ReadEofInv ==
  ASSUME Inv, ReadEof
  PROVE  Inv'
<1> USE DEF remote
<1>1. /\ phase \in {"length", "body"} /\ outcome = "pending" /\ body = <<>>
      /\ wire' = <<>> /\ phase' = "done" /\ outcome' = "eof"
      /\ UNCHANGED <<call, sent, remote, prefix, need, body>>
  BY DEF ReadEof, Done, Inv, TypeOK, Progress
<1>2. TypeOK'
  BY <1>1 DEF Inv, TypeOK
<1>3. Typed'
  BY <1>1, EmptyBytes DEF Inv, Typed
<1>4. Answered'
  BY <1>1 DEF Inv, Answered, IsAnswer
<1>5. Progress'
  BY <1>1 DEF Progress
<1>6. Faithful'
  BY <1>1 DEF Inv, Faithful
<1> QED
  BY <1>2, <1>3, <1>4, <1>5, <1>6 DEF Inv

\* The other end begins to answer, in one piece or two.
LEMMA AnswerInv ==
  ASSUME Inv, NEW a \in Bytes, NEW message, NEW t \in Bytes, Answer(a, message, t),
         \/ /\ call # "ping"
            /\ \E m \in Replies[call] : message = Some(m) /\ a = Frame(TypeOf(call), m)
         \/ call # "ping" /\ message = None /\ a \in Garbage
         \/ call = "ping" /\ message = None /\ a \in Echoes /\ (Len(a) >= Len(Nonce) \/ t = <<>>)
  PROVE  Inv'
<1> DEFINE z == Cat(a, t)
<1>1. z \in Bytes /\ Len(z) \in Nat
  BY CatBytes
<1>2. PICK k \in 0 .. Len(z) : /\ wire' = SubSeq(z, 1, k)
                               /\ coming' = SubSeq(z, k + 1, Len(z))
  BY DEF Answer, Cat
<1>3. /\ ~answered /\ ~closed /\ answered' = TRUE /\ reply' = message /\ tail' = t
      /\ UNCHANGED <<call, phase, sent, closed, prefix, need, body, outcome>>
  BY DEF Answer
<1> HIDE DEF z
<1>4. wire' \in Bytes /\ coming' \in Bytes /\ Cat(wire', coming') = z
  <2>1. k \in Nat /\ k <= Len(z)
    BY <1>1
  <2>2. /\ SubSeq(z, 1, k) \in Bytes /\ SubSeq(z, k + 1, Len(z)) \in Bytes
        /\ Cat(SubSeq(z, 1, k), SubSeq(z, k + 1, Len(z))) = z
    BY <1>1, <2>1, CutAt
  <2> QED
    BY <1>2, <2>2, Zenon
<1>5. prefix = <<>> /\ body = <<>>
  BY <1>3 DEF Inv, Typed, Answered
<1>6. TypeOK'
  BY <1>3 DEF Inv, TypeOK
<1>7. Typed'
  BY <1>3, <1>4 DEF Inv, Typed
<1>8. Answered'
  <2>1. IsAnswer(a)'
    BY <1>3 DEF IsAnswer
  <2>2. Flows(a)'
    <3>1. Cat(prefix', Cat(body', Cat(wire', coming'))) = z
      BY <1>1, <1>3, <1>4, <1>5, EmptyBytes
    <3>2. z = Cat(a, tail')
      BY <1>3 DEF z
    <3> QED
      BY <1>3, <1>4, <3>1, <3>2 DEF Flows
  <2> QED
    BY <1>3, <2>1, <2>2 DEF Inv, Typed, Answered
<1>9. Progress'
  BY <1>3 DEF Inv, Progress
<1>10. Faithful'
  BY <1>3 DEF Inv, Faithful
<1> QED
  BY <1>6, <1>7, <1>8, <1>9, <1>10 DEF Inv

\* The other end writes some of its answer, with more to come.
LEMMA RemoteAnswersInv ==
  ASSUME Inv, RemoteAnswers
  PROVE  Inv'
<1>1. call \in Calls
  BY DEF Inv, TypeOK
<1>2. CASE call # "ping"
  <2>1. PICK t \in Tails :
           \/ \E m \in Replies[call] : Answer(Frame(TypeOf(call), m), Some(m), t)
           \/ \E g \in Garbage : Answer(g, None, t)
    BY <1>2 DEF RemoteAnswers
  <2>2. t \in Bytes
    BY Constants
  <2>3. ASSUME NEW m \in Replies[call], Answer(Frame(TypeOf(call), m), Some(m), t)
        PROVE  Inv'
    <3>1. call \in DOMAIN Replies
      BY <1>1, <1>2, Constants
    <3>2. Frame(TypeOf(call), m) \in Bytes
      BY <3>1, ReplyFacts, Zenon
    <3> DEFINE a == Frame(TypeOf(call), m)
               message == Some(m)
    <3>3. a \in Bytes /\ Answer(a, message, t) /\ message = Some(m) /\ a = Frame(TypeOf(call), m)
      BY <2>3, <3>2
    <3> HIDE DEF a, message
    <3> QED
      BY <1>2, <2>2, <3>3, AnswerInv, Zenon
  <2>4. ASSUME NEW g \in Garbage, Answer(g, None, t)
        PROVE  Inv'
    <3>1. g \in Bytes
      BY Constants
    <3> QED
      BY <1>2, <2>2, <2>4, <3>1, AnswerInv, Zenon
  <2> QED
    BY <2>1, <2>3, <2>4
<1>3. CASE call = "ping"
  <2>1. PICK e \in Echoes, t \in Tails :
           (Len(e) >= Len(Nonce) \/ t = <<>>) /\ Answer(e, None, t)
    BY <1>3 DEF RemoteAnswers
  <2>2. e \in Bytes /\ t \in Bytes
    BY Constants
  <2> QED
    BY <1>3, <2>1, <2>2, AnswerInv, Zenon
<1> QED
  BY <1>2, <1>3

\* What was to come has arrived.
LEMMA RemoteGoesOnInv ==
  ASSUME Inv, RemoteGoesOn
  PROVE  Inv'
<1>1. /\ coming # <<>> /\ wire' = Cat(wire, coming) /\ coming' = <<>>
      /\ UNCHANGED <<call, phase, sent, reply, tail, answered, closed, prefix, need, body, outcome>>
  BY DEF RemoteGoesOn, Cat
<1>2. wire \in Bytes /\ coming \in Bytes /\ answered \in BOOLEAN /\ closed \in BOOLEAN
  BY DEF Inv, Typed
<1>3. answered /\ ~closed
  BY <1>1, <1>2 DEF Inv, Answered
<1>4. TypeOK'
  BY <1>1 DEF Inv, TypeOK
<1>5. Typed'
  <2>1. wire' \in Bytes /\ coming' \in Bytes
    BY <1>1, <1>2, CatBytes, EmptyBytes
  <2> QED
    BY <1>1, <2>1 DEF Inv, Typed
<1>6. Answered'
  <2>1. outcome \in {"pending", "read"} \/ outcome \notin {"pending", "read"}
    OBVIOUS
  <2>2. PICK a \in Bytes : IsAnswer(a) /\ (outcome \in {"pending", "read"} => Flows(a))
    BY <1>3 DEF Inv, Answered
  <2>3. IsAnswer(a)'
    BY <1>1, <2>2 DEF IsAnswer
  <2>4. ASSUME Flows(a)
        PROVE  Flows(a)'
    <3>1. PICK rest \in Bytes : /\ ~closed => rest = coming
                                /\ Cat(prefix, Cat(body, Cat(wire, rest))) = Cat(a, tail)
      BY <2>4 DEF Flows
    <3>2. rest = coming
      BY <1>3, <3>1
    <3>3. Cat(wire', <<>>) = Cat(wire, rest)
      <4>1. Cat(wire, coming) \in Bytes
        BY <1>2, CatBytes
      <4>2. Cat(Cat(wire, coming), <<>>) = Cat(wire, coming)
        BY <4>1, EmptyBytes
      <4> QED
        BY <1>1, <3>2, <4>2, Zenon
    <3>4. Cat(prefix', Cat(body', Cat(wire', <<>>))) = Cat(a, tail')
      BY <1>1, <3>1, <3>3, Zenon
    <3> QED
      BY <1>1, <3>4, EmptyBytes DEF Flows
  <2> QED
    BY <1>1, <1>3, <2>2, <2>3, <2>4 DEF Answered
<1>7. Progress'
  BY <1>1 DEF Inv, Progress
<1>8. Faithful'
  BY <1>1 DEF Inv, Faithful
<1> QED
  BY <1>4, <1>5, <1>6, <1>7, <1>8 DEF Inv

\* What was to come is lost.
LEMMA RemoteClosesInv ==
  ASSUME Inv, RemoteCloses
  PROVE  Inv'
<1>1. /\ closed' = TRUE /\ coming' = <<>> /\ ~closed
      /\ UNCHANGED <<call, phase, sent, wire, reply, tail, answered, prefix, need, body, outcome>>
  BY DEF RemoteCloses
<1>2. TypeOK'
  BY <1>1 DEF Inv, TypeOK
<1>3. Typed'
  BY <1>1, EmptyBytes DEF Inv, Typed
<1>4. Answered'
  <2>1. ASSUME answered
        PROVE  \E a \in Bytes : IsAnswer(a)' /\ (outcome \in {"pending", "read"} => Flows(a)')
    <3>1. PICK a \in Bytes : IsAnswer(a) /\ (outcome \in {"pending", "read"} => Flows(a))
      BY <2>1 DEF Inv, Answered
    <3>2. IsAnswer(a)'
      BY <1>1, <3>1 DEF IsAnswer
    <3>3. Flows(a) => Flows(a)'
      BY <1>1 DEF Flows
    <3> QED
      BY <3>1, <3>2, <3>3
  <2> QED
    BY <1>1, <2>1 DEF Inv, Answered
<1>5. Progress'
  BY <1>1 DEF Inv, Progress
<1>6. Faithful'
  BY <1>1 DEF Inv, Faithful
<1> QED
  BY <1>2, <1>3, <1>4, <1>5, <1>6 DEF Inv

\* Every step keeps the invariant.
LEMMA NextInv == Inv /\ [Next]_vars => Inv'
<1> SUFFICES ASSUME Inv, [Next]_vars PROVE Inv'
  OBVIOUS
<1>1. CASE Begin
  BY <1>1, BeginInv
<1>2. CASE ReadLength
  BY <1>2, ReadLengthInv
<1>3. CASE ReadBody
  BY <1>3, ReadBodyInv
<1>4. CASE ReadEof
  BY <1>4, ReadEofInv
<1>5. CASE RemoteAnswers
  BY <1>5, RemoteAnswersInv
<1>6. CASE RemoteGoesOn
  BY <1>6, RemoteGoesOnInv
<1>7. CASE RemoteCloses
  BY <1>7, RemoteClosesInv
<1>8. CASE UNCHANGED vars
  BY <1>8 DEF vars, remote, Inv, TypeOK, Typed, Answered, IsAnswer, Flows, Progress, Faithful
<1> QED
  BY <1>1, <1>2, <1>3, <1>4, <1>5, <1>6, <1>7, <1>8 DEF Next, Local

\* It holds in every state that a call may be in.
LEMMA Invariant == Spec => []Inv
BY InitInv, NextInv, PTL DEF Spec

\* The types of the variables: no body is longer than max_packet_size.
THEOREM TypeCorrect == Spec => []TypeOK
<1>1. Inv => TypeOK
  BY DEF Inv
<1> QED
  BY <1>1, Invariant, PTL

-----------------------------------------------------------------------------
(* What the invariant is for.                                              *)

\* A body is read when an answer has come.
LEMMA ReadAnswered ==
  ASSUME Inv, outcome = "read"
  PROVE  answered
<1> SUFFICES ASSUME ~answered PROVE FALSE
  OBVIOUS
<1>1. prefix = <<>> /\ body = <<>>
  BY DEF Inv, Typed, Answered
<1>2. Len(prefix) = 0 /\ Len(body) = 0
  BY <1>1
<1>3. CASE call = "ping"
  BY <1>1, <1>3, Constants DEF Inv, Progress
<1>4. CASE call # "ping"
  <2>1. PICK r \in ReadVarint(prefix, 1) : TRUE
    BY <1>4 DEF Inv, Progress
  <2>2. PICK e \in Nat : Ends(prefix, e)
    BY <1>1, <2>1, ReadEnds, EmptyBytes
  <2> QED
    BY <1>2, <2>2 DEF Ends
<1> QED
  BY <1>3, <1>4

\* A body that is read is the message that was written, and what follows it is
\* left on the stream; of what is no message nothing is made.
LEMMA BodyIs ==
  ASSUME Inv, outcome = "read"
  PROVE  /\ \E rest \in Bytes : (~closed => rest = coming) /\ Cat(wire, rest) = tail
         /\ call # "ping" =>
               \/ \E m \in Replies[call] :
                     /\ call \in DOMAIN Replies /\ reply = Some(m)
                     /\ Parsed = {x \in {m} : Initialized(TypeOf(call), x)}
               \/ reply = None /\ Parsed = {}
<1>1. /\ prefix \in Bytes /\ body \in Bytes /\ wire \in Bytes /\ tail \in Bytes
      /\ call \in Calls
  BY DEF Inv, Typed, TypeOK
<1>2. PICK a \in Bytes : IsAnswer(a) /\ Flows(a)
  BY ReadAnswered DEF Inv, Answered
<1>3. PICK rest \in Bytes : /\ ~closed => rest = coming
                            /\ Cat(prefix, Cat(body, Cat(wire, rest))) = Cat(a, tail)
  BY <1>2 DEF Flows
<1> DEFINE z == Cat(wire, rest)
<1>4. z \in Bytes /\ Cat(prefix, Cat(body, z)) = Cat(a, tail)
  BY <1>1, <1>3, CatBytes
<1>5. CASE call = "ping"
  <2>1. prefix = <<>> /\ Len(body) = Len(Nonce)
    BY <1>5 DEF Inv, Progress
  <2>2. Len(a) <= Len(Nonce) /\ (Len(a) >= Len(Nonce) \/ tail = <<>>)
    BY <1>2, <1>5, Constants DEF IsAnswer
  <2> HIDE DEF z
  <2>3. Cat(body, z) \in Bytes
    BY <1>1, <1>4, CatBytes
  <2>4. Cat(body, z) = Cat(a, tail)
    BY <1>4, <2>1, <2>3, EmptyBytes
  <2>5. Len(body) = Len(a)
    <3> DEFINE i == Len(body)
               j == Len(z)
               k == Len(a)
               l == Len(tail)
               n == Len(Nonce)
    <3>1. i \in Nat /\ j \in Nat /\ k \in Nat /\ l \in Nat /\ n \in Nat
      BY <1>1, <1>4, CatBytes, Constants
    <3>2. Len(Cat(body, z)) = i + j /\ Len(Cat(a, tail)) = k + l
      BY <1>1, <1>4, CatBytes
    <3>3. tail = <<>> => l = 0
      BY EmptyBytes
    <3>4. i + j = k + l /\ i = n /\ k <= n /\ (k >= n \/ l = 0)
      BY <2>1, <2>2, <2>4, <3>2, <3>3, Zenon
    <3> HIDE DEF i, j, k, l, n
    <3>5. i = k
      BY <3>1, <3>4
    <3> QED
      BY <3>5 DEF i, k
  <2>6. z = tail
    BY <1>1, <1>4, <2>4, <2>5, SameParts
  <2> QED
    BY <1>3, <1>5, <2>6 DEF z
<1>6. CASE call # "ping"
  <2>1. PICK r \in ReadVarint(prefix, 1) : r.value = need /\ r.next = Len(prefix) + 1
    BY <1>6 DEF Inv, Progress
  <2>2. ~(Len(prefix) > 1 /\ prefix[Len(prefix)] = 0) /\ Len(body) = need
    BY <1>6 DEF Inv, Progress
  <2>3. r.value \in 0 .. MaxRecvLen
    BY <1>6, <2>1 DEF Inv, TypeOK
  <2>4. call \in DOMAIN Replies
    BY <1>1, <1>6, Constants
  <2> HIDE DEF z
  <2>5. ASSUME NEW m \in Replies[call], reply = Some(m), a = Frame(TypeOf(call), m)
        PROVE  z = tail /\ Parsed = {x \in {m} : Initialized(TypeOf(call), x)}
    <3> DEFINE fields == TypeOf(call)
    <3>1. /\ IsType2(fields) /\ IsMessage(Is2, fields, m) /\ ComputeSize(fields, m) \in Number
      BY <2>4, ReplyFacts, Zenon
    <3>2. a = Frame(fields, m)
      BY <2>5
    <3>3. Parsed = ParseFromBytes(fields, body)
      BY DEF Parsed
    <3> HIDE DEF fields
    <3>4. Cat(prefix, Cat(body, z)) = Cat(Frame(fields, m), tail) /\ Len(body) = r.value
      BY <1>4, <2>1, <2>2, <3>2, Zenon
    <3>5. body = Write(fields, m) /\ z = tail
      <4>1. /\ prefix \in Bytes /\ body \in Bytes /\ z \in Bytes /\ tail \in Bytes
            /\ r \in ReadVarint(prefix, 1) /\ r.next = Len(prefix) + 1
        BY <1>1, <1>4, <2>1, Zenon
      <4> QED
        BY <3>1, <3>4, <4>1, FrameTaken, SMTT(60)
    <3>6. MergeFrom(fields, Write(fields, m)) = {m}
      BY <3>1, WrittenIsRead, Zenon
    <3>7. ParseFromBytes(fields, body) = {x \in {m} : Initialized(fields, x)}
      BY <3>5, <3>6, ParsedIs, Zenon
    <3> QED
      BY <3>3, <3>5, <3>7, Zenon DEF fields
  <2>6. ASSUME a \in Garbage
        PROVE  z = tail /\ Parsed = {}
    <3>1. Len(body) = r.value
      BY <2>1, <2>2, Zenon
    <3>2. z = tail /\ \A c \in DOMAIN Replies : ParseFromBytes(TypeOf(c), body) = {}
      <4>1. /\ prefix \in Bytes /\ body \in Bytes /\ z \in Bytes /\ tail \in Bytes
            /\ r \in ReadVarint(prefix, 1) /\ r.next = Len(prefix) + 1
            /\ Cat(prefix, Cat(body, z)) = Cat(a, tail)
            /\ ~(Len(prefix) > 1 /\ prefix[Len(prefix)] = 0)
        BY <1>1, <1>4, <2>1, <2>2, Zenon
      <4> QED
        BY <2>3, <2>6, <3>1, <4>1, GarbageTaken, SMTT(60)
    <3> QED
      BY <2>4, <3>2, Zenon DEF Parsed
  <2>7. \/ \E m \in Replies[call] : reply = Some(m) /\ a = Frame(TypeOf(call), m)
        \/ reply = None /\ a \in Garbage
    BY <1>2, <1>6, Zenon DEF IsAnswer
  <2>8. z = tail
    BY <2>5, <2>6, <2>7, Zenon
  <2>9. \/ \E m \in Replies[call] : /\ call \in DOMAIN Replies /\ reply = Some(m)
                                    /\ Parsed = {x \in {m} : Initialized(TypeOf(call), x)}
        \/ reply = None /\ Parsed = {}
    BY <2>4, <2>5, <2>6, <2>7, Zenon
  <2> QED
    BY <1>3, <2>8, <2>9, Zenon DEF z
<1> QED
  BY <1>5, <1>6

\* What is left of the stream begins what follows the answer.
LEMMA PrefixOf ==
  ASSUME NEW u \in Bytes, NEW v \in Bytes, NEW t, t = Cat(u, v)
  PROVE  IsPrefix(u, t)
<1>1. /\ t \in Seq(Byte) /\ Len(t) = Len(u) + Len(v) /\ Len(u) \in Nat /\ Len(v) \in Nat
      /\ \A j \in 1 .. Len(u) : t[j] = u[j]
  BY CatFirst DEF Bytes
<1> DEFINE s == SubSeq(t, 1, Len(u))
           r == SubSeq(u, 1, Len(u))
<1>2. s \in Seq(Byte) /\ Len(s) = Len(u) /\ \A j \in 1 .. Len(u) : s[j] = t[j]
  BY <1>1
<1>3. r \in Seq(Byte) /\ Len(r) = Len(u) /\ \A j \in 1 .. Len(u) : r[j] = u[j]
  BY <1>1 DEF Bytes
<1> HIDE DEF s, r
<1>4. s = r
  BY <1>1, <1>2, <1>3
<1>5. Len(u) <= Len(t)
  BY <1>1
<1> QED
  BY <1>4, <1>5, Zenon DEF IsPrefix, s, r

\* A call leaves on the stream what follows its answer.
THEOREM NothingIsOverread == Spec => []NothingOverread
<1>1. Inv => NothingOverread
  <2> SUFFICES ASSUME Inv, outcome = "read"
               PROVE  IF closed THEN IsPrefix(wire, tail) ELSE wire \o coming = tail
    BY DEF NothingOverread
  <2>1. PICK rest \in Bytes : (~closed => rest = coming) /\ Cat(wire, rest) = tail
    BY BodyIs
  <2>2. wire \in Bytes
    BY DEF Inv, Typed
  <2>3. IsPrefix(wire, tail)
    BY <2>1, <2>2, PrefixOf
  <2>4. ~closed => wire \o coming = tail
    BY <2>1 DEF Cat
  <2> QED
    BY <2>3, <2>4
<1> QED
  BY <1>1, Invariant, PTL

\* The frame of an answer that has arrived whole is on the stream behind what
\* was read of it.
LEMMA WholeFrame ==
  ASSUME Inv, answered, reply # None, coming = <<>>, ~closed, outcome = "pending"
  PROVE  \E m \in Replies[call] :
            /\ call \in DOMAIN Replies /\ call # "ping"
            /\ Cat(prefix, wire) = Cat(Frame(TypeOf(call), m), tail)
<1>1. /\ prefix \in Bytes /\ wire \in Bytes /\ body = <<>> /\ call \in Calls
  BY DEF Inv, TypeOK, Typed, Progress
<1>2. PICK a \in Bytes : IsAnswer(a) /\ Flows(a)
  BY DEF Inv, Answered
<1>3. Cat(prefix, Cat(body, Cat(wire, <<>>))) = Cat(a, tail)
  BY <1>2 DEF Flows
<1>4. Cat(body, Cat(wire, <<>>)) = wire
  BY <1>1, EmptyBytes
<1>5. call # "ping" /\ \E m \in Replies[call] : a = Frame(TypeOf(call), m)
  BY <1>2 DEF IsAnswer
<1>6. call \in DOMAIN Replies
  BY <1>1, <1>5, Constants
<1> QED
  BY <1>3, <1>4, <1>5, <1>6, Zenon

\* A call waits only for bytes of its answer that are still to come.
THEOREM NeverStarved == Spec => []NeverStarves
<1>1. ASSUME Inv, answered, reply # None, coming = <<>>, ~closed, outcome = "pending"
      PROVE  /\ phase = "length" => wire # <<>>
             /\ phase = "body" => Len(wire) >= need
  <2>1. PICK m \in Replies[call] :
            /\ call \in DOMAIN Replies /\ call # "ping"
            /\ Cat(prefix, wire) = Cat(Frame(TypeOf(call), m), tail)
    BY <1>1, WholeFrame
  <2> DEFINE fields == TypeOf(call)
             F == Frame(fields, m)
             s == ComputeSize(fields, m)
             len == [value |-> s, next |-> 1 + VarintSize(s)]
  <2>2. /\ prefix \in Bytes /\ wire \in Bytes /\ tail \in Bytes
    BY <1>1 DEF Inv, Typed
  <2>3. IsType2(fields) /\ IsMessage(Is2, fields, m) /\ s \in Number
    BY <2>1, ReplyFacts, Zenon
  <2>4. /\ s \in Nat /\ VarintSize(s) \in 1 .. 10
        /\ F \in Bytes /\ Len(F) = VarintSize(s) + s
        /\ ReadVarint(Cat(F, tail), 1) = {len}
    BY <2>2, <2>3, FrameParts, Zenon
  <2>5. Cat(prefix, wire) = Cat(F, tail)
    BY <2>1
  <2> HIDE DEF fields, F, s, len
  <2>6. len \in ReadVarint(Cat(F, tail), 1)
    BY <2>4, Zenon
  <2>7. ASSUME phase = "length", wire = <<>>
        PROVE  FALSE
    <3>1. Cat(prefix, <<>>) = prefix
      BY <2>2, EmptyBytes
    <3>2. len \in ReadVarint(prefix, 1)
      BY <2>5, <2>6, <2>7, <3>1, Zenon
    <3>3. PICK e \in Nat : Ends(prefix, e)
      BY <2>2, <3>2, ReadEnds, Zenon
    <3>4. e \in 1 .. Len(prefix) /\ prefix[e] < 128
      BY <3>3 DEF Ends
    <3>5. prefix[e] >= 128
      BY <1>1, <2>7, <3>4 DEF Inv, Progress
    <3>6. prefix[e] \in Int
      BY <2>2, <3>4, ByteAt DEF Bytes
    <3> QED
      BY <3>4, <3>5, <3>6
  <2>8. ASSUME phase = "body"
        PROVE  Len(wire) >= need
    <3>1. PICK r \in ReadVarint(prefix, 1) : r.value = need /\ r.next = Len(prefix) + 1
      BY <1>1, <2>1, <2>8 DEF Inv, Progress
    <3>2. len = r
      BY <2>2, <2>4, <2>5, <2>6, SameLength, Zenon
    <3>3. need = s /\ Len(prefix) + 1 = 1 + VarintSize(s)
      BY <3>1, <3>2 DEF len
    <3>4. Len(Cat(prefix, wire)) = Len(prefix) + Len(wire) /\ Len(prefix) \in Nat /\ Len(wire) \in Nat
      BY <2>2, CatBytes
    <3>5. Len(Cat(F, tail)) = Len(F) + Len(tail) /\ Len(tail) \in Nat
      BY <2>2, <2>4, CatBytes
    <3>6. Len(prefix) + Len(wire) = VarintSize(s) + s + Len(tail)
      BY <2>4, <2>5, <3>4, <3>5
    <3> DEFINE i == Len(prefix)
               j == Len(wire)
               k == Len(tail)
               v == VarintSize(s)
    <3>7. i \in Nat /\ j \in Nat /\ k \in Nat /\ v \in 1 .. 10 /\ s \in Nat
      BY <2>4, <3>4, <3>5, Zenon
    <3>8. i + j = v + s + k /\ i + 1 = 1 + v
      BY <3>3, <3>6, Zenon
    <3> HIDE DEF i, j, k, v
    <3>9. j >= s
      BY <3>7, <3>8
    <3> QED
      BY <3>3, <3>9 DEF j
  <2> QED
    BY <2>7, <2>8
<1>2. Inv => NeverStarves
  <2> SUFFICES ASSUME Inv, answered, reply # None, coming = <<>>, ~closed
               PROVE  /\ phase = "length" => wire # <<>>
                      /\ phase = "body" => Len(wire) >= need
    BY DEF NeverStarves
  <2>1. phase \in {"length", "body"} => outcome = "pending"
    BY DEF Inv, TypeOK
  <2> QED
    BY <1>1, <2>1
<1> QED
  BY <1>2, Invariant, PTL

\* What either end writes the other reads.
THEOREM FramesRoundTrip == Spec => []RoundTrip
<1>1. Inv => RoundTrip
  <2> SUFFICES ASSUME Inv
               PROVE  RoundTrip
    OBVIOUS
  <2>1. ASSUME sent # <<>>, call # "ping"
        PROVE  Deframed(TypeOf(call), sent) = ToSet(Request(call))
    <3>1. call \in Calls /\ sent = Requests[call]
      BY <2>1 DEF Inv, TypeOK, Faithful
    <3> QED
      BY <2>1, <3>1, RequestRead, Zenon
  <2>2. ASSUME NEW m, NEW a \in ToSet(Reaction(m))
        PROVE  Deframed(StopMessage, Frame(StopMessage, a)) = {a}
    <3>1. a = StopAccepted
      BY <2>2, ToSetOne, ToSetNone DEF Reaction, Some, None
    <3> QED
      BY <3>1, AcceptedRead, Zenon
  <2>3. ASSUME reply # None
        PROVE  outcome # "malformed"
    BY <2>3 DEF Inv, Faithful
  <2>4. ASSUME reply # None, outcome = "read"
        PROVE  Parsed = {m \in ToSet(reply) : Initialized(TypeOf(call), m)}
    <3>1. call # "ping"
      BY <2>4, ReadAnswered DEF Inv, Answered, IsAnswer
    <3>2. PICK m : reply = Some(m) /\ Parsed = {x \in {m} : Initialized(TypeOf(call), x)}
      BY <2>4, <3>1, BodyIs
    <3>3. ToSet(reply) = {m}
      BY <3>2, ToSetOne DEF Some
    <3> QED
      BY <3>2, <3>3, Zenon
  <2> QED
    BY <2>1, <2>2, <2>3, <2>4, Zenon DEF RoundTrip
<1> QED
  BY <1>1, Invariant, PTL

-----------------------------------------------------------------------------
(* What one end tells, the other end takes.                                *)

\* The fields of a message are those of its type.
LEMMA FieldOf ==
  ASSUME NEW fields, NEW i \in DOMAIN fields
  PROVE  fields[i].name \in DOMAIN New(fields)
<1>1. DOMAIN New(fields) = Names(fields) \cup {"unknown"}
  BY Zenon DEF New
<1> QED
  BY <1>1 DEF Names

\* What setting fields of a struct one after the other leaves in them.
LEMMA SetTwo ==
  ASSUME NEW f, NEW a \in DOMAIN f, NEW b \in DOMAIN f, a # b, NEW x, NEW y
  PROVE  /\ DOMAIN [f EXCEPT ![a] = x, ![b] = y] = DOMAIN f
         /\ [f EXCEPT ![a] = x, ![b] = y][a] = x
         /\ [f EXCEPT ![a] = x, ![b] = y][b] = y
         /\ \A c \in DOMAIN f \ {a, b} : [f EXCEPT ![a] = x, ![b] = y][c] = f[c]
OBVIOUS

\* The two messages of the stop exchange, each taken for that step only.
LEMMA StopMeant ==
  /\ StopAcceptResult(StopConnect) # None /\ StopConnectResult(StopConnect) = None
  /\ StopConnectResult(StopAccepted) # None /\ StopAcceptResult(StopAccepted) = None
  /\ StopConnect.type_ = Some(0)
<1> DEFINE new == New(StopMessage)
<1>1. StopMessage[1].name = "type_" /\ StopMessage[2].name = "peer" /\ StopMessage[4].name = "status"
      /\ DOMAIN StopMessage = 1 .. 4
  BY DEF StopMessage, Field, Nested
<1>2. "type_" \in DOMAIN new /\ "peer" \in DOMAIN new /\ "status" \in DOMAIN new
  <2>1. 1 \in DOMAIN StopMessage /\ 2 \in DOMAIN StopMessage /\ 4 \in DOMAIN StopMessage
    BY <1>1
  <2> QED
    BY <1>1, <2>1, FieldOf, Zenon
<1> DEFINE peer == Some([New(CircuitPeer) EXCEPT !.id = Some(LocalId)])
<1>3. StopConnect = [new EXCEPT !["type_"] = Some(0), !["peer"] = peer]
  BY DEF StopConnect, StopType
<1>4. StopAccepted = [new EXCEPT !["type_"] = Some(1), !["status"] = Some(100)]
  BY DEF StopAccepted, StopType, Status
<1> HIDE DEF new, peer
<1>5. StopConnect["type_"] = Some(0)
  BY <1>2, <1>3, SetTwo
<1>6. StopAccepted["type_"] = Some(1) /\ StopAccepted["status"] = Some(100)
  BY <1>2, <1>4, SetTwo
<1> QED
  BY <1>5, <1>6 DEF StopAcceptResult, StopConnectResult, StatusOk, StopType, Status, Some, None

\* The two messages of DCUtR.
LEMMA PunchMeant ==
  /\ DcutrConnectResult(DcutrConnect) = Some(LocalAddrs) /\ DcutrSyncResult(DcutrConnect) = None
  /\ DcutrSyncResult(DcutrSync) # None /\ DcutrConnectResult(DcutrSync) = None
<1> DEFINE new == New(HolePunch)
<1>1. HolePunch[1].name = "type_" /\ HolePunch[2].name = "ObsAddrs" /\ DOMAIN HolePunch = 1 .. 2
  BY DEF HolePunch, Field
<1>2. "type_" \in DOMAIN new /\ "ObsAddrs" \in DOMAIN new
  <2>1. 1 \in DOMAIN HolePunch /\ 2 \in DOMAIN HolePunch
    BY <1>1
  <2> QED
    BY <1>1, <2>1, FieldOf, Zenon
<1>3. DcutrConnect = [new EXCEPT !["type_"] = Some(100), !["ObsAddrs"] = LocalAddrs]
  BY DEF DcutrConnect, HolePunchType
<1>4. DcutrSync = [new EXCEPT !["type_"] = Some(300)]
  BY DEF DcutrSync, HolePunchType
<1> HIDE DEF new
<1>5. DcutrConnect["type_"] = Some(100) /\ DcutrConnect["ObsAddrs"] = LocalAddrs
  BY <1>2, <1>3, SetTwo
<1>6. DcutrSync["type_"] = Some(300)
  BY <1>2, <1>4
<1>7. AllGood(LocalAddrs)
  BY RpcAssumption DEF AllGood, ToSet
<1>8. Some(100) # Some(300)
  BY DEF Some
<1>9. DcutrConnectResult(DcutrConnect) = Some(LocalAddrs)
  BY <1>5, <1>7, Zenon DEF DcutrConnectResult, HolePunchType
<1>10. DcutrSyncResult(DcutrConnect) = None /\ DcutrConnectResult(DcutrSync) = None
  BY <1>5, <1>6, <1>8 DEF DcutrConnectResult, DcutrSyncResult, HolePunchType
<1>11. DcutrSyncResult(DcutrSync) # None
  BY <1>6 DEF DcutrSyncResult, HolePunchType, Some, None
<1> QED
  BY <1>9, <1>10, <1>11, Zenon

\* add_provider tells of the peer it was given.
LEMMA ProviderMeant ==
  PeerInfos(AddProvider.providerPeers)
    = Some(<< [id |-> Provider.id, addrs |-> Provider.addrs] >>)
<1> DEFINE new == New(KadMessage)
           peer == New(KadPeer)
           p == PeerOf(Provider)
           req == KadRequest(MessageType.ADD_PROVIDER)
<1>1. /\ KadMessage[1].name = "type_" /\ KadMessage[3].name = "key"
      /\ KadMessage[6].name = "providerPeers" /\ DOMAIN KadMessage = 1 .. 6
  BY DEF KadMessage, Field, Nested
<1>2. "type_" \in DOMAIN new /\ "key" \in DOMAIN new /\ "providerPeers" \in DOMAIN new
  <2>1. 1 \in DOMAIN KadMessage /\ 3 \in DOMAIN KadMessage /\ 6 \in DOMAIN KadMessage
    BY <1>1
  <2> QED
    BY <1>1, <2>1, FieldOf, Zenon
<1>3. /\ KadPeer[1].name = "id" /\ KadPeer[2].name = "addrs" /\ KadPeer[3].name = "connection"
      /\ DOMAIN KadPeer = 1 .. 3
  BY DEF KadPeer, Field
<1>4. "id" \in DOMAIN peer /\ "addrs" \in DOMAIN peer /\ "connection" \in DOMAIN peer
  <2>1. 1 \in DOMAIN KadPeer /\ 2 \in DOMAIN KadPeer /\ 3 \in DOMAIN KadPeer
    BY <1>3
  <2> QED
    BY <1>3, <2>1, FieldOf, Zenon
<1> HIDE DEF peer
<1>5. p["id"] = Some(Provider.id) /\ p["addrs"] = Provider.addrs
  <2>1. \E c : p = [peer EXCEPT !["id"] = Some(Provider.id), !["addrs"] = Provider.addrs,
                                !["connection"] = c]
    BY DEF PeerOf, peer
  <2>2. PICK c : p = [peer EXCEPT !["id"] = Some(Provider.id), !["addrs"] = Provider.addrs,
                                  !["connection"] = c]
    BY <2>1
  <2> HIDE DEF p
  <2> QED
    BY <1>4, <2>2
<1> HIDE DEF new, p
<1>6. req = [new EXCEPT !["type_"] = Some(MessageType.ADD_PROVIDER), !["key"] = Some(Key)]
  BY DEF KadRequest, new
<1> HIDE DEF req
<1>7. DOMAIN req = DOMAIN new
  BY <1>6
<1>8. AddProvider = [req EXCEPT !["providerPeers"] = << p >>]
  BY DEF AddProvider, req, p
<1>9. AddProvider["providerPeers"] = << p >>
  BY <1>2, <1>7, <1>8
<1> DEFINE ps == << p >>
<1>10. DOMAIN ps = {1} /\ ps[1] = p
  OBVIOUS
<1>11. AllGood(Provider.addrs) /\ Provider.id \in GoodIds
  BY RpcAssumption DEF AllGood, ToSet
<1>12. p.id[1] = Provider.id
  BY <1>5 DEF Some
<1> HIDE DEF ps
<1>13. \A i \in DOMAIN ps : ps[i].id[1] \in GoodIds /\ AllGood(ps[i].addrs)
  BY <1>5, <1>10, <1>11, <1>12, Zenon
<1> DEFINE info == [i \in DOMAIN ps |-> [id |-> ps[i].id[1], addrs |-> ps[i].addrs]]
<1>14. PeerInfos(ps) = Some(info)
  BY <1>13, Zenon DEF PeerInfos
<1>15. info = << [id |-> Provider.id, addrs |-> Provider.addrs] >>
  <2>1. info = [i \in {1} |-> [id |-> ps[i].id[1], addrs |-> ps[i].addrs]]
    BY <1>10, Zenon
  <2>2. ps[1].id[1] = Provider.id /\ ps[1].addrs = Provider.addrs
    BY <1>5, <1>10, <1>12, Zenon
  <2> HIDE DEF info
  <2> QED
    BY <2>1, <2>2
<1> QED
  BY <1>9, <1>14, <1>15, Zenon DEF ps

\* identity_response tells who it is, where it listens and what it speaks; of
\* a relayed connection it tells no address.
LEMMA IdentityMeant ==
  ASSUME NEW relay \in BOOLEAN
  PROVE  \E v \in ToSet(IdentityResult(LocalId, IdentityResponse(relay))) :
            /\ v.addrs = LocalAddrs /\ v.protos = LocalProtos
            /\ ToSet(v.observed) = IF relay THEN {} ELSE {LocalAddrs[1]} \ CircuitAddrs
<1> DEFINE new == New(Identity)
           m == IdentityResponse(relay)
           first == LocalAddrs[1]
           seen == IF relay THEN None ELSE Some(first)
<1>1. /\ Identity[2].name = "agentVersion" /\ Identity[3].name = "publicKey"
      /\ Identity[4].name = "listenAddrs" /\ Identity[5].name = "observedAddr"
      /\ Identity[6].name = "protocols" /\ DOMAIN Identity = 1 .. 7
  BY DEF Identity, Field
<1>2. {"agentVersion", "publicKey", "listenAddrs", "observedAddr", "protocols"} \subseteq DOMAIN new
  <2>1. /\ 2 \in DOMAIN Identity /\ 3 \in DOMAIN Identity /\ 4 \in DOMAIN Identity
        /\ 5 \in DOMAIN Identity /\ 6 \in DOMAIN Identity
    BY <1>1
  <2>2. /\ "agentVersion" \in DOMAIN new /\ "publicKey" \in DOMAIN new
        /\ "listenAddrs" \in DOMAIN new /\ "observedAddr" \in DOMAIN new
        /\ "protocols" \in DOMAIN new
    BY <1>1, <2>1, FieldOf, Zenon
  <2> HIDE DEF new
  <2> QED
    BY <2>2
<1>3. m = [new EXCEPT !["observedAddr"] = seen, !["publicKey"] = Some(LocalKey),
                      !["agentVersion"] = Some(<< 120 >>), !["protocols"] = LocalProtos,
                      !["listenAddrs"] = LocalAddrs]
  BY DEF IdentityResponse
<1> HIDE DEF new, m, seen
<1>4. /\ m["observedAddr"] = seen /\ m["publicKey"] = Some(LocalKey)
      /\ m["protocols"] = LocalProtos /\ m["listenAddrs"] = LocalAddrs
  BY <1>2, <1>3
<1> DEFINE key == IF m.publicKey = None THEN << >> ELSE m.publicKey[1]
           observed == IF m.observedAddr # None /\ m.observedAddr[1] \in CircuitAddrs
                       THEN None ELSE m.observedAddr
           it == [addrs |-> m.listenAddrs, protos |-> m.protocols, observed |-> observed]
<1>5. key = LocalKey
  <2>1. m.publicKey = << LocalKey >>
    BY <1>4 DEF Some
  <2>2. << LocalKey >> # None /\ << LocalKey >>[1] = LocalKey
    BY DEF None
  <2> QED
    BY <2>1, <2>2, Zenon
<1>6. LocalKey \in DOMAIN PublicKeys /\ PublicKeys[LocalKey] = LocalId
  BY RpcAssumption
<1>7. AllGood(m.listenAddrs)
  BY <1>4, RpcAssumption DEF AllGood, ToSet
<1>8. first \in GoodAddrs
  <2>1. 1 \in DOMAIN LocalAddrs
    BY RpcAssumption
  <2> QED
    BY <2>1, RpcAssumption DEF ToSet
<1>9. AllGood(m.observedAddr)
  <2>1. CASE relay
    BY <1>4, <2>1 DEF seen, None, AllGood
  <2>2. CASE ~relay
    <3>1. m.observedAddr = << first >>
      BY <1>4, <2>2 DEF seen, Some
    <3> HIDE DEF first
    <3> QED
      BY <1>8, <3>1 DEF AllGood
  <2> QED
    BY <2>1, <2>2
<1>10. IdentityResult(LocalId, m) = Some(it)
  BY <1>5, <1>6, <1>7, <1>9, Zenon DEF IdentityResult
<1>11. it \in ToSet(IdentityResult(LocalId, m))
  <2> HIDE DEF it
  <2> QED
    BY <1>10, ToSetOne DEF Some
<1>12. ToSet(observed) = IF relay THEN {} ELSE {first} \ CircuitAddrs
  <2> HIDE DEF first
  <2>1. CASE relay
    <3>1. observed = None
      BY <1>4, <2>1, Zenon DEF seen
    <3> HIDE DEF observed
    <3> QED
      BY <2>1, <3>1, ToSetNone DEF None
  <2>2. CASE ~relay
    <3>1. m.observedAddr = << first >>
      BY <1>4, <2>2 DEF seen, Some
    <3>2. << first >> # None /\ << first >>[1] = first
      BY DEF None
    <3>3. observed = IF first \in CircuitAddrs THEN None ELSE << first >>
      BY <3>1, <3>2, Zenon
    <3> HIDE DEF observed
    <3>4. CASE first \in CircuitAddrs
      BY <2>2, <3>3, <3>4, ToSetNone DEF None
    <3>5. CASE first \notin CircuitAddrs
      BY <2>2, <3>3, <3>5, ToSetOne
    <3> QED
      BY <3>4, <3>5
  <2> QED
    BY <2>1, <2>2
<1>13. it.addrs = LocalAddrs /\ it.protos = LocalProtos /\ it.observed = observed
  <2> HIDE DEF observed
  <2> QED
    BY <1>4
<1> HIDE DEF it, observed
<1>14. \E v \in ToSet(IdentityResult(LocalId, m)) :
          /\ v.addrs = LocalAddrs /\ v.protos = LocalProtos
          /\ ToSet(v.observed) = IF relay THEN {} ELSE {first} \ CircuitAddrs
  BY <1>11, <1>12, <1>13, Zenon
<1> QED
  BY <1>14 DEF m

\* Whatever a call tells is taken for what it is.
LEMMA RequestMeant ==
  ASSUME NEW m \in ToSet(Request(call))
  PROVE  TakenAsMeant(m)
<1>1. CASE call = "stop_connect"
  <2>1. m = StopConnect
    BY <1>1, ToSetOne DEF Request, Some
  <2> QED
    BY <1>1, <2>1, StopMeant DEF TakenAsMeant
<1>2. CASE call = "dcutr_send_connect"
  <2>1. m = DcutrConnect
    BY <1>2, ToSetOne DEF Request, Some
  <2> QED
    BY <1>2, <2>1, PunchMeant DEF TakenAsMeant
<1>3. CASE call = "dcutr_send_sync"
  <2>1. m = DcutrSync
    BY <1>3, ToSetOne DEF Request, Some
  <2> QED
    BY <1>3, <2>1, PunchMeant DEF TakenAsMeant
<1>4. CASE call = "add_provider"
  <2>1. m = AddProvider
    BY <1>4, ToSetOne DEF Request, Some
  <2> QED
    BY <1>4, <2>1, ProviderMeant DEF TakenAsMeant
<1>5. CASE call = "identity_response"
  <2>1. m = IdentityResponse(FALSE)
    BY <1>5, ToSetOne DEF Request, Some
  <2>2. \E v \in ToSet(IdentityResult(LocalId, m)) :
           /\ v.addrs = LocalAddrs /\ v.protos = LocalProtos
           /\ ToSet(v.observed) = IF FALSE THEN {} ELSE {LocalAddrs[1]} \ CircuitAddrs
    BY <2>1, IdentityMeant, Zenon
  <2> QED
    BY <1>5, <2>2 DEF TakenAsMeant
<1>6. CASE call = "identity_response_relay"
  <2>1. m = IdentityResponse(TRUE)
    BY <1>6, ToSetOne DEF Request, Some
  <2>2. \E v \in ToSet(IdentityResult(LocalId, m)) :
           /\ v.addrs = LocalAddrs /\ v.protos = LocalProtos
           /\ ToSet(v.observed) = IF TRUE THEN {} ELSE {LocalAddrs[1]} \ CircuitAddrs
    BY <2>1, IdentityMeant, Zenon
  <2> QED
    BY <1>6, <2>2 DEF TakenAsMeant
<1> QED
  BY <1>1, <1>2, <1>3, <1>4, <1>5, <1>6 DEF TakenAsMeant

\* The two ends of a protocol agree, and no call returns a value for less than
\* a message the other end has written.
THEOREM EndsAlwaysAgree == Spec => []EndsAgree
<1>1. Inv => EndsAgree
  <2> SUFFICES ASSUME Inv PROVE EndsAgree
    OBVIOUS
  <2>1. ASSUME sent # <<>>, call # "ping", NEW m \in Deframed(TypeOf(call), sent)
        PROVE  TakenAsMeant(m)
    <3>1. call \in Calls /\ sent = Requests[call]
      BY <2>1 DEF Inv, TypeOK, Faithful
    <3>2. m \in ToSet(Request(call))
      BY <2>1, <3>1, RequestRead, Zenon
    <3> QED
      BY <3>2, RequestMeant
  <2>2. ASSUME outcome = "read", call # "ping", NEW m \in Parsed
        PROVE  reply = Some(m)
    <3>1. \/ \E w \in Replies[call] :
                /\ call \in DOMAIN Replies /\ reply = Some(w)
                /\ Parsed = {x \in {w} : Initialized(TypeOf(call), x)}
          \/ reply = None /\ Parsed = {}
      BY <2>2, BodyIs, Zenon
    <3> QED
      BY <2>2, <3>1
  <2>3. ASSUME outcome = "read", call # "ping", NEW m \in Parsed, NEW a \in ToSet(Reaction(m))
        PROVE  /\ reply[1].type_ = StopConnect.type_
               /\ \A b \in Deframed(StopMessage, Frame(StopMessage, a)) :
                     StopConnectResult(b) # None /\ StopAcceptResult(b) = None
    <3>1. a = StopAccepted /\ StopAcceptResult(m) # None
      BY <2>3, ToSetOne, ToSetNone DEF Reaction, Some, None
    <3>2. m.type_ = Some(0)
      BY <3>1 DEF StopAcceptResult, StopType
    <3>3. reply[1] = m
      BY <2>2, <2>3 DEF Some
    <3>4. \A b \in Deframed(StopMessage, Frame(StopMessage, a)) : b = StopAccepted
      BY <3>1, AcceptedRead
    <3>5. reply[1].type_ = StopConnect.type_
      BY <3>2, <3>3, StopMeant, Zenon
    <3> QED
      BY <3>4, <3>5, StopMeant, Zenon
  <2> QED
    BY <2>1, <2>2, <2>3, Zenon DEF EndsAgree
<1> QED
  BY <1>1, Invariant, PTL
=============================================================================
