-------------------------- MODULE SerialExpectProofs --------------------------
(***************************************************************************)
(* Proofs about SerialExpect, for every set of programs, all timeouts, and *)
(* any number of bytes, in ASCII or beyond it.                             *)
(***************************************************************************)
EXTENDS SerialExpect, SequenceTheorems, FiniteSetTheorems, WellFoundedInduction, TLAPS

------------------------------------------------------------------------------
(***************************************************************************)
(* Induction and recursion over natural numbers, for sets and functions    *)
(* instead of operators.                                                   *)
(***************************************************************************)
LEMMA Least ==
  ASSUME NEW S \in SUBSET Nat, S # {}
  PROVE  \E m \in S : \A n \in S : m <= n
<1>1. PICK m \in S : \A n \in S : <<n, m>> \notin OpToRel(<, Nat)
  BY NatLessThanWellFounded, WFMin, Zenon
<1>2. ASSUME NEW n \in S PROVE ~(n < m)
  <2>1. n \in Nat /\ m \in Nat
    OBVIOUS
  <2> QED BY <1>1, <2>1, Zenon DEF OpToRel
<1>3. ASSUME NEW n \in S PROVE m <= n
  BY <1>2
<1> QED BY <1>3

LEMMA Greatest ==
  ASSUME NEW S \in SUBSET Nat, S # {}, NEW b \in Nat, \A n \in S : n <= b
  PROVE  \E m \in S : \A n \in S : n <= m
<1> DEFINE T == {b - n : n \in S}
<1>1. T \in SUBSET Nat /\ T # {}
  <2>1. PICK n \in S : TRUE
    OBVIOUS
  <2>2. b - n \in T
    OBVIOUS
  <2> QED BY <2>2
<1>2. PICK t \in T : \A u \in T : t <= u
  BY <1>1, Least
<1>3. PICK m \in S : t = b - m
  OBVIOUS
<1>4. ASSUME NEW n \in S PROVE n <= m
  <2>1. b - n \in T
    OBVIOUS
  <2> QED BY <1>2, <1>3, <2>1
<1> QED BY <1>4

LEMMA Induction ==
  ASSUME NEW n \in Nat, NEW S, 0 \in S, \A k \in 1 .. n : k - 1 \in S => k \in S
  PROVE  0 .. n \subseteq S
<1> DEFINE bad == (0 .. n) \ S
<1>1. SUFFICES ASSUME bad # {} PROVE FALSE
  OBVIOUS
<1>2. bad \in SUBSET Nat
  OBVIOUS
<1>3. PICK m \in bad : \A k \in bad : m <= k
  BY <1>1, <1>2, Least
<1>4. m \in 1 .. n /\ m - 1 \notin bad
  BY <1>3
<1> QED BY <1>3, <1>4

LEMMA Descent ==
  ASSUME NEW n \in Nat, NEW S, n \in S, \A k \in 1 .. n : k \in S => k - 1 \in S
  PROVE  0 .. n \subseteq S
<1> DEFINE T == {j \in 0 .. n : n - j \in S}
<1>1. 0 \in T
  OBVIOUS
<1>2. ASSUME NEW j \in 1 .. n, j - 1 \in T PROVE j \in T
  <2>1. n - (j - 1) \in S /\ n - (j - 1) \in 1 .. n /\ n - (j - 1) - 1 = n - j
    BY <1>2
  <2> QED BY <2>1
<1>3. 0 .. n \subseteq T
  <2> HIDE DEF T
  <2> QED BY <1>1, <1>2, Induction
<1>4. ASSUME NEW k \in 0 .. n PROVE k \in S
  <2>1. n - k \in T /\ n - (n - k) = k
    BY <1>3
  <2> QED BY <2>1
<1> QED BY <1>4

\* A sequence of n steps from a first value; there always is one.
IsRun(f, S, first, n, step) ==
  f \in [0 .. n -> S] /\ f[0] = first /\ \A k \in 1 .. n : f[k] = step[k][f[k - 1]]

LEMMA RunExists ==
  ASSUME NEW S, NEW first \in S, NEW n \in Nat, NEW step,
         \A k \in 1 .. n : \A s \in S : step[k][s] \in S
  PROVE  \E f : IsRun(f, S, first, n, step)
<1> DEFINE good == {m \in 0 .. n : \E f : IsRun(f, S, first, m, step)}
<1>1. 0 \in good
  <2> DEFINE g == [k \in 0 .. 0 |-> first]
  <2>1. IsRun(g, S, first, 0, step)
    BY DEF IsRun
  <2> QED BY <2>1
<1>2. ASSUME NEW m \in 1 .. n, m - 1 \in good PROVE m \in good
  <2>1. PICK f : IsRun(f, S, first, m - 1, step)
    BY <1>2
  <2> DEFINE g == [k \in 0 .. m |-> IF k = m THEN step[m][f[m - 1]] ELSE f[k]]
  <2>2. g \in [0 .. m -> S] /\ g[0] = first
    BY <2>1 DEF IsRun
  <2>3. ASSUME NEW k \in 1 .. m PROVE g[k] = step[k][g[k - 1]]
    BY <2>1 DEF IsRun
  <2> HIDE DEF g
  <2>4. IsRun(g, S, first, m, step)
    BY <2>2, <2>3 DEF IsRun
  <2> QED BY <2>4
<1>3. 0 .. n \subseteq good
  <2> HIDE DEF good
  <2> QED BY <1>1, <1>2, Induction
<1> QED BY <1>3

LEMMA MinIs ==
  ASSUME NEW S \in SUBSET Nat, S # {}
  PROVE  Min(S) \in S /\ \A n \in S : Min(S) <= n
BY Least DEF Min

LEMMA MaxIs ==
  ASSUME NEW S \in SUBSET Nat, NEW m \in S, \A n \in S : n <= m
  PROVE  Max(S) = m
<1>1. \A n \in S : m >= n
  OBVIOUS
<1> DEFINE greatest == CHOOSE x \in S : \A y \in S : x >= y
<1>2. greatest \in S /\ \A y \in S : greatest >= y
  BY <1>1
<1> HIDE DEF greatest
<1>3. greatest = m
  BY <1>2
<1> USE DEF greatest
<1> QED BY <1>3 DEF Max

------------------------------------------------------------------------------
(***************************************************************************)
(* The strings made of the bytes of a text.                                *)
(***************************************************************************)
LEMMA StringIs ==
  ASSUME NEW s \in Text
  PROVE  /\ s \in Seq(Chars) /\ Len(s) \in Nat /\ DOMAIN s = 1 .. Len(s)
         /\ \A i \in 1 .. Len(s) : s[i] \in Chars
BY LenProperties, ElementOfSeq DEF Text

\* A byte in ASCII is its own string; any other has a string of two such bytes.
LEMMA StringOfByte ==
  ASSUME NEW byte \in Chars
  PROVE  /\ AsString(byte) \in Seq(Chars)
         /\ byte \notin Wide => Len(AsString(byte)) = 1 /\ AsString(byte)[1] = byte
         /\ byte \in Wide => /\ Len(AsString(byte)) = 2
                             /\ AsString(byte)[1] \in Wide /\ AsString(byte)[2] \in Wide
<1>1. CASE byte \in Wide
  <2>1. PICK a \in Wide, b \in Wide : AsString(byte) = <<a, b>>
    BY <1>1, AlphabetAssumption DEF AsString
  <2>2. a \in Chars /\ b \in Chars
    BY AlphabetAssumption
  <2> QED BY <1>1, <2>1, <2>2
<1>2. CASE byte \notin Wide
  BY <1>2 DEF AsString
<1> QED BY <1>1, <1>2

\* t is s with the strings in place of the bytes: that of the k-th byte ends at at[k].
ConvertedBy(s, t, at) ==
  /\ s \in Seq(Chars) /\ t \in Seq(Chars)
  /\ at \in [0 .. Len(s) -> Nat] /\ at[0] = 0 /\ at[Len(s)] = Len(t)
  /\ \A k \in 1 .. Len(s) :
       /\ s[k] \notin Wide => at[k] = at[k - 1] + 1 /\ t[at[k]] = s[k]
       /\ s[k] \in Wide =>
            at[k] = at[k - 1] + 2 /\ t[at[k] - 1] \in Wide /\ t[at[k]] \in Wide

LEMMA ConversionTypes ==
  ASSUME NEW s, NEW t, NEW at, ConvertedBy(s, t, at)
  PROVE  /\ s \in Seq(Chars) /\ Len(s) \in Nat /\ t \in Seq(Chars) /\ Len(t) \in Nat
         /\ at \in [0 .. Len(s) -> Nat] /\ at[0] = 0 /\ at[Len(s)] = Len(t)
BY LenProperties DEF ConvertedBy

\* One more byte.
LEMMA OneMoreConverted ==
  ASSUME NEW s \in Text, NEW m \in 1 .. Len(s), NEW t \in Seq(Chars), NEW at,
         ConvertedBy(SubSeq(s, 1, m - 1), t, at)
  PROVE  \E next : ConvertedBy(SubSeq(s, 1, m), t \o AsString(s[m]), next)
<1> DEFINE u == t \o AsString(s[m])
    next == [k \in 0 .. m |-> IF k = m THEN Len(u) ELSE at[k]]
    before == SubSeq(s, 1, m - 1)
    after == SubSeq(s, 1, m)
<1>1. /\ s \in Seq(Chars) /\ Len(s) \in Nat /\ s[m] \in Chars
      /\ Len(t) \in Nat /\ AsString(s[m]) \in Seq(Chars)
  BY StringIs, StringOfByte, LenProperties
<1>2. /\ Len(before) = m - 1 /\ \A k \in 1 .. m - 1 : before[k] = s[k]
      /\ Len(after) = m /\ \A k \in 1 .. m : after[k] = s[k]
  BY <1>1, SubSeqProperties
<1>3. /\ Len(u) = Len(t) + Len(AsString(s[m]))
      /\ \A x \in 1 .. Len(t) : u[x] = t[x]
      /\ \A x \in 1 .. Len(AsString(s[m])) : u[Len(t) + x] = AsString(s[m])[x]
  BY <1>1, ConcatProperties, LenProperties
<1> HIDE DEF u, before, after
<1>4. /\ at \in [0 .. m - 1 -> Nat] /\ at[0] = 0 /\ at[m - 1] = Len(t)
      /\ \A k \in 1 .. m - 1 :
           /\ s[k] \notin Wide => at[k] = at[k - 1] + 1 /\ t[at[k]] = s[k]
           /\ s[k] \in Wide =>
                at[k] = at[k - 1] + 2 /\ t[at[k] - 1] \in Wide /\ t[at[k]] \in Wide
  BY <1>2 DEF ConvertedBy, before
<1>5. \A k \in 0 .. m - 1 : at[k] <= Len(t)
  <2> DEFINE low == {k \in 0 .. m - 1 : at[k] <= Len(t)}
  <2>1. m - 1 \in low
    BY <1>1, <1>4
  <2>2. ASSUME NEW k \in 1 .. m - 1, k \in low PROVE k - 1 \in low
    <3>1. at[k - 1] \in Nat /\ at[k] \in Nat /\ at[k] <= Len(t) /\ k - 1 \in 0 .. m - 1
      BY <1>4, <2>2
    <3>2. at[k] = at[k - 1] + 1 \/ at[k] = at[k - 1] + 2
      BY <1>4
    <3>3. at[k - 1] <= Len(t)
      <4> PICK a, b, n : a = at[k - 1] /\ b = at[k] /\ n = Len(t)
        OBVIOUS
      <4>1. a \in Nat /\ b \in Nat /\ n \in Nat /\ b <= n /\ (b = a + 1 \/ b = a + 2)
        BY <1>1, <3>1, <3>2
      <4>2. a <= n
        BY <4>1
      <4> QED BY <4>2
    <3> QED BY <3>1, <3>3
  <2>3. 0 .. m - 1 \subseteq low
    <3> HIDE DEF low
    <3> QED BY <2>1, <2>2, Descent
  <2> QED BY <2>3
<1>6. /\ s[m] \notin Wide => Len(u) = Len(t) + 1 /\ u[Len(t) + 1] = s[m]
      /\ s[m] \in Wide =>
           Len(u) = Len(t) + 2 /\ u[Len(t) + 1] \in Wide /\ u[Len(t) + 2] \in Wide
  <2> PICK byte, string : byte = s[m] /\ string = AsString(s[m])
    OBVIOUS
  <2>1. /\ byte \notin Wide => Len(string) = 1 /\ string[1] = byte
        /\ byte \in Wide => Len(string) = 2 /\ string[1] \in Wide /\ string[2] \in Wide
    BY <1>1, StringOfByte
  <2>2. /\ Len(u) = Len(t) + Len(string)
        /\ \A x \in 1 .. Len(string) : u[Len(t) + x] = string[x]
    BY <1>3
  <2>3. CASE byte \in Wide
    <3>1. Len(string) = 2 /\ 1 \in 1 .. Len(string) /\ 2 \in 1 .. Len(string)
      BY <2>1, <2>3
    <3> QED BY <2>1, <2>2, <2>3, <3>1
  <2>4. CASE byte \notin Wide
    <3>1. Len(string) = 1 /\ 1 \in 1 .. Len(string)
      BY <2>1, <2>4
    <3> QED BY <2>1, <2>2, <2>4, <3>1
  <2> QED BY <2>3, <2>4
<1>7. /\ next \in [0 .. m -> Nat] /\ next[0] = 0 /\ next[m] = Len(u)
      /\ \A k \in 0 .. m - 1 : next[k] = at[k]
  BY <1>1, <1>4, <1>6
<1> HIDE DEF next
<1>8. ASSUME NEW k \in 1 .. m
      PROVE  /\ s[k] \notin Wide => next[k] = next[k - 1] + 1 /\ u[next[k]] = s[k]
             /\ s[k] \in Wide => /\ next[k] = next[k - 1] + 2
                                 /\ u[next[k] - 1] \in Wide /\ u[next[k]] \in Wide
  <2>1. CASE k = m
    <3>1. next[k] = Len(u) /\ next[k - 1] = Len(t)
      BY <1>4, <1>7, <2>1
    <3>2. (Len(t) + 2) - 1 = Len(t) + 1
      BY <1>1
    <3> QED BY <1>6, <2>1, <3>1, <3>2
  <2>2. CASE k \in 1 .. m - 1
    <3>1. /\ next[k] = at[k] /\ next[k - 1] = at[k - 1] /\ at[k] \in Nat /\ at[k - 1] \in Nat
          /\ at[k] <= Len(t)
      BY <1>4, <1>5, <1>7, <2>2
    <3>2. s[k] \notin Wide => at[k] \in 1 .. Len(t)
      BY <1>1, <1>4, <2>2, <3>1
    <3>3. s[k] \in Wide => at[k] \in 1 .. Len(t) /\ at[k] - 1 \in 1 .. Len(t)
      <4>1. s[k] \in Wide => at[k] = at[k - 1] + 2
        BY <1>4, <2>2
      <4> PICK a, b, n : a = at[k - 1] /\ b = at[k] /\ n = Len(t)
        OBVIOUS
      <4>2. /\ a \in Nat /\ b \in Nat /\ n \in Nat /\ b <= n
            /\ s[k] \in Wide => b = a + 2
        BY <1>1, <3>1, <4>1
      <4>3. s[k] \in Wide => b \in 1 .. n /\ b - 1 \in 1 .. n
        BY <4>2
      <4> QED BY <4>3
    <3> QED BY <1>3, <1>4, <2>2, <3>1, <3>2, <3>3
  <2> QED BY <2>1, <2>2
<1>9. after \in Seq(Chars) /\ u \in Seq(Chars)
  BY <1>1, SubSeqProperties, ConcatProperties DEF after, u
<1>10. ConvertedBy(after, u, next)
  BY <1>2, <1>7, <1>8, <1>9 DEF ConvertedBy
<1> QED BY <1>10 DEF after, u

LEMMA ConvertedIs ==
  ASSUME NEW s \in Text
  PROVE  Converted(s) \in Seq(Chars) /\ \E at : ConvertedBy(s, Converted(s), at)
<1> DEFINE n == Len(s)
    strings == [i \in DOMAIN s |-> AsString(s[i])]
<1>1. s \in Seq(Chars) /\ n \in Nat /\ DOMAIN s = 1 .. n /\ \A i \in 1 .. n : s[i] \in Chars
  BY StringIs
<1>2. /\ strings \in Seq(Seq(Chars)) /\ Len(strings) = n
      /\ \A i \in 1 .. n : strings[i] = AsString(s[i]) /\ strings[i] \in Seq(Chars)
  <2>1. \A i \in 1 .. n : AsString(s[i]) \in Seq(Chars)
    BY <1>1, StringOfByte
  <2> QED BY <1>1, <2>1, LenProperties
<1>3. Converted(s) = FlattenSeq(strings)
  BY DEF Converted
<1> HIDE DEF strings
<1>4. CASE n = 0
  <2>1. Converted(s) = strings
    BY <1>2, <1>3, <1>4 DEF FlattenSeq
  <2>2. strings = <<>>
    BY <1>2, <1>4, EmptySeq
  <2> DEFINE at == [k \in 0 .. 0 |-> 0]
  <2>3. ConvertedBy(s, <<>>, at)
    BY <1>1, <1>4, EmptySeq DEF ConvertedBy
  <2> QED BY <2>1, <2>2, <2>3
<1>5. CASE n # 0
  <2> DEFINE Run(f) == [i \in 1 .. n |-> IF i = 1 THEN strings[i] ELSE f[i - 1] \o strings[i]]
      step == [k \in 1 .. n |-> [x \in Seq(Chars) |-> x \o strings[k]]]
  <2>1. ASSUME NEW k \in 1 .. n, NEW x \in Seq(Chars)
        PROVE  step[k][x] = x \o strings[k] /\ step[k][x] \in Seq(Chars)
    BY <1>2, ConcatProperties
  <2>2. PICK f : IsRun(f, Seq(Chars), <<>>, n, step)
    <3> HIDE DEF step
    <3>1. <<>> \in Seq(Chars) /\ \A k \in 1 .. n : \A x \in Seq(Chars) : step[k][x] \in Seq(Chars)
      BY <2>1, EmptySeq
    <3> QED BY <1>1, <3>1, RunExists
  <2> HIDE DEF step
  <2>3. /\ f \in [0 .. n -> Seq(Chars)] /\ f[0] = <<>>
        /\ \A k \in 1 .. n : f[k] = f[k - 1] \o strings[k]
    <3>1. /\ f \in [0 .. n -> Seq(Chars)] /\ f[0] = <<>>
          /\ \A k \in 1 .. n : f[k] = step[k][f[k - 1]]
      BY <2>2 DEF IsRun
    <3>2. \A k \in 1 .. n : f[k - 1] \in Seq(Chars)
      BY <1>1, <3>1
    <3> QED BY <2>1, <3>1, <3>2
  <2> DEFINE g == [i \in 1 .. n |-> f[i]]
  <2>4. g = Run(g)
    <3>1. ASSUME NEW i \in 1 .. n PROVE g[i] = Run(g)[i]
      <4>1. CASE i = 1
        <5>1. f[1] = <<>> \o strings[1] /\ strings[1] \in Seq(Chars)
          BY <1>1, <1>2, <1>5, <2>3, <4>1
        <5>2. <<>> \o strings[1] = strings[1]
          BY <5>1, ConcatEmptySeq
        <5> QED BY <4>1, <5>1, <5>2
      <4>2. CASE i # 1
        <5>1. i - 1 \in 1 .. n
          BY <4>2
        <5> QED BY <2>3, <4>2, <5>1
      <4> QED BY <4>1, <4>2
    <3> QED BY <3>1
  <2>5. Converted(s) = (CHOOSE h : h = Run(h))[n]
    BY <1>2, <1>3, <1>5 DEF FlattenSeq
  <2> DEFINE flat == CHOOSE h : h = Run(h)
  <2>6. flat = Run(flat)
    <3> HIDE DEF Run, g
    <3> QED BY <2>4
  <2> HIDE DEF flat, g
  <2>7. /\ flat[1] = strings[1]
        /\ \A i \in 2 .. n : flat[i] = flat[i - 1] \o strings[i]
    <3>1. /\ \A i \in 1 .. n : Run(flat)[i] = IF i = 1 THEN strings[i]
                                                     ELSE flat[i - 1] \o strings[i]
          /\ 1 \in 1 .. n /\ \A i \in 2 .. n : i \in 1 .. n /\ i # 1
      BY <1>1, <1>5
    <3> HIDE DEF Run
    <3> QED BY <2>6, <3>1
  <2> HIDE DEF Run
  <2> DEFINE done == {m \in 1 .. n : /\ flat[m] \in Seq(Chars)
                                    /\ \E at : ConvertedBy(SubSeq(s, 1, m), flat[m], at)}
      S == {0} \cup done
  <2>8. ASSUME NEW m \in 1 .. n, m - 1 \in S PROVE m \in S
    <3>1. CASE m = 1
      <4> DEFINE at == [k \in 0 .. 0 |-> 0]
          none == SubSeq(s, 1, 0)
      <4>1. none = <<>> /\ Len(none) = 0
        BY <1>1, SubSeqEmpty
      <4>2. ConvertedBy(none, <<>>, at)
        <5> HIDE DEF none
        <5> QED BY <4>1, EmptySeq DEF ConvertedBy
      <4>3. <<>> \in Seq(Chars) /\ 1 - 1 = 0 /\ 1 \in 1 .. Len(s)
        BY <1>1, <1>5
      <4>4. \E next : ConvertedBy(SubSeq(s, 1, 1), <<>> \o AsString(s[1]), next)
        BY <4>2, <4>3, OneMoreConverted
      <4>5. <<>> \o AsString(s[1]) = flat[1] /\ flat[1] \in Seq(Chars)
        BY <1>2, <2>7, <3>1, ConcatEmptySeq
      <4> QED BY <3>1, <4>4, <4>5
    <3>2. CASE m # 1
      <4>1. m \in 2 .. n /\ m - 1 \in done /\ m \in 1 .. Len(s)
        BY <1>1, <2>8, <3>2
      <4>2. PICK at : ConvertedBy(SubSeq(s, 1, m - 1), flat[m - 1], at)
        BY <4>1
      <4>3. flat[m - 1] \in Seq(Chars) /\ flat[m] = flat[m - 1] \o AsString(s[m])
        BY <1>2, <2>7, <4>1
      <4>4. \E next : ConvertedBy(SubSeq(s, 1, m), flat[m], next)
        BY <4>1, <4>2, <4>3, OneMoreConverted
      <4>5. flat[m] \in Seq(Chars)
        <5> PICK last : last = AsString(s[m]) /\ last \in Seq(Chars)
          BY <1>1, <4>1, StringOfByte
        <5> QED BY <4>3, ConcatProperties
      <4> QED BY <4>4, <4>5
    <3> QED BY <3>1, <3>2
  <2>9. 0 .. n \subseteq S
    <3> HIDE DEF done
    <3> QED BY <1>1, <2>8, Induction
  <2>10. n \in done
    BY <1>1, <1>5, <2>9
  <2>11. SubSeq(s, 1, n) = s
    BY <1>1, SubSeqFull
  <2> QED BY <2>5, <2>10, <2>11 DEF flat
<1> QED BY <1>4, <1>5

\* The bytes keep their order,
LEMMA InTheirOrder ==
  ASSUME NEW s, NEW t, NEW at, ConvertedBy(s, t, at),
         NEW i \in 0 .. Len(s), NEW j \in i .. Len(s)
  PROVE  at[i] \in Nat /\ at[j] \in Nat /\ at[j] - at[i] >= j - i /\ at[j] <= Len(t)
<1>1. /\ Len(s) \in Nat /\ at \in [0 .. Len(s) -> Nat] /\ at[Len(s)] = Len(t)
      /\ \A k \in 1 .. Len(s) : at[k] = at[k - 1] + 1 \/ at[k] = at[k - 1] + 2
  BY ConversionTypes DEF ConvertedBy
<1>2. ASSUME NEW m \in 0 .. Len(s), NEW b \in m .. Len(s) PROVE at[b] - at[m] >= b - m
  <2> DEFINE apart == {d \in Nat : m + d <= Len(s) => at[m + d] - at[m] >= d}
  <2>1. 0 \in apart
    BY <1>1
  <2>2. ASSUME NEW d \in 1 .. Len(s), d - 1 \in apart PROVE d \in apart
    <3>1. SUFFICES ASSUME m + d <= Len(s) PROVE at[m + d] - at[m] >= d
      BY <1>1
    <3> PICK k : k = m + d
      OBVIOUS
    <3>2. k \in 1 .. Len(s) /\ k - 1 \in 0 .. Len(s) /\ m + (d - 1) = k - 1
      BY <1>1, <3>1
    <3>3. at[k - 1] - at[m] >= d - 1
      <4>1. k - 1 <= Len(s)
        BY <1>1, <3>2
      <4> QED BY <2>2, <3>2, <4>1
    <3>4. at[k] \in Nat /\ at[k - 1] \in Nat /\ at[m] \in Nat
      <4>1. k \in 0 .. Len(s) /\ m \in 0 .. Len(s) /\ k - 1 \in 0 .. Len(s)
        BY <1>1, <3>2
      <4> QED BY <1>1, <4>1
    <3>5. at[k] >= at[k - 1] + 1
      <4>1. at[k] = at[k - 1] + 1 \/ at[k] = at[k - 1] + 2
        BY <1>1, <3>2
      <4> HIDE DEF apart
      <4> QED BY <3>4, <4>1
    <3>6. at[k] - at[m] >= d
      BY <3>3, <3>4, <3>5
    <3> QED BY <3>6
  <2>3. 0 .. Len(s) \subseteq apart
    <3> HIDE DEF apart
    <3> QED BY <1>1, <2>1, <2>2, Induction
  <2>4. b - m \in 0 .. Len(s) /\ m + (b - m) = b /\ b <= Len(s)
    BY <1>1
  <2>5. b - m \in apart
    <3> HIDE DEF apart
    <3> QED BY <2>3, <2>4
  <2> QED BY <2>4, <2>5
<1>3. at[i] \in Nat /\ at[j] \in Nat /\ at[j] - at[i] >= j - i
  BY <1>1, <1>2
<1>4. at[Len(s)] - at[j] >= Len(s) - j
  BY <1>1, <1>2
<1> QED BY <1>1, <1>3, <1>4

\* and those in ASCII that follow one another still do.
PlainFrom(s, i, m) ==
  /\ i \in 0 .. Len(s) /\ m \in 0 .. Len(s) - i
  /\ \A k \in 1 .. m : s[i + k] \notin Wide

LEMMA InARow ==
  ASSUME NEW s, NEW t, NEW at, ConvertedBy(s, t, at), NEW i, NEW m, PlainFrom(s, i, m)
  PROVE  /\ at[i] \in 0 .. Len(t) - m /\ at[i + m] = at[i] + m
         /\ \A k \in 1 .. m : t[at[i] + k] = s[i + k]
<1>1. /\ Len(s) \in Nat /\ Len(t) \in Nat /\ at \in [0 .. Len(s) -> Nat]
      /\ \A k \in 1 .. Len(s) :
           s[k] \notin Wide => at[k] = at[k - 1] + 1 /\ t[at[k]] = s[k]
  BY ConversionTypes DEF ConvertedBy
<1>0. /\ i \in 0 .. Len(s) /\ m \in 0 .. Len(s) - i
      /\ \A k \in 1 .. m : s[i + k] \notin Wide
      /\ i \in Nat /\ m \in Nat /\ i + m <= Len(s)
  BY <1>1 DEF PlainFrom
<1> DEFINE near == {d \in 0 .. m : at[i + d] = at[i] + d}
<1>2. 0 \in near
  BY <1>0, <1>1
<1>3. ASSUME NEW d \in 1 .. m, d - 1 \in near PROVE d \in near
  <2> PICK k : k = i + d
    OBVIOUS
  <2>1. k \in 1 .. Len(s) /\ i + (d - 1) = k - 1 /\ k - 1 \in 0 .. Len(s)
    BY <1>0, <1>1
  <2>2. s[k] \notin Wide
    BY <1>0
  <2>3. at[k - 1] = at[i] + (d - 1)
    BY <1>3, <2>1
  <2>4. at[k] = at[k - 1] + 1 /\ at[i] \in Nat
    BY <1>0, <1>1, <2>1, <2>2
  <2>5. at[k] = at[i] + d
    BY <2>3, <2>4
  <2> QED BY <2>5
<1>4. 0 .. m \subseteq near
  <2> HIDE DEF near
  <2> QED BY <1>0, <1>2, <1>3, Induction
<1>5. \A d \in 0 .. m : at[i + d] = at[i] + d
  BY <1>4
<1> HIDE DEF near
<1>6. ASSUME NEW k \in 1 .. m PROVE t[at[i] + k] = s[i + k]
  <2>1. i + k \in 1 .. Len(s)
    BY <1>0, <1>1
  <2>2. at[i + k] = at[i] + k /\ s[i + k] \notin Wide
    BY <1>0, <1>5
  <2> QED BY <1>1, <2>1, <2>2
<1>7. at[i] \in Nat /\ at[i + m] <= Len(t) /\ at[i + m] = at[i] + m
  <2>1. i + m \in i .. Len(s)
    BY <1>0, <1>1
  <2> QED BY <1>0, <1>1, <1>5, <2>1, InTheirOrder
<1> QED BY <1>0, <1>1, <1>6, <1>7

\* Every byte of t is one of the string of a byte of s.
LEMMA ComesFrom ==
  ASSUME NEW s, NEW t, NEW at, ConvertedBy(s, t, at),
         NEW x \in 1 .. Len(t)
  PROVE  \E k \in 1 .. Len(s) :
           /\ at[k - 1] < x /\ x <= at[k]
           /\ s[k] \notin Wide => x = at[k] /\ t[x] = s[k]
           /\ s[k] \in Wide => t[x] \in Wide
<1>1. /\ Len(s) \in Nat /\ Len(t) \in Nat /\ at \in [0 .. Len(s) -> Nat] /\ at[0] = 0
      /\ at[Len(s)] = Len(t)
  BY ConversionTypes
<1> DEFINE S == {k \in 0 .. Len(s) : x <= at[k]}
<1>2. S \in SUBSET Nat /\ Len(s) \in S
  BY <1>1
<1>3. PICK k \in S : \A n \in S : k <= n
  <2> HIDE DEF S
  <2> QED BY <1>2, Least
<1>4. k \in 1 .. Len(s) /\ x <= at[k] /\ k - 1 \in 0 .. Len(s)
  BY <1>1, <1>3
<1>5. k - 1 \notin S
  <2> HIDE DEF S
  <2>1. ~(k <= k - 1)
    BY <1>4
  <2> QED BY <1>3, <2>1
<1>6. at[k - 1] < x
  BY <1>1, <1>4, <1>5
<1>7. /\ s[k] \notin Wide => at[k] = at[k - 1] + 1 /\ t[at[k]] = s[k]
      /\ s[k] \in Wide => /\ at[k] = at[k - 1] + 2
                          /\ t[at[k] - 1] \in Wide /\ t[at[k]] \in Wide
  BY <1>4 DEF ConvertedBy
<1>8. at[k] \in Nat /\ at[k - 1] \in Nat
  BY <1>1, <1>4
<1>9. CASE s[k] \notin Wide
  <2>1. x = at[k]
    BY <1>4, <1>6, <1>7, <1>8, <1>9
  <2> QED BY <1>4, <1>6, <1>7, <1>9, <2>1
<1>10. CASE s[k] \in Wide
  <2>1. at[k] = at[k - 1] + 2
    BY <1>7, <1>10
  <2>2. x = at[k] \/ x = at[k] - 1
    BY <1>4, <1>6, <1>8, <2>1
  <2> QED BY <1>4, <1>6, <1>7, <1>10, <2>2
<1> QED BY <1>9, <1>10

\* What follows a byte is converted by itself.
LEMMA RestConverted ==
  ASSUME NEW s, NEW t, NEW at, ConvertedBy(s, t, at),
         NEW i \in 0 .. Len(s)
  PROVE  ConvertedBy(SubSeq(s, i + 1, Len(s)), SubSeq(t, at[i] + 1, Len(t)),
                     [k \in 0 .. Len(s) - i |-> at[i + k] - at[i]])
<1> DEFINE u == SubSeq(s, i + 1, Len(s))
    v == SubSeq(t, at[i] + 1, Len(t))
    rest == [k \in 0 .. Len(s) - i |-> at[i + k] - at[i]]
<1>1. /\ s \in Seq(Chars) /\ t \in Seq(Chars) /\ Len(s) \in Nat /\ Len(t) \in Nat
      /\ at[Len(s)] = Len(t)
      /\ \A k \in 1 .. Len(s) :
           /\ s[k] \notin Wide => at[k] = at[k - 1] + 1 /\ t[at[k]] = s[k]
           /\ s[k] \in Wide =>
                at[k] = at[k - 1] + 2 /\ t[at[k] - 1] \in Wide /\ t[at[k]] \in Wide
  BY ConversionTypes DEF ConvertedBy
<1>2. ASSUME NEW k \in 0 .. Len(s) - i
      PROVE  at[i + k] \in Nat /\ at[i] \in Nat /\ at[i + k] - at[i] >= k /\ at[i + k] <= Len(t)
  <2>1. i + k \in i .. Len(s) /\ (i + k) - i = k
    BY <1>1
  <2> QED BY <2>1, InTheirOrder
<1>3. at[i] \in 0 .. Len(t)
  <2>1. 0 \in 0 .. Len(s) - i /\ i + 0 = i
    BY <1>1
  <2> QED BY <1>1, <1>2, <2>1
<1>4. /\ Len(u) = Len(s) - i /\ \A k \in 1 .. Len(s) - i : u[k] = s[i + k]
      /\ Len(v) = Len(t) - at[i] /\ \A x \in 1 .. Len(t) - at[i] : v[x] = t[at[i] + x]
  <2>1. Len(u) = Len(s) - i /\ \A k \in 1 .. Len(s) - i : u[k] = s[i + k]
    BY <1>1, SubSeqProperties
  <2>2. Len(v) = Len(t) - at[i] /\ \A x \in 1 .. Len(t) - at[i] : v[x] = t[at[i] + x]
    <3> PICK c : c = at[i]
      OBVIOUS
    <3>1. c \in 0 .. Len(t)
      BY <1>3
    <3>2. /\ Len(SubSeq(t, c + 1, Len(t))) = Len(t) - c
          /\ \A x \in 1 .. Len(t) - c : SubSeq(t, c + 1, Len(t))[x] = t[c + x]
      BY <1>1, <3>1, SubSeqProperties
    <3> QED BY <3>2
  <2> QED BY <2>1, <2>2
<1> HIDE DEF u, v
<1>5. /\ rest \in [0 .. Len(s) - i -> Nat] /\ rest[0] = 0 /\ rest[Len(s) - i] = Len(v)
  <2>1. ASSUME NEW k \in 0 .. Len(s) - i PROVE at[i + k] - at[i] \in Nat
    <3> PICK a, c : a = at[i + k] /\ c = at[i]
      OBVIOUS
    <3>1. a \in Nat /\ c \in Nat /\ a - c >= k
      BY <1>2
    <3>2. a - c \in Nat
      BY <3>1
    <3> QED BY <3>2
  <2>2. i + 0 = i /\ i + (Len(s) - i) = Len(s) /\ at[i] - at[i] = 0
    BY <1>1, <1>3
  <2>3. 0 \in 0 .. Len(s) - i /\ Len(s) - i \in 0 .. Len(s) - i
    BY <1>1
  <2>4. rest[0] = 0
    BY <2>2, <2>3
  <2>5. rest[Len(s) - i] = at[Len(s)] - at[i]
    BY <2>2, <2>3
  <2> HIDE DEF rest
  <2>6. rest[Len(s) - i] = Len(v)
    BY <1>1, <1>4, <2>5
  <2> USE DEF rest
  <2> QED BY <2>1, <2>4, <2>6
<1>6. ASSUME NEW k \in 1 .. Len(s) - i
      PROVE  /\ u[k] \notin Wide => rest[k] = rest[k - 1] + 1 /\ v[rest[k]] = u[k]
             /\ u[k] \in Wide => /\ rest[k] = rest[k - 1] + 2
                                 /\ v[rest[k] - 1] \in Wide /\ v[rest[k]] \in Wide
  <2>1. /\ i + k \in 1 .. Len(s) /\ i + k - 1 = i + (k - 1) /\ k - 1 \in 0 .. Len(s) - i
        /\ k \in 0 .. Len(s) - i
    BY <1>1
  <2>0. PICK a, b, c, n : a = at[i + k] /\ b = at[i + (k - 1)] /\ c = at[i] /\ n = Len(t)
    OBVIOUS
  <2>2. /\ a \in Nat /\ b \in Nat /\ c \in Nat /\ n \in Nat
        /\ a - c >= k /\ a <= n /\ b - c >= k - 1
    BY <1>1, <1>2, <2>0, <2>1
  <2>3. rest[k] = a - c /\ rest[k - 1] = b - c /\ u[k] = s[i + k]
    BY <1>4, <2>0, <2>1
  <2>4. /\ s[i + k] \notin Wide => a = b + 1 /\ t[a] = s[i + k]
        /\ s[i + k] \in Wide => a = b + 2 /\ t[a - 1] \in Wide /\ t[a] \in Wide
    BY <1>1, <2>0, <2>1
  <2>5. \A x \in 1 .. n - c : v[x] = t[c + x]
    BY <1>4, <2>0
  <2>6. a - c \in 1 .. n - c /\ c + (a - c) = a
    <3>1. k \in Nat /\ k >= 1
      BY <1>1
    <3>2. a - c >= 1
      BY <2>2, <3>1
    <3>3. a - c \in 1 .. n - c
      BY <2>2, <3>2
    <3>4. c + (a - c) = a
      BY <2>2
    <3> QED BY <3>3, <3>4
  <2>7. CASE u[k] \notin Wide
    <3>1. a - c = (b - c) + 1
      BY <2>2, <2>3, <2>4, <2>7
    <3> QED BY <2>3, <2>4, <2>5, <2>6, <2>7, <3>1
  <2>8. CASE u[k] \in Wide
    <3>1. a = b + 2
      BY <2>3, <2>4, <2>8
    <3>2. k \in Nat /\ k >= 1
      BY <1>1
    <3>3. b - c >= 0
      BY <2>2, <3>2
    <3>4. a - c = (b - c) + 2
      BY <2>2, <3>1
    <3>5. a - c - 1 \in 1 .. n - c
      BY <2>2, <3>1, <3>3
    <3>6. c + (a - c - 1) = a - 1
      BY <2>2
    <3> QED BY <3>4, <3>5, <3>6, <2>3, <2>4, <2>5, <2>6, <2>8
  <2> QED BY <2>7, <2>8
<1>7. u \in Seq(Chars) /\ v \in Seq(Chars)
  BY <1>1, <1>3, SubSeqProperties DEF u, v
<1>8. ConvertedBy(u, v, rest)
  <2> HIDE DEF rest
  <2> QED BY <1>4, <1>5, <1>6, <1>7 DEF ConvertedBy
<1> QED BY <1>8 DEF u, v

------------------------------------------------------------------------------
(***************************************************************************)
(* A pattern in ASCII that the bytes match is matched by their strings.    *)
(***************************************************************************)
LEMMA FoldedIs ==
  ASSUME NEW s \in Text
  PROVE  /\ Folded(s) \in Text /\ Len(Folded(s)) = Len(s)
         /\ \A k \in 1 .. Len(s) :
              Folded(s)[k] = Lower[s[k]] /\ (Folded(s)[k] \in Wide <=> s[k] \in Wide)
<1>1. /\ s \in Seq(Chars) /\ Len(s) \in Nat /\ DOMAIN s = 1 .. Len(s)
      /\ \A k \in 1 .. Len(s) : s[k] \in Chars /\ Lower[s[k]] \in Chars
      /\ \A k \in 1 .. Len(s) : Lower[s[k]] \in Wide <=> s[k] \in Wide
  BY StringIs, AlphabetAssumption
<1> QED BY <1>1, LenProperties DEF Folded, Text

LEMMA FoldConverted ==
  ASSUME NEW s, NEW t, NEW at, ConvertedBy(s, t, at)
  PROVE  ConvertedBy(Folded(s), Folded(t), at)
<1>1. /\ s \in Text /\ t \in Text /\ Len(s) \in Nat /\ Len(t) \in Nat
      /\ at \in [0 .. Len(s) -> Nat] /\ at[0] = 0 /\ at[Len(s)] = Len(t)
  BY ConversionTypes DEF Text
<1>2. /\ Folded(s) \in Seq(Chars) /\ Folded(t) \in Seq(Chars)
      /\ Len(Folded(s)) = Len(s) /\ Len(Folded(t)) = Len(t)
      /\ \A k \in 1 .. Len(s) :
           Folded(s)[k] = Lower[s[k]] /\ (Folded(s)[k] \in Wide <=> s[k] \in Wide)
      /\ \A k \in 1 .. Len(t) :
           Folded(t)[k] = Lower[t[k]] /\ (Folded(t)[k] \in Wide <=> t[k] \in Wide)
  BY <1>1, FoldedIs DEF Text
<1>3. ASSUME NEW k \in 1 .. Len(s)
      PROVE  /\ Folded(s)[k] \notin Wide => at[k] = at[k - 1] + 1 /\ Folded(t)[at[k]] = Folded(s)[k]
             /\ Folded(s)[k] \in Wide => /\ at[k] = at[k - 1] + 2
                                         /\ Folded(t)[at[k] - 1] \in Wide
                                         /\ Folded(t)[at[k]] \in Wide
  <2>1. /\ s[k] \notin Wide => at[k] = at[k - 1] + 1 /\ t[at[k]] = s[k]
        /\ s[k] \in Wide => /\ at[k] = at[k - 1] + 2
                            /\ t[at[k] - 1] \in Wide /\ t[at[k]] \in Wide
    BY DEF ConvertedBy
  <2>2. at[k] \in Nat /\ at[k - 1] \in Nat /\ at[k] <= Len(t)
    <3>1. k \in 0 .. Len(s) /\ k - 1 \in 0 .. Len(s) /\ k \in k .. Len(s)
      BY <1>1
    <3> QED BY <1>1, <3>1, InTheirOrder
  <2>3. CASE s[k] \notin Wide
    <3>1. at[k] = at[k - 1] + 1 /\ t[at[k]] = s[k]
      BY <2>1, <2>3
    <3>2. at[k] \in 1 .. Len(t)
      BY <1>1, <2>2, <3>1
    <3> QED BY <1>2, <2>3, <3>1, <3>2
  <2>4. CASE s[k] \in Wide
    <3>1. at[k] = at[k - 1] + 2
      BY <2>1, <2>4
    <3>2. at[k] \in 1 .. Len(t) /\ at[k] - 1 \in 1 .. Len(t)
      BY <1>1, <2>2, <3>1
    <3> QED BY <1>2, <2>1, <2>4, <3>1, <3>2
  <2> QED BY <2>3, <2>4
<1> QED BY <1>1, <1>2, <1>3 DEF ConvertedBy

\* An occurrence.
LEMMA OccursConverted ==
  ASSUME NEW s, NEW t, NEW at, ConvertedBy(s, t, at),
         NEW p \in Text, Plain(p), NEW i \in Occurrences(p, s)
  PROVE  /\ i \in 0 .. Len(s) - Len(p) /\ at[i] \in Occurrences(p, t)
         /\ at[i] + Len(p) = at[i + Len(p)]
<1>1. /\ s \in Seq(Chars) /\ Len(s) \in Nat /\ t \in Seq(Chars) /\ Len(t) \in Nat
      /\ p \in Seq(Chars) /\ Len(p) \in Nat /\ \A k \in 1 .. Len(p) : p[k] \notin Wide
  BY ConversionTypes, StringIs DEF Plain
<1>2. i \in 0 .. Len(s) - Len(p) /\ SubSeq(s, i + 1, i + Len(p)) = p
  BY DEF Occurrences
<1>3. i \in 0 .. Len(s) /\ Len(p) \in 0 .. Len(s) - i /\ i + Len(p) <= Len(s)
  BY <1>1, <1>2
<1>4. \A k \in 1 .. Len(p) : s[i + k] = p[k]
  <2>1. \A k \in i + 1 .. i + Len(p) : s[k] \in Chars
    <3>1. \A k \in i + 1 .. i + Len(p) : k \in 1 .. Len(s)
      BY <1>1, <1>3
    <3> QED BY <1>1, <3>1, ElementOfSeq
  <2>2. \A k \in 1 .. (i + Len(p)) - (i + 1) + 1 :
          SubSeq(s, i + 1, i + Len(p))[k] = s[(i + 1) + k - 1]
    BY <1>1, <1>3, <2>1, SubSeqProperties
  <2>3. (i + Len(p)) - (i + 1) + 1 = Len(p) /\ \A k \in 1 .. Len(p) : (i + 1) + k - 1 = i + k
    BY <1>1, <1>3
  <2> QED BY <1>2, <2>2, <2>3
<1>5. /\ at[i] \in 0 .. Len(t) - Len(p) /\ at[i + Len(p)] = at[i] + Len(p)
      /\ \A k \in 1 .. Len(p) : t[at[i] + k] = s[i + k]
  <2>1. PlainFrom(s, i, Len(p))
    BY <1>1, <1>3, <1>4 DEF PlainFrom
  <2> QED BY <2>1, InARow
<1>6. SubSeq(t, at[i] + 1, at[i] + Len(p)) = p
  <2>0. PICK c : c = at[i]
    OBVIOUS
  <2>1. c \in 0 .. Len(t) - Len(p) /\ \A k \in 1 .. Len(p) : t[c + k] = p[k]
    BY <1>4, <1>5, <2>0
  <2> DEFINE q == SubSeq(t, c + 1, c + Len(p))
  <2>2. \A k \in c + 1 .. c + Len(p) : t[k] \in Chars
    <3>1. \A k \in c + 1 .. c + Len(p) : k \in 1 .. Len(t)
      BY <1>1, <2>1
    <3> QED BY <1>1, <3>1, ElementOfSeq
  <2>3. /\ q \in Seq(Chars)
        /\ Len(q) = IF c + 1 <= c + Len(p) THEN (c + Len(p)) - (c + 1) + 1 ELSE 0
        /\ \A k \in 1 .. (c + Len(p)) - (c + 1) + 1 : q[k] = t[(c + 1) + k - 1]
    BY <1>1, <2>1, <2>2, SubSeqProperties
  <2> HIDE DEF q
  <2>4. /\ (IF c + 1 <= c + Len(p) THEN (c + Len(p)) - (c + 1) + 1 ELSE 0) = Len(p)
        /\ (c + Len(p)) - (c + 1) + 1 = Len(p)
        /\ \A k \in 1 .. Len(p) : (c + 1) + k - 1 = c + k
    BY <1>1, <2>1
  <2>5. Len(q) = Len(p) /\ \A k \in 1 .. Len(p) : q[k] = p[k]
    BY <2>1, <2>3, <2>4
  <2>6. q = p
    BY <1>1, <2>3, <2>5, SeqEqual
  <2> QED BY <2>0, <2>6 DEF q
<1> QED BY <1>2, <1>5, <1>6 DEF Occurrences

\* The current line begins after the last newline, if there is one.
LEMMA LineBegins ==
  ASSUME NEW s \in Text, NEW n \in 0 .. Len(s), n # 0 => s[n] = Newline,
         \A i \in n + 1 .. Len(s) : s[i] # Newline
  PROVE  CurrentLine(s) = SubSeq(s, n + 1, Len(s))
<1> DEFINE marks == {i \in 1 .. Len(s) : s[i] = Newline}
<1>1. CurrentLine(s) = SubSeq(s, (IF marks # {} THEN Max(marks) ELSE 0) + 1, Len(s))
  BY DEF CurrentLine, SelectLastInSeq
<1>2. Len(s) \in Nat /\ \A i \in marks : i <= n
  BY StringIs
<1>3. (IF marks # {} THEN Max(marks) ELSE 0) = n
  <2>1. CASE n = 0
    <3>1. marks = {}
      BY <1>2, <2>1
    <3> QED BY <2>1, <3>1
  <2>2. CASE n # 0
    <3>1. n \in marks /\ marks \in SUBSET Nat
      BY <1>2, <2>2
    <3> HIDE DEF marks
    <3> QED BY <1>2, <3>1, MaxIs
  <2> QED BY <2>1, <2>2
<1> QED BY <1>1, <1>3

LEMMA LastNewline ==
  ASSUME NEW s \in Text
  PROVE  \E n \in 0 .. Len(s) : /\ n # 0 => s[n] = Newline
                                /\ \A i \in n + 1 .. Len(s) : s[i] # Newline
<1> DEFINE marks == {i \in 1 .. Len(s) : s[i] = Newline}
<1>1. Len(s) \in Nat /\ marks \in SUBSET Nat /\ \A i \in marks : i <= Len(s)
  BY StringIs
<1>2. CASE marks = {}
  BY <1>1, <1>2
<1>3. CASE marks # {}
  <2>1. PICK n \in marks : \A i \in marks : i <= n
    <3> HIDE DEF marks
    <3> QED BY <1>1, <1>3, Greatest
  <2>2. ASSUME NEW i \in n + 1 .. Len(s) PROVE s[i] # Newline
    BY <1>1, <2>1
  <2> QED BY <1>1, <2>2
<1> QED BY <1>2, <1>3

LEMMA LineConverted ==
  ASSUME NEW s, NEW t, NEW at, ConvertedBy(s, t, at)
  PROVE  \E rest : ConvertedBy(CurrentLine(s), CurrentLine(t), rest)
<1>1. /\ s \in Text /\ t \in Text /\ Len(s) \in Nat /\ Len(t) \in Nat
      /\ at \in [0 .. Len(s) -> Nat] /\ at[0] = 0 /\ at[Len(s)] = Len(t)
      /\ Newline \notin Wide
  BY ConversionTypes, AlphabetAssumption DEF Text
<1>2. PICK n \in 0 .. Len(s) : /\ n # 0 => s[n] = Newline
                               /\ \A i \in n + 1 .. Len(s) : s[i] # Newline
  BY <1>1, LastNewline
<1>3. CurrentLine(s) = SubSeq(s, n + 1, Len(s))
  BY <1>1, <1>2, LineBegins
<1>4. at[n] \in 0 .. Len(t) /\ (at[n] # 0 => t[at[n]] = Newline)
  <2>1. at[n] \in 0 .. Len(t)
    <3>1. n \in n .. Len(s)
      BY <1>1
    <3> QED BY <1>1, <3>1, InTheirOrder
  <2>2. n # 0 => t[at[n]] = Newline
    <3>1. n # 0 => n \in 1 .. Len(s)
      BY <1>1
    <3> QED BY <1>1, <1>2, <3>1 DEF ConvertedBy
  <2> QED BY <1>1, <2>1, <2>2
<1>5. ASSUME NEW x \in at[n] + 1 .. Len(t), t[x] = Newline PROVE FALSE
  <2>1. x \in 1 .. Len(t) /\ x > at[n]
    BY <1>1, <1>4
  <2>2. PICK k \in 1 .. Len(s) : x <= at[k] /\ s[k] \notin Wide /\ t[x] = s[k]
    BY <1>1, <1>5, <2>1, ComesFrom
  <2>3. k \in n + 1 .. Len(s)
    <3>1. ASSUME k <= n PROVE FALSE
      <4>1. k \in 0 .. Len(s) /\ n \in k .. Len(s) /\ n - k >= 0
        BY <1>1, <3>1
      <4>2. at[k] \in Nat /\ at[n] \in Nat /\ at[n] - at[k] >= n - k
        BY <4>1, InTheirOrder
      <4>3. at[k] <= at[n]
        BY <4>1, <4>2
      <4> QED BY <1>1, <2>1, <2>2, <4>2, <4>3
    <3> QED BY <1>1, <3>1
  <2> QED BY <1>2, <1>5, <2>2, <2>3
<1>6. CurrentLine(t) = SubSeq(t, at[n] + 1, Len(t))
  <2>0. PICK c : c = at[n]
    OBVIOUS
  <2>1. /\ c \in 0 .. Len(t) /\ (c # 0 => t[c] = Newline)
        /\ \A x \in c + 1 .. Len(t) : t[x] # Newline
    BY <1>4, <1>5, <2>0
  <2> QED BY <1>1, <2>0, <2>1, LineBegins
<1> QED BY <1>3, <1>6, RestConverted

LEMMA RegexConverted ==
  ASSUME NEW u, NEW v, NEW at, ConvertedBy(u, v, at),
         NEW p, p.text \in Text, Plain(p.text), RegexMatches(p, u)
  PROVE  RegexMatches(p, v)
<1>1. PICK i \in Occurrences(p.text, u) :
        (p.first => i = 0) /\ (p.last => i + Len(p.text) = Len(u))
  BY DEF RegexMatches
<1>2. at[i] \in Occurrences(p.text, v) /\ at[i] + Len(p.text) = at[i + Len(p.text)]
  BY OccursConverted
<1>3. at[0] = 0 /\ at[Len(u)] = Len(v)
  BY ConversionTypes
<1> QED BY <1>1, <1>2, <1>3 DEF RegexMatches

\* What is no blank and no newline.
Solid(s) == {i \in DOMAIN s : s[i] \notin {Blank, Newline}}

LEMMA TrimIs ==
  ASSUME NEW s \in Text, Solid(s) # {}
  PROVE  \E first \in Solid(s), last \in Solid(s) :
           /\ first \in 1 .. Len(s) /\ last \in first .. Len(s)
           /\ \A i \in Solid(s) : first <= i /\ i <= last
           /\ Trim(s) \in Text /\ Len(Trim(s)) = last - first + 1
           /\ \A k \in 1 .. last - first + 1 : Trim(s)[k] = s[first - 1 + k]
<1>1. /\ s \in Seq(Chars) /\ Len(s) \in Nat /\ Solid(s) \in SUBSET Nat
      /\ \A i \in Solid(s) : i \in 1 .. Len(s)
  BY StringIs DEF Solid
<1>2. Min(Solid(s)) \in Solid(s) /\ \A i \in Solid(s) : Min(Solid(s)) <= i
  BY <1>1, MinIs
<1>3. PICK last \in Solid(s) : \A i \in Solid(s) : i <= last
  <2>1. \A i \in Solid(s) : i <= Len(s)
    BY <1>1
  <2> QED BY <1>1, <2>1, Greatest
<1>4. Max(Solid(s)) = last
  BY <1>1, <1>3, MaxIs
<1>5. PICK first : first = Min(Solid(s))
  OBVIOUS
<1>6. first \in 1 .. Len(s) /\ last \in first .. Len(s)
  BY <1>1, <1>2, <1>3, <1>5
<1>7. Trim(s) = SubSeq(s, first, last)
  BY <1>4, <1>5 DEF Trim, Solid
<1>8. \A k \in first .. last : s[k] \in Chars
  <2>1. \A k \in first .. last : k \in 1 .. Len(s)
    BY <1>1, <1>6
  <2> QED BY <2>1, StringIs
<1>9. /\ SubSeq(s, first, last) \in Seq(Chars)
      /\ Len(SubSeq(s, first, last)) = last - first + 1
      /\ \A k \in 1 .. last - first + 1 : SubSeq(s, first, last)[k] = s[first + k - 1]
  BY <1>1, <1>6, <1>8, SubSeqProperties
<1>10. \A k \in 1 .. last - first + 1 : first + k - 1 = first - 1 + k
  BY <1>1, <1>6
<1>11. \A k \in 1 .. last - first + 1 : Trim(s)[k] = s[first - 1 + k]
  BY <1>7, <1>9, <1>10
<1>12. Trim(s) \in Text /\ Len(Trim(s)) = last - first + 1
  BY <1>7, <1>9 DEF Text
<1>13. first \in Solid(s) /\ \A i \in Solid(s) : first <= i /\ i <= last
  BY <1>2, <1>3, <1>5
<1> QED BY <1>6, <1>11, <1>12, <1>13

LEMMA PrefixIs ==
  ASSUME NEW p \in Text, NEW s \in Text
  PROVE  IsPrefix(p, s) <=> Len(p) <= Len(s) /\ \A k \in 1 .. Len(p) : p[k] = s[k]
<1>1. p \in Seq(Chars) /\ s \in Seq(Chars) /\ Len(p) \in Nat /\ Len(s) \in Nat
  BY StringIs
<1> DEFINE q == SubSeq(s, 1, Len(p))
<1>2. SubSeq(p, 1, Len(p)) = p
  BY <1>1, SubSeqFull
<1>3. ASSUME Len(p) <= Len(s)
      PROVE  q \in Seq(Chars) /\ Len(q) = Len(p) /\ \A k \in 1 .. Len(p) : q[k] = s[k]
  <2>1. \A k \in 1 .. Len(p) : s[k] \in Chars
    <3>1. \A k \in 1 .. Len(p) : k \in 1 .. Len(s)
      BY <1>1, <1>3
    <3> QED BY <3>1, StringIs
  <2>2. /\ q \in Seq(Chars) /\ Len(q) = IF 1 <= Len(p) THEN Len(p) - 1 + 1 ELSE 0
        /\ \A k \in 1 .. Len(p) - 1 + 1 : q[k] = s[1 + k - 1]
    BY <1>1, <2>1, SubSeqProperties
  <2> HIDE DEF q
  <2>3. /\ (IF 1 <= Len(p) THEN Len(p) - 1 + 1 ELSE 0) = Len(p) /\ Len(p) - 1 + 1 = Len(p)
        /\ \A k \in 1 .. Len(p) : 1 + k - 1 = k
    BY <1>1
  <2> QED BY <2>2, <2>3
<1>4. IsPrefix(p, s) <=> Len(p) <= Len(s) /\ p = q
  BY <1>2 DEF IsPrefix
<1> HIDE DEF q
<1>5. ASSUME Len(p) <= Len(s), \A k \in 1 .. Len(p) : p[k] = s[k] PROVE p = q
  BY <1>1, <1>3, <1>5, SeqEqual
<1> QED BY <1>3, <1>4, <1>5

LEMMA StartConverted ==
  ASSUME NEW u, NEW v, NEW at, ConvertedBy(u, v, at),
         NEW p \in Text, Plain(p), IsPrefix(p, Trim(u))
  PROVE  IsPrefix(p, Trim(v))
<1>1. /\ u \in Text /\ v \in Text /\ Len(u) \in Nat /\ Len(v) \in Nat
      /\ DOMAIN u = 1 .. Len(u) /\ DOMAIN v = 1 .. Len(v)
      /\ Len(p) \in Nat /\ \A k \in 1 .. Len(p) : p[k] \notin Wide
      /\ at \in [0 .. Len(u) -> Nat] /\ at[0] = 0
      /\ \A ch \in Wide : ch \notin {Blank, Newline}
  BY ConversionTypes, StringIs, AlphabetAssumption DEF Text, Plain
<1>2. CASE Len(p) = 0
  <2>1. Trim(v) \in Text
    <3>1. CASE Solid(v) = {}
      BY <3>1, EmptySeq DEF Trim, Solid, Text
    <3>2. CASE Solid(v) # {}
      BY <1>1, <3>2, TrimIs
    <3> QED BY <3>1, <3>2
  <2>2. Len(Trim(v)) \in Nat
    BY <2>1, StringIs
  <2> QED BY <1>2, <2>1, <2>2, PrefixIs
<1>3. CASE Len(p) # 0
  <2>1. Solid(u) # {}
    <3>1. ASSUME Solid(u) = {} PROVE FALSE
      <4>1. Trim(u) = <<>>
        BY <3>1 DEF Trim, Solid
      <4>2. Len(p) <= 0
        BY <4>1, EmptySeq DEF IsPrefix
      <4> QED BY <1>1, <1>3, <4>2
    <3> QED BY <3>1
  <2>2. PICK first \in Solid(u), last \in Solid(u) :
          /\ first \in 1 .. Len(u) /\ last \in first .. Len(u)
          /\ \A i \in Solid(u) : first <= i /\ i <= last
          /\ Trim(u) \in Text /\ Len(Trim(u)) = last - first + 1
          /\ \A k \in 1 .. last - first + 1 : Trim(u)[k] = u[first - 1 + k]
    BY <1>1, <2>1, TrimIs
  <2>3. /\ Len(p) <= last - first + 1
        /\ \A k \in 1 .. Len(p) : p[k] = u[first - 1 + k]
    <3>1. Len(p) <= last - first + 1 /\ \A k \in 1 .. Len(p) : p[k] = Trim(u)[k]
      BY <2>2, PrefixIs
    <3>2. \A k \in 1 .. Len(p) : k \in 1 .. last - first + 1
      BY <1>1, <2>2, <3>1
    <3> QED BY <2>2, <3>1, <3>2
  <2>0. PICK i, m : i = first - 1 /\ m = Len(p)
    OBVIOUS
  <2>4. /\ i \in 0 .. Len(u) /\ m \in 1 .. Len(u) - i /\ i + 1 = first
        /\ i + m <= last /\ last \in 1 .. Len(u)
    BY <1>1, <1>3, <2>0, <2>2, <2>3
  <2>5. /\ at[i] \in 0 .. Len(v) - m /\ at[i + m] = at[i] + m
        /\ \A k \in 1 .. m : v[at[i] + k] = u[i + k]
    <3>1. m \in 0 .. Len(u) - i /\ i \in 0 .. Len(u)
      BY <1>1, <2>4
    <3>2. \A k \in 1 .. m : u[i + k] \notin Wide
      BY <1>1, <2>0, <2>3
    <3>3. PlainFrom(u, i, m)
      BY <3>1, <3>2 DEF PlainFrom
    <3> QED BY <3>3, InARow
  <2>6. at[last] \in Nat /\ at[last] >= at[i] + m /\ at[last] <= Len(v)
    <3>1. i + m \in 0 .. Len(u) /\ last \in i + m .. Len(u) /\ last - (i + m) >= 0
      BY <1>1, <2>4
    <3>2. /\ at[i + m] \in Nat /\ at[last] \in Nat /\ at[last] <= Len(v)
          /\ at[last] - at[i + m] >= last - (i + m)
      BY <3>1, InTheirOrder
    <3>3. at[last] >= at[i + m]
      BY <3>1, <3>2
    <3> QED BY <2>5, <3>2, <3>3
  <2>7. at[i] + 1 \in Solid(v)
    <3>1. 1 \in 1 .. m /\ at[i] + 1 \in 1 .. Len(v)
      BY <1>1, <2>4, <2>5
    <3>2. v[at[i] + 1] = u[i + 1]
      BY <2>5, <3>1
    <3> QED BY <1>1, <2>4, <3>1, <3>2 DEF Solid
  <2>8. at[last] \in Solid(v)
    <3>1. at[last] \in 1 .. Len(v)
      BY <1>1, <2>4, <2>5, <2>6
    <3>2. v[at[last]] = u[last] \/ v[at[last]] \in Wide
      BY <2>4 DEF ConvertedBy
    <3> QED BY <1>1, <3>1, <3>2 DEF Solid
  <2>9. ASSUME NEW x \in Solid(v) PROVE x >= at[i] + 1
    <3>1. x \in 1 .. Len(v) /\ v[x] \notin {Blank, Newline}
      BY <1>1 DEF Solid
    <3>2. PICK k \in 1 .. Len(u) : /\ at[k - 1] < x
                                   /\ u[k] \notin Wide => v[x] = u[k]
      BY <3>1, ComesFrom
    <3>3. k \in Solid(u)
      BY <1>1, <3>1, <3>2 DEF Solid
    <3>4. k - 1 \in i .. Len(u) /\ k - 1 - i >= 0
      BY <1>1, <2>2, <2>4, <3>3
    <3>5. at[i] \in Nat /\ at[k - 1] \in Nat /\ at[k - 1] - at[i] >= k - 1 - i
      BY <2>4, <3>4, InTheirOrder
    <3>6. at[k - 1] >= at[i]
      <4>1. PICK c, d, e : c = at[k - 1] /\ d = at[i] /\ e = k - 1 - i
        OBVIOUS
      <4>2. c \in Nat /\ d \in Nat /\ e \in Int /\ e >= 0 /\ c - d >= e
        BY <1>1, <2>4, <3>4, <3>5, <4>1
      <4>3. c >= d
        BY <4>2
      <4> QED BY <4>1, <4>3
    <3> QED BY <1>1, <3>1, <3>2, <3>5, <3>6
  <2>10. PICK a \in Solid(v), b \in Solid(v) :
           /\ a \in 1 .. Len(v) /\ b \in a .. Len(v)
           /\ \A x \in Solid(v) : a <= x /\ x <= b
           /\ Trim(v) \in Text /\ Len(Trim(v)) = b - a + 1
           /\ \A k \in 1 .. b - a + 1 : Trim(v)[k] = v[a - 1 + k]
    BY <1>1, <2>7, TrimIs
  <2>11. a = at[i] + 1 /\ b >= at[i] + m
    <3>1. a <= at[i] + 1 /\ a >= at[i] + 1 /\ b >= at[last]
      BY <2>7, <2>8, <2>9, <2>10
    <3> QED BY <1>1, <2>4, <2>5, <2>6, <2>10, <3>1
  <2>12. m <= b - a + 1 /\ a - 1 = at[i]
    <3>1. at[i] \in Nat /\ m \in Nat /\ b \in Int
      BY <1>1, <2>4, <2>5, <2>10
    <3>2. b - a + 1 >= m
      BY <2>11, <3>1
    <3>3. a - 1 = at[i]
      BY <2>11, <3>1
    <3> QED BY <3>2, <3>3
  <2>13. ASSUME NEW k \in 1 .. m PROVE Trim(v)[k] = p[k]
    <3>1. k \in 1 .. b - a + 1
      BY <2>4, <2>10, <2>12
    <3>2. Trim(v)[k] = v[at[i] + k]
      BY <2>10, <2>12, <3>1
    <3> QED BY <2>0, <2>3, <2>5, <3>2
  <2> QED BY <2>0, <2>10, <2>12, <2>13, PrefixIs
<1> QED BY <1>2, <1>3

\* A pattern in ASCII.
LEMMA PlainMatches ==
  ASSUME NEW s \in Text, NEW p \in Parsed, p # BadPattern, Plain(p.text), Matches(p, s)
  PROVE  Matches(p, Converted(s))
<1>1. p.kind \in {"anywhere", "lineStart", "regex"} /\ p.text \in Text
  BY DEF Parsed
<1>2. PICK at : ConvertedBy(s, Converted(s), at)
  BY ConvertedIs
<1>3. PICK rest : ConvertedBy(CurrentLine(s), CurrentLine(Converted(s)), rest)
  BY <1>2, LineConverted
<1>4. CASE p.kind = "anywhere"
  <2>1. PICK i : i \in Occurrences(Folded(p.text), Folded(s))
    BY <1>4 DEF Matches
  <2>2. ConvertedBy(Folded(s), Folded(Converted(s)), at)
    BY <1>2, FoldConverted
  <2>3. Folded(p.text) \in Text /\ Plain(Folded(p.text))
    <3>1. /\ Folded(p.text) \in Text /\ Len(Folded(p.text)) = Len(p.text)
          /\ \A k \in 1 .. Len(p.text) : Folded(p.text)[k] \in Wide <=> p.text[k] \in Wide
      BY <1>1, FoldedIs
    <3>2. DOMAIN p.text = 1 .. Len(p.text) /\ DOMAIN Folded(p.text) = 1 .. Len(p.text)
      BY <1>1, <3>1, StringIs
    <3> QED BY <3>1, <3>2 DEF Plain
  <2>4. at[i] \in Occurrences(Folded(p.text), Folded(Converted(s)))
    BY <2>1, <2>2, <2>3, OccursConverted
  <2> QED BY <1>4, <2>4 DEF Matches
<1>5. CASE p.kind = "lineStart"
  <2>1. IsPrefix(p.text, Trim(CurrentLine(s)))
    BY <1>5 DEF Matches
  <2>2. IsPrefix(p.text, Trim(CurrentLine(Converted(s))))
    BY <1>1, <1>3, <2>1, StartConverted
  <2> QED BY <1>5, <2>2 DEF Matches
<1>6. CASE p.kind = "regex"
  <2>1. RegexMatches(p, CurrentLine(s))
    BY <1>6 DEF Matches
  <2>2. RegexMatches(p, CurrentLine(Converted(s)))
    BY <1>1, <1>3, <2>1, RegexConverted
  <2> QED BY <1>6, <2>2 DEF Matches
<1> QED BY <1>1, <1>4, <1>5, <1>6

------------------------------------------------------------------------------
(***************************************************************************)
(* The invariant of a script.                                              *)
(***************************************************************************)
Places == [ip: Nat, level: Levels, attempt: Nat, sub: Nat]

\* A place in the program: one of its commands, or its end, or a place in a try of it.
PlaceOK(p) ==
  /\ p \in Places /\ p.ip \in 1 .. Len(commands) + 1
  /\ p.level = "top" => p = At(p.ip)
  /\ p.level # "top" =>
       /\ p.ip <= Len(commands) /\ Outer(p).type = "try"
       /\ p.attempt \in 1 .. MaxAttempts(Outer(p))
       /\ p.sub \in 1 .. Len(Subcommands(p)) + 1

\* Where the script is.  The errors are those of the current attempt, and the except
\* script has those of the last one.
ControlInv ==
  /\ commands \in Programs /\ PlaceOK(place)
  /\ pc \in {"next", "expect", "monitor", "done"}
  /\ pc \in {"expect", "monitor"} => ~AtEnd /\ Current.type = pc
  /\ (pc = "done") = (outcome # Running)
ErrorsInv ==
  /\ errors \in Seq(Places)
  /\ \A i \in 1 .. Len(errors) : errors[i].ip = place.ip /\ errors[i].attempt = place.attempt
  /\ place.level = "top" => errors = <<>>
  /\ place.level = "except" =>
       errors # <<>> /\ place.attempt = MaxAttempts(Outer(place)) /\ ~outcome.ok

\* What has been sent was sent in order, and before the current place.
SentInv ==
  /\ tx \in Seq(Places)
  /\ \A i, j \in 1 .. Len(tx) : i < j => Later(tx[i], tx[j])
  /\ \A i \in 1 .. Len(tx) :
       Later(tx[i], place) /\ (tx[i].level = "except" => place.level = "except")

DataInv ==
  /\ rx \in Text /\ arrived \in 0 .. Len(rx) /\ consumed \in 0 .. arrived
  /\ from \in 0 .. consumed /\ deadline \in Nat /\ now \in Nat
  /\ result \in {"none", "success", "failure", "timeout"}

\* A pattern that does not parse is not waited for.
PatternInv == pc = "expect" => Current.pattern # BadPattern

IInv == ControlInv /\ ErrorsInv /\ SentInv /\ DataInv /\ PatternInv /\ NothingMissed

------------------------------------------------------------------------------
(***************************************************************************)
(* Commands and places.                                                    *)
(***************************************************************************)
LEMMA SimpleTypes ==
  /\ \A c \in Simple : c.type \in {"send", "broken", "expect", "monitor"}
  /\ \A c \in Simple : c.type = "monitor" => c.duration \in Nat
BY DEF Simple, Send, Broken

LEMMA CommandTypes ==
  ASSUME commands \in Programs
  PROVE  /\ Len(commands) \in Nat
         /\ \A i \in 1 .. Len(commands) : commands[i] \in Simple \cup Compound
         /\ \A c \in Simple \cup Compound : c.type = "try" =>
              /\ c.script \in Seq(Simple) /\ c.except \in Seq(Simple) /\ c.retry \in BOOLEAN
              /\ Len(c.script) \in Nat /\ Len(c.except) \in Nat
<1>1. commands \in Seq(Simple \cup Compound)
  BY ProgramsAssumption
<1>2. ASSUME NEW c \in Simple \cup Compound, c.type = "try" PROVE c \in Compound
  BY <1>2, SimpleTypes
<1>3. ASSUME NEW c \in Compound
      PROVE  /\ c.script \in Seq(Simple) /\ c.except \in Seq(Simple) /\ c.retry \in BOOLEAN
             /\ Len(c.script) \in Nat /\ Len(c.except) \in Nat
  <2>1. c.script \in Seq(Simple) /\ c.except \in Seq(Simple) /\ c.retry \in BOOLEAN
    BY DEF Compound
  <2> QED BY <2>1, LenProperties
<1> QED BY <1>1, <1>2, <1>3, LenProperties, ElementOfSeq

\* Later is a transitive order of places.
LEMMA LaterTransitive ==
  ASSUME NEW p \in Places, NEW q \in Places, NEW r \in Places, Later(p, q), Later(q, r)
  PROVE  Later(p, r)
BY DEF Later, Places, Levels

\* The command at a place.
LEMMA CurrentType ==
  ASSUME commands \in Programs, PlaceOK(place), ~AtEnd
  PROVE  /\ Current \in Simple \cup Compound
         /\ place.level # "top" => Current \in Simple /\ Current.type # "try"
<1>1. CASE place.level = "top"
  <2>1. place.ip \in 1 .. Len(commands)
    BY <1>1, CommandTypes DEF PlaceOK, AtEnd
  <2> QED BY <1>1, <2>1, CommandTypes DEF Current, Outer
<1>2. CASE place.level # "top"
  <2>1. place.ip \in 1 .. Len(commands) /\ Outer(place).type = "try"
    BY <1>2, CommandTypes DEF PlaceOK
  <2>2. Subcommands(place) \in Seq(Simple) /\ Len(Subcommands(place)) \in Nat
    BY <2>1, CommandTypes DEF Outer, Subcommands
  <2>3. place.sub \in 1 .. Len(Subcommands(place))
    BY <1>2, <2>2 DEF PlaceOK, AtEnd
  <2>4. Current \in Simple
    BY <1>2, <2>2, <2>3, ElementOfSeq DEF Current
  <2> QED BY <1>2, <2>4, SimpleTypes
<1> QED BY <1>1, <1>2

LEMMA ExpectPattern ==
  ASSUME commands \in Programs, PlaceOK(place), ~AtEnd, Current.type = "expect"
  PROVE  Current.pattern \in Parsed
<1>1. Current \in Simple
  BY CurrentType DEF Compound
<1> QED BY <1>1 DEF Simple, Send, Broken

\* The next command.
LEMMA FollowingPlace ==
  ASSUME commands \in Programs, PlaceOK(place), ~AtEnd
  PROVE  /\ PlaceOK(Following) /\ Later(place, Following)
         /\ Following.level = place.level /\ Following.attempt = place.attempt
         /\ place.level # "top" => Following.ip = place.ip
<1>1. CASE place.level = "top"
  <2>1. Following = At(place.ip + 1) /\ place = At(place.ip)
    BY <1>1 DEF Following, PlaceOK
  <2>2. place.ip \in 1 .. Len(commands)
    BY <1>1, CommandTypes DEF PlaceOK, AtEnd
  <2> QED BY <1>1, <2>1, <2>2, CommandTypes DEF PlaceOK, Places, Levels, At, Later
<1>2. CASE place.level # "top"
  <2>1. Following = [place EXCEPT !.sub = @ + 1] /\ place \in Places
    BY <1>2 DEF Following, PlaceOK
  <2>2. place.ip \in 1 .. Len(commands) /\ Outer(place).type = "try"
    BY <1>2, CommandTypes DEF PlaceOK
  <2>3. Len(Subcommands(place)) \in Nat
    BY <2>2, CommandTypes DEF Outer, Subcommands
  <2>4. place.sub \in 1 .. Len(Subcommands(place))
    BY <1>2, <2>3 DEF PlaceOK, AtEnd
  <2>5. /\ Following \in Places /\ Following.ip = place.ip /\ Following.level = place.level
        /\ Following.attempt = place.attempt /\ Following.sub = place.sub + 1
    BY <2>1 DEF Places
  <2>6. Subcommands(Following) = Subcommands(place) /\ Outer(Following) = Outer(place)
    BY <2>5 DEF Subcommands, Outer
  <2>7. PlaceOK(Following)
    BY <1>2, <2>2, <2>3, <2>4, <2>5, <2>6 DEF PlaceOK
  <2>8. Later(place, Following)
    BY <2>4, <2>5 DEF Later
  <2> QED BY <1>2, <2>5, <2>7, <2>8
<1> QED BY <1>1, <1>2

\* What stays, if the program and the place do.
LEMMA SamePlace ==
  ASSUME UNCHANGED <<commands, place>>
  PROVE  AtEnd' = AtEnd /\ Current' = Current /\ PlaceOK(place)' = PlaceOK(place)
         /\ Outer(place)' = Outer(place)
BY DEF AtEnd, Current, Outer, Subcommands, PlaceOK, MaxAttempts

------------------------------------------------------------------------------
(***************************************************************************)
(* The script.  A step goes on to a later place, or stays.                 *)
(***************************************************************************)
Moves == (place' = place \/ Later(place, place')) /\ (place.level = "except" => place'.level = "except")
Kept == ControlInv' /\ ErrorsInv' /\ Moves

\* An error with a place differs from what executeScript returns before it ends.
LEMMA Returned ==
  ASSUME NEW p, p.ip # 0 PROVE Failed(p) # Running /\ ~Failed(p).ok
BY DEF Failed, Running, None, At

LEMMA ReturnKeeps ==
  ASSUME ControlInv, ErrorsInv, NEW p, p.ip # 0, commands' = commands, Return(p)
  PROVE  Kept
<1>1. /\ pc' = "done" /\ outcome' = Failed(p) /\ UNCHANGED <<commands, place, errors>>
  BY DEF Return
<1>2. outcome' # Running' /\ ~outcome'.ok
  BY <1>1, Returned DEF Running, None, At
<1>3. ControlInv'
  BY <1>1, <1>2, SamePlace DEF ControlInv
<1>4. ErrorsInv'
  BY <1>1, <1>2, SamePlace DEF ErrorsInv, MaxAttempts
<1> QED BY <1>1, <1>3, <1>4 DEF Kept, Moves

LEMMA SuccessKeeps ==
  ASSUME ControlInv, ErrorsInv, pc # "done", ~AtEnd, commands' = commands, Success
  PROVE  Kept
<1>1. pc' = "next" /\ place' = Following /\ UNCHANGED <<commands, errors, outcome>>
  BY DEF Success
<1>2. /\ PlaceOK(Following) /\ Later(place, Following)
      /\ Following.level = place.level /\ Following.attempt = place.attempt
      /\ place.level # "top" => Following.ip = place.ip
  BY FollowingPlace DEF ControlInv
<1>3. PlaceOK(place)'
  BY <1>1, <1>2 DEF PlaceOK, Outer, Subcommands, MaxAttempts, At, Places, Levels
<1>4. ControlInv'
  BY <1>1, <1>3 DEF ControlInv, Running, None, At
<1>5. ErrorsInv'
  BY <1>1, <1>2 DEF ErrorsInv, Outer, MaxAttempts, Places, Levels
<1> QED BY <1>1, <1>2, <1>4, <1>5 DEF Kept, Moves

LEMMA FailureKeeps ==
  ASSUME ControlInv, ErrorsInv, pc # "done", ~AtEnd, commands' = commands, Failure
  PROVE  Kept
<1>1. CASE place.level = "top"
  <2>1. Return(place)
    BY <1>1 DEF Failure
  <2>2. place.ip # 0
    BY DEF ControlInv, PlaceOK
  <2> QED BY <2>1, <2>2, ReturnKeeps
<1>2. CASE place.level # "top"
  <2>1. /\ pc' = "next" /\ place' = Following /\ UNCHANGED <<commands, outcome>>
        /\ errors' = IF place.level = "script" THEN Append(errors, place) ELSE errors
    BY <1>2 DEF Failure
  <2>2. /\ PlaceOK(Following) /\ Later(place, Following)
        /\ Following.level = place.level /\ Following.attempt = place.attempt
        /\ Following.ip = place.ip
    BY <1>2, FollowingPlace DEF ControlInv
  <2>3. PlaceOK(place)'
    BY <2>1, <2>2 DEF PlaceOK, Outer, Subcommands, MaxAttempts, At, Places, Levels
  <2>4. ControlInv'
    BY <2>1, <2>3 DEF ControlInv, Running, None, At
  <2>5. ASSUME place.level = "script" PROVE ErrorsInv'
    <3>1. errors \in Seq(Places) /\ place \in Places /\ Len(errors) \in Nat
      BY LenProperties DEF ErrorsInv, ControlInv, PlaceOK
    <3>2. /\ errors' \in Seq(Places) /\ Len(errors') = Len(errors) + 1
          /\ \A i \in 1 .. Len(errors) : errors'[i] = errors[i]
          /\ errors'[Len(errors) + 1] = place
      BY <2>1, <2>5, <3>1, AppendProperties
    <3>3. \A i \in 1 .. Len(errors') : errors'[i].ip = place.ip /\ errors'[i].attempt = place.attempt
      BY <3>1, <3>2 DEF ErrorsInv
    <3>4. place'.level = "script" /\ place'.ip = place.ip /\ place'.attempt = place.attempt
      BY <2>1, <2>2, <2>5
    <3>5. /\ errors' \in Seq(Places)'
          /\ \A i \in 1 .. Len(errors') :
               errors'[i].ip = place'.ip /\ errors'[i].attempt = place'.attempt
      BY <3>2, <3>3, <3>4 DEF Places, Levels
    <3> QED BY <3>4, <3>5 DEF ErrorsInv
  <2>6. ASSUME place.level # "script" PROVE ErrorsInv'
    <3>1. place.level = "except" /\ errors' = errors
      BY <1>2, <2>1, <2>6 DEF ControlInv, PlaceOK, Places, Levels
    <3>2. /\ place'.level = place.level /\ place'.ip = place.ip
          /\ place'.attempt = place.attempt
      BY <2>1, <2>2
    <3>3. MaxAttempts(Outer(place))' = MaxAttempts(Outer(place))
      BY <2>1, <3>2 DEF Outer, MaxAttempts
    <3>4. errors \in Seq(Places)' /\ outcome' = outcome
      BY <2>1 DEF ErrorsInv, Places, Levels
    <3> QED BY <3>1, <3>2, <3>3, <3>4 DEF ErrorsInv
  <2> QED BY <2>1, <2>2, <2>4, <2>5, <2>6 DEF Kept, Moves
<1> QED BY <1>1, <1>2

\* From its own place, a place of an attempt is later.
LEMMA TryKeeps ==
  ASSUME ControlInv, ErrorsInv, BeginTry PROVE Kept
<1>1. /\ pc = "next" /\ ~AtEnd /\ Current.type = "try" /\ commands' = commands
      /\ \/ Return(place)
         \/ /\ place' = [place EXCEPT !.level = "script", !.attempt = 1, !.sub = 1]
            /\ errors' = <<>> /\ UNCHANGED <<pc, outcome>>
  BY DEF BeginTry, IsNext
<1>2. place \in Places /\ place.ip # 0
  BY DEF ControlInv, PlaceOK
<1>3. place.level = "top"
  BY <1>1, CurrentType DEF ControlInv
<1>4. /\ place = At(place.ip) /\ Outer(place) = Current /\ place.ip \in 1 .. Len(commands)
  BY <1>1, <1>3, CommandTypes DEF ControlInv, PlaceOK, Current, AtEnd
<1>5. CASE Return(place)
  BY <1>1, <1>2, <1>5, ReturnKeeps
<1>6. CASE /\ place' = [place EXCEPT !.level = "script", !.attempt = 1, !.sub = 1]
           /\ errors' = <<>> /\ UNCHANGED <<pc, outcome>>
  <2>1. /\ place' \in Places /\ place'.ip = place.ip /\ place'.level = "script"
        /\ place'.attempt = 1 /\ place'.sub = 1
    BY <1>2, <1>6 DEF Places, Levels
  <2>2. Later(place, place')
    BY <1>4, <2>1 DEF Later, At
  <2>3. Outer(place)' = Current /\ Len(Subcommands(place)') \in Nat
    <3>1. Current \in Simple \cup Compound
      BY <1>1, CurrentType DEF ControlInv
    <3>2. Len(Current.script) \in Nat
      BY <1>1, <3>1, CommandTypes DEF ControlInv
    <3>3. Outer(place)' = Current
      BY <1>1, <1>4, <2>1 DEF Outer
    <3> QED BY <2>1, <3>2, <3>3 DEF Subcommands
  <2>4. PlaceOK(place)'
    BY <1>1, <1>4, <2>1, <2>3, CommandTypes DEF ControlInv, PlaceOK, MaxAttempts
  <2>5. ControlInv'
    BY <1>1, <1>6, <2>4 DEF ControlInv, Running, None, At
  <2>6. ErrorsInv'
    BY <1>6, <2>1, EmptySeq DEF ErrorsInv
  <2> QED BY <1>3, <2>2, <2>5, <2>6 DEF Kept, Moves
<1> QED BY <1>1, <1>5, <1>6

LEMMA AttemptKeeps ==
  ASSUME ControlInv, ErrorsInv, EndAttempt PROVE Kept
<1>1. pc = "next" /\ place.level = "script" /\ AtEnd /\ commands' = commands
  BY DEF EndAttempt
<1>2. /\ place \in Places /\ place.ip \in 1 .. Len(commands) /\ Outer(place).type = "try"
      /\ place.attempt \in 1 .. MaxAttempts(Outer(place)) /\ Len(commands) \in Nat
  BY <1>1, CommandTypes DEF ControlInv, PlaceOK
<1>3. /\ Outer(place).type = "try" /\ Outer(place) \in Simple \cup Compound
      /\ Len(Outer(place).script) \in Nat /\ Len(Outer(place).except) \in Nat
  BY <1>2, CommandTypes DEF ControlInv, Outer
<1>4. ~outcome.ok
  BY <1>1 DEF ControlInv, Running
<1>5. CASE errors = <<>> /\ place' = At(place.ip + 1) /\ UNCHANGED <<pc, errors, outcome>>
  <2>1. PlaceOK(place)' /\ Later(place, place') /\ place'.level = "top"
    BY <1>1, <1>2, <1>5 DEF PlaceOK, Places, Levels, At, Later
  <2>2. ControlInv'
    BY <1>1, <1>5, <2>1 DEF ControlInv, Running, None, At
  <2>3. ErrorsInv'
    BY <1>5, <2>1, EmptySeq DEF ErrorsInv
  <2> QED BY <1>1, <2>1, <2>2, <2>3 DEF Kept, Moves
<1>6. CASE /\ errors # <<>> /\ place.attempt < MaxAttempts(Outer(place))
           /\ place' = [place EXCEPT !.attempt = @ + 1, !.sub = 1]
           /\ errors' = <<>> /\ UNCHANGED <<pc, outcome>>
  <2>1. /\ place' \in Places /\ place'.ip = place.ip /\ place'.level = "script"
        /\ place'.attempt = place.attempt + 1 /\ place'.sub = 1
    <3>1. place.attempt \in Nat /\ place.attempt + 1 \in Nat
      BY <1>2 DEF Places
    <3>2. place' = [ip |-> place.ip, level |-> "script", attempt |-> place.attempt + 1, sub |-> 1]
      BY <1>1, <1>2, <1>6 DEF Places
    <3> QED BY <1>2, <3>1, <3>2 DEF Places, Levels
  <2>2. Outer(place)' = Outer(place) /\ Subcommands(place)' = Outer(place).script
    BY <1>1, <2>1 DEF Outer, Subcommands
  <2>3. place'.attempt \in 1 .. MaxAttempts(Outer(place)')
    BY <1>2, <1>6, <2>1, <2>2 DEF MaxAttempts
  <2>4. PlaceOK(place)'
    BY <1>1, <1>2, <1>3, <2>1, <2>2, <2>3 DEF PlaceOK, MaxAttempts
  <2>5. Later(place, place')
    BY <1>2, <2>1 DEF Later
  <2>6. ControlInv'
    BY <1>1, <1>6, <2>4 DEF ControlInv, Running, None, At
  <2>7. ErrorsInv'
    BY <1>6, <2>1, EmptySeq DEF ErrorsInv
  <2> QED BY <1>1, <2>5, <2>6, <2>7 DEF Kept, Moves
<1>7. CASE /\ errors # <<>> /\ place.attempt = MaxAttempts(Outer(place))
           /\ place' = [place EXCEPT !.level = "except", !.sub = 1]
           /\ UNCHANGED <<pc, errors, outcome>>
  <2>1. /\ place' \in Places /\ place'.ip = place.ip /\ place'.level = "except"
        /\ place'.attempt = place.attempt /\ place'.sub = 1
    BY <1>1, <1>2, <1>7 DEF Places, Levels
  <2>2. Outer(place)' = Outer(place) /\ Subcommands(place)' = Outer(place).except
    BY <1>1, <2>1 DEF Outer, Subcommands
  <2>3. PlaceOK(place)'
    BY <1>1, <1>2, <1>3, <2>1, <2>2 DEF PlaceOK, MaxAttempts
  <2>4. Later(place, place')
    BY <1>1, <2>1 DEF Later
  <2>5. ControlInv'
    BY <1>1, <1>7, <2>3 DEF ControlInv, Running, None, At
  <2>6. ErrorsInv'
    BY <1>4, <1>7, <2>1, <2>2 DEF ErrorsInv, MaxAttempts, Places, Levels
  <2> QED BY <1>1, <2>1, <2>4, <2>5, <2>6 DEF Kept, Moves
<1>8. CASE errors # <<>> /\ Return(Last(errors))
  <2>1. Last(errors).ip # 0
    <3>1. Len(errors) \in 1 .. Len(errors)
      BY <1>8, EmptySeq, LenProperties DEF ErrorsInv
    <3> QED BY <1>2, <3>1 DEF ErrorsInv, Last
  <2> QED BY <1>1, <1>8, <2>1, ReturnKeeps
<1>9. CASE Return([place EXCEPT !.level = "except"])
  <2>1. [place EXCEPT !.level = "except"].ip # 0
    BY <1>2 DEF Places
  <2> QED BY <1>1, <1>9, <2>1, ReturnKeeps
<1> QED BY <1>5, <1>6, <1>7, <1>8, <1>9 DEF EndAttempt

LEMMA ExceptKeeps ==
  ASSUME ControlInv, ErrorsInv, EndExcept PROVE Kept
<1>1. place.level = "except" /\ Return(Last(errors)) /\ commands' = commands
  BY DEF EndExcept
<1>2. Last(errors).ip # 0
  <2>1. Len(errors) \in 1 .. Len(errors)
    BY <1>1, EmptySeq, LenProperties DEF ErrorsInv
  <2> QED BY <2>1 DEF ErrorsInv, Last, ControlInv, PlaceOK
<1> QED BY <1>1, <1>2, ReturnKeeps

LEMMA EndKeeps ==
  ASSUME ControlInv, ErrorsInv, EndScript PROVE Kept
<1>1. /\ place.level = "top" /\ pc' = "done" /\ outcome' = Succeeded
      /\ UNCHANGED <<commands, place, errors>>
  BY DEF EndScript
<1>2. ControlInv'
  BY <1>1, SamePlace DEF ControlInv, Succeeded, Running
<1>3. ErrorsInv'
  BY <1>1 DEF ErrorsInv
<1> QED BY <1>1, <1>2, <1>3 DEF Kept, Moves

\* A command begins to wait.
LEMMA WaitKeeps ==
  ASSUME ControlInv, ErrorsInv, pc # "done", ~AtEnd, commands' = commands,
         NEW label \in {"expect", "monitor"}, Current.type = label,
         pc' = label, UNCHANGED <<place, errors, outcome>>
  PROVE  Kept
<1>1. ControlInv'
  BY SamePlace DEF ControlInv, Running, None, At
<1>2. ErrorsInv'
  BY SamePlace DEF ErrorsInv, MaxAttempts
<1> QED BY <1>1, <1>2 DEF Kept, Moves

\* Nothing of it changes.
LEMMA NothingKeeps ==
  ASSUME ControlInv, ErrorsInv, UNCHANGED <<commands, place, pc, errors, outcome>>
  PROVE  Kept
<1>1. ControlInv'
  BY SamePlace DEF ControlInv, Running, None, At
<1>2. ErrorsInv'
  BY SamePlace DEF ErrorsInv, MaxAttempts
<1> QED BY <1>1, <1>2 DEF Kept, Moves

------------------------------------------------------------------------------
(***************************************************************************)
(* What has been sent, what has been received, and what is waited for.     *)
(***************************************************************************)
LEMMA SentKeeps ==
  ASSUME ControlInv, ControlInv', SentInv, Moves, UNCHANGED tx
  PROVE  SentInv'
<1>1. place \in Places /\ place' \in Places /\ tx \in Seq(Places) /\ Len(tx) \in Nat
  BY LenProperties DEF ControlInv, PlaceOK, SentInv, Places, Levels
<1>2. \A i \in 1 .. Len(tx) : tx[i] \in Places /\ Later(tx[i], place)
  BY <1>1, ElementOfSeq DEF SentInv
<1>3. \A i \in 1 .. Len(tx) : Later(tx[i], place')
  BY <1>1, <1>2, LaterTransitive DEF Moves
<1>4. \A i \in 1 .. Len(tx) : tx[i].level = "except" => place'.level = "except"
  BY DEF SentInv, Moves
<1>5. tx' \in Seq(Places)'
  BY <1>1 DEF Places, Levels
<1>6. \A i, j \in 1 .. Len(tx') : i < j => Later(tx'[i], tx'[j])
  BY DEF SentInv
<1>7. \A i \in 1 .. Len(tx') :
        Later(tx'[i], place') /\ (tx'[i].level = "except" => place'.level = "except")
  BY <1>3, <1>4
<1> QED BY <1>5, <1>6, <1>7 DEF SentInv, Later

LEMMA SendKeeps ==
  ASSUME ControlInv, SentInv, ControlInv', Later(place, place'),
         place.level = "except" => place'.level = "except", tx' = Append(tx, place)
  PROVE  SentInv'
<1>1. place \in Places /\ place' \in Places /\ tx \in Seq(Places) /\ Len(tx) \in Nat
  BY LenProperties DEF ControlInv, PlaceOK, SentInv, Places, Levels
<1>2. \A i \in 1 .. Len(tx) : tx[i] \in Places /\ Later(tx[i], place)
  BY <1>1, ElementOfSeq DEF SentInv
<1>3. \A i \in 1 .. Len(tx) : Later(tx[i], place')
  BY <1>1, <1>2, LaterTransitive
<1>4. /\ tx' \in Seq(Places) /\ Len(tx') = Len(tx) + 1 /\ tx'[Len(tx) + 1] = place
      /\ \A i \in 1 .. Len(tx) : tx'[i] = tx[i]
  BY <1>1, AppendProperties
<1>5. tx' \in Seq(Places)'
  BY <1>4 DEF Places, Levels
<1>6. ASSUME NEW i \in 1 .. Len(tx'), NEW j \in 1 .. Len(tx'), i < j
      PROVE  Later(tx'[i], tx'[j])
  <2>1. i \in 1 .. Len(tx)
    BY <1>1, <1>4, <1>6
  <2>2. CASE j = Len(tx) + 1
    BY <1>2, <1>4, <2>1, <2>2
  <2>3. CASE j \in 1 .. Len(tx)
    BY <1>4, <1>6, <2>1, <2>3 DEF SentInv
  <2> QED BY <1>1, <1>4, <2>2, <2>3
<1>7. ASSUME NEW i \in 1 .. Len(tx')
      PROVE  Later(tx'[i], place') /\ (tx'[i].level = "except" => place'.level = "except")
  <2>1. CASE i = Len(tx) + 1
    BY <1>4, <2>1
  <2>2. CASE i \in 1 .. Len(tx)
    BY <1>3, <1>4, <2>2 DEF SentInv
  <2> QED BY <1>1, <1>4, <2>1, <2>2
<1> QED BY <1>5, <1>6, <1>7 DEF SentInv, Later

\* A step of the script that takes nothing from the channel and does not begin to wait.
Idle == pc' # "expect" /\ UNCHANGED <<device, consumed, from, deadline, result, now>>

LEMMA IdleKeeps ==
  ASSUME DataInv, Idle PROVE DataInv' /\ PatternInv' /\ NothingMissed'
BY DEF DataInv, Idle, device, PatternInv, NothingMissed, Text

LEMMA QuietKeeps ==
  ASSUME IInv, Kept, UNCHANGED tx, Idle PROVE IInv'
<1>1. ControlInv' /\ ErrorsInv' /\ Moves
  BY DEF Kept
<1>2. SentInv'
  BY <1>1, SentKeeps DEF IInv
<1> QED BY <1>1, <1>2, IdleKeeps DEF IInv

\* The command that is executed is over, or the script is.
LEMMA OverKeeps ==
  ASSUME IInv, pc # "done", ~AtEnd, Success \/ Failure,
         UNCHANGED <<commands, device, consumed, from, deadline, tx, result, now>>
  PROVE  IInv'
<1>1. Kept
  BY SuccessKeeps, FailureKeeps DEF IInv
<1>2. Idle
  BY DEF Idle, Success, Failure, Return
<1> QED BY <1>1, <1>2, QuietKeeps

LEMMA SendStep ==
  ASSUME IInv, HandleSend PROVE IInv'
<1>1. /\ pc = "next" /\ ~AtEnd
      /\ UNCHANGED <<commands, device, consumed, from, deadline, result, now>>
  BY DEF HandleSend, IsNext
<1>2. CASE Success /\ tx' = Append(tx, place)
  <2>1. Kept
    BY <1>1, <1>2, SuccessKeeps DEF IInv
  <2>2. Later(place, place') /\ place'.level = place.level
    BY <1>1, <1>2, FollowingPlace DEF IInv, ControlInv, Success
  <2>3. SentInv'
    BY <1>2, <2>1, <2>2, SendKeeps DEF IInv, Kept
  <2>4. Idle
    BY <1>1, <1>2 DEF Idle, Success
  <2> QED BY <2>1, <2>3, <2>4, IdleKeeps DEF IInv, Kept
<1>3. CASE Failure /\ UNCHANGED tx
  BY <1>1, <1>3, OverKeeps
<1> QED BY <1>2, <1>3 DEF HandleSend

\* An expect or a monitor begins.
LEMMA BeginStep ==
  ASSUME IInv, BeginExpect \/ BeginMonitor PROVE IInv'
<1>1. /\ pc = "next" /\ ~AtEnd
      /\ UNCHANGED <<commands, device, consumed, tx, result, now>>
  BY DEF BeginExpect, BeginMonitor, IsNext
<1>2. CASE Failure /\ UNCHANGED <<from, deadline>>
  BY <1>1, <1>2, OverKeeps
<1>3. ASSUME NEW label \in {"expect", "monitor"}, NEW timeout \in Nat,
             Current.type = label, Wait(label, timeout),
             label = "expect" => Current.pattern # BadPattern
      PROVE  IInv'
  <2>1. /\ pc' = label /\ from' = consumed /\ deadline' = now + timeout
        /\ UNCHANGED <<place, errors, outcome>>
    BY <1>3 DEF Wait
  <2>2. Kept
    BY <1>1, <1>3, <2>1, WaitKeeps DEF IInv
  <2>3. SentInv'
    BY <1>1, <2>2, SentKeeps DEF IInv, Kept
  <2>4. DataInv'
    BY <1>1, <2>1 DEF IInv, DataInv, device, Text
  <2>5. NothingMissed'
    BY <1>1, <2>1 DEF IInv, DataInv, NothingMissed
  <2>6. PatternInv'
    <3>1. Current' = Current
      BY <1>1, <2>1, SamePlace
    <3> QED BY <1>3, <2>1, <3>1 DEF PatternInv
  <2> QED BY <2>2, <2>3, <2>4, <2>5, <2>6 DEF IInv, Kept
<1>4. CASE BeginExpect
  BY <1>2, <1>3, <1>4, TimeAssumption DEF BeginExpect, IsNext
<1>5. CASE BeginMonitor
  <2>1. Current.type = "monitor" /\ Current.duration \in Nat
    <3>1. Current.type = "monitor" /\ Current \in Simple \cup Compound
      BY <1>1, <1>5, CurrentType DEF BeginMonitor, IsNext, IInv, ControlInv
    <3>2. Current \in Simple
      BY <3>1 DEF Compound
    <3> QED BY <3>1, <3>2, SimpleTypes
  <2> QED BY <1>2, <1>3, <1>5, <2>1 DEF BeginMonitor
<1> QED BY <1>4, <1>5

\* A string is taken from the channel.  A pattern in ASCII would have been found.
LEMMA ReceiveStep ==
  ASSUME IInv, Receive PROVE IInv'
<1>1. /\ pc \in {"expect", "monitor"} /\ consumed < arrived /\ consumed' = consumed + 1
      /\ UNCHANGED <<commands, device, from, deadline, tx, result, now>>
  BY DEF Receive
<1>2. ~AtEnd
  BY <1>1 DEF IInv, ControlInv
<1>3. DataInv'
  BY <1>1 DEF IInv, DataInv, device, Text
<1>4. CASE Success
  <2>1. Kept
    BY <1>1, <1>2, <1>4, SuccessKeeps DEF IInv
  <2>2. SentInv'
    BY <1>1, <2>1, SentKeeps DEF IInv, Kept
  <2>3. PatternInv' /\ NothingMissed'
    BY <1>4 DEF Success, PatternInv, NothingMissed
  <2> QED BY <1>3, <2>1, <2>2, <2>3 DEF IInv, Kept
<1>5. CASE ~(pc = "expect" /\ Matched) /\ UNCHANGED <<place, pc, errors, outcome>>
  <2>1. Kept
    BY <1>1, <1>5, NothingKeeps DEF IInv
  <2>2. SentInv'
    BY <1>1, <2>1, SentKeeps DEF IInv, Kept
  <2>3. ASSUME pc = "expect", Plain(Current.pattern.text), NEW n \in from + 1 .. consumed'
        PROVE  ~Matches(Current.pattern, SubSeq(rx, from + 1, n))
    <3>1. CASE n = consumed'
      <4>1. ~Matches(Current.pattern, Converted(SubSeq(rx, from + 1, consumed')))
        BY <1>5, <2>3 DEF Matched, Received
      <4>2. Current.pattern \in Parsed /\ Current.pattern # BadPattern
        BY <1>2, <2>3, ExpectPattern DEF IInv, ControlInv, PatternInv
      <4>3. SubSeq(rx, from + 1, consumed') \in Text
        <5>1. /\ rx \in Seq(Chars) /\ consumed' \in 0 .. Len(rx) /\ from \in Nat
              /\ Len(rx) \in Nat
          BY <1>1, StringIs DEF IInv, DataInv
        <5>2. \A k \in from + 1 .. consumed' : rx[k] \in Chars
          <6>1. \A k \in from + 1 .. consumed' : k \in 1 .. Len(rx)
            BY <5>1
          <6> QED BY <5>1, <6>1, ElementOfSeq
        <5> QED BY <5>1, <5>2, SubSeqProperties DEF Text
      <4> QED BY <2>3, <3>1, <4>1, <4>2, <4>3, PlainMatches
    <3>2. CASE n \in from + 1 .. consumed
      BY <2>3, <3>2 DEF IInv, NothingMissed
    <3> QED BY <1>1, <3>1, <3>2 DEF IInv, DataInv
  <2>4. PatternInv' /\ NothingMissed'
    <3>1. Current' = Current
      BY <1>1, <1>5, SamePlace
    <3>2. PatternInv'
      BY <1>5, <3>1 DEF IInv, PatternInv
    <3>3. NothingMissed'
      BY <1>1, <1>5, <2>3, <3>1 DEF NothingMissed, device
    <3> QED BY <3>2, <3>3
  <2> QED BY <1>3, <2>1, <2>2, <2>4 DEF IInv, Kept
<1> QED BY <1>4, <1>5 DEF Receive

LEMMA ScriptStep ==
  ASSUME IInv, Script PROVE IInv'
<1>1. CASE BeginTry
  <2>1. Kept
    BY <1>1, TryKeeps DEF IInv
  <2>2. Idle /\ UNCHANGED tx
    BY <1>1 DEF BeginTry, IsNext, Idle, Return
  <2> QED BY <2>1, <2>2, QuietKeeps
<1>2. CASE EndAttempt
  <2>1. Kept
    BY <1>2, AttemptKeeps DEF IInv
  <2>2. Idle /\ UNCHANGED tx
    BY <1>2 DEF EndAttempt, Idle, Return
  <2> QED BY <2>1, <2>2, QuietKeeps
<1>3. CASE EndExcept
  <2>1. Kept
    BY <1>3, ExceptKeeps DEF IInv
  <2>2. Idle /\ UNCHANGED tx
    BY <1>3 DEF EndExcept, Idle, Return
  <2> QED BY <2>1, <2>2, QuietKeeps
<1>4. CASE EndScript
  <2>1. Kept
    BY <1>4, EndKeeps DEF IInv
  <2>2. Idle /\ UNCHANGED tx
    BY <1>4 DEF EndScript, Idle
  <2> QED BY <2>1, <2>2, QuietKeeps
<1>5. CASE TimerFires
  <2>1. pc # "done" /\ ~AtEnd
    BY <1>5 DEF TimerFires, IInv, ControlInv
  <2> QED BY <1>5, <2>1, OverKeeps DEF TimerFires
<1> QED BY <1>1, <1>2, <1>3, <1>4, <1>5, SendStep, BeginStep, ReceiveStep DEF Script

(***************************************************************************)
(* The device, the clock, readSerial and main.                             *)
(***************************************************************************)
LEMMA OutsideKeeps ==
  ASSUME IInv, UNCHANGED <<commands, consumed, place, pc, from, errors, tx, outcome>>,
         DataInv',
         \A n \in from + 1 .. consumed : SubSeq(rx', from + 1, n) = SubSeq(rx, from + 1, n)
  PROVE  IInv'
<1>1. Kept
  BY NothingKeeps DEF IInv
<1>2. SentInv'
  BY <1>1, SentKeeps DEF IInv, Kept
<1>3. PatternInv' /\ NothingMissed'
  <2>1. Current' = Current
    BY SamePlace
  <2> QED BY <2>1 DEF IInv, PatternInv, NothingMissed
<1> QED BY <1>1, <1>2, <1>3 DEF IInv, Kept

LEMMA EmitStep ==
  ASSUME IInv, NEW ch \in DeviceBytes, Emit(ch) PROVE IInv'
<1>1. /\ rx' = Append(rx, ch) /\ rx \in Seq(Chars) /\ Len(rx) \in Nat
      /\ UNCHANGED <<commands, arrived, consumed, place, pc, from, deadline, errors, tx,
                     outcome, result, now>>
  BY LenProperties DEF Emit, IInv, DataInv, Text
<1>2. /\ rx' \in Seq(Chars) /\ Len(rx') = Len(rx) + 1
      /\ \A i \in 1 .. Len(rx) : rx'[i] = rx[i]
  BY <1>1, AppendProperties, TimeAssumption
<1>3. DataInv'
  BY <1>1, <1>2 DEF IInv, DataInv, Text
<1>4. ASSUME NEW n \in from + 1 .. consumed
      PROVE  SubSeq(rx', from + 1, n) = SubSeq(rx, from + 1, n)
  <2>1. from + 1 \in 1 .. Len(rx) /\ n \in 1 .. Len(rx) /\ n \in from .. Len(rx)
    BY <1>1 DEF IInv, DataInv
  <2> QED BY <1>1, <1>2, <2>1
<1> QED BY <1>1, <1>3, <1>4, OutsideKeeps

LEMMA StepKeeps ==
  ASSUME IInv, [Next]_vars PROVE IInv'
<1>1. ASSUME DataInv', UNCHANGED <<commands, rx, consumed, place, pc, from, errors, tx, outcome>>
      PROVE  IInv'
  BY <1>1, OutsideKeeps
<1>2. CASE Tick
  BY <1>1, <1>2 DEF Tick, IInv, DataInv, Text, device
<1>3. CASE ReadSerial
  BY <1>1, <1>3, LenProperties DEF ReadSerial, IInv, DataInv, Text
<1>4. CASE Main
  <2>1. PICK r \in {"success", "failure", "timeout"} : Exit(r)
    BY <1>4 DEF Main, ScriptReturned, ContextDone
  <2> QED BY <1>1, <2>1 DEF Exit, IInv, DataInv, Text, device
<1>5. CASE UNCHANGED vars
  BY <1>1, <1>5 DEF vars, IInv, DataInv, Text, device
<1> QED BY <1>2, <1>3, <1>4, <1>5, ScriptStep, EmitStep DEF Next, Halted

------------------------------------------------------------------------------
(***************************************************************************)
(* Theorems.                                                               *)
(***************************************************************************)

\* In every reachable state the script is at a command of the program, with the errors of
\* the attempt that it is in, and what it has sent belongs to earlier places.
THEOREM ScriptInvariance == Spec => []IInv
<1>1. Init => IInv
  <2> SUFFICES ASSUME Init PROVE IInv
    OBVIOUS
  <2>1. commands \in Programs /\ Len(commands) \in Nat
    BY CommandTypes DEF Init
  <2>2. ControlInv
    BY <2>1 DEF Init, ControlInv, PlaceOK, Places, Levels, At
  <2>3. ErrorsInv
    BY EmptySeq DEF Init, ErrorsInv, At
  <2>4. SentInv
    BY EmptySeq DEF Init, SentInv
  <2>5. DataInv /\ PatternInv /\ NothingMissed
    BY EmptySeq DEF Init, DataInv, PatternInv, NothingMissed, Text
  <2> QED BY <2>2, <2>3, <2>4, <2>5 DEF IInv
<1>2. IInv /\ [Next]_vars => IInv'
  BY StepKeeps
<1> QED BY <1>1, <1>2, PTL DEF Spec

\* TypeOK: no command outside the program is executed, and every timer has been set.
THEOREM ScriptTypes == Spec => []TypeOK
<1>1. IInv => TypeOK
  <2> SUFFICES ASSUME IInv PROVE TypeOK
    OBVIOUS
  <2>1. ControlInv /\ DataInv
    BY DEF IInv
  <2>2. Len(commands) \in Nat
    BY <2>1, CommandTypes DEF ControlInv
  <2>3. place.ip \in 1 .. Len(commands) + 1 /\ place.level \in Levels
    BY <2>1 DEF ControlInv, PlaceOK, Places
  <2>4. place.level # "top" => /\ Outer(place).type = "try" /\ place.attempt \in 1 .. 2
                               /\ place.sub \in 1 .. Len(Subcommands(place)) + 1
    BY <2>1 DEF ControlInv, PlaceOK, MaxAttempts
  <2> QED BY <2>1, <2>3, <2>4 DEF TypeOK, ControlInv, DataInv
<1> QED BY <1>1, ScriptInvariance, PTL

\* NothingMissed: handleExpect looks at all it has received with every string, so an expect
\* that times out has not received its pattern, if that is in ASCII.  A byte beyond ASCII,
\* of which readSerial makes a string of two, hides no such pattern.
THEOREM NothingIsMissed == Spec => []NothingMissed
<1>1. IInv => NothingMissed
  BY DEF IInv
<1> QED BY <1>1, ScriptInvariance, PTL

\* SentOnce: executeScript and handleTry send in the order of the program, of the attempts
\* and of the scripts of a try, whatever fails in between.
THEOREM SentOnlyOnce == Spec => []SentOnce
<1>1. IInv => SentOnce
  BY LenProperties DEF IInv, SentInv, SentOnce
<1> QED BY <1>1, ScriptInvariance, PTL

\* ExceptIsFinal: handleTry runs the except script after the last attempt, all of whose
\* errors are then remembered, and the run fails.
THEOREM ExceptIsTheLast == Spec => []ExceptIsFinal
<1>1. IInv => ExceptIsFinal
  <2> SUFFICES ASSUME IInv, place.level = "except" \/ \E i \in DOMAIN tx : tx[i].level = "except"
               PROVE  errors # <<>> /\ ~outcome.ok
                      /\ \A i \in DOMAIN errors :
                           errors[i].attempt = MaxAttempts(Outer(errors[i]))
    BY DEF ExceptIsFinal
  <2>1. place.level = "except"
    BY LenProperties DEF IInv, SentInv
  <2>2. /\ errors # <<>> /\ place.attempt = MaxAttempts(Outer(place)) /\ ~outcome.ok
        /\ DOMAIN errors = 1 .. Len(errors)
    BY <2>1, LenProperties DEF IInv, ErrorsInv
  <2>3. ASSUME NEW i \in DOMAIN errors PROVE errors[i].attempt = MaxAttempts(Outer(errors[i]))
    BY <2>2, <2>3 DEF IInv, ErrorsInv, Outer, MaxAttempts
  <2> QED BY <2>2, <2>3
<1> QED BY <1>1, ScriptInvariance, PTL

\* MonitorIsExtended: hasMonitorCommands finds every monitor of the program itself, so
\* one that is running gives the script the extended timeout.
THEOREM MonitorsAreExtended == Spec => MonitorIsExtended
<1>1. ASSUME IInv, Next, vars' # vars,
             pc = "monitor", place.level = "top", result' = "timeout"
      PROVE  now >= Day
  <2>1. HasMonitor
    <3>1. ~AtEnd /\ Current.type = "monitor" /\ place.ip \in Nat /\ place.ip > 0
      BY <1>1 DEF IInv, ControlInv, PlaceOK, Places
    <3>2. place.ip \in 1 .. Len(commands) /\ commands[place.ip].type = "monitor"
      BY <1>1, <3>1, CommandTypes DEF AtEnd, Current, Outer, IInv, ControlInv
    <3>3. DOMAIN commands = 1 .. Len(commands)
      BY ProgramsAssumption, LenProperties DEF IInv, ControlInv
    <3> QED BY <3>2, <3>3 DEF HasMonitor
  <2>2. ContextDone
    BY <1>1 DEF Next, Halted, Emit, Tick, ReadSerial, Script, BeginTry, EndAttempt, EndExcept,
                EndScript, HandleSend, BeginExpect, BeginMonitor, Receive, TimerFires, Main,
                ScriptReturned, Exit, vars
  <2> QED BY <2>1, <2>2 DEF ContextDone, Limit
<1>2. IInv /\ [Next]_vars =>
        [pc = "monitor" /\ place.level = "top" /\ result' = "timeout" => now >= Day]_vars
  BY <1>1
<1> QED BY <1>2, ScriptInvariance, PTL DEF Spec, MonitorIsExtended


------------------------------------------------------------------------------
(***************************************************************************)
(* What the script has received, cut into what its commands waited for.    *)
(***************************************************************************)
\* The first n - 1 commands have been satisfied, one after the other, by the characters up
\* to the last.
Reach(cs, n, text, last) ==
  \E cut \in [1 .. n -> 0 .. last] :
    /\ cut[n] = last
    /\ \A i \in 1 .. n - 1 : cut[i] <= cut[i + 1] /\ Satisfied(cs[i], text, cut[i], cut[i + 1])

\* What had been consumed when the current command, or what follows the last one, began.
Begun == IF pc \in {"expect", "monitor"} THEN from ELSE consumed

\* The commands before the current one have been satisfied, in the order of the text; in
\* the main script of a try also those before the current one of the attempt, unless one
\* of them failed.
AheadInv ==
  \E first \in 0 .. Begun :
    /\ Reach(commands, place.ip, rx, first)
    /\ place.level = "top" /\ pc # "done" => first = Begun
    /\ place.level = "script" /\ errors = <<>> /\ pc # "done" =>
         InOrder(Outer(place).script, place.sub - 1, rx, first, Begun)

\* Nothing is waited for before the first command.
LEMMA NoneInOrder ==
  ASSUME NEW cs, NEW text, NEW first \in Nat, NEW last \in Nat, first <= last
  PROVE  InOrder(cs, 0, text, first, last)
<1> DEFINE cut == [k \in 0 .. 0 |-> last]
<1>1. cut \in [0 .. 0 -> first .. last] /\ cut[0] = last /\ \A k \in 1 .. 0 : FALSE
  OBVIOUS
<1> QED BY <1>1 DEF InOrder

\* One command more, of a script, and of the program.
LEMMA OneMoreInOrder ==
  ASSUME NEW cs, NEW text, NEW n \in Nat, NEW first \in Nat, NEW last \in Nat, NEW next \in Nat,
         last <= next, InOrder(cs, n, text, first, last), Served(cs[n + 1], text, last, next)
  PROVE  InOrder(cs, n + 1, text, first, next)
<1>1. PICK cut \in [0 .. n -> first .. last] :
        /\ cut[n] = last
        /\ \A k \in 1 .. n : cut[k - 1] <= cut[k] /\ Served(cs[k], text, cut[k - 1], cut[k])
  BY DEF InOrder
<1> DEFINE more == [k \in 0 .. n + 1 |-> IF k = n + 1 THEN next ELSE cut[k]]
<1>2. first <= last
  BY <1>1
<1>3. /\ more \in [0 .. n + 1 -> first .. next] /\ more[n + 1] = next
      /\ \A k \in 0 .. n : more[k] = cut[k]
  BY <1>1, <1>2
<1> HIDE DEF more
<1>4. ASSUME NEW k \in 1 .. n + 1
      PROVE  more[k - 1] <= more[k] /\ Served(cs[k], text, more[k - 1], more[k])
  <2>1. CASE k = n + 1
    <3>1. more[k - 1] = last /\ more[k] = next
      BY <1>1, <1>3, <2>1
    <3> QED BY <2>1, <3>1
  <2>2. CASE k # n + 1
    <3>1. k \in 1 .. n /\ more[k - 1] = cut[k - 1] /\ more[k] = cut[k]
      BY <1>3, <2>2
    <3> QED BY <1>1, <3>1
  <2> QED BY <2>1, <2>2
<1> QED BY <1>3, <1>4 DEF InOrder

LEMMA OneMoreReached ==
  ASSUME NEW cs, NEW text, NEW n \in Nat \ {0}, NEW last \in Nat, NEW next \in Nat,
         last <= next, Reach(cs, n, text, last), Satisfied(cs[n], text, last, next)
  PROVE  Reach(cs, n + 1, text, next)
<1>1. PICK cut \in [1 .. n -> 0 .. last] :
        /\ cut[n] = last
        /\ \A i \in 1 .. n - 1 : cut[i] <= cut[i + 1] /\ Satisfied(cs[i], text, cut[i], cut[i + 1])
  BY DEF Reach
<1> DEFINE more == [i \in 1 .. n + 1 |-> IF i = n + 1 THEN next ELSE cut[i]]
<1>2. /\ more \in [1 .. n + 1 -> 0 .. next] /\ more[n + 1] = next
      /\ \A i \in 1 .. n : more[i] = cut[i]
  BY <1>1
<1> HIDE DEF more
<1>3. ASSUME NEW i \in 1 .. (n + 1) - 1
      PROVE  more[i] <= more[i + 1] /\ Satisfied(cs[i], text, more[i], more[i + 1])
  <2>1. CASE i = n
    <3>1. more[i] = last /\ more[i + 1] = next
      BY <1>1, <1>2, <2>1
    <3> QED BY <2>1, <3>1
  <2>2. CASE i # n
    <3>1. i \in 1 .. n - 1 /\ more[i] = cut[i] /\ more[i + 1] = cut[i + 1]
      BY <1>2, <2>2
    <3> QED BY <1>1, <3>1
  <2> QED BY <2>1, <2>2
<1> QED BY <1>2, <1>3 DEF Reach

\* What is received later does not matter.
LEMMA SameOrder ==
  ASSUME NEW text, NEW longer, NEW end \in Nat,
         \A i, j \in 0 .. end : i <= j => SubSeq(longer, i + 1, j) = SubSeq(text, i + 1, j),
         NEW cs, NEW n \in Nat, NEW first \in 0 .. end, NEW last \in 0 .. end,
         InOrder(cs, n, text, first, last)
  PROVE  InOrder(cs, n, longer, first, last)
<1>1. PICK cut \in [0 .. n -> first .. last] :
        /\ cut[n] = last
        /\ \A k \in 1 .. n : cut[k - 1] <= cut[k] /\ Served(cs[k], text, cut[k - 1], cut[k])
  BY DEF InOrder
<1>2. \A k \in 0 .. n : cut[k] \in 0 .. end
  BY <1>1
<1>3. ASSUME NEW k \in 1 .. n PROVE Served(cs[k], longer, cut[k - 1], cut[k])
  <2>1. cut[k - 1] \in 0 .. end /\ cut[k] \in 0 .. end /\ cut[k - 1] <= cut[k]
    BY <1>1, <1>2
  <2>2. Served(cs[k], text, cut[k - 1], cut[k])
    BY <1>1
  <2>3. SubSeq(longer, cut[k - 1] + 1, cut[k]) = SubSeq(text, cut[k - 1] + 1, cut[k])
    BY <2>1
  <2> QED BY <2>2, <2>3 DEF Served
<1> QED BY <1>1, <1>3 DEF InOrder

LEMMA SameReach ==
  ASSUME NEW text, NEW longer, NEW end \in Nat,
         \A i, j \in 0 .. end : i <= j => SubSeq(longer, i + 1, j) = SubSeq(text, i + 1, j),
         NEW cs, NEW n \in Nat \ {0}, NEW last \in 0 .. end, Reach(cs, n, text, last),
         \A i \in 1 .. n - 1 : cs[i].type = "try" => Len(cs[i].script) \in Nat
  PROVE  Reach(cs, n, longer, last)
<1>1. PICK cut \in [1 .. n -> 0 .. last] :
        /\ cut[n] = last
        /\ \A i \in 1 .. n - 1 : cut[i] <= cut[i + 1] /\ Satisfied(cs[i], text, cut[i], cut[i + 1])
  BY DEF Reach
<1>2. \A i \in 1 .. n : cut[i] \in 0 .. end
  BY <1>1
<1>3. ASSUME NEW i \in 1 .. n - 1 PROVE Satisfied(cs[i], longer, cut[i], cut[i + 1])
  <2>1. cut[i] \in 0 .. end /\ cut[i + 1] \in 0 .. end /\ cut[i] <= cut[i + 1]
    BY <1>1, <1>2
  <2>2. Satisfied(cs[i], text, cut[i], cut[i + 1])
    BY <1>1
  <2>3. CASE cs[i].type = "try"
    BY <2>1, <2>2, <2>3, SameOrder DEF Satisfied
  <2>4. CASE cs[i].type # "try"
    BY <2>1, <2>2, <2>4 DEF Satisfied, Served
  <2> QED BY <2>3, <2>4
<1> QED BY <1>1, <1>3 DEF Reach

\* A step that goes on with the current command, or ends the script.
LEMMA AheadSame ==
  ASSUME IInv, AheadInv, UNCHANGED <<commands, rx, place, errors>>,
         Begun' \in Nat, Begun <= Begun', pc = "done" => pc' = "done",
         pc' = "done" \/ Begun' = Begun
  PROVE  AheadInv'
<1>1. PICK first \in 0 .. Begun :
        /\ Reach(commands, place.ip, rx, first)
        /\ place.level = "top" /\ pc # "done" => first = Begun
        /\ place.level = "script" /\ errors = <<>> /\ pc # "done" =>
             InOrder(Outer(place).script, place.sub - 1, rx, first, Begun)
  BY DEF AheadInv
<1>2. Begun \in Nat
  BY DEF IInv, DataInv, Begun
<1>3. first \in 0 .. Begun' /\ Outer(place)' = Outer(place)
  BY <1>2 DEF Outer
<1> HIDE DEF Begun
<1> QED BY <1>1, <1>2, <1>3 DEF AheadInv

\* The current command has succeeded.
LEMMA AheadSuccess ==
  ASSUME IInv, AheadInv, UNCHANGED <<commands, rx>>, pc # "done", ~AtEnd, Success,
         Current.type # "try", consumed' \in Nat, Begun <= consumed',
         Served(Current, rx, Begun, consumed')
  PROVE  AheadInv'
<1>1. PICK first \in 0 .. Begun :
        /\ Reach(commands, place.ip, rx, first)
        /\ place.level = "top" => first = Begun
        /\ place.level = "script" /\ errors = <<>> =>
             InOrder(Outer(place).script, place.sub - 1, rx, first, Begun)
  BY DEF AheadInv
<1>2. /\ Begun \in Nat /\ place \in Places /\ place.ip \in Nat \ {0}
      /\ place.level # "top" => place.sub \in Nat \ {0}
  BY CommandTypes DEF IInv, DataInv, Begun, ControlInv, PlaceOK, Places
<1>3. pc' = "next" /\ place' = Following /\ errors' = errors /\ Begun' = consumed'
  BY DEF Success, Begun
<1> HIDE DEF Begun
<1>4. CASE place.level = "top"
  <2>1. place' = At(place.ip + 1) /\ Current = commands[place.ip]
    BY <1>3, <1>4 DEF Following, Current, Outer
  <2>2. place'.ip = place.ip + 1 /\ place'.level = "top"
    BY <2>1 DEF At
  <2>3. Satisfied(commands[place.ip], rx, Begun, consumed')
    BY <2>1 DEF Satisfied
  <2>4. Reach(commands, place.ip + 1, rx, consumed')
    BY <1>1, <1>2, <1>4, <2>3, OneMoreReached
  <2> QED BY <1>3, <2>2, <2>4 DEF AheadInv
<1>5. CASE place.level # "top"
  <2>1. place' = [place EXCEPT !.sub = @ + 1]
    BY <1>3, <1>5 DEF Following
  <2>2. place'.ip = place.ip /\ place'.level = place.level /\ place'.sub = place.sub + 1
    BY <1>2, <2>1 DEF Places
  <2>3. Outer(place)' = Outer(place)
    BY <2>2 DEF Outer
  <2>4. ASSUME place.level = "script", errors = <<>>
        PROVE  InOrder(Outer(place).script, place.sub, rx, first, consumed')
    <3>1. Current = Outer(place).script[(place.sub - 1) + 1]
      BY <1>2, <2>4 DEF Current, Subcommands
    <3>2. InOrder(Outer(place).script, place.sub - 1, rx, first, Begun)
      BY <1>1, <2>4
    <3>3. place.sub - 1 \in Nat /\ (place.sub - 1) + 1 = place.sub
      BY <1>2, <2>4
    <3>4. Served(Outer(place).script[(place.sub - 1) + 1], rx, Begun, consumed')
      BY <3>1
    <3>5. InOrder(Outer(place).script, (place.sub - 1) + 1, rx, first, consumed')
      BY <1>1, <1>2, <3>2, <3>3, <3>4, OneMoreInOrder
    <3> QED BY <3>3, <3>5
  <2>5. first \in 0 .. Begun' /\ (place.level = "script" => place'.sub - 1 = place.sub)
    BY <1>1, <1>2, <1>3, <1>5, <2>2
  <2> QED BY <1>1, <1>3, <1>5, <2>2, <2>3, <2>4, <2>5 DEF AheadInv
<1> QED BY <1>4, <1>5

\* The current command has failed.
LEMMA AheadFailure ==
  ASSUME IInv, AheadInv, UNCHANGED <<commands, rx, consumed>>, pc # "done", Failure
  PROVE  AheadInv'
<1>1. Begun \in Nat /\ consumed \in Nat /\ Begun <= consumed /\ place \in Places
  BY DEF IInv, DataInv, Begun, ControlInv, PlaceOK
<1>2. CASE place.level = "top"
  <2>1. pc' = "done" /\ UNCHANGED <<place, errors>> /\ Begun' = consumed
    BY <1>2 DEF Failure, Return, Begun
  <2> HIDE DEF Begun
  <2> QED BY <1>1, <2>1, AheadSame
<1>3. CASE place.level # "top"
  <2>1. PICK first \in 0 .. Begun : Reach(commands, place.ip, rx, first)
    BY DEF AheadInv
  <2>2. /\ pc' = "next" /\ place' = [place EXCEPT !.sub = @ + 1] /\ Begun' = consumed
        /\ errors' = IF place.level = "script" THEN Append(errors, place) ELSE errors
    BY <1>3 DEF Failure, Following, Begun
  <2>3. place'.ip = place.ip /\ place'.level = place.level
    BY <1>1, <2>2 DEF Places
  <2>4. place.level = "script" => errors' # <<>>
    <3>1. errors \in Seq(Places)
      BY DEF IInv, ErrorsInv
    <3> QED BY <1>1, <2>2, <3>1, AppendProperties
  <2>5. first \in 0 .. Begun'
    BY <1>1, <2>1, <2>2
  <2> HIDE DEF Begun
  <2> QED BY <1>3, <2>1, <2>2, <2>3, <2>4, <2>5 DEF AheadInv
<1> QED BY <1>2, <1>3

\* A try begins, is through, is repeated, or goes on with its except script.
LEMMA AheadTry ==
  ASSUME IInv, AheadInv, BeginTry \/ EndAttempt \/ EndExcept PROVE AheadInv'
<1>1. /\ UNCHANGED <<commands, rx, consumed, from>> /\ pc = "next"
      /\ consumed \in Nat /\ Begun = consumed /\ place \in Places /\ Len(commands) \in Nat
      /\ commands \in Programs
      /\ place.ip \in Nat \ {0}
  BY CommandTypes
    DEF BeginTry, EndAttempt, EndExcept, IsNext, device, IInv, DataInv, ControlInv, PlaceOK,
        Begun, Places
<1>2. PICK first \in 0 .. consumed :
        /\ Reach(commands, place.ip, rx, first)
        /\ place.level = "top" => first = consumed
        /\ place.level = "script" /\ errors = <<>> =>
             InOrder(Outer(place).script, place.sub - 1, rx, first, consumed)
  BY <1>1 DEF AheadInv
<1>3. pc' \in {"next", "done"} => Begun' = consumed
  BY <1>1 DEF Begun
<1> HIDE DEF Begun
<1>4. ASSUME NEW p, Return(p) PROVE AheadInv'
  <2>1. pc' = "done" /\ UNCHANGED <<place, errors>>
    BY <1>4 DEF Return
  <2> QED BY <1>1, <1>3, <2>1, AheadSame
<1>5. ASSUME pc' = "next", place'.level = "script", place'.ip = place.ip, place'.sub = 1
      PROVE  AheadInv'
  <2>1. InOrder(Outer(place)'.script, 0, rx', first, consumed)
    BY <1>1, NoneInOrder
  <2>2. first \in 0 .. Begun' /\ Begun' = consumed /\ place'.sub - 1 = 0
    BY <1>3, <1>5
  <2> QED BY <1>1, <1>2, <1>5, <2>1, <2>2 DEF AheadInv
<1>6. CASE BeginTry
  <2>1. CASE Return(place)
    BY <1>4, <2>1
  <2>2. CASE place' = [place EXCEPT !.level = "script", !.attempt = 1, !.sub = 1] /\ pc' = pc
    BY <1>1, <1>5, <2>2 DEF Places
  <2> QED BY <1>6, <2>1, <2>2 DEF BeginTry
<1>7. CASE EndExcept
  BY <1>4, <1>7 DEF EndExcept
<1>8. CASE EndAttempt
  <2>0. place.level = "script" /\ AtEnd
    BY <1>8 DEF EndAttempt
  <2>1. CASE errors = <<>> /\ place' = At(place.ip + 1) /\ pc' = pc
    <3> DEFINE script == Outer(place).script
    <3>1. place.sub - 1 = Len(script) /\ Len(script) \in Nat /\ Outer(place).type = "try"
      <4>1. /\ place.sub \in 1 .. Len(Subcommands(place)) + 1 /\ Outer(place).type = "try"
            /\ place.ip \in 1 .. Len(commands) /\ Subcommands(place) = script
        BY <1>1, <2>0 DEF IInv, ControlInv, PlaceOK, Subcommands
      <4>2. Len(script) \in Nat
        BY <1>1, <4>1, CommandTypes DEF Outer
      <4> QED BY <2>0, <4>1, <4>2 DEF AtEnd
    <3>2. InOrder(script, Len(script), rx, first, consumed)
      BY <1>2, <2>0, <2>1, <3>1
    <3>3. Satisfied(commands[place.ip], rx, first, consumed)
      BY <3>1, <3>2 DEF Satisfied, Outer
    <3>4. Reach(commands, place.ip + 1, rx, consumed)
      BY <1>1, <1>2, <3>3, OneMoreReached
    <3>5. place'.ip = place.ip + 1 /\ place'.level = "top"
      BY <2>1 DEF At
    <3>6. Begun' = consumed /\ consumed \in 0 .. Begun'
      BY <1>1, <1>3, <2>1
    <3> QED BY <1>1, <3>4, <3>5, <3>6 DEF AheadInv
  <2>2. CASE place' = [place EXCEPT !.attempt = @ + 1, !.sub = 1] /\ pc' = pc
    BY <1>1, <1>5, <2>0, <2>2 DEF Places
  <2>3. CASE place' = [place EXCEPT !.level = "except", !.sub = 1] /\ pc' = pc
    <3>1. place'.ip = place.ip /\ place'.level = "except" /\ Begun' = consumed
      BY <1>1, <1>3, <2>3 DEF Places
    <3> QED BY <1>1, <1>2, <3>1 DEF AheadInv
  <2>4. CASE \E p : Return(p)
    BY <1>4, <2>4
  <2> QED BY <1>8, <2>1, <2>2, <2>3, <2>4 DEF EndAttempt
<1> QED BY <1>6, <1>7, <1>8

LEMMA AheadScript ==
  ASSUME IInv, AheadInv, Script PROVE AheadInv'
<1>0. /\ consumed \in Nat /\ from \in 0 .. consumed /\ Begun \in Nat /\ Begun <= consumed
      /\ (pc \in {"expect", "monitor"} => ~AtEnd /\ Current.type = pc)
  BY DEF IInv, DataInv, ControlInv, Begun
<1>1. CASE EndScript
  <2>1. pc' = "done" /\ UNCHANGED <<commands, rx, consumed, place, errors>> /\ Begun' = consumed
    BY <1>1 DEF EndScript, device, Begun
  <2> HIDE DEF Begun
  <2> QED BY <1>0, <2>1, AheadSame
<1>2. CASE HandleSend
  <2>1. /\ UNCHANGED <<commands, rx, consumed>> /\ pc = "next" /\ ~AtEnd
        /\ Current.type = "send" /\ (Success \/ Failure)
    BY <1>2 DEF HandleSend, IsNext, device
  <2>2. Served(Current, rx, Begun, consumed')
    BY <2>1 DEF Served
  <2> QED BY <1>0, <2>1, <2>2, AheadSuccess, AheadFailure
<1>3. CASE BeginExpect \/ BeginMonitor
  <2>1. /\ UNCHANGED <<commands, rx, consumed>> /\ pc = "next" /\ ~AtEnd
        /\ (Failure \/ \E label \in {"expect", "monitor"} : \E timeout : Wait(label, timeout))
    BY <1>3 DEF BeginExpect, BeginMonitor, IsNext, device
  <2>2. ASSUME NEW label \in {"expect", "monitor"}, NEW timeout, Wait(label, timeout)
        PROVE  AheadInv'
    <3>1. /\ pc' = label /\ Begun' = consumed /\ Begun = consumed
          /\ UNCHANGED <<place, errors>>
      BY <2>1, <2>2 DEF Wait, Begun
    <3> HIDE DEF Begun
    <3> QED BY <1>0, <2>1, <3>1, AheadSame
  <2> QED BY <2>1, <2>2, AheadFailure
<1>4. CASE Receive
  <2>1. /\ UNCHANGED <<commands, rx, from>> /\ pc \in {"expect", "monitor"} /\ ~AtEnd
        /\ consumed' = consumed + 1 /\ Begun = from /\ Current.type = pc
    BY <1>0, <1>4 DEF Receive, device, Begun
  <2>2. CASE ((pc = "expect" /\ Matched) \/ (pc = "monitor" /\ Enough)) /\ Success
    <3>1. Served(Current, rx, Begun, consumed')
      BY <2>1, <2>2 DEF Served, Matched, Received
    <3> HIDE DEF Begun
    <3> QED BY <1>0, <2>1, <2>2, <3>1, AheadSuccess
  <2>3. CASE UNCHANGED <<place, pc, errors>>
    <3>1. Begun' = Begun
      BY <2>1, <2>3 DEF Begun
    <3> HIDE DEF Begun
    <3> QED BY <1>0, <2>1, <2>3, <3>1, AheadSame
  <2> QED BY <1>4, <2>2, <2>3 DEF Receive
<1>5. CASE TimerFires
  <2>1. /\ UNCHANGED <<commands, rx, consumed>> /\ pc \in {"expect", "monitor"} /\ ~AtEnd
        /\ Current.type = pc /\ (Failure \/ (pc = "monitor" /\ Success))
    BY <1>0, <1>5 DEF TimerFires, device
  <2>2. pc = "monitor" => Served(Current, rx, Begun, consumed')
    BY <2>1 DEF Served
  <2> QED BY <1>0, <2>1, <2>2, AheadSuccess, AheadFailure
<1> QED BY <1>1, <1>2, <1>3, <1>4, <1>5, AheadTry DEF Script

LEMMA AheadStep ==
  ASSUME IInv, AheadInv, [Next]_vars PROVE AheadInv'
<1>0. /\ consumed \in 0 .. Len(rx) /\ from \in 0 .. consumed /\ Begun \in 0 .. consumed
      /\ rx \in Seq(Chars) /\ Len(rx) \in Nat
  BY LenProperties DEF IInv, DataInv, Begun, Text
<1>1. ASSUME UNCHANGED <<commands, rx, consumed, from, place, pc, errors>> PROVE AheadInv'
  <2>1. Begun' = Begun
    BY <1>1 DEF Begun
  <2> HIDE DEF Begun
  <2> QED BY <1>0, <1>1, <2>1, AheadSame
<1>2. ASSUME NEW ch \in DeviceBytes, Emit(ch) PROVE AheadInv'
  <2>1. /\ rx' = Append(rx, ch) /\ UNCHANGED <<commands, consumed, place, pc, from, errors>>
    BY <1>2 DEF Emit
  <2>2. rx' \in Seq(Chars) /\ Len(rx') = Len(rx) + 1 /\ \A i \in 1 .. Len(rx) : rx'[i] = rx[i]
    BY <1>0, <2>1, AppendProperties, TimeAssumption
  <2>3. ASSUME NEW i \in 0 .. consumed, NEW j \in 0 .. consumed, i <= j
        PROVE  SubSeq(rx', i + 1, j) = SubSeq(rx, i + 1, j)
    <3>1. CASE i = j
      <4>1. i + 1 \in Int /\ j \in Int /\ j < i + 1
        BY <3>1
      <4> QED BY <4>1, SubSeqEmpty
    <3>2. CASE i < j
      <4>1. i + 1 \in 1 .. Len(rx) /\ j \in 1 .. Len(rx) /\ j \in i .. Len(rx)
        BY <1>0, <3>2
      <4> QED BY <1>0, <2>2, <4>1
    <3> QED BY <2>3, <3>1, <3>2
  <2>4. PICK first \in 0 .. Begun :
          /\ Reach(commands, place.ip, rx, first)
          /\ place.level = "top" /\ pc # "done" => first = Begun
          /\ place.level = "script" /\ errors = <<>> /\ pc # "done" =>
               InOrder(Outer(place).script, place.sub - 1, rx, first, Begun)
    BY DEF AheadInv
  <2>5. Begun' = Begun /\ Outer(place)' = Outer(place)
    BY <2>1 DEF Begun, Outer
  <2> HIDE DEF Begun
  <2>6. /\ place.ip \in Nat \ {0}
        /\ place.level = "script" => place.sub - 1 \in Nat
        /\ \A i \in 1 .. place.ip - 1 :
             commands[i].type = "try" => Len(commands[i].script) \in Nat
    <3>1. /\ place.ip \in 1 .. Len(commands) + 1 /\ commands \in Programs
          /\ place.level = "script" => place.sub - 1 \in Nat
      BY DEF IInv, ControlInv, PlaceOK, Places
    <3> QED BY <3>1, CommandTypes
  <2>f. consumed \in Nat /\ first \in 0 .. consumed
    BY <1>0, <2>4
  <2>7. Reach(commands, place.ip, rx', first)
    BY <2>3, <2>4, <2>6, <2>f, SameReach
  <2>8. InOrder(Outer(place).script, place.sub - 1, rx, first, Begun) /\ place.level = "script"
          => InOrder(Outer(place).script, place.sub - 1, rx', first, Begun)
    <3> PICK cs : cs = Outer(place).script
      OBVIOUS
    <3>1. ASSUME place.level = "script", InOrder(cs, place.sub - 1, rx, first, Begun)
          PROVE  InOrder(cs, place.sub - 1, rx', first, Begun)
      BY <1>0, <2>3, <2>4, <2>6, <2>f, <3>1, SameOrder
    <3> QED BY <3>1
  <2> QED BY <2>1, <2>4, <2>5, <2>7, <2>8 DEF AheadInv
<1> QED BY <1>1, <1>2, AheadScript
        DEF Next, Tick, ReadSerial, Main, ScriptReturned, ContextDone, Exit, Halted, vars, device

\* The commands before the current one have been satisfied, in every state.
THEOREM AheadInvariance == Spec => [](IInv /\ AheadInv)
<1>1. Init => AheadInv
  <2> SUFFICES ASSUME Init PROVE AheadInv
    OBVIOUS
  <2> DEFINE cut == [i \in 1 .. 1 |-> 0]
  <2>1. cut \in [1 .. 1 -> 0 .. 0] /\ cut[1] = 0 /\ \A i \in 1 .. 1 - 1 : FALSE
    OBVIOUS
  <2>2. \A cs, text : Reach(cs, 1, text, 0)
    BY <2>1 DEF Reach
  <2> QED BY <2>2 DEF Init, AheadInv, Begun, At
<1> QED BY <1>1, AheadStep, ScriptInvariance, PTL DEF Spec

\* NeverAhead: executeScript and handleTry reach a command only when the device has sent,
\* in order, what every expect before it was waiting for; an expect of a try that failed
\* stops the program, or the attempt that is repeated meets it again.
THEOREM ScriptIsNeverAhead == Spec => []NeverAhead
<1>1. IInv /\ AheadInv => NeverAhead
  <2> SUFFICES ASSUME IInv, AheadInv PROVE NeverAhead
    OBVIOUS
  <2>1. PICK first \in 0 .. Begun : Reach(commands, place.ip, rx, first)
    BY DEF AheadInv
  <2>2. consumed \in Nat /\ first \in 0 .. consumed
    BY DEF IInv, DataInv, Begun
  <2>3. PICK cut \in [1 .. place.ip -> 0 .. first] :
          \A i \in 1 .. place.ip - 1 :
            cut[i] <= cut[i + 1] /\ Satisfied(commands[i], rx, cut[i], cut[i + 1])
    BY <2>1 DEF Reach
  <2>4. cut \in [1 .. place.ip -> 0 .. consumed]
    BY <2>2, <2>3
  <2> QED BY <2>3, <2>4 DEF NeverAhead
<1> QED BY <1>1, AheadInvariance, PTL
==============================================================================
