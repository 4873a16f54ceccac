------------------------- MODULE CommandOutputProofs -------------------------
(***************************************************************************)
(* Proofs about CommandOutput, for every set of requests, all sizes of     *)
(* what they append, and every limit.                                      *)
(***************************************************************************)
EXTENDS CommandOutput, SequenceTheorems, TLAPS

\* The requests whose text occurs in an output.
Shown(s) == {s[i] : i \in 1 .. Len(s)}

(***************************************************************************)
(* No output that is stored or has been read mixes texts, and the text of  *)
(* a request that has yet to append occurs in none of them.                *)
(***************************************************************************)
Outputs == {latest} \cup {old[r] : r \in Requests} \cup {whole[r] : r \in Requests}
Early == {r \in Requests : pc[r] \in {"start", "append"}}
TextInv == \A s \in Outputs : Unmixed(s) /\ \A r \in Early : r \notin Shown(s)

(***************************************************************************)
(* While a request is alone in appendOutput, what it has read is what is   *)
(* still stored.                                                           *)
(***************************************************************************)
AloneInv ==
  \A r \in Requests : alone[r] /\ Appending(r) =>
    /\ \A q \in Requests : Appending(q) => q = r
    /\ latest = IF pc[r] = "append" THEN old[r] ELSE old[r] \o Text(r)
    /\ pc[r] \in {"cut", "has whole", "has length", "slice"} => Len(latest) > MaxOutputSize
    /\ pc[r] \in {"has whole", "slice"} => whole[r] = latest
    /\ pc[r] \in {"has length", "slice"} => length[r] = Len(latest)

------------------------------------------------------------------------------
\* A text is a sequence of its request.
LEMMA Texts ==
  ASSUME NEW r \in Requests
  PROVE  /\ Text(r) \in Seq(Requests) /\ Len(Text(r)) = Size[r] /\ Size[r] \in Nat \ {0}
         /\ \A i \in 1 .. Size[r] : Text(r)[i] = r
<1>1. Size[r] \in Nat \ {0}
  BY OutputAssumption
<1> QED BY <1>1 DEF Text

\* What += stores: the old output and the text.
LEMMA Appended ==
  ASSUME NEW s \in Seq(Requests), NEW r \in Requests
  PROVE  /\ s \o Text(r) \in Seq(Requests) /\ Len(s \o Text(r)) = Len(s) + Size[r]
         /\ \A i \in 1 .. Len(s) : (s \o Text(r))[i] = s[i]
         /\ \A i \in Len(s) + 1 .. Len(s) + Size[r] : (s \o Text(r))[i] = r
<1>1. /\ Text(r) \in Seq(Requests) /\ Len(Text(r)) = Size[r] /\ Size[r] \in Nat \ {0}
      /\ \A i \in 1 .. Size[r] : Text(r)[i] = r
  BY Texts
<1>2. /\ Len(s \o Text(r)) = Len(s) + Len(Text(r))
      /\ \A i \in 1 .. Len(s) + Len(Text(r)) :
           (s \o Text(r))[i] = IF i <= Len(s) THEN s[i] ELSE Text(r)[i - Len(s)]
  BY <1>1, ConcatProperties
<1>3. s \o Text(r) \in Seq(Requests)
  BY <1>1, ConcatProperties
<1>4. Len(s) \in Nat
  OBVIOUS
<1> QED BY <1>1, <1>2, <1>3, <1>4

\* The text of a request that does not occur can be appended.
LEMMA AppendUnmixed ==
  ASSUME NEW s \in Seq(Requests), NEW r \in Requests, Unmixed(s), r \notin Shown(s)
  PROVE  Unmixed(s \o Text(r)) /\ Shown(s \o Text(r)) \subseteq Shown(s) \cup {r}
<1> DEFINE t == s \o Text(r)  n == Len(s)
<1>1. /\ n \in Nat /\ Size[r] \in Nat \ {0} /\ Len(t) = n + Size[r]
      /\ \A i \in 1 .. n : t[i] = s[i]
      /\ \A i \in n + 1 .. n + Size[r] : t[i] = r
  <2>1. n \in Nat
    OBVIOUS
  <2>2. Size[r] \in Nat \ {0}
    BY Texts
  <2> QED BY <2>1, <2>2, Appended
<1>2. \A i \in 1 .. n : s[i] \in Requests /\ s[i] # r
  BY DEF Shown
<1> HIDE DEF t, n
<1>3. ASSUME NEW i \in 2 .. Len(t), t[i] # t[i - 1]
      PROVE  /\ \A j \in 1 .. i - 1 : t[j] # t[i]
             /\ \A j \in 1 .. Size[t[i]] - 1 : i + j <= Len(t) /\ t[i + j] = t[i]
  <2>1. CASE i <= n
    <3>1. i \in 2 .. n /\ i - 1 \in 1 .. n /\ s[i] # s[i - 1]
      BY <1>1, <1>3, <2>1
    <3>2. Size[s[i]] \in Nat
      BY <1>2, <3>1, OutputAssumption
    <3>3. /\ \A j \in 1 .. i - 1 : s[j] # s[i]
          /\ \A j \in 1 .. Size[s[i]] - 1 : i + j <= n /\ s[i + j] = s[i]
      BY <3>1 DEF Unmixed, n
    <3>4. t[i] = s[i]
      BY <1>1, <3>1
    <3>5. ASSUME NEW j \in 1 .. i - 1 PROVE t[j] # t[i]
      BY <1>1, <3>1, <3>3, <3>4
    <3>6. ASSUME NEW j \in 1 .. Size[t[i]] - 1 PROVE i + j <= Len(t) /\ t[i + j] = t[i]
      BY <1>1, <3>1, <3>2, <3>3, <3>4
    <3> QED BY <3>5, <3>6
  <2>2. CASE i = n + 1
    <3>1. t[i] = r
      BY <1>1, <2>2
    <3>2. ASSUME NEW j \in 1 .. i - 1 PROVE t[j] # t[i]
      BY <1>1, <1>2, <2>2, <3>1
    <3>3. ASSUME NEW j \in 1 .. Size[t[i]] - 1 PROVE i + j <= Len(t) /\ t[i + j] = t[i]
      BY <1>1, <2>2, <3>1
    <3> QED BY <3>2, <3>3
  <2>3. CASE i > n + 1
    BY <1>1, <1>3, <2>3
  <2> QED BY <1>1, <2>1, <2>2, <2>3
<1>4. Shown(t) \subseteq Shown(s) \cup {r}
  <2>1. ASSUME NEW i \in 1 .. Len(t), i <= n PROVE t[i] \in Shown(s)
    BY <1>1, <2>1 DEF Shown, n
  <2>2. ASSUME NEW i \in 1 .. Len(t), i > n PROVE t[i] = r
    BY <1>1, <2>2
  <2>3. \A i \in 1 .. Len(t) : i <= n \/ i > n
    BY <1>1
  <2> QED BY <2>1, <2>2, <2>3 DEF Shown
<1>5. Unmixed(t)
  BY <1>3 DEF Unmixed
<1> QED BY <1>4, <1>5 DEF t

\* What a cut stores: an end of an output.
LEMMA Cut ==
  ASSUME NEW s \in Seq(Requests), NEW n \in Nat, n <= Len(s)
  PROVE  LET t == SubSeq(s, n + 1, Len(s))
         IN  /\ t \in Seq(Requests) /\ Len(t) = Len(s) - n
             /\ Shown(t) \subseteq Shown(s)
             /\ Unmixed(s) => Unmixed(t)
<1> DEFINE t == SubSeq(s, n + 1, Len(s))
<1>1. Len(s) \in Nat /\ \A i \in 1 .. Len(s) : s[i] \in Requests
  OBVIOUS
<1>2. /\ t \in Seq(Requests) /\ Len(t) = Len(s) - n
      /\ \A i \in 1 .. Len(s) - n : t[i] = s[i + n]
  <2>1. n + 1 \in 1 .. Len(s) + 1 /\ Len(s) \in n .. Len(s)
    BY <1>1
  <2>2. \A i \in n + 1 .. Len(s) : s[i] \in Requests
    BY <1>1
  <2> QED BY <1>1, <2>1, <2>2, SubSeqProperties
<1> HIDE DEF t
<1>3. Shown(t) \subseteq Shown(s)
  BY <1>1, <1>2 DEF Shown
<1>4. ASSUME Unmixed(s), NEW i \in 2 .. Len(t), t[i] # t[i - 1]
      PROVE  /\ \A j \in 1 .. i - 1 : t[j] # t[i]
             /\ \A j \in 1 .. Size[t[i]] - 1 : i + j <= Len(t) /\ t[i + j] = t[i]
  <2> DEFINE k == i + n
  <2>1. k \in 2 .. Len(s) /\ t[i] = s[k] /\ t[i - 1] = s[k - 1]
    <3>1. i \in 1 .. Len(s) - n /\ i - 1 \in 1 .. Len(s) - n /\ k - 1 = i - 1 + n
      BY <1>1, <1>2
    <3>2. t[i - 1] = s[k - 1]
      BY <1>2, <3>1
    <3> QED BY <1>1, <1>2, <3>1, <3>2
  <2>2. /\ \A j \in 1 .. k - 1 : s[j] # s[k]
        /\ \A j \in 1 .. Size[s[k]] - 1 : k + j <= Len(s) /\ s[k + j] = s[k]
    BY <1>4, <2>1 DEF Unmixed
  <2>3. Size[s[k]] \in Nat
    BY <1>1, <2>1, OutputAssumption
  <2>4. ASSUME NEW j \in 1 .. i - 1 PROVE t[j] # t[i]
    <3>1. j + n \in 1 .. k - 1 /\ t[j] = s[j + n]
      BY <1>1, <1>2
    <3> QED BY <2>1, <2>2, <3>1
  <2>5. ASSUME NEW j \in 1 .. Size[t[i]] - 1 PROVE i + j <= Len(t) /\ t[i + j] = t[i]
    <3>1. k + j <= Len(s) /\ s[k + j] = s[k]
      BY <2>1, <2>2, <2>3
    <3>2. i + j \in 1 .. Len(s) - n
      BY <1>1, <2>1, <2>3, <3>1
    <3>3. t[i + j] = s[i + j + n]
      BY <1>2, <3>2
    <3> QED BY <1>1, <1>2, <2>1, <2>3, <3>1, <3>2, <3>3
  <2> QED BY <2>4, <2>5
<1>5. Unmixed(s) => Unmixed(t)
  BY <1>4 DEF Unmixed
<1> QED BY <1>2, <1>3, <1>5 DEF t

------------------------------------------------------------------------------
\* What a request stores when it cuts.
LEMMA CutStored ==
  ASSUME TypeOK, NEW r \in Requests, StoreCut(r)
  PROVE  LET new == SubSeq(whole[r], length[r] - MaxOutputSize + 1, Len(whole[r]))
         IN  /\ new \in Seq(Requests) /\ Shown(new) \subseteq Shown(whole[r])
             /\ Unmixed(whole[r]) => Unmixed(new)
<1> DEFINE n == length[r] - MaxOutputSize
<1>1. whole[r] \in Seq(Requests) /\ length[r] \in Nat
  BY DEF TypeOK
<1>2. MaxOutputSize \in Nat
  BY OutputAssumption
<1>3. n \in Nat /\ n <= Len(whole[r])
  BY <1>1, <1>2 DEF StoreCut, InRange
<1> HIDE DEF n
<1>4. LET t == SubSeq(whole[r], n + 1, Len(whole[r]))
      IN  /\ t \in Seq(Requests) /\ Shown(t) \subseteq Shown(whole[r])
          /\ Unmixed(whole[r]) => Unmixed(t)
  BY <1>1, <1>3, Cut
<1> QED BY <1>4 DEF n

LEMMA TypeInit == Init => TypeOK
<1>1. Init => /\ latest \in Seq(Requests)
              /\ old \in [Requests -> Seq(Requests)] /\ whole \in [Requests -> Seq(Requests)]
  BY EmptySeq DEF Init
<1>2. Init => /\ pc \in [Requests -> {"start", "append", "check", "cut", "has whole",
                                      "has length", "slice", "done", "panicked"}]
              /\ alone \in [Requests -> BOOLEAN] /\ fault \in BOOLEAN
  BY DEF Init
<1>3. Init => length \in [Requests -> Nat]
  BY DEF Init
<1> QED BY <1>1, <1>2, <1>3 DEF TypeOK

\* Every step keeps the types.
LEMMA TypeStep == TypeOK /\ [Next]_vars => TypeOK'
<1> SUFFICES ASSUME TypeOK, [Next]_vars PROVE TypeOK'
  OBVIOUS
<1> USE DEF TypeOK, Goto
<1>1. ASSUME NEW r \in Requests, ReadOld(r) PROVE TypeOK'
  BY <1>1 DEF ReadOld
<1>2. ASSUME NEW r \in Requests, AppendText(r) PROVE TypeOK'
  <2>1. old[r] \o Text(r) \in Seq(Requests)
    BY Appended
  <2> QED BY <1>2, <2>1 DEF AppendText
<1>3. ASSUME NEW r \in Requests, CheckSize(r) PROVE TypeOK'
  BY <1>3 DEF CheckSize
<1>4. ASSUME NEW r \in Requests, ReadWhole(r) PROVE TypeOK'
  BY <1>4 DEF ReadWhole
<1>5. ASSUME NEW r \in Requests, ReadLength(r) PROVE TypeOK'
  <2>1. Len(latest) \in Nat
    BY LenProperties
  <2> QED BY <1>5, <2>1 DEF ReadLength
<1>6. ASSUME NEW r \in Requests, Panic(r) PROVE TypeOK'
  BY <1>6 DEF Panic
<1>7. ASSUME NEW r \in Requests, StoreCut(r) PROVE TypeOK'
  <2>1. latest' \in Seq(Requests)
    BY <1>7, CutStored DEF StoreCut
  <2> QED BY <1>7, <2>1 DEF StoreCut
<1>8. CASE MapFault
  BY <1>8 DEF MapFault
<1>9. CASE UNCHANGED vars
  BY <1>9 DEF vars
<1> QED BY <1>1, <1>2, <1>3, <1>4, <1>5, <1>6, <1>7, <1>8, <1>9 DEF Next, Ended

------------------------------------------------------------------------------
\* An output that is empty.
LEMMA Empty == Shown(<<>>) = {} /\ Unmixed(<<>>)
BY DEF Shown, Unmixed

LEMMA TextInit == Init => TextInv
<1> SUFFICES ASSUME Init, NEW s \in Outputs PROVE Unmixed(s) /\ \A r \in Early : r \notin Shown(s)
  BY DEF TextInv
<1>1. s = <<>>
  BY DEF Init, Outputs
<1> QED BY <1>1, Empty

\* A step stores at most one new output.
LEMMA TextKept ==
  ASSUME TextInv, NEW new, Outputs' \subseteq Outputs \cup {new}, Early' \subseteq Early,
         Unmixed(new), \A r \in Early' : r \notin Shown(new)
  PROVE  TextInv'
<1> SUFFICES ASSUME NEW s \in Outputs'
             PROVE  Unmixed(s) /\ \A r \in Early' : r \notin Shown(s)
  BY DEF TextInv, Unmixed, Shown
<1> QED BY DEF TextInv

\* Every step keeps the texts apart.
LEMMA TextStep == TypeOK /\ TextInv /\ [Next]_vars => TextInv'
<1> SUFFICES ASSUME TypeOK, TextInv, [Next]_vars PROVE TextInv'
  OBVIOUS
<1> USE DEF At, Goto
<1>0. latest \in Outputs /\ \A r \in Requests : old[r] \in Outputs /\ whole[r] \in Outputs
  BY DEF Outputs
<1>1. ASSUME NEW r \in Requests, ReadOld(r) \/ CheckSize(r) \/ ReadWhole(r) \/ ReadLength(r)
                                   \/ Panic(r)
      PROVE  TextInv'
  <2>1. latest' = latest /\ Early' \subseteq Early
    BY <1>1 DEF ReadOld, CheckSize, ReadWhole, ReadLength, Panic, TypeOK, Early
  <2>2. \A q \in Requests : old'[q] \in {old[q], latest} /\ whole'[q] \in {whole[q], latest}
    BY <1>1 DEF ReadOld, CheckSize, ReadWhole, ReadLength, Panic, TypeOK
  <2>3. Outputs' \subseteq Outputs
    BY <1>0, <2>1, <2>2 DEF Outputs
  <2>4. Unmixed(latest) /\ \A p \in Early : p \notin Shown(latest)
    BY <1>0 DEF TextInv
  <2> QED BY <2>1, <2>3, <2>4, TextKept
<1>2. ASSUME NEW r \in Requests, AppendText(r) PROVE TextInv'
  <2> DEFINE new == old[r] \o Text(r)
  <2>1. /\ old[r] \in Seq(Requests) /\ pc[r] = "append" /\ pc' = [pc EXCEPT ![r] = "check"]
        /\ latest' = new /\ old' = old /\ whole' = whole
    BY <1>2 DEF AppendText, TypeOK
  <2>2. Early' \subseteq Early \ {r} /\ r \in Early
    BY <2>1 DEF TypeOK, Early
  <2>3. Unmixed(old[r]) /\ \A p \in Early : p \notin Shown(old[r])
    BY <1>0 DEF TextInv
  <2>4. Unmixed(new) /\ Shown(new) \subseteq Shown(old[r]) \cup {r}
    BY <2>1, <2>2, <2>3, AppendUnmixed
  <2> HIDE DEF new
  <2>5. Outputs' \subseteq Outputs \cup {new}
    BY <2>1 DEF Outputs
  <2> QED BY <2>2, <2>3, <2>4, <2>5, TextKept
<1>3. ASSUME NEW r \in Requests, StoreCut(r) PROVE TextInv'
  <2> DEFINE new == SubSeq(whole[r], length[r] - MaxOutputSize + 1, Len(whole[r]))
  <2>1. pc' = [pc EXCEPT ![r] = "done"] /\ old' = old /\ whole' = whole /\ latest' = new
    BY <1>3 DEF StoreCut
  <2>2. Unmixed(whole[r]) /\ \A p \in Early : p \notin Shown(whole[r])
    BY <1>0 DEF TextInv
  <2>3. Unmixed(new) /\ Shown(new) \subseteq Shown(whole[r])
    BY <1>3, <2>2, CutStored
  <2> HIDE DEF new
  <2>4. Early' \subseteq Early
    BY <2>1 DEF TypeOK, Early
  <2>5. Outputs' \subseteq Outputs \cup {new}
    BY <2>1 DEF Outputs
  <2> QED BY <2>2, <2>3, <2>4, <2>5, TextKept
<1>4. CASE MapFault \/ UNCHANGED vars
  <2>1. Outputs' = Outputs /\ Early' = Early
    BY <1>4 DEF MapFault, vars, Outputs, Early
  <2>2. Unmixed(latest) /\ \A p \in Early : p \notin Shown(latest)
    BY <1>0 DEF TextInv
  <2> QED BY <2>1, <2>2, TextKept
<1> QED BY <1>1, <1>2, <1>3, <1>4 DEF Next, Ended

------------------------------------------------------------------------------
LEMMA AloneInit == Init => AloneInv
BY DEF Init, AloneInv, Appending

\* Every step keeps what a request that is alone relies on.
LEMMA AloneStep == TypeOK /\ AloneInv /\ [Next]_vars => AloneInv'
<1> SUFFICES ASSUME TypeOK, AloneInv, [Next]_vars, NEW r \in Requests, (alone[r] /\ Appending(r))'
             PROVE  /\ \A q \in Requests : Appending(q)' => q = r
                    /\ latest' = IF pc'[r] = "append" THEN old'[r] ELSE old'[r] \o Text(r)
                    /\ pc'[r] \in {"cut", "has whole", "has length", "slice"}
                         => Len(latest') > MaxOutputSize
                    /\ pc'[r] \in {"has whole", "slice"} => whole'[r] = latest'
                    /\ pc'[r] \in {"has length", "slice"} => length'[r] = Len(latest')
  BY DEF AloneInv, Appending, Text
<1> USE DEF TypeOK, At, Goto, Appending
<1> DEFINE Goal ==
      /\ \A q \in Requests : Appending(q)' => q = r
      /\ latest' = IF pc'[r] = "append" THEN old'[r] ELSE old'[r] \o Text(r)
      /\ pc'[r] \in {"cut", "has whole", "has length", "slice"} => Len(latest') > MaxOutputSize
      /\ pc'[r] \in {"has whole", "slice"} => whole'[r] = latest'
      /\ pc'[r] \in {"has length", "slice"} => length'[r] = Len(latest')
<1>1. ASSUME NEW q \in Requests, ReadOld(q) PROVE Goal
  <2>1. /\ pc[q] = "start" /\ pc' = [pc EXCEPT ![q] = "append"]
        /\ old' = [old EXCEPT ![q] = latest] /\ latest' = latest
        /\ alone'[r] <=> /\ alone[r] /\ ~(r # q /\ Appending(r))
                         /\ q = r => \A p \in Requests \ {q} : ~Appending(p)
    BY <1>1 DEF ReadOld
  <2>2. q = r
    BY <2>1
  <2>3. \A p \in Requests \ {r} : ~Appending(p)
    BY <2>1, <2>2
  <2> QED BY <2>1, <2>2, <2>3
<1>2. ASSUME NEW q \in Requests, Appending(q), pc' = [pc EXCEPT ![q] = pc'[q]], alone' = alone
      PROVE  /\ q = r /\ alone[r]
             /\ \A p \in Requests : Appending(p)' => p = r
             /\ latest = IF pc[r] = "append" THEN old[r] ELSE old[r] \o Text(r)
             /\ pc[r] \in {"cut", "has whole", "has length", "slice"} => Len(latest) > MaxOutputSize
             /\ pc[r] \in {"has whole", "slice"} => whole[r] = latest
             /\ pc[r] \in {"has length", "slice"} => length[r] = Len(latest)
  <2>1. \A p \in Requests : p # q => pc'[p] = pc[p]
    BY <1>2
  <2>2. Appending(r) /\ alone[r]
    BY <1>2, <2>1
  <2>3. \A p \in Requests : Appending(p) => p = r
    BY <2>2 DEF AloneInv
  <2>4. q = r
    BY <1>2, <2>3
  <2> QED BY <2>1, <2>2, <2>3, <2>4 DEF AloneInv
<1>3. ASSUME NEW q \in Requests, AppendText(q) PROVE Goal
  <2>1. /\ pc[q] = "append" /\ pc' = [pc EXCEPT ![q] = "check"] /\ alone' = alone
        /\ latest' = old[q] \o Text(q) /\ old' = old
    BY <1>3 DEF AppendText
  <2> QED BY <1>2, <2>1
<1>4. ASSUME NEW q \in Requests, CheckSize(q) PROVE Goal
  <2>1. /\ pc[q] = "check" /\ alone' = alone /\ latest' = latest /\ old' = old
        /\ pc' = [pc EXCEPT ![q] = IF Len(latest) > MaxOutputSize THEN "cut" ELSE "done"]
    BY <1>4 DEF CheckSize
  <2>2. /\ q = r /\ \A p \in Requests : Appending(p)' => p = r
        /\ latest = old[r] \o Text(r)
    BY <1>2, <2>1
  <2> QED BY <2>1, <2>2
<1>5. ASSUME NEW q \in Requests, ReadWhole(q) PROVE Goal
  <2>1. /\ \/ pc[q] = "cut" /\ pc' = [pc EXCEPT ![q] = "has whole"]
           \/ pc[q] = "has length" /\ pc' = [pc EXCEPT ![q] = "slice"]
        /\ alone' = alone /\ latest' = latest /\ old' = old /\ length' = length
        /\ whole' = [whole EXCEPT ![q] = latest]
    BY <1>5 DEF ReadWhole
  <2> QED BY <1>2, <2>1
<1>6. ASSUME NEW q \in Requests, ReadLength(q) PROVE Goal
  <2>1. /\ \/ pc[q] = "cut" /\ pc' = [pc EXCEPT ![q] = "has length"]
           \/ pc[q] = "has whole" /\ pc' = [pc EXCEPT ![q] = "slice"]
        /\ alone' = alone /\ latest' = latest /\ old' = old /\ whole' = whole
        /\ length' = [length EXCEPT ![q] = Len(latest)]
    BY <1>6 DEF ReadLength
  <2> QED BY <1>2, <2>1
<1>7. ASSUME NEW q \in Requests, Panic(q) \/ StoreCut(q) PROVE Goal
  <2>1. pc[q] = "slice" /\ pc'[q] \in {"done", "panicked"} /\ alone' = alone
        /\ pc' = [pc EXCEPT ![q] = pc'[q]]
    BY <1>7 DEF Panic, StoreCut
  <2>2. q = r
    BY <1>2, <2>1
  <2> QED BY <2>1, <2>2
<1>8. CASE MapFault \/ UNCHANGED vars
  BY <1>8 DEF MapFault, vars, AloneInv
<1> QED BY <1>1, <1>3, <1>4, <1>5, <1>6, <1>7, <1>8 DEF Next, Ended

------------------------------------------------------------------------------
\* The inductive invariant.
IInv == TypeOK /\ TextInv /\ AloneInv

\* The inductive invariant holds of every command, size and limit: it is what the
\* accesses of appendOutput leave true between any two of them.
THEOREM OutputInvariance == Spec => []IInv
<1>1. Init => IInv
  BY TypeInit, TextInit, AloneInit DEF IInv
<1>2. IInv /\ [Next]_vars => IInv'
  BY TypeStep, TextStep, AloneStep DEF IInv
<1> QED BY <1>1, <1>2, PTL DEF Spec

\* Type correctness of appendOutput: no slice has a bound that is not a number.
THEOREM OutputTypes == Spec => []TypeOK
<1>1. IInv => TypeOK
  BY DEF IInv
<1> QED BY <1>1, OutputInvariance, PTL

\* However the accesses of appendOutput interleave, texts are never mixed.
THEOREM TextsStayWhole == Spec => []TextsWhole
<1>1. IInv => TextsWhole
  BY DEF IInv, TextInv, Outputs, TextsWhole
<1> QED BY <1>1, OutputInvariance, PTL

\* A request that is alone in appendOutput leaves the end of the old output and its text.
THEOREM AloneAppendsAll == Spec => AloneAppends
<1> DEFINE A == \A r \in Requests : Appending(r) /\ ~Appending(r)' /\ alone[r]
                  => pc'[r] = "done" /\ latest' = Kept(old[r] \o Text(r))
<1>1. ASSUME IInv, Next, NEW r \in Requests, Appending(r), ~Appending(r)', alone[r]
      PROVE  pc'[r] = "done" /\ latest' = Kept(old[r] \o Text(r))
  <2> USE DEF TypeOK, At, Goto, Appending
  <2>1. /\ latest = IF pc[r] = "append" THEN old[r] ELSE old[r] \o Text(r)
        /\ pc[r] = "slice" => /\ Len(latest) > MaxOutputSize
                              /\ whole[r] = latest /\ length[r] = Len(latest)
    BY <1>1 DEF IInv, AloneInv
  <2>2. /\ pc \in [Requests -> {"start", "append", "check", "cut", "has whole", "has length",
                                 "slice", "done", "panicked"}]
        /\ latest \in Seq(Requests) /\ length \in [Requests -> Nat]
    BY <1>1 DEF IInv
  <2>3. CASE CheckSize(r)
    <3>1. ~(Len(latest) > MaxOutputSize) /\ latest' = latest /\ pc'[r] = "done" /\ pc[r] = "check"
      BY <1>1, <2>2, <2>3 DEF CheckSize
    <3> QED BY <2>1, <3>1 DEF Kept
  <2>4. CASE Panic(r)
    <3>1. Len(latest) > MaxOutputSize /\ whole[r] = latest /\ length[r] = Len(latest)
      BY <2>1, <2>4 DEF Panic
    <3>2. Len(latest) \in Nat
      BY <2>2, LenProperties
    <3>3. MaxOutputSize \in Nat
      BY OutputAssumption
    <3> QED BY <2>4, <3>1, <3>2, <3>3 DEF Panic, InRange
  <2>5. CASE StoreCut(r)
    <3>1. /\ pc[r] = "slice" /\ pc'[r] = "done"
          /\ latest' = SubSeq(whole[r], length[r] - MaxOutputSize + 1, Len(whole[r]))
      BY <2>2, <2>5 DEF StoreCut
    <3> QED BY <2>1, <3>1 DEF Kept, Last
  <2>6. ASSUME NEW q \in Requests, q # r, pc' = [pc EXCEPT ![q] = pc'[q]] PROVE FALSE
    BY <1>1, <2>2, <2>6
  <2>7. ASSUME NEW q \in Requests, q # r,
               \/ ReadOld(q) \/ AppendText(q) \/ CheckSize(q) \/ ReadWhole(q)
               \/ ReadLength(q) \/ Panic(q) \/ StoreCut(q)
        PROVE  FALSE
    <3>1. pc' = [pc EXCEPT ![q] = pc'[q]]
      BY <2>2, <2>7 DEF ReadOld, AppendText, CheckSize, ReadWhole, ReadLength, Panic, StoreCut
    <3> QED BY <2>6, <2>7, <3>1
  <2>8. CASE ReadOld(r) \/ AppendText(r) \/ ReadWhole(r) \/ ReadLength(r)
    BY <1>1, <2>2, <2>8 DEF ReadOld, AppendText, ReadWhole, ReadLength
  <2>9. CASE MapFault \/ Ended
    BY <1>1, <2>9 DEF MapFault, Ended, vars
  <2> QED BY <1>1, <2>3, <2>4, <2>5, <2>7, <2>8, <2>9 DEF Next
<1>2. IInv /\ [Next]_vars => [A]_vars
  BY <1>1
<1>3. Spec => [][A]_vars
  BY <1>2, OutputInvariance, PTL DEF Spec
<1> QED BY <1>3 DEF AloneAppends
==============================================================================
