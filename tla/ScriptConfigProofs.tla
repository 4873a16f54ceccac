-------------------------- MODULE ScriptConfigProofs --------------------------
(***************************************************************************)
(* Proofs about ScriptConfig, for every set of configurations, with any    *)
(* number of scripts and try blocks.                                       *)
(***************************************************************************)
EXTENDS ScriptConfig, SequenceTheorems, WellFoundedInduction, TLAPS

\* What has been selected was validated as a whole, and its try blocks exist.
SelectInv ==
  /\ config \in Configs
  /\ selected \notin {Pending, Rejected} =>
       /\ AllValid
       /\ \A k \in DOMAIN selected :
            \/ selected[k].kind = "script"
            \/ \E j \in DOMAIN config.tries : selected[k] = TryUnit(config.tries[j].name)
  /\ PlainReferencesExist

\* The scripts and the try blocks of a configuration.
LEMMA Configuration ==
  ASSUME config \in Configs
  PROVE  /\ Len(config.tries) \in Nat /\ DOMAIN config.tries = 1 .. Len(config.tries)
         /\ Len(config.scripts) \in Nat /\ DOMAIN config.scripts = 1 .. Len(config.scripts)
BY NamesAssumption, LenProperties

\* SelectInSeq finds the first element that passes the test, if there is one.
LEMMA TryBlockExists ==
  ASSUME config \in Configs, NEW name,
         \E j \in DOMAIN config.tries : config.tries[j].name = name
  PROVE  \E j \in DOMAIN config.tries : TryBlock(name) = config.tries[j]
<1> DEFINE hits == {j \in 1 .. Len(config.tries) : config.tries[j].name = name}
<1>1. hits \subseteq Nat /\ hits # {} /\ hits \subseteq DOMAIN config.tries
  BY Configuration
<1>2. \E j \in hits : \A i \in hits : <<i, j>> \notin OpToRel(<, Nat)
  BY <1>1, NatLessThanWellFounded, WFMin, Zenon
<1>3. \E j \in hits : \A i \in hits : j <= i
  <2>1. PICK j \in hits : \A i \in hits : <<i, j>> \notin OpToRel(<, Nat)
    BY <1>2
  <2> HIDE DEF hits
  <2>2. \A i \in hits : ~(i < j)
    BY <1>1, <2>1, Zenon DEF OpToRel
  <2> QED BY <1>1, <2>2
<1>4. TryBlock(name) = config.tries[Min(hits)]
  BY <1>1 DEF TryBlock, SelectInSeq
<1> HIDE DEF hits
<1>5. Min(hits) \in hits
  BY <1>3 DEF Min
<1> QED BY <1>1, <1>4, <1>5

\* What was validated refers to names of scripts, as long as the references are plain.
LEMMA ReferencesAreNamed ==
  ASSUME config \in Configs, PlainReferences, AllValid, NEW j \in DOMAIN config.tries
  PROVE  {config.tries[j].script, config.tries[j].except} \ {NoName} \subseteq NamedScripts
<1> DEFINE try == config.tries[j]
<1>1. Valid(try, Known(j - 1)) /\ j \in 1 .. Len(config.tries) /\ Len(config.tries) \in Nat
  BY Configuration DEF AllValid
<1> SUFFICES ASSUME NEW name \in {try.script, try.except}, name # NoName
             PROVE  name \in NamedScripts
  OBVIOUS
<1>2. name \in Known(j - 1)
  BY <1>1 DEF Valid
<1>3. CASE \E i \in DOMAIN config.scripts : name = NameOf(i)
  BY <1>3 DEF PlainReferences, NameOf, NamedScripts
<1>4. CASE \E i \in 1 .. j - 1 : name = config.tries[i].name
  <2>1. PICK i \in 1 .. j - 1 : name = config.tries[i].name
    BY <1>4
  <2>2. i \in DOMAIN config.tries
    BY <1>1, <2>1, Configuration
  <2>3. config.tries[i] \in Range(config.tries) /\ try \in Range(config.tries)
    BY <2>2 DEF Range
  <2> QED BY <2>1, <2>3 DEF PlainReferences
<1> QED BY <1>2, <1>3, <1>4 DEF Known

LEMMA SelectKeeps ==
  ASSUME SelectInv, Select PROVE SelectInv'
<1>1. selected' = SelectScripts /\ UNCHANGED <<config, arguments, missing>>
  BY DEF Select
<1>2. ASSUME SelectScripts # Rejected
      PROVE  /\ AllValid
             /\ \A k \in DOMAIN SelectScripts :
                  \/ SelectScripts[k].kind = "script"
                  \/ \E j \in DOMAIN config.tries : SelectScripts[k] = TryUnit(config.tries[j].name)
  <2>1. AllValid
    BY <1>2 DEF SelectScripts
  <2>2. ASSUME NEW name
        PROVE  \/ Unit(name).kind = "script"
               \/ \E j \in DOMAIN config.tries : Unit(name) = TryUnit(config.tries[j].name)
    <3>1. CASE \E j \in DOMAIN config.tries : config.tries[j].name = name
      BY <3>1 DEF Unit
    <3>2. CASE ~\E j \in DOMAIN config.tries : config.tries[j].name = name
      BY <3>2 DEF Unit, Script
    <3> QED BY <3>1, <3>2
  <2>3. CASE SelectScripts = <<Script(1)>>
    BY <2>1, <2>3 DEF Script
  <2>4. CASE SelectScripts = [k \in DOMAIN arguments |-> Unit(arguments[k])]
    <3>1. DOMAIN SelectScripts = DOMAIN arguments
          /\ \A k \in DOMAIN arguments : SelectScripts[k] = Unit(arguments[k])
      BY <2>4
    <3> QED BY <2>1, <2>2, <3>1
  <2> QED BY <1>2, <2>3, <2>4 DEF SelectScripts
<1>3. PlainReferencesExist'
  BY <1>1 DEF SelectInv, PlainReferencesExist, PlainReferences
<1>4. AllValid' = AllValid
  BY <1>1 DEF AllValid, Valid, Known, NameOf
<1> HIDE DEF SelectScripts
<1> QED BY <1>1, <1>2, <1>3, <1>4 DEF SelectInv

LEMMA ExecuteKeeps ==
  ASSUME SelectInv, Execute PROVE SelectInv'
<1> DEFINE found == UNION {LookedUp(selected[k]) : k \in DOMAIN selected}
<1>1. UNCHANGED <<config, arguments, selected>> /\ selected \notin {Pending, Rejected}
  BY DEF Execute
<1>2. missing' = found \ NamedScripts
  BY DEF Execute
<1>3. ASSUME PlainReferences, NEW k \in DOMAIN selected
      PROVE  LookedUp(selected[k]) \subseteq NamedScripts
  <2>1. CASE selected[k].kind = "script"
    BY <2>1 DEF LookedUp
  <2>2. CASE \E j \in DOMAIN config.tries : selected[k] = TryUnit(config.tries[j].name)
    <3>1. /\ selected[k].kind = "try"
          /\ \E j \in DOMAIN config.tries : config.tries[j].name = selected[k].of
      BY <2>2 DEF TryUnit
    <3>2. PICK j \in DOMAIN config.tries : TryBlock(selected[k].of) = config.tries[j]
      BY <3>1, TryBlockExists DEF SelectInv
    <3>3. {config.tries[j].script, config.tries[j].except} \ {NoName} \subseteq NamedScripts
      BY <1>1, <1>3, ReferencesAreNamed DEF SelectInv
    <3> QED BY <3>1, <3>2, <3>3 DEF LookedUp
  <2> QED BY <1>1, <2>1, <2>2 DEF SelectInv
<1>4. PlainReferencesExist'
  <2>1. PlainReferences' = PlainReferences
    BY <1>1 DEF PlainReferences
  <2>2. ASSUME PlainReferences PROVE missing' = {}
    <3>1. found \subseteq NamedScripts
      <4> SUFFICES ASSUME NEW k \in DOMAIN selected, NEW name \in LookedUp(selected[k])
                   PROVE  name \in NamedScripts
        BY Zenon
      <4> QED BY <1>3, <2>2
    <3> HIDE DEF found
    <3> QED BY <1>2, <3>1
  <2> QED BY <2>1, <2>2 DEF PlainReferencesExist
<1>5. AllValid' = AllValid
  BY <1>1 DEF AllValid, Valid, Known, NameOf
<1> QED BY <1>1, <1>4, <1>5 DEF SelectInv

\* Whatever is executed was validated, and its try blocks are in the configuration.
THEOREM SelectInvariance == Spec => []SelectInv
<1>1. Init => SelectInv
  BY DEF Init, SelectInv, PlainReferencesExist
<1>2. SelectInv /\ [Next]_vars => SelectInv'
  <2> SUFFICES ASSUME SelectInv, [Next]_vars PROVE SelectInv'
    OBVIOUS
  <2>1. CASE UNCHANGED vars
    <3>1. UNCHANGED <<config, arguments, selected, missing>>
      BY <2>1 DEF vars
    <3>2. AllValid' = AllValid /\ PlainReferences' = PlainReferences
      BY <3>1 DEF AllValid, Valid, Known, NameOf, PlainReferences
    <3> QED BY <3>1, <3>2 DEF SelectInv, PlainReferencesExist
  <2> QED BY <2>1, SelectKeeps, ExecuteKeeps DEF Next, Finished
<1> QED BY <1>1, <1>2, PTL DEF Spec

\* PlainReferencesExist: what selectScripts accepts, parseTryBlock and handleTry find,
\* although the one looks names up in scriptMap and the others in the configuration.
THEOREM PlainReferencesAreFound == Spec => []PlainReferencesExist
<1>1. SelectInv => PlainReferencesExist
  BY DEF SelectInv
<1> QED BY <1>1, SelectInvariance, PTL

==============================================================================
