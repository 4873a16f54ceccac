----------------------------- MODULE ScriptConfig -----------------------------
(***************************************************************************)
(* The configuration of serial_expect: which scripts and try blocks a run  *)
(* executes, and how a try block finds its scripts.  The names are         *)
(* resolved twice: by selectScripts, which validates them, and by          *)
(* parseTryBlock and handleTry, which use them.                            *)
(***************************************************************************)
EXTENDS Naturals, Sequences, SequencesExt

CONSTANTS
  Names,          \* the names that occur, DefaultNames among them
  NoName,         \* an absent attribute
  DefaultNames,   \* the sequence "script1", "script2", ...
  Configs,        \* the configurations a run may be started with
  Arguments       \* the lists of names on the command line

ASSUME NamesAssumption ==
  /\ NoName \notin Names /\ DefaultNames \in Seq(Names)
  /\ Configs \subseteq
       [scripts: Seq(Names \cup {NoName}),
        tries: Seq([name: Names \cup {NoName}, script: Names \cup {NoName},
                    except: Names \cup {NoName}])]
  /\ \A c \in Configs : Len(c.scripts) <= Len(DefaultNames)
  /\ Arguments \subseteq Seq(Names)

VARIABLES
  config,     \* the scripts (their names) and the try blocks, in the order of the file
  arguments,  \* the names on the command line
  selected,   \* what selectScripts returned: a sequence of units, or Rejected
  missing     \* the names handleTry did not find while the selection was executed

vars == <<config, arguments, selected, missing>>

\* What can be executed: a script (by its place in the file) or a try block (by name).
Script(i) == [kind |-> "script", of |-> i]
TryUnit(name) == [kind |-> "try", of |-> name]
Rejected == <<[kind |-> "rejected"]>>
Pending == <<[kind |-> "pending"]>>

NameOf(i) == IF config.scripts[i] = NoName THEN DefaultNames[i] ELSE config.scripts[i]

\* The names in scriptMap, of the scripts and the first n try blocks.
Known(n) == {NameOf(i) : i \in DOMAIN config.scripts} \cup {config.tries[j].name : j \in 1..n}

\* What scriptMap has for a name in the end: a try block replaces a script, and of two
\* scripts with the same name it is the later one.
Unit(name) ==
  IF \E j \in DOMAIN config.tries : config.tries[j].name = name THEN TryUnit(name)
  ELSE Script(Max({i \in DOMAIN config.scripts : NameOf(i) = name}))

\* Mutant: the except script is not validated.
Valid_NoExcept(try, known) == try.name # NoName /\ try.script \in known

\* A try block needs a name, its script, and its except script if it has one.
Valid(try, known) ==
  /\ try.name # NoName
  /\ try.script \in known
  /\ try.except \in known \cup {NoName}

\* The try blocks are validated and added one after the other.
AllValid == \A k \in DOMAIN config.tries : Valid(config.tries[k], Known(k - 1))

\* Without arguments, the first script; a try block cannot be valid before it.
SelectScripts ==
  LET names == Known(Len(config.tries))
  IN  IF ~AllValid \/ names = {} THEN Rejected
      ELSE IF arguments = <<>> THEN <<Script(1)>>
      ELSE IF \A k \in DOMAIN arguments : arguments[k] \in names
        THEN [k \in DOMAIN arguments |-> Unit(arguments[k])]
        ELSE Rejected

\* parseTryBlock: the first try block of the name, and the scripts that have a name.
TryBlock(name) ==
  config.tries[SelectInSeq(config.tries, LAMBDA try : try.name = name)]
NamedScripts == {config.scripts[i] : i \in DOMAIN config.scripts} \ {NoName}

\* The scripts handleTry may look up when it executes the unit.
LookedUp(unit) ==
  IF unit.kind = "script" THEN {}
  ELSE {TryBlock(unit.of).script, TryBlock(unit.of).except} \ {NoName}

Init ==
  /\ config \in Configs /\ arguments \in Arguments
  /\ selected = Pending /\ missing = {}

Select ==
  /\ selected = Pending
  /\ selected' = SelectScripts
  /\ UNCHANGED <<config, arguments, missing>>

\* The try blocks are executed; each finds its scripts, or fails.
Execute ==
  /\ selected \notin {Pending, Rejected}
  /\ missing' = (UNION {LookedUp(selected[k]) : k \in DOMAIN selected}) \ NamedScripts
  /\ UNCHANGED <<config, arguments, selected>>

Finished == selected = Rejected /\ UNCHANGED vars

Next == Select \/ Execute \/ Finished
Spec == Init /\ [][Next]_vars

------------------------------------------------------------------------------
\* The comment in selectScripts says "Validate that referenced scripts exist": what is
\* accepted does not fail for want of a script, as long as every script has its name and
\* try blocks refer to scripts, not to other try blocks, however names are repeated,
\* shadowed or declared out of order.
PlainReferences ==
  /\ \A i \in DOMAIN config.scripts : config.scripts[i] # NoName
  /\ \A t, u \in Range(config.tries) :
       t.name \notin {u.script, u.except}
PlainReferencesExist == PlainReferences => missing = {}

==============================================================================
