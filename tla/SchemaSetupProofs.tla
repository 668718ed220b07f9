------------------------- MODULE SchemaSetupProofs -------------------------
(***************************************************************************)
(* Theorems of SchemaSetup, for any number of processes and of deaths.     *)
(*                                                                         *)
(* Every statement of a script commits on its own, so no transaction keeps *)
(* two commands apart.  What does is the first table of a script: only one *)
(* command can create it, the others end there for ever.  So at most one   *)
(* command is past its first table (a maker), the tables that are missing  *)
(* are exactly those still ahead of it, and it alone records the version.  *)
(***************************************************************************)
EXTENDS SchemaSetup, FiniteSetTheorems, SequenceTheorems, TLAPS

\* What is left of a script after some of its statements.
Rests(script) == {SubSeq(script, k, Len(script)) : k \in 1..(Len(script) + 1)}
BaseRests == Rests(BaseTables)
V2Rests == Rests(V2Tables)

\* Where a command can be, and what is then left of its script.
Waits == {"connect", "version", "begin", "commit"}
Fits(s) ==
  /\ s.at = "idle" <=> s.command = "none"
  /\ s.at \in {"idle", "record"} => s.script = <<>>
  /\ s.command = "init" => s.at \in {"connect", "begin", "commit", "script"} /\ s.script \in BaseRests
  /\ s.command = "init tables" => s.at \in {"script", "record"} /\ s.script \in V2Rests
  /\ s.command = "migrate" => s.at \in {"version", "begin", "commit", "script", "record"}
                              /\ s.script \in V2Rests
  /\ s.at \in Waits => s.script = IF s.command = "init" THEN BaseTables ELSE V2Tables
Steps == {s \in [at : {"idle", "script", "record"} \cup Waits,
                 command : {"none", "init", "init tables", "migrate"},
                 script : BaseRests \cup V2Rests] : Fits(s)}

\* The command has created the first table of its first script.
Makes(s) == \/ s.at = "record"
            \/ s.at = "script" /\ s.command = "init" /\ s.script # BaseTables
            \/ s.at = "script" /\ s.command = "init tables"
            \/ s.at = "script" /\ s.command = "migrate" /\ s.script # V2Tables

\* The tables that such a command has still to create.
Ahead(s) == Names(s.script) \cup IF s.command = "init" THEN Names(V2Tables) ELSE {}

OneOwner == lock = {} \/ \E p \in Processes : lock = {p} /\ At(p, "commit")
OneMaker == \A p, q \in Processes : Makes(op[p]) /\ Makes(op[q]) => p = q
MissingIsAhead == \A p \in Processes : Makes(op[p]) => tables = AllTables \ Ahead(op[p])

\* The versions recorded, the tables, and the commands agree.
RecordsAgree ==
  /\ records \in {<<>>, <<1>>, <<3>>}
  /\ records = <<3>> => tables = AllTables
  /\ records # <<>> => Names(BaseTables) \subseteq tables
  /\ "schema_metadata" \notin tables => tables = {}
  /\ records = <<1>> /\ "snapshots" \notin tables => tables = Names(BaseTables)
  /\ \A p \in Processes :
       /\ Makes(op[p]) => records = IF op[p].command = "migrate" THEN <<1>> ELSE <<>>
       /\ op[p].command = "migrate" /\ ~ At(p, "version") => records # <<>>

\* The inductive invariant.
SetupInvariant ==
  /\ tables \subseteq AllTables
  /\ tables # {} => exists
  /\ \A p \in Processes : op[p].command = "init" /\ ~ At(p, "connect") => exists
  /\ deaths \in 0..MaxDeaths
  /\ op \in [Processes -> Steps]
  /\ OneOwner /\ OneMaker /\ MissingIsAhead /\ RecordsAgree

-----------------------------------------------------------------------------
(* The scripts.                                                             *)

\* The statements of a script come one after the other; when no table comes
\* twice, none that is still to come has been made.
LEMMA RestOfScript ==
  ASSUME NEW S, NEW script \in Seq(S), Len(script) > 0,
         \A i, j \in 1..Len(script) : script[i] = script[j] => i = j,
         NEW s \in Rests(script)
  PROVE  /\ s \in Seq(S) /\ Names(s) \subseteq Names(script)
         /\ s # <<>> => /\ Tail(s) \in Rests(script) /\ Tail(s) # script
                        /\ Names(s) = {Head(s)} \cup Names(Tail(s))
                        /\ Head(s) \notin Names(Tail(s))
         /\ s # script => script[1] \notin Names(s)
         /\ s = script => s # <<>> /\ Head(s) = script[1]
         /\ s = <<>> => Names(s) = {}
<1> DEFINE n == Len(script)
<1>1. PICK k \in 1..(n + 1) : s = SubSeq(script, k, n)
  BY DEF Rests
<1>2. n \in Nat /\ k \in Nat
  BY <1>1
<1>3. /\ s \in Seq(S) /\ Len(s) = n - k + 1
      /\ \A i \in 1..Len(s) : s[i] = script[k + i - 1]
  <2>1. \A i \in k..n : script[i] \in S
    BY <1>2
  <2>2. /\ SubSeq(script, k, n) \in Seq(S)
        /\ Len(SubSeq(script, k, n)) = IF k <= n THEN n - k + 1 ELSE 0
        /\ \A i \in 1..(n - k + 1) : SubSeq(script, k, n)[i] = script[k + i - 1]
    BY <2>1, <1>2, SubSeqProperties
  <2> QED
    BY <2>2, <1>1, <1>2
<1>4. Names(s) = {script[i] : i \in k..n}
  <2>1. \A i \in 1..Len(s) : k + i - 1 \in k..n /\ s[i] = script[k + i - 1]
    BY <1>2, <1>3
  <2>2. \A i \in k..n : i - k + 1 \in 1..Len(s) /\ s[i - k + 1] = script[i]
    BY <1>2, <1>3
  <2>3. Names(s) = {s[i] : i \in 1..Len(s)}
    BY DEF Names
  <2>4. {s[i] : i \in 1..Len(s)} \subseteq {script[i] : i \in k..n}
    <3>1. ASSUME NEW i \in 1..Len(s) PROVE s[i] \in {script[j] : j \in k..n}
      BY <2>1
    <3> QED
      BY <3>1
  <2>5. {script[i] : i \in k..n} \subseteq {s[i] : i \in 1..Len(s)}
    <3>1. ASSUME NEW i \in k..n PROVE script[i] \in {s[j] : j \in 1..Len(s)}
      BY <2>2
    <3> QED
      BY <3>1
  <2> QED
    BY <2>3, <2>4, <2>5
<1>5. Names(script) = {script[i] : i \in 1..n}
  BY DEF Names
<1>6. Names(s) \subseteq Names(script)
  BY <1>1, <1>2, <1>4, <1>5
<1>7. ASSUME s # <<>>
      PROVE  /\ k <= n /\ Head(s) = script[k]
             /\ Tail(s) = SubSeq(script, k + 1, n)
  <2>1. k <= n
    BY <1>1, <1>2, <1>3, <1>7
  <2>2. k \in 1..n /\ n \in k..n
    BY <2>1, <1>2
  <2> QED
    BY <2>1, <2>2, <1>1, HeadTailOfSubSeq
<1>8. ASSUME s # <<>>
      PROVE  /\ Tail(s) \in Rests(script) /\ Tail(s) # script
             /\ Names(s) = {Head(s)} \cup Names(Tail(s))
             /\ Head(s) \notin Names(Tail(s))
  <2>1. Tail(s) \in Rests(script)
    <3>1. k + 1 \in 1..(n + 1)
      BY <1>2, <1>7, <1>8
    <3> QED
      BY <3>1, <1>7, <1>8 DEF Rests
  <2>2. /\ Tail(s) \in Seq(S) /\ Len(Tail(s)) = n - k
        /\ \A i \in 1..(n - k) : Tail(s)[i] = script[k + i]
    <3>1. /\ Tail(s) \in Seq(S) /\ Len(Tail(s)) = Len(s) - 1
          /\ \A i \in 1..Len(Tail(s)) : Tail(s)[i] = s[i + 1]
      BY <1>3, <1>8, HeadTailProperties
    <3>2. Len(Tail(s)) = n - k
      BY <3>1, <1>2, <1>3
    <3>3. ASSUME NEW i \in 1..(n - k) PROVE Tail(s)[i] = script[k + i]
      <4>1. i + 1 \in 1..Len(s) /\ k + (i + 1) - 1 = k + i
        BY <1>2, <1>3
      <4> QED
        BY <4>1, <3>1, <3>2, <1>3
    <3> QED
      BY <3>1, <3>2, <3>3
  <2>3. Tail(s) # script
    BY <2>2, <1>1, <1>2
  <2>4. Names(Tail(s)) = {script[i] : i \in (k + 1)..n}
    <3>1. /\ \A i \in 1..Len(Tail(s)) : k + i \in (k + 1)..n /\ Tail(s)[i] = script[k + i]
          /\ \A i \in (k + 1)..n : i - k \in 1..Len(Tail(s)) /\ Tail(s)[i - k] = script[i]
      BY <1>2, <1>7, <1>8, <2>2
    <3>2. Names(Tail(s)) = {Tail(s)[i] : i \in 1..Len(Tail(s))}
      BY DEF Names
    <3>3. {Tail(s)[i] : i \in 1..Len(Tail(s))} \subseteq {script[i] : i \in (k + 1)..n}
      <4>1. ASSUME NEW i \in 1..Len(Tail(s)) PROVE Tail(s)[i] \in {script[j] : j \in (k + 1)..n}
        BY <3>1
      <4> QED
        BY <4>1
    <3>4. ASSUME NEW i \in (k + 1)..n
          PROVE  script[i] \in {Tail(s)[j] : j \in 1..Len(Tail(s))}
      BY <3>1
    <3>5. {script[i] : i \in (k + 1)..n} \subseteq {Tail(s)[j] : j \in 1..Len(Tail(s))}
      BY <3>4
    <3> QED
      BY <3>2, <3>3, <3>5
  <2>5. {script[i] : i \in k..n} = {script[k]} \cup {script[i] : i \in (k + 1)..n}
    <3>1. k..n = {k} \cup (k + 1)..n
      BY <1>2, <1>7, <1>8
    <3> QED
      BY <3>1
  <2>6. script[k] \notin {script[i] : i \in (k + 1)..n}
    BY <1>1, <1>2, <1>7, <1>8
  <2> QED
    BY <2>1, <2>3, <2>4, <2>5, <2>6, <1>4, <1>7, <1>8
<1>9. ASSUME s # script PROVE script[1] \notin Names(s)
  <2>1. k # 1
    BY <1>1, <1>9, SubSeqFull
  <2> QED
    BY <2>1, <1>1, <1>2, <1>4
<1>10. s = script => s # <<>> /\ Head(s) = script[1]
  OBVIOUS
<1>11. s = <<>> => Names(s) = {}
  BY DEF Names
<1> QED
  BY <1>3, <1>6, <1>8, <1>9, <1>10, <1>11

\* What is left of a script is its end: with a table that is not left, those
\* before it are not left either.
LEMMA RestIsTheEnd ==
  ASSUME NEW S, NEW script \in Seq(S), NEW s \in Rests(script),
         \A i, j \in 1..Len(script) : script[i] = script[j] => i = j,
         NEW k \in 1..Len(script), NEW l \in 1..Len(script), k < l, script[l] \notin Names(s)
  PROVE  script[k] \notin Names(s)
<1> DEFINE n == Len(script)
<1>1. PICK m \in 1..(n + 1) : s = SubSeq(script, m, n)
  BY DEF Rests
<1>2. n \in Nat /\ m \in Nat /\ m >= 1
  BY <1>1
<1>3. \A i \in m..n : script[i] \in S
  BY <1>2
<1>4. /\ Len(SubSeq(script, m, n)) = IF m <= n THEN n - m + 1 ELSE 0
      /\ \A i \in 1..(n - m + 1) : SubSeq(script, m, n)[i] = script[m + i - 1]
  BY <1>2, <1>3, SubSeqProperties
<1>5. /\ Len(s) = n - m + 1
      /\ \A i \in 1..Len(s) : s[i] = script[m + i - 1]
  BY <1>1, <1>2, <1>4
<1>6. ASSUME NEW i \in 1..Len(s), s[i] = script[k]
      PROVE  FALSE
  <2>1. m + i - 1 \in 1..n /\ script[m + i - 1] = script[k]
    BY <1>2, <1>5, <1>6
  <2>2. k = m + i - 1
    BY <2>1
  <2>3. l - m + 1 \in 1..Len(s)
    BY <1>2, <1>5, <2>2
  <2>4. s[l - m + 1] = script[l]
    BY <1>2, <1>5, <2>3
  <2> QED
    BY <2>3, <2>4 DEF Names
<1> QED
  BY <1>6 DEF Names

\* A script is the first of what is left of it, nothing the last.
LEMMA RestsOfScript ==
  ASSUME NEW S, NEW script \in Seq(S), Len(script) > 0
  PROVE  script \in Rests(script) /\ <<>> \in Rests(script) /\ script # <<>>
<1> DEFINE n == Len(script)
<1>1. n \in Nat /\ n > 0
  OBVIOUS
<1>2. SubSeq(script, 1, n) = script
  BY SubSeqFull
<1>3. SubSeq(script, n + 1, n) = <<>>
  BY <1>1, SubSeqEmpty
<1>4. 1 \in 1..(n + 1) /\ n + 1 \in 1..(n + 1)
  BY <1>1
<1> QED
  BY <1>1, <1>2, <1>3, <1>4 DEF Rests

LEMMA Scripts ==
  /\ BaseTables \in Seq(AllTables) /\ Len(BaseTables) = 3 /\ BaseTables[1] = "schema_metadata"
  /\ V2Tables \in Seq(AllTables) /\ Len(V2Tables) = 4 /\ V2Tables[1] = "snapshots"
  /\ \A i, j \in 1..3 : BaseTables[i] = BaseTables[j] => i = j
  /\ \A i, j \in 1..4 : V2Tables[i] = V2Tables[j] => i = j
  /\ Names(BaseTables) \cap Names(V2Tables) = {}
  /\ "schema_metadata" \in Names(BaseTables) /\ "snapshots" \in Names(V2Tables)
<1>1. BaseTables[1] = "schema_metadata" /\ BaseTables[2] = "runs" /\ BaseTables[3] = "evidence_records"
  BY DEF BaseTables
<1>2. Len(BaseTables) = 3 /\ BaseTables \in Seq({"schema_metadata", "runs", "evidence_records"})
  BY DEF BaseTables
<1>3. V2Tables[1] = "snapshots" /\ V2Tables[2] = "snapshot_entries"
  BY DEF V2Tables
<1>4. V2Tables[3] = "snapshot_diffs" /\ V2Tables[4] = "snapshot_diff_entries"
  BY DEF V2Tables
<1>5. Len(V2Tables) = 4
  BY DEF V2Tables
<1>6. V2Tables \in Seq({"snapshots", "snapshot_entries", "snapshot_diffs", "snapshot_diff_entries"})
  BY DEF V2Tables
<1>7. 1..3 = {1, 2, 3} /\ 1..4 = {1, 2, 3, 4}
  OBVIOUS
<1>8. Names(BaseTables) = {"schema_metadata", "runs", "evidence_records"}
  BY <1>1, <1>2, <1>7 DEF Names
<1>9. Names(V2Tables) = {"snapshots", "snapshot_entries", "snapshot_diffs", "snapshot_diff_entries"}
  BY <1>3, <1>4, <1>5, <1>7 DEF Names
<1>10. Names(BaseTables) \subseteq AllTables /\ Names(V2Tables) \subseteq AllTables
  BY DEF AllTables
<1>11. BaseTables \in Seq(AllTables)
  BY <1>2, <1>8, <1>10
<1>12. V2Tables \in Seq(AllTables)
  BY <1>6, <1>9, <1>10
<1> QED
  BY <1>1, <1>2, <1>3, <1>4, <1>5, <1>7, <1>8, <1>9, <1>11, <1>12

LEMMA BaseRest ==
  ASSUME NEW s \in BaseRests
  PROVE  /\ Names(s) \subseteq Names(BaseTables)
         /\ s # <<>> => /\ Tail(s) \in BaseRests /\ Tail(s) # BaseTables
                        /\ Names(s) = {Head(s)} \cup Names(Tail(s)) /\ Head(s) \notin Names(Tail(s))
         /\ s # BaseTables => "schema_metadata" \notin Names(s)
         /\ s = BaseTables => s # <<>> /\ Head(s) = "schema_metadata"
         /\ s = <<>> => Names(s) = {}
<1>1. /\ BaseTables \in Seq(AllTables) /\ Len(BaseTables) > 0
      /\ \A i, j \in 1..Len(BaseTables) : BaseTables[i] = BaseTables[j] => i = j
      /\ BaseTables[1] = "schema_metadata"
  BY Scripts
<1>2. s \in Rests(BaseTables)
  BY DEF BaseRests
<1>3. /\ Names(s) \subseteq Names(BaseTables)
      /\ s # <<>> => /\ Tail(s) \in Rests(BaseTables) /\ Tail(s) # BaseTables
                     /\ Names(s) = {Head(s)} \cup Names(Tail(s))
                     /\ Head(s) \notin Names(Tail(s))
      /\ s # BaseTables => BaseTables[1] \notin Names(s)
      /\ s = BaseTables => s # <<>> /\ Head(s) = BaseTables[1]
      /\ s = <<>> => Names(s) = {}
  BY <1>1, <1>2, RestOfScript, ZenonT(60)
<1> QED
  BY <1>1, <1>3 DEF BaseRests

LEMMA V2Rest ==
  ASSUME NEW s \in V2Rests
  PROVE  /\ Names(s) \subseteq Names(V2Tables)
         /\ s # <<>> => /\ Tail(s) \in V2Rests /\ Tail(s) # V2Tables
                        /\ Names(s) = {Head(s)} \cup Names(Tail(s)) /\ Head(s) \notin Names(Tail(s))
         /\ s # V2Tables => "snapshots" \notin Names(s)
         /\ s = V2Tables => s # <<>> /\ Head(s) = "snapshots"
         /\ s = <<>> => Names(s) = {}
<1>1. /\ V2Tables \in Seq(AllTables) /\ Len(V2Tables) > 0
      /\ \A i, j \in 1..Len(V2Tables) : V2Tables[i] = V2Tables[j] => i = j
      /\ V2Tables[1] = "snapshots"
  BY Scripts
<1>2. s \in Rests(V2Tables)
  BY DEF V2Rests
<1>3. /\ Names(s) \subseteq Names(V2Tables)
      /\ s # <<>> => /\ Tail(s) \in Rests(V2Tables) /\ Tail(s) # V2Tables
                     /\ Names(s) = {Head(s)} \cup Names(Tail(s))
                     /\ Head(s) \notin Names(Tail(s))
      /\ s # V2Tables => V2Tables[1] \notin Names(s)
      /\ s = V2Tables => s # <<>> /\ Head(s) = V2Tables[1]
      /\ s = <<>> => Names(s) = {}
  BY <1>1, <1>2, RestOfScript, ZenonT(60)
<1> QED
  BY <1>1, <1>3 DEF V2Rests

LEMMA FirstRests ==
  /\ BaseTables \in BaseRests /\ V2Tables \in V2Rests
  /\ <<>> \in BaseRests /\ <<>> \in V2Rests
  /\ BaseTables # <<>> /\ V2Tables # <<>>
<1>1. /\ BaseTables \in Seq(AllTables) /\ Len(BaseTables) > 0
      /\ V2Tables \in Seq(AllTables) /\ Len(V2Tables) > 0
  BY Scripts
<1> QED
  BY <1>1, RestsOfScript DEF BaseRests, V2Rests

-----------------------------------------------------------------------------
(* The steps.                                                               *)

\* A maker's missing tables are its own, so the base tables are there, or
\* the first of them.
LEMMA MakerHasFirst ==
  ASSUME SetupInvariant, NEW p \in Processes, Makes(op[p])
  PROVE  /\ "schema_metadata" \in tables
         /\ op[p].command = "migrate" => "snapshots" \in tables
         /\ op[p].command = "init tables" => Names(BaseTables) \subseteq tables
<1>1. op[p] \in Steps /\ tables = AllTables \ Ahead(op[p])
  BY DEF SetupInvariant, MissingIsAhead
<1>2. /\ op[p].command = "init" => op[p].script \in BaseRests /\ op[p].script # BaseTables
      /\ op[p].command \in {"init tables", "migrate"} => op[p].script \in V2Rests
      /\ op[p].command = "migrate" => op[p].script # V2Tables
      /\ op[p].command \in {"init", "init tables", "migrate"}
  BY <1>1, FirstRests DEF Steps, Fits, Waits, Makes
<1>3. /\ Names(V2Tables) \subseteq AllTables /\ Names(BaseTables) \subseteq AllTables
      /\ Names(BaseTables) \cap Names(V2Tables) = {}
      /\ "schema_metadata" \in Names(BaseTables) /\ "snapshots" \in Names(V2Tables)
  BY Scripts DEF AllTables
<1>4. CASE op[p].command = "init"
  <2>1. "schema_metadata" \notin Names(op[p].script)
    BY <1>2, <1>4, BaseRest
  <2> QED
    BY <1>1, <1>3, <1>4, <2>1 DEF Ahead
<1>5. CASE op[p].command \in {"init tables", "migrate"}
  <2>1. /\ Names(op[p].script) \subseteq Names(V2Tables)
        /\ op[p].script # V2Tables => "snapshots" \notin Names(op[p].script)
    BY <1>2, <1>5, V2Rest
  <2>2. Ahead(op[p]) = Names(op[p].script)
    BY <1>5 DEF Ahead
  <2> QED
    BY <1>1, <1>2, <1>3, <1>5, <2>1, <2>2
<1> QED
  BY <1>2, <1>4, <1>5

\* A command that goes on, ends or waits without becoming a maker.
LEMMA StaysAside ==
  ASSUME SetupInvariant, NEW p \in Processes, NEW s \in Steps, ~ Makes(s),
         op' = [op EXCEPT ![p] = s], UNCHANGED <<tables, records>>,
         s.command = "migrate" /\ s.at # "version" => records # <<>>
  PROVE  OneMaker' /\ MissingIsAhead' /\ RecordsAgree' /\ op' \in [Processes -> Steps]
<1>1. op \in [Processes -> Steps]
  BY DEF SetupInvariant
<1>2. \A q \in Processes : op'[q] = IF q = p THEN s ELSE op[q]
  BY <1>1
<1>3. \A q \in Processes : Makes(op'[q]) => Makes(op[q]) /\ op'[q] = op[q]
  BY <1>2
<1>4. OneMaker'
  BY <1>3 DEF SetupInvariant, OneMaker
<1>5. MissingIsAhead'
  BY <1>3 DEF SetupInvariant, MissingIsAhead
<1>6. RecordsAgree'
  BY <1>2, <1>3 DEF SetupInvariant, RecordsAgree, At
<1> QED
  BY <1>1, <1>4, <1>5, <1>6

\* A maker that goes on without making a table.
LEMMA MakerGoesOn ==
  ASSUME SetupInvariant, NEW p \in Processes, NEW s \in Steps, Makes(op[p]), Makes(s),
         Ahead(s) = Ahead(op[p]), s.command = "migrate" <=> op[p].command = "migrate",
         op' = [op EXCEPT ![p] = s], UNCHANGED <<tables, records>>
  PROVE  OneMaker' /\ MissingIsAhead' /\ RecordsAgree' /\ op' \in [Processes -> Steps]
<1>1. op \in [Processes -> Steps]
  BY DEF SetupInvariant
<1>2. \A q \in Processes : op'[q] = IF q = p THEN s ELSE op[q]
  BY <1>1
<1>3. OneMaker'
  BY <1>2 DEF SetupInvariant, OneMaker
<1>4. MissingIsAhead'
  BY <1>2 DEF SetupInvariant, MissingIsAhead
<1>5. Makes(op[p]) => ~ (op[p].at = "version")
  BY DEF Makes
<1>6. RecordsAgree'
  BY <1>2, <1>5 DEF SetupInvariant, RecordsAgree, At
<1> QED
  BY <1>1, <1>3, <1>4, <1>6

\* A command has these three fields.
LEMMA StepFields ==
  ASSUME NEW s \in Steps
  PROVE  /\ s = [at |-> s.at, command |-> s.command, script |-> s.script]
         /\ \A x : /\ [s EXCEPT !.at = x] = [at |-> x, command |-> s.command, script |-> s.script]
                   /\ [s EXCEPT !.script = x] = [at |-> s.at, command |-> s.command, script |-> x]
<1>1. PICK a, c, k : s = [at |-> a, command |-> c, script |-> k]
  BY DEF Steps
<1> QED
  BY <1>1

\* A statement of a script.
LEMMA CreateTableStep ==
  ASSUME SetupInvariant, NEW p \in Processes, CreateTable(p)
  PROVE  SetupInvariant'
<1> DEFINE s == op[p]
           t == [s EXCEPT !.script = Tail(s.script)]
<1>1. /\ op \in [Processes -> Steps] /\ s \in Steps
      /\ s.at = "script" /\ s.script # <<>> /\ lock = {} /\ lock' = lock
      /\ exists' = exists /\ records' = records /\ deaths' = deaths
  BY DEF SetupInvariant, CreateTable, At
<1>2. /\ s.command \in {"init", "init tables", "migrate"}
      /\ s.command = "init" => s.script \in BaseRests
      /\ s.command # "init" => s.script \in V2Rests
  BY <1>1 DEF Steps, Fits
<1>3. OneOwner'
  BY <1>1 DEF OneOwner
<1>4. CASE Head(s.script) \in tables
  <2>1. op' = [op EXCEPT ![p] = Idle] /\ UNCHANGED <<tables, records>>
    BY <1>1, <1>4 DEF CreateTable, Finish
  <2>2. Idle \in Steps /\ ~ Makes(Idle) /\ Idle.command = "none"
    BY FirstRests DEF Steps, Fits, Idle, Waits, Makes
  <2>3. OneMaker' /\ MissingIsAhead' /\ RecordsAgree' /\ op' \in [Processes -> Steps]
    BY <2>1, <2>2, StaysAside
  <2>4. \A q \in Processes : op'[q].command = "init" /\ ~ At(q, "connect")' => exists'
    BY <1>1, <2>1, <2>2 DEF SetupInvariant, At
  <2> QED
    BY <1>1, <1>3, <2>1, <2>3, <2>4 DEF SetupInvariant
<1>5. CASE Head(s.script) \notin tables
  <2>1. op' = [op EXCEPT ![p] = t] /\ tables' = tables \cup {Head(s.script)}
    BY <1>1, <1>5 DEF CreateTable
  <2>2. /\ t.at = "script" /\ t.command = s.command /\ t.script = Tail(s.script)
        /\ t = [at |-> "script", command |-> s.command, script |-> Tail(s.script)]
    <3>1. s \in Steps /\ s.at = "script"
      BY <1>1
    <3>2. t = [at |-> s.at, command |-> s.command, script |-> Tail(s.script)]
      BY <3>1, StepFields
    <3> HIDE DEF t
    <3> QED
      BY <3>1, <3>2
  <2>3. /\ s.command = "init" => Tail(s.script) \in BaseRests /\ Tail(s.script) # BaseTables
        /\ s.command # "init" => Tail(s.script) \in V2Rests /\ Tail(s.script) # V2Tables
        /\ Names(s.script) = {Head(s.script)} \cup Names(Tail(s.script))
        /\ Head(s.script) \notin Names(Tail(s.script))
    BY <1>1, <1>2, BaseRest, V2Rest
  <2>4. t \in Steps /\ Makes(t)
    BY <1>2, <2>2, <2>3 DEF Steps, Fits, Waits, Makes
  <2>5. /\ Names(V2Tables) \subseteq AllTables /\ Names(BaseTables) \subseteq AllTables
        /\ Names(BaseTables) \cap Names(V2Tables) = {}
        /\ AllTables = Names(BaseTables) \cup Names(V2Tables)
    BY Scripts DEF AllTables
  <2>6. Head(s.script) \in AllTables
    BY <1>1, <1>2, <2>3, <2>5, BaseRest, V2Rest
  \* Nobody else has made a table of this script, and the tables before it are there.
  <2>7. /\ \A q \in Processes : Makes(op[q]) => q = p
        /\ tables = AllTables \ Ahead(s)
        /\ records = IF s.command = "migrate" THEN <<1>> ELSE <<>>
    <3>1. CASE Makes(s)
      BY <3>1, <1>1 DEF SetupInvariant, OneMaker, MissingIsAhead, RecordsAgree
    <3>2. CASE ~ Makes(s) /\ s.command = "init"
      <4>1. s.script = BaseTables /\ Head(s.script) = "schema_metadata"
        BY <3>2, <1>1, <1>2, BaseRest DEF Makes
      <4>2. tables = {} /\ records = <<>>
        BY <4>1, <1>5, Scripts DEF SetupInvariant, RecordsAgree
      <4>3. Ahead(s) = AllTables
        BY <4>1, <3>2, <2>5 DEF Ahead
      <4> QED
        BY <3>2, <4>2, <4>3, MakerHasFirst
    <3>3. CASE ~ Makes(s) /\ s.command = "migrate"
      <4>1. s.script = V2Tables /\ Head(s.script) = "snapshots"
        BY <3>3, <1>1, <1>2, V2Rest DEF Makes
      <4>2. records # <<>>
        BY <1>1, <3>3 DEF SetupInvariant, RecordsAgree, At
      <4>3. records = <<1>> /\ tables = Names(BaseTables)
        BY <4>1, <4>2, <1>5, Scripts DEF SetupInvariant, RecordsAgree, AllTables
      <4>4. Ahead(s) = Names(V2Tables)
        BY <4>1, <3>3 DEF Ahead
      <4>5. ASSUME NEW q \in Processes, Makes(op[q]) PROVE FALSE
        <5>1. op[q].command = "migrate"
          BY <4>2, <4>5 DEF SetupInvariant, RecordsAgree
        <5> QED
          BY <5>1, <4>1, <4>5, <1>5, MakerHasFirst
      <4> QED
        BY <3>3, <4>3, <4>4, <4>5, <2>5
    <3> QED
      BY <3>1, <3>2, <3>3, <1>1, <1>2 DEF Makes
  <2>8. \A q \in Processes : op'[q] = IF q = p THEN t ELSE op[q]
    BY <1>1, <2>1
  <2>9. OneMaker'
    BY <2>7, <2>8 DEF OneMaker
  <2>10. tables' = AllTables \ Ahead(t)
    <3>1. /\ Ahead(s) = {Head(s.script)} \cup Ahead(t)
          /\ Head(s.script) \notin Ahead(t)
      <4>1. CASE s.command = "init"
        <5>1. Head(s.script) \in Names(BaseTables)
          BY <4>1, <1>1, <1>2, <2>3, BaseRest
        <5> QED
          BY <4>1, <5>1, <2>2, <2>3, <2>5 DEF Ahead
      <4>2. CASE s.command # "init"
        BY <4>2, <2>2, <2>3 DEF Ahead
      <4> QED
        BY <4>1, <4>2
    <3> QED
      BY <3>1, <2>1, <2>6, <2>7
  <2>11. MissingIsAhead'
    BY <2>7, <2>8, <2>10 DEF MissingIsAhead
  <2>12. RecordsAgree'
    <3>1. tables \subseteq tables' /\ tables' \subseteq AllTables
      BY <2>1, <2>6 DEF SetupInvariant
    <3>2. /\ records' \in {<<>>, <<1>>, <<3>>} /\ records' # <<3>>
          /\ records' # <<>> => Names(BaseTables) \subseteq tables'
      BY <1>1, <2>7, <3>1 DEF SetupInvariant, RecordsAgree
    <3>3. "schema_metadata" \in tables' /\ (records' = <<1>> => "snapshots" \in tables')
      <4>1. CASE s.command = "init"
        <5>1. "schema_metadata" \notin Names(Tail(s.script))
          BY <4>1, <2>3, BaseRest
        <5> QED
          BY <4>1, <5>1, <1>1, <2>2, <2>5, <2>7, <2>10, Scripts DEF Ahead
      <4>2. CASE s.command # "init"
        <5>1. Names(Tail(s.script)) \subseteq Names(V2Tables) /\ "snapshots" \notin Names(Tail(s.script))
          BY <4>2, <2>3, V2Rest
        <5> QED
          BY <4>2, <5>1, <1>1, <2>2, <2>5, <2>10, Scripts DEF Ahead
      <4> QED
        BY <4>1, <4>2
    <3>4. \A q \in Processes :
            /\ Makes(op'[q]) => records' = IF op'[q].command = "migrate" THEN <<1>> ELSE <<>>
            /\ op'[q].command = "migrate" /\ ~ (op'[q].at = "version") => records' # <<>>
      <4>1. ASSUME NEW q \in Processes, q # p
            PROVE  op'[q].command = "migrate" /\ ~ (op'[q].at = "version") => records' # <<>>
        BY <4>1, <1>1, <2>8 DEF SetupInvariant, RecordsAgree, At
      <4>2. op'[p] = t /\ records' = IF t.command = "migrate" THEN <<1>> ELSE <<>>
        BY <1>1, <2>2, <2>7, <2>8
      <4> QED
        BY <4>1, <4>2, <2>7, <2>8
    <3> QED
      BY <3>2, <3>3, <3>4 DEF RecordsAgree, At
  <2>13. exists'
    <3>1. CASE s.command = "init"
      BY <3>1, <1>1 DEF SetupInvariant, At
    <3>2. CASE s.command = "init tables"
      <4>1. "schema_metadata" \in tables
        BY <3>2, <1>1, MakerHasFirst DEF Makes
      <4> QED
        BY <4>1, <1>1 DEF SetupInvariant
    <3>3. CASE s.command = "migrate"
      <4>1. Names(BaseTables) \subseteq tables
        BY <3>3, <1>1 DEF SetupInvariant, RecordsAgree, At
      <4> QED
        BY <4>1, <1>1, Scripts DEF SetupInvariant
    <3> QED
      BY <3>1, <3>2, <3>3, <1>2
  <2>14. op' \in [Processes -> Steps] /\ tables' \subseteq AllTables
    BY <1>1, <2>1, <2>4, <2>6 DEF SetupInvariant
  <2> QED
    BY <1>1, <1>3, <2>9, <2>11, <2>12, <2>13, <2>14 DEF SetupInvariant
<1> QED
  BY <1>4, <1>5

\* The insert or the update of the version.
LEMMA RecordStep ==
  ASSUME SetupInvariant, NEW p \in Processes, Record(p)
  PROVE  SetupInvariant'
<1> DEFINE s == op[p]
<1>1. /\ op \in [Processes -> Steps] /\ s \in Steps /\ s.at = "record"
      /\ lock = {} /\ lock' = {} /\ tables' = tables /\ exists' = exists /\ deaths' = deaths
      /\ op' = [op EXCEPT ![p] = Idle]
  BY DEF SetupInvariant, Record, At, Finish
<1>2. s.script = <<>> /\ s.command \in {"init tables", "migrate"}
  BY <1>1 DEF Steps, Fits, Waits
<1>3. tables = AllTables
  <2>1. tables = AllTables \ Ahead(s)
    BY <1>1 DEF SetupInvariant, MissingIsAhead, Makes
  <2>2. Ahead(s) = {}
    BY <1>2, FirstRests, BaseRest DEF Ahead
  <2> QED
    BY <2>1, <2>2
<1>4. records' = <<3>>
  <2>1. CASE s.command = "migrate"
    <3>1. records = <<1>>
      BY <1>1, <2>1 DEF SetupInvariant, RecordsAgree, Makes
    <3>2. records' = [k \in 1..1 |-> 3]
      BY <2>1, <3>1 DEF Record, SCHEMA_VERSION
    <3> QED
      BY <3>2
  <2>2. CASE s.command = "init tables"
    <3>1. records = <<>>
      BY <1>1, <2>2 DEF SetupInvariant, RecordsAgree, Makes
    <3> QED
      <4>1. records' = Append(<<>>, 3)
        BY <2>2, <3>1 DEF Record, SCHEMA_VERSION
      <4> QED
        BY <4>1
  <2> QED
    BY <1>2, <2>1, <2>2
<1>5. \A q \in Processes : ~ Makes(op'[q])
  <2>1. \A q \in Processes : Makes(op[q]) => q = p
    BY <1>1 DEF SetupInvariant, OneMaker, Makes
  <2> QED
    BY <1>1, <2>1 DEF Idle, Makes
<1>6. Idle \in Steps /\ Idle.command = "none"
  BY FirstRests DEF Steps, Fits, Idle, Waits
<1>7. RecordsAgree'
  <2>1. Names(BaseTables) \subseteq AllTables /\ "schema_metadata" \in AllTables
    BY Scripts DEF AllTables
  <2>2. <<3>> # <<>> /\ <<3>> # <<1>>
    OBVIOUS
  <2> QED
    BY <1>1, <1>3, <1>4, <1>5, <2>1, <2>2 DEF RecordsAgree
<1>8. OneOwner' /\ OneMaker' /\ MissingIsAhead'
  BY <1>1, <1>5 DEF OneOwner, OneMaker, MissingIsAhead
<1>9. \A q \in Processes : op'[q].command = "init" /\ ~ At(q, "connect")' => exists'
  BY <1>1, <1>6 DEF SetupInvariant, At
<1> QED
  BY <1>1, <1>6, <1>7, <1>8, <1>9 DEF SetupInvariant

\* The end of a script.
LEMMA ScriptEndsStep ==
  ASSUME SetupInvariant, NEW p \in Processes, ScriptEnds(p)
  PROVE  SetupInvariant'
<1> DEFINE s == op[p]
<1>1. /\ op \in [Processes -> Steps] /\ s \in Steps /\ s.at = "script" /\ s.script = <<>>
      /\ UNCHANGED <<exists, tables, records, lock, deaths>>
  BY DEF SetupInvariant, ScriptEnds, At
<1>2. s.command \in {"init", "init tables", "migrate"} /\ Makes(s)
  BY <1>1, FirstRests DEF Steps, Fits, Makes
<1>3. Names(<<>>) = {}
  BY FirstRests, BaseRest
<1>4. CASE s.command = "init"
  <2> DEFINE t == [at |-> "script", command |-> "init tables", script |-> V2Tables]
  <2>1. op' = [op EXCEPT ![p] = t]
    BY <1>1, <1>4 DEF ScriptEnds, Run
  <2>2. t \in Steps /\ Makes(t)
    BY FirstRests DEF Steps, Fits, Waits, Makes
  <2>3. Ahead(t) = Ahead(s)
    BY <1>1, <1>3, <1>4 DEF Ahead
  <2>4. OneMaker' /\ MissingIsAhead' /\ RecordsAgree' /\ op' \in [Processes -> Steps]
    <3> HIDE DEF t
    <3>1. ~ (t.command = "migrate")
      BY DEF t
    <3> QED
      BY <3>1, <1>1, <1>2, <1>4, <2>1, <2>2, <2>3, MakerGoesOn
  <2>5. /\ \A q \in Processes : op'[q].command = "init" /\ ~ At(q, "connect")' => exists'
        /\ OneOwner'
    BY <1>1, <2>1 DEF SetupInvariant, At, OneOwner
  <2> QED
    BY <1>1, <2>4, <2>5 DEF SetupInvariant
<1>5. CASE s.command # "init"
  <2> DEFINE t == [s EXCEPT !.at = "record"]
  <2>1. op' = [op EXCEPT ![p] = t]
    BY <1>1, <1>5 DEF ScriptEnds, Goto
  <2>2. t = [at |-> "record", command |-> s.command, script |-> <<>>]
    BY <1>1, StepFields
  <2>3. t \in Steps /\ Makes(t)
    BY <1>2, <1>5, <2>2, FirstRests DEF Steps, Fits, Waits, Makes
  <2>4. Ahead(t) = Ahead(s)
    BY <1>1, <1>5, <2>2 DEF Ahead
  <2>5. OneMaker' /\ MissingIsAhead' /\ RecordsAgree' /\ op' \in [Processes -> Steps]
    <3>1. t.command = s.command
      BY <2>2
    <3> HIDE DEF t
    <3> QED
      BY <3>1, <1>1, <1>2, <2>1, <2>3, <2>4, MakerGoesOn
  <2>6. /\ \A q \in Processes : op'[q].command = "init" /\ ~ At(q, "connect")' => exists'
        /\ OneOwner'
    BY <1>1, <1>5, <2>1, <2>2 DEF SetupInvariant, At, OneOwner
  <2> QED
    BY <1>1, <2>5, <2>6 DEF SetupInvariant
<1> QED
  BY <1>4, <1>5

\* The commands begin, take the lock and leave it, give up or die: none of
\* this makes a table or a maker.
LEMMA OtherSteps ==
  ASSUME SetupInvariant, NEW p \in Processes, DeathsAreBounded,
         \/ InitStorage(p) \/ Connect(p) \/ Begin(p) \/ ScriptCommits(p)
         \/ Migrate(p) \/ ReadVersion(p) \/ GiveUp(p) \/ Die(p)
  PROVE  SetupInvariant'
<1> DEFINE s == op[p]
<1>1. op \in [Processes -> Steps] /\ s \in Steps /\ OneOwner
  BY DEF SetupInvariant
<1>2. /\ s.at \in Waits \/ s.at \in {"idle", "script", "record"}
      /\ s.at \in {"connect", "begin", "commit"} /\ s.command = "init" => s.script = BaseTables
      /\ s.at \in Waits /\ s.command # "init" => s.command = "migrate" /\ s.script = V2Tables
  BY <1>1, FirstRests DEF Steps, Fits, Waits
\* What is left to show of a step that only moves p to t.
<1>3. ASSUME NEW t \in Steps, ~ Makes(t), op' = [op EXCEPT ![p] = t], UNCHANGED <<tables, records>>,
             t.command = "migrate" /\ t.at # "version" => records # <<>>,
             t.command = "init" /\ t.at # "connect" => exists', exists => exists',
             deaths' \in 0..MaxDeaths,
             \/ lock' = lock /\ (s.at = "commit" => lock = {})
             \/ lock' = lock \ {p}
             \/ lock' = {p} /\ t.at = "commit"
      PROVE  SetupInvariant'
  <2>1. OneMaker' /\ MissingIsAhead' /\ RecordsAgree' /\ op' \in [Processes -> Steps]
    BY <1>3, StaysAside
  <2>2. \A q \in Processes : op'[q] = IF q = p THEN t ELSE op[q]
    BY <1>1, <1>3
  <2>3. \A q \in Processes : op'[q].command = "init" /\ ~ At(q, "connect")' => exists'
    BY <1>3, <2>2 DEF SetupInvariant, At
  <2>4. OneOwner'
    BY <1>1, <1>3, <2>2 DEF OneOwner, At
  <2> QED
    BY <1>3, <2>1, <2>3, <2>4 DEF SetupInvariant
<1>4. Idle \in Steps /\ ~ Makes(Idle) /\ Idle.command = "none"
  BY FirstRests DEF Steps, Fits, Idle, Waits, Makes
<1>5. deaths \in 0..MaxDeaths /\ MaxDeaths \in Nat
  BY DEF SetupInvariant, DeathsAreBounded
<1>6. CASE InitStorage(p)
  <2> DEFINE t == [at |-> "connect", command |-> "init", script |-> BaseTables]
  <2>1. t \in Steps /\ ~ Makes(t)
    BY FirstRests DEF Steps, Fits, Waits, Makes
  <2>2. op' = [op EXCEPT ![p] = t] /\ s.at = "idle" /\ UNCHANGED <<tables, records, exists, deaths, lock>>
    BY <1>6 DEF InitStorage, Run, At
  <2>3. t.at = "connect" /\ t.command = "init"
    OBVIOUS
  <2> HIDE DEF t
  <2> QED
    BY <1>3, <1>5, <2>1, <2>2, <2>3
<1>7. CASE Connect(p)
  <2> DEFINE t == [s EXCEPT !.at = "begin"]
  <2>1. /\ op' = [op EXCEPT ![p] = t] /\ s.at = "connect" /\ UNCHANGED <<tables, records, deaths, lock>>
        /\ exists'
    BY <1>7 DEF Connect, Goto, At
  <2>2. s.command = "init" /\ s.script = BaseTables
    BY <1>1, <1>2, <2>1 DEF Steps, Fits, Waits
  <2>3. t = [at |-> "begin", command |-> "init", script |-> BaseTables]
    BY <1>1, <2>2, StepFields
  <2>4. t \in Steps /\ ~ Makes(t) /\ t.command = "init"
    BY <2>3, FirstRests DEF Steps, Fits, Waits, Makes
  <2> HIDE DEF t
  <2> QED
    BY <1>3, <1>5, <2>1, <2>4
<1>8. CASE Begin(p)
  <2> DEFINE t == [s EXCEPT !.at = "commit"]
  <2>1. /\ op' = [op EXCEPT ![p] = t] /\ s.at = "begin" /\ UNCHANGED <<tables, records, deaths, exists>>
        /\ lock' = {p}
    BY <1>8 DEF Begin, Goto, At
  <2>2. t = [at |-> "commit", command |-> s.command, script |-> s.script]
    BY <1>1, StepFields
  <2>3. t \in Steps /\ ~ Makes(t)
    BY <1>1, <2>1, <2>2, FirstRests DEF Steps, Fits, Waits, Makes
  <2>4. /\ t.at = "commit" /\ t.command = s.command
        /\ s.command = "init" => exists
        /\ s.command = "migrate" => records # <<>>
    BY <2>1, <2>2 DEF SetupInvariant, RecordsAgree, At
  <2> HIDE DEF t
  <2> QED
    BY <1>3, <1>5, <2>1, <2>3, <2>4
<1>9. CASE ScriptCommits(p)
  <2> DEFINE t == [s EXCEPT !.at = "script"]
  <2>1. /\ op' = [op EXCEPT ![p] = t] /\ s.at = "commit" /\ UNCHANGED <<tables, records, deaths, exists>>
        /\ lock' = lock \ {p}
    BY <1>9 DEF ScriptCommits, Goto, At
  <2>2. t = [at |-> "script", command |-> s.command, script |-> s.script]
    BY <1>1, StepFields
  <2>3. t \in Steps /\ ~ Makes(t)
    BY <1>1, <2>1, <2>2, FirstRests DEF Steps, Fits, Waits, Makes
  <2>4. /\ t.at = "script" /\ t.command = s.command
        /\ s.command = "init" => exists
        /\ s.command = "migrate" => records # <<>>
    BY <2>1, <2>2 DEF SetupInvariant, RecordsAgree, At
  <2> HIDE DEF t
  <2> QED
    BY <1>3, <1>5, <2>1, <2>3, <2>4
<1>10. CASE Migrate(p)
  <2> DEFINE t == [at |-> "version", command |-> "migrate", script |-> V2Tables]
  <2>1. t \in Steps /\ ~ Makes(t)
    BY FirstRests DEF Steps, Fits, Waits, Makes
  <2>2. op' = [op EXCEPT ![p] = t] /\ s.at = "idle" /\ UNCHANGED <<tables, records, exists, deaths, lock>>
    BY <1>10 DEF Migrate, Run, At
  <2>3. t.at = "version" /\ t.command = "migrate"
    OBVIOUS
  <2> HIDE DEF t
  <2> QED
    BY <1>3, <1>5, <2>1, <2>2, <2>3
<1>11. CASE ReadVersion(p)
  <2>1. s.at = "version" /\ UNCHANGED <<tables, records, exists, deaths, lock>>
    BY <1>11 DEF ReadVersion, At
  <2>2. CASE records = <<1>> /\ op' = [op EXCEPT ![p].at = "begin"]
    <3> DEFINE t == [s EXCEPT !.at = "begin"]
    <3>1. t = [at |-> "begin", command |-> s.command, script |-> s.script]
      BY <1>1, StepFields
    <3>2. t \in Steps /\ ~ Makes(t) /\ t.command # "init"
      BY <1>1, <2>1, <3>1, FirstRests DEF Steps, Fits, Waits, Makes
    <3>3. op' = [op EXCEPT ![p] = t] /\ records # <<>>
      BY <2>2
    <3> HIDE DEF t
    <3> QED
      BY <1>3, <1>5, <2>1, <3>2, <3>3
  <2>3. CASE op' = [op EXCEPT ![p] = Idle]
    BY <1>3, <1>4, <1>5, <2>1, <2>3
  <2> QED
    BY <1>11, <2>2, <2>3 DEF ReadVersion, Goto, Finish
<1>12. CASE GiveUp(p)
  <2>1. /\ op' = [op EXCEPT ![p] = Idle] /\ s.at # "commit"
        /\ UNCHANGED <<tables, records, exists, deaths, lock>>
    BY <1>12 DEF GiveUp, Finish
  <2> QED
    BY <1>3, <1>4, <1>5, <2>1
<1>13. CASE Die(p)
  <2>1. /\ op' = [op EXCEPT ![p] = Idle] /\ UNCHANGED <<tables, records, exists>>
        /\ lock' = lock \ {p} /\ deaths' = deaths + 1 /\ deaths < MaxDeaths
    BY <1>13 DEF Die, Finish
  <2>2. deaths' \in 0..MaxDeaths
    BY <1>5, <2>1
  <2> QED
    BY <1>3, <1>4, <2>1, <2>2
<1> QED
  BY <1>6, <1>7, <1>8, <1>9, <1>10, <1>11, <1>12, <1>13

-----------------------------------------------------------------------------
(* The theorems.                                                            *)

LEMMA SetupInit == ASSUME DeathsAreBounded, Init PROVE SetupInvariant
<1>1. Idle \in Steps /\ ~ Makes(Idle) /\ Idle.command = "none"
  BY FirstRests DEF Steps, Fits, Idle, Waits, Makes
<1>2. op = [p \in Processes |-> Idle] /\ lock = {} /\ deaths = 0
  BY DEF Init
<1>3. op \in [Processes -> Steps] /\ \A p \in Processes : op[p] = Idle
  BY <1>1, <1>2
<1>4. Names(BaseTables) \subseteq AllTables /\ "schema_metadata" \in Names(BaseTables)
  BY Scripts DEF AllTables
<1>5. exists \in BOOLEAN
  BY DEF Init, DeathsAreBounded
<1>6. <<1>> # <<3>> /\ <<>> # <<3>> /\ <<>> # <<1>>
  OBVIOUS
<1>7. RecordsAgree /\ tables \subseteq AllTables /\ (tables # {} => exists)
  BY <1>1, <1>3, <1>4, <1>5, <1>6 DEF Init, RecordsAgree
<1> QED
  BY <1>1, <1>2, <1>3, <1>7 DEF SetupInvariant, OneOwner, OneMaker, MissingIsAhead, DeathsAreBounded

\* The invariant holds in every reachable state.
THEOREM SetupAlways == ASSUME DeathsAreBounded PROVE Spec => []SetupInvariant
<1>1. Init => SetupInvariant
  BY SetupInit
<1>2. SetupInvariant /\ [Next]_vars => SetupInvariant'
  <2> SUFFICES ASSUME SetupInvariant, [Next]_vars PROVE SetupInvariant'
    OBVIOUS
  <2>1. ASSUME NEW p \in Processes, Use(p) PROVE SetupInvariant'
    BY <2>1 DEF SetupInvariant, Use, OneOwner, OneMaker, MissingIsAhead, RecordsAgree, At
  <2>2. CASE UNCHANGED vars
    BY <2>2 DEF SetupInvariant, vars, OneOwner, OneMaker, MissingIsAhead, RecordsAgree, At
  <2> QED
    BY <2>1, <2>2, OtherSteps, CreateTableStep, ScriptEndsStep, RecordStep DEF Next, Continue
<1> QED
  BY <1>1, <1>2, PTL DEF Spec

\* A maker has made, of the two scripts, what comes before its next statement.
LEMMA MadeInOrder ==
  ASSUME NEW s \in Steps, Makes(s)
  PROVE  InOrder(AllTables \ Ahead(s))
<1> DEFINE made == AllTables \ Ahead(s)
<1>1. /\ BaseTables \in Seq(AllTables) /\ V2Tables \in Seq(AllTables)
      /\ \A i, j \in 1..Len(BaseTables) : BaseTables[i] = BaseTables[j] => i = j
      /\ \A i, j \in 1..Len(V2Tables) : V2Tables[i] = V2Tables[j] => i = j
      /\ Names(BaseTables) \cap Names(V2Tables) = {}
  BY Scripts
<1>2. /\ \A k \in 1..Len(BaseTables) : BaseTables[k] \in Names(BaseTables)
      /\ \A k \in 1..Len(V2Tables) : V2Tables[k] \in Names(V2Tables)
  BY DEF Names
<1>3. CASE s.command = "init"
  <2>1. s.script \in Rests(BaseTables) /\ Names(s.script) \subseteq Names(BaseTables)
    BY <1>3, BaseRest DEF Steps, Fits, BaseRests
  <2>2. made = Names(BaseTables) \ Names(s.script)
    BY <1>1, <1>3, <2>1 DEF Ahead, AllTables
  <2>3. ASSUME NEW k \in 1..Len(BaseTables), NEW l \in 1..Len(BaseTables), k < l,
               BaseTables[l] \in made
        PROVE  BaseTables[k] \in made
    <3>1. BaseTables[l] \notin Names(s.script)
      BY <2>2, <2>3
    <3>2. BaseTables[k] \notin Names(s.script)
      BY <1>1, <2>1, <2>3, <3>1, RestIsTheEnd
    <3> QED
      BY <1>2, <2>2, <3>2
  <2>4. made \cap Names(V2Tables) = {}
    BY <1>1, <2>2
  <2>5. \A k \in 1..Len(V2Tables) : V2Tables[k] \notin made
    BY <1>2, <2>4
  <2> QED
    BY <2>3, <2>4, <2>5 DEF InOrder
<1>4. CASE s.command # "init"
  <2>1. s.command \in {"init tables", "migrate"}
    BY <1>4 DEF Steps, Fits, Makes
  <2>2. s.script \in Rests(V2Tables) /\ Names(s.script) \subseteq Names(V2Tables)
    BY <2>1, V2Rest DEF Steps, Fits, V2Rests
  <2>3. made = Names(BaseTables) \cup (Names(V2Tables) \ Names(s.script))
    BY <1>1, <1>4, <2>2 DEF Ahead, AllTables
  <2>4. ASSUME NEW k \in 1..Len(V2Tables), NEW l \in 1..Len(V2Tables), k < l,
               V2Tables[l] \in made
        PROVE  V2Tables[k] \in made
    <3>1. V2Tables[l] \notin Names(s.script)
      BY <1>1, <1>2, <2>3, <2>4
    <3>2. V2Tables[k] \notin Names(s.script)
      BY <1>1, <2>2, <2>4, <3>1, RestIsTheEnd
    <3> QED
      BY <1>2, <2>3, <3>2
  <2>5. Names(BaseTables) \subseteq made
    BY <2>3
  <2>6. \A k \in 1..Len(BaseTables) : BaseTables[k] \in made
    BY <1>2, <2>5
  <2> QED
    BY <2>4, <2>5, <2>6 DEF InOrder
<1> QED
  BY <1>3, <1>4

\* Only CREATE TABLE changes the tables, and whoever has created one is a maker.
LEMMA TablesStayInOrder ==
  ASSUME SetupInvariant, SetupInvariant', InOrder(tables), [Next]_vars
  PROVE  InOrder(tables)'
<1>1. CASE tables' = tables
  BY <1>1 DEF InOrder
<1>2. CASE tables' # tables
  <2>1. PICK p \in Processes : CreateTable(p)
    BY <1>2 DEF Next, vars, Use, InitStorage, Migrate, Continue, GiveUp, Die, Connect, Begin,
                ScriptCommits, ScriptEnds, Record, ReadVersion
  <2> DEFINE s == op[p]
             t == [s EXCEPT !.script = Tail(s.script)]
  <2>2. /\ op \in [Processes -> Steps] /\ s \in Steps
        /\ s.at = "script" /\ s.script # <<>> /\ op' = [op EXCEPT ![p] = t]
    BY <1>2, <2>1 DEF CreateTable, SetupInvariant, At
  <2>3. op'[p] = t /\ t.at = s.at /\ t.command = s.command /\ t.script = Tail(s.script)
    BY <2>2, StepFields
  <2>4. /\ s.command = "init" => Tail(s.script) # BaseTables
        /\ s.command = "migrate" => Tail(s.script) # V2Tables
    BY <2>2, BaseRest, V2Rest DEF Steps, Fits
  <2>5. s.command \in {"init", "init tables", "migrate"}
    BY <2>2 DEF Steps, Fits
  <2>6. Makes(t)
    BY <2>2, <2>3, <2>4, <2>5 DEF Makes
  <2>7. t \in Steps /\ tables' = AllTables \ Ahead(t)
    BY <2>3, <2>6 DEF SetupInvariant, MissingIsAhead
  <2> QED
    BY <2>6, <2>7, MadeInOrder DEF InOrder
<1> QED
  BY <1>1, <1>2

LEMMA InitInOrder == ASSUME Init PROVE InOrder(tables)
<1>1. /\ Names(BaseTables) \cap Names(V2Tables) = {}
      /\ \A k \in 1..Len(BaseTables) : BaseTables[k] \in Names(BaseTables)
      /\ \A k \in 1..Len(V2Tables) : V2Tables[k] \in Names(V2Tables)
  BY Scripts DEF Names
<1>2. tables = {} \/ tables = Names(BaseTables)
  BY DEF Init
<1> QED
  BY <1>1, <1>2 DEF InOrder

\* Whatever races and dies, the tables come in the order of the scripts, without
\* a gap, and the write lock has one owner (database.py: initialize, migrate,
\* _v2_tables).
THEOREM SetupTypesHold == ASSUME DeathsAreBounded PROVE Spec => []SetupTypeOK
<1>1. SetupInvariant /\ InOrder(tables) => SetupTypeOK
  <2> SUFFICES ASSUME SetupInvariant, InOrder(tables) PROVE SetupTypeOK
    OBVIOUS
  <2>1. Cardinality(lock) <= 1 /\ \A p \in lock : At(p, "commit")
    <3>1. OneOwner
      BY DEF SetupInvariant
    <3>2. CASE lock = {}
      <4>1. Cardinality(lock) = 0
        BY <3>2, FS_EmptySet
      <4> QED
        BY <3>2, <4>1
    <3>3. ASSUME NEW p \in Processes, lock = {p}, At(p, "commit")
          PROVE  Cardinality(lock) <= 1 /\ \A q \in lock : At(q, "commit")
      <4>1. Cardinality({p}) = 1
        BY FS_Singleton
      <4>2. Cardinality(lock) <= 1
        BY <3>3, <4>1
      <4>3. \A q \in lock : q = p
        BY <3>3
      <4> QED
        BY <3>3, <4>2, <4>3
    <3> QED
      BY <3>1, <3>2, <3>3 DEF OneOwner
  <2>2. records # <<>> => "schema_metadata" \in tables
    BY Scripts DEF SetupInvariant, RecordsAgree
  <2> QED
    BY <2>1, <2>2 DEF SetupTypeOK, SetupInvariant
<1>2. Init => InOrder(tables)
  BY InitInOrder
<1>3. SetupInvariant /\ SetupInvariant' /\ InOrder(tables) /\ [Next]_vars => InOrder(tables)'
  BY TablesStayInOrder
<1> QED
  BY <1>1, <1>2, <1>3, SetupAlways, PTL DEF Spec

\* However many commands race, give up or die, an index that validate_schema
\* accepts has every table, and there is never a second version record.
THEOREM SetupLeavesWhole == ASSUME DeathsAreBounded PROVE Spec => []SetupIsWhole
<1>1. SetupInvariant => SetupIsWhole
  <2> SUFFICES ASSUME SetupInvariant PROVE SetupIsWhole
    OBVIOUS
  <2>1. ValidIsWhole
    BY DEF ValidIsWhole, Valid, SCHEMA_VERSION, SetupInvariant, RecordsAgree
  <2>2. Len(<<>>) = 0 /\ Len(<<1>>) = 1 /\ Len(<<3>>) = 1
    OBVIOUS
  <2>3. OneRecord
    BY <2>2 DEF OneRecord, SetupInvariant, RecordsAgree
  <2> QED
    BY <2>1, <2>3 DEF SetupIsWhole
<1> QED
  BY <1>1, SetupAlways, PTL

=============================================================================
