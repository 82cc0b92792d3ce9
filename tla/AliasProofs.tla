----------------------------- MODULE AliasProofs -----------------------------
(***************************************************************************)
(* The alias table for any names, any targets, any sequence of commands and *)
(* any failures of the file: what is in memory is what is on the file, and  *)
(* it parses.                                                               *)
(***************************************************************************)
EXTENDS AliasTable, TLAPS

\* A table whose aliases stand for well-formed targets, those in U excepted.
CleanBut(m, U) == \A n \in DOMAIN m \ U : m[n] \intersect Malformed = {}

\* A file that does not hold a table reads as an empty one, and the file is the
\* memory of a process that has no command in progress and no write failed.
FileTrue ==
    /\ file.kind # "ok" => file.map = <<>>
    /\ inSync /\ step = "idle" => file.map = aliases

\* The inductive invariant of the table.  Memory, and the file it may be replaced
\* by after a restart, are clean but for the same aliases.
AliasInv ==
    /\ TypeOK
    /\ FileTrue
    /\ CleanBut(aliases, unchecked)
    /\ CleanBut(file.map, unchecked)
-----------------------------------------------------------------------------
\* What the operations on a map keep.

\* The empty map is a clean table.
LEMMA EmptyTable == IsTable(<<>>) /\ \A U : CleanBut(<<>>, U)
<1>1. DOMAIN <<>> = {} /\ <<>> = [n \in {} |-> {}]
  OBVIOUS
<1> QED
  BY <1>1 DEF IsTable, CleanBut

\* A table without one of its names is a table.
LEMMA WithoutTable ==
    ASSUME NEW m, IsTable(m), NEW name
    PROVE  /\ IsTable(Without(m, name))
           /\ \A U : CleanBut(m, U) => CleanBut(Without(m, name), U)
BY DEF IsTable, Without, CleanBut

\* A table with a group for a name is a table, as clean as it was unless the group
\* is malformed.
LEMMA WithTable ==
    ASSUME NEW m, IsTable(m), NEW name \in Names, NEW group \in Groups
    PROVE  /\ IsTable(With(m, name, group))
           /\ \A U : CleanBut(m, U) /\ (name \in U \/ group \intersect Malformed = {})
                        => CleanBut(With(m, name, group), U)
BY DEF IsTable, With, CleanBut

\* A command turns a table into a table.  It keeps it clean, unless it is one that
\* does not look at its targets and puts its alias among the unchecked.
LEMMA ChangedTable ==
    ASSUME IsTable(aliases), CleanBut(aliases, unchecked),
           NEW command \in {"alias", "group", "add", "remove", "delete"},
           NEW name \in Names, NEW group \in Groups, Accepts(command, group),
           NEW U, unchecked \subseteq U,
           command \in {"group", "add"} /\ group \intersect Malformed # {} => name \in U
    PROVE  IsTable(Changed(command, name, group)) /\ CleanBut(Changed(command, name, group), U)
<1>0. CleanBut(aliases, U)
  BY DEF CleanBut
<1>1. CASE command \in {"alias", "group"}
  <2>1. Changed(command, name, group) = With(aliases, name, group)
    BY <1>1 DEF Changed, SetAliasGroup
  <2>2. name \in U \/ group \intersect Malformed = {}
    BY <1>1 DEF Accepts
  <2> QED
    BY <2>1, <2>2, <1>0, WithTable
<1>2. CASE command = "add"
  <2> DEFINE all == group \union (IF name \in DOMAIN aliases THEN aliases[name] ELSE {})
  <2>1. Changed(command, name, group) = With(aliases, name, all)
    BY <1>2 DEF Changed, AddAliasTargets
  <2>2. all \in Groups
    BY DEF IsTable, Groups
  <2>3. name \in U \/ all \intersect Malformed = {}
    BY <1>0, <1>2 DEF CleanBut
  <2> QED
    BY <2>1, <2>2, <2>3, <1>0, WithTable
<1>3. CASE command = "remove"
  <2>1. Changed(command, name, group) = RemoveAliasTargets(aliases, name, group)
    BY <1>3 DEF Changed
  <2>2. CASE name \notin DOMAIN aliases
    BY <2>1, <2>2, <1>0 DEF RemoveAliasTargets
  <2>3. CASE name \in DOMAIN aliases /\ aliases[name] \subseteq group
    BY <2>1, <2>3, <1>0, WithoutTable DEF RemoveAliasTargets
  <2>4. CASE name \in DOMAIN aliases /\ ~(aliases[name] \subseteq group)
    <3> DEFINE rest == aliases[name] \ group
    <3>1. Changed(command, name, group) = With(aliases, name, rest)
      BY <2>1, <2>4 DEF RemoveAliasTargets
    <3>2. rest \in Groups
      BY <2>4 DEF IsTable, Groups
    <3>3. name \in U \/ rest \intersect Malformed = {}
      BY <1>0, <2>4 DEF CleanBut
    <3> QED
      BY <3>1, <3>2, <3>3, <1>0, WithTable
  <2> QED
    BY <2>2, <2>3, <2>4
<1>4. CASE command = "delete"
  BY <1>4, <1>0, WithoutTable DEF Changed, DeleteAlias
<1> QED
  BY <1>1, <1>2, <1>3, <1>4
-----------------------------------------------------------------------------
\* The table starts with what the first file holds.
LEMMA AliasInit == Init => AliasInv
<1> SUFFICES ASSUME Init PROVE AliasInv
  OBVIOUS
<1>1. IsTable(file.map) /\ file.kind \in {"ok", "empty"} /\ (file.kind # "ok" => file.map = <<>>)
  <2>1. CASE file = NoContents("empty")
    BY <2>1, EmptyTable DEF NoContents
  <2>2. ASSUME NEW m \in Tables, file = Contents(m)
        PROVE  IsTable(m) /\ file.map = m /\ file.kind = "ok"
    BY <2>2 DEF Tables, Contents, IsTable
  <2> QED
    BY <2>1, <2>2 DEF Init
<1>2. IsTable(saved)
  BY EmptyTable DEF Init
<1>3. CleanBut(aliases, unchecked) /\ unchecked \subseteq Names
  BY <1>1 DEF Init, CleanBut, IsTable
<1> QED
  BY <1>1, <1>2, <1>3 DEF Init, AliasInv, TypeOK, FileTrue

\* A command changes memory and leaves the file to the save that follows.
LEMMA CommandKeeps ==
    ASSUME AliasInv, NEW command \in {"alias", "group", "add", "remove", "delete"},
           NEW name \in Names, NEW group \in Groups, Command(command, name, group)
    PROVE  AliasInv'
<1>1. /\ aliases' = Changed(command, name, group) /\ Accepts(command, group)
      /\ unchecked \subseteq unchecked' /\ unchecked' \subseteq Names
      /\ command \in {"group", "add"} /\ group \intersect Malformed # {} => name \in unchecked'
      /\ saved' = Without(saved, name)
      /\ step' = "open" /\ subject' = name
      /\ UNCHANGED <<file, process, crashes, faults, inSync>>
  BY DEF Command, AliasInv, TypeOK
<1>2. IsTable(aliases') /\ CleanBut(aliases', unchecked')
  BY <1>1, ChangedTable DEF AliasInv, TypeOK
<1>3. IsTable(saved')
  BY <1>1, WithoutTable DEF AliasInv, TypeOK
<1>4. CleanBut(file.map, unchecked')
  BY <1>1 DEF AliasInv, CleanBut
<1> QED
  BY <1>1, <1>2, <1>3, <1>4 DEF AliasInv, TypeOK, FileTrue

\* A file that was emptied, or torn, holds no table.
LEMMA NothingWritten ==
    ASSUME AliasInv, UNCHANGED <<aliases, process, subject, crashes, unchecked, saved>>,
           \E kind \in {"empty", "torn"} : file' = NoContents(kind),
           step' \in {"idle", "open", "write"}, inSync' \in BOOLEAN, faults' \in Nat,
           ~(inSync' /\ step' = "idle")
    PROVE  AliasInv'
<1>1. file'.map = <<>> /\ file'.kind \in {"empty", "torn"}
  BY DEF NoContents
<1> QED
  BY <1>1, EmptyTable DEF AliasInv, TypeOK, FileTrue

\* A restart loads what the file holds.
LEMMA RestartKeeps ==
    ASSUME AliasInv, Restart
    PROVE  AliasInv'
<1>1. /\ aliases' = file'.map
      /\ process' \in {"running", "refused"} /\ step' = "idle"
      /\ crashes' \in Nat /\ inSync' \in BOOLEAN
      /\ UNCHANGED <<subject, faults, unchecked, saved>>
  BY DEF Restart, LoadAliases, AliasInv, TypeOK
<1>2. CASE UNCHANGED file
  BY <1>1, <1>2 DEF AliasInv, TypeOK, FileTrue
<1>3. CASE file' \in {NoContents("empty"), NoContents("torn")}
  <2>1. file'.map = <<>> /\ file'.kind \in {"empty", "torn"}
    BY <1>3 DEF NoContents
  <2> QED
    BY <1>1, <2>1, EmptyTable DEF AliasInv, TypeOK, FileTrue
<1>4. CASE file' = Contents(aliases)
  <2>1. file'.map = aliases /\ file'.kind = "ok"
    BY <1>4 DEF Contents
  <2> QED
    BY <1>1, <2>1 DEF AliasInv, TypeOK, FileTrue
<1> QED
  BY <1>2, <1>3, <1>4 DEF Restart

\* Every step keeps the invariant.
LEMMA AliasStep == AliasInv /\ [Next]_vars => AliasInv'
<1> SUFFICES ASSUME AliasInv, [Next]_vars PROVE AliasInv'
  OBVIOUS
<1>1. ASSUME NEW command \in {"alias", "group", "add", "remove", "delete"},
             NEW name \in Names, NEW group \in Groups, Command(command, name, group)
      PROVE  AliasInv'
  BY <1>1, CommandKeeps
<1>2. CASE SaveOpen
  BY <1>2, NothingWritten DEF SaveOpen, AliasInv, TypeOK
<1>3. CASE SaveWrite
  <2>1. /\ file'.map = aliases /\ file'.kind = "ok" /\ step' = "idle" /\ inSync' = TRUE
        /\ UNCHANGED <<aliases, process, subject, crashes, faults, unchecked>>
    BY <1>3 DEF SaveWrite, Contents
  <2>2. IsTable(saved')
    <3>1. CASE subject \in DOMAIN aliases
      <4>1. aliases[subject] \in Groups
        BY <3>1 DEF AliasInv, TypeOK, IsTable
      <4> QED
        BY <1>3, <3>1, <4>1, WithTable DEF SaveWrite, AliasInv, TypeOK
    <3>2. CASE subject \notin DOMAIN aliases
      BY <1>3, <3>2 DEF SaveWrite, AliasInv, TypeOK
    <3> QED
      BY <3>1, <3>2
  <2> QED
    BY <2>1, <2>2 DEF AliasInv, TypeOK, FileTrue
<1>4. CASE SaveFails
  <2>1. /\ step' = "idle" /\ inSync' = FALSE /\ faults' \in Nat
        /\ UNCHANGED <<aliases, process, subject, crashes, unchecked, saved>>
    BY <1>4 DEF SaveFails, AliasInv, TypeOK
  <2>2. CASE UNCHANGED file
    BY <2>1, <2>2 DEF AliasInv, TypeOK, FileTrue
  <2>3. CASE file' \in {NoContents("empty"), NoContents("torn")}
    BY <2>1, <2>3, NothingWritten
  <2>4. CASE file' = Contents(aliases)
    <3>1. file'.map = aliases /\ file'.kind = "ok"
      BY <2>4 DEF Contents
    <3> QED
      BY <2>1, <3>1 DEF AliasInv, TypeOK, FileTrue
  <2> QED
    BY <1>4, <2>2, <2>3, <2>4 DEF SaveFails
<1>5. CASE Restart
  BY <1>5, RestartKeeps
<1>6. CASE UNCHANGED vars
  BY <1>6 DEF vars, AliasInv, TypeOK, FileTrue
<1> QED
  BY <1>1, <1>2, <1>3, <1>4, <1>5, <1>6 DEF Next

\* The invariant holds of the table.
LEMMA AliasHolds == Spec => []AliasInv
BY AliasInit, AliasStep, PTL DEF Spec

\* Every variable keeps its type: no alias ever stands for an empty group.
THEOREM TableTyped == Spec => []TypeOK
<1>1. AliasInv => TypeOK
  BY DEF AliasInv
<1> QED
  BY <1>1, AliasHolds, PTL

\* Between commands, unless a write has failed, a restart brings back exactly what
\* Parse was using.
THEOREM FileKeepsUp == Spec => []FileCurrent
<1>1. AliasInv => FileCurrent
  BY DEF AliasInv, FileTrue, FileCurrent
<1> QED
  BY <1>1, AliasHolds, PTL

\* An alias that no command and no hand-written file gave a malformed target parses,
\* in every process that is ever started from the file.
THEOREM AliasesParse == Spec => []Parses
<1>1. AliasInv => Parses
  <2> SUFFICES ASSUME AliasInv, NEW n \in DOMAIN aliases \ unchecked
               PROVE  Parse(aliases, n) # {}
    BY DEF Parses
  <2>1. aliases[n] \intersect Malformed = {}
    BY DEF AliasInv, CleanBut
  <2>2. aliases[n] # {}
    <3>1. aliases[n] \in Groups
      BY DEF AliasInv, TypeOK, IsTable
    <3> QED
      BY <3>1 DEF Groups
  <2> QED
    BY <2>1, <2>2 DEF Parse
<1> QED
  BY <1>1, AliasHolds, PTL
=============================================================================
