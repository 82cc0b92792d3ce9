----------------------------- MODULE AliasTable ------------------------------
(***************************************************************************)
(* The alias table: the map of internal/recipient/parser.go that Parse      *)
(* reads, the operator's commands that change it (internal/max/             *)
(* bot_runtime.go), and the file it is saved to and loaded from             *)
(* (internal/recipient/alias.go).                                           *)
(*                                                                          *)
(* The bot handles one command at a time.  A command changes the map and    *)
(* then writes the file in place: os.WriteFile empties it first, so the     *)
(* process, or the disk, can fail between the two.  An alias stands for a   *)
(* set of targets; the order of a group is left out.                        *)
(***************************************************************************)
EXTENDS Integers, FiniteSets

CONSTANTS Names,       \* alias names
          Targets,     \* targets of the commands and of the file
          Malformed,   \* the ones that are not "chatid" and a number
          MaxCrashes,  \* bound: ends of the process
          MaxFaults    \* bound: writes of the file that fail

ASSUME AliasAssumption == Malformed \subseteq Targets /\ MaxCrashes \in Nat /\ MaxFaults \in Nat

VARIABLES aliases,   \* the map in memory
          file,      \* contents of the file: "ok" with a map, "empty" or "torn"
          process,   \* running, or refused to start
          step,      \* where the bot is with its command
          subject,   \* the alias the last command was about
          crashes, faults,
          unchecked, \* history: aliases that a command or the first file gave a malformed target
          saved,     \* history: aliases the operator was told are saved
          inSync     \* history: no write has failed since the last good one

vars == <<aliases, file, process, step, subject, crashes, faults, unchecked, saved, inSync>>

Groups == (SUBSET Targets) \ {{}}

\* A map from some names to groups.
IsTable(m) == DOMAIN m \subseteq Names /\ m \in [DOMAIN m -> Groups]

Contents(m) == [kind |-> "ok", map |-> m]
NoContents(kind) == [kind |-> kind, map |-> <<>>]

Without(m, name) == [n \in DOMAIN m \ {name} |-> m[n]]
With(m, name, group) == [n \in DOMAIN m \union {name} |-> IF n = name THEN group ELSE m[n]]

\* Every table there can be.
Tables == UNION {[names -> Groups] : names \in SUBSET Names}

\* At first there is no file, which loads like an empty one, or one that was written
\* by hand; LoadAliases does not look at its targets.
Init ==
    /\ file \in {NoContents("empty")} \union {Contents(m) : m \in Tables}
    /\ aliases = file.map
    /\ process = "running"
    /\ step = "idle"
    /\ subject \in Names
    /\ crashes = 0 /\ faults = 0
    /\ unchecked = {n \in DOMAIN aliases : aliases[n] \intersect Malformed # {}}
    /\ saved = <<>>
    /\ inSync = TRUE
-----------------------------------------------------------------------------
\* What the methods of parser do to the map.

\* /alias and /alias_group; never called with an empty group.
SetAliasGroup(m, name, group) == With(m, name, group)

AddAliasTargets(m, name, group) ==
    With(m, name, group \union (IF name \in DOMAIN m THEN m[name] ELSE {}))

\* Leaves a name behind that stands for nothing.
RemoveLeavingEmpty(m, name, group) ==
    IF name \in DOMAIN m THEN With(m, name, m[name] \ group) ELSE m

\* The last target takes its alias with it.
RemoveAliasTargets(m, name, group) ==
    IF name \notin DOMAIN m THEN m
    ELSE IF m[name] \subseteq group THEN Without(m, name)
    ELSE With(m, name, m[name] \ group)

DeleteAlias(m, name) == Without(m, name)

\* Parse of an address with an alias: its chats, or none when it fails.  One target
\* that is no chat id fails the whole group.
Parse(m, name) == IF m[name] \intersect Malformed = {} THEN m[name] ELSE {}

\* What a command makes of the map.
Changed(command, name, group) ==
    CASE command \in {"alias", "group"} -> SetAliasGroup(aliases, name, group)
      [] command = "add"    -> AddAliasTargets(aliases, name, group)
      [] command = "remove" -> RemoveAliasTargets(aliases, name, group)
      [] command = "delete" -> DeleteAlias(aliases, name)

\* A command that takes every target.
TakesAnything(command, group) == TRUE

\* /alias takes one target and has ValidateAliasTarget look at it; /alias_group and
\* /alias_add do not.
Accepts(command, group) ==
    command = "alias" => Cardinality(group) = 1 /\ group \intersect Malformed = {}
-----------------------------------------------------------------------------
\* A command that forgets to save.
CommandUnsaved(command, name, group) ==
    /\ process = "running"
    /\ step = "idle"
    /\ Accepts(command, group)
    /\ aliases' = Changed(command, name, group)
    /\ subject' = name
    /\ saved' = Without(saved, name)
    /\ UNCHANGED <<file, process, step, crashes, faults, unchecked, inSync>>

\* A command up to the call of SaveAliases.  Nothing is promised any more about
\* the alias it is about.
Command(command, name, group) ==
    /\ process = "running"
    /\ step = "idle"
    /\ Accepts(command, group)
    /\ aliases' = Changed(command, name, group)
    /\ step' = "open"
    /\ subject' = name
    /\ saved' = Without(saved, name)
    /\ unchecked' = IF command \in {"group", "add"} /\ group \intersect Malformed # {}
                    THEN unchecked \union {name} ELSE unchecked
    /\ UNCHANGED <<file, process, crashes, faults, inSync>>

\* SaveAliases: os.WriteFile opens the file and truncates it.
SaveOpen ==
    /\ process = "running"
    /\ step = "open"
    /\ file' = NoContents("empty")
    /\ step' = "write"
    /\ UNCHANGED <<aliases, process, subject, crashes, faults, unchecked, saved, inSync>>

\* SaveAliases: the data is written and the operator is told.
SaveWrite ==
    /\ process = "running"
    /\ step = "write"
    /\ file' = Contents(aliases)
    /\ step' = "idle"
    /\ saved' = IF subject \in DOMAIN aliases THEN With(saved, subject, aliases[subject]) ELSE saved
    /\ inSync' = TRUE
    /\ UNCHANGED <<aliases, process, subject, crashes, faults, unchecked>>

\* SaveAliases fails: before the file is touched, with part of it written, or with
\* all of it and an error at the close.  The operator is told the change is in memory
\* only.
SaveFails ==
    /\ process = "running"
    /\ faults < MaxFaults
    /\ faults' = faults + 1
    /\ \/ step = "open" /\ UNCHANGED file
       \/ step = "write" /\ file' \in {NoContents("empty"), NoContents("torn"), Contents(aliases)}
    /\ step' = "idle"
    /\ inSync' = FALSE
    /\ UNCHANGED <<aliases, process, subject, crashes, unchecked, saved>>

\* LoadAliases of the next process.  A torn file is not JSON: it does not start.
LoadAliases(f) ==
    /\ process' = IF f.kind = "torn" THEN "refused" ELSE "running"
    /\ aliases' = f.map

\* The process ends, in the middle of a write perhaps, or with all of it done and
\* nobody told, and is started again.
Restart ==
    /\ process = "running"
    /\ crashes < MaxCrashes
    /\ crashes' = crashes + 1
    /\ \/ step # "write" /\ UNCHANGED file
       \/ step = "write" /\ file' \in {NoContents("empty"), NoContents("torn"), Contents(aliases)}
    /\ LoadAliases(file')
    /\ step' = "idle"
    /\ inSync' = (file'.kind # "torn")
    /\ UNCHANGED <<subject, faults, unchecked, saved>>

Next ==
    \/ \E command \in {"alias", "group", "add", "remove", "delete"}, name \in Names, group \in Groups :
          Command(command, name, group)
    \/ SaveOpen
    \/ SaveWrite
    \/ SaveFails
    \/ Restart
    \/ process = "refused" /\ UNCHANGED vars

Spec == Init /\ [][Next]_vars
-----------------------------------------------------------------------------
\* Every variable has its type; in particular no alias ever stands for an empty
\* group, in memory or on the file.
TypeOK ==
    /\ IsTable(aliases)
    /\ IsTable(saved)
    /\ file.kind \in {"ok", "empty", "torn"} /\ IsTable(file.map)
    /\ process \in {"running", "refused"}
    /\ step \in {"idle", "open", "write"}
    /\ subject \in Names
    /\ crashes \in Nat /\ faults \in Nat
    /\ unchecked \subseteq Names
    /\ inSync \in BOOLEAN

\* Between commands, unless a write has failed, the file is what memory is: a
\* restart brings back exactly the aliases Parse was using.
FileCurrent == process = "running" /\ step = "idle" /\ inSync => file.map = aliases

\* An alias parses, in every process that is ever started from the file, unless
\* /alias_group, /alias_add or the hand that wrote the first file gave it a target
\* that does not.
Parses == \A n \in DOMAIN aliases \ unchecked : Parse(aliases, n) # {}

\* An alias the operator was told is saved is still there, with its targets, after
\* a restart.
SavedSurvives ==
    process = "running" /\ step = "idle" =>
        \A n \in DOMAIN saved : n \in DOMAIN aliases /\ aliases[n] = saved[n]
=============================================================================
