-------------------------------- MODULE Installs --------------------------------
(***************************************************************************)
(* What an operator installs.  A skill has a record in a file named after  *)
(* its sanitized id, a line in the log of receipts and an entry in the     *)
(* registry, which is rebuilt from all records.  An extension has a stored *)
(* manifest and an entry in a registry, and each command leaves a receipt  *)
(* with the way back: a removal, or an installation from the backup it has *)
(* made.  Receipts and backups are named after the second.                 *)
(* Commands are given one after another; one may die between two of its    *)
(* writes or in the middle of one.  The snapshot of the registry and the   *)
(* latest artifact, which nothing reads, are left out.                     *)
(***************************************************************************)
EXTENDS Integers, Sequences, FiniteSets

CONSTANTS Names, FileOf,    \* skill ids, and safe_filename
          Extensions, Versions, None,
          MaxOps, MaxTime, MaxCrashes   \* bounds

InstallsAssumption ==
    /\ Versions \cap {"torn", None} = {} /\ {MaxOps, MaxTime, MaxCrashes} \subseteq Nat

VARIABLES
    record,         \* Files -> the skill's install record, or None
    torn,           \* the files of records that cannot be read
    log,            \* receipts.jsonl, by file: what was done
    registry,       \* Files -> what the skill registry says of the record
    stored,         \* Extensions -> the manifest stored, None or "torn"
    entry,          \* Extensions -> the version the registry of extensions has, None
    backup,         \* receipt id -> the manifest backed up under it
    receipt,        \* receipt id -> the receipt
    hand,           \* the command at work
    hurt,           \* ghost: what a command died on and none has set right since
    spoilt,         \* ghost: receipt ids a command died under and none has used again
    clock, ops, crashes

installVars == <<record, torn, log, registry, stored, entry, backup, receipt, hand, hurt,
                 spoilt, clock, ops, crashes>>

Files == {FileOf[n] : n \in Names}
Enabled == [name: Names, enabled: BOOLEAN]
Actions == {"install", "remove", "enable", "disable", "update"}

\* A receipt's id: the second, the operation and the extension.
Ids == (0..MaxTime) \X {"install", "remove"} \X Extensions

\* A receipt: the way back, and as a ghost what was there before its command.
Receipt == [back: {"remove", "restore"}, entry: Versions \cup {None},
            stored: Versions \cup {None, "torn"}]

Idle == [pc |-> "idle", act |-> "none", name |-> None, ext |-> None, version |-> None,
         id |-> None, back |-> "remove", entry |-> None, stored |-> None]

TypeOK ==
    /\ \A f \in Files : record[f] = None \/ record[f] \in Enabled
    /\ torn \subseteq Files
    /\ \A i \in DOMAIN log : log[i].name \in Names /\ log[i].act \in Actions
    /\ \A f \in Files : registry[f] = None \/ registry[f] \in Enabled
    /\ stored \in [Extensions -> Versions \cup {None, "torn"}]
    /\ entry \in [Extensions -> Versions \cup {None, "torn"}]
    /\ \A i \in Ids : backup[i] \in Versions \cup {None, "torn"}
                      /\ (receipt[i] = None \/ receipt[i] \in Receipt)
    /\ DOMAIN hand = DOMAIN Idle /\ hurt \subseteq Files \cup Extensions \cup {"log", "registry"}
    /\ spoilt \subseteq Ids
    /\ clock \in 0..MaxTime /\ ops \in 0..MaxOps /\ crashes \in 0..MaxCrashes

skills == <<record, torn, log, registry>>
extensions == <<stored, entry, backup, receipt>>
bounds == <<spoilt, clock, ops, crashes>>

At(pc) == hand.pc = pc
Command == At("idle") /\ ops < MaxOps /\ ops' = ops + 1
Goes(pc) == hand' = [hand EXCEPT !.pc = pc]

----------------------------------------------------------------------------
(* Skills.                                                                 *)

\* The command begins if its check lets it: a record that cannot be read ends every
\* command on its skill, a removal by force included.
SkillCommand == \E n \in Names, act \in Actions :
    /\ Command
    /\ FileOf[n] \notin torn
    /\ act # "install" => record[FileOf[n]] # None
    /\ hand' = [Idle EXCEPT !.pc = "record", !.act = act, !.name = n]
    /\ UNCHANGED <<skills, extensions, hurt, spoilt, clock, crashes>>

Installed(n) == [name |-> n, enabled |-> TRUE]

\* An installation of what is installed begins afresh.
ChangedAfresh(r, act, n) ==
    CASE act = "install" -> Installed(n)
      [] act = "remove" -> None
      [] act \in {"enable", "disable"} -> [r EXCEPT !.enabled = (act = "enable")]
      [] act = "update" -> r

\* What a command makes of a record: an installation of what is installed keeps the
\* record, whose id may be another one's.
Changed(r, act, n) ==
    CASE act = "install" -> IF r = None THEN Installed(n) ELSE r
      [] act = "remove" -> None
      [] act \in {"enable", "disable"} -> [r EXCEPT !.enabled = (act = "enable")]
      [] act = "update" -> r

WriteRecord ==
    /\ At("record")
    /\ record' = [record EXCEPT ![FileOf[hand.name]] = Changed(@, hand.act, hand.name)]
    /\ Goes("receipt")
    /\ UNCHANGED <<torn, log, registry, extensions, hurt, bounds>>

\* append_receipt: the log is written anew with the line.
AppendReceipt ==
    /\ At("receipt")
    /\ log' = Append(log, [act |-> hand.act, name |-> hand.name])
    /\ Goes("sync")
    /\ UNCHANGED <<record, torn, registry, extensions, hurt, bounds>>

Listed(f) == IF f \in torn THEN None ELSE record[f]

\* What was not told of a skill is past when it has been removed.
Righted == hurt' = hurt \ ({"registry"} \cup
                          IF hand.act = "remove" THEN {FileOf[hand.name]} ELSE {})

\* The registry takes in the skill of the command only.
SyncOne ==
    /\ At("sync")
    /\ registry' = [registry EXCEPT ![FileOf[hand.name]] = Listed(FileOf[hand.name])]
    /\ hand' = Idle
    /\ Righted
    /\ UNCHANGED <<record, torn, log, extensions, bounds>>

\* sync_skill_registry, from every record that can be read.
Sync ==
    /\ At("sync")
    /\ registry' = [f \in Files |-> Listed(f)]
    /\ hand' = Idle
    /\ Righted
    /\ UNCHANGED <<record, torn, log, extensions, bounds>>

\* The manifest of the onboarding cannot be read: nobody is told.
SyncFails ==
    /\ At("sync")
    /\ hand' = Idle
    /\ hurt' = {"registry"} \cup (hurt \ IF hand.act = "remove" THEN {FileOf[hand.name]} ELSE {})
    /\ UNCHANGED <<skills, extensions, bounds>>

----------------------------------------------------------------------------
(* Extensions.                                                             *)

Id(op, e) == <<clock, op, e>>

\* handle_extension_install, of a manifest at hand or of a backup: what is installed
\* and still has its manifest is backed up first.
Install == \E e \in Extensions, v \in Versions :
    /\ Command /\ \A x \in Extensions : entry[x] # "torn"
    /\ LET updated == entry[e] # None /\ stored[e] # None
       IN  hand' = [Idle EXCEPT !.pc = IF updated THEN "backup" ELSE "store",
                !.act = "install", !.ext = e, !.version = v, !.id = Id("install", e),
                !.back = IF updated THEN "restore" ELSE "remove",
                !.entry = entry[e], !.stored = stored[e]]
    /\ UNCHANGED <<skills, extensions, hurt, spoilt, clock, crashes>>

\* handle_extension_remove, which wants the entry and the manifest.
RemoveExtension == \E e \in Extensions :
    /\ Command /\ \A x \in Extensions : entry[x] # "torn"
    /\ entry[e] # None /\ stored[e] # None
    /\ hand' = [Idle EXCEPT !.pc = "backup", !.act = "remove", !.ext = e, !.back = "restore",
            !.id = Id("remove", e), !.entry = entry[e], !.stored = stored[e]]
    /\ UNCHANGED <<skills, extensions, hurt, spoilt, clock, crashes>>

\* The manifest is stored before it is backed up.
BackupLate ==
    /\ At("backup")
    /\ backup' = [backup EXCEPT ![hand.id] = hand.version]
    /\ Goes("store")
    /\ UNCHANGED <<skills, stored, entry, receipt, hurt, bounds>>

Backup ==
    /\ At("backup")
    /\ backup' = [backup EXCEPT ![hand.id] = stored[hand.ext]]
    /\ Goes("store")
    /\ UNCHANGED <<skills, stored, entry, receipt, hurt, bounds>>

\* The manifest is written, or removed ...
Store ==
    /\ At("store")
    /\ stored' = [stored EXCEPT ![hand.ext] = hand.version]
    /\ Goes("enter")
    /\ UNCHANGED <<skills, entry, backup, receipt, hurt, bounds>>

\* ... and then its entry.
Enter ==
    /\ At("enter")
    /\ entry' = [entry EXCEPT ![hand.ext] = hand.version]
    /\ Goes("tell")
    /\ UNCHANGED <<skills, stored, backup, receipt, hurt, bounds>>

\* write_receipt, over one of the same second.
Tell ==
    /\ At("tell")
    /\ receipt' = [receipt EXCEPT ![hand.id] =
                    [back |-> hand.back, entry |-> hand.entry, stored |-> hand.stored]]
    /\ hurt' = hurt \ {hand.ext} /\ spoilt' = spoilt \ {hand.id}
    /\ hand' = Idle
    /\ UNCHANGED <<skills, stored, entry, backup, clock, ops, crashes>>

----------------------------------------------------------------------------
\* A command dies; the file it was writing may be left torn.
Dies(tearing) ==
    /\ ~At("idle") /\ crashes < MaxCrashes /\ crashes' = crashes + 1
    /\ hand' = Idle
    /\ spoilt' = spoilt \cup ({hand.id} \ {None})
    /\ hurt' = hurt \cup (IF hand.ext # None THEN {hand.ext}
                          ELSE {"registry", FileOf[hand.name]})
                    \cup (IF tearing /\ At("receipt") THEN {"log"} ELSE {})

Crash ==
    /\ Dies(FALSE)
    /\ UNCHANGED <<skills, extensions, clock, ops>>

\* Of a torn log only the lines are lost, a torn registry of skills is written anew by
\* the next command, and a torn receipt is one that is not there.
CrashTorn ==
    /\ Dies(TRUE)
    /\ \/ /\ At("record") /\ hand.act # "remove"
          /\ torn' = torn \cup {FileOf[hand.name]}
          /\ UNCHANGED <<record, log, registry, extensions>>
       \/ At("receipt") /\ log' = <<>> /\ UNCHANGED <<record, torn, registry, extensions>>
       \/ /\ At("backup") /\ backup' = [backup EXCEPT ![hand.id] = "torn"]
          /\ UNCHANGED <<skills, stored, entry, receipt>>
       \/ /\ At("store") /\ hand.version # None
          /\ stored' = [stored EXCEPT ![hand.ext] = "torn"]
          /\ UNCHANGED <<skills, entry, backup, receipt>>
       \/ /\ At("enter") /\ entry' = [e \in Extensions |-> "torn"]
          /\ UNCHANGED <<skills, stored, backup, receipt>>
    /\ UNCHANGED <<clock, ops>>

Tick ==
    /\ clock < MaxTime /\ At("idle") /\ clock' = clock + 1
    /\ UNCHANGED <<skills, extensions, hand, hurt, spoilt, ops, crashes>>

Init ==
    /\ record = [f \in Files |-> None] /\ torn = {} /\ log = <<>> /\ registry = record
    /\ stored = [e \in Extensions |-> None] /\ entry = stored
    /\ backup = [i \in Ids |-> None] /\ receipt = backup
    /\ hand = Idle /\ hurt = {} /\ spoilt = {} /\ clock = 0 /\ ops = 0 /\ crashes = 0

Next ==
    \/ SkillCommand \/ WriteRecord \/ AppendReceipt \/ Sync \/ SyncFails
    \/ Install \/ RemoveExtension \/ Backup \/ Store \/ Enter \/ Tell
    \/ Crash \/ CrashTorn \/ Tick

Spec == Init /\ [][Next]_installVars

----------------------------------------------------------------------------
(* Properties.                                                             *)

\* The receipts of a skill since it was last removed.
Since(f) ==
    LET told == SelectSeq(log, LAMBDA l : FileOf[l.name] = f)
        before == {i \in DOMAIN told : \E j \in i..Len(told) : told[j].act = "remove"}
    IN  SubSeq(told, Cardinality(before) + 1, Len(told))

\* The receipts tell what a skill's record is: none, or one under the id of the first
\* installation since its removal, switched as it was last switched; only of a skill
\* a command died on something is missing, until it is removed.  Between commands the
\* registry agrees with the records as of the last command, unless that died or could
\* not rebuild it.
ReceiptsTell == At("idle") =>
    /\ \A f \in Files \ hurt : "log" \notin hurt =>
        LET told == Since(f)
            switched == SelectSeq(told, LAMBDA l : l.act \in {"enable", "disable"})
        IN  record[f] = IF told = <<>> THEN None
                        ELSE [name |-> told[1].name,
                              enabled |-> switched = <<>>
                                          \/ switched[Len(switched)].act = "enable"]
    /\ "registry" \notin hurt => \A f \in Files : registry[f] = Listed(f)

\* The registry of extensions and the stored manifests agree between commands, but
\* for those a command died on; one that succeeds sets them right again.
EntriesAgree == At("idle") => \A e \in Extensions \ hurt : entry[e] \in {stored[e], "torn"}

\* A receipt's way back leads to where its command began: a removal if nothing was
\* whole, else the manifest as it was; unless a command of the same second died.
WayBack == At("idle") => \A i \in Ids \ spoilt : receipt[i] # None =>
    IF receipt[i].back = "remove"
    THEN receipt[i].entry = None \/ receipt[i].stored = None
    ELSE backup[i] = receipt[i].stored
================================================================================
