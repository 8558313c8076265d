---------------------------- MODULE DatabaseFile -----------------------------
(***************************************************************************)
(* The database file and its backup (package database, cmd/vspd,           *)
(* cmd/vspadmin): createdatabase, opening with the upgrades of old files,  *)
(* the hot backup that vspd writes while it runs, and the orderly shutdown *)
(* that ends with a copy of the closed file.                               *)
(*                                                                         *)
(* Two programs use the file, vspd and vspadmin, at most one process of    *)
(* each; bbolt's file lock lets one of them in at a time.  A transaction   *)
(* is atomic and durable (bbolt, external): a process that stops leaves    *)
(* the file as the last committed transaction made it.  Every transaction  *)
(* is numbered, and log is what the database meant after each of them.     *)
(***************************************************************************)
EXTENDS Naturals, Sequences

CONSTANTS
    Tickets,        \* the tickets
    Indexes,        \* last used address index an old file may have
    MaxCommits,     \* bound: transactions of handlers, the task and vspadmin
    MaxFaults,      \* bound: failed writes, crashes
    None,
    NoFile,         \* a file that does not exist
    Empty,          \* a file that bbolt has created, without a bucket of vspd
    Torn            \* part of a copy

ASSUME FileAssumption ==
    /\ Indexes \subseteq Nat
    /\ None \notin Nat \cup {"vspd", "vspadmin", "hot", "close", "received", "confirmed"}
    /\ MaxCommits \in Nat /\ MaxFaults \in Nat

VARIABLES
    file,           \* the database file
    temp, backup,   \* its -backup~ and -backup files
    lock,           \* who has the file open: vspd, vspadmin or None
    pc, next,       \* the two programs: step, and the next upgrade to run
    hot, snap,      \* the backup loop: step, and what it copies
    backupMtx,      \* who holds backupMtx: "hot", "close" or None
    reader,         \* a client downloads the database (BackupDB)
    log, lastWrite, \* what each transaction meant; the last one of vspd
    overtaken,      \* others wrote to the file while Close was copying it
    commits, faults

backups == <<temp, backup, hot, snap, backupMtx>>
programs == <<lock, pc, next, reader>>
history == <<log, lastWrite, overtaken>>
vars == <<file, backups, programs, history, commits, faults>>

latestVersion == 5
Programs == {"vspd", "vspadmin"}

-----------------------------------------------------------------------------
(* What is in a file.                                                      *)
IsDatabase(f) == f \notin {NoFile, Empty, Torn}

(* A ticket is stored as JSON or in a bucket of its own (enc); the hex of  *)
(* its fee transaction may be stored with it; the ID of the fee key is     *)
(* stored since the upgrade that moves tickets into buckets.  Before       *)
(* version 5 the one fee key and its last used index (or None) are in the  *)
(* root bucket; afterwards the keys are numbered from 0 in a bucket and    *)
(* the last one is active.  Keys are represented by their index, a ticket  *)
(* that is not in the database by None.                                    *)
Ticket == [enc : {"json", "bucket"}, status : {"received", "confirmed"},
           hex : BOOLEAN, xpubID : Nat \cup {None}]

Databases == [version : 1 .. latestVersion,
              tickets : [Tickets -> Ticket \cup {None}],
              root : Seq(Nat \cup {None}), xpubs : Seq(Nat),
              altsig : BOOLEAN, tx : Nat \ {0}]

ASSUME NoDatabase ==
    /\ None \notin Ticket
    /\ \A f \in {NoFile, Empty, Torn} : f \notin Databases
    /\ NoFile # Empty /\ NoFile # Torn /\ Empty # Torn

Database(version, tickets, root, xpubs, altsig, tx) ==
    [version |-> version, tickets |-> tickets, root |-> root,
     xpubs |-> xpubs, altsig |-> altsig, tx |-> tx]

(* A file as a release with that database version has left it.             *)
OldFile(version, statuses, index) ==
    Database(version,
             [t \in Tickets |-> IF statuses[t] = None THEN None ELSE
                 [enc |-> IF version < 3 THEN "json" ELSE "bucket",
                  status |-> statuses[t],
                  hex |-> version = 1 \/ statuses[t] = "received",
                  xpubID |-> IF version < 5 THEN None ELSE 0]],
             IF version < 5 THEN <<index>> ELSE <<>>,
             IF version < 5 THEN <<>> ELSE <<IF index = None THEN 0 ELSE index>>,
             version >= 4, 1)

(* The tickets in a database.                                              *)
Known(d) == {t \in Tickets : d.tickets[t] # None}

(* What a database means, whatever its version: the tickets with the hex   *)
(* that is still needed and their fee key, and the index of each key.      *)
Meaning(d) ==
    LET index(i) == IF i = None THEN 0 ELSE i
        keys == IF d.root # <<>> THEN d.root ELSE d.xpubs
    IN  [tickets |->
            [t \in Tickets |-> IF d.tickets[t] = None THEN None ELSE
                [status |-> d.tickets[t].status,
                 hex |-> d.tickets[t].hex /\ d.tickets[t].status # "confirmed",
                 xpubID |-> index(d.tickets[t].xpubID)]],
         keys |-> [i \in DOMAIN keys |-> index(keys[i])]]

Meanings ==
    [tickets : [Tickets -> {None} \cup
                           [status : {"received", "confirmed"}, hex : BOOLEAN, xpubID : Nat]],
     keys : Seq(Nat)]

(* The layout that belongs to a version.  The key of every ticket exists.  *)
HasLayout(d, version) ==
    /\ d.version = version
    /\ d.altsig <=> version >= 4
    /\ IF version < 5 THEN Len(d.root) = 1 /\ d.xpubs = <<>>
                      ELSE d.root = <<>> /\ d.xpubs # <<>>
    /\ \A t \in Known(d) :
          /\ d.tickets[t].enc = (IF version < 3 THEN "json" ELSE "bucket")
          /\ version >= 2 /\ d.tickets[t].status = "confirmed" => ~d.tickets[t].hex
          /\ d.tickets[t].xpubID \in (IF version < 5 THEN {None, 0} ELSE 0 .. Len(d.xpubs) - 1)

-----------------------------------------------------------------------------
(* The upgrades.  Each is one transaction that also stores the version; it *)
(* fails, and is rolled back, if the file is not as it expects.            *)

MapTickets(d, Op(_)) ==
    [t \in Tickets |-> IF t \in Known(d) THEN Op(d.tickets[t]) ELSE None]
AllJSON(d) == \A t \in Known(d) : d.tickets[t].enc = "json"

removeOldFeeTxUpgrade(d) ==
    LET dropHex(t) == [t EXCEPT !.hex = @ /\ t.status # "confirmed"]
    IN  [d EXCEPT !.version = 2, !.tickets = MapTickets(d, dropHex)]

(* The new record has every field of the current ticket; the key ID is the *)
(* zero value.                                                             *)
ticketBucketUpgrade(d) ==
    LET rewrite(t) == [t EXCEPT !.enc = "bucket", !.xpubID = 0]
    IN  [d EXCEPT !.version = 3, !.tickets = MapTickets(d, rewrite)]

altSignAddrUpgrade(d) == [d EXCEPT !.version = 4, !.altsig = TRUE]

(* Mutant: the index is read after it has been deleted.                    *)
BugXPubBucketUpgrade(d) ==
    LET setID(t) == [t EXCEPT !.xpubID = 0]
    IN  [d EXCEPT !.version = 5, !.root = <<>>, !.xpubs = <<0>>,
                  !.tickets = MapTickets(d, setID)]

xPubBucketUpgrade(d) ==
    LET setID(t) == [t EXCEPT !.xpubID = 0]
        idx == IF d.root[1] = None THEN 0 ELSE d.root[1]
    IN  [d EXCEPT !.version = 5, !.root = <<>>, !.xpubs = <<idx>>,
                  !.tickets = MapTickets(d, setID)]

(* upgrades[v] is what is run for version v.                               *)
CanUpgrade(v, d) ==
    CASE v \in {1, 2} -> AllJSON(d)
      [] v = 3 -> ~d.altsig
      [] v = 4 -> d.root # <<>>

upgrades(v, d) ==
    CASE v = 1 -> removeOldFeeTxUpgrade(d)
      [] v = 2 -> ticketBucketUpgrade(d)
      [] v = 3 -> altSignAddrUpgrade(d)
      [] v = 4 -> xPubBucketUpgrade(d)

-----------------------------------------------------------------------------
TypeOK ==
    /\ file \in Databases \cup {NoFile, Empty}
    /\ {temp, backup, snap} \subseteq Databases \cup {NoFile, Torn}
    /\ lock \in Programs \cup {None}
    /\ pc \in [Programs -> {"down", "create", "opening", "up", "stopping", "closing",
                           "closed", "copying", "renaming"}]
    /\ next \in [Programs -> 1 .. latestVersion]
    /\ hot \in {"off", "wait", "lock", "copy", "copying", "rename"}
    /\ backupMtx \in {"hot", "close", None}
    /\ reader \in BOOLEAN
    /\ log \in Seq(Meanings)
    /\ lastWrite \in Nat /\ overtaken \in BOOLEAN
    /\ commits \in 0 .. MaxCommits /\ faults \in 0 .. MaxFaults

Init ==
    /\ file \in {NoFile} \cup
            {OldFile(v, s, i) : v \in 1 .. latestVersion, i \in Indexes \cup {None},
                               s \in [Tickets -> {"received", "confirmed", None}]}
    /\ temp = NoFile /\ backup = NoFile
    /\ lock = None
    /\ pc = [p \in Programs |-> "down"]
    /\ next = [p \in Programs |-> latestVersion]
    /\ hot = "off" /\ snap = NoFile
    /\ backupMtx = None
    /\ reader = FALSE
    /\ log = IF file = NoFile THEN <<>> ELSE <<Meaning(file)>>
    /\ lastWrite = 0 /\ overtaken = FALSE
    /\ commits = 0 /\ faults = 0

GoTo(p, step) == pc' = [pc EXCEPT ![p] = step]
Fault == faults < MaxFaults /\ faults' = faults + 1

(* A process that ends releases the lock; its goroutines end with it.      *)
Ends(p) ==
    /\ GoTo(p, "down")
    /\ lock' = IF lock = p THEN None ELSE lock

-----------------------------------------------------------------------------
(* vspadmin createdatabase: nothing is done if there is a file.  bbolt     *)
(* creates it and one transaction fills it.                                *)
createDatabase ==
    /\ pc["vspadmin"] = "down"
    /\ file = NoFile
    /\ file' = Empty
    /\ lock' = "vspadmin"
    /\ GoTo("vspadmin", "create")
    /\ UNCHANGED <<backups, next, reader, history, commits, faults>>

NewDatabase == Database(latestVersion, [t \in Tickets |-> None], <<>>, <<0>>, TRUE, 1)

(* The transaction may fail; the file stays in either case.                *)
CreateNew ==
    /\ pc["vspadmin"] = "create"
    /\ \/ file' = NewDatabase /\ log' = <<Meaning(NewDatabase)>> /\ UNCHANGED faults
       \/ Fault /\ UNCHANGED <<file, log>>
    /\ Ends("vspadmin")
    /\ UNCHANGED <<backups, next, reader, lastWrite, overtaken, commits>>

(* Mutant: the upgrades start after the one that is due.                   *)
BugFirstUpgrade(d) == IF d.version = latestVersion THEN latestVersion ELSE d.version + 1

(* Upgrade runs upgrades[currentVersion:].                                 *)
FirstUpgrade(d) == d.version

(* Both programs open the file.  Opening fails, and changes nothing, if    *)
(* there is no file or the lock is not free within a second; reading the   *)
(* version of an empty file ends the process.                              *)
Open(p) ==
    /\ pc[p] = "down"
    /\ lock = None
    /\ IsDatabase(file)
    /\ lock' = p
    /\ next' = [next EXCEPT ![p] = FirstUpgrade(file)]
    /\ GoTo(p, "opening")
    /\ UNCHANGED <<file, backups, reader, history, commits, faults>>

(* p commits a transaction that writes d.                                  *)
Committed(p, d, meaning) ==
    /\ file' = [d EXCEPT !.tx = file.tx + 1]
    /\ log' = Append(log, meaning)
    /\ lastWrite' = IF p = "vspd" THEN file.tx + 1 ELSE lastWrite
    /\ UNCHANGED overtaken

(* One upgrade.  Upgrades are not supposed to change what a database       *)
(* means.  If one fails the program ends.                                  *)
Upgrade(p) ==
    /\ pc[p] = "opening"
    /\ next[p] < latestVersion
    /\ \/ /\ CanUpgrade(next[p], file)
          /\ Committed(p, upgrades(next[p], file), log[Len(log)])
          /\ next' = [next EXCEPT ![p] = @ + 1]
          /\ UNCHANGED <<pc, lock, faults>>
       \/ /\ ~CanUpgrade(next[p], file)
          /\ Ends(p)
          /\ UNCHANGED <<file, next, history, faults>>
       \/ /\ Fault
          /\ Ends(p)
          /\ UNCHANGED <<file, next, history>>
    /\ UNCHANGED <<backups, reader, commits>>

(* vspd starts its services; vspadmin goes on to retire the key.           *)
Opened(p) ==
    /\ pc[p] = "opening"
    /\ next[p] = latestVersion
    /\ GoTo(p, "up")
    /\ hot' = IF p = "vspd" THEN "wait" ELSE hot
    /\ UNCHANGED <<file, temp, backup, snap, backupMtx, lock, next, reader,
                   history, commits, faults>>

(* RetireXPub; vspadmin exits without closing the database.                *)
retireXPub ==
    /\ pc["vspadmin"] = "up"
    /\ \/ /\ commits < MaxCommits
          /\ commits' = commits + 1
          /\ LET d == [file EXCEPT !.xpubs = Append(@, 0)]
             IN  Committed("vspadmin", d, Meaning(d))
       \/ UNCHANGED <<file, history, commits>>
    /\ Ends("vspadmin")
    /\ UNCHANGED <<backups, next, reader, faults>>

-----------------------------------------------------------------------------
(* vspd at work, and its shutdown: the context is cancelled, the services  *)
(* end (the web server gives its handlers ten seconds and leaves those     *)
(* that are not done running), and the deferred Close runs.                *)

DatabaseOpen == lock = "vspd" /\ pc["vspd"] # "opening"

(* A ticket is registered, or its fee transaction is confirmed and the hex *)
(* dropped: what handlers and the background task write.                   *)
Write ==
    /\ DatabaseOpen
    /\ commits < MaxCommits
    /\ commits' = commits + 1
    /\ \E t \in Tickets :
          LET record == [enc |-> "bucket", status |-> "received", hex |-> TRUE,
                         xpubID |-> Len(file.xpubs) - 1]
              d == [file EXCEPT !.tickets[t] =
                       IF @ = None THEN record
                                   ELSE [@ EXCEPT !.status = "confirmed", !.hex = FALSE]]
          IN  Committed("vspd", d, Meaning(d))
    /\ UNCHANGED <<backups, programs, faults>>

(* The admin page downloads the database in a read transaction.            *)
BackupDB ==
    /\ pc["vspd"] \in {"up", "stopping"} /\ ~reader
    /\ reader' = TRUE
    /\ UNCHANGED <<file, backups, lock, pc, next, history, commits, faults>>

(* The download ends, at the latest when the write timeout of the server   *)
(* cuts it off.                                                            *)
downloaded ==
    /\ reader
    /\ reader' = FALSE
    /\ UNCHANGED <<file, backups, lock, pc, next, history, commits, faults>>

(* The timer fires, possibly after the context was cancelled: if both are  *)
(* ready, select takes either.                                             *)
WriteHotBackupFile ==
    /\ hot = "wait"
    /\ hot' = "lock"
    /\ UNCHANGED <<file, temp, backup, snap, backupMtx, programs, history, commits, faults>>

hotLock ==
    /\ hot = "lock"
    /\ backupMtx = None
    /\ backupMtx' = "hot"
    /\ hot' = "copy"
    /\ UNCHANGED <<file, temp, backup, snap, programs, history, commits, faults>>

(* Mutant: the copy is made in place.                                      *)
BugCopyFile ==
    /\ hot = "copy"
    /\ snap' = file
    /\ temp' = Torn
    /\ backup' = Torn
    /\ hot' = "copying"
    /\ UNCHANGED <<file, backupMtx, programs, history, commits, faults>>

(* The copy is made in a read transaction, into the temporary file.        *)
CopyFile ==
    /\ hot = "copy"
    /\ snap' = file
    /\ temp' = Torn
    /\ hot' = "copying"
    /\ UNCHANGED <<file, backup, backupMtx, programs, history, commits, faults>>

copied ==
    /\ hot = "copying"
    /\ temp' = snap
    /\ hot' = "rename"
    /\ UNCHANGED <<file, backup, snap, backupMtx, programs, history, commits, faults>>

hotReturn ==
    /\ hot' = "wait"
    /\ snap' = NoFile
    /\ backupMtx' = None

hotRename ==
    /\ hot = "rename"
    /\ backup' = temp
    /\ temp' = NoFile
    /\ hotReturn
    /\ UNCHANGED <<file, programs, history, commits, faults>>

(* Mutant: the mutex is not released when the copy fails.                  *)
BugHotFail ==
    /\ hot \in {"copy", "copying", "rename"}
    /\ Fault
    /\ hot' = "wait"
    /\ snap' = NoFile
    /\ UNCHANGED <<file, temp, backup, backupMtx, programs, history, commits>>

(* Opening the temporary file, writing it or renaming it fails.            *)
hotFail ==
    /\ hot \in {"copy", "copying", "rename"}
    /\ Fault
    /\ hotReturn
    /\ UNCHANGED <<file, temp, backup, programs, history, commits>>

hotBackup == WriteHotBackupFile \/ hotLock \/ CopyFile \/ copied \/ hotRename \/ hotFail

(* The loop sees that the context was cancelled.                           *)
hotDone ==
    /\ hot = "wait"
    /\ pc["vspd"] = "stopping"
    /\ hot' = "off"
    /\ UNCHANGED <<file, temp, backup, snap, backupMtx, programs, history, commits, faults>>

(* An interrupt, or a service that cannot be started (webapi.New).         *)
Shutdown ==
    /\ pc["vspd"] = "up"
    /\ GoTo("vspd", "stopping")
    /\ UNCHANGED <<file, backups, lock, next, reader, history, commits, faults>>

servicesDone ==
    /\ pc["vspd"] = "stopping"
    /\ hot = "off"
    /\ GoTo("vspd", "closing")
    /\ UNCHANGED <<file, backups, lock, next, reader, history, commits, faults>>

(* Mutant: the copy is made while the database is still open.              *)
BugClose ==
    /\ pc["vspd"] = "closing"
    /\ GoTo("vspd", "closed")
    /\ UNCHANGED <<file, backups, lock, next, reader, history, commits, faults>>

(* Close: the database is closed once all transactions have ended, which   *)
(* releases the lock; if that fails there is no backup.                    *)
Close ==
    /\ pc["vspd"] = "closing"
    /\ ~reader
    /\ \/ GoTo("vspd", "closed") /\ lock' = None /\ UNCHANGED faults
       \/ Fault /\ Ends("vspd")
    /\ UNCHANGED <<file, backups, next, reader, history, commits>>

closeLock ==
    /\ pc["vspd"] = "closed"
    /\ backupMtx = None
    /\ backupMtx' = "close"
    /\ snap' = file
    /\ temp' = Torn
    /\ GoTo("vspd", "copying")
    /\ UNCHANGED <<file, backup, hot, lock, next, reader, history, commits, faults>>

(* The copy has the file as it was when the copy began or as it is now, if *)
(* at most one transaction was committed meanwhile: it only writes pages   *)
(* that were free.  After two of them the copy may be of no use.  The      *)
(* temporary file is opened without truncating it: a longer one left over  *)
(* would keep its tail, but a file of bbolt does not become shorter.       *)
closeCopied ==
    /\ pc["vspd"] = "copying"
    /\ temp' \in {snap, file} \cup (IF file.tx > snap.tx + 1 THEN {Torn} ELSE {})
    /\ overtaken' = (overtaken \/ file.tx > snap.tx + 1)
    /\ GoTo("vspd", "renaming")
    /\ UNCHANGED <<file, backup, hot, snap, backupMtx, lock, next, reader, log, lastWrite, commits, faults>>

closeReturn ==
    /\ Ends("vspd")
    /\ backupMtx' = None
    /\ snap' = NoFile

closeRename ==
    /\ pc["vspd"] = "renaming"
    /\ backup' = temp
    /\ temp' = NoFile
    /\ closeReturn
    /\ UNCHANGED <<file, hot, next, reader, history, commits, faults>>

closeFail ==
    /\ pc["vspd"] \in {"copying", "renaming"}
    /\ Fault
    /\ closeReturn
    /\ UNCHANGED <<file, temp, backup, hot, next, reader, history, commits>>

(* A program is killed.  What it wrote to files is not lost.               *)
Crash(p) ==
    /\ pc[p] # "down"
    /\ Fault
    /\ Ends(p)
    /\ IF p = "vspd"
       THEN hot' = "off" /\ snap' = NoFile /\ backupMtx' = None /\ reader' = FALSE
       ELSE UNCHANGED <<hot, snap, backupMtx, reader>>
    /\ UNCHANGED <<file, temp, backup, next, history, commits>>

-----------------------------------------------------------------------------
Next ==
    \/ createDatabase \/ CreateNew \/ retireXPub
    \/ \E p \in Programs : Open(p) \/ Upgrade(p) \/ Opened(p) \/ Crash(p)
    \/ Write \/ BackupDB \/ downloaded
    \/ hotBackup \/ hotDone
    \/ Shutdown \/ servicesDone
    \/ Close \/ closeLock \/ closeCopied \/ closeRename \/ closeFail

Spec == Init /\ [][Next]_vars

(* A goroutine that can run does run; a download ends (the server has a    *)
(* write timeout); select takes a case that is ready sooner or later.  The *)
(* services that a shutdown waits for are taken to end: an RPC that Run    *)
(* has begun is not cancelled, and returns when dcrd answers or goes away. *)
FairSpec ==
    /\ Spec
    /\ SF_vars(hotDone)
    /\ WF_vars(hotLock) /\ WF_vars(CopyFile \/ copied \/ hotRename)
    /\ WF_vars(downloaded) /\ WF_vars(servicesDone)
    /\ WF_vars(Close) /\ WF_vars(closeLock) /\ WF_vars(closeCopied) /\ WF_vars(closeRename)

-----------------------------------------------------------------------------
(* Properties.                                                             *)

(* The database means what its last transaction made it mean: upgrades     *)
(* lose and invent nothing, whatever old version they start from and       *)
(* wherever they are interrupted (upgrade_v2.go to upgrade_v5.go).         *)
ContentKept == IsDatabase(file) => Meaning(file) = log[Len(log)] /\ file.tx = Len(log)

(* Wherever a program stops, the file has the layout of the version it     *)
(* says it has, so that the next start can go on, and every ticket has a   *)
(* fee key that exists; and a program that works with the database works   *)
(* with the latest version (Upgrade).                                      *)
LayoutKnown ==
    /\ IsDatabase(file) => HasLayout(file, file.version)
    /\ \A p \in Programs : pc[p] \in {"up", "stopping", "closing"} => file.version = latestVersion

(* At every moment, also while a new one is being written, the backup is a *)
(* complete database of the latest version as it once was.  The exception: *)
(* Close copies a file that it no longer locks, and others may write to it *)
(* twice meanwhile (WriteHotBackupFile, Close).                            *)
BackupUsable ==
    backup # NoFile =>
        IF IsDatabase(backup)
        THEN HasLayout(backup, latestVersion) /\ Meaning(backup) = log[backup.tx]
        ELSE overtaken

(* The backup that an orderly shutdown leaves contains every transaction   *)
(* that vspd has committed, those of handlers included that were still     *)
(* running when the web server had stopped (Close).                        *)
FinalBackup ==
    [][pc["vspd"] = "renaming" /\ backup' # backup /\ IsDatabase(backup')
          => backup'.tx >= lastWrite']_vars

(* A shutdown that was asked for ends, although a backup is under way,     *)
(* backups fail, and clients download the database (run, Close).           *)
ShutdownEnds == pc["vspd"] = "stopping" ~> pc["vspd"] = "down"
=============================================================================
