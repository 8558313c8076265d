------------------------- MODULE DatabaseFileProofs -------------------------
(***************************************************************************)
(* Proofs that the contents of the database survive upgrades, interrupted  *)
(* ones included, that the backup can be used at every moment, and that    *)
(* the last backup of an orderly shutdown is complete, for any number of   *)
(* tickets, transactions and failures.                                     *)
(*                                                                         *)
(* The argument.  Every transaction turns a file that is as it should be   *)
(* (Sound) into another; every file that is copied is sound when the copy  *)
(* begins, and log only grows, so a complete copy stays a database as it   *)
(* once was (Copy).  Only the program that holds the lock writes, and it   *)
(* holds the lock until Close, so what Close copies has every transaction  *)
(* of vspd.                                                                *)
(***************************************************************************)
EXTENDS DatabaseFile, SequenceTheorems, TLAPS

(* A database that means what its last transaction made it mean.           *)
Sound(d, l) ==
    /\ d \in Databases
    /\ HasLayout(d, d.version)
    /\ d.tx = Len(l) /\ Meaning(d) = l[Len(l)]

(* A copy of a database of the latest version as it once was.              *)
Copy(d, l) ==
    /\ d \in Databases
    /\ HasLayout(d, latestVersion)
    /\ d.tx \in 1 .. Len(l) /\ Meaning(d) = l[d.tx]

FileOK ==
    \/ file \in {NoFile, Empty} /\ lastWrite = 0 /\ log = <<>>
    \/ Sound(file, log) /\ lastWrite <= file.tx

(* Who has the database open holds the lock, and knows its version; from   *)
(* then on vspd finds a database of the latest version.                    *)
LockOK ==
    /\ \A p \in Programs : (lock = p) <=> (pc[p] \in {"create", "opening", "up", "stopping", "closing"})
    /\ pc["vspd"] # "create"
    /\ pc["vspadmin"] \in {"down", "create", "opening", "up"}
    /\ pc["vspadmin"] = "create" => file = Empty
    /\ \A p \in Programs : pc[p] = "opening" => file \in Databases /\ next[p] = file.version
    /\ \A p \in Programs : pc[p] \in {"up", "stopping", "closing", "closed", "copying", "renaming"}
          => file \in Databases /\ file.version = latestVersion
    /\ hot # "off" => pc["vspd"] \in {"up", "stopping"}

CopiesOK ==
    /\ backup = NoFile \/ Copy(backup, log) \/ (backup = Torn /\ overtaken)
    /\ hot = "copying" => Copy(snap, log)
    /\ hot = "rename" => Copy(temp, log)
    /\ pc["vspd"] = "copying" => Copy(snap, log) /\ lastWrite <= snap.tx
    /\ pc["vspd"] = "renaming" =>
          \/ Copy(temp, log) /\ lastWrite <= temp.tx
          \/ temp = Torn /\ overtaken

Inv == TypeOK /\ FileOK /\ LockOK /\ CopiesOK

-----------------------------------------------------------------------------
(* Databases: what they mean, and what the transactions make of them.      *)

(* The constants are distinct from what the model calls data.              *)
LEMMA Constants ==
    /\ None # "received" /\ None # "confirmed" /\ None # "hot" /\ None # "close"
    /\ None \notin Nat /\ None \notin Ticket /\ None \notin Programs
    /\ \A d \in Databases : d # NoFile /\ d # Empty /\ d # Torn
    /\ NoFile # Empty /\ NoFile # Torn /\ Empty # Torn
BY FileAssumption, NoDatabase DEF Programs

(* A database means something: HasLayout gives every ticket a key.         *)
LEMMA MeaningType ==
    ASSUME NEW d \in Databases
    PROVE  Meaning(d) \in Meanings
<1> DEFINE keys == IF d.root # <<>> THEN d.root ELSE d.xpubs
           index(i) == IF i = None THEN 0 ELSE i
           indexes == [i \in DOMAIN keys |-> index(keys[i])]
<1>1. keys \in Seq(Nat \cup {None})
  <2>1. d.root \in Seq(Nat \cup {None}) /\ d.xpubs \in Seq(Nat)
    BY DEF Databases
  <2>2. d.xpubs \in Seq(Nat \cup {None})
    BY <2>1, SeqMonotonic, Nat \subseteq Nat \cup {None}
  <2> QED
    BY <2>1, <2>2
<1>2. indexes \in Seq(Nat)
  <2>1. Len(keys) \in Nat /\ DOMAIN keys = 1 .. Len(keys) /\ keys \in [1 .. Len(keys) -> Nat \cup {None}]
    BY <1>1, LenProperties
  <2>2. indexes \in [1 .. Len(keys) -> Nat]
    BY <2>1
  <2> QED
    BY <2>1, <2>2, SeqDef
<1>3. ASSUME NEW t \in Tickets, d.tickets[t] # None
      PROVE  [status |-> d.tickets[t].status,
              hex |-> d.tickets[t].hex /\ d.tickets[t].status # "confirmed",
              xpubID |-> index(d.tickets[t].xpubID)]
                \in [status : {"received", "confirmed"}, hex : BOOLEAN, xpubID : Nat]
  BY <1>3 DEF Databases, Ticket
<1> QED
  BY <1>2, <1>3 DEF Meaning, Meanings

(* The number of a transaction is no part of what a database means.        *)
LEMMA Numbered ==
    ASSUME NEW d \in Databases, NEW n \in Nat \ {0}
    PROVE  /\ [d EXCEPT !.tx = n] \in Databases
           /\ [d EXCEPT !.tx = n].tx = n
           /\ [d EXCEPT !.tx = n].version = d.version
           /\ Meaning([d EXCEPT !.tx = n]) = Meaning(d)
           /\ \A v : HasLayout(d, v) => HasLayout([d EXCEPT !.tx = n], v)
<1> DEFINE e == [d EXCEPT !.tx = n]
<1>1. e \in Databases /\ e.tx = n
  BY DEF Databases
<1>2. /\ e.version = d.version /\ e.tickets = d.tickets /\ e.root = d.root
      /\ e.xpubs = d.xpubs /\ e.altsig = d.altsig
  BY DEF Databases
<1> HIDE DEF e
<1>3. Meaning(e) = Meaning(d)
  BY <1>2 DEF Meaning
<1>4. \A v : HasLayout(d, v) => HasLayout(e, v)
  BY <1>2 DEF HasLayout, Known
<1> QED
  BY <1>1, <1>2, <1>3, <1>4 DEF e

(* Two records that are the same as far as Meaning looks at them.          *)
SameTicket(r, s) ==
    /\ r # None /\ s # None
    /\ r.status = s.status
    /\ (r.hex /\ r.status # "confirmed") = (s.hex /\ s.status # "confirmed")
    /\ (IF r.xpubID = None THEN 0 ELSE r.xpubID) = (IF s.xpubID = None THEN 0 ELSE s.xpubID)

(* Two databases with the same tickets and keys mean the same.             *)
LEMMA SameMeaning ==
    ASSUME NEW d, NEW e,
           \A t \in Tickets : (d.tickets[t] = None /\ e.tickets[t] = None)
                              \/ SameTicket(d.tickets[t], e.tickets[t]),
           \/ d.root = e.root /\ d.xpubs = e.xpubs
           \/ /\ Len(d.root) = 1 /\ DOMAIN d.root = {1} /\ d.root # <<>>
              /\ e.root = <<>> /\ e.xpubs = <<IF d.root[1] = None THEN 0 ELSE d.root[1]>>
              /\ None \notin Nat /\ d.root[1] \in Nat \cup {None}
    PROVE  Meaning(d) = Meaning(e)
<1> DEFINE keys(x) == IF x.root # <<>> THEN x.root ELSE x.xpubs
           index(i) == IF i = None THEN 0 ELSE i
           said(x) == [t \in Tickets |-> IF x.tickets[t] = None THEN None ELSE
                          [status |-> x.tickets[t].status,
                           hex |-> x.tickets[t].hex /\ x.tickets[t].status # "confirmed",
                           xpubID |-> index(x.tickets[t].xpubID)]]
           indexes(x) == [i \in DOMAIN keys(x) |-> index(keys(x)[i])]
<1>1. said(d) = said(e)
  BY DEF SameTicket
<1>2. indexes(d) = indexes(e)
  <2>1. CASE d.root = e.root /\ d.xpubs = e.xpubs
    BY <2>1
  <2>2. CASE Len(d.root) = 1 /\ DOMAIN d.root = {1} /\ d.root # <<>> /\ e.root = <<>>
             /\ e.xpubs = <<index(d.root[1])>> /\ None \notin Nat /\ d.root[1] \in Nat \cup {None}
    <3>1. indexes(d) = [i \in {1} |-> index(d.root[1])]
      BY <2>2
    <3>2. indexes(e) = [i \in {1} |-> index(index(d.root[1]))]
      BY <2>2
    <3> QED
      BY <2>2, <3>1, <3>2
  <2> QED
    BY <2>1, <2>2
<1>3. \A x : Meaning(x) = [tickets |-> said(x), keys |-> indexes(x)]
  BY DEF Meaning
<1> HIDE DEF said, indexes
<1> QED
  BY <1>1, <1>2, <1>3

(* What the upgrades have in common: a step to version v + 1 that says the *)
(* same, in the layout of that version (upgrades).                         *)
Upgraded(d, e, v) ==
    /\ e \in Databases /\ HasLayout(e, v + 1)
    /\ e.tx = d.tx /\ Meaning(e) = Meaning(d)

(* The layouts before version 5.                                           *)
LEMMA OldLayout ==
    ASSUME NEW d, NEW v \in 1 .. 4
    PROVE  HasLayout(d, v) <=>
              /\ d.version = v
              /\ d.altsig <=> v = 4
              /\ Len(d.root) = 1 /\ d.xpubs = <<>>
              /\ \A t \in Known(d) :
                    /\ d.tickets[t].enc = (IF v < 3 THEN "json" ELSE "bucket")
                    /\ v # 1 /\ d.tickets[t].status = "confirmed" => ~d.tickets[t].hex
                    /\ d.tickets[t].xpubID \in {None, 0}
BY DEF HasLayout

(* removeOldFeeTxUpgrade.                                                  *)
LEMMA UpgradeV2 ==
    ASSUME NEW d \in Databases, HasLayout(d, 1)
    PROVE  Upgraded(d, upgrades(1, d), 1)
<1> DEFINE e == upgrades(1, d)
           new(t) == [d.tickets[t] EXCEPT !.hex = @ /\ d.tickets[t].status # "confirmed"]
<1>1. e = [d EXCEPT !.version = 2, !.tickets = [t \in Tickets |-> IF t \in Known(d) THEN new(t) ELSE None]]
  BY DEF upgrades, removeOldFeeTxUpgrade, MapTickets
<1>2. /\ e.tickets = [t \in Tickets |-> IF t \in Known(d) THEN new(t) ELSE None]
      /\ e.version = 2 /\ e.root = d.root /\ e.xpubs = d.xpubs /\ e.altsig = d.altsig /\ e.tx = d.tx
      /\ e = [version |-> 2, tickets |-> e.tickets, root |-> d.root, xpubs |-> d.xpubs,
              altsig |-> d.altsig, tx |-> d.tx]
  BY <1>1 DEF Databases
<1> HIDE DEF e
<1>3. ASSUME NEW t \in Known(d)
      PROVE  /\ d.tickets[t] \in Ticket /\ new(t) \in Ticket
             /\ new(t).enc = d.tickets[t].enc /\ new(t).status = d.tickets[t].status
             /\ new(t).hex = (d.tickets[t].hex /\ d.tickets[t].status # "confirmed")
             /\ new(t).xpubID = d.tickets[t].xpubID
  <2>1. d.tickets[t] \in Ticket
    BY <1>3 DEF Databases, Known
  <2> QED
    BY <2>1 DEF Ticket
<1> HIDE DEF new
<1>t. /\ Known(e) = Known(d)
      /\ \A t \in Known(d) : e.tickets[t] = new(t)
  BY <1>2, <1>3, Constants DEF Known
<1>4. e \in Databases
  <2>1. e.tickets \in [Tickets -> Ticket \cup {None}]
    BY <1>2, <1>3
  <2> QED
    BY <1>2, <2>1 DEF Databases, latestVersion
<1>5. HasLayout(e, 2)
  <2>1. \A t \in Known(e) :
           /\ e.tickets[t].enc = "json"
           /\ e.tickets[t].status = "confirmed" => ~e.tickets[t].hex
           /\ e.tickets[t].xpubID \in {None, 0}
    BY <1>3, <1>t, OldLayout DEF Ticket
  <2>2. e.version = 2 /\ ~e.altsig /\ Len(e.root) = 1 /\ e.xpubs = <<>>
    BY <1>2, OldLayout
  <2> QED
    BY <2>1, <2>2, OldLayout
<1>6. Meaning(e) = Meaning(d)
  <2>1. \A t \in Tickets : (e.tickets[t] = None /\ d.tickets[t] = None)
                           \/ SameTicket(e.tickets[t], d.tickets[t])
    <3>1. \A t \in Known(d) : SameTicket(e.tickets[t], d.tickets[t])
      BY <1>3, <1>t, Constants DEF SameTicket
    <3> QED
      BY <1>t, <3>1 DEF Known
  <2> QED
    BY <1>2, <2>1, SameMeaning
<1> QED
  BY <1>2, <1>4, <1>5, <1>6 DEF Upgraded, e

(* ticketBucketUpgrade.                                                    *)
LEMMA UpgradeV3 ==
    ASSUME NEW d \in Databases, HasLayout(d, 2)
    PROVE  Upgraded(d, upgrades(2, d), 2)
<1> DEFINE e == upgrades(2, d)
           new(t) == [d.tickets[t] EXCEPT !.enc = "bucket", !.xpubID = 0]
<1>1. e = [d EXCEPT !.version = 3, !.tickets = [t \in Tickets |-> IF t \in Known(d) THEN new(t) ELSE None]]
  BY DEF upgrades, ticketBucketUpgrade, MapTickets
<1>e. e.tickets = [t \in Tickets |-> IF t \in Known(d) THEN new(t) ELSE None]
  BY <1>1 DEF Databases
<1>2. /\ e.version = 3 /\ e.altsig = d.altsig /\ e.tx = d.tx
      /\ e.root = d.root /\ e.xpubs = d.xpubs
      /\ e = [version |-> 3, tickets |-> e.tickets, root |-> e.root, xpubs |-> e.xpubs,
              altsig |-> d.altsig, tx |-> d.tx]
  BY <1>1 DEF Databases
<1>k. e.root \in Seq(Nat \cup {None}) /\ e.xpubs \in Seq(Nat)
  BY <1>2 DEF Databases
<1> HIDE DEF e
<1>3. ASSUME NEW t \in Known(d)
      PROVE  /\ d.tickets[t] \in Ticket /\ new(t) \in Ticket
             /\ new(t).enc = "bucket" /\ new(t).status = d.tickets[t].status
             /\ new(t).hex = d.tickets[t].hex /\ new(t).xpubID = 0
  <2>1. d.tickets[t] \in Ticket
    BY <1>3 DEF Databases, Known
  <2> QED
    BY <2>1 DEF Ticket
<1> HIDE DEF new
<1>t. /\ Known(e) = Known(d)
      /\ \A t \in Known(d) : e.tickets[t] = new(t)
  <2>1. \A t \in Known(d) : t \in Tickets /\ e.tickets[t] = new(t) /\ new(t) # None
    BY <1>e, <1>3, Constants DEF Known
  <2>2. \A t \in Tickets \ Known(d) : e.tickets[t] = None
    BY <1>e
  <2> QED
    BY <2>1, <2>2 DEF Known
<1>4. e \in Databases
  <2>1. e.tickets \in [Tickets -> Ticket \cup {None}]
    BY <1>e, <1>3
  <2> QED
    BY <1>2, <1>k, <2>1 DEF Databases, latestVersion
<1>5. HasLayout(e, 3)
  <2>1. \A t \in Known(e) :
           /\ e.tickets[t].enc = "bucket"
           /\ e.tickets[t].status = "confirmed" => ~e.tickets[t].hex
           /\ e.tickets[t].xpubID \in {None, 0}
    BY <1>3, <1>t, OldLayout DEF Ticket
  <2>2. e.version = 3 /\ ~e.altsig /\ Len(e.root) = 1 /\ e.xpubs = <<>>
    BY <1>2, OldLayout
  <2> QED
    BY <2>1, <2>2, OldLayout
<1>6. Meaning(e) = Meaning(d)
  <2>1. \A t \in Tickets : (e.tickets[t] = None /\ d.tickets[t] = None)
                           \/ SameTicket(e.tickets[t], d.tickets[t])
    <3>1. \A t \in Known(d) : SameTicket(e.tickets[t], d.tickets[t])
      BY <1>3, <1>t, OldLayout, Constants DEF SameTicket
    <3> QED
      BY <1>t, <3>1 DEF Known
  <2> QED
    BY <1>2, <2>1, SameMeaning
<1> QED
  BY <1>2, <1>4, <1>5, <1>6 DEF Upgraded, e

(* altSignAddrUpgrade.                                                     *)
LEMMA UpgradeV4 ==
    ASSUME NEW d \in Databases, HasLayout(d, 3)
    PROVE  Upgraded(d, upgrades(3, d), 3)
<1> DEFINE e == upgrades(3, d)
<1>1. e = [d EXCEPT !.version = 4, !.altsig = TRUE]
  BY DEF upgrades, altSignAddrUpgrade
<1>2. /\ e.tickets = d.tickets /\ e.version = 4 /\ e.altsig = TRUE /\ e.tx = d.tx
      /\ e.root = d.root /\ e.xpubs = d.xpubs
      /\ e = [version |-> 4, tickets |-> d.tickets, root |-> d.root, xpubs |-> d.xpubs,
              altsig |-> TRUE, tx |-> d.tx]
  BY <1>1 DEF Databases
<1> HIDE DEF e
<1>d. e \in Databases
  BY <1>2 DEF Databases, latestVersion
<1>3. HasLayout(e, 4)
  <2>1. Known(e) = Known(d)
    BY <1>2 DEF Known
  <2> QED
    BY <1>2, <2>1, OldLayout
<1>4. Meaning(e) = Meaning(d)
  BY <1>2 DEF Meaning
<1> QED
  BY <1>2, <1>d, <1>3, <1>4 DEF Upgraded, e

(* xPubBucketUpgrade.                                                      *)
LEMMA UpgradeV5 ==
    ASSUME NEW d \in Databases, HasLayout(d, 4)
    PROVE  Upgraded(d, upgrades(4, d), 4)
<1> DEFINE e == upgrades(4, d)
           new(t) == [d.tickets[t] EXCEPT !.xpubID = 0]
           idx == IF d.root[1] = None THEN 0 ELSE d.root[1]
<1>1. e = [d EXCEPT !.version = 5, !.root = <<>>, !.xpubs = <<idx>>,
                    !.tickets = [t \in Tickets |-> IF t \in Known(d) THEN new(t) ELSE None]]
  BY DEF upgrades, xPubBucketUpgrade, MapTickets
<1>e. e.tickets = [t \in Tickets |-> IF t \in Known(d) THEN new(t) ELSE None]
  BY <1>1 DEF Databases
<1>2. /\ e.version = 5 /\ e.altsig = d.altsig /\ e.tx = d.tx
      /\ e.root = <<>> /\ e.xpubs = <<idx>>
  BY <1>1 DEF Databases
<1>r. e = [version |-> 5, tickets |-> e.tickets, root |-> e.root, xpubs |-> e.xpubs,
           altsig |-> d.altsig, tx |-> d.tx]
  BY <1>1 DEF Databases
<1>k. e.root \in Seq(Nat \cup {None}) /\ e.xpubs \in Seq(Nat)
  <2>1. idx \in Nat
    BY OldLayout DEF Databases
  <2>2. \A n \in Nat : <<n>> \in Seq(Nat)
    OBVIOUS
  <2> QED
    BY <1>2, <2>1, <2>2, EmptySeq
<1> HIDE DEF e
<1>3. ASSUME NEW t \in Known(d)
      PROVE  /\ d.tickets[t] \in Ticket /\ new(t) \in Ticket
             /\ new(t).enc = d.tickets[t].enc /\ new(t).status = d.tickets[t].status
             /\ new(t).hex = d.tickets[t].hex /\ new(t).xpubID = 0
  <2>1. d.tickets[t] \in Ticket
    BY <1>3 DEF Databases, Known
  <2> QED
    BY <2>1 DEF Ticket
<1> HIDE DEF new
<1>t. /\ Known(e) = Known(d)
      /\ \A t \in Known(d) : e.tickets[t] = new(t)
  <2>1. \A t \in Known(d) : t \in Tickets /\ e.tickets[t] = new(t) /\ new(t) # None
    BY <1>e, <1>3, Constants DEF Known
  <2>2. \A t \in Tickets \ Known(d) : e.tickets[t] = None
    BY <1>e
  <2> QED
    BY <2>1, <2>2 DEF Known
<1>4. e \in Databases
  <2>1. e.tickets \in [Tickets -> Ticket \cup {None}]
    BY <1>e, <1>3
  <2> QED
    BY <1>r, <1>k, <2>1 DEF Databases, latestVersion
<1>5. HasLayout(e, 5)
  <2>1. \A t \in Known(e) :
           /\ e.tickets[t].enc = "bucket"
           /\ e.tickets[t].status = "confirmed" => ~e.tickets[t].hex
           /\ e.tickets[t].xpubID = 0
    BY <1>3, <1>t, OldLayout DEF Ticket
  <2>2. e.version = 5 /\ e.altsig /\ e.root = <<>> /\ Len(e.xpubs) = 1 /\ e.xpubs # <<>>
    BY <1>2, OldLayout
  <2> QED
    BY <2>1, <2>2 DEF HasLayout
<1>6. Meaning(e) = Meaning(d)
  <2>1. \A t \in Tickets : (e.tickets[t] = None /\ d.tickets[t] = None)
                           \/ SameTicket(d.tickets[t], e.tickets[t])
    <3>1. \A t \in Known(d) : SameTicket(d.tickets[t], e.tickets[t])
      BY <1>3, <1>t, OldLayout, Constants DEF SameTicket
    <3> QED
      BY <1>t, <3>1 DEF Known
  <2> QED
    <3>1. Len(d.root) = 1 /\ DOMAIN d.root = {1} /\ d.root # <<>> /\ d.root[1] \in Nat \cup {None}
      BY OldLayout DEF Databases
    <3>2. e.root = <<>> /\ e.xpubs = <<IF d.root[1] = None THEN 0 ELSE d.root[1]>>
      BY <1>2
    <3> QED
      BY <2>1, <3>1, <3>2, Constants, SameMeaning
<1> QED
  BY <1>2, <1>4, <1>5, <1>6 DEF Upgraded, e

(* Every upgrade says the same, in the next layout.                        *)
LEMMA EveryUpgrade ==
    ASSUME NEW v \in 1 .. 4, NEW d \in Databases, HasLayout(d, v)
    PROVE  Upgraded(d, upgrades(v, d), v)
<1>1. v = 1 \/ v = 2 \/ v = 3 \/ v = 4
  OBVIOUS
<1> QED
  BY <1>1, UpgradeV2, UpgradeV3, UpgradeV4, UpgradeV5

(* The current layout.                                                     *)
LEMMA NewLayout ==
    ASSUME NEW d
    PROVE  HasLayout(d, latestVersion) <=>
              /\ d.version = 5
              /\ d.altsig
              /\ d.root = <<>> /\ d.xpubs # <<>>
              /\ \A t \in Known(d) :
                    /\ d.tickets[t].enc = "bucket"
                    /\ d.tickets[t].status = "confirmed" => ~d.tickets[t].hex
                    /\ d.tickets[t].xpubID \in 0 .. Len(d.xpubs) - 1
BY DEF HasLayout, latestVersion

(* A new database (CreateNew).                                             *)
LEMMA NewIsOK == NewDatabase \in Databases /\ HasLayout(NewDatabase, latestVersion)
                 /\ NewDatabase.tx = 1
<1> DEFINE e == NewDatabase
<1>1. e = [version |-> 5, tickets |-> [t \in Tickets |-> None], root |-> <<>>, xpubs |-> <<0>>,
           altsig |-> TRUE, tx |-> 1]
  BY DEF NewDatabase, Database, latestVersion
<1>2. <<>> \in Seq(Nat \cup {None}) /\ <<0>> \in Seq(Nat)
  BY EmptySeq
<1> HIDE DEF e
<1>3. e \in Databases
  BY <1>1, <1>2 DEF Databases, latestVersion
<1>4. Known(e) = {} /\ e.version = 5 /\ e.altsig /\ e.root = <<>> /\ e.xpubs # <<>> /\ e.tx = 1
  BY <1>1 DEF Known
<1> QED
  BY <1>3, <1>4, NewLayout DEF e

(* A file as an old release has left it (Init).                            *)
LEMMA OldIsOK ==
    ASSUME NEW v \in 1 .. latestVersion, NEW i \in Nat \cup {None},
           NEW s \in [Tickets -> {"received", "confirmed", None}]
    PROVE  /\ OldFile(v, s, i) \in Databases
           /\ HasLayout(OldFile(v, s, i), v)
           /\ OldFile(v, s, i).tx = 1 /\ OldFile(v, s, i).version = v
<1> DEFINE e == OldFile(v, s, i)
           enc == IF v < 3 THEN "json" ELSE "bucket"
           hex(t) == v = 1 \/ s[t] = "received"
           xpubID == IF v < 5 THEN None ELSE 0
           new(t) == [enc |-> enc, status |-> s[t], hex |-> hex(t), xpubID |-> xpubID]
           root == IF v < 5 THEN <<i>> ELSE <<>>
           xpubs == IF v < 5 THEN <<>> ELSE <<IF i = None THEN 0 ELSE i>>
<1>0. v \in 1 .. 5
  BY DEF latestVersion
<1>1. e = [version |-> v, tickets |-> [t \in Tickets |-> IF s[t] = None THEN None ELSE new(t)],
           root |-> root, xpubs |-> xpubs, altsig |-> v >= 4, tx |-> 1]
  BY DEF OldFile, Database
<1>2. root \in Seq(Nat \cup {None}) /\ xpubs \in Seq(Nat)
  <2>1. \A n \in Nat \cup {None} : <<n>> \in Seq(Nat \cup {None})
    OBVIOUS
  <2>2. \A n \in Nat : <<n>> \in Seq(Nat)
    OBVIOUS
  <2> QED
    BY <2>1, <2>2, EmptySeq
<1>3. ASSUME NEW t \in Tickets, s[t] # None
      PROVE  /\ new(t) \in Ticket /\ new(t).enc = (IF v < 3 THEN "json" ELSE "bucket")
             /\ v >= 2 /\ new(t).status = "confirmed" => ~new(t).hex
             /\ new(t).xpubID \in (IF v < 5 THEN {None} ELSE {0})
  <2>1. s[t] \in {"received", "confirmed"}
    BY <1>3
  <2>2. enc \in {"json", "bucket"} /\ hex(t) \in BOOLEAN /\ xpubID \in Nat \cup {None}
    BY <1>0
  <2>3. v >= 2 /\ s[t] = "confirmed" => ~hex(t)
    BY <1>0
  <2>4. xpubID \in (IF v < 5 THEN {None} ELSE {0})
    BY <1>0
  <2> HIDE DEF enc, hex, xpubID
  <2>5. new(t) \in Ticket
    BY <2>1, <2>2 DEF Ticket
  <2> QED
    BY <2>3, <2>4, <2>5 DEF enc
<1>4. IF v < 5 THEN Len(root) = 1 /\ xpubs = <<>> ELSE root = <<>> /\ xpubs # <<>> /\ Len(xpubs) = 1
  OBVIOUS
<1> HIDE DEF e, new, root, xpubs, enc, hex, xpubID
<1>5. e \in Databases
  <2>1. [t \in Tickets |-> IF s[t] = None THEN None ELSE new(t)] \in [Tickets -> Ticket \cup {None}]
    BY <1>3
  <2>2. (v >= 4) \in BOOLEAN /\ 1 \in Nat \ {0}
    OBVIOUS
  <2> QED
    BY <1>0, <1>1, <1>2, <2>1, <2>2 DEF Databases, latestVersion
<1>6. \A t \in Known(e) : t \in Tickets /\ s[t] # None /\ e.tickets[t] = new(t)
  BY <1>1 DEF Known
<1>7. e.version = v /\ e.root = root /\ e.xpubs = xpubs /\ (e.altsig <=> v >= 4) /\ e.tx = 1
  BY <1>1
<1>8. HasLayout(e, v)
  <2>1. \A t \in Known(e) :
           /\ e.tickets[t].enc = (IF v < 3 THEN "json" ELSE "bucket")
           /\ v >= 2 /\ e.tickets[t].status = "confirmed" => ~e.tickets[t].hex
           /\ e.tickets[t].xpubID \in (IF v < 5 THEN {None, 0} ELSE 0 .. Len(e.xpubs) - 1)
    <3> TAKE t \in Known(e)
    <3>0. t \in Tickets /\ s[t] # None /\ e.tickets[t] = new(t)
      BY <1>6
    <3>1. v < 5 \/ v = 5
      BY <1>0
    <3>2. v < 5 \/ Len(e.xpubs) = 1
      BY <1>4, <1>7
    <3> QED
      BY <1>3, <3>0, <3>1, <3>2
  <2> QED
    BY <1>4, <1>7, <2>1 DEF HasLayout
<1> QED
  BY <1>5, <1>7, <1>8 DEF e

(* A key more (retireXPub).                                                *)
LEMMA RetireIsOK ==
    ASSUME NEW d \in Databases, HasLayout(d, latestVersion)
    PROVE  /\ [d EXCEPT !.xpubs = Append(@, 0)] \in Databases
           /\ HasLayout([d EXCEPT !.xpubs = Append(@, 0)], latestVersion)
<1> DEFINE more == Append(d.xpubs, 0)
           e == [d EXCEPT !.xpubs = more]
<1>1. /\ d.xpubs \in Seq(Nat) /\ Len(d.xpubs) \in Nat
      /\ more \in Seq(Nat) /\ Len(more) = Len(d.xpubs) + 1
  BY DEF Databases
<1> HIDE DEF more
<1>2. e \in Databases
  BY <1>1 DEF Databases
<1>3. /\ e.version = d.version /\ e.altsig = d.altsig /\ e.root = d.root
      /\ e.tickets = d.tickets /\ e.xpubs = more
  BY DEF Databases
<1> HIDE DEF e
<1>4. more # <<>>
  BY <1>1, EmptySeq
<1>5. Known(e) = Known(d)
  BY <1>3 DEF Known
<1>6. \A t \in Known(e) : e.tickets[t].xpubID \in 0 .. Len(e.xpubs) - 1
  <2>1. \A t \in Known(d) : d.tickets[t].xpubID \in 0 .. Len(d.xpubs) - 1
    BY NewLayout
  <2> QED
    BY <1>1, <1>3, <1>5, <2>1
<1>7. HasLayout(e, latestVersion)
  BY <1>3, <1>4, <1>5, <1>6, NewLayout
<1> QED
  BY <1>2, <1>7 DEF e, more

(* A ticket is registered, or its fee is confirmed (Write).                *)
Written(d, t) ==
    [d EXCEPT !.tickets[t] =
        IF @ = None THEN [enc |-> "bucket", status |-> "received", hex |-> TRUE,
                          xpubID |-> Len(d.xpubs) - 1]
                    ELSE [@ EXCEPT !.status = "confirmed", !.hex = FALSE]]

(* What Write writes is a database of the latest version.                  *)
LEMMA WriteIsOK ==
    ASSUME NEW d \in Databases, HasLayout(d, latestVersion), NEW u \in Tickets
    PROVE  /\ Written(d, u) \in Databases
           /\ HasLayout(Written(d, u), latestVersion)
<1> DEFINE e == Written(d, u)
           record == [enc |-> "bucket", status |-> "received", hex |-> TRUE,
                      xpubID |-> Len(d.xpubs) - 1]
           confirmed == [d.tickets[u] EXCEPT !.status = "confirmed", !.hex = FALSE]
           new == IF d.tickets[u] = None THEN record ELSE confirmed
<1>1. e = [d EXCEPT !.tickets = [d.tickets EXCEPT ![u] = new]]
  BY DEF Written, Databases
<1>2. d.tickets \in [Tickets -> Ticket \cup {None}] /\ d.xpubs \in Seq(Nat)
  BY DEF Databases
<1>3. Len(d.xpubs) \in Nat \ {0}
  BY <1>2, NewLayout, EmptySeq
<1>4. /\ new \in Ticket /\ new.enc = "bucket"
      /\ new.status = "confirmed" => ~new.hex
      /\ new.xpubID \in 0 .. Len(d.xpubs) - 1
  <2>1. CASE d.tickets[u] = None
    <3>1. new = record
      BY <2>1
    <3> HIDE DEF new
    <3> QED
      BY <1>3, <3>1 DEF Ticket
  <2>2. CASE d.tickets[u] # None
    <3>1. new = confirmed /\ d.tickets[u] \in Ticket
      BY <1>2, <2>2
    <3>2. d.tickets[u].enc = "bucket" /\ d.tickets[u].xpubID \in 0 .. Len(d.xpubs) - 1
      BY <2>2, NewLayout DEF Known
    <3> HIDE DEF new
    <3> QED
      BY <3>1, <3>2 DEF Ticket
  <2> QED
    BY <2>1, <2>2
<1> HIDE DEF new
<1>5. /\ e.version = d.version /\ e.altsig = d.altsig /\ e.root = d.root /\ e.xpubs = d.xpubs
      /\ e.tickets = [d.tickets EXCEPT ![u] = new]
      /\ e = [version |-> d.version, tickets |-> e.tickets, root |-> d.root, xpubs |-> d.xpubs,
              altsig |-> d.altsig, tx |-> d.tx]
  BY <1>1 DEF Databases
<1> HIDE DEF e
<1>6. e \in Databases
  <2>1. e.tickets \in [Tickets -> Ticket \cup {None}]
    BY <1>2, <1>4, <1>5
  <2> QED
    BY <1>5, <2>1 DEF Databases
<1>7. \A t \in Known(e) :
         /\ e.tickets[t].enc = "bucket"
         /\ e.tickets[t].status = "confirmed" => ~e.tickets[t].hex
         /\ e.tickets[t].xpubID \in 0 .. Len(e.xpubs) - 1
  <2> TAKE t \in Known(e)
  <2>1. t \in Tickets
    BY DEF Known
  <2>2. CASE t = u
    BY <1>2, <1>4, <1>5, <2>2
  <2>3. CASE t # u
    <3>1. e.tickets[t] = d.tickets[t] /\ t \in Known(d)
      BY <1>2, <1>5, <2>1, <2>3 DEF Known
    <3> QED
      BY <1>5, <3>1, NewLayout
  <2> QED
    BY <2>2, <2>3
<1>8. HasLayout(e, latestVersion)
  BY <1>5, <1>7, NewLayout
<1> QED
  BY <1>6, <1>8 DEF e

(* log only grows, so a copy stays a database as it once was.              *)
LEMMA LogGrows ==
    ASSUME NEW l \in Seq(Meanings), NEW m \in Meanings
    PROVE  /\ Append(l, m) \in Seq(Meanings)
           /\ Len(Append(l, m)) = Len(l) + 1 /\ Append(l, m)[Len(l) + 1] = m
           /\ \A d : Copy(d, l) => Copy(d, Append(l, m))
<1>1. /\ Append(l, m) \in Seq(Meanings) /\ Len(l) \in Nat
      /\ Len(Append(l, m)) = Len(l) + 1 /\ Append(l, m)[Len(l) + 1] = m
      /\ \A i \in 1 .. Len(l) : Append(l, m)[i] = l[i]
  OBVIOUS
<1> QED
  BY <1>1 DEF Copy

-----------------------------------------------------------------------------
(* Transactions.                                                           *)

(* What the invariant says of a file that is a database.                   *)
LEMMA FileSound ==
    ASSUME Inv, file \in Databases
    PROVE  /\ HasLayout(file, file.version) /\ file.version \in 1 .. latestVersion
           /\ log \in Seq(Meanings) /\ Len(log) \in Nat \ {0}
           /\ file.tx = Len(log) /\ Meaning(file) = log[Len(log)]
           /\ lastWrite \in Nat /\ lastWrite <= file.tx
<1>1. Sound(file, log) /\ lastWrite <= file.tx
  BY Constants DEF Inv, FileOK
<1>2. file.tx \in Nat \ {0} /\ file.version \in 1 .. latestVersion
  BY DEF Databases
<1> QED
  BY <1>1, <1>2 DEF Inv, TypeOK, Sound

(* A file of the latest version can be copied.                             *)
LEMMA FileCopied ==
    ASSUME Inv, file \in Databases, file.version = latestVersion
    PROVE  Copy(file, log)
BY FileSound DEF Copy

(* A transaction keeps the contents of the file and every copy.            *)
LEMMA CommitStep ==
    ASSUME Inv, file \in Databases, NEW p \in Programs,
           NEW d \in Databases, HasLayout(d, d.version), Committed(p, d, Meaning(d))
    PROVE  /\ file' \in Databases /\ file'.version = d.version
           /\ FileOK'
           /\ log' \in Seq(Meanings) /\ lastWrite' \in Nat /\ overtaken' = overtaken
           /\ p # "vspd" => lastWrite' = lastWrite
           /\ \A x : Copy(x, log) => Copy(x, log')
<1> DEFINE n == file.tx + 1
<1>1. n \in Nat \ {0} /\ n = Len(log) + 1
  BY FileSound
<1>2. /\ file' = [d EXCEPT !.tx = n]
      /\ log' = Append(log, Meaning(d))
      /\ lastWrite' = IF p = "vspd" THEN n ELSE lastWrite
      /\ overtaken' = overtaken
  BY DEF Committed
<1> HIDE DEF n
<1>3. /\ file' \in Databases /\ file'.version = d.version /\ file'.tx = n
      /\ HasLayout(file', d.version) /\ Meaning(file') = Meaning(d)
  BY <1>1, <1>2, Numbered
<1>4. /\ log' \in Seq(Meanings) /\ Len(log') = n /\ log'[n] = Meaning(d)
      /\ \A x : Copy(x, log) => Copy(x, log')
  BY <1>1, <1>2, FileSound, MeaningType, LogGrows
<1>5. lastWrite' \in Nat /\ lastWrite' <= n
  BY <1>1, <1>2, FileSound DEF n
<1>6. Sound(file', log') /\ lastWrite' <= file'.tx
  BY <1>3, <1>4, <1>5 DEF Sound
<1>7. FileOK'
  BY <1>6 DEF FileOK
<1> QED
  BY <1>2, <1>3, <1>4, <1>5, <1>7

(* What a transaction of a program that has the database open does to the  *)
(* invariant, if the version does not change: it leaves the copies alone.  *)
LEMMA CommitKeeps ==
    ASSUME Inv, file \in Databases, NEW p \in Programs,
           NEW d \in Databases, HasLayout(d, d.version), Committed(p, d, Meaning(d)),
           p = "vspd" => pc["vspd"] \notin {"copying", "renaming"},
           pc' \in {pc, [pc EXCEPT !["vspadmin"] = "down"]},
           UNCHANGED <<temp, backup, hot, snap>>
    PROVE  CopiesOK'
<1>1. /\ \A x : Copy(x, log) => Copy(x, log')
      /\ overtaken' = overtaken /\ (p # "vspd" => lastWrite' = lastWrite)
  BY CommitStep
<1>2. pc'["vspd"] = pc["vspd"]
  BY DEF Inv, TypeOK, Programs
<1> QED
  BY <1>1, <1>2 DEF Inv, CopiesOK, Programs

(* Steps that write no file.                                               *)
LEMMA FileStays ==
    ASSUME FileOK, UNCHANGED <<file, log, lastWrite>>
    PROVE  FileOK'
BY DEF FileOK

-----------------------------------------------------------------------------
(* Every step keeps the invariant.                                         *)

(* A step that ends a program gives the lock back.                         *)
LEMMA EndsType ==
    ASSUME TypeOK, NEW p \in Programs, Ends(p)
    PROVE  /\ pc' = [pc EXCEPT ![p] = "down"]
           /\ pc' \in [Programs -> {"down", "create", "opening", "up", "stopping", "closing",
                                    "closed", "copying", "renaming"}]
           /\ lock' \in Programs \cup {None}
           /\ lock' = IF lock = p THEN None ELSE lock
BY DEF TypeOK, Ends, GoTo

(* A fault is counted up to its bound.                                     *)
LEMMA FaultType ==
    ASSUME TypeOK, Fault
    PROVE  faults' \in 0 .. MaxFaults
BY FileAssumption DEF TypeOK, Fault

(* A client begins to download the database.                               *)
LEMMA BackupDBKeeps ==
    ASSUME Inv, BackupDB
    PROVE  Inv'
<1>1. TypeOK'
  BY DEF Inv, TypeOK, BackupDB, backups, programs, history
<1>2. FileOK'
  BY FileStays DEF Inv, BackupDB, programs, history
<1>3. LockOK'
  BY Constants DEF Inv, TypeOK, LockOK, BackupDB, backups, programs, history, Programs
<1>4. CopiesOK'
  BY DEF Inv, TypeOK, LockOK, CopiesOK, BackupDB, backups, programs, history, Programs
<1> QED
  BY <1>1, <1>2, <1>3, <1>4 DEF Inv

(* A download ends.                                                        *)
LEMMA DownloadedKeeps ==
    ASSUME Inv, downloaded
    PROVE  Inv'
<1>1. TypeOK'
  BY DEF Inv, TypeOK, downloaded, backups, programs, history
<1>2. FileOK'
  BY FileStays DEF Inv, downloaded, programs, history
<1>3. LockOK'
  BY Constants DEF Inv, TypeOK, LockOK, downloaded, backups, programs, history, Programs
<1>4. CopiesOK'
  BY DEF Inv, TypeOK, LockOK, CopiesOK, downloaded, backups, programs, history, Programs
<1> QED
  BY <1>1, <1>2, <1>3, <1>4 DEF Inv

(* The timer of the backup loop fires.                                     *)
LEMMA WriteHotBackupFileKeeps ==
    ASSUME Inv, WriteHotBackupFile
    PROVE  Inv'
<1>1. TypeOK'
  BY DEF Inv, TypeOK, WriteHotBackupFile, backups, programs, history
<1>2. FileOK'
  BY FileStays DEF Inv, WriteHotBackupFile, programs, history
<1>3. LockOK'
  BY Constants DEF Inv, TypeOK, LockOK, WriteHotBackupFile, backups, programs, history, Programs
<1>4. CopiesOK'
  BY DEF Inv, TypeOK, LockOK, CopiesOK, WriteHotBackupFile, backups, programs, history, Programs
<1> QED
  BY <1>1, <1>2, <1>3, <1>4 DEF Inv

(* The backup loop takes the mutex.                                        *)
LEMMA HotLockKeeps ==
    ASSUME Inv, hotLock
    PROVE  Inv'
<1>1. TypeOK'
  BY DEF Inv, TypeOK, hotLock, backups, programs, history
<1>2. FileOK'
  BY FileStays DEF Inv, hotLock, programs, history
<1>3. LockOK'
  BY Constants DEF Inv, TypeOK, LockOK, hotLock, backups, programs, history, Programs
<1>4. CopiesOK'
  BY DEF Inv, TypeOK, LockOK, CopiesOK, hotLock, backups, programs, history, Programs
<1> QED
  BY <1>1, <1>2, <1>3, <1>4 DEF Inv

(* The backup loop ends.                                                   *)
LEMMA HotDoneKeeps ==
    ASSUME Inv, hotDone
    PROVE  Inv'
<1>1. TypeOK'
  BY DEF Inv, TypeOK, hotDone, backups, programs, history
<1>2. FileOK'
  BY FileStays DEF Inv, hotDone, programs, history
<1>3. LockOK'
  BY Constants DEF Inv, TypeOK, LockOK, hotDone, backups, programs, history, Programs
<1>4. CopiesOK'
  BY DEF Inv, TypeOK, LockOK, CopiesOK, hotDone, backups, programs, history, Programs
<1> QED
  BY <1>1, <1>2, <1>3, <1>4 DEF Inv

(* A shutdown is asked for.                                                *)
LEMMA ShutdownKeeps ==
    ASSUME Inv, Shutdown
    PROVE  Inv'
<1>1. TypeOK'
  BY DEF Inv, TypeOK, Shutdown, GoTo, backups, programs, history
<1>2. FileOK'
  BY FileStays DEF Inv, Shutdown, GoTo, programs, history
<1>3. LockOK'
  BY Constants DEF Inv, TypeOK, LockOK, Shutdown, GoTo, backups, programs, history, Programs
<1>4. CopiesOK'
  BY DEF Inv, TypeOK, LockOK, CopiesOK, Shutdown, GoTo, backups, programs, history, Programs
<1> QED
  BY <1>1, <1>2, <1>3, <1>4 DEF Inv

(* The services have ended: no hot backup is under way any more.           *)
LEMMA ServicesDoneKeeps ==
    ASSUME Inv, servicesDone
    PROVE  Inv'
<1>1. TypeOK'
  BY DEF Inv, TypeOK, servicesDone, GoTo, backups, programs, history
<1>2. FileOK'
  BY FileStays DEF Inv, servicesDone, GoTo, programs, history
<1>3. LockOK'
  BY Constants DEF Inv, TypeOK, LockOK, servicesDone, GoTo, backups, programs, history, Programs
<1>4. CopiesOK'
  BY DEF Inv, TypeOK, LockOK, CopiesOK, servicesDone, GoTo, backups, programs, history, Programs
<1> QED
  BY <1>1, <1>2, <1>3, <1>4 DEF Inv

(* A complete copy becomes the backup.                                     *)
LEMMA HotRenameKeeps ==
    ASSUME Inv, hotRename
    PROVE  Inv'
<1>1. TypeOK'
  BY DEF Inv, TypeOK, hotRename, hotReturn, backups, programs, history
<1>2. FileOK'
  BY FileStays DEF Inv, hotRename, hotReturn, programs, history
<1>3. LockOK'
  BY Constants DEF Inv, TypeOK, LockOK, hotRename, hotReturn, backups, programs, history, Programs
<1>4. CopiesOK'
  BY DEF Inv, TypeOK, LockOK, CopiesOK, hotRename, hotReturn, backups, programs, history, Programs
<1> QED
  BY <1>1, <1>2, <1>3, <1>4 DEF Inv

(* A hot backup fails: the backup stays as it was.                         *)
LEMMA HotFailKeeps ==
    ASSUME Inv, hotFail
    PROVE  Inv'
<1>1. TypeOK'
  BY FaultType DEF Inv, TypeOK, hotFail, hotReturn, backups, programs, history
<1>2. FileOK'
  BY FileStays DEF Inv, hotFail, hotReturn, programs, history
<1>3. LockOK'
  BY Constants DEF Inv, TypeOK, LockOK, hotFail, hotReturn, backups, programs, history, Programs
<1>4. CopiesOK'
  BY DEF Inv, TypeOK, LockOK, CopiesOK, hotFail, hotReturn, backups, programs, history, Programs
<1> QED
  BY <1>1, <1>2, <1>3, <1>4 DEF Inv

(* The copy has what the file had when it began.                           *)
LEMMA CopiedKeeps ==
    ASSUME Inv, copied
    PROVE  Inv'
<1>1. TypeOK'
  BY DEF Inv, TypeOK, copied, backups, programs, history
<1>2. FileOK'
  BY FileStays DEF Inv, copied, programs, history
<1>3. LockOK'
  BY Constants DEF Inv, TypeOK, LockOK, copied, backups, programs, history, Programs
<1>4. CopiesOK'
  BY DEF Inv, TypeOK, LockOK, CopiesOK, copied, backups, programs, history, Programs
<1> QED
  BY <1>1, <1>2, <1>3, <1>4 DEF Inv

(* A copy begins, of a file of the latest version.                         *)
LEMMA CopyFileKeeps ==
    ASSUME Inv, CopyFile
    PROVE  Inv'
<1>0. file \in Databases
  BY DEF Inv, LockOK, CopyFile, Programs
<1>1. TypeOK'
  BY <1>0 DEF Inv, TypeOK, CopyFile, backups, programs, history
<1>2. FileOK'
  BY FileStays DEF Inv, CopyFile, programs, history
<1>3. LockOK'
  BY Constants DEF Inv, TypeOK, LockOK, CopyFile, backups, programs, history, Programs
<1>4. CopiesOK'
  BY FileCopied DEF Inv, TypeOK, LockOK, CopiesOK, CopyFile, backups, programs, history, Programs
<1> QED
  BY <1>1, <1>2, <1>3, <1>4 DEF Inv

(* Close gives up the lock; the file is complete by then.                  *)
LEMMA CloseKeeps ==
    ASSUME Inv, Close
    PROVE  Inv'
<1>1. TypeOK'
  BY FaultType DEF Inv, TypeOK, Close, Ends, GoTo, backups, programs, history
<1>2. FileOK'
  BY FileStays DEF Inv, Close, Ends, GoTo, programs, history
<1>3. LockOK'
  BY Constants DEF Inv, TypeOK, LockOK, Close, Ends, GoTo, backups, programs, history, Programs
<1>4. CopiesOK'
  BY DEF Inv, TypeOK, LockOK, CopiesOK, Close, Ends, GoTo, backups, programs, history, Programs
<1> QED
  BY <1>1, <1>2, <1>3, <1>4 DEF Inv

(* The last copy begins: every transaction of vspd is in the file.         *)
LEMMA CloseLockKeeps ==
    ASSUME Inv, closeLock
    PROVE  Inv'
<1>0. file \in Databases
  BY DEF Inv, LockOK, closeLock, Programs
<1>1. TypeOK'
  BY <1>0 DEF Inv, TypeOK, closeLock, GoTo, backups, programs, history
<1>2. FileOK'
  BY FileStays DEF Inv, closeLock, GoTo, programs, history
<1>3. LockOK'
  BY Constants DEF Inv, TypeOK, LockOK, closeLock, GoTo, backups, programs, history, Programs
<1>4. CopiesOK'
  BY FileCopied, FileSound DEF Inv, TypeOK, LockOK, CopiesOK, closeLock, GoTo, backups, programs, history, Programs
<1> QED
  BY <1>1, <1>2, <1>3, <1>4 DEF Inv

(* The last copy ends: complete, or overtaken by others.                   *)
LEMMA CloseCopiedKeeps ==
    ASSUME Inv, closeCopied
    PROVE  Inv'
<1>0. file \in Databases
  BY DEF Inv, LockOK, closeCopied, Programs
<1>1. TypeOK'
  BY <1>0 DEF Inv, TypeOK, closeCopied, GoTo, backups, programs, history
<1>2. FileOK'
  BY FileStays DEF Inv, closeCopied, GoTo, programs, history
<1>3. LockOK'
  BY Constants DEF Inv, TypeOK, LockOK, closeCopied, GoTo, backups, programs, history, Programs
<1>4. CopiesOK'
  BY FileCopied, FileSound DEF Inv, TypeOK, LockOK, CopiesOK, closeCopied, GoTo, backups, programs, history, Programs
<1> QED
  BY <1>1, <1>2, <1>3, <1>4 DEF Inv

(* The last copy becomes the backup.                                       *)
LEMMA CloseRenameKeeps ==
    ASSUME Inv, closeRename
    PROVE  Inv'
<1>1. TypeOK'
  BY DEF Inv, TypeOK, closeRename, closeReturn, Ends, GoTo, backups, programs, history
<1>2. FileOK'
  BY FileStays DEF Inv, closeRename, closeReturn, Ends, GoTo, programs, history
<1>3. LockOK'
  BY Constants DEF Inv, TypeOK, LockOK, closeRename, closeReturn, Ends, GoTo, backups, programs, history, Programs
<1>4. CopiesOK'
  BY DEF Inv, TypeOK, LockOK, CopiesOK, closeRename, closeReturn, Ends, GoTo, backups, programs, history, Programs
<1> QED
  BY <1>1, <1>2, <1>3, <1>4 DEF Inv

(* The last copy fails: the backup stays as it was.                        *)
LEMMA CloseFailKeeps ==
    ASSUME Inv, closeFail
    PROVE  Inv'
<1>1. TypeOK'
  BY FaultType DEF Inv, TypeOK, closeFail, closeReturn, Ends, GoTo, backups, programs, history
<1>2. FileOK'
  BY FileStays DEF Inv, closeFail, closeReturn, Ends, GoTo, programs, history
<1>3. LockOK'
  BY Constants DEF Inv, TypeOK, LockOK, closeFail, closeReturn, Ends, GoTo, backups, programs, history, Programs
<1>4. CopiesOK'
  BY DEF Inv, TypeOK, LockOK, CopiesOK, closeFail, closeReturn, Ends, GoTo, backups, programs, history, Programs
<1> QED
  BY <1>1, <1>2, <1>3, <1>4 DEF Inv

(* A program is killed.                                                    *)
LEMMA CrashKeeps ==
    ASSUME Inv, NEW p \in Programs, Crash(p)
    PROVE  Inv'
<1>1. TypeOK'
  BY FaultType DEF Inv, TypeOK, Crash, Ends, GoTo, backups, programs, history
<1>2. FileOK'
  BY FileStays DEF Inv, Crash, Ends, GoTo, programs, history
<1>3. LockOK'
  BY Constants DEF Inv, TypeOK, LockOK, Crash, Ends, GoTo, backups, programs, history, Programs
<1>4. CopiesOK'
  BY DEF Inv, TypeOK, LockOK, CopiesOK, Crash, Ends, GoTo, backups, programs, history, Programs
<1> QED
  BY <1>1, <1>2, <1>3, <1>4 DEF Inv

(* After the upgrades the version is the latest.                           *)
LEMMA OpenedKeeps ==
    ASSUME Inv, NEW p \in Programs, Opened(p)
    PROVE  Inv'
<1>1. TypeOK'
  BY DEF Inv, TypeOK, Opened, GoTo, backups, programs, history
<1>2. FileOK'
  BY FileStays DEF Inv, Opened, GoTo, programs, history
<1>3. LockOK'
  BY Constants DEF Inv, TypeOK, LockOK, Opened, GoTo, backups, programs, history, Programs
<1>4. CopiesOK'
  BY DEF Inv, TypeOK, LockOK, CopiesOK, Opened, GoTo, backups, programs, history, Programs
<1> QED
  BY <1>1, <1>2, <1>3, <1>4 DEF Inv

(* A program opens a file, and learns its version.                         *)
LEMMA OpenKeeps ==
    ASSUME Inv, NEW p \in Programs, Open(p)
    PROVE  Inv'
<1>0. file \in Databases /\ file.version \in 1 .. latestVersion
  BY FileSound DEF Inv, TypeOK, Open, IsDatabase
<1>1. TypeOK'
  BY <1>0 DEF Inv, TypeOK, Open, FirstUpgrade, GoTo, backups, programs, history
<1>2. FileOK'
  BY FileStays DEF Inv, Open, FirstUpgrade, GoTo, programs, history
<1>3. LockOK'
  BY <1>0, Constants DEF Inv, TypeOK, LockOK, Open, FirstUpgrade, GoTo, backups, programs, history, Programs
<1>4. CopiesOK'
  BY DEF Inv, TypeOK, LockOK, CopiesOK, Open, FirstUpgrade, GoTo, backups, programs, history, Programs
<1> QED
  BY <1>1, <1>2, <1>3, <1>4 DEF Inv

(* A file is created only where there is none.                             *)
LEMMA CreateDatabaseKeeps ==
    ASSUME Inv, createDatabase
    PROVE  Inv'
<1>0. lock = None /\ file \notin Databases /\ log = <<>> /\ lastWrite = 0
  BY Constants DEF Inv, TypeOK, FileOK, Sound, LockOK, createDatabase, Programs
<1>1. TypeOK'
  BY <1>0 DEF Inv, TypeOK, createDatabase, GoTo, backups, programs, history, Programs
<1>2. FileOK'
  BY <1>0 DEF FileOK, createDatabase, history
<1>3. LockOK'
  BY <1>0, Constants DEF Inv, TypeOK, LockOK, createDatabase, GoTo, backups, programs, history, Programs
<1>4. CopiesOK'
  BY DEF Inv, TypeOK, LockOK, CopiesOK, createDatabase, GoTo, backups, programs, history, Programs
<1> QED
  BY <1>1, <1>2, <1>3, <1>4 DEF Inv

(* The first transaction: there is no earlier database, and no copy of one.*)
LEMMA CreateNewKeeps ==
    ASSUME Inv, CreateNew
    PROVE  Inv'
<1>0. file = Empty /\ log = <<>> /\ lastWrite = 0 /\ pc["vspd"] = "down"
  BY Constants DEF Inv, TypeOK, FileOK, Sound, LockOK, CreateNew, Programs
<1>1. NewDatabase \in Databases /\ Meaning(NewDatabase) \in Meanings
  BY NewIsOK, MeaningType
<1>2. TypeOK'
  <2>1. file' \in Databases \cup {Empty}
    BY <1>0, <1>1 DEF CreateNew
  <2>2. log' \in Seq(Meanings)
    <3>1. \A m \in Meanings : <<m>> \in Seq(Meanings)
      OBVIOUS
    <3> QED
      BY <1>1, <3>1 DEF Inv, TypeOK, CreateNew
  <2>3. faults' \in 0 .. MaxFaults
    BY FaultType DEF Inv, TypeOK, CreateNew
  <2> QED
    BY <2>1, <2>2, <2>3, EndsType DEF Inv, TypeOK, CreateNew, backups, Programs
<1>3. FileOK'
  <2>1. CASE UNCHANGED <<file, log>>
    BY <2>1, FileStays DEF Inv, CreateNew
  <2>2. CASE file' = NewDatabase /\ log' = <<Meaning(NewDatabase)>>
    <3>1. Len(log') = 1 /\ log'[1] = Meaning(NewDatabase)
      BY <2>2
    <3>2. NewDatabase.version = latestVersion
      BY NewIsOK DEF HasLayout
    <3>3. Sound(file', log') /\ lastWrite' <= file'.tx
      BY <1>0, <1>1, <2>2, <3>1, <3>2, NewIsOK DEF Sound, CreateNew
    <3> QED
      BY <3>3 DEF FileOK
  <2> QED
    BY <2>1, <2>2 DEF CreateNew
<1>4. LockOK'
  BY <1>0, Constants DEF Inv, TypeOK, LockOK, CreateNew, Ends, GoTo, backups, Programs
<1>5. CopiesOK'
  <2>1. hot = "off"
    BY <1>0 DEF Inv, LockOK
  <2>2. backup = NoFile \/ (backup = Torn /\ overtaken)
    <3>1. ~Copy(backup, log)
      BY <1>0 DEF Copy
    <3> QED
      BY <3>1 DEF Inv, CopiesOK
  <2> QED
    BY <1>0, <2>1, <2>2 DEF Inv, TypeOK, CopiesOK, CreateNew, Ends, GoTo, backups, Programs
<1> QED
  BY <1>2, <1>3, <1>4, <1>5 DEF Inv

(* An upgrade finds the layout of the version it upgrades from.            *)
LEMMA UpgradeKeeps ==
    ASSUME Inv, NEW p \in Programs, Upgrade(p)
    PROVE  Inv'
<1> DEFINE v == file.version
<1>0. file \in Databases /\ pc[p] = "opening" /\ next[p] = v /\ v \in 1 .. 4
      /\ HasLayout(file, v) /\ lock = p
  BY FileSound DEF Inv, LockOK, Upgrade, latestVersion
<1>1. CASE /\ CanUpgrade(v, file)
           /\ Committed(p, upgrades(v, file), log[Len(log)])
           /\ next' = [next EXCEPT ![p] = @ + 1]
           /\ UNCHANGED <<pc, lock, faults>>
  <2> DEFINE d == upgrades(v, file)
  <2>1. Upgraded(file, d, v)
    BY <1>0, EveryUpgrade
  <2> HIDE DEF d
  <2>2. d \in Databases /\ HasLayout(d, d.version) /\ d.version = v + 1 /\ Meaning(d) = log[Len(log)]
    BY <1>0, <2>1, FileSound DEF Upgraded, HasLayout
  <2>3. Committed(p, d, Meaning(d))
    BY <1>1, <2>2 DEF d
  <2>4. /\ file' \in Databases /\ file'.version = v + 1
        /\ FileOK' /\ log' \in Seq(Meanings) /\ lastWrite' \in Nat /\ overtaken' = overtaken
    BY <1>0, <2>2, <2>3, CommitStep
  <2>5. TypeOK'
    BY <1>0, <1>1, <2>4 DEF Inv, TypeOK, Upgrade, backups, latestVersion
  <2>6. LockOK'
    <3>1. next'[p] = v + 1 /\ \A q \in Programs \ {p} : next'[q] = next[q]
      BY <1>0, <1>1 DEF Inv, TypeOK
    <3>2. \A q \in Programs : pc[q] = "opening" => q = p
      BY <1>0 DEF Inv, LockOK
    <3>3. \A q \in Programs : pc[q] \notin {"up", "stopping", "closing", "closed", "copying", "renaming"}
      BY <1>0 DEF Inv, LockOK, latestVersion
    <3>4. pc["vspadmin"] # "create"
      BY <1>0 DEF Inv, LockOK, Programs
    <3> QED
      BY <1>1, <2>4, <3>1, <3>2, <3>3, <3>4 DEF Inv, LockOK, Upgrade, backups
  <2>7. CopiesOK'
    <3>1. pc["vspd"] \notin {"copying", "renaming"}
      BY <1>0 DEF Inv, LockOK, Programs, latestVersion
    <3> QED
      BY <1>0, <1>1, <2>2, <2>3, <3>1, CommitKeeps DEF Upgrade, backups
  <2> QED
    BY <2>4, <2>5, <2>6, <2>7 DEF Inv
<1>2. CASE Ends(p) /\ UNCHANGED <<file, next, history>> /\ faults' \in 0 .. MaxFaults
  <2>1. TypeOK'
    BY <1>2, EndsType DEF Inv, TypeOK, Upgrade, backups, history
  <2>2. FileOK'
    BY <1>2, FileStays DEF Inv, history
  <2>3. LockOK'
    BY <1>0, <1>2, EndsType, Constants DEF Inv, TypeOK, LockOK, Upgrade, backups, history, Programs
  <2>4. CopiesOK'
    BY <1>0, <1>2, EndsType DEF Inv, TypeOK, LockOK, CopiesOK, Upgrade, backups, history, Programs
  <2> QED
    BY <2>1, <2>2, <2>3, <2>4 DEF Inv
<1>3. UNCHANGED faults => faults' \in 0 .. MaxFaults
  BY DEF Inv, TypeOK
<1> QED
  BY <1>0, <1>1, <1>2, <1>3, FaultType DEF Inv, Upgrade

(* vspadmin adds a key, or fails to.                                       *)
LEMMA RetireKeeps ==
    ASSUME Inv, retireXPub
    PROVE  Inv'
<1>0. file \in Databases /\ file.version = latestVersion /\ lock = "vspadmin"
      /\ HasLayout(file, latestVersion)
  BY FileSound DEF Inv, LockOK, retireXPub, Programs
<1>1. CASE UNCHANGED <<file, history, commits>>
  <2>1. TypeOK'
    BY <1>1, EndsType DEF Inv, TypeOK, retireXPub, backups, history, Programs
  <2>2. FileOK'
    BY <1>1, FileStays DEF Inv, history
  <2>3. LockOK'
    BY <1>0, <1>1, EndsType, Constants DEF Inv, TypeOK, LockOK, retireXPub, backups, history, Programs
  <2>4. CopiesOK'
    BY <1>1, EndsType DEF Inv, TypeOK, CopiesOK, retireXPub, backups, history, Programs
  <2> QED
    BY <2>1, <2>2, <2>3, <2>4 DEF Inv
<1>2. ASSUME NEW d, d = [file EXCEPT !.xpubs = Append(@, 0)], Committed("vspadmin", d, Meaning(d)),
             commits < MaxCommits, commits' = commits + 1
      PROVE  Inv'
  <2>1. d \in Databases /\ HasLayout(d, latestVersion) /\ d.version = latestVersion
    BY <1>0, <1>2, RetireIsOK DEF HasLayout
  <2>2. /\ file' \in Databases /\ file'.version = latestVersion
        /\ FileOK' /\ log' \in Seq(Meanings) /\ lastWrite' \in Nat /\ overtaken' = overtaken
    BY <1>0, <1>2, <2>1, CommitStep DEF Programs
  <2>3. TypeOK'
    BY <1>2, <2>2, EndsType, FileAssumption DEF Inv, TypeOK, retireXPub, backups, Programs
  <2>4. LockOK'
    BY <1>0, <2>2, EndsType, Constants DEF Inv, TypeOK, LockOK, retireXPub, backups, Programs
  <2>5. CopiesOK'
    BY <1>0, <1>2, <2>1, EndsType, CommitKeeps DEF Inv, retireXPub, backups, Programs
  <2> QED
    BY <2>2, <2>3, <2>4, <2>5 DEF Inv
<1> QED
  BY <1>1, <1>2 DEF retireXPub

(* A transaction of vspd.                                                  *)
LEMMA WriteKeeps ==
    ASSUME Inv, Write
    PROVE  Inv'
<1>0. file \in Databases /\ file.version = latestVersion /\ HasLayout(file, latestVersion)
      /\ pc["vspd"] \in {"up", "stopping", "closing"} /\ lock = "vspd"
  BY FileSound DEF Inv, LockOK, Write, DatabaseOpen, Programs
<1>1. PICK t \in Tickets : Committed("vspd", Written(file, t), Meaning(Written(file, t)))
  BY DEF Write, Written
<1> DEFINE d == Written(file, t)
<1>2. d \in Databases /\ HasLayout(d, latestVersion) /\ d.version = latestVersion
  BY <1>0, WriteIsOK DEF HasLayout
<1>3. Committed("vspd", d, Meaning(d))
  BY <1>1
<1> HIDE DEF d
<1>4. /\ file' \in Databases /\ file'.version = latestVersion
      /\ FileOK' /\ log' \in Seq(Meanings) /\ lastWrite' \in Nat /\ overtaken' = overtaken
  BY <1>0, <1>2, <1>3, CommitStep DEF Programs
<1>5. TypeOK'
  BY <1>4, FileAssumption DEF Inv, TypeOK, Write, backups, programs
<1>6. LockOK'
  BY <1>0, <1>4 DEF Inv, LockOK, Write, backups, programs, Programs
<1>7. CopiesOK'
  BY <1>0, <1>2, <1>3, CommitKeeps DEF Write, backups, programs, Programs
<1> QED
  BY <1>4, <1>5, <1>6, <1>7 DEF Inv

-----------------------------------------------------------------------------
(* The invariant holds, and what follows.                                  *)

(* It holds at first, of a missing file and of one of an old release.      *)
LEMMA InitInv == Init => Inv
<1> SUFFICES ASSUME Init PROVE Inv
  OBVIOUS
<1>0. ASSUME file \in Databases \cup {NoFile}, log \in Seq(Meanings)
      PROVE  TypeOK
  <2>1. pc \in [Programs -> {"down", "create", "opening", "up", "stopping", "closing",
                           "closed", "copying", "renaming"}]
    BY DEF Init
  <2>2. next \in [Programs -> 1 .. latestVersion]
    BY DEF Init, latestVersion
  <2>3. commits \in 0 .. MaxCommits /\ faults \in 0 .. MaxFaults
    BY FileAssumption DEF Init
  <2> QED
    BY <1>0, <2>1, <2>2, <2>3 DEF Init, TypeOK
<1>1. CASE file = NoFile
  <2>1. TypeOK
    BY <1>0, <1>1, EmptySeq DEF Init
  <2> QED
    BY <1>1, <2>1, Constants DEF Init, Inv, FileOK, LockOK, CopiesOK, Programs
<1>2. CASE file # NoFile
  <2>1. PICK v \in 1 .. latestVersion, i \in Indexes \cup {None},
             s \in [Tickets -> {"received", "confirmed", None}] : file = OldFile(v, s, i)
    BY <1>2 DEF Init
  <2>2. i \in Nat \cup {None}
    BY <2>1, FileAssumption
  <2>3. file \in Databases /\ HasLayout(file, file.version) /\ file.tx = 1
    BY <2>1, <2>2, OldIsOK
  <2>4. log = <<Meaning(file)>> /\ Meaning(file) \in Meanings
    BY <1>2, <2>3, MeaningType DEF Init
  <2>5. log \in Seq(Meanings) /\ Len(log) = 1 /\ log[1] = Meaning(file)
    <3>1. \A m \in Meanings : <<m>> \in Seq(Meanings) /\ Len(<<m>>) = 1 /\ <<m>>[1] = m
      OBVIOUS
    <3> QED
      BY <2>4, <3>1
  <2>6. TypeOK
    BY <1>0, <2>3, <2>5
  <2>7. FileOK
    BY <2>3, <2>5 DEF Init, FileOK, Sound
  <2> QED
    BY <2>6, <2>7, Constants DEF Init, Inv, LockOK, CopiesOK, Programs
<1> QED
  BY <1>1, <1>2

(* Every step keeps it.                                                    *)
LEMMA NextInv == Inv /\ [Next]_vars => Inv'
<1> SUFFICES ASSUME Inv, [Next]_vars PROVE Inv'
  OBVIOUS
<1>1. CASE createDatabase \/ CreateNew \/ retireXPub
  BY <1>1, CreateDatabaseKeeps, CreateNewKeeps, RetireKeeps
<1>2. CASE \E p \in Programs : Open(p) \/ Upgrade(p) \/ Opened(p) \/ Crash(p)
  BY <1>2, OpenKeeps, UpgradeKeeps, OpenedKeeps, CrashKeeps
<1>3. CASE Write \/ BackupDB \/ downloaded
  BY <1>3, WriteKeeps, BackupDBKeeps, DownloadedKeeps
<1>4. CASE hotBackup \/ hotDone
  BY <1>4, WriteHotBackupFileKeeps, HotLockKeeps, CopyFileKeeps, CopiedKeeps, HotRenameKeeps,
     HotFailKeeps, HotDoneKeeps DEF hotBackup
<1>5. CASE Shutdown \/ servicesDone
  BY <1>5, ShutdownKeeps, ServicesDoneKeeps
<1>6. CASE Close \/ closeLock \/ closeCopied \/ closeRename \/ closeFail
  BY <1>6, CloseKeeps, CloseLockKeeps, CloseCopiedKeeps, CloseRenameKeeps, CloseFailKeeps
<1>7. CASE UNCHANGED vars
  <2> USE <1>7 DEF vars, backups, programs, history
  <2>1. TypeOK'
    BY DEF Inv, TypeOK
  <2>2. FileOK' /\ LockOK'
    BY FileStays DEF Inv, LockOK
  <2>3. CopiesOK'
    BY DEF Inv, CopiesOK
  <2> QED
    BY <2>1, <2>2, <2>3 DEF Inv
<1> QED
  BY <1>1, <1>2, <1>3, <1>4, <1>5, <1>6, <1>7 DEF Next

(* So it holds in every reachable state.                                   *)
LEMMA InvHolds == Spec => []Inv
BY InitInv, NextInv, PTL DEF Spec

(* Upgrades lose and invent nothing: the database always means what its    *)
(* last transaction made it mean, from whatever old version it was opened  *)
(* and wherever a program stopped (upgrade_v2.go to upgrade_v5.go).        *)
THEOREM ContentIsKept == Spec => []ContentKept
<1>1. Inv => ContentKept
  <2> SUFFICES ASSUME Inv, IsDatabase(file) PROVE Meaning(file) = log[Len(log)] /\ file.tx = Len(log)
    BY DEF ContentKept
  <2>1. file \in Databases
    BY DEF Inv, TypeOK, IsDatabase
  <2> QED
    BY <2>1, FileSound
<1> QED
  BY <1>1, InvHolds, PTL

(* A file always has the layout of the version it says it has, every       *)
(* ticket in it has a fee key that exists, and programs only work with the *)
(* latest version (Upgrade).                                               *)
THEOREM LayoutIsKnown == Spec => []LayoutKnown
<1>1. Inv => LayoutKnown
  <2> SUFFICES ASSUME Inv PROVE LayoutKnown
    OBVIOUS
  <2>1. IsDatabase(file) => HasLayout(file, file.version)
    BY FileSound DEF Inv, TypeOK, IsDatabase
  <2>2. \A p \in Programs : pc[p] \in {"up", "stopping", "closing"} => file.version = latestVersion
    BY DEF Inv, LockOK
  <2> QED
    BY <2>1, <2>2 DEF LayoutKnown
<1> QED
  BY <1>1, InvHolds, PTL

(* The backup can be used at every moment, unless others wrote to the file *)
(* while Close was copying it (WriteHotBackupFile, Close).                 *)
THEOREM BackupIsUsable == Spec => []BackupUsable
<1>1. Inv => BackupUsable
  <2> SUFFICES ASSUME Inv, backup # NoFile
               PROVE  IF IsDatabase(backup)
                      THEN HasLayout(backup, latestVersion) /\ Meaning(backup) = log[backup.tx]
                      ELSE overtaken
    BY DEF BackupUsable
  <2>1. Copy(backup, log) \/ (backup = Torn /\ overtaken)
    BY DEF Inv, CopiesOK
  <2> QED
    BY <2>1, Constants DEF Copy, IsDatabase
<1> QED
  BY <1>1, InvHolds, PTL

(* The backup of an orderly shutdown has every transaction of vspd, also   *)
(* of handlers that the web server left running (Close).                   *)
THEOREM FinalBackupIsComplete == Spec => FinalBackup
<1> DEFINE Complete == pc["vspd"] = "renaming" /\ backup' # backup /\ IsDatabase(backup')
                          => backup'.tx >= lastWrite'
<1>1. Inv /\ [Next]_vars => [Complete]_vars
  <2> SUFFICES ASSUME Inv, Next, pc["vspd"] = "renaming", backup' # backup, IsDatabase(backup')
               PROVE  backup'.tx >= lastWrite'
    BY DEF vars
  <2>1. hot = "off"
    BY DEF Inv, LockOK
  <2>2. closeRename
    BY <2>1 DEF Next, createDatabase, CreateNew, retireXPub, Open, Upgrade, Opened, Crash, Write,
       BackupDB, downloaded, hotBackup, WriteHotBackupFile, hotLock, CopyFile, copied, hotRename,
       hotFail, hotDone, Shutdown, servicesDone, Close, closeLock, closeCopied, closeFail, backups
  <2>3. backup' = temp /\ lastWrite' = lastWrite
    BY <2>2 DEF closeRename, history
  <2>4. Copy(temp, log) /\ lastWrite <= temp.tx
    BY <2>3 DEF Inv, CopiesOK, IsDatabase
  <2>5. temp.tx \in Nat /\ lastWrite \in Nat
    BY <2>4 DEF Copy, Databases, Inv, TypeOK
  <2> QED
    BY <2>3, <2>4, <2>5
<1> QED
  BY <1>1, InvHolds, PTL DEF Spec, FinalBackup
=============================================================================
