---------------------------- MODULE FeeAddresses ----------------------------
(***************************************************************************)
(* Fee addresses: the extended public keys in the database                 *)
(* (database/feexpub.go), the address generator that derives from the      *)
(* active key (internal/webapi/addressgenerator.go), getNewFeeAddress,     *)
(* which keeps the two in step under addrMtx, and vspadmin, which retires  *)
(* the active key while vspd is stopped.                                   *)
(*                                                                         *)
(* The generator counts in memory and the count is saved after every       *)
(* derivation.  SetLastAddressIndex reads the active key in one            *)
(* transaction and writes it back in another.  bbolt locks the database    *)
(* file, so vspd and vspadmin never have it open together.  An address is  *)
(* the pair of the key and the index it is derived from: two keys never    *)
(* yield the same address.                                                 *)
(***************************************************************************)
EXTENDS Integers

CONSTANTS
    Requests,           \* calls of getNewFeeAddress
    Keys,               \* extended public keys an operator may provide
    FirstKey,           \* the key the database is created with
    InvalidChild,       \* InvalidChild[k]: indexes of k that derive no key
    HardenedKeyStart,   \* first index that a public key cannot derive
    MaxID,              \* bound: highest key ID
    MaxIndex,           \* bound: highest value of the generator's counter
    MaxCrashes,         \* bound: times vspd stops
    None

ASSUME KeysAssumption ==
    /\ FirstKey \in Keys
    /\ None \notin Requests \cup Keys
    /\ InvalidChild \in [Keys -> SUBSET Nat]
    /\ HardenedKeyStart \in Nat /\ MaxID \in Nat /\ MaxIndex \in Nat /\ MaxCrashes \in Nat

FeeXPubs == [ID : 0 .. MaxID, Key : Keys, LastUsedIdx : Nat, Retired : BOOLEAN]
Generators == [feeXPubID : 0 .. MaxID, key : Keys, lastUsedIndex : Nat]
Addresses == Keys \X (1 .. HardenedKeyStart - 1)

ASSUME RecordsAssumption == None \notin FeeXPubs \cup Generators \cup Addresses

VARIABLES
    xpubs,      \* the xpub bucket: record or None for every ID
    dbFile,     \* who has the database file open
    addrGen,    \* the generator, None while vspd is down
    addrMtx,    \* the request that holds addrMtx, or None
    pc,         \* where every request is
    derived,    \* the address the request has derived
    current,    \* the key record SetLastAddressIndex has read
    given,      \* the address the request was answered with
    newKey,     \* the key vspadmin is inserting
    retiring,   \* the active record vspadmin has read
    crashes

db == <<xpubs, dbFile>>
gen == <<addrGen, addrMtx>>
req == <<pc, derived, current, given>>
admin == <<newKey, retiring>>
vars == <<db, gen, req, admin, crashes>>

PCs == {"idle", "derive", "read", "write", "return", "done", "failed"}

TypeOK ==
    /\ xpubs \in [0 .. MaxID -> FeeXPubs \cup {None}]
    /\ dbFile \in {"closed", "vspd", "vspadmin"}
    /\ addrGen \in Generators \cup {None}
    /\ addrMtx \in Requests \cup {None}
    /\ pc \in [Requests -> PCs]
    /\ derived \in [Requests -> Addresses \cup {None}]
    /\ current \in [Requests -> FeeXPubs \cup {None}]
    /\ given \in [Requests -> Addresses \cup {None}]
    /\ newKey \in Keys \cup {None}
    /\ retiring \in FeeXPubs \cup {None}
    /\ crashes \in 0 .. MaxCrashes

NewXPub(id, key) == [ID |-> id, Key |-> key, LastUsedIdx |-> 0, Retired |-> FALSE]

(* CreateNew stores the operator's key with ID 0.                          *)
Init ==
    /\ xpubs = [id \in 0 .. MaxID |-> IF id = 0 THEN NewXPub(0, FirstKey) ELSE None]
    /\ dbFile = "closed"
    /\ addrGen = None
    /\ addrMtx = None
    /\ pc = [r \in Requests |-> "idle"]
    /\ derived = [r \in Requests |-> None]
    /\ current = [r \in Requests |-> None]
    /\ given = [r \in Requests |-> None]
    /\ newKey = None
    /\ retiring = None
    /\ crashes = 0

-----------------------------------------------------------------------------
(* The database.                                                           *)

Stored(bkt) == {id \in 0 .. MaxID : bkt[id] # None}

(* The ID of the active key: the highest one.                              *)
Highest(bkt) == CHOOSE id \in Stored(bkt) : \A other \in Stored(bkt) : other <= id

FeeXPub(bkt) == bkt[Highest(bkt)]

insertFeeXPub(bkt, xpub) == [bkt EXCEPT ![xpub.ID] = xpub]

-----------------------------------------------------------------------------
(* vspd is started: the database is opened and the generator continues     *)
(* after the index that was saved.                                         *)
Start ==
    /\ dbFile = "closed"
    /\ dbFile' = "vspd"
    /\ addrGen' = [feeXPubID |-> Highest(xpubs), key |-> FeeXPub(xpubs).Key,
                   lastUsedIndex |-> FeeXPub(xpubs).LastUsedIdx]
    /\ UNCHANGED <<xpubs, addrMtx, req, admin, crashes>>

(* vspd stops at any point; requests that were not answered never are.     *)
Crash ==
    /\ dbFile = "vspd"
    /\ crashes < MaxCrashes
    /\ crashes' = crashes + 1
    /\ dbFile' = "closed"
    /\ addrGen' = None
    /\ addrMtx' = None
    /\ pc' = [r \in Requests |-> IF pc[r] \in {"idle", "done"} THEN pc[r] ELSE "failed"]
    /\ derived' = [r \in Requests |-> None]
    /\ current' = [r \in Requests |-> None]
    /\ UNCHANGED <<xpubs, given, admin>>

-----------------------------------------------------------------------------
(* getNewFeeAddress, step by step.                                         *)

(* Mutant: getNewFeeAddress does not wait for the mutex.                   *)
BugLock(r) ==
    /\ pc[r] = "idle"
    /\ addrGen # None
    /\ addrMtx' = r
    /\ pc' = [pc EXCEPT ![r] = "derive"]
    /\ UNCHANGED <<db, addrGen, derived, current, given, admin, crashes>>

Lock(r) ==
    /\ pc[r] = "idle"
    /\ addrGen # None
    /\ addrMtx = None
    /\ addrMtx' = r
    /\ pc' = [pc EXCEPT ![r] = "derive"]
    /\ UNCHANGED <<db, addrGen, derived, current, given, admin, crashes>>

(* getNewFeeAddress returns; the deferred Unlock runs on every path.       *)
Return(r, answer, label) ==
    /\ addrMtx' = None
    /\ pc' = [pc EXCEPT ![r] = label]
    /\ given' = [given EXCEPT ![r] = answer]
    /\ derived' = [derived EXCEPT ![r] = None]
    /\ current' = [current EXCEPT ![r] = None]

(* The index of the generator's key derives a key.                         *)
Derives(i) == i < HardenedKeyStart /\ i \notin InvalidChild[addrGen.key]
Invalid(i) == i < HardenedKeyStart /\ i \in InvalidChild[addrGen.key]

(* Up to two invalid children are skipped.                                 *)
nextAddress(r) ==
    /\ pc[r] = "derive"
    /\ \E skip \in 0 .. 2 :
          LET i == addrGen.lastUsedIndex + skip + 1 IN
          /\ \A j \in addrGen.lastUsedIndex + 1 .. i - 1 : Invalid(j)
          /\ Derives(i)
          /\ addrGen' = [addrGen EXCEPT !.lastUsedIndex = i]
          /\ derived' = [derived EXCEPT ![r] = <<addrGen.key, i>>]
    /\ pc' = [pc EXCEPT ![r] = "read"]
    /\ UNCHANGED <<db, addrMtx, current, given, admin, crashes>>

(* Mutant: the error is returned with the mutex held.                      *)
BugNextAddressError(r) ==
    /\ pc[r] = "derive"
    /\ addrGen.lastUsedIndex + 3 <= MaxIndex
    /\ \E skip \in 0 .. 2 :
          LET i == addrGen.lastUsedIndex + skip + 1 IN
          /\ \A j \in addrGen.lastUsedIndex + 1 .. i - 1 : Invalid(j)
          /\ i >= HardenedKeyStart \/ (skip = 2 /\ Invalid(i))
          /\ addrGen' = [addrGen EXCEPT !.lastUsedIndex = i]
    /\ pc' = [pc EXCEPT ![r] = "failed"]
    /\ UNCHANGED <<db, addrMtx, derived, current, given, admin, crashes>>

(* The third invalid child in a row, or an index that a public key cannot  *)
(* derive, is an error; the counter has been advanced all the same.        *)
nextAddressError(r) ==
    /\ pc[r] = "derive"
    /\ addrGen.lastUsedIndex + 3 <= MaxIndex
    /\ \E skip \in 0 .. 2 :
          LET i == addrGen.lastUsedIndex + skip + 1 IN
          /\ \A j \in addrGen.lastUsedIndex + 1 .. i - 1 : Invalid(j)
          /\ i >= HardenedKeyStart \/ (skip = 2 /\ Invalid(i))
          /\ addrGen' = [addrGen EXCEPT !.lastUsedIndex = i]
    /\ Return(r, None, "failed")
    /\ UNCHANGED <<db, admin, crashes>>

(* SetLastAddressIndex reads the active key ...                            *)
SetLastAddressIndexRead(r) ==
    /\ pc[r] = "read"
    /\ current' = [current EXCEPT ![r] = FeeXPub(xpubs)]
    /\ pc' = [pc EXCEPT ![r] = "write"]
    /\ UNCHANGED <<db, gen, derived, given, admin, crashes>>

(* Mutant: the counter is not written, so it is lost when vspd stops.      *)
BugSetLastAddressIndexWrite(r) ==
    /\ pc[r] = "write"
    /\ pc' = [pc EXCEPT ![r] = "return"]
    /\ UNCHANGED <<db, gen, derived, current, given, admin, crashes>>

(* ... and writes it back with the new index.                              *)
SetLastAddressIndexWrite(r) ==
    /\ pc[r] = "write"
    /\ xpubs' = insertFeeXPub(xpubs, [current[r] EXCEPT !.LastUsedIdx = derived[r][2]])
    /\ pc' = [pc EXCEPT ![r] = "return"]
    /\ UNCHANGED <<dbFile, gen, derived, current, given, admin, crashes>>

(* Either transaction of SetLastAddressIndex may fail.                     *)
SetLastAddressIndexError(r) ==
    /\ pc[r] \in {"read", "write"}
    /\ Return(r, None, "failed")
    /\ UNCHANGED <<db, addrGen, admin, crashes>>

getNewFeeAddressReturn(r) ==
    /\ pc[r] = "return"
    /\ Return(r, derived[r], "done")
    /\ UNCHANGED <<db, addrGen, admin, crashes>>

-----------------------------------------------------------------------------
(* vspadmin retirexpub.                                                    *)

(* Mutant: a key that was used before is accepted.                         *)
BugRetireXPubRead(key) ==
    /\ dbFile = "closed"
    /\ Highest(xpubs) < MaxID
    /\ dbFile' = "vspadmin"
    /\ newKey' = key
    /\ retiring' = [FeeXPub(xpubs) EXCEPT !.Retired = TRUE]
    /\ UNCHANGED <<xpubs, gen, req, crashes>>

(* The database is opened, a key that was ever used is refused, and the    *)
(* active key is read.                                                     *)
RetireXPubRead(key) ==
    /\ dbFile = "closed"
    /\ Highest(xpubs) < MaxID
    /\ \A id \in Stored(xpubs) : xpubs[id].Key # key
    /\ dbFile' = "vspadmin"
    /\ newKey' = key
    /\ retiring' = [FeeXPub(xpubs) EXCEPT !.Retired = TRUE]
    /\ UNCHANGED <<xpubs, gen, req, crashes>>

(* Mutant: the retired record is not stored.                               *)
BugRetireXPubWrite ==
    /\ newKey # None
    /\ xpubs' = insertFeeXPub(xpubs, NewXPub(retiring.ID + 1, newKey))
    /\ dbFile' = "closed"
    /\ newKey' = None
    /\ retiring' = None
    /\ UNCHANGED <<gen, req, crashes>>

(* One transaction stores the retired record and the new one; vspadmin     *)
(* exits.                                                                  *)
RetireXPubWrite ==
    /\ newKey # None
    /\ xpubs' = insertFeeXPub(insertFeeXPub(xpubs, retiring), NewXPub(retiring.ID + 1, newKey))
    /\ dbFile' = "closed"
    /\ newKey' = None
    /\ retiring' = None
    /\ UNCHANGED <<gen, req, crashes>>

-----------------------------------------------------------------------------
getNewFeeAddress(r) ==
    \/ Lock(r)
    \/ nextAddress(r) \/ nextAddressError(r)
    \/ SetLastAddressIndexRead(r) \/ SetLastAddressIndexWrite(r) \/ SetLastAddressIndexError(r)
    \/ getNewFeeAddressReturn(r)

Next ==
    \/ Start \/ Crash
    \/ \E r \in Requests : getNewFeeAddress(r)
    \/ \E key \in Keys : RetireXPubRead(key)
    \/ RetireXPubWrite

Spec == Init /\ [][Next]_vars

(* A goroutine that can run does run, and Go's mutex is starvation-free.   *)
FairSpec == Spec /\ \A r \in Requests : WF_vars(getNewFeeAddress(r)) /\ SF_vars(Lock(r))

-----------------------------------------------------------------------------
(* Properties.                                                             *)

(* An address is given to one request only, over every restart of vspd and *)
(* every change of the key (getNewFeeAddress, RetireXPub).                 *)
NoAddressGivenTwice ==
    \A r, s \in Requests : given[r] # None /\ given[r] = given[s] => r = s

(* An address that was given out is covered by the saved index of its key, *)
(* so a crash right after the answer cannot make vspd derive it again.     *)
GivenIndexIsSaved ==
    \A r \in Requests : given[r] # None =>
        \E id \in Stored(xpubs) : xpubs[id].Key = given[r][1] /\ given[r][2] <= xpubs[id].LastUsedIdx

(* Only the key with the highest ID is in use: every other one is retired  *)
(* and IDs have no gaps (FeeXPub takes the highest ID to be active).       *)
OneActiveKey ==
    \E top \in 0 .. MaxID :
        /\ Stored(xpubs) = 0 .. top
        /\ \A id \in 0 .. top : xpubs[id].ID = id /\ (xpubs[id].Retired <=> id < top)

(* The saved index of a key never goes back and a retired key is not       *)
(* written again, although the record is read in one transaction and       *)
(* written in another.                                                     *)
SavedIndexGrows ==
    [][\A id \in 0 .. MaxID : xpubs[id] # None =>
        /\ xpubs'[id] # None
        /\ xpubs'[id].Key = xpubs[id].Key
        /\ xpubs'[id].LastUsedIdx >= xpubs[id].LastUsedIdx
        /\ xpubs[id].Retired => xpubs'[id] = xpubs[id]]_vars

(* FeeAddresses implements the abstract source of addresses.               *)
Source == INSTANCE AddressSource WITH
    Requests <- Requests, Addresses <- Addresses, None <- None, given <- given
ImplementsAddressSource == Source!Spec

(* A request that waits for addrMtx gets its turn and is answered, unless  *)
(* vspd stops: every path of getNewFeeAddress releases the mutex.          *)
EveryRequestAnswered ==
    \A r \in Requests :
        (pc[r] = "idle" /\ addrGen # None) ~> (pc[r] \in {"done", "failed"} \/ addrGen = None)

-----------------------------------------------------------------------------
(* The inductive invariant: the generator runs on the active key and is    *)
(* never behind the saved index, and the request that holds addrMtx is the *)
(* only one between derivation and answer.                                 *)

KeysDistinct ==
    \A a, b \in Stored(xpubs) : xpubs[a].Key = xpubs[b].Key => a = b

GeneratorOK ==
    /\ addrGen # None <=> dbFile = "vspd"
    /\ addrGen # None =>
          /\ addrGen.feeXPubID = Highest(xpubs)
          /\ addrGen.key = FeeXPub(xpubs).Key
          /\ addrGen.lastUsedIndex >= FeeXPub(xpubs).LastUsedIdx

InFlight == {"derive", "read", "write", "return"}

RequestOK(r) ==
    /\ pc[r] \in InFlight <=> addrMtx = r
    /\ pc[r] \in InFlight => addrGen # None /\ given[r] = None
    /\ pc[r] = "idle" => given[r] = None
    /\ pc[r] \in {"read", "write", "return"} =>
          derived[r] # None /\ derived[r] = <<addrGen.key, addrGen.lastUsedIndex>>
    /\ pc[r] \in {"read", "write"} => addrGen.lastUsedIndex > FeeXPub(xpubs).LastUsedIdx
    /\ pc[r] = "write" => current[r] = FeeXPub(xpubs)
    /\ pc[r] = "return" => FeeXPub(xpubs).LastUsedIdx = addrGen.lastUsedIndex
    /\ pc[r] = "return" => \A s \in Requests : given[s] # derived[r]

RequestsOK == \A r \in Requests : RequestOK(r)

AdminOK ==
    /\ newKey # None <=> dbFile = "vspadmin"
    /\ newKey # None =>
          /\ Highest(xpubs) < MaxID
          /\ \A id \in Stored(xpubs) : xpubs[id].Key # newKey
          /\ retiring = [FeeXPub(xpubs) EXCEPT !.Retired = TRUE]

IInv ==
    /\ TypeOK
    /\ OneActiveKey
    /\ KeysDistinct
    /\ GeneratorOK
    /\ RequestsOK
    /\ AdminOK
    /\ GivenIndexIsSaved
    /\ NoAddressGivenTwice
=============================================================================
