------------------------- MODULE FeeAddressesProofs -------------------------
(***************************************************************************)
(* Proofs about FeeAddresses: the inductive invariant IInv, and from it    *)
(* that an address is never given twice, for any number of requests, keys, *)
(* invalid children and restarts, and that FeeAddresses implements         *)
(* AddressSource.                                                          *)
(***************************************************************************)
EXTENDS FeeAddresses, TLAPS

(* The highest ID of a bucket without gaps is its last one.                *)
LEMMA HighestIsTop ==
    ASSUME NEW bkt, NEW top \in 0 .. MaxID, Stored(bkt) = 0 .. top
    PROVE  Highest(bkt) = top
<1>1. MaxID \in Nat
  BY KeysAssumption
<1>2. top \in Stored(bkt) /\ \A other \in Stored(bkt) : other <= top
  BY <1>1
<1>3. \A id \in Stored(bkt) : (\A other \in Stored(bkt) : other <= id) => id = top
  BY <1>1, <1>2
<1> QED
  BY <1>2, <1>3 DEF Highest

(* What a new key is stored as.                                            *)
LEMMA NewXPubRecord ==
    ASSUME NEW id \in 0 .. MaxID, NEW key \in Keys
    PROVE  /\ NewXPub(id, key) \in FeeXPubs
           /\ NewXPub(id, key).ID = id /\ NewXPub(id, key).Key = key
           /\ ~NewXPub(id, key).Retired
BY DEF NewXPub, FeeXPubs

(* The active record of a well-formed bucket is a record with its own ID,  *)
(* and it is not retired.                                                  *)
LEMMA ActiveRecord ==
    ASSUME TypeOK, OneActiveKey
    PROVE  /\ Highest(xpubs) \in 0 .. MaxID
           /\ Stored(xpubs) = 0 .. Highest(xpubs)
           /\ FeeXPub(xpubs) \in FeeXPubs
           /\ FeeXPub(xpubs).ID = Highest(xpubs)
           /\ ~FeeXPub(xpubs).Retired
           /\ \A id \in 0 .. MaxID : id > Highest(xpubs) => xpubs[id] = None
           /\ \A id \in 0 .. Highest(xpubs) : xpubs[id] \in FeeXPubs /\ xpubs[id].ID = id
<1>1. MaxID \in Nat
  BY KeysAssumption
<1>2. PICK top \in 0 .. MaxID :
        /\ Stored(xpubs) = 0 .. top
        /\ \A id \in 0 .. top : xpubs[id].ID = id /\ (xpubs[id].Retired <=> id < top)
  BY DEF OneActiveKey
<1>3. Highest(xpubs) = top
  BY <1>2, HighestIsTop
<1>4. \A id \in 0 .. top : id \in 0 .. MaxID /\ xpubs[id] # None
  BY <1>1, <1>2 DEF Stored
<1>5. \A id \in 0 .. top : xpubs[id] \in FeeXPubs
  BY <1>1, <1>4 DEF TypeOK
<1>6. top \in 0 .. top
  BY <1>1
<1>7. \A id \in 0 .. MaxID : id > top => xpubs[id] = None
  BY <1>1, <1>2 DEF Stored
<1>8. FeeXPub(xpubs).Retired <=> top < top
  BY <1>2, <1>3, <1>6 DEF FeeXPub
<1>9. ~(top < top)
  BY <1>1
<1> QED
  BY <1>2, <1>3, <1>5, <1>6, <1>7, <1>8, <1>9 DEF FeeXPub

-----------------------------------------------------------------------------
(* Steps that do not write the bucket leave its part of the invariant.     *)
LEMMA BucketUnchanged ==
    ASSUME IInv, UNCHANGED <<xpubs, given>>
    PROVE  (OneActiveKey /\ KeysDistinct /\ GivenIndexIsSaved /\ NoAddressGivenTwice)'
BY DEF IInv, OneActiveKey, KeysDistinct, GivenIndexIsSaved, NoAddressGivenTwice

(* The initial state: one key, no generator, no request.                   *)
LEMMA InitIInv == Init => IInv
<1> SUFFICES ASSUME Init PROVE IInv
  OBVIOUS
<1> USE KeysAssumption, RecordsAssumption
<1>1. NewXPub(0, FirstKey) \in FeeXPubs
  BY DEF NewXPub, FeeXPubs
<1>2. TypeOK
  BY <1>1 DEF Init, TypeOK, PCs
<1>3. Stored(xpubs) = 0 .. 0
  BY <1>1 DEF Init, Stored
<1>4. OneActiveKey
  <2>1. \A id \in 0 .. 0 : xpubs[id] = NewXPub(0, FirstKey) /\ id = 0
    BY DEF Init
  <2>2. xpubs[0].ID = 0 /\ xpubs[0].Retired = FALSE
    BY DEF Init, NewXPub
  <2> QED
    BY <1>3, <2>1, <2>2 DEF OneActiveKey
<1>5. KeysDistinct
  BY <1>3 DEF KeysDistinct
<1>6. GeneratorOK /\ RequestsOK /\ AdminOK
  BY DEF Init, GeneratorOK, RequestsOK, RequestOK, AdminOK, InFlight
<1>7. GivenIndexIsSaved /\ NoAddressGivenTwice
  BY DEF Init, GivenIndexIsSaved, NoAddressGivenTwice
<1> QED
  BY <1>2, <1>4, <1>5, <1>6, <1>7 DEF IInv

(* Starting vspd: the generator takes over the saved index.                *)
LEMMA StartIInv == IInv /\ Start => IInv'
<1> SUFFICES ASSUME IInv, Start PROVE IInv'
  OBVIOUS
<1> USE KeysAssumption, RecordsAssumption
<1>1. /\ Highest(xpubs) \in 0 .. MaxID
      /\ FeeXPub(xpubs) \in FeeXPubs
  BY ActiveRecord DEF IInv
<1>2. addrGen' \in Generators
  BY <1>1 DEF Start, Generators, FeeXPubs
<1>3. TypeOK'
  BY <1>2 DEF IInv, TypeOK, Start, req, admin
<1>4. (OneActiveKey /\ KeysDistinct /\ GivenIndexIsSaved /\ NoAddressGivenTwice)'
  BY BucketUnchanged DEF Start, req
<1>5. GeneratorOK'
  <2>1. addrGen' # None
    BY <1>2
  <2>2. FeeXPub(xpubs).LastUsedIdx >= FeeXPub(xpubs).LastUsedIdx
    BY <1>1 DEF FeeXPubs
  <2> QED
    BY <2>1, <2>2 DEF Start, GeneratorOK
<1>6. addrGen = None /\ \A r \in Requests : pc[r] \notin InFlight
  BY DEF Start, IInv, GeneratorOK, RequestsOK, RequestOK
<1>7. RequestsOK'
  BY <1>6 DEF Start, IInv, RequestsOK, RequestOK, InFlight, req
<1>8. AdminOK'
  BY DEF Start, IInv, AdminOK, admin
<1> QED
  BY <1>3, <1>4, <1>5, <1>7, <1>8 DEF IInv

(* A crash forgets the generator and every request that was not answered.  *)
LEMMA CrashIInv == IInv /\ Crash => IInv'
<1> SUFFICES ASSUME IInv, Crash PROVE IInv'
  OBVIOUS
<1> USE KeysAssumption, RecordsAssumption
<1>1. TypeOK'
  BY DEF IInv, TypeOK, Crash, admin, PCs
<1>2. (OneActiveKey /\ KeysDistinct /\ GivenIndexIsSaved /\ NoAddressGivenTwice)'
  BY BucketUnchanged DEF Crash
<1>3. GeneratorOK'
  BY DEF Crash, GeneratorOK
<1>4. \A r \in Requests : pc'[r] \in {"idle", "done", "failed"} /\ (pc'[r] = "idle" => pc[r] = "idle")
  BY DEF Crash
<1>5. RequestsOK'
  BY <1>4 DEF Crash, IInv, RequestsOK, RequestOK, InFlight
<1>6. AdminOK'
  BY DEF Crash, IInv, AdminOK, admin
<1> QED
  BY <1>1, <1>2, <1>3, <1>5, <1>6 DEF IInv

(* Taking the mutex: no other request is between derivation and answer.    *)
LEMMA LockIInv ==
    ASSUME IInv, NEW r \in Requests, Lock(r)
    PROVE  IInv'
<1> USE KeysAssumption, RecordsAssumption
<1>1. TypeOK'
  BY DEF IInv, TypeOK, Lock, admin, PCs, db
<1>2. (OneActiveKey /\ KeysDistinct /\ GivenIndexIsSaved /\ NoAddressGivenTwice)'
  BY BucketUnchanged DEF Lock, db
<1>3. GeneratorOK'
  BY DEF Lock, IInv, GeneratorOK, db
<1>4. \A s \in Requests : pc[s] \notin InFlight
  BY DEF Lock, IInv, RequestsOK, RequestOK
<1>5. pc'[r] = "derive" /\ \A s \in Requests : s # r => pc'[s] = pc[s]
  BY DEF Lock, IInv, TypeOK
<1>6. RequestsOK'
  <2> SUFFICES ASSUME NEW s \in Requests PROVE RequestOK(s)'
    BY DEF RequestsOK
  <2>1. CASE s = r
    BY <1>5, <2>1 DEF Lock, IInv, RequestsOK, RequestOK, InFlight, db
  <2>2. CASE s # r
    BY <1>4, <1>5, <2>2 DEF Lock, IInv, RequestsOK, RequestOK, InFlight, db
  <2> QED
    BY <2>1, <2>2
<1>7. AdminOK'
  BY DEF Lock, IInv, AdminOK, admin, db
<1> QED
  BY <1>1, <1>2, <1>3, <1>6, <1>7 DEF IInv

(* Deriving: the generator moves past every index it used before.          *)
LEMMA NextAddressIInv ==
    ASSUME IInv, NEW r \in Requests, nextAddress(r)
    PROVE  IInv'
<1> USE KeysAssumption, RecordsAssumption
<1>1. /\ addrMtx = r /\ addrGen # None /\ addrGen \in Generators
      /\ given[r] = None
  BY DEF nextAddress, IInv, TypeOK, RequestsOK, RequestOK, InFlight
<1>2. PICK i \in Nat :
        /\ i > addrGen.lastUsedIndex
        /\ i \in 1 .. HardenedKeyStart - 1
        /\ addrGen' = [addrGen EXCEPT !.lastUsedIndex = i]
        /\ derived' = [derived EXCEPT ![r] = <<addrGen.key, i>>]
  <2>1. PICK skip \in 0 .. 2 :
          /\ addrGen.lastUsedIndex + skip + 1 < HardenedKeyStart
          /\ addrGen' = [addrGen EXCEPT !.lastUsedIndex = addrGen.lastUsedIndex + skip + 1]
          /\ derived' = [derived EXCEPT ![r] = <<addrGen.key, addrGen.lastUsedIndex + skip + 1>>]
    BY DEF nextAddress, Derives
  <2>2. addrGen.lastUsedIndex \in Nat
    BY <1>1 DEF Generators
  <2> DEFINE j == addrGen.lastUsedIndex + skip + 1
  <2>3. /\ j \in Nat /\ j > addrGen.lastUsedIndex
        /\ j \in 1 .. HardenedKeyStart - 1
    BY <2>1, <2>2
  <2>4. /\ addrGen' = [addrGen EXCEPT !.lastUsedIndex = j]
        /\ derived' = [derived EXCEPT ![r] = <<addrGen.key, j>>]
    BY <2>1
  <2> HIDE DEF j
  <2> QED
    BY <2>3, <2>4
<1>3. /\ addrGen' \in Generators /\ addrGen'.lastUsedIndex = i
      /\ addrGen'.key = addrGen.key /\ addrGen'.feeXPubID = addrGen.feeXPubID
  BY <1>1, <1>2 DEF Generators
<1>4. <<addrGen.key, i>> \in Addresses
  BY <1>1, <1>2 DEF Addresses, Generators
<1>5. TypeOK'
  BY <1>2, <1>3, <1>4 DEF IInv, TypeOK, nextAddress, admin, PCs, db
<1>6. (OneActiveKey /\ KeysDistinct /\ GivenIndexIsSaved /\ NoAddressGivenTwice)'
  BY BucketUnchanged DEF nextAddress, db
<1>7. /\ FeeXPub(xpubs).LastUsedIdx \in Nat
      /\ i > FeeXPub(xpubs).LastUsedIdx
  <2>1. FeeXPub(xpubs) \in FeeXPubs
    BY ActiveRecord DEF IInv
  <2>2. addrGen.lastUsedIndex >= FeeXPub(xpubs).LastUsedIdx /\ addrGen.lastUsedIndex \in Nat
    BY <1>1 DEF IInv, GeneratorOK, Generators
  <2> QED
    BY <1>2, <2>1, <2>2 DEF FeeXPubs
<1>8. addrGen' # None
  BY <1>3
<1>9. GeneratorOK'
  BY <1>1, <1>3, <1>7, <1>8 DEF nextAddress, IInv, GeneratorOK, db
<1>10. RequestsOK'
  <2> SUFFICES ASSUME NEW s \in Requests PROVE RequestOK(s)'
    BY DEF RequestsOK
  <2>1. /\ pc'[r] = "read" /\ derived'[r] # None
        /\ derived'[r] = <<addrGen'.key, addrGen'.lastUsedIndex>>
    BY <1>2, <1>3, <1>4 DEF nextAddress, IInv, TypeOK
  <2>2. CASE s = r
    BY <1>1, <1>3, <1>7, <1>8, <2>1, <2>2 DEF nextAddress, IInv, RequestsOK, RequestOK, InFlight, db
  <2>3. CASE s # r
    BY <1>1, <2>3 DEF nextAddress, IInv, TypeOK, RequestsOK, RequestOK, InFlight, db
  <2> QED
    BY <2>2, <2>3
<1>11. AdminOK'
  BY DEF nextAddress, IInv, AdminOK, admin, db
<1> QED
  BY <1>5, <1>6, <1>9, <1>10, <1>11 DEF IInv

(* A request that holds the mutex fails: nothing is given out, the mutex   *)
(* is free and the generator stays at or after the saved index.            *)
LEMMA FailIInv ==
    ASSUME IInv, NEW r \in Requests, pc[r] \in InFlight,
           Return(r, None, "failed"),
           UNCHANGED <<xpubs, dbFile, newKey, retiring, crashes>>,
           addrGen' \in Generators,
           addrGen'.lastUsedIndex >= addrGen.lastUsedIndex,
           addrGen'.key = addrGen.key, addrGen'.feeXPubID = addrGen.feeXPubID
    PROVE  IInv'
<1> USE KeysAssumption, RecordsAssumption
<1>1. addrMtx = r /\ addrGen # None /\ given[r] = None
  BY DEF IInv, RequestsOK, RequestOK
<1>2. UNCHANGED given
  BY <1>1 DEF Return, IInv, TypeOK
<1>3. TypeOK'
  BY DEF IInv, TypeOK, Return, PCs
<1>4. (OneActiveKey /\ KeysDistinct /\ GivenIndexIsSaved /\ NoAddressGivenTwice)'
  BY <1>2, BucketUnchanged
<1>5. addrGen'.lastUsedIndex >= FeeXPub(xpubs).LastUsedIdx
  <2>1. FeeXPub(xpubs) \in FeeXPubs
    BY ActiveRecord DEF IInv
  <2>2. /\ addrGen.lastUsedIndex >= FeeXPub(xpubs).LastUsedIdx
        /\ addrGen \in Generators
    BY <1>1 DEF IInv, GeneratorOK, TypeOK
  <2> QED
    BY <2>1, <2>2 DEF FeeXPubs, Generators
<1>6. addrGen' # None
  OBVIOUS
<1>7. GeneratorOK'
  BY <1>1, <1>5, <1>6 DEF IInv, GeneratorOK
<1>8. RequestsOK'
  <2> SUFFICES ASSUME NEW s \in Requests PROVE RequestOK(s)'
    BY DEF RequestsOK
  <2>1. pc'[r] = "failed" /\ addrMtx' = None
    BY DEF Return, IInv, TypeOK
  <2>2. CASE s = r
    BY <2>1, <2>2 DEF RequestOK, InFlight
  <2>3. CASE s # r
    <3>1. pc'[s] = pc[s] /\ pc[s] \notin InFlight
      BY <1>1, <2>3 DEF Return, IInv, TypeOK, RequestsOK, RequestOK
    <3> QED
      BY <1>2, <2>1, <3>1 DEF IInv, RequestsOK, RequestOK, InFlight
  <2> QED
    BY <2>2, <2>3
<1>9. AdminOK'
  BY DEF IInv, AdminOK
<1> QED
  BY <1>3, <1>4, <1>7, <1>8, <1>9 DEF IInv

(* nextAddress returns an error: the generator has moved on.               *)
LEMMA NextAddressErrorIInv ==
    ASSUME IInv, NEW r \in Requests, nextAddressError(r)
    PROVE  IInv'
<1>1. addrGen \in Generators
  BY RecordsAssumption DEF nextAddressError, IInv, TypeOK, RequestsOK, RequestOK, InFlight
<1>2. PICK skip \in 0 .. 2 :
        addrGen' = [addrGen EXCEPT !.lastUsedIndex = addrGen.lastUsedIndex + skip + 1]
  BY DEF nextAddressError
<1>3. /\ addrGen' \in Generators
      /\ addrGen'.lastUsedIndex >= addrGen.lastUsedIndex
      /\ addrGen'.key = addrGen.key /\ addrGen'.feeXPubID = addrGen.feeXPubID
  BY <1>1, <1>2 DEF Generators
<1>4. pc[r] \in InFlight /\ Return(r, None, "failed")
      /\ UNCHANGED <<xpubs, dbFile, newKey, retiring, crashes>>
  BY DEF nextAddressError, InFlight, db, admin
<1> QED
  BY <1>3, <1>4, FailIInv

(* SetLastAddressIndex returns an error: the generator is unchanged.       *)
LEMMA SetErrorIInv ==
    ASSUME IInv, NEW r \in Requests, SetLastAddressIndexError(r)
    PROVE  IInv'
<1>1. addrGen \in Generators
  BY RecordsAssumption DEF SetLastAddressIndexError, IInv, TypeOK, RequestsOK, RequestOK, InFlight
<1>2. /\ addrGen' \in Generators
      /\ addrGen'.lastUsedIndex >= addrGen.lastUsedIndex
      /\ addrGen'.key = addrGen.key /\ addrGen'.feeXPubID = addrGen.feeXPubID
  BY <1>1 DEF Generators, SetLastAddressIndexError
<1>3. pc[r] \in InFlight /\ Return(r, None, "failed")
      /\ UNCHANGED <<xpubs, dbFile, newKey, retiring, crashes>>
  BY DEF SetLastAddressIndexError, InFlight, db, admin
<1> QED
  BY <1>2, <1>3, FailIInv

(* Reading the active record while no one else can write it.               *)
LEMMA ReadIInv ==
    ASSUME IInv, NEW r \in Requests, SetLastAddressIndexRead(r)
    PROVE  IInv'
<1> USE KeysAssumption, RecordsAssumption
<1>1. FeeXPub(xpubs) \in FeeXPubs
  BY ActiveRecord DEF IInv
<1>2. TypeOK'
  BY <1>1 DEF IInv, TypeOK, SetLastAddressIndexRead, admin, PCs, db, gen
<1>3. (OneActiveKey /\ KeysDistinct /\ GivenIndexIsSaved /\ NoAddressGivenTwice)'
  BY BucketUnchanged DEF SetLastAddressIndexRead, db
<1>4. GeneratorOK' /\ AdminOK'
  BY DEF SetLastAddressIndexRead, IInv, GeneratorOK, AdminOK, admin, db, gen
<1>5. RequestsOK'
  <2> SUFFICES ASSUME NEW s \in Requests PROVE RequestOK(s)'
    BY DEF RequestsOK
  <2>1. pc'[r] = "write" /\ current'[r] = FeeXPub(xpubs)
    BY DEF SetLastAddressIndexRead, IInv, TypeOK
  <2>2. CASE s = r
    BY <2>1, <2>2 DEF SetLastAddressIndexRead, IInv, RequestsOK, RequestOK, InFlight, db, gen
  <2>3. CASE s # r
    BY <2>3 DEF SetLastAddressIndexRead, IInv, TypeOK, RequestsOK, RequestOK, InFlight, db, gen
  <2> QED
    BY <2>2, <2>3
<1> QED
  BY <1>2, <1>3, <1>4, <1>5 DEF IInv

(* Writing the active record back with the index just derived: the record  *)
(* is the one that is stored, with a higher index, and no address of this  *)
(* index was given out before.                                             *)
LEMMA WriteIInv ==
    ASSUME IInv, NEW r \in Requests, SetLastAddressIndexWrite(r)
    PROVE  IInv'
<1> USE KeysAssumption, RecordsAssumption
<1> DEFINE top == Highest(xpubs)
           old == FeeXPub(xpubs)
           last == addrGen.lastUsedIndex
           new == [old EXCEPT !.LastUsedIdx = last]
<1>1. /\ top \in 0 .. MaxID /\ Stored(xpubs) = 0 .. top
      /\ old \in FeeXPubs /\ old.ID = top /\ ~old.Retired /\ old = xpubs[top]
      /\ \A id \in 0 .. top : xpubs[id] \in FeeXPubs
  BY ActiveRecord DEF IInv, FeeXPub
<1>2. /\ addrMtx = r /\ addrGen # None /\ addrGen \in Generators /\ last \in Nat
      /\ addrGen.key = old.Key /\ addrGen.feeXPubID = top
      /\ derived[r] = <<old.Key, last>> /\ derived[r][2] = last
      /\ current[r] = old /\ last > old.LastUsedIdx
      /\ old.LastUsedIdx \in Nat
  BY <1>1 DEF SetLastAddressIndexWrite, IInv, TypeOK, RequestsOK, RequestOK, InFlight,
              GeneratorOK, Generators, FeeXPubs
<1>3. /\ new \in FeeXPubs /\ new.ID = top /\ new.Key = old.Key
      /\ new.LastUsedIdx = last /\ ~new.Retired /\ new # None
  BY <1>1, <1>2 DEF FeeXPubs
<1>4. xpubs' = [xpubs EXCEPT ![top] = new]
  BY <1>2, <1>3 DEF SetLastAddressIndexWrite, insertFeeXPub
<1> HIDE DEF new, old, top
<1>5. /\ xpubs' \in [0 .. MaxID -> FeeXPubs \cup {None}]
      /\ xpubs'[top] = new
      /\ \A id \in 0 .. MaxID : id # top => xpubs'[id] = xpubs[id]
  BY <1>1, <1>3, <1>4 DEF IInv, TypeOK
<1>6. TypeOK'
  BY <1>5 DEF IInv, TypeOK, SetLastAddressIndexWrite, admin, PCs, gen
<1>7. Stored(xpubs') = 0 .. top
  BY <1>1, <1>3, <1>5 DEF Stored
<1>8. Highest(xpubs') = top /\ FeeXPub(xpubs') = new
  BY <1>1, <1>5, <1>7, HighestIsTop DEF FeeXPub
<1>9. OneActiveKey'
  <2>1. PICK t \in 0 .. MaxID :
          /\ Stored(xpubs) = 0 .. t
          /\ \A id \in 0 .. t : xpubs[id].ID = id /\ (xpubs[id].Retired <=> id < t)
    BY DEF IInv, OneActiveKey
  <2>2. t = top
    BY <2>1, HighestIsTop DEF top
  <2>3. \A id \in 0 .. top : id \in 0 .. MaxID
    BY <1>1
  <2>4. \A id \in 0 .. top : xpubs'[id].ID = id /\ (xpubs'[id].Retired <=> id < top)
    <3> SUFFICES ASSUME NEW id \in 0 .. top
                 PROVE  xpubs'[id].ID = id /\ (xpubs'[id].Retired <=> id < top)
      OBVIOUS
    <3>1. CASE id = top
      <4>1. ~(top < top)
        BY <1>1
      <4> QED
        BY <1>3, <1>5, <3>1, <4>1
    <3>2. CASE id # top
      BY <1>5, <2>1, <2>2, <2>3, <3>2
    <3> QED
      BY <3>1, <3>2
  <2> QED
    BY <1>1, <1>7, <2>4 DEF OneActiveKey
<1>10. \A id \in 0 .. top : id \in 0 .. MaxID /\ xpubs'[id].Key = xpubs[id].Key
  <2> SUFFICES ASSUME NEW id \in 0 .. top
               PROVE  id \in 0 .. MaxID /\ xpubs'[id].Key = xpubs[id].Key
    OBVIOUS
  <2>1. id \in 0 .. MaxID
    BY <1>1
  <2>2. CASE id = top
    BY <1>1, <1>3, <1>5, <2>1, <2>2
  <2>3. CASE id # top
    BY <1>5, <2>1, <2>3
  <2> QED
    BY <2>1, <2>2, <2>3
<1>11. KeysDistinct'
  BY <1>1, <1>7, <1>10 DEF IInv, KeysDistinct
<1>12. UNCHANGED <<given, derived, addrGen, addrMtx, dbFile, newKey, retiring>>
  BY DEF SetLastAddressIndexWrite, gen, admin
<1>13. GivenIndexIsSaved'
  <2> SUFFICES ASSUME NEW s \in Requests, given[s] # None
               PROVE  \E id \in 0 .. top : xpubs'[id].Key = given[s][1] /\ given[s][2] <= xpubs'[id].LastUsedIdx
    BY <1>7, <1>12 DEF GivenIndexIsSaved
  <2>1. PICK id \in 0 .. top : xpubs[id].Key = given[s][1] /\ given[s][2] <= xpubs[id].LastUsedIdx
    BY <1>1 DEF IInv, GivenIndexIsSaved
  <2>2. given[s][2] \in Nat
    BY DEF IInv, TypeOK, Addresses
  <2>3. xpubs'[id].LastUsedIdx >= xpubs[id].LastUsedIdx
        /\ xpubs'[id].LastUsedIdx \in Nat /\ xpubs[id].LastUsedIdx \in Nat
    <3>1. CASE id = top
      BY <1>1, <1>2, <1>3, <1>5, <3>1
    <3>2. CASE id # top
      <4>1. xpubs'[id] = xpubs[id] /\ xpubs[id] \in FeeXPubs
        BY <1>1, <1>5, <1>10, <3>2
      <4> QED
        BY <4>1 DEF FeeXPubs
    <3> QED
      BY <3>1, <3>2
  <2>4. given[s][2] <= xpubs'[id].LastUsedIdx
    BY <2>1, <2>2, <2>3
  <2> QED
    BY <1>10, <2>1, <2>4
<1>14. NoAddressGivenTwice'
  BY <1>12 DEF IInv, NoAddressGivenTwice
<1>15. \A s \in Requests : given[s] # derived[r]
  <2> SUFFICES ASSUME NEW s \in Requests, given[s] = <<old.Key, last>> PROVE FALSE
    BY <1>2
  <2>1. given[s] # None
    <3>1. derived[r] # None
      BY DEF IInv, RequestsOK, RequestOK, SetLastAddressIndexWrite
    <3> QED
      BY <1>2, <3>1
  <2>2. PICK id \in 0 .. top : xpubs[id].Key = given[s][1] /\ given[s][2] <= xpubs[id].LastUsedIdx
    BY <1>1, <2>1 DEF IInv, GivenIndexIsSaved
  <2>3. id = top
    BY <1>1, <2>2 DEF IInv, KeysDistinct
  <2> QED
    BY <1>1, <1>2, <2>2, <2>3
<1>16. GeneratorOK'
  BY <1>2, <1>3, <1>8, <1>12 DEF IInv, GeneratorOK
<1>17. AdminOK'
  BY <1>2, <1>12 DEF IInv, AdminOK, GeneratorOK
<1>18. RequestsOK'
  <2> SUFFICES ASSUME NEW s \in Requests PROVE RequestOK(s)'
    BY DEF RequestsOK
  <2>1. pc'[r] = "return" /\ UNCHANGED current
    BY DEF SetLastAddressIndexWrite, IInv, TypeOK
  <2>2. CASE s = r
    BY <1>2, <1>3, <1>8, <1>12, <1>15, <2>1, <2>2
       DEF IInv, RequestsOK, RequestOK, InFlight
  <2>3. CASE s # r
    <3>1. pc'[s] = pc[s] /\ pc[s] \notin InFlight
      BY <1>2, <2>3 DEF SetLastAddressIndexWrite, IInv, TypeOK, RequestsOK, RequestOK
    <3> QED
      BY <1>12, <3>1 DEF IInv, RequestsOK, RequestOK, InFlight
  <2> QED
    BY <2>2, <2>3
<1> QED
  BY <1>6, <1>9, <1>11, <1>13, <1>14, <1>16, <1>17, <1>18 DEF IInv

(* The answer: the address is the one just saved, and it is new.           *)
LEMMA ReturnIInv ==
    ASSUME IInv, NEW r \in Requests, getNewFeeAddressReturn(r)
    PROVE  IInv'
<1> USE KeysAssumption, RecordsAssumption
<1>1. /\ addrMtx = r /\ addrGen # None /\ given[r] = None
      /\ derived[r] # None /\ derived[r] \in Addresses
      /\ derived[r] = <<addrGen.key, addrGen.lastUsedIndex>>
      /\ FeeXPub(xpubs).LastUsedIdx = addrGen.lastUsedIndex
      /\ FeeXPub(xpubs).Key = addrGen.key
      /\ \A s \in Requests : given[s] # derived[r]
  BY DEF getNewFeeAddressReturn, IInv, TypeOK, RequestsOK, RequestOK, InFlight, GeneratorOK
<1>2. /\ given'[r] = derived[r] /\ \A s \in Requests : s # r => given'[s] = given[s]
      /\ pc'[r] = "done" /\ \A s \in Requests : s # r => pc'[s] = pc[s]
      /\ addrMtx' = None
      /\ UNCHANGED <<xpubs, dbFile, addrGen, newKey, retiring, crashes>>
  BY DEF getNewFeeAddressReturn, Return, IInv, TypeOK, db, admin
<1>3. TypeOK'
  BY <1>1 DEF getNewFeeAddressReturn, Return, IInv, TypeOK, db, admin, PCs
<1>4. (OneActiveKey /\ KeysDistinct /\ GeneratorOK /\ AdminOK)'
  BY <1>2 DEF IInv, OneActiveKey, KeysDistinct, GeneratorOK, AdminOK
<1>5. GivenIndexIsSaved'
  <2> SUFFICES ASSUME NEW s \in Requests, given'[s] # None
               PROVE  \E id \in Stored(xpubs) : xpubs[id].Key = given'[s][1] /\ given'[s][2] <= xpubs[id].LastUsedIdx
    BY <1>2 DEF GivenIndexIsSaved
  <2>1. CASE s = r
    <3>1. Highest(xpubs) \in Stored(xpubs) /\ FeeXPub(xpubs) \in FeeXPubs
      BY ActiveRecord DEF IInv
    <3>2. given'[r][1] = FeeXPub(xpubs).Key /\ given'[r][2] = FeeXPub(xpubs).LastUsedIdx
      BY <1>1, <1>2
    <3>3. given'[r][2] <= FeeXPub(xpubs).LastUsedIdx
      BY <3>1, <3>2 DEF FeeXPubs
    <3> QED
      BY <2>1, <3>1, <3>2, <3>3 DEF FeeXPub
  <2>2. CASE s # r
    BY <1>2, <2>2 DEF IInv, GivenIndexIsSaved
  <2> QED
    BY <2>1, <2>2
<1>6. NoAddressGivenTwice'
  BY <1>1, <1>2 DEF IInv, NoAddressGivenTwice
<1>7. RequestsOK'
  <2> SUFFICES ASSUME NEW s \in Requests PROVE RequestOK(s)'
    BY DEF RequestsOK
  <2>1. CASE s = r
    BY <1>2, <2>1 DEF RequestOK, InFlight
  <2>2. CASE s # r
    <3>1. pc[s] \notin InFlight
      BY <1>1, <2>2 DEF IInv, RequestsOK, RequestOK
    <3> QED
      BY <1>2, <2>2, <3>1 DEF IInv, RequestsOK, RequestOK, InFlight
  <2> QED
    BY <2>1, <2>2
<1> QED
  BY <1>3, <1>4, <1>5, <1>6, <1>7 DEF IInv

(* vspadmin opens the database and reads the active key.                   *)
LEMMA RetireReadIInv ==
    ASSUME IInv, NEW key \in Keys, RetireXPubRead(key)
    PROVE  IInv'
<1> USE KeysAssumption, RecordsAssumption
<1>1. FeeXPub(xpubs) \in FeeXPubs /\ Highest(xpubs) \in 0 .. MaxID
  BY ActiveRecord DEF IInv
<1>2. retiring' \in FeeXPubs
  BY <1>1 DEF RetireXPubRead, FeeXPubs
<1>3. TypeOK'
  BY <1>2 DEF IInv, TypeOK, RetireXPubRead, gen, req
<1>4. (OneActiveKey /\ KeysDistinct /\ GivenIndexIsSaved /\ NoAddressGivenTwice)'
  BY BucketUnchanged DEF RetireXPubRead, req
<1>5. addrGen = None
  BY DEF RetireXPubRead, IInv, GeneratorOK
<1>6. GeneratorOK' /\ RequestsOK'
  BY <1>5 DEF RetireXPubRead, IInv, GeneratorOK, RequestsOK, RequestOK, InFlight, gen, req
<1>7. AdminOK'
  BY DEF RetireXPubRead, AdminOK
<1> QED
  BY <1>3, <1>4, <1>6, <1>7 DEF IInv

(* vspadmin stores the retired record and the new key behind it.           *)
LEMMA RetireWriteIInv == IInv /\ RetireXPubWrite => IInv'
<1> SUFFICES ASSUME IInv, RetireXPubWrite PROVE IInv'
  OBVIOUS
<1> USE KeysAssumption, RecordsAssumption
<1> DEFINE top == Highest(xpubs)
           old == [FeeXPub(xpubs) EXCEPT !.Retired = TRUE]
           new == NewXPub(top + 1, newKey)
<1>1. /\ top \in 0 .. MaxID /\ Stored(xpubs) = 0 .. top
      /\ FeeXPub(xpubs) \in FeeXPubs /\ FeeXPub(xpubs).ID = top
      /\ FeeXPub(xpubs) = xpubs[top]
      /\ \A id \in 0 .. MaxID : id > top => xpubs[id] = None
  BY ActiveRecord DEF IInv, FeeXPub
<1>2. /\ newKey \in Keys /\ top < MaxID /\ retiring = old
      /\ \A id \in 0 .. top : xpubs[id].Key # newKey
      /\ addrGen = None
  BY <1>1 DEF RetireXPubWrite, IInv, TypeOK, AdminOK, GeneratorOK
<1>3. /\ old \in FeeXPubs /\ old.ID = top /\ old.Key = xpubs[top].Key
      /\ old.LastUsedIdx = xpubs[top].LastUsedIdx /\ old.Retired /\ old # None
  BY <1>1 DEF FeeXPubs
<1>4. top + 1 \in 0 .. MaxID
  BY <1>1, <1>2
<1>5. /\ new \in FeeXPubs /\ new.ID = top + 1 /\ new.Key = newKey
      /\ ~new.Retired /\ new # None
  BY <1>2, <1>4, NewXPubRecord
<1>6. xpubs' = [[xpubs EXCEPT ![top] = old] EXCEPT ![top + 1] = new]
  BY <1>2, <1>3, <1>5 DEF RetireXPubWrite, insertFeeXPub
<1> HIDE DEF top, old, new
<1>7. /\ xpubs' \in [0 .. MaxID -> FeeXPubs \cup {None}]
      /\ xpubs'[top] = old /\ xpubs'[top + 1] = new
      /\ \A id \in 0 .. MaxID : id # top /\ id # top + 1 => xpubs'[id] = xpubs[id]
  <2> DEFINE mid == [xpubs EXCEPT ![top] = old]
  <2>1. xpubs \in [0 .. MaxID -> FeeXPubs \cup {None}]
    BY DEF IInv, TypeOK
  <2>2. /\ mid \in [0 .. MaxID -> FeeXPubs \cup {None}]
        /\ mid[top] = old
        /\ \A id \in 0 .. MaxID : id # top => mid[id] = xpubs[id]
    BY <1>1, <1>3, <2>1
  <2>3. xpubs' = [mid EXCEPT ![top + 1] = new]
    BY <1>6
  <2>4. top # top + 1
    BY <1>1
  <2> HIDE DEF mid
  <2> QED
    BY <1>1, <1>4, <1>5, <2>2, <2>3, <2>4
<1>8. TypeOK'
  BY <1>7 DEF IInv, TypeOK, RetireXPubWrite, gen, req
<1>9. Stored(xpubs') = 0 .. top + 1
  BY <1>1, <1>3, <1>4, <1>5, <1>7 DEF Stored
<1>10. \A id \in 0 .. top + 1 : id \in 0 .. MaxID /\ (id = top + 1 \/ id \in 0 .. top)
  BY <1>1, <1>4
<1>11. \A id \in 0 .. top : xpubs'[id].Key = xpubs[id].Key
                           /\ xpubs'[id].LastUsedIdx = xpubs[id].LastUsedIdx
  <2> SUFFICES ASSUME NEW id \in 0 .. top
               PROVE  xpubs'[id].Key = xpubs[id].Key /\ xpubs'[id].LastUsedIdx = xpubs[id].LastUsedIdx
    OBVIOUS
  <2>1. id # top + 1 /\ id \in 0 .. MaxID
    BY <1>1
  <2> QED
    BY <1>3, <1>7, <2>1
<1>12. OneActiveKey'
  <2>1. PICK t \in 0 .. MaxID :
          /\ Stored(xpubs) = 0 .. t
          /\ \A id \in 0 .. t : xpubs[id].ID = id /\ (xpubs[id].Retired <=> id < t)
    BY DEF IInv, OneActiveKey
  <2>2. t = top
    BY <2>1, HighestIsTop DEF top
  <2>3. \A id \in 0 .. top + 1 : xpubs'[id].ID = id /\ (xpubs'[id].Retired <=> id < top + 1)
    <3> SUFFICES ASSUME NEW id \in 0 .. top + 1
                 PROVE  xpubs'[id].ID = id /\ (xpubs'[id].Retired <=> id < top + 1)
      OBVIOUS
    <3>1. CASE id = top + 1
      <4>1. ~(top + 1 < top + 1)
        BY <1>1
      <4> QED
        BY <1>5, <1>7, <3>1, <4>1
    <3>2. CASE id = top
      <4>1. top < top + 1
        BY <1>1
      <4> QED
        BY <1>3, <1>7, <3>2, <4>1
    <3>3. CASE id # top /\ id # top + 1
      <4>1. id \in 0 .. t /\ id < t /\ id < top + 1 /\ id \in 0 .. MaxID
        BY <1>1, <2>2, <3>3
      <4> QED
        BY <1>7, <2>1, <3>3, <4>1
    <3> QED
      BY <3>1, <3>2, <3>3
  <2> QED
    BY <1>4, <1>9, <2>3 DEF OneActiveKey
<1>13. KeysDistinct'
  <2> SUFFICES ASSUME NEW a \in 0 .. top + 1, NEW b \in 0 .. top + 1, xpubs'[a].Key = xpubs'[b].Key
               PROVE  a = b
    BY <1>9 DEF KeysDistinct
  <2> QED
    BY <1>1, <1>2, <1>5, <1>7, <1>10, <1>11 DEF IInv, KeysDistinct
<1>14. GivenIndexIsSaved'
  <2> SUFFICES ASSUME NEW s \in Requests, given[s] # None
               PROVE  \E id \in 0 .. top + 1 : xpubs'[id].Key = given[s][1] /\ given[s][2] <= xpubs'[id].LastUsedIdx
    BY <1>9 DEF GivenIndexIsSaved, RetireXPubWrite, req
  <2>1. PICK id \in 0 .. top : xpubs[id].Key = given[s][1] /\ given[s][2] <= xpubs[id].LastUsedIdx
    BY <1>1 DEF IInv, GivenIndexIsSaved
  <2>2. id \in 0 .. top + 1
    BY <1>1
  <2> QED
    BY <1>11, <2>1, <2>2
<1>15. NoAddressGivenTwice'
  BY DEF IInv, NoAddressGivenTwice, RetireXPubWrite, req
<1>16. GeneratorOK' /\ RequestsOK' /\ AdminOK'
  BY <1>2 DEF RetireXPubWrite, IInv, GeneratorOK, RequestsOK, RequestOK, AdminOK, InFlight, gen, req
<1> QED
  BY <1>8, <1>12, <1>13, <1>14, <1>15, <1>16 DEF IInv

-----------------------------------------------------------------------------
(* IInv holds in every reachable state: the generator is in step with the  *)
(* database whatever requests, crashes and retirements interleave.         *)
THEOREM InvariantHolds == Spec => []IInv
<1>1. Init => IInv
  BY InitIInv
<1>2. IInv /\ [Next]_vars => IInv'
  <2> SUFFICES ASSUME IInv, [Next]_vars PROVE IInv'
    OBVIOUS
  <2>1. CASE UNCHANGED vars
    BY <2>1 DEF vars, db, gen, req, admin, IInv, TypeOK, OneActiveKey, KeysDistinct, GeneratorOK,
                RequestsOK, RequestOK, AdminOK, GivenIndexIsSaved, NoAddressGivenTwice
  <2>2. CASE Start
    BY <2>2, StartIInv
  <2>3. CASE Crash
    BY <2>3, CrashIInv
  <2>4. ASSUME NEW r \in Requests, getNewFeeAddress(r) PROVE IInv'
    BY <2>4, LockIInv, NextAddressIInv, NextAddressErrorIInv, ReadIInv, WriteIInv, SetErrorIInv,
       ReturnIInv DEF getNewFeeAddress
  <2>5. ASSUME NEW key \in Keys, RetireXPubRead(key) PROVE IInv'
    BY <2>5, RetireReadIInv
  <2>6. CASE RetireXPubWrite
    BY <2>6, RetireWriteIInv
  <2> QED
    BY <2>1, <2>2, <2>3, <2>4, <2>5, <2>6 DEF Next
<1> QED
  BY <1>1, <1>2, PTL DEF Spec

(* No fee address is given to two requests (getNewFeeAddress).             *)
THEOREM AddressesGivenOnce == Spec => []NoAddressGivenTwice
<1>1. IInv => NoAddressGivenTwice
  BY DEF IInv
<1> QED
  BY <1>1, InvariantHolds, PTL

(* What is given out is covered by the index in the database.              *)
THEOREM GivenAddressesSaved == Spec => []GivenIndexIsSaved
<1>1. IInv => GivenIndexIsSaved
  BY DEF IInv
<1> QED
  BY <1>1, InvariantHolds, PTL

(* The key IDs have no gaps and exactly the last key is not retired.       *)
THEOREM ActiveKeyUnique == Spec => []OneActiveKey
<1>1. IInv => OneActiveKey
  BY DEF IInv
<1> QED
  BY <1>1, InvariantHolds, PTL

(* FeeAddresses implements AddressSource: only the answer of               *)
(* getNewFeeAddress changes what is given, and it gives an address that    *)
(* was never given before.                                                 *)
THEOREM Refinement == Spec => ImplementsAddressSource
<1>1. Init => Source!Init
  BY DEF Init, Source!Init
<1>2. IInv /\ [Next]_vars => [Source!Next]_given
  <2> SUFFICES ASSUME IInv, [Next]_vars, given' # given PROVE Source!Next
    OBVIOUS
  <2>1. PICK r \in Requests : getNewFeeAddressReturn(r) \/ nextAddressError(r) \/ SetLastAddressIndexError(r)
    BY DEF Next, getNewFeeAddress, Start, Crash, Lock, nextAddress, SetLastAddressIndexRead,
           SetLastAddressIndexWrite, RetireXPubRead, RetireXPubWrite, vars, req
  <2>2. given[r] = None
    BY <2>1 DEF IInv, RequestsOK, RequestOK, InFlight, getNewFeeAddressReturn, nextAddressError,
                SetLastAddressIndexError
  <2>3. getNewFeeAddressReturn(r)
    <3>1. ASSUME Return(r, None, "failed") PROVE FALSE
      BY <2>2, <3>1 DEF Return, IInv, TypeOK
    <3> QED
      BY <2>1, <3>1 DEF nextAddressError, SetLastAddressIndexError
  <2>4. /\ derived[r] \in Addresses
        /\ \A s \in Requests : given[s] # derived[r]
        /\ given' = [given EXCEPT ![r] = derived[r]]
    BY <2>3 DEF IInv, TypeOK, RequestsOK, RequestOK, getNewFeeAddressReturn, Return
  <2> QED
    BY <2>2, <2>4 DEF Source!Next, Source!Give
<1> QED
  BY <1>1, <1>2, InvariantHolds, PTL DEF Spec, ImplementsAddressSource, Source!Spec

(* SetLastAddressIndex only raises the index of the active key.            *)
LEMMA WriteRaises ==
    ASSUME IInv, NEW r \in Requests, SetLastAddressIndexWrite(r),
           NEW id \in 0 .. MaxID, xpubs[id] # None
    PROVE  /\ xpubs'[id] # None /\ xpubs'[id].Key = xpubs[id].Key
           /\ xpubs'[id].LastUsedIdx >= xpubs[id].LastUsedIdx
           /\ xpubs[id].Retired => xpubs'[id] = xpubs[id]
<1> USE RecordsAssumption
<1> DEFINE old == FeeXPub(xpubs)
           last == addrGen.lastUsedIndex
           new == [old EXCEPT !.LastUsedIdx = last]
<1>1. /\ old \in FeeXPubs /\ ~old.Retired /\ old = xpubs[Highest(xpubs)]
      /\ old.ID = Highest(xpubs) /\ Highest(xpubs) \in 0 .. MaxID
  BY ActiveRecord DEF IInv, FeeXPub
<1>2. /\ last \in Nat /\ derived[r][2] = last /\ current[r] = old
      /\ last > old.LastUsedIdx /\ old.LastUsedIdx \in Nat
  BY <1>1 DEF SetLastAddressIndexWrite, IInv, TypeOK, RequestsOK, RequestOK, InFlight,
              Generators, FeeXPubs
<1>3. /\ new \in FeeXPubs /\ new.ID = Highest(xpubs) /\ new.Key = old.Key
      /\ new.LastUsedIdx = last
  BY <1>1, <1>2 DEF FeeXPubs
<1>4. xpubs' = [xpubs EXCEPT ![Highest(xpubs)] = new]
  BY <1>2, <1>3 DEF SetLastAddressIndexWrite, insertFeeXPub
<1>5. xpubs \in [0 .. MaxID -> FeeXPubs \cup {None}]
  BY DEF IInv, TypeOK
<1> HIDE DEF old, last, new
<1>6. CASE id = Highest(xpubs)
  BY <1>1, <1>2, <1>3, <1>4, <1>5, <1>6
<1>7. CASE id # Highest(xpubs)
  <2>1. xpubs'[id] = xpubs[id] /\ xpubs[id] \in FeeXPubs
    BY <1>4, <1>5, <1>7
  <2> QED
    BY <2>1 DEF FeeXPubs
<1> QED
  BY <1>6, <1>7

(* RetireXPub keeps the key and the index of the record it retires.        *)
LEMMA RetireKeeps ==
    ASSUME IInv, RetireXPubWrite, NEW id \in 0 .. MaxID, xpubs[id] # None
    PROVE  /\ xpubs'[id] # None /\ xpubs'[id].Key = xpubs[id].Key
           /\ xpubs'[id].LastUsedIdx >= xpubs[id].LastUsedIdx
           /\ xpubs[id].Retired => xpubs'[id] = xpubs[id]
<1> USE RecordsAssumption
<1> DEFINE top == Highest(xpubs)
           old == [FeeXPub(xpubs) EXCEPT !.Retired = TRUE]
           new == NewXPub(top + 1, newKey)
<1>1. /\ top \in 0 .. MaxID /\ FeeXPub(xpubs) \in FeeXPubs
      /\ FeeXPub(xpubs).ID = top /\ ~FeeXPub(xpubs).Retired
      /\ FeeXPub(xpubs) = xpubs[top]
      /\ id \in 0 .. top
  BY ActiveRecord DEF IInv, FeeXPub, Stored
<1>2. newKey \in Keys /\ top < MaxID /\ retiring = old
  BY <1>1 DEF RetireXPubWrite, IInv, TypeOK, AdminOK
<1>3. /\ old \in FeeXPubs /\ old.ID = top /\ old.Key = xpubs[top].Key
      /\ old.LastUsedIdx = xpubs[top].LastUsedIdx /\ old # None
      /\ old.LastUsedIdx \in Nat
  BY <1>1 DEF FeeXPubs
<1>4. new.ID = top + 1
  BY DEF NewXPub
<1>5. xpubs' = [[xpubs EXCEPT ![top] = old] EXCEPT ![top + 1] = new]
  BY <1>2, <1>3, <1>4 DEF RetireXPubWrite, insertFeeXPub
<1>6. xpubs \in [0 .. MaxID -> FeeXPubs \cup {None}] /\ xpubs[id] \in FeeXPubs
  BY DEF IInv, TypeOK
<1>7. id # top + 1 /\ top \in Nat
  BY <1>1
<1> HIDE DEF top, old, new
<1>8. CASE id = top
  BY <1>1, <1>3, <1>5, <1>6, <1>7, <1>8
<1>9. CASE id # top
  <2>1. xpubs'[id] = xpubs[id]
    BY <1>5, <1>6, <1>7, <1>9
  <2> QED
    BY <1>6, <2>1 DEF FeeXPubs
<1> QED
  BY <1>8, <1>9

(* The saved index never goes back, and a retired key is never written.    *)
THEOREM IndexGrows == Spec => SavedIndexGrows
<1> DEFINE Grows == \A id \in 0 .. MaxID : xpubs[id] # None =>
                      /\ xpubs'[id] # None
                      /\ xpubs'[id].Key = xpubs[id].Key
                      /\ xpubs'[id].LastUsedIdx >= xpubs[id].LastUsedIdx
                      /\ xpubs[id].Retired => xpubs'[id] = xpubs[id]
<1>1. IInv /\ [Next]_vars => [Grows]_vars
  <2> SUFFICES ASSUME IInv, Next PROVE Grows
    OBVIOUS
  <2>1. CASE \E r \in Requests : SetLastAddressIndexWrite(r)
    BY <2>1, WriteRaises
  <2>2. CASE RetireXPubWrite
    BY <2>2, RetireKeeps
  <2>3. CASE UNCHANGED xpubs
    <3>1. \A id \in 0 .. MaxID : xpubs[id] # None => xpubs[id] \in FeeXPubs
      BY DEF IInv, TypeOK
    <3> QED
      BY <2>3, <3>1 DEF FeeXPubs
  <2> QED
    BY <2>1, <2>2, <2>3 DEF Next, getNewFeeAddress, Start, Crash, Lock, nextAddress,
       nextAddressError, SetLastAddressIndexRead, SetLastAddressIndexError,
       getNewFeeAddressReturn, RetireXPubRead, db
<1> QED
  BY <1>1, InvariantHolds, PTL DEF Spec, SavedIndexGrows
=============================================================================
