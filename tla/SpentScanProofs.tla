--------------------------- MODULE SpentScanProofs ---------------------------
(***************************************************************************)
(* Proofs about the scan for spent tickets, for any tickets, scripts,      *)
(* chain, requests, failures and restarts: a scan finds exactly the        *)
(* tickets that its blocks spend, the outcomes in the database are true    *)
(* and settled once, and no spent ticket is left out between one scan and  *)
(* the next but for the exceptions that are tracked.                       *)
(*                                                                         *)
(* The argument.  At every iteration the tickets of the list are split     *)
(* between the slice and the results (SliceOK), and the results are those  *)
(* that the blocks passed so far spend (ScanOK); the chain only grows      *)
(* above the last block of the scan.  A result is true of the chain and of *)
(* the copy it was computed from (SpentOK), hence the outcome that is      *)
(* stored is.  A request holds copies without an outcome only (HeldOK), so *)
(* that a ticket of the scan still has the outcome it was listed with when *)
(* its result is stored (PendingOK).  That no ticket is missed (MissedOK)  *)
(* follows from where a scan for votable tickets starts and from what      *)
(* became votable since (StartOK).                                         *)
(***************************************************************************)
EXTENDS SpentScan, FiniteSetTheorems, SequenceTheorems, TLAPS

Scanning == phase \in {"scan", "block"}
Found == {s.ticket : s \in Elements(spent)}
SpentIn(a, b) == {t \in Listed : spentAt[t] \in a .. b}

(* The chain, as it may grow: a ticket is spent once, when it is mature.   *)
ChainOK ==
    /\ \A t \in Tickets :
          /\ spentBy[t] = "unspent" <=> spentAt[t] = 0
          /\ spentAt[t] <= height
          /\ spentAt[t] # 0 => Mature(t, spentAt[t])
    /\ lastScannedBlock <= height

(* A purchase height is right or missing, in the database and in copies.   *)
RightHeight(t, r) == r.PurchaseHeight \in {0, Bought[t]}

RecordsOK ==
    /\ \A t \in Tickets : RightHeight(t, rec[t])
    /\ \A t \in Listed : RightHeight(t, toCheck[t])

(* A copy that a request holds has no outcome, and is not about a ticket   *)
(* that an old version marked as revoked.                                  *)
HeldOK ==
    \A copy \in held :
        /\ RightHeight(copy.ticket, copy.record)
        /\ copy.record.Outcome = NoOutcome
        /\ rec[copy.ticket].Outcome # "revoked"

(* The slices have what is still looked for, in any order.                 *)
SliceOK ==
    Scanning =>
        /\ IsInjective(tickets)
        /\ scripts = [k \in DOMAIN tickets |-> ScriptOf[tickets[k]]]
        /\ Elements(tickets) = Listed \ Found

(* What is found is what the blocks so far spend; of the block that is     *)
(* looked at, the slice was searched up to index i.                        *)
ScanOK ==
    /\ Scanning =>
          /\ 1 <= startHeight /\ startHeight <= iHeight
          /\ iHeight <= endHeight + 1 /\ endHeight <= height
    /\ phase = "scan" => Found = SpentIn(startHeight, iHeight - 1)
    /\ phase = "block" =>
          /\ iHeight <= endHeight
          /\ SpentIn(startHeight, iHeight - 1) \subseteq Found
          /\ Found \subseteq SpentIn(startHeight, iHeight)
          /\ i \in 1 .. Len(tickets) + 1
          /\ \A j \in 1 .. i - 1 : spentAt[tickets[j]] # iHeight

(* A result is true of the chain and of the copy it was computed from.     *)
TrueResult(s) ==
    /\ s.ticket \in Listed
    /\ s.heightSpent = spentAt[s.ticket] /\ s.heightSpent # 0
    /\ s.spendingTx = spentBy[s.ticket]
    /\ s.expiryHeight = toCheck[s.ticket].PurchaseHeight + TicketMaturity + TicketExpiry

SpentOK ==
    /\ \A k \in DOMAIN spent : TrueResult(spent[k])
    /\ \A t \in Listed : toCheck[t].PurchaseHeight = 0 => t \in blind

(* The outcome that a ticket has until its result is dealt with: each      *)
(* ticket has one result only.                                             *)
Unsettled == IF why = "votable" THEN NoOutcome ELSE "revoked"

PendingOK ==
    /\ Scanning => \A t \in Listed : rec[t].Outcome = Unsettled
    /\ \A k \in DOMAIN spent : rec[spent[k].ticket].Outcome = Unsettled
    /\ \A j, k \in DOMAIN spent : spent[j].ticket = spent[k].ticket => j = k

(* A scan for votable tickets is for all of them, but for those that a     *)
(* request made votable meanwhile.  It starts at the last block of the     *)
(* previous one, or at a block that spends none of them yet.               *)
StartOK ==
    /\ phase \in {"heights", "revoked"} => lastScannedBlock = 0
    /\ phase \in {"heights", "revoked", "idle"} => Listed = {} /\ spent = <<>>
    /\ Scanning /\ why = "votable" =>
          /\ lastScannedBlock <= endHeight
          /\ \A t \in Tickets \ Listed :
                isVotable(t) /\ 0 < spentAt[t] /\ spentAt[t] < endHeight => t \in skipped
          /\ \/ startHeight = lastScannedBlock
             \/ /\ lastScannedBlock = 0
                /\ \A t \in Listed \ blind : startHeight <= Bought[t] + TicketMaturity

(* A votable ticket that is spent below the last scanned block is about to *)
(* get its outcome, or is one of the exceptions.                           *)
MissedOK ==
    \A t \in Tickets :
        isVotable(t) /\ 0 < spentAt[t] /\ spentAt[t] < lastScannedBlock =>
            \/ t \in skipped \cup blind
            \/ phase = "write" /\ why = "votable" /\ t \in Found

Inv ==
    /\ TypeOK /\ ChainOK /\ RecordsOK /\ HeldOK /\ OutcomeIsTrue
    /\ SliceOK /\ ScanOK /\ SpentOK /\ PendingOK /\ StartOK /\ MissedOK

-----------------------------------------------------------------------------
(* Lists and slices.                                                       *)

(* A set of numbers that is not empty has a least element.                 *)
LEMMA HasLeast ==
    ASSUME NEW S \in SUBSET Nat, S # {}
    PROVE  \E m \in S : \A n \in S : m <= n
<1>1. \E m \in S : \A n \in S : ~ (<<n, m>> \in OpToRel(<, Nat))
  BY NatLessThanWellFounded, WFMin
<1>2. \A m, n \in S : ~ (<<n, m>> \in OpToRel(<, Nat)) => m <= n
  BY DEF OpToRel
<1> QED
  BY <1>1, <1>2

(* The earliest purchase height is no later than any that is known.        *)
LEMMA EarliestIsLeast ==
    ASSUME TypeOK, NEW list \in SUBSET Tickets
    PROVE  /\ EarliestPurchaseHeight(list) \in Nat
           /\ \A t \in list : rec[t].PurchaseHeight # 0 =>
                 EarliestPurchaseHeight(list) <= rec[t].PurchaseHeight
<1> DEFINE known == {rec[t].PurchaseHeight : t \in list} \ {0}
<1>1. known \in SUBSET Nat
  <2>1. \A t \in list : rec[t].PurchaseHeight \in Nat
    BY DEF TypeOK, Records
  <2> QED
    BY <2>1
<1>2. EarliestPurchaseHeight(list) =
         IF known = {} THEN 0 ELSE CHOOSE h \in known : \A other \in known : h <= other
  BY DEF EarliestPurchaseHeight
<1>3. \A t \in list : rec[t].PurchaseHeight # 0 => rec[t].PurchaseHeight \in known
  OBVIOUS
<1> HIDE DEF known
<1>4. CASE known = {}
  BY <1>2, <1>3, <1>4
<1>5. CASE known # {}
  <2>1. \E h \in known : \A other \in known : h <= other
    BY <1>1, <1>5, HasLeast
  <2>2. /\ EarliestPurchaseHeight(list) \in known
        /\ \A other \in known : EarliestPurchaseHeight(list) <= other
    BY <1>2, <1>5, <2>1
  <2> QED
    BY <1>1, <1>3, <2>2
<1> QED
  BY <1>4, <1>5

(* A list in any order is a sequence with each of its members once.        *)
LEMMA OrdersList ==
    ASSUME NEW list \in SUBSET Tickets, NEW s \in Orders(list)
    PROVE  s \in Seq(Tickets) /\ IsInjective(s) /\ Elements(s) = list
<1> DEFINE n == Cardinality(list)
<1>1. IsFiniteSet(list) /\ n \in Nat
  BY ScanAssumption, FS_Subset, FS_CardinalityType
<1>2. Cardinality(1 .. n) = n
  BY <1>1, FS_Interval
<1>3. s \in [1 .. n -> list] /\ \A j, k \in 1 .. n : s[j] = s[k] => j = k
  BY DEF Orders
<1> HIDE DEF n
<1>4. IsInjective(s) /\ s \in Injection(1 .. n, list)
  BY <1>3 DEF IsInjective, Injection
<1>5. s \in Surjection(1 .. n, list)
  BY <1>1, <1>2, <1>4, FS_Injection DEF n
<1>6. Elements(s) = list
  BY <1>3, <1>5 DEF Elements, Surjection
<1>7. s \in Seq(Tickets)
  BY <1>1, <1>3
<1> QED
  BY <1>4, <1>6, <1>7

(* What is left of a slice when element k is removed: the last element is  *)
(* in its place (nonOrderPreservingRemove).                                *)
LEMMA Removed ==
    ASSUME NEW S, NEW s \in Seq(S), NEW k \in 1 .. Len(s)
    PROVE  /\ nonOrderPreservingRemove(s, k) \in Seq(S)
           /\ Len(nonOrderPreservingRemove(s, k)) = Len(s) - 1
           /\ DOMAIN nonOrderPreservingRemove(s, k) = 1 .. Len(s) - 1
           /\ \A j \in 1 .. Len(s) - 1 :
                 nonOrderPreservingRemove(s, k)[j] = IF j = k THEN s[Len(s)] ELSE s[j]
<1> DEFINE n == Len(s)
           moved == [s EXCEPT ![k] = s[n]]
<1>1. n \in Nat /\ n \in 1 .. n /\ s[n] \in S
  BY LenProperties
<1>2. /\ moved \in Seq(S) /\ Len(moved) = n
      /\ \A j \in 1 .. n : moved[j] = IF j = k THEN s[n] ELSE s[j]
  BY <1>1, ExceptSeq
<1> HIDE DEF moved
<1>3. \A j \in 1 .. n - 1 : moved[j] \in S
  BY <1>1, <1>2
<1>4. /\ SubSeq(moved, 1, n - 1) \in Seq(S)
      /\ Len(SubSeq(moved, 1, n - 1)) = n - 1
      /\ \A j \in 1 .. n - 1 : SubSeq(moved, 1, n - 1)[j] = moved[j]
  <2>1. 1 \in Int /\ n - 1 \in Int /\ (n - 1) - 1 + 1 = n - 1 /\ \A j \in 1 .. n - 1 : 1 + j - 1 = j
    BY <1>1
  <2> HIDE DEF n
  <2>2. /\ SubSeq(moved, 1, n - 1) \in Seq(S)
        /\ Len(SubSeq(moved, 1, n - 1)) = IF 1 <= n - 1 THEN n - 1 - 1 + 1 ELSE 0
        /\ \A j \in 1 .. n - 1 - 1 + 1 : SubSeq(moved, 1, n - 1)[j] = moved[1 + j - 1]
    BY <1>3, <2>1, SubSeqProperties
  <2> QED
    BY <1>1, <2>1, <2>2
<1>5. nonOrderPreservingRemove(s, k) = SubSeq(moved, 1, n - 1)
  BY DEF nonOrderPreservingRemove, moved
<1> QED
  BY <1>2, <1>4, <1>5, LenProperties

(* Exactly that element is gone, and the others are still there once.      *)
LEMMA RemovedElements ==
    ASSUME NEW S, NEW s \in Seq(S), NEW k \in 1 .. Len(s), IsInjective(s)
    PROVE  /\ IsInjective(nonOrderPreservingRemove(s, k))
           /\ Elements(nonOrderPreservingRemove(s, k)) = Elements(s) \ {s[k]}
<1> DEFINE n == Len(s)
           r == nonOrderPreservingRemove(s, k)
<1>1. n \in Nat /\ k \in 1 .. n /\ DOMAIN s = 1 .. n
  BY LenProperties
<1>2. \A a, b \in 1 .. n : s[a] = s[b] => a = b
  BY <1>1 DEF IsInjective
<1>3. DOMAIN r = 1 .. n - 1 /\ \A j \in 1 .. n - 1 : r[j] = IF j = k THEN s[n] ELSE s[j]
  BY Removed
<1> HIDE DEF n, r
<1>4. IsInjective(r)
  BY <1>1, <1>2, <1>3 DEF IsInjective
<1>5. \A j \in 1 .. n - 1 : r[j] \in Elements(s) \ {s[k]}
  BY <1>1, <1>2, <1>3 DEF Elements
<1>6. \A j \in 1 .. n : j # k => \E m \in 1 .. n - 1 : r[m] = s[j]
  <2> SUFFICES ASSUME NEW j \in 1 .. n, j # k PROVE \E m \in 1 .. n - 1 : r[m] = s[j]
    OBVIOUS
  <2>1. CASE j = n
    <3>1. k \in 1 .. n - 1 /\ r[k] = s[j]
      BY <1>1, <1>3, <2>1
    <3> QED
      BY <3>1
  <2>2. CASE j # n
    <3>1. j \in 1 .. n - 1 /\ r[j] = s[j]
      BY <1>1, <1>3, <2>2
    <3> QED
      BY <3>1
  <2> QED
    BY <2>1, <2>2
<1>7. Elements(r) = Elements(s) \ {s[k]}
  <2>1. Elements(r) = {r[j] : j \in 1 .. n - 1} /\ Elements(s) = {s[j] : j \in 1 .. n}
    BY <1>1, <1>3 DEF Elements
  <2>2. Elements(r) \subseteq Elements(s) \ {s[k]}
    BY <1>5, <2>1
  <2>3. Elements(s) \ {s[k]} \subseteq Elements(r)
    BY <1>6, <2>1
  <2> QED
    BY <2>2, <2>3
<1> QED
  BY <1>4, <1>7 DEF r

(* A sequence and one more element, a sequence without its head.           *)
LEMMA ElementsAppended ==
    ASSUME NEW S, NEW s \in Seq(S), NEW e \in S
    PROVE  Elements(Append(s, e)) = Elements(s) \cup {e}
<1>1. /\ Len(s) \in Nat /\ DOMAIN s = 1 .. Len(s)
      /\ DOMAIN Append(s, e) = 1 .. Len(s) + 1
      /\ \A k \in 1 .. Len(s) : Append(s, e)[k] = s[k]
      /\ Append(s, e)[Len(s) + 1] = e
  BY LenProperties
<1>2. 1 .. Len(s) + 1 = (1 .. Len(s)) \cup {Len(s) + 1}
  BY <1>1
<1> QED
  BY <1>1, <1>2 DEF Elements

LEMMA ElementsTail ==
    ASSUME NEW S, NEW s \in Seq(S), s # <<>>
    PROVE  Elements(s) = Elements(Tail(s)) \cup {Head(s)}
<1>1. /\ Len(s) \in Nat \ {0} /\ DOMAIN s = 1 .. Len(s) /\ Head(s) = s[1]
      /\ DOMAIN Tail(s) = 1 .. Len(s) - 1
      /\ \A k \in 1 .. Len(s) - 1 : Tail(s)[k] = s[k + 1]
  BY LenProperties, HeadTailProperties, EmptySeq
<1>2. \A k \in 1 .. Len(s) : k = 1 \/ k - 1 \in 1 .. Len(s) - 1
  BY <1>1
<1>3. Elements(s) \subseteq Elements(Tail(s)) \cup {Head(s)}
  <2> SUFFICES ASSUME NEW k \in 1 .. Len(s) PROVE s[k] \in Elements(Tail(s)) \cup {Head(s)}
    BY <1>1 DEF Elements
  <2>1. CASE k = 1
    BY <1>1, <2>1
  <2>2. CASE k # 1
    <3>1. k - 1 \in DOMAIN Tail(s) /\ Tail(s)[k - 1] = s[k]
      BY <1>1, <1>2, <2>2
    <3> QED
      BY <3>1 DEF Elements
  <2> QED
    BY <2>1, <2>2
<1>4. \A k \in 1 .. Len(s) - 1 : k + 1 \in 1 .. Len(s)
  BY <1>1
<1>5. 1 \in DOMAIN s
  BY <1>1
<1>6. Elements(Tail(s)) \cup {Head(s)} \subseteq Elements(s)
  BY <1>1, <1>4, <1>5 DEF Elements
<1> QED
  BY <1>3, <1>6

-----------------------------------------------------------------------------
(* Parts of the invariant that many steps leave alone.                     *)

(* The task is between scans: there is nothing to say about one.           *)
LEMMA Quiet ==
    ASSUME phase' \in {"heights", "revoked", "idle"}, Listed' = {}, spent' = <<>>,
           phase' = "idle" \/ lastScannedBlock' = 0
    PROVE  SliceOK' /\ ScanOK' /\ SpentOK' /\ PendingOK' /\ StartOK'
<1>1. ~Scanning'
  BY DEF Scanning
<1>2. SliceOK' /\ ScanOK'
  BY <1>1 DEF SliceOK, ScanOK
<1>3. SpentOK' /\ PendingOK'
  BY <1>1 DEF SpentOK, PendingOK
<1>4. StartOK'
  BY <1>1 DEF StartOK
<1> QED
  BY <1>2, <1>3, <1>4

LEMMA EndScanType ==
    ASSUME EndScan
    PROVE  /\ why' \in {"votable", "revoked"} /\ Listed' \in SUBSET Tickets /\ toCheck' \in [Listed' -> Records]
           /\ startHeight' \in Nat /\ endHeight' \in 0 .. MaxHeight /\ iHeight' \in Nat
           /\ tickets' \in Seq(Tickets) /\ scripts' \in Seq({ScriptOf[t] : t \in Tickets})
           /\ i' \in Nat /\ spent' \in Seq(SpentTickets)
           /\ Listed' = {} /\ spent' = <<>>
<1>1. Listed' = {} /\ toCheck' \in [Listed' -> Records]
  BY DEF EndScan, Listed
<1> QED
  BY <1>1, ScanAssumption, EmptySeq DEF EndScan

(* A height is a number.                                                   *)
LEMMA HeightsType ==
    TypeOK => /\ height \in Nat /\ lastScannedBlock \in Nat /\ endHeight \in Nat
              /\ startHeight \in Nat /\ iHeight \in Nat /\ i \in Nat
              /\ \A t \in Tickets : spentAt[t] \in Nat
<1>1. TypeOK => /\ height \in 0 .. MaxHeight /\ lastScannedBlock \in 0 .. MaxHeight
                /\ endHeight \in 0 .. MaxHeight
                /\ startHeight \in Nat /\ iHeight \in Nat /\ i \in Nat
                /\ \A t \in Tickets : spentAt[t] \in 0 .. MaxHeight
  BY DEF TypeOK
<1>2. MaxHeight \in Nat
  BY ScanAssumption
<1> QED
  BY <1>1, <1>2

(* The empty outcome is none of the others.                                *)
LEMMA NoOutcomeYet == NoOutcome \notin {"voted", "missed", "expired", "revoked"}
<1>1. "" # "voted" /\ "" # "missed" /\ "" # "expired" /\ "" # "revoked"
  BY Zenon
<1> QED
  BY <1>1, Zenon DEF NoOutcome

LEMMA FaultType ==
    ASSUME TypeOK, Fault
    PROVE  faults' \in 0 .. MaxFaults
<1>1. faults \in 0 .. MaxFaults
  BY DEF TypeOK
<1>2. MaxFaults \in Nat /\ faults < MaxFaults /\ faults' = faults + 1
  BY ScanAssumption DEF Fault
<1> QED
  BY <1>1, <1>2

(* The records stay true as long as neither they nor the chain change, and *)
(* a list that is read is true as well.                                    *)
LEMMA RecordsStay ==
    ASSUME RecordsOK, HeldOK, OutcomeIsTrue, UNCHANGED <<height, spentAt, spentBy, rec>>,
           held' \subseteq held, blind \subseteq blind',
           UNCHANGED toCheck \/ \A t \in Listed' : t \in Tickets /\ toCheck'[t] = rec[t]
    PROVE  RecordsOK' /\ HeldOK' /\ OutcomeIsTrue'
<1>1. RecordsOK'
  BY DEF RecordsOK, RightHeight, Listed
<1>2. HeldOK'
  BY DEF HeldOK, RightHeight
<1>3. OutcomeIsTrue'
  BY DEF OutcomeIsTrue
<1> QED
  BY <1>1, <1>2, <1>3

LEMMA ChainStays ==
    ASSUME ChainOK, UNCHANGED <<height, spentAt, spentBy, lastScannedBlock>>
    PROVE  ChainOK'
BY DEF ChainOK, Mature

(* Nor is a ticket missed then, outside the writes.                        *)
LEMMA MissedStays ==
    ASSUME MissedOK, phase # "write", UNCHANGED <<spentAt, rec, lastScannedBlock>>,
           skipped \subseteq skipped', blind \subseteq blind'
    PROVE  MissedOK'
<1>1. \A t \in Tickets : isVotable(t)' /\ 0 < spentAt'[t] /\ spentAt'[t] < lastScannedBlock' =>
         t \in skipped \cup blind
  BY DEF MissedOK, isVotable, Votable
<1> QED
  BY <1>1 DEF MissedOK

(* After a start every ticket is looked for again.                         *)
LEMMA NothingMissedYet ==
    ASSUME lastScannedBlock' = 0, \A t \in Tickets : spentAt'[t] \in Nat
    PROVE  MissedOK'
BY DEF MissedOK

-----------------------------------------------------------------------------
(* The steps between scans.                                                *)

LEMMA CheckPurchaseHeightsKeeps ==
    ASSUME Inv, checkPurchaseHeights
    PROVE  Inv'
<1>0. /\ phase = "heights" /\ lastScannedBlock = 0 /\ Listed = {} /\ spent = <<>>
      /\ phase' \in {"revoked", "idle"} /\ UNCHANGED <<chain, held, lastScannedBlock, scan, ghosts>>
  BY DEF Inv, StartOK, checkPurchaseHeights
<1>1. \A t \in Tickets :
         /\ rec'[t] \in Records /\ rec'[t].Outcome = rec[t].Outcome
         /\ rec'[t].PurchaseHeight \in {0, Bought[t]}
  <2> SUFFICES ASSUME NEW t \in Tickets
               PROVE  /\ rec'[t] \in Records /\ rec'[t].Outcome = rec[t].Outcome
                      /\ rec'[t].PurchaseHeight \in {0, Bought[t]}
    OBVIOUS
  <2>0. Bought[t] \in Nat
    BY ScanAssumption
  <2>1. rec[t] \in Records /\ rec[t].PurchaseHeight \in {0, Bought[t]}
    BY DEF Inv, TypeOK, RecordsOK, RightHeight
  <2>2. rec'[t] = rec[t] \/ rec'[t] = [rec[t] EXCEPT !.PurchaseHeight = Bought[t]]
    BY DEF checkPurchaseHeights
  <2> QED
    BY <2>0, <2>1, <2>2 DEF Records
<1>2. TypeOK'
  <2>1. DOMAIN rec' = Tickets /\ rec' = [t \in Tickets |-> rec'[t]]
    BY DEF Inv, TypeOK, checkPurchaseHeights
  <2>2. rec' \in [Tickets -> Records]
    BY <1>1, <2>1
  <2>3. faults' \in 0 .. MaxFaults
    <3>1. UNCHANGED faults \/ Fault
      BY DEF checkPurchaseHeights
    <3> QED
      BY <3>1, FaultType DEF Inv, TypeOK
  <2> QED
    BY <1>0, <2>2, <2>3 DEF Inv, TypeOK, Phases, Listed, chain, scan, ghosts
<1>3. ChainOK'
  BY <1>0, ChainStays DEF Inv, chain
<1>4. RecordsOK' /\ HeldOK' /\ OutcomeIsTrue'
  <2>1. RecordsOK'
    BY <1>0, <1>1 DEF RecordsOK, RightHeight, Listed, scan
  <2>2. HeldOK'
    BY <1>0, <1>1 DEF Inv, TypeOK, Copies, HeldOK, RightHeight
  <2>3. OutcomeIsTrue'
    BY <1>0, <1>1 DEF Inv, OutcomeIsTrue, chain, ghosts
  <2> QED
    BY <2>1, <2>2, <2>3
<1>5. SliceOK' /\ ScanOK' /\ SpentOK' /\ PendingOK' /\ StartOK'
  BY <1>0, Quiet DEF scan, Listed
<1>6. MissedOK'
  <2>1. \A t \in Tickets : spentAt'[t] \in Nat
    BY <1>0, HeightsType DEF Inv, chain
  <2> QED
    BY <1>0, <2>1, NothingMissedYet
<1> QED
  BY <1>2, <1>3, <1>4, <1>5, <1>6 DEF Inv

LEMMA FeeConfirmedKeeps ==
    ASSUME Inv, NEW t \in Tickets, feeConfirmed(t)
    PROVE  Inv'
<1>0. /\ phase = "idle" /\ Listed = {} /\ spent = <<>>
      /\ UNCHANGED <<chain, held, lastScannedBlock, phase, scan, blind, faults>>
  BY DEF Inv, StartOK, feeConfirmed
<1>1. \A u \in Tickets :
         /\ rec'[u] \in Records /\ rec'[u].Outcome = rec[u].Outcome
         /\ rec'[u].PurchaseHeight = rec[u].PurchaseHeight
         /\ u # t => rec'[u] = rec[u]
  <2> SUFFICES ASSUME NEW u \in Tickets
               PROVE  /\ rec'[u] \in Records /\ rec'[u].Outcome = rec[u].Outcome
                      /\ rec'[u].PurchaseHeight = rec[u].PurchaseHeight
                      /\ u # t => rec'[u] = rec[u]
    OBVIOUS
  <2>1. rec[u] \in Records
    BY DEF Inv, TypeOK
  <2>2. rec'[u] = IF u = t THEN [rec[u] EXCEPT !.FeeConfirmed = TRUE] ELSE rec[u]
    BY DEF Inv, TypeOK, feeConfirmed
  <2> QED
    BY <2>1, <2>2 DEF Records
<1>2. TypeOK'
  <2>1. rec' \in [Tickets -> Records]
    BY <1>1 DEF Inv, TypeOK, feeConfirmed
  <2>2. skipped' \in SUBSET Tickets
    BY DEF Inv, TypeOK, feeConfirmed
  <2> QED
    BY <1>0, <2>1, <2>2 DEF Inv, TypeOK, Listed, chain, scan
<1>3. ChainOK'
  BY <1>0, ChainStays DEF Inv, chain
<1>4. RecordsOK' /\ HeldOK' /\ OutcomeIsTrue'
  <2>1. RecordsOK'
    BY <1>0, <1>1 DEF Inv, RecordsOK, RightHeight, Listed, scan
  <2>2. HeldOK'
    BY <1>0, <1>1 DEF Inv, TypeOK, Copies, HeldOK, RightHeight
  <2>3. OutcomeIsTrue'
    BY <1>0, <1>1 DEF Inv, OutcomeIsTrue, chain
  <2> QED
    BY <2>1, <2>2, <2>3
<1>5. SliceOK' /\ ScanOK' /\ SpentOK' /\ PendingOK' /\ StartOK'
  BY <1>0, Quiet DEF scan, Listed
<1>6. MissedOK'
  <2> SUFFICES ASSUME NEW u \in Tickets, isVotable(u)', 0 < spentAt'[u], spentAt'[u] < lastScannedBlock'
               PROVE  u \in skipped' \cup blind'
    BY DEF MissedOK
  <2>1. 0 < spentAt[u] /\ spentAt[u] < lastScannedBlock
    BY <1>0 DEF chain
  <2>2. CASE u = t
    BY <1>0, <2>1, <2>2 DEF feeConfirmed, tooLate, nextStart
  <2>3. CASE u # t
    <3>1. isVotable(u)
      BY <1>1, <2>3 DEF isVotable, Votable
    <3>2. u \in skipped \cup blind
      BY <1>0, <2>1, <3>1 DEF Inv, MissedOK
    <3> QED
      BY <1>0, <3>2 DEF feeConfirmed
  <2> QED
    BY <2>2, <2>3
<1> QED
  BY <1>2, <1>3, <1>4, <1>5, <1>6 DEF Inv

(* A scan starts at a block that exists, or is refused.                    *)
LEMMA FindSpentKeeps ==
    ASSUME Inv, phase \in {"idle", "revoked"},
           NEW list \in SUBSET Tickets, NEW from \in Nat \ {0}, NEW for \in {"votable", "revoked"},
           findSpentTickets(list, from, for),
           UNCHANGED <<chain, rec, held, lastScannedBlock, skipped, faults>>,
           for = "votable" =>
               /\ list = votableTickets
               /\ \/ from = lastScannedBlock
                  \/ /\ lastScannedBlock = 0
                     /\ \A t \in list : rec[t].PurchaseHeight # 0 => from <= Bought[t] + TicketMaturity,
           for = "revoked" => \A t \in list : rec[t].Outcome = "revoked"
    PROVE  Inv'
<1>0. blind \subseteq blind' /\ phase # "write"
  BY DEF findSpentTickets
<1>1. ChainOK'
  BY ChainStays DEF Inv, chain
<1>2. RecordsOK' /\ HeldOK' /\ OutcomeIsTrue'
  <2>1. \A t \in Listed' : t \in Tickets /\ toCheck'[t] = rec[t]
    BY DEF findSpentTickets, EndScan, Listed
  <2> QED
    BY <1>0, <2>1, RecordsStay DEF Inv, chain
<1>3. MissedOK'
  BY <1>0, MissedStays DEF Inv, chain
<1>4. CASE phase' = "idle" /\ EndScan /\ UNCHANGED blind
  <2>1. TypeOK'
    BY <1>4, EndScanType DEF Inv, TypeOK, chain, Phases
  <2>2. SliceOK' /\ ScanOK' /\ SpentOK' /\ PendingOK' /\ StartOK'
    BY <1>4, EndScanType, Quiet
  <2> QED
    BY <1>1, <1>2, <1>3, <2>1, <2>2 DEF Inv
<1>5. CASE /\ from <= height
           /\ phase' = "scan"
           /\ why' = for
           /\ toCheck' = [t \in list |-> rec[t]]
           /\ startHeight' = from /\ endHeight' = height /\ iHeight' = from
           /\ tickets' \in Orders(list)
           /\ scripts' = [k \in DOMAIN tickets' |-> ScriptOf[tickets'[k]]]
           /\ i' = 0 /\ spent' = <<>>
           /\ blind' = blind \cup {t \in list : rec[t].PurchaseHeight = 0}
  <2>0. Listed' = list /\ \A t \in list : toCheck'[t] = rec[t]
    BY <1>5 DEF Listed
  <2>1. tickets' \in Seq(Tickets) /\ IsInjective(tickets') /\ Elements(tickets') = list
    BY <1>5, OrdersList
  <2>2. scripts' \in Seq({ScriptOf[t] : t \in Tickets})
    <3>1. Len(tickets') \in Nat /\ DOMAIN tickets' = 1 .. Len(tickets')
      BY <2>1, LenProperties
    <3>2. \A k \in 1 .. Len(tickets') : ScriptOf[tickets'[k]] \in {ScriptOf[t] : t \in Tickets}
      BY <2>1, ElementOfSeq
    <3> QED
      BY <1>5, <3>1, <3>2
  <2>3. spent' \in Seq(SpentTickets) /\ DOMAIN spent' = {} /\ Elements(spent') = {}
    BY <1>5 DEF Elements
  <2>4. Found' = {}
    BY <2>3 DEF Found
  <2>5. TypeOK'
    <3>1. blind' \in SUBSET Tickets
      BY <1>5 DEF Inv, TypeOK
    <3>2. height \in 0 .. MaxHeight /\ height \in Nat
      BY HeightsType DEF Inv, TypeOK
    <3>3. Listed' \in SUBSET Tickets /\ toCheck' \in [Listed' -> Records]
      BY <1>5, <2>0 DEF Inv, TypeOK
    <3> QED
      BY <1>5, <2>1, <2>2, <2>3, <3>1, <3>2, <3>3 DEF Inv, TypeOK, chain, Phases
  <2>6. SliceOK'
    BY <1>5, <2>0, <2>1, <2>4 DEF SliceOK
  <2>7. ScanOK'
    <3>1. height \in Nat /\ height' = height /\ \A t \in Tickets : spentAt'[t] \in Nat
      BY HeightsType DEF Inv, chain
    <3>2. SpentIn(startHeight, iHeight - 1)' = {}
      <4>1. \A n \in Nat : n \notin from .. from - 1
        OBVIOUS
      <4> QED
        BY <1>5, <3>1, <4>1 DEF SpentIn
    <3> QED
      BY <1>5, <2>4, <3>1, <3>2 DEF ScanOK
  <2>8. SpentOK'
    BY <1>5, <2>0, <2>3 DEF SpentOK
  <2>9. PendingOK'
    <3>1. for = "votable" => \A t \in list : rec[t].Outcome = NoOutcome
      BY DEF votableTickets, isVotable, Votable
    <3> QED
      BY <1>5, <2>0, <2>3, <3>1 DEF PendingOK, Unsettled
  <2>10. StartOK'
    <3>1. phase' = "scan" /\ \A t \in Tickets : isVotable(t)' = isVotable(t)
      BY <1>5 DEF isVotable, Votable
    <3>2. \A t \in list \ blind' : rec[t].PurchaseHeight # 0
      BY <1>5
    <3>3. ASSUME for = "votable"
          PROVE  /\ lastScannedBlock' <= endHeight'
                 /\ \A t \in Tickets \ Listed' : ~isVotable(t)'
                 /\ \/ startHeight' = lastScannedBlock'
                    \/ /\ lastScannedBlock' = 0
                       /\ \A t \in Listed' \ blind' : startHeight' <= Bought[t] + TicketMaturity
      <4>1. lastScannedBlock' <= endHeight'
        BY <1>5 DEF Inv, ChainOK
      <4>2. \A t \in Tickets \ Listed' : ~isVotable(t)'
        BY <2>0, <3>1, <3>3 DEF votableTickets
      <4> QED
        BY <1>5, <2>0, <3>2, <3>3, <4>1, <4>2
    <3> QED
      BY <1>5, <3>1, <3>3 DEF StartOK
  <2> QED
    BY <1>1, <1>2, <1>3, <2>5, <2>6, <2>7, <2>8, <2>9, <2>10 DEF Inv
<1> QED
  BY <1>4, <1>5 DEF findSpentTickets

(* The start that is computed from purchase heights.                       *)
LEMMA StartFromPurchase ==
    ASSUME Inv, NEW list \in SUBSET Tickets
    PROVE  /\ EarliestPurchaseHeight(list) + TicketMaturity \in Nat \ {0}
           /\ \A t \in list : rec[t].PurchaseHeight # 0 =>
                 EarliestPurchaseHeight(list) + TicketMaturity <= Bought[t] + TicketMaturity
<1>1. /\ EarliestPurchaseHeight(list) \in Nat /\ TicketMaturity \in Nat \ {0}
      /\ \A t \in Tickets : Bought[t] \in Nat
  BY EarliestIsLeast, ScanAssumption DEF Inv
<1>2. \A t \in list : rec[t].PurchaseHeight # 0 => EarliestPurchaseHeight(list) <= Bought[t]
  BY EarliestIsLeast DEF Inv, RecordsOK, RightHeight
<1> QED
  BY <1>1, <1>2

LEMMA SetOutcomesKeeps ==
    ASSUME Inv, setOutcomes
    PROVE  Inv'
<1> DEFINE from == scanStart(votableTickets)
<1>1. /\ phase = "idle" /\ findSpentTickets(votableTickets, from, "votable")
      /\ UNCHANGED <<chain, rec, held, lastScannedBlock, skipped, faults>>
  BY DEF setOutcomes
<1>2. votableTickets \in SUBSET Tickets
  BY DEF votableTickets
<1>3. /\ from \in Nat \ {0}
      /\ \/ from = lastScannedBlock
         \/ /\ lastScannedBlock = 0
            /\ \A t \in votableTickets :
                  rec[t].PurchaseHeight # 0 => from <= Bought[t] + TicketMaturity
  <2>1. CASE lastScannedBlock = 0
    BY <1>2, <2>1, StartFromPurchase DEF scanStart
  <2>2. CASE lastScannedBlock # 0
    BY <2>2, HeightsType DEF Inv, scanStart
  <2> QED
    BY <2>1, <2>2
<1> HIDE DEF from
<1> QED
  BY <1>1, <1>2, <1>3, FindSpentKeeps

LEMMA CheckRevokedKeeps ==
    ASSUME Inv, checkRevoked
    PROVE  Inv'
<1> DEFINE revoked == {t \in Tickets : rec[t].Outcome = "revoked"}
           from == EarliestPurchaseHeight(revoked) + TicketMaturity
<1>1. phase = "revoked" /\ UNCHANGED <<chain, rec, held, lastScannedBlock, skipped>>
  BY DEF checkRevoked
<1>2. CASE findSpentTickets(revoked, from, "revoked") /\ UNCHANGED faults
  <2>1. from \in Nat \ {0}
    BY StartFromPurchase
  <2> HIDE DEF from, revoked
  <2>2. revoked \in SUBSET Tickets /\ \A t \in revoked : rec[t].Outcome = "revoked"
    BY DEF revoked
  <2> QED
    BY <1>1, <1>2, <2>1, <2>2, FindSpentKeeps
<1>3. CASE phase' = "idle" /\ UNCHANGED <<scan, blind>> /\ (UNCHANGED faults \/ Fault)
  <2>1. faults' \in 0 .. MaxFaults
    BY <1>3, FaultType DEF Inv, TypeOK
  <2>2. TypeOK'
    BY <1>1, <1>3, <2>1 DEF Inv, TypeOK, Phases, Listed, chain, scan
  <2>3. ChainOK' /\ RecordsOK' /\ HeldOK' /\ OutcomeIsTrue' /\ MissedOK'
    BY <1>1, <1>3, ChainStays, RecordsStay, MissedStays DEF Inv, chain, scan
  <2>4. SliceOK' /\ ScanOK' /\ SpentOK' /\ PendingOK' /\ StartOK'
    BY <1>1, <1>3, Quiet DEF Inv, StartOK, scan, Listed
  <2> QED
    BY <2>2, <2>3, <2>4 DEF Inv
<1> QED
  BY <1>2, <1>3 DEF checkRevoked

(* A scan is given up, and so is one that the process does not survive.    *)
LEMMA ScanErrorKeeps ==
    ASSUME Inv, scanError
    PROVE  Inv'
<1>0. /\ phase # "write" /\ phase' = "idle" /\ Fault /\ EndScan
      /\ UNCHANGED <<chain, rec, held, lastScannedBlock, ghosts>>
  BY DEF scanError
<1>1. TypeOK'
  BY <1>0, EndScanType, FaultType DEF Inv, TypeOK, chain, ghosts, Phases
<1>2. ChainOK' /\ RecordsOK' /\ HeldOK' /\ OutcomeIsTrue' /\ MissedOK'
  BY <1>0, EndScanType, ChainStays, RecordsStay, MissedStays DEF Inv, ghosts, chain
<1>3. SliceOK' /\ ScanOK' /\ SpentOK' /\ PendingOK' /\ StartOK'
  BY <1>0, EndScanType, Quiet
<1> QED
  BY <1>1, <1>2, <1>3 DEF Inv

LEMMA RestartKeeps ==
    ASSUME Inv, Restart
    PROVE  Inv'
<1>0. /\ phase' = "heights" /\ lastScannedBlock' = 0 /\ skipped' = {} /\ Fault /\ EndScan
      /\ held' = {} /\ subscribed' = TRUE
      /\ UNCHANGED <<height, spentAt, spentBy, rec, blind>>
  BY DEF Restart
<1>1. TypeOK'
  <2>1. 0 \in 0 .. MaxHeight
    BY ScanAssumption
  <2> QED
    BY <1>0, <2>1, EndScanType, FaultType DEF Inv, TypeOK, Phases
<1>2. ChainOK'
  <2>1. lastScannedBlock' <= height'
    BY <1>0, HeightsType DEF Inv
  <2> QED
    BY <1>0, <2>1 DEF Inv, ChainOK, Mature
<1>3. RecordsOK' /\ HeldOK' /\ OutcomeIsTrue'
  BY <1>0, EndScanType, RecordsStay DEF Inv
<1>4. SliceOK' /\ ScanOK' /\ SpentOK' /\ PendingOK' /\ StartOK'
  BY <1>0, EndScanType, Quiet
<1>5. MissedOK'
  <2>1. \A t \in Tickets : spentAt'[t] \in Nat
    BY <1>0, HeightsType DEF Inv
  <2> QED
    BY <1>0, <2>1, NothingMissedYet
<1> QED
  BY <1>1, <1>2, <1>3, <1>4, <1>5 DEF Inv

-----------------------------------------------------------------------------
(* The chain grows above every scan.                                       *)
LEMMA NewBlockKeeps ==
    ASSUME Inv, NewBlock
    PROVE  Inv'
<1>0. /\ height < MaxHeight /\ height' = height + 1 /\ MaxHeight \in Nat /\ height \in Nat
      /\ lastScannedBlock \in Nat /\ lastScannedBlock <= height
      /\ \A t \in Tickets : spentAt[t] \in Nat /\ Bought[t] + TicketMaturity \in Nat
      /\ startHeight \in Nat /\ iHeight \in Nat /\ endHeight \in Nat
      /\ UNCHANGED <<subscribed, rec, held, lastScannedBlock, phase, scan, ghosts, faults>>
  <2>1. \A t \in Tickets : Bought[t] + TicketMaturity \in Nat
    BY ScanAssumption
  <2> QED
    BY <2>1, HeightsType, ScanAssumption DEF Inv, NewBlock, ChainOK
<1>1. PICK block \in SUBSET {t \in Tickets : spentAt[t] = 0 /\ Mature(t, height')},
           how \in [Tickets -> {"vote", "revoke"}] :
         /\ spentAt' = [t \in Tickets |-> IF t \in block THEN height' ELSE spentAt[t]]
         /\ spentBy' = [t \in Tickets |-> IF t \in block THEN how[t] ELSE spentBy[t]]
  BY DEF NewBlock
<1>2. \A t \in Tickets :
         /\ spentAt[t] \in Nat /\ spentAt'[t] \in Nat /\ Bought[t] + TicketMaturity \in Nat
         /\ \/ /\ spentAt[t] = 0 /\ spentBy[t] = "unspent" /\ height + 1 > Bought[t] + TicketMaturity
               /\ spentAt'[t] = height + 1 /\ spentBy'[t] \in {"vote", "revoke"}
            \/ spentAt'[t] = spentAt[t] /\ spentBy'[t] = spentBy[t]
  <2> SUFFICES ASSUME NEW t \in Tickets
               PROVE  /\ spentAt[t] \in Nat /\ spentAt'[t] \in Nat /\ Bought[t] + TicketMaturity \in Nat
                      /\ \/ /\ spentAt[t] = 0 /\ spentBy[t] = "unspent" /\ height + 1 > Bought[t] + TicketMaturity
                            /\ spentAt'[t] = height + 1 /\ spentBy'[t] \in {"vote", "revoke"}
                         \/ spentAt'[t] = spentAt[t] /\ spentBy'[t] = spentBy[t]
    OBVIOUS
  <2>1. CASE t \in block
    <3>1. spentAt[t] = 0 /\ Mature(t, height') /\ spentAt'[t] = height' /\ spentBy'[t] = how[t]
      BY <1>1, <2>1
    <3>2. spentBy[t] = "unspent"
      BY <3>1 DEF Inv, ChainOK
    <3>3. how[t] \in {"vote", "revoke"}
      BY <1>1
    <3>4. height + 1 > Bought[t] + TicketMaturity
      BY <1>0, <3>1 DEF Mature
    <3> QED
      BY <1>0, <3>1, <3>2, <3>3, <3>4
  <2>2. CASE t \notin block
    BY <1>0, <1>1, <2>2
  <2> QED
    BY <2>1, <2>2
<1>3. TypeOK'
  <2>1. height' \in 0 .. MaxHeight
    BY <1>0
  <2>2. spentAt' \in [Tickets -> 0 .. MaxHeight]
    BY <1>1, <2>1 DEF Inv, TypeOK
  <2>3. spentBy' \in [Tickets -> {"unspent", "vote", "revoke"}]
    BY <1>1 DEF Inv, TypeOK
  <2> QED
    BY <1>0, <2>1, <2>2, <2>3 DEF Inv, TypeOK, Listed, scan, ghosts
<1>4. ChainOK'
  <2>1. \A t \in Tickets : /\ spentBy[t] = "unspent" <=> spentAt[t] = 0
                           /\ spentAt[t] <= height
                           /\ spentAt[t] # 0 => spentAt[t] > Bought[t] + TicketMaturity
    BY DEF Inv, ChainOK, Mature
  <2>2. \A t \in Tickets : /\ spentBy'[t] = "unspent" <=> spentAt'[t] = 0
                           /\ spentAt'[t] <= height'
                           /\ spentAt'[t] # 0 => spentAt'[t] > Bought[t] + TicketMaturity
    <3>1. height \in Nat /\ height' = height + 1
      BY <1>0
    <3> QED
      BY <1>2, <2>1, <3>1
  <2>3. lastScannedBlock' <= height'
    BY <1>0
  <2> QED
    BY <2>2, <2>3 DEF ChainOK, Mature
<1>5. RecordsOK' /\ HeldOK'
  BY <1>0 DEF Inv, RecordsOK, HeldOK, RightHeight, Listed, scan
<1>6. OutcomeIsTrue'
  <2>1. \A t \in Tickets :
           rec[t].Outcome \in {"voted", "missed", "expired", "revoked"} =>
              spentAt'[t] = spentAt[t] /\ spentBy'[t] = spentBy[t]
    BY <1>2 DEF Inv, OutcomeIsTrue
  <2> QED
    BY <1>0, <2>1 DEF Inv, OutcomeIsTrue, ghosts
<1>7. SliceOK'
  BY <1>0 DEF Inv, SliceOK, Scanning, Found, Listed, scan
<1>8. ScanOK'
  <2>1. CASE ~Scanning
    BY <1>0, <2>1 DEF ScanOK, Scanning
  <2>2. CASE Scanning
    <3>1. /\ 1 <= startHeight /\ startHeight <= iHeight
          /\ iHeight <= endHeight + 1 /\ endHeight <= height
      BY <2>2 DEF Inv, ScanOK
    <3>2. \A b \in Nat : b <= height => SpentIn(startHeight, b)' = SpentIn(startHeight, b)
      <4> SUFFICES ASSUME NEW b \in Nat, b <= height
                   PROVE  SpentIn(startHeight, b)' = SpentIn(startHeight, b)
        OBVIOUS
      <4>0. height \in Nat /\ startHeight \in Nat
        BY <1>0
      <4>1. \A t \in Tickets : spentAt'[t] \in startHeight .. b <=> spentAt[t] \in startHeight .. b
        BY <1>2, <3>1, <4>0
      <4>2. Listed \subseteq Tickets /\ toCheck' = toCheck /\ startHeight' = startHeight
        BY <1>0 DEF Inv, TypeOK, scan
      <4> QED
        BY <4>1, <4>2 DEF SpentIn, Listed
    <3>3. /\ SpentIn(startHeight, iHeight - 1)' = SpentIn(startHeight, iHeight - 1)
          /\ iHeight <= endHeight => SpentIn(startHeight, iHeight)' = SpentIn(startHeight, iHeight)
      <4>1. iHeight - 1 \in Nat /\ iHeight - 1 <= height
        BY <1>0, <3>1
      <4>2. iHeight <= endHeight => iHeight <= height
        BY <1>0, <3>1
      <4>3. iHeight' = iHeight
        BY <1>0 DEF scan
      <4> QED
        BY <1>0, <3>2, <4>1, <4>2, <4>3 DEF SpentIn, Listed, scan
    <3>4. ASSUME phase = "block" PROVE \A j \in 1 .. i - 1 : spentAt'[tickets[j]] # iHeight
      <4> SUFFICES ASSUME NEW j \in 1 .. i - 1 PROVE spentAt'[tickets[j]] # iHeight
        OBVIOUS
      <4>1. spentAt[tickets[j]] # iHeight /\ iHeight <= endHeight /\ i \in 1 .. Len(tickets) + 1
        BY <3>4 DEF Inv, ScanOK
      <4>2. tickets[j] \in Tickets
        <5>1. tickets \in Seq(Tickets)
          BY DEF Inv, TypeOK
        <5>2. j \in 1 .. Len(tickets)
          BY <4>1, <5>1, LenProperties
        <5> QED
          BY <5>1, <5>2, ElementOfSeq
      <4>3. height \in Nat /\ iHeight \in Nat /\ endHeight \in Nat
        BY <1>0
      <4> QED
        BY <1>2, <3>1, <4>1, <4>2, <4>3
    <3>5. Found' = Found
      BY <1>0 DEF Found, scan
    <3>6. /\ startHeight' = startHeight /\ iHeight' = iHeight /\ endHeight' = endHeight
          /\ i' = i /\ tickets' = tickets /\ phase' = phase
          /\ endHeight <= height'
      BY <1>0, <3>1 DEF scan
    <3>7. phase = "scan" => Found' = SpentIn(startHeight, iHeight - 1)'
      BY <3>3, <3>5 DEF Inv, ScanOK
    <3>8. phase = "block" =>
             /\ iHeight <= endHeight
             /\ SpentIn(startHeight, iHeight - 1)' \subseteq Found'
             /\ Found' \subseteq SpentIn(startHeight, iHeight)'
             /\ i \in 1 .. Len(tickets) + 1
      BY <3>3, <3>5 DEF Inv, ScanOK
    <3> QED
      BY <3>1, <3>4, <3>6, <3>7, <3>8 DEF ScanOK
  <2> QED
    BY <2>1, <2>2
<1>9. SpentOK'
  <2>1. /\ spent' = spent /\ toCheck' = toCheck /\ Listed' = Listed
        /\ why' = why /\ blind' = blind /\ rec' = rec
    BY <1>0 DEF scan, ghosts, Listed
  <2>2. \A k \in DOMAIN spent : TrueResult(spent[k])'
    <3> SUFFICES ASSUME NEW k \in DOMAIN spent PROVE TrueResult(spent[k])'
      OBVIOUS
    <3>1. TrueResult(spent[k]) /\ spent[k].ticket \in Tickets
      BY DEF Inv, SpentOK, TypeOK, TrueResult
    <3> QED
      BY <1>2, <2>1, <3>1 DEF TrueResult
  <2> QED
    BY <2>1, <2>2 DEF Inv, SpentOK
<1>10. PendingOK' /\ StartOK'
  <2>1. /\ Listed' = Listed /\ why' = why /\ spent' = spent /\ rec' = rec
        /\ endHeight' = endHeight /\ startHeight' = startHeight /\ phase' = phase
        /\ skipped' = skipped /\ blind' = blind /\ lastScannedBlock' = lastScannedBlock
    BY <1>0 DEF scan, ghosts, Listed
  <2>2. PendingOK'
    BY <2>1 DEF Inv, PendingOK, Unsettled, Scanning
  <2>3. ASSUME Scanning PROVE \A t \in Tickets : spentAt'[t] < endHeight => spentAt'[t] = spentAt[t]
    <3>1. endHeight <= height
      BY <2>3 DEF Inv, ScanOK
    <3>2. endHeight \in Nat /\ height \in Nat
      BY <1>0
    <3> QED
      BY <1>2, <3>1, <3>2
  <2>4. StartOK'
    BY <2>1, <2>3 DEF Inv, StartOK, Scanning, isVotable, Votable
  <2> QED
    BY <2>2, <2>4
<1>11. MissedOK'
  <2> SUFFICES ASSUME NEW t \in Tickets, isVotable(t)', 0 < spentAt'[t], spentAt'[t] < lastScannedBlock'
               PROVE  \/ t \in skipped' \cup blind'
                      \/ phase' = "write" /\ why' = "votable" /\ t \in Found'
    BY DEF MissedOK
  <2>1. spentAt'[t] = spentAt[t] /\ isVotable(t)
    <3>1. spentAt'[t] < height + 1
      <4>1. height \in Nat /\ lastScannedBlock \in Nat /\ lastScannedBlock <= height
        BY <1>0
      <4>2. spentAt'[t] < lastScannedBlock
        BY <1>0
      <4>3. spentAt'[t] \in Nat
        BY <1>2
      <4> QED
        BY <4>1, <4>2, <4>3
    <3> QED
      BY <1>0, <1>2, <3>1 DEF isVotable, Votable
  <2>2. t \in skipped \cup blind \/ (phase = "write" /\ why = "votable" /\ t \in Found)
    BY <1>0, <2>1 DEF Inv, MissedOK
  <2> QED
    BY <1>0, <2>2 DEF Found, scan, ghosts
<1> QED
  BY <1>3, <1>4, <1>5, <1>6, <1>7, <1>8, <1>9, <1>10, <1>11 DEF Inv

-----------------------------------------------------------------------------
(* The connection, and the requests that hold copies of records.           *)

LEMMA RedialKeeps ==
    ASSUME Inv, Redial
    PROVE  Inv'
<1>0. /\ UNCHANGED <<height, spentAt, spentBy, rec, held, lastScannedBlock, phase, scan, ghosts>>
      /\ subscribed' \in BOOLEAN /\ (UNCHANGED faults \/ Fault)
  BY DEF Redial
<1>1. TypeOK'
  <2>1. faults' \in 0 .. MaxFaults
    BY <1>0, FaultType DEF Inv, TypeOK
  <2> QED
    BY <1>0, <2>1 DEF Inv, TypeOK, Listed, scan, ghosts
<1>2. ChainOK' /\ RecordsOK' /\ HeldOK' /\ OutcomeIsTrue'
  BY <1>0, ChainStays, RecordsStay DEF Inv, scan, ghosts
<1>3. Scanning' = Scanning /\ Found' = Found /\ Listed' = Listed
  BY <1>0 DEF Scanning, Found, Listed, scan
<1>4. SliceOK' /\ ScanOK'
  BY <1>0, <1>3 DEF Inv, SliceOK, ScanOK, SpentIn, scan
<1>5. SpentOK' /\ PendingOK' /\ StartOK'
  BY <1>0, <1>3 DEF Inv, SpentOK, TrueResult, PendingOK, Unsettled, StartOK, isVotable, Votable, scan, ghosts
<1>6. MissedOK'
  BY <1>0, <1>3 DEF Inv, MissedOK, isVotable, Votable, scan, ghosts
<1> QED
  BY <1>1, <1>2, <1>4, <1>5, <1>6 DEF Inv

(* Only the copies that are held change.                                   *)
LEMMA HeldChanges ==
    ASSUME Inv, UNCHANGED <<chain, rec, lastScannedBlock, phase, scan, ghosts, faults>>,
           held' \in SUBSET Copies, HeldOK'
    PROVE  Inv'
<1>1. TypeOK'
  BY DEF Inv, TypeOK, Listed, chain, scan, ghosts
<1>2. ChainOK' /\ RecordsOK' /\ OutcomeIsTrue'
  BY DEF Inv, ChainOK, Mature, RecordsOK, RightHeight, OutcomeIsTrue, Listed, chain, scan, ghosts
<1>3. Scanning' = Scanning /\ Found' = Found /\ Listed' = Listed
  BY DEF Scanning, Found, Listed, scan
<1>4. SliceOK' /\ ScanOK'
  BY <1>3 DEF Inv, SliceOK, ScanOK, SpentIn, chain, scan
<1>5. SpentOK' /\ PendingOK' /\ StartOK'
  BY <1>3 DEF Inv, SpentOK, TrueResult, PendingOK, Unsettled, StartOK, isVotable, Votable, chain, scan, ghosts
<1>6. MissedOK'
  BY <1>3 DEF Inv, MissedOK, isVotable, Votable, chain, scan, ghosts
<1> QED
  BY <1>1, <1>2, <1>4, <1>5, <1>6 DEF Inv

LEMMA VspAuthKeeps ==
    ASSUME Inv, NEW t \in Clients, vspAuth(t)
    PROVE  Inv'
<1> DEFINE copy == [ticket |-> t, record |-> rec[t]]
<1>0. /\ rec[t].Outcome = NoOutcome /\ held' = held \cup {copy}
      /\ UNCHANGED <<chain, rec, lastScannedBlock, phase, scan, ghosts, faults>>
  BY DEF vspAuth
<1>1. t \in Tickets /\ rec[t] \in Records /\ RightHeight(t, rec[t])
  BY ScanAssumption DEF Inv, TypeOK, RecordsOK
<1>2. held' \in SUBSET Copies
  BY <1>0, <1>1 DEF Inv, TypeOK, Copies
<1>3. copy.ticket = t /\ copy.record = rec[t] /\ rec[t].Outcome # "revoked"
  BY <1>0, NoOutcomeYet
<1> HIDE DEF copy
<1>4. HeldOK'
  BY <1>0, <1>1, <1>3 DEF Inv, HeldOK, RightHeight
<1> QED
  BY <1>0, <1>2, <1>4, HeldChanges

LEMMA SendErrorKeeps ==
    ASSUME Inv, NEW copy \in held, sendError(copy)
    PROVE  Inv'
<1>0. /\ held' \subseteq held
      /\ UNCHANGED <<chain, rec, lastScannedBlock, phase, scan, ghosts, faults>>
  BY DEF sendError
<1>1. held' \in SUBSET Copies /\ HeldOK'
  BY <1>0 DEF Inv, TypeOK, HeldOK, RightHeight
<1> QED
  BY <1>0, <1>1, HeldChanges

(* A copy replaces the record.  It has no outcome: the tickets of a scan   *)
(* under way keep the one they wait for, and a ticket that becomes votable *)
(* too late for the next scan is tracked.                                  *)
LEMMA UpdateTicketKeeps ==
    ASSUME Inv, NEW copy \in held, UpdateTicket(copy)
    PROVE  Inv'
<1> DEFINE t == copy.ticket
<1>0. /\ rec' = [rec EXCEPT ![t] = copy.record]
      /\ held' \subseteq held
      /\ skipped' = IF ~isVotable(t) /\ Votable(copy.record) /\ tooLate(t)
                    THEN skipped \cup {t} ELSE skipped
      /\ UNCHANGED <<chain, lastScannedBlock, phase, scan, blind, faults>>
      /\ Listed' = Listed /\ toCheck' = toCheck
  BY DEF UpdateTicket, Listed, scan
<1>1. /\ t \in Tickets /\ copy.record \in Records
      /\ RightHeight(t, copy.record) /\ copy.record.Outcome = NoOutcome /\ rec[t].Outcome # "revoked"
      /\ copy.record.Outcome # "revoked"
  BY NoOutcomeYet DEF Inv, TypeOK, Copies, HeldOK
<1>2. \A u \in Tickets : rec'[u] = IF u = t THEN copy.record ELSE rec[u]
  BY <1>0 DEF Inv, TypeOK
<1>3. \A u \in Tickets : isVotable(u)' <=> Votable(rec'[u])
  BY DEF isVotable, Votable
<1> HIDE DEF t
<1>4. TypeOK'
  <2>1. rec' \in [Tickets -> Records]
    BY <1>0, <1>1 DEF Inv, TypeOK
  <2>2. skipped' \in SUBSET Tickets /\ held' \in SUBSET Copies
    BY <1>0, <1>1 DEF Inv, TypeOK
  <2> QED
    BY <1>0, <2>1, <2>2 DEF Inv, TypeOK, Listed, chain, scan
<1>5. ChainOK'
  BY <1>0, ChainStays DEF Inv, chain
<1>6. RecordsOK' /\ HeldOK'
  <2>1. RecordsOK'
    BY <1>0, <1>1, <1>2 DEF Inv, RecordsOK, RightHeight
  <2>2. \A c \in held' : c \in held /\ c.ticket \in Tickets /\ rec'[c.ticket].Outcome # "revoked"
    BY <1>0, <1>1, <1>2 DEF Inv, TypeOK, Copies, HeldOK
  <2>3. HeldOK'
    BY <2>2 DEF Inv, HeldOK, RightHeight
  <2> QED
    BY <2>1, <2>3
<1>7. OutcomeIsTrue'
  <2>1. \A u \in Tickets : rec'[u] = rec[u] \/ rec'[u].Outcome \notin {"voted", "missed", "expired", "revoked"}
    BY <1>1, <1>2, NoOutcomeYet
  <2> QED
    BY <1>0, <2>1 DEF Inv, OutcomeIsTrue, chain
<1>8. Scanning' = Scanning /\ Found' = Found
  BY <1>0 DEF Scanning, Found, scan
<1>9. SliceOK' /\ ScanOK'
  BY <1>0, <1>8 DEF Inv, SliceOK, ScanOK, SpentIn, chain, scan
<1>10. SpentOK'
  BY <1>0 DEF Inv, SpentOK, TrueResult, chain, scan
<1>11. PendingOK'
  <2>1. \A u \in Tickets : rec[u].Outcome = Unsettled => rec'[u].Outcome = Unsettled
    BY <1>1, <1>2 DEF Unsettled
  <2>2. Listed \subseteq Tickets /\ \A k \in DOMAIN spent : spent[k].ticket \in Tickets
    BY DEF Inv, TypeOK, SpentOK, TrueResult
  <2>3. spent' = spent /\ Unsettled' = Unsettled
    BY <1>0 DEF scan, Unsettled
  <2> QED
    BY <1>0, <1>8, <2>1, <2>2, <2>3 DEF Inv, PendingOK
<1>12. ASSUME NEW u \in Tickets, isVotable(u)', 0 < spentAt[u], spentAt[u] < nextStart
       PROVE  isVotable(u) \/ u \in skipped'
  <2>1. CASE u = t
    BY <1>0, <1>2, <1>3, <1>12, <2>1 DEF tooLate
  <2>2. CASE u # t
    BY <1>2, <1>3, <1>12, <2>2 DEF isVotable
  <2> QED
    BY <2>1, <2>2
<1>13. spentAt' = spentAt /\ skipped \subseteq skipped'
  BY <1>0 DEF chain
<1>14. StartOK'
  <2>1. phase' = phase /\ why' = why /\ spent' = spent /\ endHeight' = endHeight
        /\ startHeight' = startHeight /\ blind' = blind /\ lastScannedBlock' = lastScannedBlock
    BY <1>0 DEF scan
  <2>2. ASSUME Scanning, why = "votable", NEW u \in Tickets \ Listed,
               isVotable(u)', 0 < spentAt[u], spentAt[u] < endHeight
        PROVE  u \in skipped'
    <3>1. nextStart = endHeight
      BY <2>2 DEF nextStart, Scanning
    <3>2. isVotable(u) \/ u \in skipped'
      BY <1>12, <2>2, <3>1
    <3>3. isVotable(u) => u \in skipped
      BY <2>2 DEF Inv, StartOK
    <3> QED
      BY <1>13, <3>2, <3>3
  <2> QED
    BY <1>0, <1>8, <1>13, <2>1, <2>2 DEF Inv, StartOK
<1>15. MissedOK'
  <2> SUFFICES ASSUME NEW u \in Tickets, isVotable(u)', 0 < spentAt'[u], spentAt'[u] < lastScannedBlock'
               PROVE  \/ u \in skipped' \cup blind'
                      \/ phase' = "write" /\ why' = "votable" /\ u \in Found'
    BY DEF MissedOK
  <2>1. 0 < spentAt[u] /\ spentAt[u] < lastScannedBlock /\ phase' = phase /\ why' = why /\ blind' = blind
    BY <1>0, <1>13 DEF scan
  <2>2. spentAt[u] < nextStart
    <3>1. CASE Scanning /\ why = "votable"
      <4>1. lastScannedBlock <= endHeight /\ nextStart = endHeight
        BY <3>1 DEF Inv, StartOK, nextStart, Scanning
      <4>2. lastScannedBlock \in Nat /\ endHeight \in Nat /\ spentAt[u] \in Nat
        BY HeightsType DEF Inv
      <4> QED
        BY <2>1, <4>1, <4>2
    <3>2. CASE ~(Scanning /\ why = "votable")
      BY <2>1, <3>2 DEF nextStart, Scanning
    <3> QED
      BY <3>1, <3>2
  <2>3. isVotable(u) \/ u \in skipped'
    BY <1>12, <2>1, <2>2
  <2>4. ASSUME isVotable(u)
        PROVE  \/ u \in skipped \cup blind
               \/ phase = "write" /\ why = "votable" /\ u \in Found
    BY <2>1, <2>4 DEF Inv, MissedOK
  <2> QED
    BY <1>8, <1>13, <2>1, <2>3, <2>4
<1> QED
  BY <1>4, <1>5, <1>6, <1>7, <1>9, <1>10, <1>11, <1>14, <1>15 DEF Inv

-----------------------------------------------------------------------------
(* The steps of a scan.                                                    *)

(* The filter of a block does not match: the block spends none of the      *)
(* tickets in the slice, because their scripts are aligned with them.      *)
LEMMA ScanBlockKeeps ==
    ASSUME Inv, scanBlock
    PROVE  Inv'
<1>0. /\ phase = "scan" /\ iHeight <= endHeight /\ Scanning
      /\ UNCHANGED <<chain, rec, held, lastScannedBlock, why, toCheck, startHeight, endHeight,
                     tickets, scripts, spent, ghosts, faults>>
      /\ Listed' = Listed
  BY DEF scanBlock, Scanning, Listed
<1>1. \/ /\ ~MatchAny(iHeight, scripts) /\ iHeight' = iHeight + 1 /\ phase' = phase /\ i' = i
      \/ phase' = "block" /\ i' = 1 /\ iHeight' = iHeight
  BY DEF scanBlock
<1>2. /\ height \in Nat /\ startHeight \in Nat /\ iHeight \in Nat /\ endHeight \in Nat
      /\ \A t \in Tickets : spentAt[t] \in Nat
      /\ startHeight >= 1 /\ startHeight <= iHeight /\ endHeight <= height
      /\ Found = SpentIn(startHeight, iHeight - 1)
      /\ Listed \subseteq Tickets /\ tickets \in Seq(Tickets) /\ Len(tickets) \in Nat
  <2>1. /\ startHeight >= 1 /\ startHeight <= iHeight /\ endHeight <= height
        /\ Found = SpentIn(startHeight, iHeight - 1)
    BY <1>0, HeightsType DEF Inv, ScanOK
  <2>2. Listed \subseteq Tickets /\ tickets \in Seq(Tickets)
    BY DEF Inv, TypeOK
  <2> QED
    BY <2>1, <2>2, HeightsType, LenProperties DEF Inv
<1>3. TypeOK'
  <2>1. iHeight' \in Nat /\ i' \in Nat /\ phase' \in Phases
    BY <1>0, <1>1, <1>2, HeightsType DEF Inv, Phases
  <2> QED
    BY <1>0, <2>1 DEF Inv, TypeOK, chain, ghosts
<1>4. ChainOK' /\ RecordsOK' /\ HeldOK' /\ OutcomeIsTrue' /\ MissedOK'
  BY <1>0, ChainStays, RecordsStay, MissedStays DEF Inv, ghosts, chain
<1>5. Scanning' /\ Found' = Found
  BY <1>0, <1>1 DEF Scanning, Found
<1>6. SliceOK'
  BY <1>0, <1>5 DEF Inv, SliceOK
<1>8. ScanOK'
  <2>1. CASE ~MatchAny(iHeight, scripts) /\ iHeight' = iHeight + 1 /\ phase' = phase /\ i' = i
    <3>1. \A k \in DOMAIN tickets : spentAt[tickets[k]] # iHeight
      <4> SUFFICES ASSUME NEW k \in DOMAIN tickets, spentAt[tickets[k]] = iHeight PROVE FALSE
        OBVIOUS
      <4>1. scripts = [j \in DOMAIN tickets |-> ScriptOf[tickets[j]]]
        BY <1>0 DEF Inv, SliceOK
      <4>2. tickets[k] \in Tickets
        BY <1>2, ElementOfSeq, LenProperties
      <4>3. k \in DOMAIN scripts /\ scripts[k] = ScriptOf[tickets[k]]
        BY <4>1
      <4> QED
        BY <2>1, <4>2, <4>3 DEF MatchAny
    <3>2. Elements(tickets) = Listed \ Found
      BY <1>0 DEF Inv, SliceOK
    <3>3. \A t \in Listed : spentAt[t] # iHeight
      <4> SUFFICES ASSUME NEW t \in Listed, spentAt[t] = iHeight PROVE FALSE
        OBVIOUS
      <4>1. t \in Found
        BY <3>1, <3>2 DEF Elements
      <4> QED
        BY <1>2, <4>1 DEF SpentIn
    <3>4. SpentIn(startHeight, iHeight) = SpentIn(startHeight, iHeight - 1)
      BY <1>2, <3>3 DEF SpentIn
    <3>5. SpentIn(startHeight, iHeight - 1)' = SpentIn(startHeight, iHeight)
      BY <1>0, <1>2, <2>1 DEF SpentIn, chain
    <3>6. height' = height
      BY <1>0 DEF chain
    <3> QED
      BY <1>0, <1>2, <1>5, <2>1, <3>4, <3>5, <3>6 DEF ScanOK
  <2>2. CASE phase' = "block" /\ i' = 1 /\ iHeight' = iHeight
    <3>1. /\ SpentIn(startHeight, iHeight - 1)' = SpentIn(startHeight, iHeight - 1)
          /\ SpentIn(startHeight, iHeight)' = SpentIn(startHeight, iHeight)
      BY <1>0, <2>2 DEF SpentIn, chain
    <3>2. SpentIn(startHeight, iHeight - 1) \subseteq SpentIn(startHeight, iHeight)
      BY <1>2 DEF SpentIn
    <3>3. 1 \in 1 .. Len(tickets) + 1 /\ 1 .. 1 - 1 = {} /\ height' = height
      BY <1>0, <1>2 DEF chain
    <3> QED
      BY <1>0, <1>2, <1>5, <2>2, <3>1, <3>2, <3>3 DEF ScanOK
  <2> QED
    BY <1>1, <2>1, <2>2
<1>9. SpentOK'
  BY <1>0 DEF Inv, SpentOK, TrueResult, chain, ghosts
<1>10. PendingOK' /\ StartOK'
  BY <1>0, <1>1 DEF Inv, PendingOK, Unsettled, StartOK, Scanning, isVotable, Votable, chain, ghosts
<1> QED
  BY <1>3, <1>4, <1>6, <1>8, <1>9, <1>10 DEF Inv

(* Every ticket of the block was looked at.                                *)
LEMMA BlockDoneKeeps ==
    ASSUME Inv, blockDone
    PROVE  Inv'
<1>0. /\ phase = "block" /\ i > Len(tickets) /\ Scanning
      /\ phase' = "scan" /\ iHeight' = iHeight + 1 /\ i' = 0
      /\ UNCHANGED <<chain, rec, held, lastScannedBlock, why, toCheck, startHeight, endHeight,
                     tickets, scripts, spent, ghosts, faults>>
      /\ Listed' = Listed
  BY DEF blockDone, Scanning, Listed
<1>1. /\ startHeight \in Nat /\ iHeight \in Nat /\ endHeight \in Nat /\ height \in Nat
      /\ startHeight >= 1 /\ startHeight <= iHeight /\ iHeight <= endHeight /\ endHeight <= height
      /\ SpentIn(startHeight, iHeight - 1) \subseteq Found
      /\ Found \subseteq SpentIn(startHeight, iHeight)
      /\ i \in 1 .. Len(tickets) + 1 /\ tickets \in Seq(Tickets)
      /\ \A j \in 1 .. i - 1 : spentAt[tickets[j]] # iHeight
      /\ Listed \subseteq Tickets /\ \A t \in Tickets : spentAt[t] \in Nat
  <2>1. Listed \subseteq Tickets /\ tickets \in Seq(Tickets)
    BY DEF Inv, TypeOK
  <2> QED
    BY <1>0, <2>1, HeightsType DEF Inv, ScanOK
<1>2. TypeOK'
  BY <1>0, <1>1 DEF Inv, TypeOK, Phases, chain, ghosts
<1>3. ChainOK' /\ RecordsOK' /\ HeldOK' /\ OutcomeIsTrue' /\ MissedOK'
  BY <1>0, ChainStays, RecordsStay, MissedStays DEF Inv, ghosts, chain
<1>4. Scanning' /\ Found' = Found
  BY <1>0 DEF Scanning, Found
<1>5. SliceOK'
  BY <1>0, <1>4 DEF Inv, SliceOK
<1>6. \A t \in Listed \ Found : spentAt[t] # iHeight
  <2>1. DOMAIN tickets = 1 .. Len(tickets) /\ Len(tickets) \in Nat
    BY <1>1, LenProperties
  <2>2. 1 .. i - 1 = DOMAIN tickets
    BY <1>0, <1>1, <2>1
  <2>3. Elements(tickets) = Listed \ Found
    BY <1>0 DEF Inv, SliceOK
  <2> QED
    BY <1>1, <2>2, <2>3 DEF Elements
<1>7. Found = SpentIn(startHeight, iHeight)
  <2>1. \A n \in startHeight .. iHeight : n = iHeight \/ n \in startHeight .. iHeight - 1
    BY <1>1
  <2>2. \A t \in SpentIn(startHeight, iHeight) : t \in Found
    BY <1>1, <1>6, <2>1 DEF SpentIn
  <2> QED
    BY <1>1, <2>2
<1>8. SpentIn(startHeight, iHeight - 1)' = SpentIn(startHeight, iHeight) /\ height' = height
  BY <1>0, <1>1 DEF SpentIn, chain
<1>9. ScanOK'
  BY <1>0, <1>1, <1>4, <1>7, <1>8 DEF ScanOK
<1>10. SpentOK'
  BY <1>0 DEF Inv, SpentOK, TrueResult, chain, ghosts
<1>11. PendingOK' /\ StartOK'
  BY <1>0 DEF Inv, PendingOK, Unsettled, StartOK, Scanning, isVotable, Votable, chain, ghosts
<1> QED
  BY <1>2, <1>3, <1>5, <1>9, <1>10, <1>11 DEF Inv

(* A ticket that the block spends moves from the slice to the results; the *)
(* last ticket of the slice takes its place and is looked at next.         *)
LEMMA CheckTicketKeeps ==
    ASSUME Inv, checkTicket
    PROVE  Inv'
<1> DEFINE t == tickets[i]
<1>0. /\ phase = "block" /\ phase' = "block" /\ i <= Len(tickets) /\ Scanning /\ Scanning'
      /\ UNCHANGED <<chain, rec, held, lastScannedBlock, phase, why, toCheck, startHeight, endHeight, iHeight,
                     ghosts, faults>>
      /\ Listed' = Listed
  BY DEF checkTicket, Scanning, Listed
<1>1. /\ tickets \in Seq(Tickets) /\ spent \in Seq(SpentTickets)
      /\ scripts \in Seq({ScriptOf[u] : u \in Tickets})
      /\ Listed \subseteq Tickets
  BY DEF Inv, TypeOK
<1>2. /\ startHeight \in Nat /\ iHeight \in Nat /\ endHeight \in Nat /\ height \in Nat /\ i \in Nat
      /\ startHeight >= 1 /\ startHeight <= iHeight /\ iHeight <= endHeight /\ endHeight <= height
      /\ SpentIn(startHeight, iHeight - 1) \subseteq Found
      /\ Found \subseteq SpentIn(startHeight, iHeight)
      /\ i \in 1 .. Len(tickets) + 1
      /\ \A j \in 1 .. i - 1 : spentAt[tickets[j]] # iHeight
  BY <1>0, HeightsType DEF Inv, ScanOK
<1>3. /\ Len(tickets) \in Nat /\ DOMAIN tickets = 1 .. Len(tickets) /\ i \in 1 .. Len(tickets)
      /\ t \in Tickets
  BY <1>0, <1>1, <1>2, LenProperties, ElementOfSeq
<1>4. /\ IsInjective(tickets) /\ Elements(tickets) = Listed \ Found
      /\ scripts = [k \in DOMAIN tickets |-> ScriptOf[tickets[k]]]
  BY <1>0 DEF Inv, SliceOK
<1>5. ChainOK' /\ RecordsOK' /\ HeldOK' /\ OutcomeIsTrue' /\ MissedOK'
  BY <1>0, ChainStays, RecordsStay, MissedStays DEF Inv, ghosts, chain
<1>6. StartOK'
  BY <1>0 DEF Inv, StartOK, Scanning, isVotable, Votable, chain, ghosts
<1>7. /\ SpentIn(startHeight, iHeight - 1)' = SpentIn(startHeight, iHeight - 1)
      /\ SpentIn(startHeight, iHeight)' = SpentIn(startHeight, iHeight)
      /\ height' = height /\ spentAt' = spentAt /\ spentBy' = spentBy
  BY <1>0 DEF SpentIn, chain
<1> HIDE DEF t
<1>8. CASE /\ spentAt[t] = iHeight
           /\ spent' = Append(spent, spentTicket(t))
           /\ tickets' = nonOrderPreservingRemove(tickets, i)
           /\ scripts' = nonOrderPreservingRemove(scripts, i)
           /\ UNCHANGED i
  <2>1. /\ tickets' \in Seq(Tickets) /\ Len(tickets') = Len(tickets) - 1
        /\ DOMAIN tickets' = 1 .. Len(tickets) - 1
        /\ \A j \in 1 .. Len(tickets) - 1 :
              tickets'[j] = IF j = i THEN tickets[Len(tickets)] ELSE tickets[j]
    BY <1>1, <1>3, <1>8, Removed
  <2>2. IsInjective(tickets') /\ Elements(tickets') = Elements(tickets) \ {t}
    BY <1>1, <1>3, <1>4, <1>8, RemovedElements DEF t
  <2>3. Len(scripts) = Len(tickets)
    BY <1>1, <1>3, <1>4, LenProperties
  <2>4. /\ scripts' \in Seq({ScriptOf[u] : u \in Tickets})
        /\ DOMAIN scripts' = 1 .. Len(tickets) - 1
        /\ \A j \in 1 .. Len(tickets) - 1 :
              scripts'[j] = IF j = i THEN scripts[Len(tickets)] ELSE scripts[j]
    <3> DEFINE S == {ScriptOf[u] : u \in Tickets}
    <3>1. scripts \in Seq(S) /\ i \in 1 .. Len(scripts)
      BY <1>1, <1>3, <2>3
    <3> HIDE DEF S
    <3>2. /\ nonOrderPreservingRemove(scripts, i) \in Seq(S)
          /\ DOMAIN nonOrderPreservingRemove(scripts, i) = 1 .. Len(scripts) - 1
          /\ \A j \in 1 .. Len(scripts) - 1 :
                nonOrderPreservingRemove(scripts, i)[j] = IF j = i THEN scripts[Len(scripts)] ELSE scripts[j]
      BY <3>1, Removed
    <3> QED
      BY <1>8, <2>3, <3>2 DEF S
  <2>5. scripts' = [k \in DOMAIN tickets' |-> ScriptOf[tickets'[k]]]
    <3>1. \A j \in 1 .. Len(tickets) : scripts[j] = ScriptOf[tickets[j]]
      BY <1>3, <1>4
    <3>2. \A j \in 1 .. Len(tickets) - 1 : scripts'[j] = ScriptOf[tickets'[j]]
      BY <1>3, <2>1, <2>4, <3>1
    <3>3. scripts' = [k \in DOMAIN scripts' |-> scripts'[k]]
      BY <2>4, LenProperties
    <3> QED
      BY <2>1, <2>4, <3>2, <3>3
  <2>6. /\ toCheck[t] \in Records /\ toCheck[t].PurchaseHeight \in Nat
        /\ TicketMaturity \in Nat /\ TicketExpiry \in Nat
        /\ spentBy[t] \in {"vote", "revoke"}
    <3>1. spentAt[t] # 0
      BY <1>2, <1>8
    <3>2. spentBy[t] # "unspent"
      BY <1>3, <3>1 DEF Inv, ChainOK
    <3>3. spentBy[t] \in {"unspent", "vote", "revoke"}
      BY <1>3 DEF Inv, TypeOK
    <3>4. toCheck[t] \in Records
      <4>1. t \in Listed
        BY <1>3, <1>4 DEF t, Elements
      <4> QED
        BY <4>1 DEF Inv, TypeOK
    <3> QED
      BY <3>2, <3>3, <3>4, ScanAssumption DEF Records
  <2>7. /\ spentTicket(t) \in SpentTickets
        /\ spentTicket(t).ticket = t
        /\ spentTicket(t).heightSpent = iHeight
        /\ spentTicket(t).spendingTx = spentBy[t]
        /\ spentTicket(t).expiryHeight = toCheck[t].PurchaseHeight + TicketMaturity + TicketExpiry
    BY <1>2, <1>3, <2>6 DEF spentTicket, SpentTickets
  <2>8. /\ spent' \in Seq(SpentTickets)
        /\ Elements(spent') = Elements(spent) \cup {spentTicket(t)}
    BY <1>1, <1>8, <2>7, ElementsAppended
  <2>9. Found' = Found \cup {t}
    BY <2>7, <2>8 DEF Found
  <2>10. t \in Listed
    BY <1>3, <1>4 DEF t, Elements
  <2>11. TypeOK'
    BY <1>0, <1>8, <2>1, <2>4, <2>8 DEF Inv, TypeOK, chain, ghosts
  <2>12. SliceOK'
    BY <1>0, <1>4, <2>2, <2>5, <2>9 DEF SliceOK
  <2>13. ScanOK'
    <3>1. t \in SpentIn(startHeight, iHeight)
      BY <1>2, <1>8, <2>10 DEF SpentIn
    <3>2. SpentIn(startHeight, iHeight - 1)' \subseteq Found' /\ Found' \subseteq SpentIn(startHeight, iHeight)'
      BY <1>2, <1>7, <2>9, <3>1
    <3>3. \A j \in 1 .. i - 1 : spentAt[tickets'[j]] # iHeight
      BY <1>2, <1>3, <2>1
    <3>4. i \in 1 .. Len(tickets') + 1
      BY <1>3, <2>1
    <3> QED
      BY <1>0, <1>2, <1>7, <1>8, <3>2, <3>3, <3>4 DEF ScanOK
  <2>14. SpentOK'
    <3>1. \A s : TrueResult(s)' <=> TrueResult(s)
      BY <1>0, <1>7 DEF TrueResult
    <3>2. TrueResult(spentTicket(t))
      BY <1>2, <1>8, <2>7, <2>10 DEF TrueResult
    <3>3. \A s \in Elements(spent) : TrueResult(s)
      BY DEF Inv, SpentOK, Elements
    <3>4. \A k \in DOMAIN spent' : spent'[k] \in Elements(spent')
      BY DEF Elements
    <3>5. \A k \in DOMAIN spent' : TrueResult(spent'[k])
      BY <2>8, <3>2, <3>3, <3>4
    <3>6. (\A k \in DOMAIN spent : TrueResult(spent[k]))'
      BY <1>0, <1>7, <3>5 DEF TrueResult
    <3> QED
      BY <1>0, <3>6 DEF Inv, SpentOK, ghosts
  <2>15. PendingOK'
    <3>1. /\ Len(spent) \in Nat /\ DOMAIN spent = 1 .. Len(spent)
          /\ DOMAIN spent' = 1 .. Len(spent) + 1
          /\ \A k \in 1 .. Len(spent) : spent'[k] = spent[k]
          /\ spent'[Len(spent) + 1] = spentTicket(t)
      BY <1>1, <1>8, <2>7, LenProperties
    <3>2. \A k \in DOMAIN spent : spent[k].ticket # t
      <4>1. t \notin Found
        BY <1>3, <1>4 DEF t, Elements
      <4> QED
        BY <4>1 DEF Found, Elements
    <3>3. rec[t].Outcome = Unsettled /\ \A k \in DOMAIN spent : rec[spent[k].ticket].Outcome = Unsettled
      BY <1>0, <2>10 DEF Inv, PendingOK
    <3>4. \A j, k \in DOMAIN spent : spent[j].ticket = spent[k].ticket => j = k
      BY DEF Inv, PendingOK
    <3>5. \A k \in 1 .. Len(spent) + 1 : k \in 1 .. Len(spent) \/ k = Len(spent) + 1
      BY <3>1
    <3>6. \A k \in DOMAIN spent' : rec[spent'[k].ticket].Outcome = Unsettled
      BY <2>7, <3>1, <3>3, <3>5
    <3>7. \A j, k \in DOMAIN spent' : spent'[j].ticket = spent'[k].ticket => j = k
      <4> SUFFICES ASSUME NEW j \in DOMAIN spent', NEW k \in DOMAIN spent', spent'[j].ticket = spent'[k].ticket
                   PROVE  j = k
        OBVIOUS
      <4>1. CASE j \in DOMAIN spent /\ k \in DOMAIN spent
        BY <3>1, <3>4, <4>1
      <4>2. CASE j = Len(spent) + 1 /\ k \in DOMAIN spent
        BY <2>7, <3>1, <3>2, <4>2
      <4>3. CASE j \in DOMAIN spent /\ k = Len(spent) + 1
        BY <2>7, <3>1, <3>2, <4>3
      <4> QED
        BY <3>1, <3>5, <4>1, <4>2, <4>3
    <3>8. \A u \in Listed : rec[u].Outcome = Unsettled
      BY <1>0 DEF Inv, PendingOK
    <3>9. rec' = rec /\ Listed' = Listed /\ Unsettled' = Unsettled
      BY <1>0 DEF Unsettled
    <3> QED
      BY <3>6, <3>7, <3>8, <3>9 DEF PendingOK
  <2> QED
    BY <1>5, <1>6, <2>11, <2>12, <2>13, <2>14, <2>15 DEF Inv
<1>9. CASE spentAt[t] # iHeight /\ i' = i + 1 /\ UNCHANGED <<spent, tickets, scripts>>
  <2>1. Found' = Found
    BY <1>9 DEF Found
  <2>2. TypeOK'
    BY <1>0, <1>2, <1>9 DEF Inv, TypeOK, chain, ghosts
  <2>3. SliceOK'
    BY <1>0, <1>9, <2>1 DEF Inv, SliceOK
  <2>4. ScanOK'
    <3>1. \A j \in 1 .. (i + 1) - 1 : j = i \/ j \in 1 .. i - 1
      BY <1>2
    <3>2. \A j \in 1 .. (i + 1) - 1 : spentAt[tickets[j]] # iHeight
      BY <1>2, <1>9, <3>1 DEF t
    <3>3. i + 1 \in 1 .. Len(tickets) + 1
      BY <1>3
    <3> QED
      BY <1>0, <1>2, <1>7, <1>9, <2>1, <3>2, <3>3 DEF ScanOK
  <2>5. SpentOK' /\ PendingOK'
    BY <1>0, <1>7, <1>9 DEF Inv, SpentOK, TrueResult, PendingOK, Unsettled, ghosts
  <2> QED
    BY <1>5, <1>6, <2>2, <2>3, <2>4, <2>5 DEF Inv
<1> QED
  BY <1>8, <1>9 DEF checkTicket, t

(* The scan is over: what it found is what its blocks spend, also when it  *)
(* stops early because nothing is left to look for.                        *)
LEMMA ScanComplete ==
    ASSUME Inv, phase = "scan", iHeight > endHeight \/ tickets = <<>>
    PROVE  Found = SpentIn(startHeight, endHeight)
<1>1. /\ startHeight \in Nat /\ iHeight \in Nat /\ endHeight \in Nat
      /\ iHeight <= endHeight + 1
      /\ Found = SpentIn(startHeight, iHeight - 1)
  BY HeightsType DEF Inv, ScanOK, Scanning
<1>2. CASE iHeight > endHeight
  BY <1>1, <1>2
<1>3. CASE tickets = <<>>
  <2>1. Listed \ Found = {}
    BY <1>3 DEF Inv, SliceOK, Scanning, Elements
  <2>2. SpentIn(startHeight, endHeight) \subseteq Listed
    BY DEF SpentIn
  <2>3. SpentIn(startHeight, iHeight - 1) \subseteq SpentIn(startHeight, endHeight)
    <3>1. \A n \in startHeight .. iHeight - 1 : n \in startHeight .. endHeight
      BY <1>1
    <3> QED
      BY <3>1 DEF SpentIn
  <2> QED
    BY <1>1, <2>1, <2>2, <2>3
<1> QED
  BY <1>2, <1>3

(* The scan is complete, and no ticket it did not find was spent below its *)
(* last block.                                                             *)
LEMMA ScanDoneKeeps ==
    ASSUME Inv, scanDone
    PROVE  Inv'
<1>0. /\ phase = "scan" /\ phase' = "write" /\ Scanning /\ ~Scanning'
      /\ iHeight > endHeight \/ tickets = <<>>
      /\ lastScannedBlock' = IF why = "votable" THEN endHeight ELSE lastScannedBlock
      /\ UNCHANGED <<chain, rec, held, scan, ghosts, faults>>
      /\ toCheck' = toCheck /\ Listed' = Listed
  BY DEF scanDone, Scanning, scan, Listed
<1>1. /\ height \in Nat /\ startHeight \in Nat /\ iHeight \in Nat /\ endHeight \in Nat
      /\ startHeight >= 1 /\ startHeight <= iHeight
      /\ iHeight <= endHeight + 1 /\ endHeight <= height
      /\ Found = SpentIn(startHeight, iHeight - 1)
      /\ lastScannedBlock \in Nat /\ lastScannedBlock <= height
      /\ \A t \in Tickets : spentAt[t] \in Nat
  BY <1>0, HeightsType DEF Inv, ScanOK, ChainOK
<1>2. Found = SpentIn(startHeight, endHeight)
  BY <1>0, ScanComplete
<1>3. Found' = Found /\ lastScannedBlock' <= height /\ height' = height
  BY <1>0, <1>1 DEF Found, scan, chain
<1>4. TypeOK'
  <2>1. lastScannedBlock' \in 0 .. MaxHeight
    BY <1>0 DEF Inv, TypeOK
  <2> QED
    BY <1>0, <2>1 DEF Inv, TypeOK, Phases, chain, scan, ghosts
<1>5. ChainOK'
  BY <1>0, <1>3 DEF Inv, ChainOK, Mature, chain
<1>6. RecordsOK' /\ HeldOK' /\ OutcomeIsTrue'
  BY <1>0, RecordsStay DEF Inv, ghosts, chain
<1>7. SliceOK' /\ ScanOK'
  BY <1>0 DEF SliceOK, ScanOK
<1>8. SpentOK'
  BY <1>0 DEF Inv, SpentOK, TrueResult, chain, scan, ghosts
<1>9. PendingOK' /\ StartOK'
  BY <1>0 DEF Inv, PendingOK, Unsettled, StartOK, scan, ghosts
<1>10. MissedOK'
  <2> SUFFICES ASSUME NEW t \in Tickets, isVotable(t)', 0 < spentAt'[t], spentAt'[t] < lastScannedBlock'
               PROVE  \/ t \in skipped' \cup blind'
                      \/ phase' = "write" /\ why' = "votable" /\ t \in Found'
    BY DEF MissedOK
  <2>1. isVotable(t) /\ spentAt'[t] = spentAt[t] /\ 0 < spentAt[t]
    BY <1>0 DEF isVotable, Votable, chain
  <2>2. why' = why /\ skipped' = skipped /\ blind' = blind
    BY <1>0 DEF scan, ghosts
  <2>3. CASE why # "votable"
    <3>1. spentAt[t] < lastScannedBlock
      BY <1>0, <2>1, <2>3
    <3> QED
      BY <1>0, <2>1, <2>2, <3>1 DEF Inv, MissedOK
  <2>4. CASE why = "votable" /\ t \notin Listed
    <3>1. spentAt[t] < endHeight
      BY <1>0, <2>1, <2>4
    <3> QED
      BY <1>0, <2>1, <2>2, <2>4, <3>1 DEF Inv, StartOK
  <2>5. CASE why = "votable" /\ t \in Listed /\ t \notin blind
    <3>1. t \in Listed /\ spentAt[t] < endHeight
      BY <1>0, <2>1, <2>5
    <3>2. CASE startHeight <= spentAt[t]
      <4>1. t \in SpentIn(startHeight, endHeight)
        BY <1>1, <3>1, <3>2 DEF SpentIn
      <4> QED
        BY <1>0, <1>2, <1>3, <2>2, <2>5, <4>1
    <3>3. CASE spentAt[t] < startHeight
      <4>1. CASE startHeight = lastScannedBlock
        BY <1>0, <2>1, <2>2, <3>3, <4>1 DEF Inv, MissedOK
      <4>2. CASE startHeight <= Bought[t] + TicketMaturity
        <5>1. spentAt[t] > Bought[t] + TicketMaturity
          BY <2>1 DEF Inv, ChainOK, Mature
        <5>2. Bought[t] + TicketMaturity \in Nat
          BY ScanAssumption
        <5> QED
          BY <1>1, <3>3, <4>2, <5>1, <5>2
      <4> QED
        BY <1>0, <2>5, <3>1, <4>1, <4>2 DEF Inv, StartOK
    <3> QED
      BY <1>1, <3>2, <3>3
  <2> QED
    BY <2>2, <2>3, <2>4, <2>5
<1> QED
  BY <1>4, <1>5, <1>6, <1>7, <1>8, <1>9, <1>10 DEF Inv

(* The outcome that is stored is true.                                     *)
LEMMA TrueOutcome ==
    ASSUME Inv, phase = "write", spent # <<>>
    PROVE  LET s == Head(spent)
               t == s.ticket
               expiry == Bought[t] + TicketMaturity + TicketExpiry
           IN  /\ t \in Tickets /\ t \in Listed
               /\ rec[t].Outcome = Unsettled
               /\ Outcome(s) \in {"voted", "missed", "expired"}
               /\ Outcome(s) = "voted" <=> voted(s)
               /\ Outcome(s) = "voted" => spentBy[t] = "vote"
               /\ Outcome(s) \in {"missed", "expired"} => spentBy[t] = "revoke"
               /\ t \notin blind => /\ Outcome(s) = "expired" => spentAt[t] \in {expiry, expiry + 1}
                                    /\ Outcome(s) = "missed" => spentAt[t] \notin {expiry, expiry + 1}
<1> DEFINE s == Head(spent)
           t == s.ticket
           expiry == Bought[t] + TicketMaturity + TicketExpiry
<1>1. s \in SpentTickets /\ TrueResult(s) /\ rec[t].Outcome = Unsettled
  <2>1. spent \in Seq(SpentTickets)
    BY DEF Inv, TypeOK
  <2>2. Len(spent) \in Nat \ {0} /\ s = spent[1] /\ DOMAIN spent = 1 .. Len(spent)
    BY <2>1, EmptySeq, LenProperties
  <2>3. 1 \in DOMAIN spent
    BY <2>2
  <2>4. \A k \in DOMAIN spent : TrueResult(spent[k]) /\ rec[spent[k].ticket].Outcome = Unsettled
    BY DEF Inv, SpentOK, PendingOK
  <2> HIDE DEF s
  <2>5. spent[1] \in SpentTickets
    BY <2>1, <2>2, <2>3, ElementOfSeq
  <2> QED
    BY <2>2, <2>3, <2>4, <2>5
<1> HIDE DEF s
<1>2. t \in Tickets /\ t \in Listed /\ rec[t].Outcome = Unsettled /\ s.spendingTx \in {"vote", "revoke"}
  BY <1>1 DEF SpentTickets, TrueResult
<1>3. s.heightSpent = spentAt[t] /\ s.spendingTx = spentBy[t]
  BY <1>1 DEF TrueResult
<1>4. t \notin blind => s.expiryHeight = expiry
  <2>1. toCheck[t].PurchaseHeight \in {0, Bought[t]} /\ (toCheck[t].PurchaseHeight = 0 => t \in blind)
    BY <1>2 DEF Inv, RecordsOK, RightHeight, SpentOK
  <2> QED
    BY <1>1, <2>1 DEF TrueResult
<1> HIDE DEF t, expiry
<1>5. Outcome(s) \in {"voted", "missed", "expired"}
  BY DEF Outcome
<1>6. Outcome(s) = "voted" <=> s.spendingTx = "vote"
  BY DEF Outcome, voted
<1>7. Outcome(s) = "missed" => s.heightSpent \notin {s.expiryHeight, s.expiryHeight + 1}
  BY DEF Outcome, missed
<1>8. Outcome(s) = "expired" => s.heightSpent \in {s.expiryHeight, s.expiryHeight + 1}
  BY DEF Outcome, missed
<1> QED
  BY <1>2, <1>3, <1>4, <1>5, <1>6, <1>7, <1>8 DEF s, t, expiry, voted

(* One outcome is stored, left as it is, or lost.                          *)
LEMMA WriteOutcomeKeeps ==
    ASSUME Inv, writeOutcome
    PROVE  Inv'
<1> DEFINE s == Head(spent)
           t == s.ticket
           expiry(u) == Bought[u] + TicketMaturity + TicketExpiry
           Stored == /\ why = "votable" \/ ~voted(s)
                     /\ rec' = [rec EXCEPT ![t] = [toCheck[t] EXCEPT !.Outcome = Outcome(s)]]
                     /\ UNCHANGED <<skipped, faults>>
           Lost == /\ Fault
                   /\ skipped' = IF why = "votable" THEN skipped \cup {t} ELSE skipped
                   /\ UNCHANGED rec
<1>0. /\ phase = "write" /\ phase' = "write" /\ spent # <<>> /\ spent' = Tail(spent)
      /\ ~Scanning /\ ~Scanning'
      /\ UNCHANGED <<chain, held, lastScannedBlock, phase, why, toCheck, startHeight, endHeight, iHeight,
                     tickets, scripts, i, blind>>
      /\ Listed' = Listed
  BY DEF writeOutcome, Scanning, Listed
<1>1. \/ Stored
      \/ why = "revoked" /\ voted(s) /\ UNCHANGED <<rec, skipped, faults>>
      \/ Lost
  BY DEF writeOutcome
<1>2. /\ t \in Tickets /\ t \in Listed /\ rec[t].Outcome = Unsettled
      /\ Outcome(s) \in {"voted", "missed", "expired"}
      /\ Outcome(s) = "voted" => spentBy[t] = "vote"
      /\ Outcome(s) \in {"missed", "expired"} => spentBy[t] = "revoke"
      /\ t \notin blind => /\ Outcome(s) = "expired" => spentAt[t] \in {expiry(t), expiry(t) + 1}
                           /\ Outcome(s) = "missed" => spentAt[t] \notin {expiry(t), expiry(t) + 1}
  BY <1>0, TrueOutcome
<1>3. /\ spent \in Seq(SpentTickets) /\ spent' \in Seq(SpentTickets)
      /\ Elements(spent) = Elements(spent') \cup {s}
      /\ \A k \in DOMAIN spent' : spent'[k] \in Elements(spent)
  <2>1. spent \in Seq(SpentTickets)
    BY DEF Inv, TypeOK
  <2>2. spent' \in Seq(SpentTickets) /\ Elements(spent) = Elements(spent') \cup {s}
    BY <1>0, <2>1, HeadTailProperties, ElementsTail
  <2>3. \A k \in DOMAIN spent' : spent'[k] \in Elements(spent')
    BY DEF Elements
  <2> QED
    BY <2>1, <2>2, <2>3
<1> HIDE DEF s
<1>4. Found = Found' \cup {t}
  BY <1>3 DEF Found
<1> HIDE DEF t, expiry
<1>5. \A u \in Tickets :
         /\ rec'[u] \in Records /\ RightHeight(u, rec'[u])
         /\ rec'[u] = rec[u] \/ (Stored /\ u = t /\ rec'[u].Outcome = Outcome(s))
         /\ Stored /\ u = t => rec'[u].Outcome = Outcome(s)
  <2> SUFFICES ASSUME NEW u \in Tickets
               PROVE  /\ rec'[u] \in Records /\ RightHeight(u, rec'[u])
                      /\ rec'[u] = rec[u] \/ (Stored /\ u = t /\ rec'[u].Outcome = Outcome(s))
                      /\ Stored /\ u = t => rec'[u].Outcome = Outcome(s)
    OBVIOUS
  <2>1. /\ rec[u] \in Records /\ RightHeight(u, rec[u])
        /\ toCheck[t] \in Records /\ RightHeight(t, toCheck[t])
    BY <1>2 DEF Inv, TypeOK, RecordsOK
  <2>2. rec'[u] = rec[u] \/ (Stored /\ u = t /\ rec'[u] = [toCheck[t] EXCEPT !.Outcome = Outcome(s)])
    BY <1>1 DEF Inv, TypeOK
  <2>3. Stored /\ u = t => rec'[u] = [toCheck[t] EXCEPT !.Outcome = Outcome(s)]
    BY DEF Inv, TypeOK
  <2> HIDE DEF Stored, Lost
  <2>4. Outcome(s) \in Outcomes
    BY <1>2 DEF Outcomes
  <2> QED
    BY <2>1, <2>2, <2>3, <2>4 DEF Records, RightHeight
<1>6. TypeOK'
  <2>1. rec' \in [Tickets -> Records]
    <3>1. rec' = [u \in Tickets |-> rec'[u]]
      BY <1>1 DEF Inv, TypeOK
    <3> QED
      BY <1>5, <3>1
  <2>2. skipped' \in SUBSET Tickets
    BY <1>1, <1>2 DEF Inv, TypeOK
  <2>3. faults' \in 0 .. MaxFaults
    BY <1>1, FaultType DEF Inv, TypeOK
  <2> QED
    BY <1>0, <1>3, <2>1, <2>2, <2>3 DEF Inv, TypeOK, chain
<1>7. ChainOK'
  BY <1>0, ChainStays DEF Inv, chain
<1>8. RecordsOK' /\ HeldOK'
  <2>1. RecordsOK'
    BY <1>0, <1>5 DEF Inv, RecordsOK
  <2>2. \A u \in Tickets : rec[u].Outcome # "revoked" => rec'[u].Outcome # "revoked"
    BY <1>2, <1>5
  <2>3. HeldOK'
    BY <1>0, <2>2 DEF Inv, TypeOK, Copies, HeldOK, RightHeight
  <2> QED
    BY <2>1, <2>3
<1>9. OutcomeIsTrue'
  <2> SUFFICES ASSUME NEW u \in Tickets
               PROVE  /\ rec'[u].Outcome = "voted" => spentBy[u] = "vote"
                      /\ rec'[u].Outcome \in {"missed", "expired", "revoked"} => spentBy[u] = "revoke"
                      /\ u \notin blind =>
                            (rec'[u].Outcome = "expired" => spentAt[u] \in {expiry(u), expiry(u) + 1})
                            /\ (rec'[u].Outcome = "missed" => spentAt[u] \notin {expiry(u), expiry(u) + 1})
    BY <1>0 DEF OutcomeIsTrue, chain, expiry
  <2>1. CASE rec'[u] = rec[u]
    BY <2>1 DEF Inv, OutcomeIsTrue, expiry
  <2>2. CASE u = t /\ rec'[u].Outcome = Outcome(s)
    BY <1>2, <2>2
  <2> QED
    BY <1>5, <2>1, <2>2
<1>10. SliceOK' /\ ScanOK'
  BY <1>0 DEF SliceOK, ScanOK
<1>11. SpentOK'
  <2>1. \A k \in DOMAIN spent' : TrueResult(spent'[k])
    <3>1. \A e \in Elements(spent) : TrueResult(e)
      BY DEF Inv, SpentOK, Elements
    <3> QED
      BY <1>3, <3>1
  <2>2. \A k \in DOMAIN spent' : TrueResult(spent[k])'
    <3>1. Listed \subseteq Tickets
      BY DEF Inv, TypeOK
    <3> QED
      BY <1>0, <1>5, <2>1, <3>1 DEF TrueResult, chain
  <2>3. \A u \in Listed : toCheck[u].PurchaseHeight = 0 => u \in blind
    BY DEF Inv, SpentOK
  <2> QED
    BY <1>0, <2>2, <2>3 DEF SpentOK
<1>14. PendingOK'
  <2>1. /\ Len(spent) \in Nat \ {0} /\ DOMAIN spent = 1 .. Len(spent) /\ s = spent[1]
        /\ DOMAIN spent' = 1 .. Len(spent) - 1
        /\ \A k \in 1 .. Len(spent) - 1 : spent'[k] = spent[k + 1]
    BY <1>0, <1>3, LenProperties, HeadTailProperties, EmptySeq DEF s
  <2>2. \A k \in DOMAIN spent' : k + 1 \in DOMAIN spent /\ k + 1 # 1 /\ 1 \in DOMAIN spent
    BY <2>1
  <2>3. \A j, k \in DOMAIN spent : spent[j].ticket = spent[k].ticket => j = k
    BY DEF Inv, PendingOK
  <2>4. \A k \in DOMAIN spent : rec[spent[k].ticket].Outcome = Unsettled /\ spent[k].ticket \in Tickets
    BY DEF Inv, PendingOK, SpentOK, TrueResult, TypeOK
  <2>5. \A k \in DOMAIN spent' : rec'[spent'[k].ticket].Outcome = Unsettled
    <3> SUFFICES ASSUME NEW k \in DOMAIN spent' PROVE rec'[spent'[k].ticket].Outcome = Unsettled
      OBVIOUS
    <3>1. spent'[k].ticket # t /\ spent'[k] = spent[k + 1]
      BY <2>1, <2>2, <2>3 DEF t
    <3> QED
      BY <1>5, <2>2, <2>4, <3>1
  <2>6. \A j, k \in DOMAIN spent' : spent'[j].ticket = spent'[k].ticket => j = k
    BY <2>1, <2>2, <2>3
  <2>7. Unsettled' = Unsettled
    BY <1>0 DEF Unsettled
  <2> QED
    BY <1>0, <2>5, <2>6, <2>7 DEF PendingOK
<1>12. StartOK'
  BY <1>0 DEF StartOK
<1>13. MissedOK'
  <2> SUFFICES ASSUME NEW u \in Tickets, isVotable(u)', 0 < spentAt'[u], spentAt'[u] < lastScannedBlock'
               PROVE  \/ u \in skipped' \cup blind'
                      \/ phase' = "write" /\ why' = "votable" /\ u \in Found'
    BY DEF MissedOK
  <2>1. rec'[u].FeeConfirmed /\ rec'[u].Outcome = NoOutcome
    BY DEF isVotable, Votable
  <2>2. isVotable(u)
    BY <1>2, <1>5, <2>1, NoOutcomeYet DEF isVotable, Votable
  <2>3. u \in skipped \cup blind \/ (why = "votable" /\ u \in Found)
    BY <1>0, <2>2 DEF Inv, MissedOK, chain
  <2>4. skipped \subseteq skipped'
    BY <1>1
  <2>5. ASSUME why = "votable", u = t PROVE u \in skipped'
    <3>1. ~Stored
      BY <1>2, <1>5, <2>1, <2>5, NoOutcomeYet
    <3> QED
      BY <1>1, <2>5, <3>1
  <2> QED
    BY <1>0, <1>4, <2>3, <2>4, <2>5
<1> QED
  BY <1>6, <1>7, <1>8, <1>9, <1>10, <1>11, <1>12, <1>13, <1>14 DEF Inv

(* The results are dealt with.                                             *)
LEMMA WritesDoneKeeps ==
    ASSUME Inv, writesDone
    PROVE  Inv'
<1>0. /\ phase = "write" /\ spent = <<>> /\ phase' = "idle" /\ EndScan
      /\ UNCHANGED <<chain, rec, held, lastScannedBlock, ghosts, faults>>
  BY DEF writesDone
<1>1. TypeOK'
  BY <1>0, EndScanType DEF Inv, TypeOK, chain, ghosts, Phases
<1>2. ChainOK' /\ RecordsOK' /\ HeldOK' /\ OutcomeIsTrue'
  BY <1>0, EndScanType, ChainStays, RecordsStay DEF Inv, ghosts, chain
<1>3. SliceOK' /\ ScanOK' /\ SpentOK' /\ PendingOK' /\ StartOK'
  BY <1>0, EndScanType, Quiet
<1>4. MissedOK'
  <2>1. Found = {}
    BY <1>0 DEF Found, Elements
  <2>2. \A t \in Tickets : isVotable(t)' /\ 0 < spentAt'[t] /\ spentAt'[t] < lastScannedBlock' =>
           t \in skipped \cup blind
    BY <1>0, <2>1 DEF Inv, MissedOK, chain, isVotable, Votable
  <2> QED
    BY <1>0, <2>2 DEF MissedOK, ghosts
<1> QED
  BY <1>1, <1>2, <1>3, <1>4 DEF Inv

-----------------------------------------------------------------------------
(* The invariant holds, and what follows.                                  *)

LEMMA InitInv == Init => Inv
<1> SUFFICES ASSUME Init PROVE Inv
  OBVIOUS
<1>1. /\ phase = "heights" /\ Listed = {} /\ spent = <<>> /\ lastScannedBlock = 0 /\ ~Scanning
      /\ height = FirstHeight /\ held = {}
  BY DEF Init, Scanning, Listed
<1>2. \A t \in Tickets :
         /\ spentAt[t] \in {0, FirstHeight} /\ spentBy[t] \in {"unspent", "revoke"}
         /\ spentBy[t] = "unspent" <=> spentAt[t] = 0
         /\ spentAt[t] # 0 => Mature(t, FirstHeight)
         /\ rec[t] \in [PurchaseHeight : 0 .. FirstHeight, FeeConfirmed : BOOLEAN,
                        Outcome : {NoOutcome, "revoked"}]
         /\ rec[t].PurchaseHeight \in {0, Bought[t]}
         /\ rec[t].Outcome = "revoked" => spentBy[t] = "revoke"
  BY DEF Init
<1>3. FirstHeight \in Nat /\ MaxHeight \in Nat /\ FirstHeight <= MaxHeight /\ MaxFaults \in Nat
  BY ScanAssumption
<1>4. TypeOK
  <2>1. height \in 0 .. MaxHeight /\ lastScannedBlock \in 0 .. MaxHeight
    BY <1>1, <1>3
  <2>2. spentAt \in [Tickets -> 0 .. MaxHeight]
    BY <1>3 DEF Init
  <2>3. spentBy \in [Tickets -> {"unspent", "vote", "revoke"}]
    BY DEF Init
  <2>4. rec \in [Tickets -> Records]
    <3>1. \A t \in Tickets : rec[t] \in Records
      BY <1>2, <1>3 DEF Records, Outcomes
    <3>2. rec = [t \in Tickets |-> rec[t]]
      BY DEF Init
    <3> QED
      BY <3>1, <3>2
  <2>5. /\ phase \in Phases /\ why \in {"votable", "revoked"}
        /\ Listed \in SUBSET Tickets /\ toCheck \in [Listed -> Records]
        /\ subscribed \in BOOLEAN /\ held \in SUBSET Copies
    BY DEF Init, Phases, Listed
  <2>6. startHeight \in Nat /\ endHeight \in 0 .. MaxHeight /\ iHeight \in Nat /\ i \in Nat
    BY <1>3 DEF Init
  <2>7. /\ tickets \in Seq(Tickets) /\ scripts \in Seq({ScriptOf[t] : t \in Tickets})
        /\ spent \in Seq(SpentTickets)
    BY EmptySeq DEF Init
  <2>8. skipped \in SUBSET Tickets /\ blind \in SUBSET Tickets /\ faults \in 0 .. MaxFaults
    BY <1>3 DEF Init
  <2> QED
    BY <2>1, <2>2, <2>3, <2>4, <2>5, <2>6, <2>7, <2>8 DEF TypeOK
<1>5. ChainOK
  BY <1>1, <1>2, <1>3 DEF ChainOK
<1>6. RecordsOK /\ HeldOK
  BY <1>1, <1>2 DEF RecordsOK, RightHeight, HeldOK
<1>7. OutcomeIsTrue
  <2>1. \A t \in Tickets : rec[t].Outcome \notin {"voted", "missed", "expired"}
    <3>1. \A t \in Tickets : rec[t].Outcome \in {NoOutcome, "revoked"}
      BY <1>2
    <3> QED
      BY <3>1, NoOutcomeYet
  <2> QED
    BY <1>2, <2>1 DEF OutcomeIsTrue
<1>8. SliceOK /\ ScanOK /\ SpentOK /\ PendingOK /\ StartOK
  BY <1>1 DEF SliceOK, ScanOK, SpentOK, PendingOK, StartOK, Scanning
<1>9. MissedOK
  BY <1>1, <1>2, <1>3 DEF MissedOK
<1> QED
  BY <1>4, <1>5, <1>6, <1>7, <1>8, <1>9 DEF Inv

LEMMA NextInv == Inv /\ [Next]_vars => Inv'
<1> SUFFICES ASSUME Inv, [Next]_vars PROVE Inv'
  OBVIOUS
<1>1. CASE UNCHANGED vars
  <2>1. UNCHANGED <<chain, rec, held, lastScannedBlock, phase, scan, ghosts, faults>>
    BY <1>1 DEF vars
  <2>2. TypeOK' /\ ChainOK' /\ RecordsOK' /\ HeldOK' /\ OutcomeIsTrue'
    BY <2>1, ChainStays, RecordsStay DEF Inv, TypeOK, Listed, chain, scan, ghosts
  <2>3. Scanning' = Scanning /\ Found' = Found
    BY <2>1 DEF Scanning, Found, scan
  <2>4. SliceOK' /\ ScanOK'
    BY <2>1, <2>3 DEF Inv, SliceOK, ScanOK, SpentIn, Listed, chain, scan
  <2>5. SpentOK' /\ PendingOK' /\ StartOK'
    BY <2>1, <2>3 DEF Inv, SpentOK, TrueResult, PendingOK, Unsettled, StartOK, isVotable, Votable, Listed, chain, scan, ghosts
  <2>6. MissedOK'
    BY <2>1, <2>3 DEF Inv, MissedOK, isVotable, Votable, chain, scan, ghosts
  <2> QED
    BY <2>2, <2>4, <2>5, <2>6 DEF Inv
<1> QED
  BY <1>1, NewBlockKeeps, FeeConfirmedKeeps, SetOutcomesKeeps, CheckPurchaseHeightsKeeps,
     CheckRevokedKeeps, ScanBlockKeeps, CheckTicketKeeps, BlockDoneKeeps, ScanDoneKeeps,
     WriteOutcomeKeeps, WritesDoneKeeps, ScanErrorKeeps, RestartKeeps,
     RedialKeeps, VspAuthKeeps, UpdateTicketKeeps, SendErrorKeeps
  DEF Next, Task, Requests

(* The inductive invariant holds: every state is well typed, the slices of *)
(* a scan stay aligned, and its results are those of the blocks it passed  *)
(* (findSpentTickets).                                                     *)
THEOREM Invariance == Spec => []Inv
BY InitInv, NextInv, PTL DEF Spec

(* A scan finds exactly the tickets that its blocks spend, however the     *)
(* slices are reordered and wherever the chain grows (findSpentTickets).   *)
THEOREM ScanIsExact == Spec => []ScanFindsAll
<1>1. Inv => ScanFindsAll
  BY ScanComplete DEF ScanFindsAll, Found, SpentIn
<1> QED
  BY <1>1, Invariance, PTL

(* An outcome in the database is what happened to the ticket on chain, as  *)
(* far as its purchase height was known (setOutcomes, checkRevoked).       *)
THEOREM OutcomesAreTrue == Spec => []OutcomeIsTrue
<1>1. Inv => OutcomeIsTrue
  BY DEF Inv
<1> QED
  BY <1>1, Invariance, PTL

(* From one scan to the next no spent ticket is left out, apart from the   *)
(* exceptions the model tracks (lastScannedBlock).                         *)
THEOREM NoneMissed == Spec => []NoSpentTicketMissed
<1>1. Inv => NoSpentTicketMissed
  BY DEF Inv, MissedOK, NoSpentTicketMissed
<1> QED
  BY <1>1, Invariance, PTL

(* An outcome is settled once: no scan replaces it by another, and only a  *)
(* request that holds a copy from before can clear it, unless an old       *)
(* version marked the ticket as revoked (setOutcomes, checkRevoked,        *)
(* setVoteChoices).                                                        *)
THEOREM OutcomesAreSettledOnce == Spec => OutcomeIsSettledOnce
<1> DEFINE Settled(t) ==
              \/ rec[t].Outcome = NoOutcome /\ rec'[t].Outcome \in {"voted", "missed", "expired"}
              \/ rec[t].Outcome = "revoked" /\ rec'[t].Outcome \in {"missed", "expired"}
              \/ /\ rec[t].Outcome # "revoked" /\ rec'[t].Outcome = NoOutcome
                 /\ [ticket |-> t, record |-> rec'[t]] \in held
           Settles == \A t \in Tickets : rec'[t].Outcome # rec[t].Outcome => Settled(t)
<1>1. Inv /\ [Next]_vars => [Settles]_vars
  <2> SUFFICES ASSUME Inv, Next, NEW t \in Tickets, rec'[t].Outcome # rec[t].Outcome
               PROVE  Settled(t)
    OBVIOUS
  <2>1. rec[t] \in Records /\ rec \in [Tickets -> Records]
    BY DEF Inv, TypeOK
  <2>2. ~checkPurchaseHeights
    <3> SUFFICES ASSUME checkPurchaseHeights PROVE FALSE
      OBVIOUS
    <3>1. rec'[t] = rec[t] \/ rec'[t] = [rec[t] EXCEPT !.PurchaseHeight = Bought[t]]
      BY DEF checkPurchaseHeights
    <3> QED
      BY <2>1, <3>1 DEF Records
  <2>3. ASSUME NEW u \in Tickets PROVE ~feeConfirmed(u)
    <3> SUFFICES ASSUME feeConfirmed(u) PROVE FALSE
      OBVIOUS
    <3>1. rec'[t] = IF t = u THEN [rec[t] EXCEPT !.FeeConfirmed = TRUE] ELSE rec[t]
      BY <2>1 DEF feeConfirmed
    <3> QED
      BY <2>1, <3>1 DEF Records
  <2>4. writeOutcome \/ \E copy \in held : UpdateTicket(copy)
    BY <2>2, <2>3 DEF Next, Task, Requests, NewBlock, Redial, vspAuth, sendError, setOutcomes,
       checkRevoked, scanBlock, checkTicket, blockDone, scanDone, writesDone, scanError, Restart
  <2>5. CASE writeOutcome
    <3> DEFINE s == Head(spent)
    <3>1. /\ s.ticket \in Listed /\ s.ticket \in Tickets
          /\ rec[s.ticket].Outcome = Unsettled
          /\ Outcome(s) \in {"voted", "missed", "expired"}
          /\ Outcome(s) = "voted" <=> voted(s)
      BY <2>5, TrueOutcome DEF writeOutcome
    <3>2. /\ why = "votable" \/ ~voted(s)
          /\ rec' = [rec EXCEPT ![s.ticket] = [toCheck[s.ticket] EXCEPT !.Outcome = Outcome(s)]]
      BY <2>5 DEF writeOutcome
    <3> HIDE DEF s
    <3>3. toCheck[s.ticket] \in Records
      BY <3>1 DEF Inv, TypeOK
    <3>4. s.ticket = t /\ rec'[t] = [toCheck[t] EXCEPT !.Outcome = Outcome(s)]
      BY <2>1, <3>2
    <3>5. rec'[t].Outcome = Outcome(s)
      BY <3>3, <3>4 DEF Records
    <3>6. CASE why = "votable"
      BY <3>1, <3>4, <3>5, <3>6 DEF Unsettled
    <3>7. CASE why # "votable"
      BY <3>1, <3>2, <3>4, <3>5, <3>7 DEF Unsettled
    <3> QED
      BY <3>6, <3>7
  <2>6. ASSUME NEW copy \in held, UpdateTicket(copy) PROVE Settled(t)
    <3>1. rec' = [rec EXCEPT ![copy.ticket] = copy.record]
      BY <2>6 DEF UpdateTicket
    <3>2. copy.ticket = t /\ rec'[t] = copy.record
      BY <2>1, <3>1
    <3>3. copy = [ticket |-> t, record |-> copy.record]
      BY <3>2 DEF Inv, TypeOK, Copies
    <3>4. copy.record.Outcome = NoOutcome /\ rec[t].Outcome # "revoked"
      BY <3>2 DEF Inv, HeldOK
    <3> QED
      BY <3>2, <3>3, <3>4
  <2> QED
    BY <2>4, <2>5, <2>6
<1> QED
  BY <1>1, Invariance, PTL DEF Spec, OutcomeIsSettledOnce

-----------------------------------------------------------------------------
(* Scans end.  That a scan is scheduled at all is a matter of fairness, but *)
(* that its loops terminate is not.                                        *)

Working == Scanning \/ phase = "write"

(* What is left to do: blocks, and in a block tickets; in the end results. *)
BlocksLeft == IF phase = "write" THEN 0 ELSE endHeight + 2 - iHeight
ItemsLeft ==
    CASE phase = "write" -> Len(spent)
      [] phase = "scan" -> Len(tickets) + 2
      [] OTHER -> Len(tickets) + 1 - i

LessLeft ==
    /\ BlocksLeft' \in Nat /\ ItemsLeft' \in Nat
    /\ BlocksLeft' < BlocksLeft \/ (BlocksLeft' = BlocksLeft /\ ItemsLeft' < ItemsLeft)

(* A scan comes to its end however many blocks arrive and whatever requests *)
(* write meanwhile: each of its own steps leaves less to do.  In particular *)
(* the loop that removes the element it is at, and looks at the same index *)
(* again, always advances (findSpentTickets).                              *)
ScanAdvances ==
    [][Working =>
          \/ (NewBlock \/ Redial \/ Requests) /\ UNCHANGED <<phase, scan>>
          \/ ~Working'
          \/ LessLeft]_vars

(* It is a number, and there is a block left until the scan is over.       *)
LeftOK ==
    Working =>
        /\ BlocksLeft \in Nat /\ ItemsLeft \in Nat
        /\ Scanning => BlocksLeft # 0

LEMMA LeftNat == Inv => LeftOK
<1> SUFFICES ASSUME Inv, Working
             PROVE  /\ BlocksLeft \in Nat /\ ItemsLeft \in Nat
                    /\ Scanning => BlocksLeft # 0
  BY DEF LeftOK
<1>1. Len(tickets) \in Nat /\ Len(spent) \in Nat
  BY LenProperties DEF Inv, TypeOK
<1>2. CASE phase = "write"
  BY <1>1, <1>2 DEF BlocksLeft, ItemsLeft, Scanning
<1>3. CASE phase # "write"
  <2>1. /\ Scanning /\ iHeight \in Nat /\ endHeight \in Nat /\ i \in Nat
        /\ iHeight <= endHeight + 1
        /\ phase = "block" => i <= Len(tickets) + 1
    <3>1. Scanning
      BY <1>3 DEF Working
    <3>2. iHeight \in Nat /\ endHeight \in Nat /\ i \in Nat
      BY HeightsType DEF Inv
    <3>3. iHeight <= endHeight + 1 /\ (phase = "block" => i \in 1 .. Len(tickets) + 1)
      BY <3>1 DEF Inv, ScanOK
    <3> QED
      BY <1>1, <3>1, <3>2, <3>3
  <2>2. BlocksLeft \in Nat \ {0}
    BY <1>3, <2>1 DEF BlocksLeft
  <2>3. ItemsLeft \in Nat
    BY <1>1, <1>3, <2>1 DEF ItemsLeft, Scanning
  <2> QED
    BY <2>2, <2>3
<1> QED
  BY <1>2, <1>3

LEMMA StepsLeaveLess ==
    ASSUME Inv, LeftOK', Next, Working, Working'
    PROVE  \/ (NewBlock \/ Redial \/ Requests) /\ UNCHANGED <<phase, scan>>
           \/ LessLeft
<1>1. /\ Len(tickets) \in Nat /\ Len(spent) \in Nat
      /\ tickets \in Seq(Tickets) /\ spent \in Seq(SpentTickets)
  BY LenProperties DEF Inv, TypeOK
<1>2. iHeight \in Nat /\ endHeight \in Nat /\ i \in Nat
  BY HeightsType DEF Inv
<1>3. BlocksLeft' \in Nat /\ ItemsLeft' \in Nat
  BY DEF LeftOK
<1>4. CASE NewBlock \/ Redial \/ Requests
  <2>1. UNCHANGED <<phase, scan>>
    BY <1>4 DEF NewBlock, Redial, Requests, vspAuth, UpdateTicket, sendError
  <2> QED
    BY <1>4, <2>1
<1>5. CASE scanBlock
  <2>1. phase = "scan" /\ endHeight' = endHeight /\ tickets' = tickets
    BY <1>5 DEF scanBlock
  <2>2. CASE iHeight' = iHeight + 1 /\ UNCHANGED <<phase, i>>
    BY <1>1, <1>2, <1>3, <2>1, <2>2 DEF BlocksLeft, LessLeft
  <2>3. CASE phase' = "block" /\ i' = 1 /\ UNCHANGED iHeight
    BY <1>1, <1>2, <1>3, <2>1, <2>3 DEF BlocksLeft, ItemsLeft, LessLeft
  <2> QED
    BY <1>5, <2>2, <2>3 DEF scanBlock
<1>6. CASE checkTicket
  <2>1. phase = "block" /\ i \in 1 .. Len(tickets)
    <3>1. phase = "block" /\ i <= Len(tickets)
      BY <1>6 DEF checkTicket
    <3>2. i \in 1 .. Len(tickets) + 1
      BY <3>1 DEF Inv, ScanOK
    <3> QED
      BY <1>1, <3>1, <3>2
  <2>2. Len(nonOrderPreservingRemove(tickets, i)) = Len(tickets) - 1
    BY <1>1, <2>1, Removed
  <2>3. /\ phase = "block" /\ phase' = "block" /\ iHeight' = iHeight /\ endHeight' = endHeight
        /\ Len(tickets') + 1 - i' < Len(tickets) + 1 - i
    BY <1>1, <1>2, <1>6, <2>1, <2>2 DEF checkTicket
  <2> QED
    BY <1>1, <1>2, <1>3, <2>3 DEF BlocksLeft, ItemsLeft, LessLeft
<1>7. CASE blockDone
  <2>1. /\ phase = "block" /\ phase' = "scan" /\ endHeight' = endHeight /\ iHeight' = iHeight + 1
    BY <1>7 DEF blockDone
  <2> QED
    BY <1>2, <1>3, <2>1 DEF BlocksLeft, LessLeft
<1>8. CASE scanDone
  <2>1. phase = "scan" /\ phase' = "write"
    BY <1>8 DEF scanDone
  <2>2. BlocksLeft' = 0 /\ BlocksLeft \in Nat \ {0}
    BY <2>1, LeftNat DEF LeftOK, BlocksLeft, Scanning
  <2> QED
    BY <1>3, <2>2 DEF LessLeft
<1>9. CASE writeOutcome
  <2>1. phase = "write" /\ phase' = "write" /\ spent # <<>> /\ spent' = Tail(spent)
    BY <1>9 DEF writeOutcome
  <2>2. Len(spent') = Len(spent) - 1
    BY <1>1, <2>1, EmptySeq, HeadTailProperties
  <2> QED
    BY <1>1, <1>3, <2>1, <2>2 DEF BlocksLeft, ItemsLeft, LessLeft
<1> QED
  BY <1>4, <1>5, <1>6, <1>7, <1>8, <1>9 DEF Next, Task, Working, Scanning, feeConfirmed, setOutcomes,
     checkPurchaseHeights, checkRevoked, writesDone, scanError, Restart

(* Every scan terminates, for any number of blocks and tickets             *)
(* (findSpentTickets, setOutcomes, checkRevoked).                          *)
THEOREM ScansEnd == Spec => ScanAdvances
<1> DEFINE Advances == Working => \/ (NewBlock \/ Redial \/ Requests) /\ UNCHANGED <<phase, scan>>
                                  \/ ~Working'
                                  \/ LessLeft
<1>1. Inv /\ LeftOK' /\ [Next]_vars => [Advances]_vars
  BY StepsLeaveLess
<1> QED
  BY <1>1, LeftNat, Invariance, PTL DEF Spec, ScanAdvances
=============================================================================
