------------------------------ MODULE SpentScan ------------------------------
(***************************************************************************)
(* How vspd finds out what became of its tickets: setOutcomes, which runs  *)
(* at the end of every update, checkDatabaseIntegrity, which runs once     *)
(* when vspd starts, and findSpentTickets, the scan of block filters that  *)
(* both use (internal/vspd/update.go, databaseintegrity.go, spentticket.go).*)
(*                                                                         *)
(* A scan goes from a start height to the best block, which may move on in *)
(* the meantime.  It keeps the tickets it looks for and their scripts in   *)
(* two slices that must stay aligned, and one action is one iteration of   *)
(* one of its loops.  The chain grows and is not reorganised.              *)
(*                                                                         *)
(* Of a ticket's record, what the scan reads and writes is modelled: the   *)
(* purchase height (0 when an old version did not store it), whether the   *)
(* fee is confirmed, and the outcome.  Every writer of the database stores *)
(* a whole record: the scan the copies it was called with, a request of    *)
(* the API (setvotechoices.go, payfee.go, getfeeaddress.go) the copy that  *)
(* vspAuth read for it, however long ago.                                  *)
(***************************************************************************)
EXTENDS Integers, Sequences, FiniteSets

CONSTANTS
    Tickets,        \* tickets in the database, all confirmed
    ScriptOf,       \* payment script of the ticket's commitment address
    Bought,         \* Bought[t]: the block that contains the purchase of t
    TicketMaturity, \* blocks before a ticket can be spent
    TicketExpiry,   \* blocks before a mature ticket expires
    FirstHeight,    \* best block when vspd is started for the first time
    Legacy,         \* tickets whose record an old version of vspd wrote
    Clients,        \* bound: tickets that requests are about
    MaxCopies,      \* bound: copies that requests hold at a time
    MaxHeight,      \* bound: best block
    MaxFaults       \* bound: failed RPCs and writes, restarts

ASSUME ScanAssumption ==
    /\ IsFiniteSet(Tickets) /\ Legacy \subseteq Tickets /\ Clients \subseteq Tickets
    /\ DOMAIN ScriptOf = Tickets
    /\ TicketMaturity \in Nat \ {0} /\ TicketExpiry \in Nat
    /\ FirstHeight \in Nat /\ MaxHeight \in Nat /\ FirstHeight <= MaxHeight
    /\ Bought \in [Tickets -> 1 .. FirstHeight]
    /\ MaxCopies \in Nat /\ MaxFaults \in Nat

VARIABLES
    height,             \* the best block
    spentAt, spentBy,   \* the block that spends the ticket (0: none), and how
    subscribed,         \* dcrd notifies vspd of blocks on this connection
    rec,                \* the records in the database
    held,               \* copies of records that requests under way have read
    lastScannedBlock,   \* in memory, 0 until the first scan is complete
    phase,              \* what the background task does
    why,                \* the tickets a scan is for
    toCheck,            \* the list the scan was called with: copies of records
    startHeight, endHeight, iHeight,
    tickets, scripts,   \* the two slices of the scan
    i,                  \* index in the loop over the tickets of one block
    spent,              \* the spent tickets found so far
    skipped,            \* tickets whose spending block later scans leave out
    blind,              \* tickets looked for without knowing their purchase height
    faults

chain == <<height, spentAt, spentBy, subscribed>>
scan == <<why, toCheck, startHeight, endHeight, iHeight, tickets, scripts, i, spent>>
ghosts == <<skipped, blind>>
vars == <<chain, rec, held, lastScannedBlock, phase, scan, ghosts, faults>>

(* A votable ticket has an empty outcome.                                  *)
NoOutcome == ""

Outcomes == {NoOutcome, "voted", "missed", "expired", "revoked"}
Records == [PurchaseHeight : Nat, FeeConfirmed : BOOLEAN, Outcome : Outcomes]
Copies == [ticket : Tickets, record : Records]
SpentTickets == [ticket : Tickets, expiryHeight : Nat, heightSpent : Nat, spendingTx : {"vote", "revoke"}]

(* The tickets the scan was called with.                                   *)
Listed == DOMAIN toCheck

(* The task is at start-up (purchase heights, revoked tickets), idle, in a *)
(* scan (between blocks or inside one) for votable or for revoked tickets, *)
(* or storing what the scan found.                                         *)
Phases == {"heights", "revoked", "idle", "scan", "block", "write"}

TypeOK ==
    /\ height \in 0 .. MaxHeight
    /\ spentAt \in [Tickets -> 0 .. MaxHeight]
    /\ spentBy \in [Tickets -> {"unspent", "vote", "revoke"}]
    /\ subscribed \in BOOLEAN
    /\ rec \in [Tickets -> Records]
    /\ held \in SUBSET Copies
    /\ lastScannedBlock \in 0 .. MaxHeight
    /\ phase \in Phases
    /\ why \in {"votable", "revoked"}
    /\ Listed \in SUBSET Tickets /\ toCheck \in [Listed -> Records]
    /\ startHeight \in Nat /\ endHeight \in 0 .. MaxHeight /\ iHeight \in Nat
    /\ tickets \in Seq(Tickets)
    /\ scripts \in Seq({ScriptOf[t] : t \in Tickets})
    /\ i \in Nat
    /\ spent \in Seq(SpentTickets)
    /\ skipped \in SUBSET Tickets
    /\ blind \in SUBSET Tickets
    /\ faults \in 0 .. MaxFaults

(* A ticket can be spent once it is mature.                                *)
Mature(t, h) == h > Bought[t] + TicketMaturity

(* The database as an old version left it: a record it wrote may lack the  *)
(* purchase height, and may say "revoked" of a ticket that was revoked.    *)
Init ==
    /\ height = FirstHeight
    /\ spentAt \in [Tickets -> {0, FirstHeight}]
    /\ \A t \in Tickets : spentAt[t] # 0 => t \in Legacy /\ Mature(t, FirstHeight)
    /\ spentBy \in [Tickets -> {"unspent", "revoke"}]
    /\ \A t \in Tickets : spentBy[t] = "unspent" <=> spentAt[t] = 0
    /\ rec \in [Tickets -> [PurchaseHeight : 0 .. FirstHeight, FeeConfirmed : BOOLEAN,
                            Outcome : {NoOutcome, "revoked"}]]
    /\ \A t \in Tickets :
          /\ rec[t].PurchaseHeight \in {Bought[t]} \cup (IF t \in Legacy THEN {0} ELSE {})
          /\ rec[t].Outcome = "revoked" => spentBy[t] = "revoke" /\ rec[t].FeeConfirmed
    /\ subscribed = TRUE
    /\ held = {}
    /\ lastScannedBlock = 0
    /\ phase = "heights"
    /\ why = "votable" /\ toCheck = <<>> /\ startHeight = 0 /\ endHeight = 0 /\ iHeight = 0
    /\ tickets = <<>> /\ scripts = <<>> /\ i = 0 /\ spent = <<>>
    /\ skipped = {} /\ blind = {}
    /\ faults = 0

Fault == faults < MaxFaults /\ faults' = faults + 1

Votable(r) == r.FeeConfirmed /\ r.Outcome = NoOutcome
isVotable(t) == Votable(rec[t])

-----------------------------------------------------------------------------
(* The chain: a block is connected and spends any number of mature tickets. *)
NewBlock ==
    /\ height < MaxHeight
    /\ height' = height + 1
    /\ \E block \in SUBSET {t \in Tickets : spentAt[t] = 0 /\ Mature(t, height')},
          how \in [Tickets -> {"vote", "revoke"}] :
          /\ \A t \in Tickets \ block : how[t] = "vote"
          /\ spentAt' = [t \in Tickets |-> IF t \in block THEN height' ELSE spentAt[t]]
          /\ spentBy' = [t \in Tickets |-> IF t \in block THEN how[t] ELSE spentBy[t]]
    /\ UNCHANGED <<subscribed, rec, held, lastScannedBlock, phase, scan, ghosts, faults>>

(* The connection to dcrd breaks and is made again.  When notifyblocks     *)
(* fails, the connection is kept and no block is notified on it.           *)
Redial ==
    /\ \/ ~subscribed /\ subscribed' = TRUE /\ UNCHANGED faults
       \/ subscribed /\ Fault /\ subscribed' = FALSE
    /\ UNCHANGED <<height, spentAt, spentBy, rec, held, lastScannedBlock, phase, scan, ghosts>>

-----------------------------------------------------------------------------
(* The other writers.  The same record is read by a scan under way, which  *)
(* stores outcomes of its own.                                             *)

(* The block at which the next scan for votable tickets starts, once the   *)
(* one under way is done.                                                  *)
nextStart ==
    IF phase \in {"scan", "block"} /\ why = "votable" THEN endHeight ELSE lastScannedBlock

(* A ticket that becomes votable now is looked for by later scans only.    *)
tooLate(t) == 0 < spentAt[t] /\ spentAt[t] < nextStart

(* addToWallets, earlier in the same update, finds the fee confirmed.  The *)
(* ticket may have been spent in the meantime, in a block that no later    *)
(* scan looks at.                                                          *)
feeConfirmed(t) ==
    /\ phase = "idle"
    /\ ~rec[t].FeeConfirmed
    /\ rec' = [rec EXCEPT ![t].FeeConfirmed = TRUE]
    /\ skipped' = IF tooLate(t) THEN skipped \cup {t} ELSE skipped
    /\ UNCHANGED <<chain, held, lastScannedBlock, phase, scan, blind, faults>>

(* vspAuth reads the record for a request.  A request about a ticket that  *)
(* has an outcome writes nothing, and is left out.                         *)
vspAuth(t) ==
    /\ Cardinality(held) < MaxCopies
    /\ rec[t].Outcome = NoOutcome
    /\ held' = held \cup {[ticket |-> t, record |-> rec[t]]}
    /\ UNCHANGED <<chain, rec, lastScannedBlock, phase, scan, ghosts, faults>>

(* The request writes the record back: setVoteChoices with the outcome and *)
(* the status of the fee as they were read, payFee and feeAddress with a   *)
(* fee that is not confirmed, as it was when they read it.  payFee writes  *)
(* twice, and another request may have read the same.                      *)
UpdateTicket(copy) ==
    LET t == copy.ticket IN
    /\ rec' = [rec EXCEPT ![t] = copy.record]
    /\ held' \in {held, held \ {copy}}
    /\ skipped' = IF ~isVotable(t) /\ Votable(copy.record) /\ tooLate(t)
                  THEN skipped \cup {t} ELSE skipped
    /\ UNCHANGED <<chain, lastScannedBlock, phase, scan, blind, faults>>

(* The request is refused, or fails.                                       *)
sendError(copy) ==
    /\ held' = held \ {copy}
    /\ UNCHANGED <<chain, rec, lastScannedBlock, phase, scan, ghosts, faults>>

-----------------------------------------------------------------------------
(* findSpentTickets.                                                       *)

(* The lowest purchase height that is known, 0 when none is.               *)
EarliestPurchaseHeight(list) ==
    LET known == {rec[t].PurchaseHeight : t \in list} \ {0} IN
    IF known = {} THEN 0 ELSE CHOOSE h \in known : \A other \in known : h <= other

(* The orders in which the database may return a list.                     *)
Orders(list) ==
    {s \in [1 .. Cardinality(list) -> list] :
        \A j, k \in 1 .. Cardinality(list) : s[j] = s[k] => j = k}

EndScan ==
    /\ why' = "votable" /\ toCheck' = <<>> /\ startHeight' = 0 /\ endHeight' = 0 /\ iHeight' = 0
    /\ tickets' = <<>> /\ scripts' = <<>> /\ i' = 0 /\ spent' = <<>>

(* The scan begins, or returns an error because there is no block yet at   *)
(* which a ticket could have been spent.                                   *)
findSpentTickets(list, from, for) ==
    \/ /\ from > height
       /\ phase' = "idle"
       /\ EndScan
       /\ UNCHANGED blind
    \/ /\ from <= height
       /\ phase' = "scan"
       /\ why' = for
       /\ toCheck' = [t \in list |-> rec[t]]
       /\ startHeight' = from /\ endHeight' = height /\ iHeight' = from
       /\ tickets' \in Orders(list)
       /\ scripts' = [k \in DOMAIN tickets' |-> ScriptOf[tickets'[k]]]
       /\ i' = 0 /\ spent' = <<>>
       /\ blind' = blind \cup {t \in list : rec[t].PurchaseHeight = 0}

(* A call to dcrd fails: the scan is given up and nothing is stored.       *)
scanError ==
    /\ phase \in {"scan", "block"}
    /\ Fault
    /\ phase' = "idle"
    /\ EndScan
    /\ UNCHANGED <<chain, rec, held, lastScannedBlock, ghosts>>

(* The filter of a block matches the script of every ticket it spends, and *)
(* may match by accident.                                                  *)
MatchAny(h, list) ==
    \E t \in Tickets : spentAt[t] = h /\ \E k \in DOMAIN list : list[k] = ScriptOf[t]

scanBlock ==
    /\ phase = "scan"
    /\ iHeight <= endHeight
    /\ tickets # <<>>
    /\ \/ ~MatchAny(iHeight, scripts) /\ iHeight' = iHeight + 1 /\ UNCHANGED <<phase, i>>
       \/ phase' = "block" /\ i' = 1 /\ UNCHANGED iHeight
    /\ UNCHANGED <<chain, rec, held, lastScannedBlock, why, toCheck, startHeight, endHeight,
                   tickets, scripts, spent, ghosts, faults>>

(* The last element replaces the one that is removed.                      *)
nonOrderPreservingRemove(s, k) ==
    SubSeq([s EXCEPT ![k] = s[Len(s)]], 1, Len(s) - 1)

spentTicket(t) ==
    [ ticket |-> t,
      expiryHeight |-> toCheck[t].PurchaseHeight + TicketMaturity + TicketExpiry,
      heightSpent |-> iHeight,
      spendingTx |-> spentBy[t] ]

(* Mutant: the ticket that takes the place of the removed one is skipped.  *)
BugCheckTicket ==
    /\ phase = "block"
    /\ i <= Len(tickets)
    /\ \/ /\ spentAt[tickets[i]] = iHeight
          /\ spent' = Append(spent, spentTicket(tickets[i]))
          /\ tickets' = nonOrderPreservingRemove(tickets, i)
          /\ scripts' = nonOrderPreservingRemove(scripts, i)
          /\ i' = i + 1
       \/ /\ spentAt[tickets[i]] # iHeight
          /\ i' = i + 1
          /\ UNCHANGED <<spent, tickets, scripts>>
    /\ UNCHANGED <<chain, rec, held, lastScannedBlock, phase, why, toCheck, startHeight, endHeight, iHeight,
                   ghosts, faults>>

(* One iteration of the loop over the tickets: a ticket that the block     *)
(* spends is taken out of both slices and the same index is looked at      *)
(* again.                                                                  *)
checkTicket ==
    /\ phase = "block"
    /\ i <= Len(tickets)
    /\ \/ /\ spentAt[tickets[i]] = iHeight
          /\ spent' = Append(spent, spentTicket(tickets[i]))
          /\ tickets' = nonOrderPreservingRemove(tickets, i)
          /\ scripts' = nonOrderPreservingRemove(scripts, i)
          /\ UNCHANGED i
       \/ /\ spentAt[tickets[i]] # iHeight
          /\ i' = i + 1
          /\ UNCHANGED <<spent, tickets, scripts>>
    /\ UNCHANGED <<chain, rec, held, lastScannedBlock, phase, why, toCheck, startHeight, endHeight, iHeight,
                   ghosts, faults>>

blockDone ==
    /\ phase = "block"
    /\ i > Len(tickets)
    /\ phase' = "scan"
    /\ iHeight' = iHeight + 1
    /\ i' = 0
    /\ UNCHANGED <<chain, rec, held, lastScannedBlock, why, toCheck, startHeight, endHeight,
                   tickets, scripts, spent, ghosts, faults>>

(* The scan ends at its last block, or as soon as every ticket is found;   *)
(* setOutcomes remembers the last block either way.                        *)
scanDone ==
    /\ phase = "scan"
    /\ iHeight > endHeight \/ tickets = <<>>
    /\ phase' = "write"
    /\ lastScannedBlock' = IF why = "votable" THEN endHeight ELSE lastScannedBlock
    /\ UNCHANGED <<chain, rec, held, scan, ghosts, faults>>

-----------------------------------------------------------------------------
voted(s) == s.spendingTx = "vote"

(* Mutant: every revocation after the expiry height counts as an expiry of *)
(* the ticket, and one exactly at that height does not.                    *)
BugMissed(s) == s.heightSpent <= s.expiryHeight

missed(s) == s.heightSpent \notin {s.expiryHeight, s.expiryHeight + 1}

(* Mutant: the default case is missing.                                    *)
BugOutcome(s) == IF voted(s) THEN "voted" ELSE IF missed(s) THEN "missed" ELSE NoOutcome

Outcome(s) == IF voted(s) THEN "voted" ELSE IF missed(s) THEN "missed" ELSE "expired"

(* The outcome of one spent ticket is stored, or the write fails and the   *)
(* next ticket is taken: the whole record, as the list of the scan had it. *)
(* checkRevoked leaves a voted ticket as it is.                            *)
writeOutcome ==
    /\ phase = "write"
    /\ spent # <<>>
    /\ LET s == Head(spent) IN
       \/ /\ why = "votable" \/ ~voted(s)
          /\ rec' = [rec EXCEPT ![s.ticket] = [toCheck[s.ticket] EXCEPT !.Outcome = Outcome(s)]]
          /\ UNCHANGED <<skipped, faults>>
       \/ /\ why = "revoked" /\ voted(s)
          /\ UNCHANGED <<rec, skipped, faults>>
       \/ /\ Fault
          /\ skipped' = IF why = "votable" THEN skipped \cup {s.ticket} ELSE skipped
          /\ UNCHANGED rec
    /\ spent' = Tail(spent)
    /\ UNCHANGED <<chain, held, lastScannedBlock, phase, why, toCheck, startHeight, endHeight, iHeight,
                   tickets, scripts, i, blind>>

writesDone ==
    /\ phase = "write"
    /\ spent = <<>>
    /\ phase' = "idle"
    /\ EndScan
    /\ UNCHANGED <<chain, rec, held, lastScannedBlock, ghosts, faults>>

-----------------------------------------------------------------------------
votableTickets == {t \in Tickets : isVotable(t)}

(* Mutant: the last block of the previous scan is not looked at again.     *)
BugScanStart(list) ==
    IF lastScannedBlock = 0
    THEN EarliestPurchaseHeight(list) + TicketMaturity
    ELSE lastScannedBlock + 1

(* Mutant: the first scan starts at the best block.                        *)
BugScanFromTip(list) ==
    IF lastScannedBlock = 0 THEN height ELSE lastScannedBlock

scanStart(list) ==
    IF lastScannedBlock = 0
    THEN EarliestPurchaseHeight(list) + TicketMaturity
    ELSE lastScannedBlock

setOutcomes ==
    /\ phase = "idle"
    /\ votableTickets # {}
    /\ findSpentTickets(votableTickets, scanStart(votableTickets), "votable")
    /\ UNCHANGED <<chain, rec, held, lastScannedBlock, skipped, faults>>

(* checkPurchaseHeights: what is missing is read from dcrd, ticket by      *)
(* ticket; without dcrd the whole integrity check is given up.             *)
checkPurchaseHeights ==
    /\ phase = "heights"
    /\ LET missing == {t \in Tickets : rec[t].PurchaseHeight = 0} IN
       \/ \E fixed \in SUBSET missing :
             /\ rec' = [t \in Tickets |->
                          IF t \in fixed THEN [rec[t] EXCEPT !.PurchaseHeight = Bought[t]] ELSE rec[t]]
             /\ IF fixed = missing THEN UNCHANGED faults ELSE Fault
             /\ phase' = "revoked"
       \/ missing # {} /\ Fault /\ UNCHANGED rec /\ phase' = "idle"
    /\ UNCHANGED <<chain, held, lastScannedBlock, scan, ghosts>>

checkRevoked ==
    /\ phase = "revoked"
    /\ LET revoked == {t \in Tickets : rec[t].Outcome = "revoked"} IN
       \/ /\ revoked = {}
          /\ phase' = "idle"
          /\ UNCHANGED <<scan, blind, faults>>
       \/ /\ revoked # {}
          /\ findSpentTickets(revoked, EarliestPurchaseHeight(revoked) + TicketMaturity, "revoked")
          /\ UNCHANGED faults
       \/ /\ revoked # {}
          /\ Fault
          /\ phase' = "idle"
          /\ UNCHANGED <<scan, blind>>
    /\ UNCHANGED <<chain, rec, held, lastScannedBlock, skipped>>

(* vspd stops and starts again: requests end, dcrd is dialled anew, and    *)
(* the next scan is a first scan.                                          *)
Restart ==
    /\ Fault
    /\ lastScannedBlock' = 0
    /\ phase' = "heights"
    /\ EndScan
    /\ held' = {} /\ subscribed' = TRUE
    /\ skipped' = {}
    /\ UNCHANGED <<height, spentAt, spentBy, rec, blind>>

-----------------------------------------------------------------------------
Task ==
    \/ checkPurchaseHeights \/ checkRevoked
    \/ scanBlock \/ checkTicket \/ blockDone \/ scanDone
    \/ writeOutcome \/ writesDone

Requests ==
    \/ \E t \in Clients : vspAuth(t)
    \/ \E copy \in held : UpdateTicket(copy) \/ sendError(copy)

Next ==
    \/ NewBlock \/ Redial
    \/ \E t \in Tickets : feeConfirmed(t)
    \/ Requests
    \/ setOutcomes
    \/ Task
    \/ scanError
    \/ Restart

Spec == Init /\ [][Next]_vars

(* The background task runs on, and blocks trigger updates as long as dcrd *)
(* notifies vspd of them.                                                  *)
FairSpec == Spec /\ WF_vars(Task) /\ SF_vars(subscribed /\ setOutcomes)

-----------------------------------------------------------------------------
(* Properties.                                                             *)

Elements(s) == {s[k] : k \in DOMAIN s}

(* When a scan ends, what it found is exactly what the blocks it had to    *)
(* look at spend, although the chain grew while it ran and although        *)
(* removing a ticket reorders the slices of tickets and of their scripts,  *)
(* which have to stay aligned (nonOrderPreservingRemove).                  *)
ScanFindsAll ==
    phase = "scan" /\ (iHeight > endHeight \/ tickets = <<>>) =>
        {s.ticket : s \in Elements(spent)} = {t \in Listed : spentAt[t] \in startHeight .. endHeight}

(* An outcome in the database is what happened to the ticket on chain, and *)
(* a revocation before the expiry height is never taken for an expiry, if  *)
(* the purchase height was known whenever the ticket was looked for.       *)
OutcomeIsTrue ==
    \A t \in Tickets : LET expiry == Bought[t] + TicketMaturity + TicketExpiry IN
        /\ rec[t].Outcome = "voted" => spentBy[t] = "vote"
        /\ rec[t].Outcome \in {"missed", "expired", "revoked"} => spentBy[t] = "revoke"
        /\ t \notin blind =>
              (rec[t].Outcome = "expired" => spentAt[t] \in {expiry, expiry + 1})
              /\ (rec[t].Outcome = "missed" => spentAt[t] \notin {expiry, expiry + 1})

(* Between scans, a ticket that still counts as votable was not spent in a *)
(* block the next scan leaves out (lastScannedBlock).  The exceptions are a *)
(* fee confirmed too late, a failed write, an unknown purchase height, and *)
(* a request that writes back the votable record it read before the outcome *)
(* was stored, or before another request replaced it.  Failed RPCs, blocks *)
(* that arrive during a scan and restarts add none to these.               *)
NoSpentTicketMissed ==
    phase = "idle" =>
        \A t \in Tickets :
            isVotable(t) /\ 0 < spentAt[t] /\ spentAt[t] < lastScannedBlock
                => t \in skipped \cup blind

(* If dcrd notifies vspd of blocks from some time on, a votable ticket that *)
(* is spent gets its outcome in the end, with the same exceptions.  After a *)
(* failed notifyblocks there is no update any more (setOutcomes).          *)
SpentTicketsGetOutcome ==
    <>[]subscribed =>
        \A t \in Tickets :
            (isVotable(t) /\ spentAt[t] # 0) ~> (~isVotable(t) \/ t \in skipped \cup blind)

(* An outcome is settled once: it is stored for a ticket that has none, or *)
(* that an old version marked as revoked, and no later scan replaces it by *)
(* another.  What can still happen to it is that it is cleared: only by a  *)
(* request that writes back the record as it read it before, in the same   *)
(* run of vspd.  What an old version marked as revoked is not cleared, and *)
(* never becomes voted (setOutcomes, checkRevoked, setVoteChoices).        *)
OutcomeIsSettledOnce ==
    [][\A t \in Tickets : rec'[t].Outcome # rec[t].Outcome =>
          \/ rec[t].Outcome = NoOutcome /\ rec'[t].Outcome \in {"voted", "missed", "expired"}
          \/ rec[t].Outcome = "revoked" /\ rec'[t].Outcome \in {"missed", "expired"}
          \/ /\ rec[t].Outcome # "revoked" /\ rec'[t].Outcome = NoOutcome
             /\ [ticket |-> t, record |-> rec'[t]] \in held]_vars

-----------------------------------------------------------------------------
(* What a comment says and the program does not keep.                      *)

(* database/ticket.go: "An empty outcome indicates that a ticket is still  *)
(* votable."  A ticket that is spent does not keep an empty outcome while  *)
(* vspd is running and dcrd answers.                                       *)
EmptyOutcomeMeansVotable ==
    \A t \in Tickets : (isVotable(t) /\ spentAt[t] # 0) ~> ~isVotable(t)
=============================================================================
