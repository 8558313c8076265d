----------------------------- MODULE VoteChanges -----------------------------
(***************************************************************************)
(* The record of a ticket's vote change requests (database/votechange.go)  *)
(* and the two handlers that add to it: setVoteChoices, which refuses a    *)
(* request that is not newer than every recorded one, and payFee, which    *)
(* does not look at the record (internal/webapi).                          *)
(*                                                                         *)
(* One ticket is modelled.  A signed request may reach vspd late, out of   *)
(* order or more than once, and several handlers may run at once; each     *)
(* works on the copy of the ticket that vspAuth read, of which the model   *)
(* keeps the fee status; the preferences are not modelled.  "received"     *)
(* stands for every status of a fee that vspd has and that did not fail.   *)
(* A handler answers the client before it adds to the record.  A delivery  *)
(* that is refused changes nothing and is not a step.                      *)
(***************************************************************************)
EXTENDS Integers, Sequences, FiniteSets, FiniteSetsExt

CONSTANTS
    Handlers,               \* handler goroutines that may run at once
    Messages,               \* signed requests of the ticket's owner
    Timestamp,              \* Timestamp[m]: the time the owner signed m at
    Payments,               \* the messages that are payFee requests
    maxVoteChangeRecords,
    MaxDeliveries,          \* bound: messages that reach vspd
    MaxFeeErrors,           \* bound: fee transactions that cannot be broadcast
    MaxFaults,              \* bound: failed writes of a record, crashes
    None

ASSUME VoteChangesAssumption ==
    /\ Timestamp \in [Messages -> Nat]
    /\ Payments \subseteq Messages
    /\ None \notin Messages
    /\ maxVoteChangeRecords \in Nat \ {0}
    /\ IsFiniteSet(Handlers)
    /\ MaxDeliveries \in Nat /\ MaxFeeErrors \in Nat /\ MaxFaults \in Nat

VARIABLES
    known,          \* the ticket is in the database
    fee,            \* its FeeTxStatus, as far as the handlers tell apart
    changes,        \* the vote change bucket: key to message
    copy,           \* fee status that another writer has read, or None
    deleting,       \* the background task is between its two deletions
    pc, msg, snap,  \* the handlers: step, message, fee status read by vspAuth
    saved,          \* messages added to the bucket since it was created
    deliveries, errors, faults

ticket == <<known, fee>>
handlers == <<pc, msg, snap>>
bounds == <<deliveries, errors, faults>>
vars == <<ticket, changes, copy, deleting, handlers, saved, bounds>>

FeeStatus == {"none", "received", "error"}
PCs == {"idle", "check", "store", "send", "respond", "save"}

TypeOK ==
    /\ known \in BOOLEAN
    /\ fee \in FeeStatus
    /\ DOMAIN changes \subseteq 0 .. MaxDeliveries
    /\ \A k \in DOMAIN changes : changes[k] \in Messages
    /\ copy \in FeeStatus \cup {None}
    /\ deleting \in BOOLEAN
    /\ pc \in [Handlers -> PCs]
    /\ msg \in [Handlers -> Messages \cup {None}]
    /\ snap \in [Handlers -> FeeStatus]
    /\ saved \in Seq(Messages)
    /\ deliveries \in 0 .. MaxDeliveries
    /\ errors \in 0 .. MaxFeeErrors
    /\ faults \in 0 .. MaxFaults

NoChanges == [k \in {} |-> None]

Init ==
    /\ known = FALSE /\ fee = "none"
    /\ changes = NoChanges
    /\ copy = None
    /\ deleting = FALSE
    /\ pc = [h \in Handlers |-> "idle"]
    /\ msg = [h \in Handlers |-> None]
    /\ snap = [h \in Handlers |-> "none"]
    /\ saved = <<>>
    /\ deliveries = 0 /\ errors = 0 /\ faults = 0

Fault == faults < MaxFaults /\ faults' = faults + 1

-----------------------------------------------------------------------------
(* Mutant: a full bucket loses its newest record.                          *)
BugSaveVoteChange(bkt, m) ==
    LET keys == DOMAIN bkt
        kept == IF Cardinality(keys) >= maxVoteChangeRecords THEN keys \ {Max(keys)} ELSE keys
        newKey == IF keys = {} THEN 0 ELSE Max(keys) + 1
    IN  [k \in kept \cup {newKey} |-> IF k = newKey THEN m ELSE bkt[k]]

(* A full bucket loses its oldest record; the new one gets the next key.   *)
SaveVoteChange(bkt, m) ==
    LET keys == DOMAIN bkt
        kept == IF Cardinality(keys) >= maxVoteChangeRecords THEN keys \ {Min(keys)} ELSE keys
        newKey == IF keys = {} THEN 0 ELSE Max(keys) + 1
    IN  [k \in kept \cup {newKey} |-> IF k = newKey THEN m ELSE bkt[k]]

(* feeAddress inserts the ticket.                                          *)
InsertNewTicket ==
    /\ ~known
    /\ known' = TRUE /\ fee' = "none"
    /\ UNCHANGED <<changes, copy, deleting, handlers, saved, bounds>>

(* The background task, and feeAddress when it renews an expired fee, read *)
(* the ticket and write the whole record back later.  One such copy is     *)
(* under way at a time; the fee status it writes is the one it has read or *)
(* the refusal of a fee by dcrd (broadcastFees).                           *)
readTicket ==
    /\ known /\ ~deleting
    /\ copy = None
    /\ copy' = fee
    /\ UNCHANGED <<ticket, changes, deleting, handlers, saved, bounds>>

writeBack ==
    /\ copy # None
    /\ copy' = None
    /\ \/ /\ fee' = IF known THEN copy ELSE fee
          /\ UNCHANGED errors
       \/ /\ copy = "received"
          /\ errors < MaxFeeErrors
          /\ errors' = errors + 1
          /\ fee' = IF known THEN "error" ELSE fee
    /\ UNCHANGED <<known, changes, deleting, handlers, saved, deliveries, faults>>

(* updateUnconfirmed deletes a ticket that dcrd does not know any more,    *)
(* and after it the record of its vote changes.                            *)
DeleteTicket ==
    /\ known /\ copy # None
    /\ Fault
    /\ known' = FALSE /\ fee' = "none"
    /\ copy' = None
    /\ deleting' = TRUE
    /\ UNCHANGED <<changes, handlers, saved, deliveries, errors>>

DeleteVoteChanges ==
    /\ deleting
    /\ deleting' = FALSE
    /\ changes' = NoChanges
    /\ saved' = <<>>
    /\ UNCHANGED <<ticket, copy, handlers, bounds>>

-----------------------------------------------------------------------------
(* The handlers.                                                           *)

Goto(h, label) == pc' = [pc EXCEPT ![h] = label] /\ UNCHANGED <<msg, snap>>

Done(h) ==
    /\ pc' = [pc EXCEPT ![h] = "idle"]
    /\ msg' = [msg EXCEPT ![h] = None]
    /\ snap' = [snap EXCEPT ![h] = "none"]

(* vspAuth reads the ticket and the handler checks its fee status: payFee  *)
(* wants no fee or a failed one, setVoteChoices any fee at all.            *)
Deliver(h, m) ==
    /\ pc[h] = "idle"
    /\ deliveries < MaxDeliveries
    /\ deliveries' = deliveries + 1
    /\ known
    /\ IF m \in Payments THEN fee # "received" ELSE fee # "none"
    /\ pc' = [pc EXCEPT ![h] = IF m \in Payments THEN "store" ELSE "check"]
    /\ msg' = [msg EXCEPT ![h] = m]
    /\ snap' = [snap EXCEPT ![h] = fee]
    /\ UNCHANGED <<ticket, changes, copy, deleting, saved, errors, faults>>

(* Mutant: a request as old as a recorded one is accepted.                 *)
BugNewer(m) == \A k \in DOMAIN changes : Timestamp[m] >= Timestamp[changes[k]]

Newer(m) == \A k \in DOMAIN changes : Timestamp[m] > Timestamp[changes[k]]

checkTimestamp(h) ==
    /\ pc[h] = "check"
    /\ IF Newer(msg[h]) THEN Goto(h, "store") ELSE Done(h)
    /\ UNCHANGED <<ticket, changes, copy, deleting, saved, bounds>>

(* The whole ticket is written, with the fee status of the copy; a ticket  *)
(* that was deleted meanwhile is not created again.                        *)
UpdateTicket(h) ==
    /\ pc[h] = "store"
    /\ IF known
       THEN /\ fee' = IF msg[h] \in Payments THEN "received" ELSE snap[h]
            /\ Goto(h, IF msg[h] \in Payments THEN "send" ELSE "respond")
       ELSE UNCHANGED fee /\ Done(h)
    /\ UNCHANGED <<known, changes, copy, deleting, saved, bounds>>

(* payFee passes the fee of a confirmed ticket to dcrd and writes its copy *)
(* of the ticket once more, with dcrd's verdict: a refusal is an error for *)
(* the client, and so is a ticket that was deleted meanwhile.  The fee of  *)
(* a ticket that is not confirmed stays with the background task.          *)
SendRawTransaction(h) ==
    /\ pc[h] = "send"
    /\ \/ Goto(h, "respond") /\ UNCHANGED <<fee, errors>>
       \/ /\ IF known
             THEN fee' = "received" /\ Goto(h, "respond")
             ELSE UNCHANGED fee /\ Done(h)
          /\ UNCHANGED errors
       \/ /\ errors < MaxFeeErrors
          /\ errors' = errors + 1
          /\ fee' = IF known THEN "error" ELSE fee
          /\ Done(h)
    /\ UNCHANGED <<known, changes, copy, deleting, saved, deliveries, faults>>

sendJSONResponse(h) ==
    /\ pc[h] = "respond"
    /\ Goto(h, "save")
    /\ UNCHANGED <<ticket, changes, copy, deleting, saved, bounds>>

(* The request is recorded; if that fails, it only shows in the log.       *)
saveRecord(h) ==
    /\ pc[h] = "save"
    /\ \/ changes' = SaveVoteChange(changes, msg[h]) /\ saved' = Append(saved, msg[h]) /\ UNCHANGED faults
       \/ Fault /\ UNCHANGED <<changes, saved>>
    /\ Done(h)
    /\ UNCHANGED <<ticket, copy, deleting, deliveries, errors>>

Crash ==
    /\ Fault
    /\ pc' = [h \in Handlers |-> "idle"]
    /\ msg' = [h \in Handlers |-> None]
    /\ snap' = [h \in Handlers |-> "none"]
    /\ copy' = None
    /\ deleting' = FALSE
    /\ UNCHANGED <<ticket, changes, saved, deliveries, errors>>

Next ==
    \/ InsertNewTicket \/ readTicket \/ writeBack \/ DeleteTicket \/ DeleteVoteChanges
    \/ \E h \in Handlers :
          \/ \E m \in Messages : Deliver(h, m)
          \/ checkTimestamp(h) \/ UpdateTicket(h) \/ SendRawTransaction(h)
          \/ sendJSONResponse(h) \/ saveRecord(h)
    \/ Crash

Spec == Init /\ [][Next]_vars

-----------------------------------------------------------------------------
(* Properties.                                                             *)

(* The bucket holds the newest records, at most maxVoteChangeRecords of    *)
(* them, under consecutive keys in the order in which they were saved,     *)
(* whatever handlers, failures and deletions interleave (SaveVoteChange).  *)
KeepsNewest ==
    LET n == Len(saved)
        first == IF n > maxVoteChangeRecords THEN n - maxVoteChangeRecords ELSE 0
    IN  changes = [k \in first .. n - 1 |-> saved[k + 1]]

(* A request that setVoteChoices accepts is newer than each of the last    *)
(* maxVoteChangeRecords requests that were saved, late payments and        *)
(* requests saved out of order included: a saved request is accepted again *)
(* only after that many older ones were saved behind it.                   *)
AcceptedIsNewer ==
    [][\A h \in Handlers : (pc[h] = "check" /\ pc'[h] = "store") =>
          \A k \in 1 .. Len(saved) :
              Timestamp[saved[k]] >= Timestamp[msg[h]] => k + maxVoteChangeRecords <= Len(saved)]_vars
=============================================================================
