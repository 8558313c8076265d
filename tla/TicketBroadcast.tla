--------------------------- MODULE TicketBroadcast ---------------------------
(***************************************************************************)
(* The middleware broadcastTicket (internal/webapi/middleware.go): before  *)
(* a handler works on a ticket, dcrd must know the ticket and its parent.  *)
(* What dcrd does not know is sent to it; while the parent spends an       *)
(* output dcrd has not seen, the request waits and sends it again, holding *)
(* one of the slots of a semaphore that all requests of both routes share. *)
(*                                                                         *)
(* One ticket and its parent are modelled, and dcrd (external) by what it  *)
(* answers about them: a transaction is unknown, in the mempool, mined, or *)
(* mined with all its outputs spent.                                       *)
(***************************************************************************)
EXTENDS Naturals, FiniteSets

CONSTANTS
    Requests,       \* handler goroutines that may run at once
    Slots,          \* capacity of broadcastSem (16)
    MaxAttempts,    \* attempts of the retry loop (7)
    MaxFaults       \* bound: failed calls, evictions from the mempool, crashes

ASSUME BroadcastAssumption ==
    /\ IsFiniteSet(Requests)
    /\ Slots \in Nat /\ MaxAttempts \in Nat \ {0} /\ MaxFaults \in Nat

VARIABLES
    tx,             \* dcrd's view of the parent and of the ticket
    inputs,         \* dcrd knows the outputs that the parent spends
    forgotten,      \* dcrd has dropped the ticket from its mempool
    pc, attempts,   \* the requests: next step, failed attempts of the retry loop
    broadcastSem,   \* slots in use
    faults

dcrd == <<tx, inputs, forgotten>>
sem == <<attempts, broadcastSem>>
broadcastVars == <<dcrd, pc, sem, faults>>

Middleware == {"sendParent", "slot", "retry", "ticket", "sendTicket"}
PCs == Middleware \cup {"idle", "auth", "handler"}

BroadcastTypeOK ==
    /\ tx \in [{"parent", "ticket"} -> {"unknown", "pool", "mined", "spent"}]
    /\ inputs \in BOOLEAN /\ forgotten \in BOOLEAN
    /\ pc \in [Requests -> PCs]
    /\ attempts \in [Requests -> 0 .. MaxAttempts - 1]
    /\ broadcastSem \in 0 .. Slots
    /\ faults \in 0 .. MaxFaults

BroadcastInit ==
    /\ tx = [x \in {"parent", "ticket"} |-> "unknown"]
    /\ inputs = FALSE
    /\ forgotten = FALSE
    /\ pc = [r \in Requests |-> "idle"]
    /\ attempts = [r \in Requests |-> 0]
    /\ broadcastSem = 0
    /\ faults = 0

(* One more failure of something outside vspd's control.                   *)
CallFails == faults < MaxFaults /\ faults' = faults + 1

-----------------------------------------------------------------------------
(* dcrd and the network.                                                   *)

Known(x) == tx[x] # "unknown"

(* The outputs x spends exist and are unspent.                             *)
InputsKnown(x) == IF x = "parent" THEN inputs ELSE tx["parent"] \in {"pool", "mined"}

(* The network delivers the outputs the parent spends.                     *)
Propagate ==
    /\ ~inputs
    /\ inputs' = TRUE
    /\ UNCHANGED <<tx, forgotten, pc, sem, faults>>

(* A transaction reaches dcrd from another node.                           *)
Relay(x) ==
    /\ ~Known(x) /\ InputsKnown(x)
    /\ tx' = [tx EXCEPT ![x] = "pool"]
    /\ UNCHANGED <<inputs, forgotten, pc, sem, faults>>

Mine(x) ==
    /\ tx[x] = "pool"
    /\ x = "ticket" => tx["parent"] \in {"mined", "spent"}
    /\ tx' = [tx EXCEPT ![x] = "mined"]
    /\ UNCHANGED <<inputs, forgotten, pc, sem, faults>>

(* The last output is spent: of the parent, after the ticket was mined; of *)
(* the ticket, when it votes or is revoked.                                *)
SpendOutputs(x) ==
    /\ tx[x] = "mined"
    /\ tx["ticket"] \in {"mined", "spent"}
    /\ tx' = [tx EXCEPT ![x] = "spent"]
    /\ UNCHANGED <<inputs, forgotten, pc, sem, faults>>

(* A transaction that was not mined leaves the mempool, and so do those    *)
(* that spend it.                                                          *)
Evict(x) ==
    /\ tx[x] = "pool"
    /\ CallFails
    /\ tx' = [y \in DOMAIN tx |->
                 IF tx[y] = "pool" /\ (y = x \/ x = "parent") THEN "unknown" ELSE tx[y]]
    /\ forgotten' = (forgotten \/ tx["ticket"] = "pool")
    /\ UNCHANGED <<inputs, pc, sem>>

Network ==
    \/ Propagate
    \/ \E x \in {"parent", "ticket"} : Relay(x) \/ Mine(x) \/ SpendOutputs(x) \/ Evict(x)

(* SendRawTransaction succeeds if dcrd accepts the transaction, and if it  *)
(* answers that it has it.  For a transaction that is mined and spent dcrd *)
(* answers that it is an orphan; the lookup that should tell the two apart *)
(* fails, because it is given the hex instead of the hash.                 *)
Accepted(x) == tx[x] \in {"pool", "mined"} \/ (~Known(x) /\ InputsKnown(x))
SendRawTransaction(x) ==
    /\ Accepted(x)
    /\ tx' = IF Known(x) THEN tx ELSE [tx EXCEPT ![x] = "pool"]
    /\ UNCHANGED <<inputs, forgotten>>

-----------------------------------------------------------------------------
(* The requests.                                                           *)

GoTo(r, step) == pc' = [pc EXCEPT ![r] = step]

(* The request is answered with an error, or the handler returns.          *)
Leave(r) == GoTo(r, "idle")

(* A well-formed request: dcrd is asked for the parent.  A request may     *)
(* name as parent any transaction dcrd knows; that it is the parent of the *)
(* ticket is checked only if dcrd does not know it.  Requests that are     *)
(* refused here change nothing.                                            *)
broadcastTicket(r) ==
    /\ pc[r] = "idle"
    /\ \/ GoTo(r, "ticket")
       \/ ~Known("parent") /\ GoTo(r, "sendParent")
    /\ UNCHANGED <<dcrd, sem, faults>>

(* The first attempt to send the parent; an orphan waits, if it can.       *)
sendParent(r) ==
    /\ pc[r] = "sendParent"
    /\ \/ SendRawTransaction("parent") /\ GoTo(r, "ticket") /\ UNCHANGED faults
       \/ ~Accepted("parent") /\ GoTo(r, "slot") /\ UNCHANGED <<dcrd, faults>>
       \/ CallFails /\ Leave(r) /\ UNCHANGED dcrd
    /\ UNCHANGED sem

SlotFree == broadcastSem < Slots

(* Mutant: a request waits for a slot.                                     *)
BugAcquireSlot(r) ==
    /\ pc[r] = "slot"
    /\ SlotFree /\ broadcastSem' = broadcastSem + 1 /\ GoTo(r, "retry")
    /\ UNCHANGED <<dcrd, attempts, faults>>

(* The select on the semaphore does not block.                             *)
acquireSlot(r) ==
    /\ pc[r] = "slot"
    /\ \/ SlotFree /\ broadcastSem' = broadcastSem + 1 /\ GoTo(r, "retry")
       \/ ~SlotFree /\ Leave(r) /\ UNCHANGED broadcastSem
    /\ UNCHANGED <<dcrd, attempts, faults>>

releaseSlot(r) ==
    /\ broadcastSem' = broadcastSem - 1
    /\ attempts' = [attempts EXCEPT ![r] = 0]

(* Mutant: the slot is given back only by those who were successful.       *)
BugGiveUp(r) ==
    /\ attempts' = [attempts EXCEPT ![r] = 0]
    /\ Leave(r)
    /\ UNCHANGED broadcastSem

(* The last attempt has failed.                                            *)
giveUp(r) == releaseSlot(r) /\ Leave(r)

(* After a second the parent is sent again; whatever error is returned,    *)
(* the next attempt follows.                                               *)
retry(r) ==
    /\ pc[r] = "retry"
    /\ \/ /\ SendRawTransaction("parent")
          /\ releaseSlot(r)
          /\ GoTo(r, "ticket")
          /\ UNCHANGED faults
       \/ /\ \/ ~Accepted("parent") /\ UNCHANGED faults
             \/ CallFails
          /\ \/ attempts[r] + 1 = MaxAttempts /\ giveUp(r)
             \/ /\ attempts[r] + 1 < MaxAttempts
                /\ attempts' = [attempts EXCEPT ![r] = @ + 1]
                /\ UNCHANGED <<pc, broadcastSem>>
          /\ UNCHANGED dcrd

(* dcrd is asked for the ticket.                                           *)
askTicket(r) ==
    /\ pc[r] = "ticket"
    /\ \/ Known("ticket") /\ GoTo(r, "auth") /\ UNCHANGED faults
       \/ ~Known("ticket") /\ GoTo(r, "sendTicket") /\ UNCHANGED faults
       \/ CallFails /\ Leave(r)
    /\ UNCHANGED <<dcrd, sem>>

(* Mutant: a ticket that cannot be sent is let through.                    *)
BugSendTicket(r) ==
    /\ pc[r] = "sendTicket"
    /\ \/ SendRawTransaction("ticket") /\ UNCHANGED faults
       \/ ~Accepted("ticket") /\ UNCHANGED <<dcrd, faults>>
       \/ CallFails /\ UNCHANGED dcrd
    /\ GoTo(r, "auth")
    /\ UNCHANGED sem

sendTicket(r) ==
    /\ pc[r] = "sendTicket"
    /\ \/ SendRawTransaction("ticket") /\ GoTo(r, "auth") /\ UNCHANGED faults
       \/ ~Accepted("ticket") /\ Leave(r) /\ UNCHANGED <<dcrd, faults>>
       \/ CallFails /\ Leave(r) /\ UNCHANGED dcrd
    /\ UNCHANGED sem

Broadcast(r) ==
    \/ sendParent(r) \/ acquireSlot(r) \/ retry(r) \/ askTicket(r) \/ sendTicket(r)

-----------------------------------------------------------------------------
(* Every slot in use belongs to one request in the retry loop: no path out *)
(* of the loop keeps a slot, or gives back one it does not have, and no    *)
(* more requests wait than there are slots (broadcastSem).                 *)
SlotsHeld ==
    /\ broadcastSem = Cardinality({r \in Requests : pc[r] = "retry"})
    /\ broadcastSem <= Slots
=============================================================================
