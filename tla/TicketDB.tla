------------------------------ MODULE TicketDB ------------------------------
(***************************************************************************)
(* The ticket bucket of the vspd database (database/ticket.go): the record *)
(* kept for a ticket, the operations on the bucket and the filters the     *)
(* background tasks select tickets with.                                   *)
(*                                                                         *)
(* The bucket is a function from ticket hashes to records; None marks a    *)
(* hash that has no record.  bbolt runs write transactions one at a time,  *)
(* so an operation is a function from bucket to bucket; an operation that  *)
(* fails leaves the bucket as it was.                                      *)
(*                                                                         *)
(* PurchaseHeight is written by the same statements as Confirmed and is    *)
(* modelled where block heights matter (SpentScan).  FeeAddressIndex and   *)
(* FeeAddressXPubID determine FeeAddress, which is an index here.  The     *)
(* three preference maps are one value: the choice for one agenda.         *)
(***************************************************************************)
EXTENDS Naturals

CONSTANTS
    Tickets,    \* ticket hashes
    FeeTxs,     \* fee transactions a client may send
    Choices,    \* choices for the one agenda that is modelled
    None        \* no record, no transaction, no choice

FeeStatus == {"none", "received", "broadcast", "confirmed", "error"}

TicketOutcome == {"", "voted", "missed", "expired"}

Ticket ==
    [ FeeAddress    : Nat,
      FeeAmount     : Nat,
      FeeExpiration : Nat,
      Confirmed     : BOOLEAN,
      VotingWIF     : {"", "wif"},
      VoteChoices   : Choices \cup {None},
      FeeTxHex      : FeeTxs \cup {None},
      FeeTxHash     : FeeTxs \cup {None},
      FeeTxStatus   : FeeStatus,
      Outcome       : TicketOutcome ]

ASSUME NoneAssumption ==
    /\ None \notin Tickets
    /\ None \notin FeeTxs
    /\ None \notin Choices
    /\ None \notin Ticket

(* What vspd holds for every ticket hash: a record or nothing.             *)
TicketBucket == [Tickets -> Ticket \cup {None}]

NoTickets == [t \in Tickets |-> None]

FeeExpired(ticket, now) == now > ticket.FeeExpiration

-----------------------------------------------------------------------------
(* Operations on the bucket.  UpdateTicket writes every field of the       *)
(* record it is given, whatever the bucket held before.                    *)

InsertNewTicket(bkt, t, ticket) ==
    IF bkt[t] = None THEN [bkt EXCEPT ![t] = ticket] ELSE bkt

(* Mutant: an update creates the record when there is none.                *)
BugUpdateTicket(bkt, t, ticket) == [bkt EXCEPT ![t] = ticket]

UpdateTicket(bkt, t, ticket) ==
    IF bkt[t] = None THEN bkt ELSE [bkt EXCEPT ![t] = ticket]

DeleteTicket(bkt, t) == [bkt EXCEPT ![t] = None]

-----------------------------------------------------------------------------
(* The filters.  A list query returns copies of the records it selects;    *)
(* None stands for a ticket that is not in the returned list.              *)

Records(bkt) == {bkt[t] : t \in Tickets} \ {None}

filterTickets(bkt, selected) ==
    [t \in Tickets |-> IF bkt[t] \in selected THEN bkt[t] ELSE None]

isUnconfirmed(ticket) == ~ticket.Confirmed

(* Mutant: the fee of an unconfirmed ticket is pending too.                *)
BugIsPendingFee(ticket) == ticket.FeeTxStatus = "received"

(* Mutant: fees are never pending once their ticket is confirmed.          *)
BugNeverPending(ticket) == ~ticket.Confirmed /\ ticket.FeeTxStatus = "received"

isPendingFee(ticket) == ticket.Confirmed /\ ticket.FeeTxStatus = "received"

isUnconfirmedFee(ticket) == ticket.FeeTxStatus = "broadcast"

(* Mutant: the fee need not be confirmed.                                  *)
BugIsVotable(ticket) == ticket.FeeTxStatus # "none" /\ ticket.Outcome = ""

isVotable(ticket) == ticket.FeeTxStatus = "confirmed" /\ ticket.Outcome = ""

GetUnconfirmedTickets(bkt) == filterTickets(bkt, {ticket \in Records(bkt) : isUnconfirmed(ticket)})

GetPendingFees(bkt) == filterTickets(bkt, {ticket \in Records(bkt) : isPendingFee(ticket)})

GetUnconfirmedFees(bkt) == filterTickets(bkt, {ticket \in Records(bkt) : isUnconfirmedFee(ticket)})

GetVotableTickets(bkt) == filterTickets(bkt, {ticket \in Records(bkt) : isVotable(ticket)})
=============================================================================
