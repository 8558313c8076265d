--------------------------- MODULE TicketLifecycle ---------------------------
(***************************************************************************)
(* How a ticket moves through vspd: the API handlers that register it,     *)
(* take its fee and set its vote choices (internal/webapi), the background *)
(* task that follows the chain and feeds the voting wallets                *)
(* (internal/vspd), and the database both of them write to.                *)
(*                                                                         *)
(* Handlers run concurrently, one goroutine per request, and concurrently  *)
(* with the background task.  Nobody holds a lock between reading a record *)
(* and writing it back, and a write replaces the whole record.  So a       *)
(* handler is a program counter (pc), the ticket it is about (about) and   *)
(* the copy of the record vspAuth read for it (snap); the background task  *)
(* is the phase it is in, the copies its list query returned (batch), the  *)
(* ticket it is working on (cur) and what it does next with it (step).     *)
(*                                                                         *)
(* dcrd, the chain and the wallets are external: they are modelled by what *)
(* vspd can observe.  A transaction with fewer than requiredConfs          *)
(* confirmations may disappear again, one with requiredConfs may not.      *)
(***************************************************************************)
EXTENDS TicketDB, FiniteSets

CONSTANTS
    Requests,       \* handler goroutines that may run at once
    Wallets,        \* voting wallets
    Kinds,          \* API calls that clients make
    Fees,           \* amounts getCurrentFee may return
    Payment,        \* Payment[f][a]: what fee transaction f pays to address a
    FeeLifetime,    \* feeAddressExpiration, in ticks of the clock
    MaxTime,        \* bound: ticks of the clock
    MaxAddr,        \* bound: fee addresses derived
    MaxRequests,    \* bound: API calls
    MaxFaults       \* bound: failed RPCs, unreachable wallets, crashes

ASSUME ConstantsAssumption ==
    /\ Kinds \subseteq {"feeAddress", "payFee", "setVoteChoices"}
    /\ Fees \subseteq Nat \ {0}
    /\ MaxAddr \in Nat /\ MaxTime \in Nat /\ FeeLifetime \in Nat
    /\ MaxRequests \in Nat /\ MaxFaults \in Nat
    /\ Payment \in [FeeTxs -> [1 .. MaxAddr -> Nat]]

VARIABLES
    db,         \* the ticket bucket
    lastAddr,   \* last fee address index derived, in memory and in the database
    owner,      \* the ticket every derived address was derived for
    tkt,        \* the ticket purchases, as dcrd sees them
    fee,        \* the fee transactions, as dcrd sees them
    now,        \* the clock
    subscribed, \* dcrd notifies vspd of blocks
    pc, about, snap,                            \* the handlers
    phase, batch, cur, step, clients, todo,     \* the background task
    held, pref, \* tickets held by wallets, and the choice set for each
    acked,      \* fee transactions a client was told were received, since registration
    sent,       \* fee transactions vspd passed to dcrd, with their ticket
    calls, faults

chain == <<tkt, fee, now, subscribed>>
web == <<pc, about, snap>>
task == <<phase, batch, cur, step, clients, todo>>
wallets == <<held, pref>>
vars == <<db, lastAddr, owner, chain, web, task, wallets, acked, sent, calls, faults>>

(* A purchase is unknown to dcrd, pending (in the mempool or mined with    *)
(* fewer than requiredConfs confirmations), final, or spent.               *)
Spent == {"voted", "revoked"}
Final == {"final"} \cup Spent
TicketState == {"unknown", "pending"} \cup Final
FeeState == {"unknown", "pending", "final"}

Phases == {"idle", "unconfirmed", "fees", "wallets", "outcomes", "addMissing", "fixChoices"}

Steps == {"next", "delete", "write", "add", "scan"}

PCs == {"idle", "feeAddress", "renew", "insert",
        "payFee", "storeFee", "sendFee", "recordSend", "respond",
        "setVoteChoices", "storeChoices", "setWallets"}

TypeOK ==
    /\ db \in TicketBucket
    /\ lastAddr \in 0 .. MaxAddr
    /\ owner \in [1 .. MaxAddr -> Tickets \cup {None}]
    /\ tkt \in [Tickets -> TicketState]
    /\ fee \in [FeeTxs -> FeeState]
    /\ now \in 0 .. MaxTime
    /\ subscribed \in BOOLEAN
    /\ pc \in [Requests -> PCs]
    /\ about \in [Requests -> Tickets \cup {None}]
    /\ snap \in [Requests -> Ticket \cup {None}]
    /\ phase \in Phases
    /\ batch \in TicketBucket
    /\ cur \in Tickets \cup {None}
    /\ step \in Steps
    /\ clients \in SUBSET Wallets
    /\ todo \in SUBSET (Wallets \X Tickets)
    /\ held \in SUBSET (Wallets \X Tickets)
    /\ pref \in [Wallets \X Tickets -> Choices \cup {None}]
    /\ acked \in [Tickets -> SUBSET FeeTxs]
    /\ sent \in SUBSET (Tickets \X FeeTxs)
    /\ calls \in 0 .. MaxRequests
    /\ faults \in 0 .. MaxFaults

Init ==
    /\ db = NoTickets
    /\ lastAddr = 0
    /\ owner = [a \in 1 .. MaxAddr |-> None]
    /\ tkt = [t \in Tickets |-> "unknown"]
    /\ fee = [f \in FeeTxs |-> "unknown"]
    /\ now = 0
    /\ subscribed = TRUE
    /\ pc = [r \in Requests |-> "idle"]
    /\ about = [r \in Requests |-> None]
    /\ snap = [r \in Requests |-> None]
    /\ phase = "idle"
    /\ batch = NoTickets
    /\ cur = None
    /\ step = "next"
    /\ clients = {}
    /\ todo = {}
    /\ held = {}
    /\ pref = [wt \in Wallets \X Tickets |-> None]
    /\ acked = [t \in Tickets |-> {}]
    /\ sent = {}
    /\ calls = 0
    /\ faults = 0

(* One more failure of something outside vspd's control.                   *)
Fault == faults < MaxFaults /\ faults' = faults + 1

-----------------------------------------------------------------------------
(* The chain and the clock.                                                *)

(* The buyer's wallet or the broadcastTicket middleware publishes a ticket. *)
PublishTicket(t) ==
    /\ tkt[t] = "unknown"
    /\ tkt' = [tkt EXCEPT ![t] = "pending"]
    /\ UNCHANGED <<db, lastAddr, owner, fee, now, subscribed, web, task, wallets, acked, sent, calls, faults>>

(* A purchase that was never mined leaves the mempool.                     *)
DropTicket(t) ==
    /\ tkt[t] = "pending"
    /\ tkt' = [tkt EXCEPT ![t] = "unknown"]
    /\ UNCHANGED <<db, lastAddr, owner, fee, now, subscribed, web, task, wallets, acked, sent, calls, faults>>

(* The purchase gets its sixth confirmation.  Six blocks are not mined     *)
(* between dcrd's answer that it does not know a ticket and the deletion   *)
(* that follows the answer.                                                *)
ConfirmTicket(t) ==
    /\ tkt[t] = "pending"
    /\ ~(step = "delete" /\ cur = t)
    /\ tkt' = [tkt EXCEPT ![t] = "final"]
    /\ UNCHANGED <<db, lastAddr, owner, fee, now, subscribed, web, task, wallets, acked, sent, calls, faults>>

(* A block spends the ticket with a vote or a revocation.                  *)
SpendTicket(t) ==
    /\ tkt[t] = "final"
    /\ \E s \in Spent : tkt' = [tkt EXCEPT ![t] = s]
    /\ UNCHANGED <<db, lastAddr, owner, fee, now, subscribed, web, task, wallets, acked, sent, calls, faults>>

(* A fee transaction is published by its maker, leaves the mempool or is   *)
(* confirmed.                                                              *)
MoveFee(f) ==
    /\ \E move \in {<<"unknown", "pending">>, <<"pending", "unknown">>, <<"pending", "final">>} :
          /\ fee[f] = move[1]
          /\ fee' = [fee EXCEPT ![f] = move[2]]
    /\ UNCHANGED <<db, lastAddr, owner, tkt, now, subscribed, web, task, wallets, acked, sent, calls, faults>>

Tick ==
    /\ now < MaxTime
    /\ now' = now + 1
    /\ UNCHANGED <<db, lastAddr, owner, tkt, fee, subscribed, web, task, wallets, acked, sent, calls, faults>>

(* The connection to dcrd breaks and is made again.  When notifyblocks     *)
(* fails, the connection is kept, and no block is notified on it.          *)
Redial ==
    /\ \/ ~subscribed /\ subscribed' = TRUE /\ UNCHANGED faults
       \/ subscribed /\ Fault /\ subscribed' = FALSE
    /\ UNCHANGED <<db, lastAddr, owner, tkt, fee, now, web, task, wallets, acked, sent, calls>>

canTicketVote(t) == tkt[t] \in {"pending", "final"}

(* SendRawTransaction: on success dcrd has the transaction; on an error it *)
(* may have it nevertheless.                                               *)
SendRawTransaction(t, f, ok) ==
    /\ \/ fee' = [fee EXCEPT ![f] = IF @ = "unknown" THEN "pending" ELSE @]
       \/ ~ok /\ UNCHANGED fee
    /\ sent' = sent \cup {<<t, f>>}

(* The record once its fee transaction was passed to dcrd.                 *)
AfterSend(ticket, ok) ==
    [ticket EXCEPT !.FeeTxStatus = IF ok THEN "broadcast" ELSE "error"]

-----------------------------------------------------------------------------
(* The API handlers.                                                       *)

(* vspAuth: the request is authenticated and the record is read once, for  *)
(* all that the handler does later.                                        *)
vspAuth(r, t, kind) ==
    /\ pc[r] = "idle"
    /\ calls < MaxRequests
    /\ calls' = calls + 1
    /\ db[t] = None => tkt[t] # "unknown"
    /\ pc' = [pc EXCEPT ![r] = kind]
    /\ about' = [about EXCEPT ![r] = t]
    /\ snap' = [snap EXCEPT ![r] = db[t]]
    /\ UNCHANGED <<db, lastAddr, owner, chain, task, wallets, acked, sent, faults>>

Goto(r, label) ==
    /\ pc' = [pc EXCEPT ![r] = label]
    /\ UNCHANGED about

Done(r) ==
    /\ pc' = [pc EXCEPT ![r] = "idle"]
    /\ about' = [about EXCEPT ![r] = None]
    /\ snap' = [snap EXCEPT ![r] = None]

(* A handler may answer without writing anything: the request is malformed *)
(* or refused, an RPC to dcrd fails, or a fee address that has not expired *)
(* is simply repeated.                                                     *)
Answer(r) ==
    /\ pc[r] \in {"feeAddress", "payFee", "setVoteChoices"}
    /\ Done(r)
    /\ UNCHANGED <<db, lastAddr, owner, chain, task, wallets, acked, sent, calls, faults>>

(* Mutant: a fee that is not broadcast yet does not count as received.     *)
BugFeeReceived(ticket) == ticket.FeeTxStatus \in {"broadcast", "confirmed"}

(* The fee transaction of the ticket is already there.                     *)
feeReceived(ticket) == ticket.FeeTxStatus \in {"received", "broadcast", "confirmed"}

(* feeAddress for a known ticket whose quoted fee has expired.             *)
feeAddressExpired(r) ==
    /\ pc[r] = "feeAddress"
    /\ snap[r] # None
    /\ ~feeReceived(snap[r])
    /\ canTicketVote(about[r])
    /\ FeeExpired(snap[r], now)
    /\ \E newFee \in Fees :
          snap' = [snap EXCEPT ![r].FeeExpiration = now + FeeLifetime,
                               ![r].FeeAmount = newFee]
    /\ Goto(r, "renew")
    /\ UNCHANGED <<db, lastAddr, owner, chain, task, wallets, acked, sent, calls, faults>>

feeAddressRenew(r) ==
    /\ pc[r] = "renew"
    /\ db' = UpdateTicket(db, about[r], snap[r])
    /\ Done(r)
    /\ UNCHANGED <<lastAddr, owner, chain, task, wallets, acked, sent, calls, faults>>

(* Mutant: the status of a new ticket is left at its zero value.           *)
BugNewTicket(addr, amount, confirmed) ==
    [ FeeAddress |-> addr, FeeAmount |-> amount, FeeExpiration |-> now + FeeLifetime,
      Confirmed |-> confirmed, VotingWIF |-> "", VoteChoices |-> None,
      FeeTxHex |-> None, FeeTxHash |-> None, FeeTxStatus |-> "", Outcome |-> "" ]

NewTicket(addr, amount, confirmed) ==
    [ FeeAddress |-> addr, FeeAmount |-> amount, FeeExpiration |-> now + FeeLifetime,
      Confirmed |-> confirmed, VotingWIF |-> "", VoteChoices |-> None,
      FeeTxHex |-> None, FeeTxHash |-> None, FeeTxStatus |-> "none", Outcome |-> "" ]

(* feeAddress for a new ticket: an address is derived for it and the index *)
(* is saved, both under addrMtx.                                           *)
feeAddressNew(r) ==
    /\ pc[r] = "feeAddress"
    /\ snap[r] = None
    /\ canTicketVote(about[r])
    /\ lastAddr < MaxAddr
    /\ lastAddr' = lastAddr + 1
    /\ owner' = [owner EXCEPT ![lastAddr'] = about[r]]
    /\ \E amount \in Fees :
          snap' = [snap EXCEPT ![r] =
                      NewTicket(lastAddr', amount, tkt[about[r]] \in Final)]
    /\ Goto(r, "insert")
    /\ UNCHANGED <<db, chain, task, wallets, acked, sent, calls, faults>>

feeAddressInsert(r) ==
    /\ pc[r] = "insert"
    /\ db' = InsertNewTicket(db, about[r], snap[r])
    /\ Done(r)
    /\ UNCHANGED <<lastAddr, owner, chain, task, wallets, acked, sent, calls, faults>>

(* payFee: the checks, all of them on the copy of the record.              *)
payFeeValid(r, f) ==
    /\ snap[r] # None
    /\ ~feeReceived(snap[r])
    /\ canTicketVote(about[r])
    /\ ~FeeExpired(snap[r], now)
    /\ Payment[f][snap[r].FeeAddress] # 0
    /\ Payment[f][snap[r].FeeAddress] >= snap[r].FeeAmount

(* The record once fee transaction f is received for it.                   *)
PaidBy(ticket, f, choice) ==
    [ticket EXCEPT !.VotingWIF = "wif", !.FeeTxHex = f, !.FeeTxHash = f,
                   !.FeeTxStatus = "received", !.VoteChoices = choice]

payFee(r) ==
    /\ pc[r] = "payFee"
    /\ \E f \in FeeTxs, choice \in Choices \cup {None} :
          /\ payFeeValid(r, f)
          /\ snap' = [snap EXCEPT ![r] = PaidBy(@, f, choice)]
    /\ Goto(r, "storeFee")
    /\ UNCHANGED <<db, lastAddr, owner, chain, task, wallets, acked, sent, calls, faults>>

payFeeStore(r) ==
    /\ pc[r] = "storeFee"
    /\ db' = UpdateTicket(db, about[r], snap[r])
    /\ IF db[about[r]] = None
       THEN Done(r)
       ELSE Goto(r, IF snap[r].Confirmed THEN "sendFee" ELSE "respond") /\ UNCHANGED snap
    /\ UNCHANGED <<lastAddr, owner, chain, task, wallets, acked, sent, calls, faults>>

payFeeSend(r) ==
    /\ pc[r] = "sendFee"
    /\ \E ok \in BOOLEAN :
          /\ SendRawTransaction(about[r], snap[r].FeeTxHex, ok)
          /\ snap' = [snap EXCEPT ![r] = AfterSend(@, ok)]
    /\ Goto(r, "recordSend")
    /\ UNCHANGED <<db, lastAddr, owner, tkt, now, subscribed, task, wallets, acked, calls, faults>>

payFeeRecordSend(r) ==
    /\ pc[r] = "recordSend"
    /\ db' = UpdateTicket(db, about[r], snap[r])
    /\ IF db[about[r]] = None \/ snap[r].FeeTxStatus = "error"
       THEN Done(r)
       ELSE Goto(r, "respond") /\ UNCHANGED snap
    /\ UNCHANGED <<lastAddr, owner, chain, task, wallets, acked, sent, calls, faults>>

payFeeRespond(r) ==
    /\ pc[r] = "respond"
    /\ acked' = [acked EXCEPT ![about[r]] = @ \cup {snap[r].FeeTxHash}]
    /\ Done(r)
    /\ UNCHANGED <<db, lastAddr, owner, chain, task, wallets, sent, calls, faults>>

(* A request that names only treasury policies leaves the choices as they  *)
(* are, and writes and sends the record all the same.                      *)
setVoteChoices(r) ==
    /\ pc[r] = "setVoteChoices"
    /\ snap[r] # None
    /\ snap[r].FeeTxStatus # "none"
    /\ snap[r].Outcome = ""
    /\ \E choice \in Choices \cup {snap[r].VoteChoices} :
          snap' = [snap EXCEPT ![r].VoteChoices = choice]
    /\ Goto(r, "storeChoices")
    /\ UNCHANGED <<db, lastAddr, owner, chain, task, wallets, acked, sent, calls, faults>>

setVoteChoicesStore(r) ==
    /\ pc[r] = "storeChoices"
    /\ db' = UpdateTicket(db, about[r], snap[r])
    /\ IF db[about[r]] # None /\ snap[r].FeeTxStatus = "confirmed"
       THEN Goto(r, "setWallets") /\ UNCHANGED snap
       ELSE Done(r)
    /\ UNCHANGED <<lastAddr, owner, chain, task, wallets, acked, sent, calls, faults>>

(* A wallet that does not hold the ticket, or is offline, refuses the call, *)
(* and without choices nothing is called.  The calls of the loop over the   *)
(* wallets are one step.                                                    *)
setVoteChoicesWallets(r) ==
    /\ pc[r] = "setWallets"
    /\ \E reached \in SUBSET Wallets :
          pref' = [wt \in Wallets \X Tickets |->
                      IF /\ wt \in held /\ wt[1] \in reached /\ wt[2] = about[r]
                         /\ snap[r].VoteChoices # None
                      THEN snap[r].VoteChoices ELSE pref[wt]]
    /\ Done(r)
    /\ UNCHANGED <<db, lastAddr, owner, chain, task, held, acked, sent, calls, faults>>

-----------------------------------------------------------------------------
(* The background task.  It is one goroutine: a run of update goes through *)
(* four phases, a run of checkWalletConsistency through two.               *)

Working(p, s) == phase = p /\ step = s

ListDone(p) == Working(p, "next") /\ batch = NoTickets /\ todo = {}

Enter(p, list) ==
    /\ phase' = p
    /\ batch' = list
    /\ cur' = None
    /\ step' = "next"

(* Go on with the next ticket of the list.                                 *)
NextTicket(t) ==
    /\ batch' = [batch EXCEPT ![t] = None]
    /\ cur' = None
    /\ step' = "next"

(* Remember what to do with ticket t, whose copy is now ticket.            *)
Plan(t, ticket, s) ==
    /\ batch' = [batch EXCEPT ![t] = ticket]
    /\ cur' = t
    /\ step' = s

updateUnconfirmed ==
    /\ phase = "idle"
    /\ Enter("unconfirmed", GetUnconfirmedTickets(db))
    /\ UNCHANGED <<db, lastAddr, owner, chain, web, clients, todo, wallets, acked, sent, calls, faults>>

(* Mutant: any error of GetRawTransaction removes the ticket.              *)
BugUnconfirmedTicket(t) ==
    /\ Working("unconfirmed", "next")
    /\ batch[t] # None
    /\ \/ tkt[t] = "unknown" /\ Plan(t, batch[t], "delete") /\ UNCHANGED faults
       \/ tkt[t] = "pending" /\ NextTicket(t) /\ UNCHANGED faults
       \/ tkt[t] \in Final /\ Plan(t, [batch[t] EXCEPT !.Confirmed = TRUE], "write")
             /\ UNCHANGED faults
       \/ Fault /\ Plan(t, batch[t], "delete")
    /\ UNCHANGED <<db, lastAddr, owner, chain, web, phase, clients, todo, wallets, acked, sent, calls>>

unconfirmedTicket(t) ==
    /\ Working("unconfirmed", "next")
    /\ batch[t] # None
    /\ \/ tkt[t] = "unknown" /\ Plan(t, batch[t], "delete") /\ UNCHANGED faults
       \/ tkt[t] = "pending" /\ NextTicket(t) /\ UNCHANGED faults
       \/ tkt[t] \in Final /\ Plan(t, [batch[t] EXCEPT !.Confirmed = TRUE], "write")
             /\ UNCHANGED faults
       \/ Fault /\ NextTicket(t)
    /\ UNCHANGED <<db, lastAddr, owner, chain, web, phase, clients, todo, wallets, acked, sent, calls>>

unconfirmedDelete ==
    /\ Working("unconfirmed", "delete")
    /\ db' = DeleteTicket(db, cur)
    /\ acked' = [acked EXCEPT ![cur] = {}]
    /\ NextTicket(cur)
    /\ UNCHANGED <<lastAddr, owner, chain, web, phase, clients, todo, wallets, sent, calls, faults>>

(* updateUnconfirmed and broadcastFees write a copy back and move on.      *)
writeBack ==
    /\ phase \in {"unconfirmed", "fees"} /\ step = "write"
    /\ db' = UpdateTicket(db, cur, batch[cur])
    /\ NextTicket(cur)
    /\ UNCHANGED <<lastAddr, owner, chain, web, phase, clients, todo, wallets, acked, sent, calls, faults>>

broadcastFees ==
    /\ ListDone("unconfirmed")
    /\ Enter("fees", GetPendingFees(db))
    /\ UNCHANGED <<db, lastAddr, owner, chain, web, clients, todo, wallets, acked, sent, calls, faults>>

pendingFee(t) ==
    /\ Working("fees", "next")
    /\ batch[t] # None
    /\ \E ok \in BOOLEAN :
          /\ SendRawTransaction(t, batch[t].FeeTxHex, ok)
          /\ Plan(t, AfterSend(batch[t], ok), "write")
    /\ UNCHANGED <<db, lastAddr, owner, tkt, now, subscribed, web, phase, clients, todo, wallets, acked, calls, faults>>

(* wallets.Clients(): all wallets, or only those that can be reached.      *)
Connect ==
    \/ clients' = Wallets /\ UNCHANGED faults
    \/ \E reached \in SUBSET Wallets : reached # Wallets /\ clients' = reached /\ Fault

addToWallets ==
    /\ ListDone("fees")
    /\ Connect
    /\ Enter("wallets", IF clients' = {} THEN NoTickets ELSE GetUnconfirmedFees(db))
    /\ UNCHANGED <<db, lastAddr, owner, chain, web, todo, wallets, acked, sent, calls>>

(* Mutant: the confirmations of the fee transaction are not looked at.     *)
BugUnconfirmedFee(t) ==
    /\ Working("wallets", "next")
    /\ todo = {}
    /\ batch[t] # None
    /\ IF fee[batch[t].FeeTxHash] = "unknown"
       THEN Plan(t, [batch[t] EXCEPT !.FeeTxStatus = "error"], "write")
       ELSE Plan(t, [batch[t] EXCEPT !.FeeTxHex = None, !.FeeTxStatus = "confirmed"], "write")
    /\ UNCHANGED <<db, lastAddr, owner, chain, web, phase, clients, todo, wallets, acked, sent, calls, faults>>

unconfirmedFee(t) ==
    /\ Working("wallets", "next")
    /\ todo = {}
    /\ batch[t] # None
    /\ LET f == batch[t].FeeTxHash IN
       \/ fee[f] = "pending" /\ NextTicket(t) /\ UNCHANGED faults
       \/ fee[f] = "unknown" /\ Plan(t, [batch[t] EXCEPT !.FeeTxStatus = "error"], "write")
             /\ UNCHANGED faults
       \/ Fault /\ Plan(t, [batch[t] EXCEPT !.FeeTxStatus = "error"], "write")
       \/ fee[f] = "final" /\ UNCHANGED faults
             /\ Plan(t, [batch[t] EXCEPT !.FeeTxHex = None, !.FeeTxStatus = "confirmed"], "write")
    /\ UNCHANGED <<db, lastAddr, owner, chain, web, phase, clients, todo, wallets, acked, sent, calls>>

(* The ticket is added only if its record could be written and its         *)
(* transaction could be fetched.                                           *)
feeWriteBack ==
    /\ Working("wallets", "write")
    /\ db' = UpdateTicket(db, cur, batch[cur])
    /\ \/ /\ db[cur] # None /\ batch[cur].FeeTxStatus = "confirmed"
          /\ step' = "add" /\ todo' = clients \X {cur}
          /\ UNCHANGED <<batch, cur, faults>>
       \/ /\ db[cur] = None \/ batch[cur].FeeTxStatus # "confirmed"
          /\ NextTicket(cur)
          /\ UNCHANGED <<todo, faults>>
       \/ Fault /\ NextTicket(cur) /\ UNCHANGED todo
    /\ UNCHANGED <<lastAddr, owner, chain, web, phase, clients, wallets, acked, sent, calls>>

(* The copy of ticket t without the choice a wallet knows no agenda for.   *)
removeAgenda(t) ==
    LET ticket == [batch[t] EXCEPT !.VoteChoices = None]
    IN  /\ batch' = [batch EXCEPT ![t] = ticket]
        /\ db' = UpdateTicket(db, t, ticket)

(* SetVoteChoice on wallet w: it is set, the call fails, or the wallet     *)
(* knows no such agenda and the choice is removed from the record.         *)
SetVoteChoice(w, t) ==
    \/ pref' = [pref EXCEPT ![<<w, t>>] = batch[t].VoteChoices]
          /\ UNCHANGED <<db, batch, faults>>
    \/ Fault /\ UNCHANGED <<db, batch, pref>>
    \/ Fault /\ removeAgenda(t) /\ UNCHANGED pref

addTicketForVoting(w) ==
    /\ Working("wallets", "add")
    /\ <<w, cur>> \in todo
    /\ todo' = todo \ {<<w, cur>>}
    /\ \/ /\ held' = held \cup {<<w, cur>>}
          /\ IF batch[cur].VoteChoices = None
             THEN UNCHANGED <<db, batch, pref, faults>>
             ELSE SetVoteChoice(w, cur)
       \/ Fault /\ UNCHANGED <<db, batch, held, pref>>
    /\ UNCHANGED <<lastAddr, owner, chain, web, phase, cur, step, clients, acked, sent, calls>>

ticketAdded ==
    /\ Working("wallets", "add")
    /\ todo = {}
    /\ NextTicket(cur)
    /\ UNCHANGED <<db, lastAddr, owner, chain, web, phase, clients, todo, wallets, acked, sent, calls, faults>>

setOutcomes ==
    /\ ListDone("wallets")
    /\ phase' = "outcomes" /\ batch' = GetVotableTickets(db) /\ step' = "scan"
    /\ clients' = {}
    /\ UNCHANGED <<db, lastAddr, owner, chain, web, cur, todo, wallets, acked, sent, calls, faults>>

(* The record of a ticket that was spent by a vote or a revocation.        *)
WithOutcome(ticket, state, revoked) ==
    [ticket EXCEPT !.Outcome = IF state = "voted" THEN "voted" ELSE revoked]

(* findSpentTickets reports tickets that a scanned block spends.  Which    *)
(* blocks are scanned is the subject of SpentScan; a revocation is         *)
(* classified as missed or expired by its height.                          *)
findSpentTickets ==
    /\ Working("outcomes", "scan")
    /\ \E found \in SUBSET {t \in Tickets : batch[t] # None /\ tkt[t] \in Spent},
          revoked \in {"missed", "expired"} :
          batch' = [t \in Tickets |->
                      IF t \in found THEN WithOutcome(batch[t], tkt[t], revoked) ELSE None]
    /\ step' = "next"
    /\ UNCHANGED <<db, lastAddr, owner, chain, web, phase, cur, clients, todo, wallets, acked, sent, calls, faults>>

writeOutcome(t) ==
    /\ Working("outcomes", "next")
    /\ batch[t] # None
    /\ db' = UpdateTicket(db, t, batch[t])
    /\ NextTicket(t)
    /\ UNCHANGED <<lastAddr, owner, chain, web, phase, clients, todo, wallets, acked, sent, calls, faults>>

updateDone ==
    /\ ListDone("outcomes")
    /\ Enter("idle", NoTickets)
    /\ UNCHANGED <<db, lastAddr, owner, chain, web, clients, todo, wallets, acked, sent, calls, faults>>

Listed == {t \in Tickets : batch[t] # None}

(* Mutant: the check looks at fees that are not confirmed yet.             *)
BugCheckWalletConsistency ==
    /\ phase = "idle"
    /\ Connect
    /\ clients' # {}
    /\ Enter("addMissing", GetUnconfirmedFees(db))
    /\ batch' # NoTickets
    /\ todo' = clients' \X {t \in Tickets : batch'[t] # None}
    /\ UNCHANGED <<db, lastAddr, owner, chain, web, wallets, acked, sent, calls>>

checkWalletConsistency ==
    /\ phase = "idle"
    /\ Connect
    /\ clients' # {}
    /\ Enter("addMissing", GetVotableTickets(db))
    /\ batch' # NoTickets
    /\ todo' = clients' \X {t \in Tickets : batch'[t] # None}
    /\ UNCHANGED <<db, lastAddr, owner, chain, web, wallets, acked, sent, calls>>

addMissing(w, t) ==
    /\ phase = "addMissing"
    /\ <<w, t>> \in todo
    /\ todo' = todo \ {<<w, t>>}
    /\ \/ held' = held \cup {<<w, t>>} /\ UNCHANGED faults
       \/ Fault /\ UNCHANGED held
    /\ UNCHANGED <<db, lastAddr, owner, chain, web, phase, batch, cur, step, clients, pref, acked, sent, calls>>

addMissingDone ==
    /\ phase = "addMissing" /\ todo = {}
    /\ phase' = "fixChoices"
    /\ todo' = clients \X Listed
    /\ UNCHANGED <<db, lastAddr, owner, chain, web, batch, cur, step, clients, wallets, acked, sent, calls, faults>>

(* Mutant: only wallets without any choice are corrected.                  *)
BugFixChoices(w, t) ==
    /\ phase = "fixChoices"
    /\ <<w, t>> \in todo
    /\ todo' = todo \ {<<w, t>>}
    /\ IF <<w, t>> \notin held \/ pref[<<w, t>>] # None \/ batch[t].VoteChoices = None
       THEN UNCHANGED <<db, batch, pref, faults>>
       ELSE SetVoteChoice(w, t)
    /\ UNCHANGED <<lastAddr, owner, chain, web, phase, cur, step, clients, held, acked, sent, calls>>

fixChoices(w, t) ==
    /\ phase = "fixChoices"
    /\ <<w, t>> \in todo
    /\ todo' = todo \ {<<w, t>>}
    /\ IF <<w, t>> \notin held \/ batch[t].VoteChoices \in {None, pref[<<w, t>>]}
       THEN UNCHANGED <<db, batch, pref, faults>>
       ELSE SetVoteChoice(w, t)
    /\ UNCHANGED <<lastAddr, owner, chain, web, phase, cur, step, clients, held, acked, sent, calls>>

consistencyDone ==
    /\ phase = "fixChoices" /\ todo = {}
    /\ Enter("idle", NoTickets) /\ clients' = {}
    /\ UNCHANGED <<db, lastAddr, owner, chain, web, todo, wallets, acked, sent, calls, faults>>

-----------------------------------------------------------------------------
(* vspd stops at any point and is started again: the database, the chain   *)
(* and the wallets keep their state, handlers and background task do not.  *)
Restart ==
    /\ Fault
    /\ pc' = [r \in Requests |-> "idle"]
    /\ about' = [r \in Requests |-> None]
    /\ snap' = [r \in Requests |-> None]
    /\ Enter("idle", NoTickets) /\ clients' = {} /\ todo' = {}
    /\ subscribed' = TRUE
    /\ UNCHANGED <<db, lastAddr, owner, tkt, fee, now, wallets, acked, sent, calls>>

Chain ==
    \/ \E t \in Tickets : PublishTicket(t) \/ DropTicket(t) \/ ConfirmTicket(t) \/ SpendTicket(t)
    \/ \E f \in FeeTxs : MoveFee(f)
    \/ Tick \/ Redial

Handler(r) ==
    \/ \E t \in Tickets, kind \in Kinds : vspAuth(r, t, kind)
    \/ Answer(r)
    \/ feeAddressExpired(r) \/ feeAddressRenew(r) \/ feeAddressNew(r) \/ feeAddressInsert(r)
    \/ payFee(r) \/ payFeeStore(r) \/ payFeeSend(r) \/ payFeeRecordSend(r) \/ payFeeRespond(r)
    \/ setVoteChoices(r) \/ setVoteChoicesStore(r) \/ setVoteChoicesWallets(r)

TaskStep ==
    \/ \E t \in Tickets : unconfirmedTicket(t) \/ pendingFee(t) \/ unconfirmedFee(t) \/ writeOutcome(t)
    \/ unconfirmedDelete \/ writeBack \/ feeWriteBack
    \/ broadcastFees \/ addToWallets \/ setOutcomes \/ findSpentTickets \/ updateDone
    \/ \E w \in Wallets : addTicketForVoting(w)
    \/ ticketAdded
    \/ \E w \in Wallets, t \in Tickets : addMissing(w, t) \/ fixChoices(w, t)
    \/ addMissingDone \/ consistencyDone

Next ==
    \/ Chain
    \/ \E r \in Requests : Handler(r)
    \/ updateUnconfirmed \/ checkWalletConsistency \/ TaskStep
    \/ Restart

Spec == Init /\ [][Next]_vars

(* The background task is a goroutine that is never blocked for good, and  *)
(* its select serves the consistency ticker and block notifications again  *)
(* and again: the ticker always, notifications as long as dcrd sends them. *)
(* Nothing is assumed of clients, wallets or the repair of a connection.   *)
Fairness ==
    /\ WF_vars(TaskStep)
    /\ SF_vars(subscribed /\ updateUnconfirmed)
    /\ SF_vars(checkWalletConsistency)

FairSpec == Spec /\ Fairness
-----------------------------------------------------------------------------
(* Properties.                                                             *)

FeeInHand == {"received", "broadcast", "confirmed"}

(* What a sound record is.  The operators take the part of the state that  *)
(* they speak of as arguments, so that a record can be judged by the state *)
(* before and after a step.                                                *)

(* A record is the ticket's own: its fee address was derived for this      *)
(* ticket and for no other.                                                *)
OwnAddress(owners, t, ticket) ==
    /\ ticket.FeeAddress \in 1 .. MaxAddr
    /\ owners[ticket.FeeAddress] = t

(* The fee fields of a record fit together: there is a fee transaction     *)
(* exactly when the status says so, it is kept until it is confirmed, and  *)
(* it pays the amount quoted in the same record.                           *)
FeeFieldsAgree(ticket) ==
    /\ ticket.FeeTxHash = None <=> ticket.FeeTxStatus = "none"
    /\ ticket.VotingWIF = "" <=> ticket.FeeTxStatus = "none"
    /\ ticket.FeeTxStatus \in {"received", "broadcast"} => ticket.FeeTxHex = ticket.FeeTxHash
    /\ ticket.FeeAmount > 0
    /\ ticket.FeeTxStatus \in FeeInHand =>
          Payment[ticket.FeeTxHash][ticket.FeeAddress] >= ticket.FeeAmount

(* What a record says about the chain is true of the chain.                *)
ChainAgrees(tickets, fees, passed, t, ticket) ==
    /\ ticket.Confirmed => tickets[t] \in Final
    /\ ticket.FeeTxStatus \in {"broadcast", "confirmed"} =>
          ticket.Confirmed /\ <<t, ticket.FeeTxHash>> \in passed
    /\ ticket.FeeTxStatus = "confirmed" => fees[ticket.FeeTxHash] = "final"
    /\ ticket.Outcome # "" => ticket.FeeTxStatus = "confirmed" /\ tickets[t] \in Spent
    /\ ticket.Outcome = "voted" <=> ticket.Outcome # "" /\ tickets[t] = "voted"

(* Whatever handlers and background task overwrite for each other, a       *)
(* stored record never mixes two states of its ticket: its fee transaction *)
(* pays the fee address and the amount of the same record                  *)
(* (UpdateTicket writes whole records, payFee checks its own copy).        *)
StoredFeeIsPaid == \A t \in Tickets : db[t] # None => FeeFieldsAgree(db[t])

(* A stored record never claims more than the chain shows: Confirmed,      *)
(* broadcast, confirmed and the outcome are only written after dcrd        *)
(* reported them, and the ticket was confirmed before its fee was          *)
(* broadcast, however stale the copy that is written back.                 *)
StoredRecordIsTrue == \A t \in Tickets : db[t] # None => ChainAgrees(tkt, fee, sent, t, db[t])

(* No two tickets are ever given the same fee address, so one output never *)
(* pays for two tickets (getNewFeeAddress under addrMtx).                  *)
FeeAddressesDistinct ==
    \A t, u \in Tickets :
        (db[t] # None /\ db[u] # None /\ db[t].FeeAddress = db[u].FeeAddress) => t = u

(* vspd passes a fee transaction to dcrd only when the ticket purchase has *)
(* its six confirmations (payFee and broadcastFees).                       *)
NoEarlyBroadcast == \A tf \in sent : tkt[tf[1]] \in Final

(* A voting wallet holds a ticket only if a confirmed transaction pays to  *)
(* an address derived for it (addToWallets and checkWalletConsistency).    *)
HeldTicketsPaid ==
    \A wt \in held :
        \E f \in FeeTxs, a \in 1 .. MaxAddr :
            owner[a] = wt[2] /\ fee[f] = "final" /\ Payment[f][a] > 0

(* updateUnconfirmed never deletes a ticket whose fee has been broadcast:  *)
(* the client would have paid for a ticket vspd no longer knows.           *)
NoPaidTicketDeleted ==
    [][\A t \in Tickets :
        (db[t] # None /\ db'[t] = None) => \A f \in FeeTxs : <<t, f>> \notin sent]_vars

-----------------------------------------------------------------------------
(* The inductive invariant.  The invariants above hold because every copy  *)
(* of a record, not only the stored one, agrees with itself and with the   *)
(* chain: a copy that is written back late is old, but it is a record the  *)
(* ticket really had, moved one legal step further.                        *)

Sound(owners, tickets, fees, passed, t, ticket) ==
    /\ OwnAddress(owners, t, ticket)
    /\ FeeFieldsAgree(ticket)
    /\ ChainAgrees(tickets, fees, passed, t, ticket)

RecordOK(t, ticket) == Sound(owner, tkt, fee, sent, t, ticket)

DatabaseOK == \A t \in Tickets : db[t] # None => RecordOK(t, db[t])

(* The copy a handler holds, and what the handler has established about it. *)
HandlerOK(r) ==
    /\ pc[r] # "idle" => about[r] \in Tickets
    /\ snap[r] # None => about[r] \in Tickets /\ RecordOK(about[r], snap[r])
    /\ pc[r] \notin {"idle", "feeAddress", "payFee", "setVoteChoices"} => snap[r] # None
    /\ pc[r] = "insert" => snap[r].FeeTxStatus = "none"
    /\ pc[r] \in {"storeFee", "sendFee"} => snap[r].FeeTxStatus = "received"
    /\ pc[r] = "sendFee" => snap[r].Confirmed
    /\ pc[r] \in {"recordSend", "respond"} => snap[r].FeeTxStatus # "none"

HandlersOK == \A r \in Requests : HandlerOK(r)

(* The copies the background task holds.  Those it has not worked on yet   *)
(* still satisfy the filter that selected them.                            *)
CopiesOK ==
    \A t \in Tickets : batch[t] # None =>
        /\ RecordOK(t, batch[t])
        /\ phase = "fees" /\ t # cur => isPendingFee(batch[t])
        /\ phase = "wallets" /\ t # cur => isUnconfirmedFee(batch[t])
        /\ step = "scan" \/ phase \in {"addMissing", "fixChoices"}
              => batch[t].FeeTxStatus = "confirmed"

CurrentOK ==
    /\ step \in {"next", "scan"} => cur = None
    /\ step \in {"delete", "write", "add"} => cur \in Tickets /\ batch[cur] # None
    /\ step = "delete" => phase = "unconfirmed" /\ tkt[cur] \notin Final
    /\ step = "scan" => phase = "outcomes"
    /\ step = "add" => phase = "wallets" /\ batch[cur].FeeTxStatus = "confirmed"

TodoOK ==
    /\ todo # {} => step = "add" \/ phase \in {"addMissing", "fixChoices"}
    /\ \A wt \in todo : batch[wt[2]] # None /\ batch[wt[2]].FeeTxStatus = "confirmed"

AddressesOK == \A a \in 1 .. MaxAddr : a > lastAddr => owner[a] = None

(* Every copy of every record is sound, in the database and in flight:     *)
(* together with TypeOK this is inductive.                                 *)
EveryCopySound ==
    /\ DatabaseOK
    /\ HandlersOK
    /\ CopiesOK
    /\ CurrentOK
    /\ TodoOK
    /\ AddressesOK
    /\ NoEarlyBroadcast
    /\ HeldTicketsPaid

(* If dcrd notifies vspd of blocks again after its last failure, a fee     *)
(* that was received for a final ticket does not wait for ever: update     *)
(* broadcasts it or marks it as failed, whatever handlers, other failed    *)
(* calls and restarts do in between.  Run has no other trigger for update  *)
(* than a block: after a failed notifyblocks the fee waits as long as that *)
(* connection is kept (RpcClients, NotificationsRestored).                 *)
ReceivedFeeMovesOn ==
    <>[]subscribed =>
        \A t \in Tickets :
            (db[t] # None /\ db[t].FeeTxStatus = "received" /\ tkt[t] \in Final)
                ~> (db[t] = None \/ db[t].FeeTxStatus # "received")

(* Every votable ticket reaches every wallet, including the wallets that   *)
(* addToWallets could not reach (checkWalletConsistency).                  *)
VotableTicketsReachWallets ==
    \A w \in Wallets, t \in Tickets :
        (db[t] # None /\ isVotable(db[t]))
            ~> (<<w, t>> \in held \/ db[t] = None \/ ~isVotable(db[t]))

(* Once clients stop, the wallets end up with the vote choices of the      *)
(* database, although handlers and background task set them concurrently.  *)
WalletsFollowDatabase ==
    <>[](\A w \in Wallets, t \in Tickets :
            (db[t] # None /\ isVotable(db[t]) /\ db[t].VoteChoices # None)
                => <<w, t>> \in held /\ pref[<<w, t>>] = db[t].VoteChoices)

-----------------------------------------------------------------------------
(* What the database promises, as TicketClaims states it.                  *)

(* What a record claims.                                                   *)
Claimed(ticket) ==
    IF ticket = None THEN {} ELSE
    { fact \in {"feeGiven", "final", "feeSent", "feePaid", "spent"} :
        \/ fact = "feeGiven" /\ ticket.FeeTxStatus # "none"
        \/ fact = "final" /\ ticket.Confirmed
        \/ fact = "feeSent" /\ ticket.FeeTxStatus \in {"broadcast", "confirmed"}
        \/ fact = "feePaid" /\ ticket.FeeTxStatus = "confirmed"
        \/ fact = "spent" /\ ticket.Outcome # "" }

(* What the chain has shown of ticket t.                                   *)
ShownOf(t) ==
    { fact \in {"final", "feeSent", "feePaid", "spent"} :
        \/ fact = "final" /\ tkt[t] \in Final
        \/ fact = "feeSent" /\ \E f \in FeeTxs : <<t, f>> \in sent
        \/ fact = "feePaid" /\ \E f \in FeeTxs : <<t, f>> \in sent /\ fee[f] = "final"
        \/ fact = "spent" /\ tkt[t] \in Spent }

Promise == INSTANCE TicketClaims WITH
    Tickets    <- Tickets,
    registered <- {t \in Tickets : db[t] # None},
    claims     <- [t \in Tickets |-> Claimed(db[t])],
    shown      <- [t \in Tickets |-> ShownOf(t)],
    voting     <- {t \in Tickets : \E w \in Wallets : <<w, t>> \in held}

(* Whole records written back late, by handlers that overtake one another  *)
(* and by a background task that is interrupted, still keep what the       *)
(* database promises: no claim ahead of the chain, no deleted ticket that  *)
(* comes back with a fee, no broadcast fee lost with its ticket, no unpaid *)
(* ticket in a wallet.                                                     *)
KeepsPromises == Promise!Spec

-----------------------------------------------------------------------------
(* What comments and documentation say of the program, and concurrent      *)
(* writes of whole records break.                                          *)

(* database/ticket.go: "NoFee indicates no fee tx has been received yet."  *)
(* A client that was told its fee was received finds status none.          *)
NoFeeMeansNotReceived ==
    \A t \in Tickets : (db[t] # None /\ db[t].FeeTxStatus = "none") => acked[t] = {}

(* docs/api.md: payfee "will return an error if a fee transaction has      *)
(* already been provided": a received fee transaction is not replaced.     *)
FeeTxNotReplaced ==
    [][\A t \in Tickets :
        (/\ db[t] # None /\ db[t].FeeTxStatus \in FeeInHand
         /\ db'[t] # None /\ db'[t].FeeTxStatus \in FeeInHand)
            => db'[t].FeeTxHash = db[t].FeeTxHash]_vars
=============================================================================
