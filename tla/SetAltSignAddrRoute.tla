------------------------- MODULE SetAltSignAddrRoute -------------------------
(***************************************************************************)
(* The routes /setaltsignaddr and /feeaddress (router in                   *)
(* internal/webapi/webapi.go): broadcastTicket, vspAuth, then the handler, *)
(* next to the background task, which deletes an unconfirmed ticket that   *)
(* dcrd does not know together with its alternate signing address.         *)
(*                                                                         *)
(* TicketBroadcast is the middleware and AltSignAddr the handler of        *)
(* /setaltsignaddr with its bucket.  Of the handler of /feeaddress only    *)
(* the registration of the ticket matters here (TicketLifecycle).          *)
(***************************************************************************)
EXTENDS TicketBroadcast

CONSTANTS
    Addresses,      \* alternate addresses the owner may ask for
    None

ASSUME NoneNotAddress == None \notin Addresses

VARIABLES
    altSignAddr, stage, addr, told, lost,
    stored,         \* the ticket bucket has the ticket
    task            \* the background task: next step

altVars == <<altSignAddr, stage, addr, told, lost>>
vars == <<broadcastVars, altVars, stored, task>>

Alt == INSTANCE AltSignAddr
         WITH Handlers <- Requests, Addresses <- Addresses, None <- None,
              MaxFaults <- MaxFaults, altSignAddr <- altSignAddr, stage <- stage,
              addr <- addr, told <- told, lost <- lost, faults <- faults

TypeOK ==
    /\ BroadcastTypeOK
    /\ Alt!AltTypeOK
    /\ stored \in BOOLEAN
    /\ task \in {"idle", "deleteTicket", "deleteAddress"}

Init ==
    /\ BroadcastInit
    /\ Alt!AltInit
    /\ stored = FALSE
    /\ task = "idle"

-----------------------------------------------------------------------------
(* The commitment address comes from the database or from dcrd; a request  *)
(* that is not signed with it, or with the alternate address, is refused.  *)
vspAuth(r) ==
    /\ pc[r] = "auth"
    /\ \/ (stored \/ Known("ticket")) /\ GoTo(r, "handler")
       \/ Leave(r)
    /\ UNCHANGED <<dcrd, sem, faults, altVars, stored, task>>

(* The ticket is in the mempool, immature or live.                         *)
canTicketVote == tx["ticket"] \in {"pool", "mined"}

(* /feeaddress registers a ticket that can vote, or refuses the request.   *)
(* The check and the insert are one step; a ticket that dcrd drops between *)
(* them is forgotten, which the properties except.                         *)
feeAddress(r) ==
    /\ pc[r] = "handler" /\ stage[r] = "idle"
    /\ stored' \in {stored, stored \/ canTicketVote}
    /\ Leave(r)
    /\ UNCHANGED <<dcrd, sem, faults, altVars, task>>

(* /setaltsignaddr: a request that finds an address ends, and so does one  *)
(* whose ticket cannot vote or is not known to dcrd any more.              *)
setAltSignAddr(r) ==
    /\ pc[r] = "handler"
    /\ \/ \E a \in Addresses : Alt!setAltSignAddr(r, a) /\ UNCHANGED pc
       \/ stage[r] = "idle" /\ altSignAddr # None /\ Leave(r) /\ UNCHANGED <<altVars, faults>>
       \/ canTicketVote /\ Alt!sendJSONResponse(r) /\ UNCHANGED pc
       \/ Alt!refuse(r) /\ Leave(r)
       \/ Alt!InsertAltSignAddr(r) /\ Leave(r)
    /\ UNCHANGED <<dcrd, sem, stored, task>>

(* updateUnconfirmed asks dcrd for a ticket it has listed.                 *)
updateUnconfirmed ==
    /\ task = "idle"
    /\ stored /\ ~Known("ticket")
    /\ task' = "deleteTicket"
    /\ UNCHANGED <<broadcastVars, altVars, stored>>

DeleteTicket ==
    /\ task = "deleteTicket"
    /\ \/ stored' = FALSE /\ UNCHANGED faults
       \/ CallFails /\ UNCHANGED stored
    /\ task' = "deleteAddress"
    /\ UNCHANGED <<dcrd, pc, sem, altVars>>

(* The address is deleted even if deleting the ticket failed.              *)
DeleteAddress ==
    /\ task = "deleteAddress"
    /\ Alt!DeleteAltSignAddr
    /\ task' = "idle"
    /\ UNCHANGED <<dcrd, pc, sem, stored>>

Crash ==
    /\ Alt!Stop
    /\ pc' = [r \in Requests |-> "idle"]
    /\ attempts' = [r \in Requests |-> 0]
    /\ broadcastSem' = 0
    /\ task' = "idle"
    /\ UNCHANGED <<dcrd, stored>>

-----------------------------------------------------------------------------
Serve(r) ==
    \/ Broadcast(r) /\ UNCHANGED <<altVars, stored, task>>
    \/ vspAuth(r) \/ feeAddress(r) \/ setAltSignAddr(r)

Next ==
    \/ Network /\ UNCHANGED <<altVars, stored, task>>
    \/ \E r \in Requests :
          \/ broadcastTicket(r) /\ UNCHANGED <<altVars, stored, task>>
          \/ Serve(r)
    \/ updateUnconfirmed \/ DeleteTicket \/ DeleteAddress
    \/ Crash

Spec == Init /\ [][Next]_vars

(* A goroutine that can run does run: calls of dcrd return and the         *)
(* one-second sleeps end.                                                  *)
FairSpec == Spec /\ \A r \in Requests : WF_vars(Serve(r))

-----------------------------------------------------------------------------
(* Unless dcrd drops the ticket from its mempool, whoever got past the     *)
(* middleware works on a ticket dcrd knows, and so do the records that     *)
(* requests left behind (broadcastTicket, vspAuth).                        *)
PassedMeansKnown ==
    \/ stored
    \/ altSignAddr # None
    \/ \E r \in Requests : pc[r] \in {"auth", "handler"}
    => forgotten \/ Known("ticket")

(* An address that is set is never replaced, however many handlers saw     *)
(* none (InsertAltSignAddr), and is not deleted either as long as dcrd has *)
(* not forgotten the ticket (updateUnconfirmed).                           *)
AddressKept ==
    [][altSignAddr # None =>
          \/ altSignAddr' = altSignAddr
          \/ altSignAddr' = None /\ forgotten]_vars

(* The client is answered before the address is inserted.  When no handler *)
(* is at work and no write was lost, the stored address is one that a      *)
(* client was told is set.                                                 *)
AnswerHonoured ==
    (told # {} /\ ~lost /\ \A r \in Requests : stage[r] = "idle") => altSignAddr \in told

(* Every request ends, whatever dcrd answers and however many others wait  *)
(* for the same transaction: nobody waits for a slot.                      *)
RequestsEnd == \A r \in Requests : pc[r] # "idle" ~> pc[r] = "idle"
=============================================================================
