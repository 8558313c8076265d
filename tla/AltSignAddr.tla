----------------------------- MODULE AltSignAddr -----------------------------
(***************************************************************************)
(* The alternate signing address of a ticket: setAltSignAddr               *)
(* (internal/webapi/setaltsignaddr.go) and its bucket                      *)
(* (database/altsignaddr.go).  The handler looks whether an address is     *)
(* set, answers the client, and inserts the address afterwards; the insert *)
(* fails if another handler was faster.  One ticket is modelled.  Requests *)
(* reach the handler through the middleware of its route                   *)
(* (SetAltSignAddrRoute).                                                  *)
(***************************************************************************)
EXTENDS Naturals

CONSTANTS
    Handlers,       \* handler goroutines that may run at once
    Addresses,      \* alternate addresses the owner may ask for
    MaxFaults,      \* bound: failed calls and writes, crashes
    None

VARIABLES
    altSignAddr,    \* the stored address, or None
    stage, addr,    \* the handlers: step and requested address
    told,           \* addresses a client was told are set, while none was lost
    lost,           \* an answered address was not written, or deleted since
    faults

altVars == <<altSignAddr, stage, addr, told, lost, faults>>

AltTypeOK ==
    /\ altSignAddr \in Addresses \cup {None}
    /\ stage \in [Handlers -> {"idle", "checked", "insert"}]
    /\ addr \in [Handlers -> Addresses \cup {None}]
    /\ told \in SUBSET Addresses
    /\ lost \in BOOLEAN
    /\ faults \in 0 .. MaxFaults

AltInit ==
    /\ altSignAddr = None
    /\ stage = [h \in Handlers |-> "idle"]
    /\ addr = [h \in Handlers |-> None]
    /\ told = {}
    /\ lost = FALSE
    /\ faults = 0

(* One more failure of something outside vspd's control.                   *)
Fault == faults < MaxFaults /\ faults' = faults + 1

HandlerDone(h) ==
    /\ stage' = [stage EXCEPT ![h] = "idle"]
    /\ addr' = [addr EXCEPT ![h] = None]

(* A request is processed if no address is set.                            *)
setAltSignAddr(h, a) ==
    /\ stage[h] = "idle"
    /\ altSignAddr = None
    /\ stage' = [stage EXCEPT ![h] = "checked"]
    /\ addr' = [addr EXCEPT ![h] = a]
    /\ UNCHANGED <<altSignAddr, told, lost, faults>>

(* The address has a wrong format, or the ticket cannot vote.              *)
refuse(h) ==
    /\ stage[h] = "checked"
    /\ HandlerDone(h)
    /\ UNCHANGED <<altSignAddr, told, lost, faults>>

(* Mutant: the client is answered before the ticket has been looked at.    *)
BugSendJSONResponse(h) ==
    /\ stage[h] = "checked"
    /\ stage' \in {stage, [stage EXCEPT ![h] = "insert"]}
    /\ told' = told \cup {addr[h]}
    /\ UNCHANGED <<altSignAddr, addr, lost, faults>>

sendJSONResponse(h) ==
    /\ stage[h] = "checked"
    /\ stage' = [stage EXCEPT ![h] = "insert"]
    /\ told' = told \cup {addr[h]}
    /\ UNCHANGED <<altSignAddr, addr, lost, faults>>

(* Mutant: an existing bucket is overwritten.                              *)
BugInsert(current, a) == a

(* CreateBucket fails if the ticket has an address.                        *)
Insert(current, a) == IF current = None THEN a ELSE current

InsertAltSignAddr(h) ==
    /\ stage[h] = "insert"
    /\ \/ altSignAddr' = Insert(altSignAddr, addr[h]) /\ UNCHANGED <<lost, faults>>
       \/ Fault /\ lost' = TRUE /\ UNCHANGED altSignAddr
    /\ HandlerDone(h)
    /\ UNCHANGED told

(* updateUnconfirmed removes the address together with its ticket.         *)
DeleteAltSignAddr ==
    /\ \/ altSignAddr' = None /\ lost' = TRUE /\ UNCHANGED faults
       \/ Fault /\ UNCHANGED <<altSignAddr, lost>>
    /\ UNCHANGED <<stage, addr, told>>

(* vspd stops; what is in the database stays.                              *)
Stop ==
    /\ Fault
    /\ stage' = [h \in Handlers |-> "idle"]
    /\ addr' = [h \in Handlers |-> None]
    /\ lost' = (lost \/ \E h \in Handlers : stage[h] = "insert")
    /\ UNCHANGED <<altSignAddr, told>>
=============================================================================
