---------------------- MODULE SetAltSignAddrRouteProofs ----------------------
(***************************************************************************)
(* Proofs that the slots of the middleware, the alternate signing address  *)
(* and what clients were told of it stay right for any number of requests, *)
(* slots, attempts and failures.                                           *)
(*                                                                         *)
(* The argument.  A request is in the retry loop exactly while it holds a  *)
(* slot, so the semaphore counts those requests.  Whatever got past the    *)
(* middleware concerns a ticket dcrd knew, and dcrd forgets a ticket only  *)
(* by an eviction; so the background task, which acts on tickets dcrd does *)
(* not know, deletes an address only after an eviction.  A handler about   *)
(* to insert an address has told its client so, and the first insert wins. *)
(***************************************************************************)
EXTENDS SetAltSignAddrRoute, FiniteSetTheorems, TLAPS

Waiting == {r \in Requests : pc[r] = "retry"}

(* The background task acts on a ticket that dcrd dropped.                 *)
TaskOK == task # "idle" => forgotten

(* The handlers: a request has a stage only in its handler; an address     *)
(* that is about to be inserted, or stored, was announced to a client, and *)
(* as long as no write was lost an announced address is stored or is about *)
(* to be.                                                                  *)
HandlersOK ==
    /\ \A r \in Requests : stage[r] # "idle" => pc[r] = "handler" /\ addr[r] \in Addresses
    /\ \A r \in Requests : stage[r] = "insert" => addr[r] \in told
    /\ altSignAddr # None => altSignAddr \in told
    /\ told # {} /\ ~lost => altSignAddr # None \/ \E r \in Requests : stage[r] = "insert"

Inv ==
    /\ TypeOK
    /\ SlotsHeld
    /\ PassedMeansKnown
    /\ TaskOK
    /\ HandlersOK

-----------------------------------------------------------------------------
(* Slots.                                                                  *)

(* A step of one request r: the semaphore follows the number of requests   *)
(* in the retry loop.                                                      *)
LEMMA CountWaiting ==
    ASSUME TypeOK, SlotsHeld, NEW r \in Requests,
           NEW p \in PCs, pc' = [pc EXCEPT ![r] = p],
           \/ pc[r] # "retry" /\ p # "retry" /\ broadcastSem' = broadcastSem
           \/ pc[r] = "retry" /\ p = "retry" /\ broadcastSem' = broadcastSem
           \/ pc[r] # "retry" /\ p = "retry" /\ broadcastSem < Slots /\ broadcastSem' = broadcastSem + 1
           \/ pc[r] = "retry" /\ p # "retry" /\ broadcastSem' = broadcastSem - 1
    PROVE  SlotsHeld' /\ broadcastSem' \in 0 .. Slots
<1>1. IsFiniteSet(Waiting) /\ broadcastSem = Cardinality(Waiting) /\ broadcastSem \in 0 .. Slots /\ Slots \in Nat
  <2>1. IsFiniteSet(Waiting)
    BY BroadcastAssumption, FS_Subset DEF Waiting
  <2> QED BY <2>1, BroadcastAssumption DEF SlotsHeld, Waiting, TypeOK, BroadcastTypeOK
<1>2. pc \in [Requests -> PCs]
  BY DEF TypeOK, BroadcastTypeOK
<1>3. CASE (pc[r] = "retry") = (p = "retry")
  <2>1. Waiting' = Waiting /\ broadcastSem' = broadcastSem
    BY <1>2, <1>3 DEF Waiting
  <2> QED BY <1>1, <2>1 DEF SlotsHeld, Waiting
<1>4. CASE pc[r] # "retry" /\ p = "retry"
  <2>1. Waiting' = Waiting \cup {r} /\ r \notin Waiting
    BY <1>2, <1>4 DEF Waiting
  <2>2. Cardinality(Waiting \cup {r}) = Cardinality(Waiting) + 1
    BY <1>1, <2>1, FS_AddElement
  <2> QED BY <1>1, <1>4, <2>1, <2>2 DEF SlotsHeld, Waiting
<1>5. CASE pc[r] = "retry" /\ p # "retry"
  <2>1. Waiting' = Waiting \ {r} /\ r \in Waiting
    BY <1>2, <1>5 DEF Waiting
  <2>2. Cardinality(Waiting \ {r}) = Cardinality(Waiting) - 1
    BY <1>1, <2>1, FS_RemoveElement
  <2>3. Cardinality(Waiting \ {r}) \in Nat
    BY <1>1, FS_Subset, FS_CardinalityType
  <2> QED BY <1>1, <1>5, <2>1, <2>2, <2>3 DEF SlotsHeld, Waiting
<1> QED BY <1>3, <1>4, <1>5

(* No request enters or leaves the retry loop.                             *)
LEMMA SlotsStay ==
    ASSUME SlotsHeld, UNCHANGED <<pc, broadcastSem>>
    PROVE  SlotsHeld'
  BY DEF SlotsHeld

-----------------------------------------------------------------------------
(* The middleware.                                                         *)

Rest == UNCHANGED <<altVars, stored, task>>

(* A request that moves on in the middleware leaves the handlers, their    *)
(* records and the background task alone; it gets to the handlers only     *)
(* with a ticket dcrd knows.                                               *)
LEMMA MiddlewareStep ==
    ASSUME Inv, Rest, forgotten' = forgotten,
           NEW r \in Requests, pc[r] # "handler",
           NEW p \in PCs \ {"handler"}, pc' = [pc EXCEPT ![r] = p],
           Known("ticket") => Known("ticket")',
           p = "auth" => Known("ticket")'
    PROVE  PassedMeansKnown' /\ TaskOK' /\ HandlersOK'
<1> USE DEF Inv, TypeOK, BroadcastTypeOK, Rest, altVars
<1>1. PassedMeansKnown'
  BY DEF PassedMeansKnown
<1>2. TaskOK'
  BY DEF TaskOK
<1>3. HandlersOK'
  BY DEF HandlersOK
<1> QED BY <1>1, <1>2, <1>3

(* A transaction that is accepted is known from then on, and so is what    *)
(* was known.                                                              *)
LEMMA Sent ==
    ASSUME BroadcastTypeOK, NEW x \in {"parent", "ticket"}, SendRawTransaction(x)
    PROVE  /\ tx' \in [{"parent", "ticket"} -> {"unknown", "pool", "mined", "spent"}]
           /\ Known(x)'
           /\ Known("ticket") => Known("ticket")'
           /\ UNCHANGED <<inputs, forgotten>>
  BY DEF BroadcastTypeOK, SendRawTransaction, Accepted, Known

(* One more failure stays within the bound.                                *)
LEMMA CallFailsType ==
    ASSUME faults \in 0 .. MaxFaults, CallFails
    PROVE  faults' \in 0 .. MaxFaults
  BY BroadcastAssumption DEF CallFails

LEMMA NetworkKeepsInv ==
    ASSUME Inv, Network, Rest
    PROVE  Inv'
<1> USE DEF Inv, Rest, altVars
<1>1. UNCHANGED <<pc, sem>>
  BY DEF Network, Propagate, Relay, Mine, SpendOutputs, Evict
<1>2. /\ tx' \in [{"parent", "ticket"} -> {"unknown", "pool", "mined", "spent"}]
      /\ inputs' \in BOOLEAN /\ forgotten' \in BOOLEAN
      /\ faults' \in 0 .. MaxFaults
      /\ forgotten => forgotten'
      /\ Known("ticket") => forgotten' \/ Known("ticket")'
  <2> USE DEF TypeOK, BroadcastTypeOK, Known
  <2>1. CASE Propagate
    BY <2>1 DEF Propagate
  <2>2. ASSUME NEW x \in {"parent", "ticket"}, Relay(x) \/ Mine(x) \/ SpendOutputs(x)
        PROVE  /\ tx' \in [{"parent", "ticket"} -> {"unknown", "pool", "mined", "spent"}]
               /\ UNCHANGED <<inputs, forgotten, faults>>
               /\ Known("ticket") => Known("ticket")'
    BY <2>2 DEF Relay, Mine, SpendOutputs
  <2>3. ASSUME NEW x \in {"parent", "ticket"}, Evict(x)
        PROVE  /\ tx' \in [{"parent", "ticket"} -> {"unknown", "pool", "mined", "spent"}]
               /\ forgotten' \in BOOLEAN /\ UNCHANGED inputs
               /\ faults' \in 0 .. MaxFaults
               /\ forgotten => forgotten'
               /\ Known("ticket") => forgotten' \/ Known("ticket")'
    BY <2>3, CallFailsType DEF Evict
  <2> QED BY <2>1, <2>2, <2>3 DEF Network
<1>3. TypeOK'
  BY <1>1, <1>2 DEF TypeOK, BroadcastTypeOK, sem, Alt!AltTypeOK
<1>4. SlotsHeld'
  BY <1>1, SlotsStay DEF sem
<1>5. PassedMeansKnown' /\ TaskOK' /\ HandlersOK'
  BY <1>1, <1>2 DEF PassedMeansKnown, TaskOK, HandlersOK
<1> QED BY <1>3, <1>4, <1>5

LEMMA broadcastTicketKeepsInv ==
    ASSUME Inv, NEW r \in Requests, broadcastTicket(r), Rest
    PROVE  Inv'
<1>1. PICK p \in {"ticket", "sendParent"} : pc' = [pc EXCEPT ![r] = p]
  BY DEF broadcastTicket, GoTo
<1>2. pc[r] = "idle" /\ UNCHANGED <<dcrd, sem, faults>>
  BY DEF broadcastTicket
<1>3. SlotsHeld'
  BY <1>1, <1>2, CountWaiting DEF Inv, sem, PCs, Middleware
<1>4. PassedMeansKnown' /\ TaskOK' /\ HandlersOK'
  <2>1. Known("ticket") => Known("ticket")'
    BY <1>2 DEF Known, dcrd
  <2> QED BY <1>1, <1>2, <2>1, MiddlewareStep DEF dcrd, PCs, Middleware
<1>5. TypeOK'
  BY <1>1, <1>2 DEF Inv, TypeOK, BroadcastTypeOK, Alt!AltTypeOK, dcrd, sem, PCs, Middleware, Rest, altVars
<1> QED BY <1>3, <1>4, <1>5 DEF Inv

LEMMA sendParentKeepsInv ==
    ASSUME Inv, NEW r \in Requests, sendParent(r), Rest
    PROVE  Inv'
<1> USE DEF Inv
<1>1. PICK p \in {"ticket", "slot", "idle"} : pc' = [pc EXCEPT ![r] = p]
  BY DEF sendParent, GoTo, Leave
<1>2. pc[r] = "sendParent" /\ UNCHANGED sem
  BY DEF sendParent
<1>3. /\ tx' \in [{"parent", "ticket"} -> {"unknown", "pool", "mined", "spent"}]
      /\ Known("ticket") => Known("ticket")'
      /\ UNCHANGED <<inputs, forgotten>>
      /\ faults' \in 0 .. MaxFaults
  BY Sent, CallFailsType DEF sendParent, dcrd, TypeOK, BroadcastTypeOK, Known
<1>4. SlotsHeld'
  BY <1>1, <1>2, CountWaiting DEF sem, PCs, Middleware
<1>5. PassedMeansKnown' /\ TaskOK' /\ HandlersOK'
  BY <1>1, <1>2, <1>3, MiddlewareStep DEF PCs, Middleware
<1>6. TypeOK'
  BY <1>1, <1>2, <1>3 DEF TypeOK, BroadcastTypeOK, Alt!AltTypeOK, sem, PCs, Middleware, Rest, altVars
<1> QED BY <1>4, <1>5, <1>6

LEMMA acquireSlotKeepsInv ==
    ASSUME Inv, NEW r \in Requests, acquireSlot(r), Rest
    PROVE  Inv'
<1> USE DEF Inv
<1>1. PICK p \in {"retry", "idle"} :
         /\ pc' = [pc EXCEPT ![r] = p]
         /\ \/ p = "retry" /\ SlotFree /\ broadcastSem' = broadcastSem + 1
            \/ p = "idle" /\ broadcastSem' = broadcastSem
  BY DEF acquireSlot, GoTo, Leave
<1>2. pc[r] = "slot" /\ UNCHANGED <<dcrd, attempts, faults>>
  BY DEF acquireSlot
<1>3. SlotsHeld' /\ broadcastSem' \in 0 .. Slots
  BY <1>1, <1>2, CountWaiting DEF PCs, Middleware, SlotFree
<1>4. PassedMeansKnown' /\ TaskOK' /\ HandlersOK'
  <2>1. Known("ticket") => Known("ticket")'
    BY <1>2 DEF Known, dcrd
  <2> QED BY <1>1, <1>2, <2>1, MiddlewareStep DEF dcrd, PCs, Middleware
<1>5. TypeOK'
  BY <1>1, <1>2, <1>3 DEF TypeOK, BroadcastTypeOK, Alt!AltTypeOK, dcrd, PCs, Middleware, Rest, altVars
<1> QED BY <1>3, <1>4, <1>5

(* The three ways on from an attempt of the retry loop: the parent was     *)
(* accepted, this was the last attempt, or there is another.               *)
LEMMA retryKeepsInv ==
    ASSUME Inv, NEW r \in Requests, retry(r), Rest
    PROVE  Inv'
<1> USE DEF Inv
<1>1. PICK p \in {"ticket", "idle", "retry"} :
         /\ pc' = [pc EXCEPT ![r] = p]
         /\ \/ p # "retry" /\ releaseSlot(r)
            \/ /\ p = "retry" /\ broadcastSem' = broadcastSem
               /\ attempts[r] + 1 < MaxAttempts
               /\ attempts' = [attempts EXCEPT ![r] = @ + 1]
  <2>1. CASE releaseSlot(r) /\ GoTo(r, "ticket")
    BY <2>1 DEF GoTo
  <2>2. CASE giveUp(r)
    BY <2>2 DEF giveUp, Leave, GoTo
  <2>3. CASE /\ attempts[r] + 1 < MaxAttempts
             /\ attempts' = [attempts EXCEPT ![r] = @ + 1]
             /\ UNCHANGED <<pc, broadcastSem>>
    <3>1. pc' = [pc EXCEPT ![r] = "retry"]
      BY <2>3 DEF retry, TypeOK, BroadcastTypeOK
    <3> QED BY <2>3, <3>1
  <2> QED BY <2>1, <2>2, <2>3 DEF retry
<1>2. pc[r] = "retry"
  BY DEF retry
<1>3. /\ tx' \in [{"parent", "ticket"} -> {"unknown", "pool", "mined", "spent"}]
      /\ Known("ticket") => Known("ticket")'
      /\ UNCHANGED <<inputs, forgotten>>
      /\ faults' \in 0 .. MaxFaults
  BY Sent, CallFailsType DEF retry, dcrd, TypeOK, BroadcastTypeOK, Known
<1>4. SlotsHeld' /\ broadcastSem' \in 0 .. Slots
  BY <1>1, <1>2, CountWaiting DEF PCs, Middleware, releaseSlot
<1>5. attempts' \in [Requests -> 0 .. MaxAttempts - 1]
  <2>1. attempts[r] \in 0 .. MaxAttempts - 1 /\ MaxAttempts \in Nat \ {0}
    BY BroadcastAssumption DEF TypeOK, BroadcastTypeOK
  <2>2. CASE releaseSlot(r)
    BY <2>1, <2>2 DEF releaseSlot, TypeOK, BroadcastTypeOK
  <2>3. CASE attempts[r] + 1 < MaxAttempts /\ attempts' = [attempts EXCEPT ![r] = @ + 1]
    BY <2>1, <2>3 DEF TypeOK, BroadcastTypeOK
  <2> QED BY <1>1, <2>2, <2>3
<1>6. PassedMeansKnown' /\ TaskOK' /\ HandlersOK'
  BY <1>1, <1>2, <1>3, MiddlewareStep DEF PCs, Middleware
<1>7. TypeOK'
  BY <1>1, <1>3, <1>4, <1>5 DEF TypeOK, BroadcastTypeOK, Alt!AltTypeOK, PCs, Middleware, Rest, altVars
<1> QED BY <1>4, <1>6, <1>7

LEMMA askTicketKeepsInv ==
    ASSUME Inv, NEW r \in Requests, askTicket(r), Rest
    PROVE  Inv'
<1> USE DEF Inv
<1>1. PICK p \in {"auth", "sendTicket", "idle"} :
         pc' = [pc EXCEPT ![r] = p] /\ (p = "auth" => Known("ticket"))
  BY DEF askTicket, GoTo, Leave
<1>2. pc[r] = "ticket" /\ UNCHANGED <<dcrd, sem>> /\ faults' \in 0 .. MaxFaults
  BY CallFailsType DEF askTicket, TypeOK, BroadcastTypeOK
<1>3. SlotsHeld'
  BY <1>1, <1>2, CountWaiting DEF sem, PCs, Middleware
<1>4. PassedMeansKnown' /\ TaskOK' /\ HandlersOK'
  <2>1. Known("ticket") => Known("ticket")'
    BY <1>2 DEF Known, dcrd
  <2> QED BY <1>1, <1>2, <2>1, MiddlewareStep DEF dcrd, PCs, Middleware
<1>5. TypeOK'
  BY <1>1, <1>2 DEF TypeOK, BroadcastTypeOK, Alt!AltTypeOK, dcrd, sem, PCs, Middleware, Rest, altVars
<1> QED BY <1>3, <1>4, <1>5

LEMMA sendTicketKeepsInv ==
    ASSUME Inv, NEW r \in Requests, sendTicket(r), Rest
    PROVE  Inv'
<1> USE DEF Inv
<1>1. PICK p \in {"auth", "idle"} :
         pc' = [pc EXCEPT ![r] = p] /\ (p = "auth" => SendRawTransaction("ticket"))
  BY DEF sendTicket, GoTo, Leave
<1>2. pc[r] = "sendTicket" /\ UNCHANGED sem
  BY DEF sendTicket
<1>3. /\ tx' \in [{"parent", "ticket"} -> {"unknown", "pool", "mined", "spent"}]
      /\ Known("ticket") => Known("ticket")'
      /\ UNCHANGED <<inputs, forgotten>>
      /\ faults' \in 0 .. MaxFaults
  BY Sent, CallFailsType DEF sendTicket, dcrd, TypeOK, BroadcastTypeOK, Known
<1>4. p = "auth" => Known("ticket")'
  BY <1>1, Sent DEF TypeOK
<1>5. SlotsHeld'
  BY <1>1, <1>2, CountWaiting DEF sem, PCs, Middleware
<1>6. PassedMeansKnown' /\ TaskOK' /\ HandlersOK'
  BY <1>1, <1>2, <1>3, <1>4, MiddlewareStep DEF PCs, Middleware
<1>7. TypeOK'
  BY <1>1, <1>2, <1>3 DEF TypeOK, BroadcastTypeOK, Alt!AltTypeOK, sem, PCs, Middleware, Rest, altVars
<1> QED BY <1>5, <1>6, <1>7

-----------------------------------------------------------------------------
(* The handlers and the background task.                                   *)

LEMMA vspAuthKeepsInv ==
    ASSUME Inv, NEW r \in Requests, vspAuth(r)
    PROVE  Inv'
<1> USE DEF Inv
<1>1. PICK p \in {"handler", "idle"} : pc' = [pc EXCEPT ![r] = p]
  BY DEF vspAuth, GoTo, Leave
<1>2. pc[r] = "auth" /\ UNCHANGED <<dcrd, sem, faults, altVars, stored, task>>
  BY DEF vspAuth
<1>3. SlotsHeld'
  BY <1>1, <1>2, CountWaiting DEF sem, PCs, Middleware
<1>4. PassedMeansKnown'
  BY <1>1, <1>2 DEF PassedMeansKnown, dcrd, altVars, Known, TypeOK, BroadcastTypeOK
<1>5. TaskOK' /\ HandlersOK'
  BY <1>1, <1>2 DEF TaskOK, HandlersOK, dcrd, altVars, TypeOK, BroadcastTypeOK
<1>6. TypeOK'
  BY <1>1, <1>2 DEF TypeOK, BroadcastTypeOK, Alt!AltTypeOK, dcrd, sem, PCs, Middleware, altVars
<1> QED BY <1>3, <1>4, <1>5, <1>6

LEMMA feeAddressKeepsInv ==
    ASSUME Inv, NEW r \in Requests, feeAddress(r)
    PROVE  Inv'
<1> USE DEF Inv
<1>1. /\ pc[r] = "handler" /\ stage[r] = "idle"
      /\ pc' = [pc EXCEPT ![r] = "idle"]
      /\ stored' \in {stored, stored \/ canTicketVote}
      /\ UNCHANGED <<dcrd, sem, faults, altVars, task>>
  BY DEF feeAddress, Leave, GoTo
<1>2. SlotsHeld'
  BY <1>1, CountWaiting DEF sem, PCs, Middleware
<1>3. PassedMeansKnown'
  BY <1>1 DEF PassedMeansKnown, dcrd, altVars, Known, TypeOK, BroadcastTypeOK
<1>4. TaskOK' /\ HandlersOK'
  BY <1>1 DEF TaskOK, HandlersOK, dcrd, altVars, TypeOK, BroadcastTypeOK
<1>5. TypeOK'
  BY <1>1 DEF TypeOK, BroadcastTypeOK, Alt!AltTypeOK, dcrd, sem, PCs, Middleware, altVars, canTicketVote
<1> QED BY <1>2, <1>3, <1>4, <1>5

(* What a step of the handler of /setaltsignaddr does: the request goes on *)
(* or leaves with no stage, and the announced and the stored address go    *)
(* together.                                                               *)
LEMMA setAltSignAddrStep ==
    ASSUME Inv, NEW r \in Requests, setAltSignAddr(r)
    PROVE  /\ \E p \in {"handler", "idle"} :
                /\ pc' = [pc EXCEPT ![r] = p]
                /\ p = "idle" => stage'[r] = "idle"
           /\ Alt!AltTypeOK'
           /\ altSignAddr # None => altSignAddr' = altSignAddr
           /\ HandlersOK'
<1> USE DEF Inv, TypeOK, BroadcastTypeOK, Alt!AltTypeOK, HandlersOK
<1>1. pc[r] = "handler"
  BY DEF setAltSignAddr
<1>2. ASSUME NEW a \in Addresses, Alt!setAltSignAddr(r, a), UNCHANGED pc
      PROVE  /\ pc' = [pc EXCEPT ![r] = "handler"]
             /\ Alt!AltTypeOK' /\ altSignAddr' = altSignAddr
             /\ HandlersOK'
  BY <1>1, <1>2 DEF Alt!setAltSignAddr
<1>3. ASSUME stage[r] = "idle", altSignAddr # None, Leave(r), UNCHANGED <<altVars, faults>>
      PROVE  /\ pc' = [pc EXCEPT ![r] = "idle"] /\ stage'[r] = "idle"
             /\ Alt!AltTypeOK' /\ altSignAddr' = altSignAddr
             /\ HandlersOK'
  BY <1>1, <1>3 DEF Leave, GoTo, altVars
<1>4. ASSUME Alt!sendJSONResponse(r), UNCHANGED pc
      PROVE  /\ pc' = [pc EXCEPT ![r] = "handler"]
             /\ Alt!AltTypeOK' /\ altSignAddr' = altSignAddr
             /\ HandlersOK'
  <2>1. addr[r] \in Addresses
    BY <1>4 DEF Alt!sendJSONResponse
  <2>2. pc' = [pc EXCEPT ![r] = "handler"]
    BY <1>1, <1>4
  <2>3. Alt!AltTypeOK' /\ altSignAddr' = altSignAddr
    BY <1>4, <2>1 DEF Alt!sendJSONResponse
  <2>4. HandlersOK'
    BY <1>1, <1>4, <2>1 DEF Alt!sendJSONResponse
  <2> QED BY <2>2, <2>3, <2>4
<1>5. ASSUME Alt!refuse(r), Leave(r)
      PROVE  /\ pc' = [pc EXCEPT ![r] = "idle"] /\ stage'[r] = "idle"
             /\ Alt!AltTypeOK' /\ altSignAddr' = altSignAddr
             /\ HandlersOK'
  BY <1>1, <1>5 DEF Alt!refuse, Alt!HandlerDone, Leave, GoTo
<1>6. ASSUME Alt!InsertAltSignAddr(r), Leave(r)
      PROVE  /\ pc' = [pc EXCEPT ![r] = "idle"] /\ stage'[r] = "idle"
             /\ Alt!AltTypeOK'
             /\ altSignAddr # None => altSignAddr' = altSignAddr
             /\ HandlersOK'
  <2>1. /\ pc' = [pc EXCEPT ![r] = "idle"]
        /\ stage' = [stage EXCEPT ![r] = "idle"]
        /\ addr' = [addr EXCEPT ![r] = None]
        /\ told' = told /\ stage[r] = "insert"
    BY <1>6 DEF Alt!InsertAltSignAddr, Alt!HandlerDone, Leave, GoTo
  <2>2. addr[r] \in Addresses /\ addr[r] \in told /\ addr[r] # None
    BY <2>1, NoneNotAddress
  <2>3. \/ /\ altSignAddr' = (IF altSignAddr = None THEN addr[r] ELSE altSignAddr)
           /\ UNCHANGED <<lost, faults>>
        \/ lost' = TRUE /\ altSignAddr' = altSignAddr /\ faults' \in 0 .. MaxFaults
    BY <1>6, BroadcastAssumption DEF Alt!InsertAltSignAddr, Alt!Insert, Alt!Fault
  <2>4. altSignAddr # None => altSignAddr' = altSignAddr
    BY <2>3
  <2>5. Alt!AltTypeOK'
    BY <2>1, <2>2, <2>3
  <2>6. HandlersOK'
    BY <2>1, <2>2, <2>3
  <2> QED BY <2>1, <2>4, <2>5, <2>6
<1> QED BY <1>2, <1>3, <1>4, <1>5, <1>6 DEF setAltSignAddr

LEMMA setAltSignAddrKeepsInv ==
    ASSUME Inv, NEW r \in Requests, setAltSignAddr(r)
    PROVE  Inv'
<1> USE DEF Inv
<1>1. PICK p \in {"handler", "idle"} : pc' = [pc EXCEPT ![r] = p]
  BY setAltSignAddrStep
<1>2. Alt!AltTypeOK' /\ HandlersOK'
  BY setAltSignAddrStep
<1>3. pc[r] = "handler" /\ UNCHANGED <<dcrd, sem, stored, task>>
  BY DEF setAltSignAddr
<1>4. SlotsHeld'
  BY <1>1, <1>3, CountWaiting DEF sem, PCs, Middleware
<1>5. PassedMeansKnown' /\ TaskOK'
  <2>1. forgotten \/ Known("ticket")
    BY <1>3 DEF PassedMeansKnown
  <2> QED BY <1>3, <2>1 DEF PassedMeansKnown, TaskOK, dcrd, Known
<1>6. TypeOK'
  BY <1>1, <1>2, <1>3 DEF TypeOK, BroadcastTypeOK, Alt!AltTypeOK, dcrd, sem, PCs, Middleware
<1> QED BY <1>2, <1>4, <1>5, <1>6

LEMMA updateUnconfirmedKeepsInv ==
    ASSUME Inv, updateUnconfirmed
    PROVE  Inv'
<1> USE DEF Inv, updateUnconfirmed, broadcastVars, dcrd, sem, altVars
<1>1. forgotten
  BY DEF PassedMeansKnown
<1>2. SlotsHeld' /\ PassedMeansKnown'
  BY DEF SlotsHeld, PassedMeansKnown, Known
<1>3. TaskOK' /\ HandlersOK'
  BY <1>1 DEF TaskOK, HandlersOK
<1>4. TypeOK'
  BY DEF TypeOK, BroadcastTypeOK, Alt!AltTypeOK
<1> QED BY <1>2, <1>3, <1>4

LEMMA DeleteTicketKeepsInv ==
    ASSUME Inv, DeleteTicket
    PROVE  Inv'
<1> USE DEF Inv, DeleteTicket, dcrd, sem, altVars
<1>1. forgotten
  BY DEF TaskOK
<1>2. faults' \in 0 .. MaxFaults
  BY CallFailsType DEF TypeOK, BroadcastTypeOK
<1>3. SlotsHeld' /\ PassedMeansKnown'
  BY <1>1 DEF SlotsHeld, PassedMeansKnown, Known
<1>4. TaskOK' /\ HandlersOK'
  BY <1>1 DEF TaskOK, HandlersOK
<1>5. TypeOK'
  BY <1>2 DEF TypeOK, BroadcastTypeOK, Alt!AltTypeOK
<1> QED BY <1>3, <1>4, <1>5

LEMMA DeleteAddressKeepsInv ==
    ASSUME Inv, DeleteAddress
    PROVE  Inv' /\ forgotten /\ altSignAddr' \in {altSignAddr, None}
<1> USE DEF Inv
<1>1. forgotten /\ task' = "idle" /\ UNCHANGED <<dcrd, pc, sem, stored, stage, addr, told>>
  BY DEF TaskOK, DeleteAddress, Alt!DeleteAltSignAddr
<1>2. \/ altSignAddr' = None /\ lost' = TRUE /\ faults' = faults
      \/ altSignAddr' = altSignAddr /\ lost' = lost /\ faults' \in 0 .. MaxFaults
  BY BroadcastAssumption DEF DeleteAddress, Alt!DeleteAltSignAddr, Alt!Fault, TypeOK, BroadcastTypeOK
<1>3. SlotsHeld' /\ PassedMeansKnown'
  BY <1>1 DEF SlotsHeld, PassedMeansKnown, dcrd, sem
<1>4. TaskOK' /\ HandlersOK'
  BY <1>1, <1>2 DEF TaskOK, HandlersOK
<1>5. TypeOK'
  BY <1>1, <1>2 DEF TypeOK, BroadcastTypeOK, Alt!AltTypeOK, dcrd, sem
<1> QED BY <1>1, <1>2, <1>3, <1>4, <1>5

LEMMA CrashKeepsInv ==
    ASSUME Inv, Crash
    PROVE  Inv'
<1> USE DEF Inv
<1>1. /\ pc' = [r \in Requests |-> "idle"] /\ stage' = [r \in Requests |-> "idle"]
      /\ addr' = [r \in Requests |-> None] /\ attempts' = [r \in Requests |-> 0]
      /\ broadcastSem' = 0 /\ task' = "idle"
      /\ lost' = (lost \/ \E r \in Requests : stage[r] = "insert")
      /\ faults' \in 0 .. MaxFaults
      /\ UNCHANGED <<dcrd, stored, altSignAddr, told>>
  BY BroadcastAssumption DEF Crash, Alt!Stop, Alt!Fault, TypeOK, BroadcastTypeOK
<1>2. SlotsHeld'
  <2>1. {r \in Requests : pc'[r] = "retry"} = {}
    BY <1>1
  <2> QED BY <1>1, <2>1, FS_EmptySet, BroadcastAssumption DEF SlotsHeld
<1>3. PassedMeansKnown' /\ TaskOK'
  BY <1>1 DEF PassedMeansKnown, TaskOK, dcrd, Known
<1>4. HandlersOK'
  BY <1>1 DEF HandlersOK, TypeOK, Alt!AltTypeOK
<1>5. TypeOK'
  BY <1>1, BroadcastAssumption DEF TypeOK, BroadcastTypeOK, Alt!AltTypeOK, dcrd, PCs
<1> QED BY <1>2, <1>3, <1>4, <1>5

-----------------------------------------------------------------------------
(* The invariant and what follows from it.                                 *)

LEMMA InitHasInv == Init => Inv
<1> SUFFICES ASSUME Init PROVE Inv
  OBVIOUS
<1> USE DEF Init, BroadcastInit, Alt!AltInit
<1>1. SlotsHeld
  <2>1. {r \in Requests : pc[r] = "retry"} = {}
    OBVIOUS
  <2> QED BY <2>1, FS_EmptySet, BroadcastAssumption DEF SlotsHeld
<1>2. PassedMeansKnown /\ TaskOK /\ HandlersOK
  BY DEF PassedMeansKnown, TaskOK, HandlersOK
<1>3. TypeOK
  <2>1. 0 \in 0 .. Slots /\ 0 \in 0 .. MaxFaults /\ 0 \in 0 .. MaxAttempts - 1
    BY BroadcastAssumption
  <2>2. BroadcastTypeOK
    BY <2>1 DEF BroadcastTypeOK, PCs
  <2>3. Alt!AltTypeOK
    BY <2>1 DEF Alt!AltTypeOK
  <2> QED BY <2>2, <2>3 DEF TypeOK
<1> QED BY <1>1, <1>2, <1>3 DEF Inv

LEMMA NextKeepsInv ==
    ASSUME Inv, [Next]_vars
    PROVE  Inv'
<1>1. CASE Network /\ Rest
  BY <1>1, NetworkKeepsInv
<1>2. ASSUME NEW r \in Requests, Rest, broadcastTicket(r) \/ Broadcast(r)
      PROVE  Inv'
  BY <1>2, broadcastTicketKeepsInv, sendParentKeepsInv, acquireSlotKeepsInv,
     retryKeepsInv, askTicketKeepsInv, sendTicketKeepsInv DEF Broadcast
<1>3. ASSUME NEW r \in Requests, vspAuth(r) \/ feeAddress(r) \/ setAltSignAddr(r)
      PROVE  Inv'
  BY <1>3, vspAuthKeepsInv, feeAddressKeepsInv, setAltSignAddrKeepsInv
<1>4. CASE updateUnconfirmed \/ DeleteTicket \/ DeleteAddress
  BY <1>4, updateUnconfirmedKeepsInv, DeleteTicketKeepsInv, DeleteAddressKeepsInv
<1>5. CASE Crash
  BY <1>5, CrashKeepsInv
<1>6. CASE UNCHANGED vars
  BY <1>6 DEF vars, broadcastVars, dcrd, sem, altVars, Inv, TypeOK, BroadcastTypeOK,
              Alt!AltTypeOK, SlotsHeld, PassedMeansKnown, TaskOK, HandlersOK, Known
<1> QED BY <1>1, <1>2, <1>3, <1>4, <1>5, <1>6 DEF Next, Serve, Rest

LEMMA InvAlways == Spec => []Inv
  BY InitHasInv, NextKeepsInv, PTL DEF Spec

(* The variables keep their types, for any number of requests and slots.   *)
THEOREM RouteTypes == Spec => []TypeOK
<1>1. Inv => TypeOK
  BY DEF Inv
<1> QED BY <1>1, InvAlways, PTL

(* Every slot in use belongs to one request in the retry loop              *)
(* (broadcastTicket).                                                      *)
THEOREM SlotsAreHeld == Spec => []SlotsHeld
<1>1. Inv => SlotsHeld
  BY DEF Inv
<1> QED BY <1>1, InvAlways, PTL

(* Nothing that got past the middleware concerns a ticket dcrd never knew  *)
(* (broadcastTicket, vspAuth).                                             *)
THEOREM OnlyKnownTicketsPass == Spec => []PassedMeansKnown
<1>1. Inv => PassedMeansKnown
  BY DEF Inv
<1> QED BY <1>1, InvAlways, PTL

(* When no handler is at work and no write was lost, the stored address is *)
(* one a client was told is set (setAltSignAddr).                          *)
THEOREM AnswersAreHonoured == Spec => []AnswerHonoured
<1>1. Inv => AnswerHonoured
  BY DEF Inv, HandlersOK, AnswerHonoured
<1> QED BY <1>1, InvAlways, PTL

(* Only the handler and the background task touch a stored address; the    *)
(* first does not replace it, the second deletes it if dcrd forgot the     *)
(* ticket (InsertAltSignAddr, updateUnconfirmed).                          *)
THEOREM AddressesAreKept == Spec => AddressKept
<1> DEFINE Kept == altSignAddr # None =>
                      \/ altSignAddr' = altSignAddr
                      \/ altSignAddr' = None /\ forgotten
<1>1. ASSUME Inv, Next PROVE Kept
  <2>1. ASSUME NEW r \in Requests, setAltSignAddr(r) PROVE Kept
    BY <2>1, <1>1, setAltSignAddrStep
  <2>2. CASE DeleteAddress
    BY <2>2, <1>1, DeleteAddressKeepsInv
  <2>3. ASSUME NEW r \in Requests, vspAuth(r) \/ feeAddress(r) PROVE Kept
    BY <2>3 DEF vspAuth, feeAddress, altVars
  <2>4. CASE Rest
    BY <2>4 DEF Rest, altVars
  <2>5. CASE updateUnconfirmed \/ DeleteTicket \/ Crash
    BY <2>5 DEF updateUnconfirmed, DeleteTicket, Crash, Alt!Stop, altVars
  <2> HIDE DEF Kept
  <2> QED BY <1>1, <2>1, <2>2, <2>3, <2>4, <2>5 DEF Next, Serve, Rest
<1>2. ASSUME Inv, [Next]_vars PROVE [Kept]_vars
  BY <1>1, <1>2
<1> QED BY <1>2, InvAlways, PTL DEF Spec, AddressKept

-----------------------------------------------------------------------------
(* Requests end, if their goroutines run: this is the part of RequestsEnd  *)
(* that does not depend on fairness.                                       *)

(* The most steps that a request can still take.                           *)
StepsLeft(r) ==
    CASE pc[r] = "sendParent" -> MaxAttempts + 8
      [] pc[r] = "slot"       -> MaxAttempts + 7
      [] pc[r] = "retry"      -> MaxAttempts + 6 - attempts[r]
      [] pc[r] = "ticket"     -> 6
      [] pc[r] = "sendTicket" -> 5
      [] pc[r] = "auth"       -> 4
      [] pc[r] = "handler"    ->
            (CASE stage[r] = "idle" -> 3 [] stage[r] = "checked" -> 2 [] OTHER -> 1)
      [] OTHER -> 0

(* Every step of a request brings it nearer to its end, and no step of     *)
(* another request, of dcrd, the network or the background task takes it   *)
(* back: the retry loop ends although the semaphore and the transactions   *)
(* are shared (broadcastTicket, setAltSignAddr).                           *)
RequestsAdvance ==
    [][\A r \in Requests :
          /\ Serve(r) => StepsLeft(r)' < StepsLeft(r)
          /\ pc[r] # "idle" => StepsLeft(r)' <= StepsLeft(r)]_vars

LEMMA StepsLeftNat ==
    ASSUME Inv, NEW r \in Requests
    PROVE  /\ StepsLeft(r) \in 0 .. MaxAttempts + 8
           /\ pc[r] = "retry" => StepsLeft(r) > 6 /\ StepsLeft(r) <= MaxAttempts + 6
           /\ pc[r] = "handler" => StepsLeft(r) \in 1 .. 3
<1>1. pc[r] \in PCs /\ attempts[r] \in 0 .. MaxAttempts - 1 /\ stage[r] \in {"idle", "checked", "insert"}
  BY DEF Inv, TypeOK, BroadcastTypeOK, Alt!AltTypeOK
<1>2. MaxAttempts \in Nat \ {0}
  BY BroadcastAssumption
<1> QED
  BY <1>1, <1>2 DEF StepsLeft, PCs, Middleware

(* The steps of the middleware, of vspAuth and of the handlers.            *)
LEMMA ServeAdvances ==
    ASSUME Inv, NEW r \in Requests, Serve(r)
    PROVE  StepsLeft(r)' \in Nat /\ StepsLeft(r)' < StepsLeft(r)
<1>1. /\ pc \in [Requests -> PCs] /\ attempts \in [Requests -> 0 .. MaxAttempts - 1]
      /\ stage \in [Requests -> {"idle", "checked", "insert"}]
  BY DEF Inv, TypeOK, BroadcastTypeOK, Alt!AltTypeOK
<1>2. MaxAttempts \in Nat \ {0} /\ attempts[r] \in 0 .. MaxAttempts - 1
  BY <1>1, BroadcastAssumption
<1>3. CASE sendParent(r)
  <2>1. pc[r] = "sendParent" /\ pc'[r] \in {"ticket", "slot", "idle"}
    BY <1>1, <1>3 DEF sendParent, GoTo, Leave
  <2> QED
    BY <1>2, <2>1 DEF StepsLeft
<1>4. CASE acquireSlot(r)
  <2>1. pc[r] = "slot" /\ pc'[r] \in {"retry", "idle"} /\ attempts' = attempts
    BY <1>1, <1>4 DEF acquireSlot, GoTo, Leave
  <2> QED
    BY <1>2, <2>1 DEF StepsLeft
<1>5. CASE retry(r)
  <2>1. /\ pc[r] = "retry"
        /\ \/ pc'[r] \in {"ticket", "idle"}
           \/ pc'[r] = "retry" /\ attempts'[r] = attempts[r] + 1 /\ attempts[r] + 1 < MaxAttempts
    BY <1>1, <1>5 DEF retry, giveUp, releaseSlot, GoTo, Leave
  <2> QED
    BY <1>2, <2>1 DEF StepsLeft
<1>6. CASE askTicket(r)
  <2>1. pc[r] = "ticket" /\ pc'[r] \in {"auth", "sendTicket", "idle"}
    BY <1>1, <1>6 DEF askTicket, GoTo, Leave
  <2> QED
    BY <2>1 DEF StepsLeft
<1>7. CASE sendTicket(r)
  <2>1. pc[r] = "sendTicket" /\ pc'[r] \in {"auth", "idle"}
    BY <1>1, <1>7 DEF sendTicket, GoTo, Leave
  <2> QED
    BY <2>1 DEF StepsLeft
<1>8. CASE vspAuth(r)
  <2>1. pc[r] = "auth" /\ pc'[r] \in {"handler", "idle"}
    BY <1>1, <1>8 DEF vspAuth, GoTo, Leave
  <2> QED
    BY <2>1 DEF StepsLeft
<1>9. CASE feeAddress(r)
  <2>1. pc[r] = "handler" /\ pc'[r] = "idle"
    BY <1>1, <1>9 DEF feeAddress, GoTo, Leave
  <2> QED
    BY <2>1 DEF StepsLeft
<1>10. CASE setAltSignAddr(r)
  <2>1. /\ pc[r] = "handler"
        /\ \/ pc'[r] = "idle"
           \/ pc' = pc /\ stage[r] = "idle" /\ stage'[r] = "checked"
           \/ pc' = pc /\ stage[r] = "checked" /\ stage'[r] = "insert"
    BY <1>1, <1>10 DEF setAltSignAddr, GoTo, Leave, Alt!setAltSignAddr, Alt!sendJSONResponse
  <2> QED
    BY <2>1 DEF StepsLeft
<1> QED
  BY <1>3, <1>4, <1>5, <1>6, <1>7, <1>8, <1>9, <1>10 DEF Serve, Broadcast

(* A step leaves the other requests where they are.                        *)
LEMMA OthersStay ==
    ASSUME Inv, NEW r \in Requests, NEW q \in Requests, q # r, pc[r] # "idle",
           \/ broadcastTicket(q) /\ UNCHANGED altVars
           \/ Serve(q)
    PROVE  StepsLeft(r)' = StepsLeft(r)
<1>1. /\ pc \in [Requests -> PCs] /\ attempts \in [Requests -> 0 .. MaxAttempts - 1]
      /\ stage \in [Requests -> {"idle", "checked", "insert"}]
  BY DEF Inv, TypeOK, BroadcastTypeOK, Alt!AltTypeOK
<1>2. pc'[r] = pc[r] /\ attempts'[r] = attempts[r] /\ stage'[r] = stage[r]
  <2>1. CASE broadcastTicket(q) /\ UNCHANGED altVars
    BY <1>1, <2>1 DEF broadcastTicket, GoTo, sem, altVars
  <2>2. CASE Broadcast(q) /\ UNCHANGED altVars
    <3>1. stage' = stage
      BY <2>2 DEF altVars
    <3>2. attempts'[r] = attempts[r]
      BY <1>1, <2>2 DEF Broadcast, sendParent, acquireSlot, retry, askTicket, sendTicket, giveUp, releaseSlot, sem
    <3>3. pc'[r] = pc[r]
      BY <1>1, <2>2 DEF Broadcast, sendParent, acquireSlot, retry, askTicket, sendTicket, giveUp, GoTo, Leave
    <3> QED
      BY <3>1, <3>2, <3>3
  <2>3. CASE vspAuth(q) \/ feeAddress(q)
    BY <1>1, <2>3 DEF vspAuth, feeAddress, GoTo, Leave, sem, altVars
  <2>4. CASE setAltSignAddr(q)
    BY <1>1, <2>4 DEF setAltSignAddr, GoTo, Leave, sem, altVars, Alt!setAltSignAddr, Alt!refuse,
       Alt!sendJSONResponse, Alt!InsertAltSignAddr, Alt!HandlerDone
  <2> QED
    BY <2>1, <2>2, <2>3, <2>4 DEF Serve
<1> QED
  BY <1>2 DEF StepsLeft

(* A request takes at most MaxAttempts + 8 steps, whatever the others, the *)
(* network and dcrd do (broadcastTicket, vspAuth, setAltSignAddr).         *)
THEOREM RequestsTerminate == Spec => RequestsAdvance /\ []\A r \in Requests : StepsLeft(r) <= MaxAttempts + 8
<1> DEFINE Advance == \A r \in Requests :
                         /\ Serve(r) => StepsLeft(r)' < StepsLeft(r)
                         /\ pc[r] # "idle" => StepsLeft(r)' <= StepsLeft(r)
           Bounded == \A r \in Requests : StepsLeft(r) <= MaxAttempts + 8
<1>1. ASSUME Inv, Next, NEW r \in Requests, pc[r] # "idle"
      PROVE  StepsLeft(r)' <= StepsLeft(r)
  <2>1. StepsLeft(r) \in Nat
    BY <1>1, StepsLeftNat, BroadcastAssumption
  <2>2. ASSUME NEW q \in Requests, broadcastTicket(q), UNCHANGED altVars
        PROVE  StepsLeft(r)' <= StepsLeft(r)
    <3>1. q # r
      BY <1>1, <2>2 DEF broadcastTicket
    <3> QED
      BY <1>1, <2>1, <2>2, <3>1, OthersStay
  <2>3. ASSUME NEW q \in Requests, Serve(q)
        PROVE  StepsLeft(r)' <= StepsLeft(r)
    <3>1. CASE q = r
      <4>1. Serve(r)
        BY <2>3, <3>1
      <4>2. StepsLeft(r)' \in Nat /\ StepsLeft(r)' < StepsLeft(r)
        BY <1>1, <4>1, ServeAdvances
      <4> QED
        BY <2>1, <4>2
    <3>2. CASE q # r
      BY <1>1, <2>1, <2>3, <3>2, OthersStay
    <3> QED
      BY <3>1, <3>2
  <2>4. CASE Network /\ UNCHANGED altVars
    <3>1. UNCHANGED <<pc, attempts, stage>>
      BY <2>4 DEF Network, Propagate, Relay, Mine, SpendOutputs, Evict, sem, altVars
    <3>2. StepsLeft(r)' = StepsLeft(r)
      BY <3>1 DEF StepsLeft
    <3> QED
      BY <2>1, <3>2
  <2>5. CASE updateUnconfirmed \/ DeleteTicket \/ DeleteAddress
    <3>1. UNCHANGED <<pc, attempts, stage>>
      BY <2>5 DEF updateUnconfirmed, DeleteTicket, DeleteAddress, Alt!DeleteAltSignAddr, broadcastVars, sem, altVars
    <3>2. StepsLeft(r)' = StepsLeft(r)
      BY <3>1 DEF StepsLeft
    <3> QED
      BY <2>1, <3>2
  <2>6. CASE Crash
    <3>1. pc'[r] = "idle"
      BY <2>6 DEF Crash
    <3>2. StepsLeft(r)' = 0
      BY <3>1 DEF StepsLeft
    <3> QED
      BY <2>1, <3>2
  <2> QED
    BY <1>1, <2>2, <2>3, <2>4, <2>5, <2>6 DEF Next
<1>2. Inv /\ [Next]_vars => [Advance]_vars
  BY <1>1, ServeAdvances
<1>3. Inv => Bounded
  BY StepsLeftNat, BroadcastAssumption
<1> QED
  BY <1>2, <1>3, InvAlways, PTL DEF Spec, RequestsAdvance
=============================================================================
