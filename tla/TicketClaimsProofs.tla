------------------------- MODULE TicketClaimsProofs -------------------------
(***************************************************************************)
(* Proof that the ticket lifecycle implements TicketClaims.  The argument: *)
(* a step of handlers or background task writes at most one record and     *)
(* leaves the chain alone; what it writes is sound (TicketLifecycleProofs) *)
(* and so claims only what is shown.  Every other step leaves the database *)
(* alone, and what the chain has shown stays shown.                        *)
(***************************************************************************)
EXTENDS TicketLifecycleProofs

(* A record that agrees with the chain claims in order and only what the   *)
(* chain has shown.                                                        *)
LEMMA SoundClaims ==
    ASSUME NEW t \in Tickets, NEW k \in Ticket,
           FeeFieldsAgree(k), ChainAgrees(tkt, fee, sent, t, k)
    PROVE  Claimed(k) \in Promise!Claimable(t)
<1>1. k # None
  BY NoneAssumption
<1>2. k.FeeTxStatus # "none" => k.FeeTxHash \in FeeTxs
  BY FeeTxKnown
<1>3. Claimed(k) \cap {"final", "feeSent", "feePaid", "spent"} \subseteq ShownOf(t)
  BY <1>1, <1>2 DEF Claimed, ShownOf, ChainAgrees
<1>4. Promise!InOrder(Claimed(k))
  BY <1>1 DEF Promise!InOrder, Claimed, ChainAgrees
<1>5. Claimed(k) \in SUBSET {"feeGiven", "final", "feeSent", "feePaid", "spent"}
  BY <1>1 DEF Claimed
<1> QED
  BY <1>3, <1>4, <1>5 DEF Promise!Claimable, Promise!Facts, Promise!OnChain

(* A step that only changes the chain, or nothing that the promises speak  *)
(* of.                                                                     *)
LEMMA ShowStep ==
    ASSUME \A t \in Tickets : ShownOf(t) \subseteq ShownOf(t)', UNCHANGED <<db, held>>
    PROVE  Promise!Show
<1>1. \A t \in Tickets : ShownOf(t)' \subseteq {"final", "feeSent", "feePaid", "spent"}
  BY DEF ShownOf
<1>2. UNCHANGED <<{t \in Tickets : db[t] # None}, [t \in Tickets |-> Claimed(db[t])],
                  {t \in Tickets : \E w \in Wallets : <<w, t>> \in held}>>
  BY DEF Claimed
<1> HIDE DEF ShownOf
<1> QED
  BY <1>1, <1>2 DEF Promise!Show, Promise!OnChain

-----------------------------------------------------------------------------
(* One write to the database.                                              *)

(* The record of ticket t is replaced, or nothing is written.              *)
LEMMA UpdateStep ==
    ASSUME Inv, Inv', NEW t \in Tickets, NEW k \in Ticket,
           db' = UpdateTicket(db, t, k), UNCHANGED <<tkt, fee, sent>>
    PROVE  \/ UNCHANGED db
           \/ /\ db[t] # None
              /\ {u \in Tickets : db[u] # None}' = {u \in Tickets : db[u] # None}
              /\ \E claim \in Promise!Claimable(t) :
                    [u \in Tickets |-> Claimed(db[u])]' = [[u \in Tickets |-> Claimed(db[u])] EXCEPT ![t] = claim]
<1> SUFFICES ASSUME db' # db
             PROVE  /\ db[t] # None
                    /\ {u \in Tickets : db[u] # None}' = {u \in Tickets : db[u] # None}
                    /\ \E claim \in Promise!Claimable(t) :
                          [u \in Tickets |-> Claimed(db[u])]' = [[u \in Tickets |-> Claimed(db[u])] EXCEPT ![t] = claim]
  OBVIOUS
<1>1. db[t] # None /\ db' = [db EXCEPT ![t] = k]
  BY DEF UpdateTicket
<1>2. db \in [Tickets -> Ticket \cup {None}] /\ k # None
  BY NoneAssumption DEF Inv, TypeOK, TicketBucket
<1>3. db'[t] = k /\ \A u \in Tickets : u # t => db'[u] = db[u]
  BY <1>1, <1>2
<1>4. Claimed(k) \in Promise!Claimable(t)
  <2>1. Sound(owner', tkt', fee', sent', t, k)
    BY <1>2, <1>3 DEF Inv, EveryCopySound, DatabaseOK, RecordOK
  <2> QED BY <2>1, SoundClaims DEF Sound
<1>5. [u \in Tickets |-> Claimed(db[u])]' = [[u \in Tickets |-> Claimed(db[u])] EXCEPT ![t] = Claimed(k)]
  <2>1. \A u \in Tickets : Claimed(db[u])' = Claimed(db'[u])
    BY DEF Claimed
  <2> QED BY <1>3, <2>1
<1> QED BY <1>1, <1>2, <1>3, <1>4, <1>5

(* A record without a fee is inserted, or nothing is written.              *)
LEMMA InsertStep ==
    ASSUME Inv, Inv', NEW t \in Tickets, NEW k \in Ticket, k.FeeTxStatus = "none",
           db' = InsertNewTicket(db, t, k), UNCHANGED <<tkt, fee, sent, held>>
    PROVE  UNCHANGED db \/ Promise!Register(t)
<1> SUFFICES ASSUME db' # db PROVE Promise!Register(t)
  OBVIOUS
<1>1. db[t] = None /\ db' = [db EXCEPT ![t] = k]
  BY DEF InsertNewTicket
<1>2. db \in [Tickets -> Ticket \cup {None}] /\ k # None
  BY NoneAssumption DEF Inv, TypeOK, TicketBucket
<1>3. db'[t] = k /\ \A u \in Tickets : u # t => db'[u] = db[u]
  BY <1>1, <1>2
<1>4. Claimed(k) \in Promise!Claimable(t) /\ "feeGiven" \notin Claimed(k)
  <2>1. Sound(owner', tkt', fee', sent', t, k)
    BY <1>2, <1>3 DEF Inv, EveryCopySound, DatabaseOK, RecordOK
  <2>2. "feeGiven" \notin Claimed(k)
    BY <1>2 DEF Claimed
  <2> QED BY <2>1, <2>2, SoundClaims DEF Sound
<1>5. [u \in Tickets |-> Claimed(db[u])]' = [[u \in Tickets |-> Claimed(db[u])] EXCEPT ![t] = Claimed(k)]
  <2>1. \A u \in Tickets : Claimed(db[u])' = Claimed(db'[u])
    BY DEF Claimed
  <2> QED BY <1>3, <2>1
<1>6. {u \in Tickets : db[u] # None}' = {u \in Tickets : db[u] # None} \cup {t}
  BY <1>2, <1>3
<1>7. UNCHANGED <<[u \in Tickets |-> ShownOf(u)], {u \in Tickets : \E w \in Wallets : <<w, u>> \in held}>>
  BY DEF ShownOf
<1> QED BY <1>1, <1>4, <1>5, <1>6, <1>7 DEF Promise!Register

-----------------------------------------------------------------------------
(* The steps of the lifecycle.                                             *)

(* Handlers, background task and restarts leave the past of the chain as   *)
(* it was; so does the chain.                                              *)
LEMMA WorldAlwaysGrows ==
    ASSUME Inv, Next
    PROVE  \A t \in Tickets : ShownOf(t) \subseteq ShownOf(t)'
<1> SUFFICES ASSUME NEW t \in Tickets PROVE ShownOf(t) \subseteq ShownOf(t)'
  OBVIOUS
<1>1. CASE \E f \in FeeTxs : MoveFee(f)
  <2>1. tkt' = tkt /\ sent' = sent /\ \A f \in FeeTxs : fee[f] = "final" => fee'[f] = "final"
    BY <1>1 DEF MoveFee, Inv, TypeOK
  <2> QED BY <2>1 DEF ShownOf
<1>2. CASE \E u \in Tickets : PublishTicket(u) \/ DropTicket(u) \/ ConfirmTicket(u) \/ SpendTicket(u)
  <2>1. /\ sent' = sent /\ fee' = fee
        /\ tkt[t] \in Final => tkt'[t] \in Final
        /\ tkt[t] \in Spent => tkt'[t] \in Spent
    BY <1>2 DEF PublishTicket, DropTicket, ConfirmTicket, SpendTicket, Inv, TypeOK, Final, Spent
  <2> QED BY <2>1 DEF ShownOf
<1>3. ASSUME NEW u \in Tickets, NEW f, NEW ok \in BOOLEAN, SendRawTransaction(u, f, ok), tkt' = tkt
      PROVE  ShownOf(t) \subseteq ShownOf(t)'
  <2>1. sent \subseteq sent' /\ \A g \in FeeTxs : fee[g] = "final" => fee'[g] = "final"
    BY <1>3 DEF SendRawTransaction, Inv, TypeOK
  <2> QED BY <1>3, <2>1 DEF ShownOf
<1>4. CASE UNCHANGED <<tkt, fee, sent>>
  BY <1>4 DEF ShownOf
<1>5. CASE Chain
  BY <1>1, <1>2, <1>4, <1>5 DEF Chain, Tick, Redial
<1>6. ASSUME NEW r \in Requests, Handler(r) PROVE ShownOf(t) \subseteq ShownOf(t)'
  <2>1. CASE payFeeSend(r)
    <3>1. about[r] \in Tickets
      BY <2>1, HandlerCopy DEF payFeeSend
    <3> QED BY <1>3, <2>1, <3>1 DEF payFeeSend
  <2> QED
    BY <1>4, <1>6, <2>1 DEF Handler, vspAuth, Answer, feeAddressExpired, feeAddressRenew, feeAddressNew,
       feeAddressInsert, payFee, payFeeStore, payFeeRecordSend, payFeeRespond,
       setVoteChoices, setVoteChoicesStore, setVoteChoicesWallets, chain
<1>7. CASE updateUnconfirmed \/ checkWalletConsistency \/ Restart
  BY <1>4, <1>7 DEF updateUnconfirmed, checkWalletConsistency, Restart, chain
<1>8. CASE TaskStep
  <2>1. ASSUME NEW u \in Tickets, pendingFee(u) PROVE ShownOf(t) \subseteq ShownOf(t)'
    BY <1>3, <2>1 DEF pendingFee
  <2> QED
    BY <1>4, <1>8, <2>1
    DEF TaskStep, unconfirmedTicket, unconfirmedFee, writeOutcome, unconfirmedDelete, writeBack,
        feeWriteBack, broadcastFees, addToWallets, setOutcomes, findSpentTickets, updateDone,
        addTicketForVoting, ticketAdded, addMissing, fixChoices, addMissingDone, consistencyDone, chain
<1> QED BY <1>5, <1>6, <1>7, <1>8 DEF Next

(* A ticket is deleted: it is not final, so its fee was never broadcast.   *)
LEMMA DeleteStep ==
    ASSUME Inv, NEW t \in Tickets, t = cur, unconfirmedDelete
    PROVE  UNCHANGED db \/ Promise!Delete(t)
<1> SUFFICES ASSUME db' # db PROVE Promise!Delete(t)
  OBVIOUS
<1>1. /\ tkt[t] \notin Final /\ NoEarlyBroadcast
      /\ db' = [db EXCEPT ![t] = None] /\ db \in [Tickets -> Ticket \cup {None}]
  BY DEF unconfirmedDelete, Working, DeleteTicket, Inv, EveryCopySound, CurrentOK, TypeOK, TicketBucket
<1>2. db[t] # None /\ db'[t] = None /\ \A u \in Tickets : u # t => db'[u] = db[u]
  BY <1>1
<1>3. "feeSent" \notin ShownOf(t)
  BY <1>1 DEF ShownOf, NoEarlyBroadcast
<1>4. [u \in Tickets |-> Claimed(db[u])]' = [[u \in Tickets |-> Claimed(db[u])] EXCEPT ![t] = {}]
  <2>1. \A u \in Tickets : Claimed(db[u])' = Claimed(db'[u])
    BY DEF Claimed
  <2>2. Claimed(None) = {}
    BY DEF Claimed
  <2> QED BY <1>1, <1>2, <2>1, <2>2
<1>5. {u \in Tickets : db[u] # None}' = {u \in Tickets : db[u] # None} \ {t}
  BY <1>1, <1>2
<1>6. UNCHANGED <<[u \in Tickets |-> ShownOf(u)], {u \in Tickets : \E w \in Wallets : <<w, u>> \in held}>>
  BY DEF unconfirmedDelete, chain, wallets, ShownOf
<1> QED BY <1>1, <1>2, <1>3, <1>4, <1>5, <1>6 DEF Promise!Delete

(* A wallet is given a ticket whose fee is paid.                           *)
LEMMA VoteStep ==
    ASSUME Inv, Inv', NEW w \in Wallets, NEW t \in Tickets, batch[t] # None,
           batch[t].FeeTxStatus = "confirmed",
           held' = held \cup {<<w, t>>}, UNCHANGED <<tkt, fee, sent>>,
           UNCHANGED db \/ removeAgenda(t)
    PROVE  Promise!Vote(t)
<1>1. batch[t] \in Ticket /\ Sound(owner, tkt, fee, sent, t, batch[t])
  BY ListedCopy
<1>2. "feePaid" \in ShownOf(t)
  BY <1>1, FeeTxKnown DEF Sound, ChainAgrees, ShownOf
<1>3. {u \in Tickets : \E v \in Wallets : <<v, u>> \in held}'
         = {u \in Tickets : \E v \in Wallets : <<v, u>> \in held} \cup {t}
  OBVIOUS
<1>4. UNCHANGED [u \in Tickets |-> ShownOf(u)]
  BY DEF ShownOf
<1>5. \/ UNCHANGED <<[u \in Tickets |-> Claimed(db[u])], {u \in Tickets : db[u] # None}>>
      \/ /\ db[t] # None
         /\ {u \in Tickets : db[u] # None}' = {u \in Tickets : db[u] # None}
         /\ \E claim \in Promise!Claimable(t) :
               [u \in Tickets |-> Claimed(db[u])]' = [[u \in Tickets |-> Claimed(db[u])] EXCEPT ![t] = claim]
  <2>1. CASE UNCHANGED db
    BY <2>1 DEF Claimed
  <2>2. CASE removeAgenda(t)
    <3> DEFINE k == [batch[t] EXCEPT !.VoteChoices = None]
    <3>1. k \in Ticket
      BY <1>1, SoundChoice
    <3>2. db' = UpdateTicket(db, t, k)
      BY <2>2 DEF removeAgenda
    <3> HIDE DEF k
    <3>3. \/ UNCHANGED db
          \/ /\ db[t] # None
             /\ {u \in Tickets : db[u] # None}' = {u \in Tickets : db[u] # None}
             /\ \E claim \in Promise!Claimable(t) :
                   [u \in Tickets |-> Claimed(db[u])]' = [[u \in Tickets |-> Claimed(db[u])] EXCEPT ![t] = claim]
      BY <3>1, <3>2, UpdateStep
    <3> QED BY <2>1, <3>3
  <2> QED BY <2>1, <2>2
<1> QED BY <1>2, <1>3, <1>4, <1>5 DEF Promise!Vote

(* Ticket t's record is replaced and nothing else that the promises speak  *)
(* of changes.                                                             *)
LEMMA WriteStep ==
    ASSUME Inv, Inv', Next, NEW t \in Tickets, NEW k \in Ticket,
           db' = UpdateTicket(db, t, k), UNCHANGED <<tkt, fee, sent, held>>
    PROVE  Promise!Next
<1>1. CASE UNCHANGED db
  <2>1. Promise!Show
    BY <1>1, WorldAlwaysGrows, ShowStep
  <2> QED BY <2>1 DEF Promise!Next
<1>2. CASE ~UNCHANGED db
  <2>1. UNCHANGED <<[u \in Tickets |-> ShownOf(u)], {u \in Tickets : \E w \in Wallets : <<w, u>> \in held}>>
    BY DEF ShownOf
  <2>2. Promise!Update(t)
    BY <1>2, <2>1, UpdateStep DEF Promise!Update
  <2> QED BY <2>2 DEF Promise!Next
<1> QED BY <1>1, <1>2

(* Every step of a handler is a step of the promises.                      *)
LEMMA HandlerMaps ==
    ASSUME Inv, Inv', Next, NEW r \in Requests, Handler(r)
    PROVE  Promise!Next
<1>1. CASE UNCHANGED <<db, held>>
  BY <1>1, WorldAlwaysGrows, ShowStep DEF Promise!Next
<1>2. CASE /\ pc[r] \in {"renew", "storeFee", "recordSend", "storeChoices"}
           /\ db' = UpdateTicket(db, about[r], snap[r])
           /\ UNCHANGED <<tkt, fee, sent, held>>
  <2>1. about[r] \in Tickets /\ snap[r] \in Ticket
    BY <1>2, HandlerCopy DEF Ready
  <2> QED BY <1>2, <2>1, WriteStep
<1>3. CASE feeAddressInsert(r)
  <2>1. /\ about[r] \in Tickets /\ snap[r] \in Ticket /\ snap[r].FeeTxStatus = "none"
        /\ db' = InsertNewTicket(db, about[r], snap[r]) /\ UNCHANGED <<tkt, fee, sent, held>>
    BY <1>3, HandlerCopy DEF feeAddressInsert, Ready, chain, wallets
  <2>2. PICK t \in Tickets, k \in Ticket :
           k.FeeTxStatus = "none" /\ db' = InsertNewTicket(db, t, k)
    BY <2>1
  <2>3. UNCHANGED db \/ Promise!Register(t)
    BY <2>1, <2>2, InsertStep
  <2> QED BY <1>1, <2>1, <2>3 DEF Promise!Next
<1> QED
  BY <1>1, <1>2, <1>3
  DEF Handler, vspAuth, Answer, feeAddressExpired, feeAddressRenew, feeAddressNew,
      payFee, payFeeStore, payFeeSend, payFeeRecordSend, payFeeRespond,
      setVoteChoices, setVoteChoicesStore, setVoteChoicesWallets, chain, wallets

(* Every step of the background task is a step of the promises.            *)
LEMMA TaskMaps ==
    ASSUME Inv, Inv', Next, TaskStep
    PROVE  Promise!Next
<1>1. CASE UNCHANGED <<db, held>>
  BY <1>1, WorldAlwaysGrows, ShowStep DEF Promise!Next
<1>2. CASE unconfirmedDelete
  <2>1. PICK t \in Tickets : t = cur
    BY <1>2 DEF unconfirmedDelete, Working, Inv, EveryCopySound, CurrentOK
  <2>2. UNCHANGED db \/ Promise!Delete(t)
    BY <1>2, <2>1, DeleteStep
  <2>3. UNCHANGED held
    BY <1>2 DEF unconfirmedDelete, wallets
  <2> QED BY <1>1, <2>2, <2>3 DEF Promise!Next
<1>3. CASE writeBack \/ feeWriteBack
  <2>1. /\ cur \in Tickets /\ batch[cur] # None /\ db' = UpdateTicket(db, cur, batch[cur])
        /\ UNCHANGED <<tkt, fee, sent, held>>
    BY <1>3 DEF writeBack, feeWriteBack, Working, Inv, EveryCopySound, CurrentOK, chain, wallets
  <2> QED BY <2>1, ListedCopy, WriteStep
<1>4. ASSUME NEW t \in Tickets, writeOutcome(t) PROVE Promise!Next
  <2>1. batch[t] # None /\ db' = UpdateTicket(db, t, batch[t]) /\ UNCHANGED <<tkt, fee, sent, held>>
    BY <1>4 DEF writeOutcome, chain, wallets
  <2> QED BY <2>1, ListedCopy, WriteStep
<1>5. ASSUME NEW w \in Wallets, addTicketForVoting(w) PROVE Promise!Next
  <2>1. /\ cur \in Tickets /\ batch[cur] # None /\ batch[cur].FeeTxStatus = "confirmed"
        /\ UNCHANGED <<tkt, fee, sent>>
    BY <1>5 DEF addTicketForVoting, Working, Inv, EveryCopySound, CurrentOK, chain
  <2>2. \/ UNCHANGED <<db, held>>
        \/ held' = held \cup {<<w, cur>>} /\ (UNCHANGED db \/ removeAgenda(cur))
    BY <1>5 DEF addTicketForVoting, SetVoteChoice
  <2>3. CASE held' = held \cup {<<w, cur>>} /\ (UNCHANGED db \/ removeAgenda(cur))
    <3>1. PICK t \in Tickets : t = cur
      BY <2>1
    <3>2. Promise!Vote(t)
      BY <2>1, <2>3, <3>1, VoteStep
    <3> QED BY <3>2 DEF Promise!Next
  <2> QED BY <1>1, <2>2, <2>3
<1>6. ASSUME NEW w \in Wallets, NEW t \in Tickets, addMissing(w, t) PROVE Promise!Next
  <2>1. /\ batch[t] # None /\ batch[t].FeeTxStatus = "confirmed"
        /\ UNCHANGED <<tkt, fee, sent, db>>
    <3>1. <<w, t>> \in todo
      BY <1>6 DEF addMissing
    <3>2. batch[t] # None /\ batch[t].FeeTxStatus = "confirmed"
      BY <3>1 DEF Inv, EveryCopySound, TodoOK
    <3> QED BY <1>6, <3>2 DEF addMissing, chain
  <2>2. UNCHANGED held \/ held' = held \cup {<<w, t>>}
    BY <1>6 DEF addMissing
  <2>3. CASE held' = held \cup {<<w, t>>}
    <3>1. Promise!Vote(t)
      BY <2>1, <2>3, VoteStep
    <3> QED BY <3>1 DEF Promise!Next
  <2> QED BY <1>1, <2>1, <2>2, <2>3
<1>7. ASSUME NEW w \in Wallets, NEW t \in Tickets, fixChoices(w, t) PROVE Promise!Next
  <2>1. batch[t] # None /\ UNCHANGED <<tkt, fee, sent, held>>
    <3>1. <<w, t>> \in todo
      BY <1>7 DEF fixChoices
    <3>2. batch[t] # None
      BY <3>1 DEF Inv, EveryCopySound, TodoOK
    <3> QED BY <1>7, <3>2 DEF fixChoices, chain
  <2>2. UNCHANGED db \/ removeAgenda(t)
    BY <1>7 DEF fixChoices, SetVoteChoice
  <2>3. CASE removeAgenda(t)
    <3> DEFINE k == [batch[t] EXCEPT !.VoteChoices = None]
    <3>1. k \in Ticket
      BY <2>1, ListedCopy, SoundChoice
    <3>2. db' = UpdateTicket(db, t, k)
      BY <2>3 DEF removeAgenda
    <3> HIDE DEF k
    <3> QED BY <2>1, <3>1, <3>2, WriteStep
  <2> QED BY <1>1, <2>1, <2>2, <2>3
<1> QED
  BY <1>1, <1>2, <1>3, <1>4, <1>5, <1>6, <1>7
  DEF TaskStep, unconfirmedTicket, pendingFee, unconfirmedFee, broadcastFees, addToWallets,
      setOutcomes, findSpentTickets, updateDone, ticketAdded, addMissingDone, consistencyDone, wallets

(* However handlers, background task, chain, failures and restarts         *)
(* interleave, the lifecycle keeps what TicketClaims promises.             *)
THEOREM PromisesKept == Spec => KeepsPromises
<1>1. Init => Promise!Init
  <2> SUFFICES ASSUME Init PROVE Promise!Init
    OBVIOUS
  <2>1. \A t \in Tickets : db[t] = None
    BY DEF Init, NoTickets
  <2>2. [t \in Tickets |-> Claimed(db[t])] = [t \in Tickets |-> {}]
    BY <2>1 DEF Claimed
  <2>3. [t \in Tickets |-> ShownOf(t)] = [t \in Tickets |-> {}]
    BY DEF Init, ShownOf, Final, Spent
  <2>4. {t \in Tickets : \E w \in Wallets : <<w, t>> \in held} = {}
    BY DEF Init
  <2> QED BY <2>1, <2>2, <2>3, <2>4 DEF Promise!Init
<1>2. Inv /\ Inv' /\ [Next]_vars => [Promise!Next]_(Promise!promises)
  <2> SUFFICES ASSUME Inv, Inv', Next PROVE Promise!Next
    <3>1. UNCHANGED vars => UNCHANGED Promise!promises
      BY DEF vars, chain, wallets, Promise!promises, Claimed, ShownOf
    <3> QED BY <3>1
  <2>1. CASE Chain \/ updateUnconfirmed \/ checkWalletConsistency \/ Restart
    <3>1. UNCHANGED <<db, held>>
      BY <2>1 DEF Chain, PublishTicket, DropTicket, ConfirmTicket, SpendTicket, MoveFee, Tick, Redial,
                  updateUnconfirmed, checkWalletConsistency, Restart, wallets
    <3> QED BY <3>1, WorldAlwaysGrows, ShowStep DEF Promise!Next
  <2> QED BY <2>1, HandlerMaps, TaskMaps DEF Next
<1> QED BY <1>1, <1>2, Soundness, PTL DEF Spec, KeepsPromises, Promise!Spec
=============================================================================
