------------------------ MODULE TicketLifecycleProofs ------------------------
(***************************************************************************)
(* Proofs that the ticket lifecycle keeps its safety properties for every  *)
(* set of tickets, fee transactions, handlers and wallets and for every    *)
(* value of the bounds.                                                    *)
(*                                                                         *)
(* The argument.  A stored record may be overwritten by a copy that was    *)
(* read long before.  That is harmless for the properties below because    *)
(* what a sound record says stays true: fee addresses keep their ticket, a *)
(* final ticket stays final, a spent one stays as it was spent, a          *)
(* confirmed fee stays confirmed and what was sent was sent (Grows).  So a *)
(* copy that was sound when it was read is sound when it is written back   *)
(* (RecordStays), and it only remains to show that every change a handler  *)
(* or the background task makes to its copy gives a sound record again.    *)
(***************************************************************************)
EXTENDS TicketLifecycle, TLAPS

Inv == TypeOK /\ EveryCopySound

(* What never changes back: from the first state of the world to the       *)
(* second one.                                                             *)
Grows(ow, tk, fe, se, ow2, tk2, fe2, se2) ==
    /\ \A a \in 1 .. MaxAddr : ow[a] # None => ow2[a] = ow[a]
    /\ \A t \in Tickets : tk[t] \in Final => tk2[t] \in Final
    /\ \A t \in Tickets : tk[t] \in Spent => tk2[t] = tk[t]
    /\ \A f \in FeeTxs : fe[f] = "final" => fe2[f] = "final"
    /\ se \subseteq se2

WorldGrows == Grows(owner, tkt, fee, sent, owner', tkt', fee', sent')

-----------------------------------------------------------------------------
(* Sound records.                                                          *)

(* A record with a fee transaction names one of the fee transactions.      *)
LEMMA FeeTxKnown ==
    ASSUME NEW k \in Ticket, FeeFieldsAgree(k), k.FeeTxStatus # "none"
    PROVE  /\ k.FeeTxHash \in FeeTxs
           /\ k.FeeTxStatus \in {"received", "broadcast"} => k.FeeTxHex \in FeeTxs
  BY DEF FeeFieldsAgree, Ticket

(* A record that is sound now is sound after every step.                   *)
LEMMA RecordStays ==
    ASSUME NEW ow, NEW tk, NEW fe, NEW se, NEW ow2, NEW tk2, NEW fe2, NEW se2,
           Grows(ow, tk, fe, se, ow2, tk2, fe2, se2),
           NEW t \in Tickets, NEW k \in Ticket,
           Sound(ow, tk, fe, se, t, k)
    PROVE  Sound(ow2, tk2, fe2, se2, t, k)
<1>1. OwnAddress(ow2, t, k)
  BY NoneAssumption DEF Sound, OwnAddress, Grows
<1>2. k.FeeTxStatus # "none" => k.FeeTxHash \in FeeTxs
  BY FeeTxKnown DEF Sound
<1>3. ChainAgrees(tk2, fe2, se2, t, k)
  BY <1>2 DEF Sound, ChainAgrees, Grows, Final, Spent
<1> QED BY <1>1, <1>3 DEF Sound

(* updateUnconfirmed: the ticket of the record is final.                   *)
LEMMA SoundConfirmed ==
    ASSUME NEW ow, NEW tk, NEW fe, NEW se, NEW t \in Tickets, NEW k \in Ticket,
           Sound(ow, tk, fe, se, t, k), tk[t] \in Final
    PROVE  LET n == [k EXCEPT !.Confirmed = TRUE]
           IN  n \in Ticket /\ Sound(ow, tk, fe, se, t, n)
  BY DEF Sound, OwnAddress, FeeFieldsAgree, ChainAgrees, Ticket, FeeInHand

(* setVoteChoices, and removal of an agenda.                               *)
LEMMA SoundChoice ==
    ASSUME NEW ow, NEW tk, NEW fe, NEW se, NEW t \in Tickets, NEW k \in Ticket,
           Sound(ow, tk, fe, se, t, k), NEW c \in Choices \cup {None}
    PROVE  LET n == [k EXCEPT !.VoteChoices = c]
           IN  /\ n \in Ticket /\ Sound(ow, tk, fe, se, t, n)
               /\ n.FeeTxStatus = k.FeeTxStatus /\ n.Confirmed = k.Confirmed
  BY DEF Sound, OwnAddress, FeeFieldsAgree, ChainAgrees, Ticket, FeeInHand

(* payFee and broadcastFees: the fee transaction was passed to dcrd.       *)
LEMMA SoundSent ==
    ASSUME NEW ow, NEW tk, NEW fe, NEW se, NEW t \in Tickets, NEW k \in Ticket,
           Sound(ow, tk, fe, se, t, k), isPendingFee(k),
           <<t, k.FeeTxHex>> \in se, NEW ok \in BOOLEAN
    PROVE  LET n == AfterSend(k, ok)
           IN  n \in Ticket /\ Sound(ow, tk, fe, se, t, n) /\ n.FeeTxStatus \in {"broadcast", "error"}
  BY DEF Sound, OwnAddress, FeeFieldsAgree, ChainAgrees, Ticket, FeeInHand, FeeStatus, isPendingFee, AfterSend

(* addToWallets: the fee transaction could not be found.                   *)
LEMMA SoundFailed ==
    ASSUME NEW ow, NEW tk, NEW fe, NEW se, NEW t \in Tickets, NEW k \in Ticket,
           Sound(ow, tk, fe, se, t, k), isUnconfirmedFee(k)
    PROVE  LET n == [k EXCEPT !.FeeTxStatus = "error"]
           IN  n \in Ticket /\ Sound(ow, tk, fe, se, t, n) /\ n.FeeTxStatus = "error"
  BY DEF Sound, OwnAddress, FeeFieldsAgree, ChainAgrees, Ticket, FeeInHand, FeeStatus, isUnconfirmedFee

(* addToWallets: the fee transaction is confirmed.                         *)
LEMMA SoundPaid ==
    ASSUME NEW ow, NEW tk, NEW fe, NEW se, NEW t \in Tickets, NEW k \in Ticket,
           Sound(ow, tk, fe, se, t, k), isUnconfirmedFee(k), fe[k.FeeTxHash] = "final"
    PROVE  LET n == [k EXCEPT !.FeeTxHex = None, !.FeeTxStatus = "confirmed"]
           IN  n \in Ticket /\ Sound(ow, tk, fe, se, t, n) /\ n.FeeTxStatus = "confirmed"
  BY DEF Sound, OwnAddress, FeeFieldsAgree, ChainAgrees, Ticket, FeeInHand, FeeStatus, isUnconfirmedFee

(* setOutcomes: the ticket is spent.                                       *)
LEMMA SoundOutcome ==
    ASSUME NEW ow, NEW tk, NEW fe, NEW se, NEW t \in Tickets, NEW k \in Ticket,
           Sound(ow, tk, fe, se, t, k), k.FeeTxStatus = "confirmed", tk[t] \in Spent,
           NEW revoked \in {"missed", "expired"}
    PROVE  LET n == WithOutcome(k, tk[t], revoked)
           IN  n \in Ticket /\ Sound(ow, tk, fe, se, t, n)
  BY DEF Sound, OwnAddress, FeeFieldsAgree, ChainAgrees, Ticket, FeeInHand, TicketOutcome, WithOutcome

(* feeAddress: a new fee is quoted for a record without a fee in hand.     *)
LEMMA SoundRenewed ==
    ASSUME NEW ow, NEW tk, NEW fe, NEW se, NEW t \in Tickets, NEW k \in Ticket,
           Sound(ow, tk, fe, se, t, k), ~feeReceived(k), NEW e \in Nat, NEW a \in Nat \ {0}
    PROVE  LET n == [k EXCEPT !.FeeExpiration = e, !.FeeAmount = a]
           IN  n \in Ticket /\ Sound(ow, tk, fe, se, t, n)
<1> DEFINE n == [k EXCEPT !.FeeExpiration = e, !.FeeAmount = a]
<1>1. /\ n \in Ticket /\ n.FeeAmount = a /\ n.FeeAddress = k.FeeAddress
      /\ n.Confirmed = k.Confirmed /\ n.VotingWIF = k.VotingWIF
      /\ n.FeeTxHex = k.FeeTxHex /\ n.FeeTxHash = k.FeeTxHash
      /\ n.FeeTxStatus = k.FeeTxStatus /\ n.Outcome = k.Outcome
  BY DEF Ticket
<1> HIDE DEF n
<1>2. OwnAddress(ow, t, n) /\ ChainAgrees(tk, fe, se, t, n)
  BY <1>1 DEF Sound, OwnAddress, ChainAgrees
<1>3. n.FeeAmount > 0
  BY <1>1
<1>4. n.FeeTxStatus \notin FeeInHand
  BY <1>1 DEF feeReceived, FeeInHand
<1>5. FeeFieldsAgree(n)
  BY <1>1, <1>3, <1>4, Zenon DEF Sound, FeeFieldsAgree
<1> QED BY <1>1, <1>2, <1>5, Zenon DEF Sound, n

(* feeAddress: the record of a new ticket.                                 *)
LEMMA SoundNew ==
    ASSUME NEW ow, NEW tk, NEW fe, NEW se, NEW t \in Tickets,
           now \in Nat, FeeLifetime \in Nat,
           NEW addr \in 1 .. MaxAddr, ow[addr] = t, NEW a \in Nat \ {0},
           NEW conf \in BOOLEAN, conf => tk[t] \in Final
    PROVE  LET n == NewTicket(addr, a, conf)
           IN  n \in Ticket /\ Sound(ow, tk, fe, se, t, n)
  BY ConstantsAssumption DEF Sound, OwnAddress, FeeFieldsAgree, ChainAgrees, Ticket, FeeInHand, FeeStatus, TicketOutcome, NewTicket

(* payFee: a fee transaction that pays the quoted fee was received.        *)
LEMMA SoundReceived ==
    ASSUME NEW ow, NEW tk, NEW fe, NEW se, NEW t \in Tickets, NEW k \in Ticket,
           Sound(ow, tk, fe, se, t, k), ~feeReceived(k),
           NEW f \in FeeTxs, Payment[f][k.FeeAddress] >= k.FeeAmount,
           NEW c \in Choices \cup {None}
    PROVE  LET n == PaidBy(k, f, c)
           IN  n \in Ticket /\ Sound(ow, tk, fe, se, t, n) /\ n.FeeTxStatus = "received"
  BY NoneAssumption DEF Sound, OwnAddress, FeeFieldsAgree, ChainAgrees, Ticket, FeeInHand, FeeStatus, feeReceived, PaidBy

-----------------------------------------------------------------------------
(* Parts of the invariant that a step preserves because it changes no more *)
(* than one copy of one record.                                            *)

(* No change to the world is a growth of the world.                        *)
LEMMA SameWorld ==
    ASSUME UNCHANGED <<owner, tkt, fee, sent>> PROVE WorldGrows
  BY DEF WorldGrows, Grows

(* One write to the ticket bucket.                                         *)
LEMMA DatabaseWrite ==
    ASSUME Inv, WorldGrows, NEW t \in Tickets, NEW k \in Ticket,
           Sound(owner', tkt', fee', sent', t, k),
           \/ db' = UpdateTicket(db, t, k)
           \/ db' = InsertNewTicket(db, t, k)
    PROVE  db' \in TicketBucket /\ DatabaseOK'
<1>1. db' \in TicketBucket /\ \A u \in Tickets : db'[u] = db[u] \/ (u = t /\ db'[u] = k)
  <2>1. db \in TicketBucket
    BY DEF Inv, TypeOK
  <2>2. db' = db \/ db' = [db EXCEPT ![t] = k]
    BY Zenon DEF UpdateTicket, InsertNewTicket
  <2>3. CASE db' = db
    BY <2>1, <2>3
  <2>4. CASE db' = [db EXCEPT ![t] = k]
    BY <2>1, <2>4 DEF TicketBucket
  <2> QED BY <2>2, <2>3, <2>4
<1>2. ASSUME NEW u \in Tickets, db'[u] # None PROVE Sound(owner', tkt', fee', sent', u, db'[u])
  <2>1. CASE u = t /\ db'[u] = k
    BY <2>1
  <2>2. CASE db'[u] = db[u]
    <3>1. db[u] \in Ticket /\ Sound(owner, tkt, fee, sent, u, db[u])
      BY <1>2, <2>2 DEF Inv, TypeOK, TicketBucket, EveryCopySound, DatabaseOK, RecordOK
    <3> QED BY <2>2, <3>1, RecordStays DEF WorldGrows
  <2> QED BY <1>1, <2>1, <2>2
<1> QED BY <1>1, <1>2 DEF DatabaseOK, RecordOK

(* No write to the ticket bucket: the records stay sound while the world   *)
(* grows.                                                                  *)
LEMMA DatabaseStays ==
    ASSUME Inv, WorldGrows, UNCHANGED db
    PROVE  db' \in TicketBucket /\ DatabaseOK'
<1>1. ASSUME NEW u \in Tickets, db[u] # None PROVE Sound(owner', tkt', fee', sent', u, db[u])
  <2>1. db[u] \in Ticket /\ Sound(owner, tkt, fee, sent, u, db[u])
    BY <1>1 DEF Inv, TypeOK, TicketBucket, EveryCopySound, DatabaseOK, RecordOK
  <2> QED BY <2>1, RecordStays DEF WorldGrows
<1> QED BY <1>1 DEF DatabaseOK, RecordOK, Inv, TypeOK

(* A step of one handler leaves the others alone.                          *)
LEMMA OneHandler ==
    ASSUME Inv, WorldGrows, NEW r \in Requests, HandlerOK(r)',
           \A s \in Requests \ {r} :
              pc'[s] = pc[s] /\ about'[s] = about[s] /\ snap'[s] = snap[s]
    PROVE  HandlersOK'
<1> SUFFICES ASSUME NEW s \in Requests PROVE HandlerOK(s)'
  BY DEF HandlersOK
<1>1. CASE s # r
  <2>1. pc'[s] = pc[s] /\ about'[s] = about[s] /\ snap'[s] = snap[s]
    BY <1>1
  <2>2. snap[s] # None => snap[s] \in Ticket
    BY DEF Inv, TypeOK
  <2>3. HandlerOK(s)
    BY DEF Inv, EveryCopySound, HandlersOK
  <2>4. snap[s] # None => Sound(owner', tkt', fee', sent', about[s], snap[s])
    BY <2>2, <2>3, RecordStays DEF HandlerOK, RecordOK, WorldGrows
  <2> QED BY <2>1, <2>3, <2>4 DEF HandlerOK, RecordOK
<1> QED BY <1>1

(* No step of a handler: the copies in flight stay sound while the world   *)
(* grows.                                                                  *)
LEMMA HandlersStay ==
    ASSUME Inv, WorldGrows, UNCHANGED web
    PROVE  HandlersOK'
<1> SUFFICES ASSUME NEW s \in Requests PROVE HandlerOK(s)'
  BY DEF HandlersOK
<1>1. snap[s] # None => snap[s] \in Ticket
  BY DEF Inv, TypeOK
<1>2. HandlerOK(s)
  BY DEF Inv, EveryCopySound, HandlersOK
<1>3. snap[s] # None => Sound(owner', tkt', fee', sent', about[s], snap[s])
  BY <1>1, <1>2, RecordStays DEF HandlerOK, RecordOK, WorldGrows
<1> QED BY <1>2, <1>3 DEF HandlerOK, RecordOK, web

(* The background task's copies stay sound while it does not move.         *)
LEMMA TaskStays ==
    ASSUME Inv, WorldGrows, UNCHANGED task, step = "delete" => tkt'[cur] \notin Final
    PROVE  CopiesOK' /\ CurrentOK' /\ TodoOK'
<1>1. ASSUME NEW u \in Tickets, batch[u] # None PROVE Sound(owner', tkt', fee', sent', u, batch[u])
  <2>1. batch[u] \in Ticket /\ Sound(owner, tkt, fee, sent, u, batch[u])
    BY <1>1 DEF Inv, TypeOK, TicketBucket, EveryCopySound, CopiesOK, RecordOK
  <2> QED BY <2>1, RecordStays DEF WorldGrows
<1>2. CopiesOK'
  BY <1>1 DEF Inv, EveryCopySound, CopiesOK, RecordOK, task
<1>3. CurrentOK' /\ TodoOK'
  BY DEF Inv, EveryCopySound, CurrentOK, TodoOK, task
<1> QED BY <1>2, <1>3

(* A fee transaction that paid for a held ticket goes on paying for it, and *)
(* what was sent was sent for a final ticket.                              *)
LEMMA LedgerStays ==
    ASSUME Inv, WorldGrows, UNCHANGED <<lastAddr, owner, sent, held>>
    PROVE  AddressesOK' /\ NoEarlyBroadcast' /\ HeldTicketsPaid'
<1>1. AddressesOK'
  BY DEF Inv, EveryCopySound, AddressesOK
<1>2. NoEarlyBroadcast'
  BY DEF Inv, EveryCopySound, TypeOK, NoEarlyBroadcast, WorldGrows, Grows
<1>3. HeldTicketsPaid'
  BY DEF Inv, EveryCopySound, HeldTicketsPaid, WorldGrows, Grows
<1> QED BY <1>1, <1>2, <1>3

-----------------------------------------------------------------------------
(* Steps of the handlers.                                                  *)

(* What a handler at label p has established about its copy k.             *)
Ready(p, k) ==
    /\ p \notin {"idle", "feeAddress", "payFee", "setVoteChoices"} => k # None
    /\ p = "insert" => k.FeeTxStatus = "none"
    /\ p \in {"storeFee", "sendFee"} => k.FeeTxStatus = "received"
    /\ p = "sendFee" => k.Confirmed
    /\ p \in {"recordSend", "respond"} => k.FeeTxStatus # "none"

(* Handler r moves to label p with copy k.                                 *)
LEMMA HandlerMoves ==
    ASSUME Inv, WorldGrows, NEW r \in Requests,
           NEW p \in PCs, NEW a \in Tickets \cup {None}, NEW k \in Ticket \cup {None},
           pc' = [pc EXCEPT ![r] = p], about' = [about EXCEPT ![r] = a], snap' = [snap EXCEPT ![r] = k],
           p # "idle" => a \in Tickets,
           k # None => a \in Tickets /\ Sound(owner', tkt', fee', sent', a, k),
           Ready(p, k)
    PROVE  /\ pc' \in [Requests -> PCs]
           /\ about' \in [Requests -> Tickets \cup {None}]
           /\ snap' \in [Requests -> Ticket \cup {None}]
           /\ HandlersOK'
<1>1. /\ pc \in [Requests -> PCs]
      /\ about \in [Requests -> Tickets \cup {None}]
      /\ snap \in [Requests -> Ticket \cup {None}]
  BY DEF Inv, TypeOK
<1>2. /\ pc' \in [Requests -> PCs]
      /\ about' \in [Requests -> Tickets \cup {None}]
      /\ snap' \in [Requests -> Ticket \cup {None}]
      /\ pc'[r] = p /\ about'[r] = a /\ snap'[r] = k
      /\ \A s \in Requests \ {r} : pc'[s] = pc[s] /\ about'[s] = about[s] /\ snap'[s] = snap[s]
  BY <1>1
<1>3. HandlerOK(r)'
  BY <1>2 DEF HandlerOK, RecordOK, Ready
<1> QED BY <1>2, <1>3, OneHandler

(* The same for a step that writes nothing but the database.               *)
LEMMA HandlerStep ==
    ASSUME Inv, NEW r \in Requests,
           NEW p \in PCs, NEW a \in Tickets \cup {None}, NEW k \in Ticket \cup {None},
           pc' = [pc EXCEPT ![r] = p], about' = [about EXCEPT ![r] = a], snap' = [snap EXCEPT ![r] = k],
           p # "idle" => a \in Tickets,
           k # None => a \in Tickets /\ Sound(owner, tkt, fee, sent, a, k),
           Ready(p, k),
           UNCHANGED <<lastAddr, owner, chain, task, held, sent, faults>>,
           db' \in TicketBucket, DatabaseOK',
           pref' \in [Wallets \X Tickets -> Choices \cup {None}],
           acked' \in [Tickets -> SUBSET FeeTxs], calls' \in 0 .. MaxRequests
    PROVE  Inv'
<1>1. WorldGrows /\ tkt' = tkt /\ fee' = fee /\ now' = now /\ subscribed' = subscribed
  BY SameWorld DEF chain
<1>2. /\ pc' \in [Requests -> PCs]
      /\ about' \in [Requests -> Tickets \cup {None}]
      /\ snap' \in [Requests -> Ticket \cup {None}]
      /\ HandlersOK'
  BY <1>1, HandlerMoves
<1>3. CopiesOK' /\ CurrentOK' /\ TodoOK'
  BY <1>1, TaskStays DEF Inv, EveryCopySound, CurrentOK
<1>4. AddressesOK' /\ NoEarlyBroadcast' /\ HeldTicketsPaid'
  BY <1>1, LedgerStays
<1>5. TypeOK'
  BY <1>1, <1>2 DEF Inv, TypeOK, task
<1> QED BY <1>2, <1>3, <1>4, <1>5 DEF Inv, EveryCopySound

(* A handler that is at work knows its ticket and holds a sound copy.      *)
LEMMA HandlerCopy ==
    ASSUME Inv, NEW r \in Requests, pc[r] # "idle"
    PROVE  /\ about[r] \in Tickets
           /\ snap[r] # None => snap[r] \in Ticket /\ Sound(owner, tkt, fee, sent, about[r], snap[r])
           /\ Ready(pc[r], snap[r])
  BY DEF Inv, TypeOK, EveryCopySound, HandlersOK, HandlerOK, RecordOK, Ready

(* The handler answers and its goroutine ends.                             *)
LEMMA HandlerEnds ==
    ASSUME Inv, NEW r \in Requests, Done(r),
           UNCHANGED <<lastAddr, owner, chain, task, held, sent, calls, faults>>,
           db' \in TicketBucket, DatabaseOK',
           pref' \in [Wallets \X Tickets -> Choices \cup {None}],
           acked' \in [Tickets -> SUBSET FeeTxs]
    PROVE  Inv'
<1>1. "idle" \in PCs /\ Ready("idle", None) /\ calls' \in 0 .. MaxRequests
  BY DEF PCs, Ready, Inv, TypeOK
<1> QED BY <1>1, HandlerStep DEF Done

(* vspAuth reads a sound record, so the new handler starts with a sound    *)
(* copy.                                                                   *)
LEMMA vspAuthStep ==
    ASSUME Inv, NEW r \in Requests, NEW t \in Tickets, NEW kind \in Kinds, vspAuth(r, t, kind)
    PROVE  Inv'
<1>1. kind \in PCs /\ kind \in {"feeAddress", "payFee", "setVoteChoices"} /\ Ready(kind, db[t])
  BY ConstantsAssumption DEF PCs, Ready
<1>2. /\ db[t] \in Ticket \cup {None}
      /\ db[t] # None => Sound(owner, tkt, fee, sent, t, db[t])
  BY DEF Inv, TypeOK, TicketBucket, EveryCopySound, DatabaseOK, RecordOK
<1>3. db' \in TicketBucket /\ DatabaseOK'
  BY SameWorld, DatabaseStays DEF vspAuth, chain
<1>4. calls' \in 0 .. MaxRequests
  BY ConstantsAssumption DEF vspAuth, Inv, TypeOK
<1>5. /\ pref' \in [Wallets \X Tickets -> Choices \cup {None}]
      /\ acked' \in [Tickets -> SUBSET FeeTxs]
  BY DEF vspAuth, wallets, Inv, TypeOK
<1> QED BY <1>1, <1>2, <1>3, <1>4, <1>5, HandlerStep DEF vspAuth, wallets

(* The variables that most handler steps leave alone keep their type.      *)
LEMMA Untouched ==
    ASSUME Inv, UNCHANGED <<wallets, acked, calls>>
    PROVE  /\ held' = held
           /\ pref' \in [Wallets \X Tickets -> Choices \cup {None}]
           /\ acked' \in [Tickets -> SUBSET FeeTxs]
           /\ calls' \in 0 .. MaxRequests
  BY DEF wallets, Inv, TypeOK

(* A handler that answers without writing drops its copy.                  *)
LEMMA AnswerStep ==
    ASSUME Inv, NEW r \in Requests, Answer(r) PROVE Inv'
<1>1. db' \in TicketBucket /\ DatabaseOK'
  BY SameWorld, DatabaseStays DEF Answer, chain
<1> QED BY <1>1, Untouched, HandlerEnds DEF Answer

(* A handler changes its copy and goes on, without writing it yet.         *)
LEMMA HandlerPrepares ==
    ASSUME Inv, NEW r \in Requests, pc[r] # "idle", NEW p \in PCs, NEW k \in Ticket,
           Goto(r, p), snap' = [snap EXCEPT ![r] = k],
           Sound(owner, tkt, fee, sent, about[r], k), Ready(p, k),
           UNCHANGED <<db, lastAddr, owner, chain, task, wallets, acked, sent, calls, faults>>
    PROVE  Inv'
<1>1. db' \in TicketBucket /\ DatabaseOK'
  BY SameWorld, DatabaseStays DEF chain
<1>2. about[r] \in Tickets
  BY HandlerCopy
<1>3. about' = [about EXCEPT ![r] = about[r]] /\ pc' = [pc EXCEPT ![r] = p]
  BY DEF Goto, Inv, TypeOK
<1>4. k \in Ticket \cup {None} /\ about[r] \in Tickets \cup {None}
  BY <1>2
<1> QED BY <1>1, <1>2, <1>3, <1>4, Untouched, HandlerStep

(* feeAddress quotes a new fee in its copy, which has no fee in hand.      *)
LEMMA feeAddressExpiredStep ==
    ASSUME Inv, NEW r \in Requests, feeAddressExpired(r) PROVE Inv'
<1>1. pc[r] # "idle" /\ snap[r] # None /\ ~feeReceived(snap[r])
  BY DEF feeAddressExpired
<1>2. PICK newFee \in Fees :
          snap' = [snap EXCEPT ![r].FeeExpiration = now + FeeLifetime, ![r].FeeAmount = newFee]
  BY DEF feeAddressExpired
<1>3. newFee \in Nat \ {0} /\ now + FeeLifetime \in Nat
  BY ConstantsAssumption DEF Inv, TypeOK
<1> DEFINE k == [snap[r] EXCEPT !.FeeExpiration = now + FeeLifetime, !.FeeAmount = newFee]
<1>4. k \in Ticket /\ Sound(owner, tkt, fee, sent, about[r], k)
  BY <1>1, <1>3, HandlerCopy, SoundRenewed
<1>5. snap' = [snap EXCEPT ![r] = k]
  BY <1>2 DEF Inv, TypeOK
<1>6. "renew" \in PCs /\ Ready("renew", k)
  BY <1>4, NoneAssumption DEF PCs, Ready
<1> HIDE DEF k
<1> QED BY <1>1, <1>4, <1>5, <1>6, HandlerPrepares DEF feeAddressExpired

(* The handler's copy is written and the handler ends.                     *)
LEMMA feeAddressRenewStep ==
    ASSUME Inv, NEW r \in Requests, feeAddressRenew(r) PROVE Inv'
<1>1. snap[r] \in Ticket /\ about[r] \in Tickets /\ Sound(owner, tkt, fee, sent, about[r], snap[r])
  BY HandlerCopy DEF feeAddressRenew, Ready
<1>2. db' \in TicketBucket /\ DatabaseOK'
  BY <1>1, SameWorld, DatabaseWrite DEF feeAddressRenew, chain
<1> QED BY <1>2, Untouched, HandlerEnds DEF feeAddressRenew

(* The record of a new ticket is inserted and the handler ends.            *)
LEMMA feeAddressInsertStep ==
    ASSUME Inv, NEW r \in Requests, feeAddressInsert(r) PROVE Inv'
<1>1. snap[r] \in Ticket /\ about[r] \in Tickets /\ Sound(owner, tkt, fee, sent, about[r], snap[r])
  BY HandlerCopy DEF feeAddressInsert, Ready
<1>2. db' \in TicketBucket /\ DatabaseOK'
  BY <1>1, SameWorld, DatabaseWrite DEF feeAddressInsert, chain
<1> QED BY <1>2, Untouched, HandlerEnds DEF feeAddressInsert

(* feeAddress derives the next address: it had no owner, so no sound       *)
(* record names it.                                                        *)
LEMMA feeAddressNewStep ==
    ASSUME Inv, NEW r \in Requests, feeAddressNew(r) PROVE Inv'
<1> DEFINE a == lastAddr + 1
           t == about[r]
<1>1. a \in 1 .. MaxAddr /\ owner[a] = None /\ lastAddr' = a /\ t \in Tickets
  BY HandlerCopy, ConstantsAssumption DEF feeAddressNew, Inv, TypeOK, EveryCopySound, AddressesOK
<1>2. /\ owner' = [owner EXCEPT ![a] = t]
      /\ owner' \in [1 .. MaxAddr -> Tickets \cup {None}]
      /\ owner'[a] = t
      /\ \A b \in 1 .. MaxAddr : b # a => owner'[b] = owner[b]
  BY <1>1 DEF feeAddressNew, Inv, TypeOK
<1>3. tkt' = tkt /\ fee' = fee /\ now' = now /\ subscribed' = subscribed /\ sent' = sent
  BY DEF feeAddressNew, chain
<1>4. WorldGrows
  BY <1>1, <1>2, <1>3 DEF WorldGrows, Grows
<1>5. PICK amount \in Fees :
          snap' = [snap EXCEPT ![r] = NewTicket(a, amount, tkt[t] \in Final)]
  BY <1>1 DEF feeAddressNew
<1> DEFINE k == NewTicket(a, amount, tkt[t] \in Final)
<1>6. amount \in Nat \ {0} /\ now \in Nat /\ FeeLifetime \in Nat /\ (tkt[t] \in Final) \in BOOLEAN
  BY ConstantsAssumption DEF Inv, TypeOK
<1>7. k \in Ticket /\ Sound(owner', tkt', fee', sent', t, k)
  BY <1>1, <1>2, <1>3, <1>6, SoundNew
<1>8. "insert" \in PCs /\ Ready("insert", k)
  <2>1. k.FeeTxStatus = "none"
    BY DEF NewTicket
  <2> QED BY <1>7, <2>1, NoneAssumption DEF PCs, Ready
<1> HIDE DEF k
<1>9. pc' = [pc EXCEPT ![r] = "insert"] /\ about' = [about EXCEPT ![r] = t]
  BY DEF feeAddressNew, Goto, Inv, TypeOK
<1>10. /\ pc' \in [Requests -> PCs]
       /\ about' \in [Requests -> Tickets \cup {None}]
       /\ snap' \in [Requests -> Ticket \cup {None}]
       /\ HandlersOK'
  <2>1. snap' = [snap EXCEPT ![r] = k]
    BY <1>5 DEF k
  <2>2. k \in Ticket \cup {None} /\ t \in Tickets \cup {None}
    BY <1>1, <1>7
  <2> HIDE DEF t
  <2> QED BY <1>1, <1>4, <1>7, <1>8, <1>9, <2>1, <2>2, HandlerMoves
<1>11. db' \in TicketBucket /\ DatabaseOK'
  BY <1>4, DatabaseStays DEF feeAddressNew
<1>12. CopiesOK' /\ CurrentOK' /\ TodoOK'
  BY <1>3, <1>4, TaskStays DEF feeAddressNew, Inv, EveryCopySound, CurrentOK
<1>13. AddressesOK'
  BY <1>1, <1>2, ConstantsAssumption DEF Inv, EveryCopySound, TypeOK, AddressesOK
<1>14. NoEarlyBroadcast' /\ HeldTicketsPaid'
  <2>1. NoEarlyBroadcast'
    BY <1>3 DEF Inv, EveryCopySound, NoEarlyBroadcast
  <2>2. held' = held /\ \A b \in 1 .. MaxAddr : \A u \in Tickets : owner[b] = u => owner'[b] = u
    BY <1>1, <1>2, NoneAssumption DEF feeAddressNew, wallets
  <2>3. HeldTicketsPaid'
    BY <1>3, <2>2 DEF Inv, EveryCopySound, TypeOK, HeldTicketsPaid
  <2> QED BY <2>1, <2>3
<1>15. TypeOK'
  BY <1>1, <1>2, <1>3, <1>10, <1>11 DEF feeAddressNew, Inv, TypeOK, task, wallets
<1> QED BY <1>10, <1>11, <1>12, <1>13, <1>14, <1>15 DEF Inv, EveryCopySound

(* payFee puts a fee transaction that pays the quoted fee into its copy.   *)
LEMMA payFeeStep ==
    ASSUME Inv, NEW r \in Requests, payFee(r) PROVE Inv'
<1>1. PICK f \in FeeTxs, choice \in Choices \cup {None} :
          /\ payFeeValid(r, f)
          /\ snap' = [snap EXCEPT ![r] = PaidBy(snap[r], f, choice)]
  BY DEF payFee
<1>2. /\ pc[r] # "idle" /\ snap[r] # None /\ ~feeReceived(snap[r])
      /\ Payment[f][snap[r].FeeAddress] >= snap[r].FeeAmount
  BY <1>1 DEF payFee, payFeeValid
<1> DEFINE k == PaidBy(snap[r], f, choice)
<1>3. k \in Ticket /\ Sound(owner, tkt, fee, sent, about[r], k) /\ k.FeeTxStatus = "received"
  BY <1>2, HandlerCopy, SoundReceived
<1>4. snap' = [snap EXCEPT ![r] = k]
  BY <1>1 DEF Inv, TypeOK
<1> HIDE DEF k
<1>5. "storeFee" \in PCs /\ Ready("storeFee", k)
  BY <1>3, NoneAssumption DEF PCs, Ready
<1> QED BY <1>2, <1>3, <1>4, <1>5, HandlerPrepares DEF payFee

(* A handler writes its copy and keeps it for a later step.                *)
LEMMA HandlerWrites ==
    ASSUME Inv, NEW r \in Requests, pc[r] # "idle", snap[r] # None, NEW p \in PCs,
           Goto(r, p), UNCHANGED snap, Ready(p, snap[r]),
           db' = UpdateTicket(db, about[r], snap[r]),
           UNCHANGED <<lastAddr, owner, chain, task, wallets, acked, sent, calls, faults>>
    PROVE  Inv'
<1>1. /\ about[r] \in Tickets /\ snap[r] \in Ticket
      /\ Sound(owner, tkt, fee, sent, about[r], snap[r])
  BY HandlerCopy
<1>2. db' \in TicketBucket /\ DatabaseOK'
  BY <1>1, SameWorld, DatabaseWrite DEF chain
<1>3. /\ about' = [about EXCEPT ![r] = about[r]]
      /\ snap' = [snap EXCEPT ![r] = snap[r]]
      /\ pc' = [pc EXCEPT ![r] = p]
  BY DEF Goto, Inv, TypeOK
<1>4. snap[r] \in Ticket \cup {None} /\ about[r] \in Tickets \cup {None}
  BY <1>1
<1> QED BY <1>1, <1>2, <1>3, <1>4, Untouched, HandlerStep

(* A handler writes its copy and ends.                                     *)
LEMMA HandlerWritesLast ==
    ASSUME Inv, NEW r \in Requests, pc[r] # "idle", snap[r] # None, Done(r),
           db' = UpdateTicket(db, about[r], snap[r]),
           UNCHANGED <<lastAddr, owner, chain, task, wallets, acked, sent, calls, faults>>
    PROVE  Inv'
<1>1. /\ about[r] \in Tickets /\ snap[r] \in Ticket
      /\ Sound(owner, tkt, fee, sent, about[r], snap[r])
  BY HandlerCopy
<1>2. db' \in TicketBucket /\ DatabaseOK'
  BY <1>1, SameWorld, DatabaseWrite DEF chain
<1> QED BY <1>2, Untouched, HandlerEnds

(* payFee stores its copy and goes on, depending on the ticket's           *)
(* confirmations.                                                          *)
LEMMA payFeeStoreStep ==
    ASSUME Inv, NEW r \in Requests, payFeeStore(r) PROVE Inv'
<1>1. /\ pc[r] = "storeFee" /\ pc[r] # "idle" /\ snap[r] # None
      /\ snap[r].FeeTxStatus = "received"
  BY HandlerCopy DEF payFeeStore, Ready
<1>2. CASE db[about[r]] = None
  BY <1>1, <1>2, HandlerWritesLast DEF payFeeStore
<1>3. CASE db[about[r]] # None /\ snap[r].Confirmed
  <2>1. "sendFee" \in PCs /\ Ready("sendFee", snap[r])
    BY <1>1, <1>3 DEF PCs, Ready
  <2> QED BY <1>1, <1>3, <2>1, HandlerWrites DEF payFeeStore
<1>4. CASE db[about[r]] # None /\ ~snap[r].Confirmed
  <2>1. "respond" \in PCs /\ Ready("respond", snap[r])
    BY <1>1, <1>4 DEF PCs, Ready
  <2> QED BY <1>1, <1>4, <2>1, HandlerWrites DEF payFeeStore
<1> QED BY <1>2, <1>3, <1>4

(* payFee stores the result of the broadcast.                              *)
LEMMA payFeeRecordSendStep ==
    ASSUME Inv, NEW r \in Requests, payFeeRecordSend(r) PROVE Inv'
<1>1. pc[r] = "recordSend" /\ pc[r] # "idle" /\ snap[r] # None
  BY HandlerCopy DEF payFeeRecordSend, Ready
<1>2. CASE db[about[r]] = None \/ snap[r].FeeTxStatus = "error"
  BY <1>1, <1>2, HandlerWritesLast DEF payFeeRecordSend
<1>3. CASE ~(db[about[r]] = None \/ snap[r].FeeTxStatus = "error")
  <2>1. "respond" \in PCs /\ Ready("respond", snap[r])
    BY <1>1, HandlerCopy DEF PCs, Ready
  <2> QED BY <1>1, <1>3, <2>1, HandlerWrites DEF payFeeRecordSend
<1> QED BY <1>2, <1>3

(* setVoteChoices stores its copy and goes on to the wallets if the fee is *)
(* confirmed.                                                              *)
LEMMA setVoteChoicesStoreStep ==
    ASSUME Inv, NEW r \in Requests, setVoteChoicesStore(r) PROVE Inv'
<1>1. pc[r] = "storeChoices" /\ pc[r] # "idle" /\ snap[r] # None
  BY HandlerCopy DEF setVoteChoicesStore, Ready
<1>2. CASE db[about[r]] # None /\ snap[r].FeeTxStatus = "confirmed"
  <2>1. "setWallets" \in PCs /\ Ready("setWallets", snap[r])
    BY <1>1 DEF PCs, Ready
  <2> QED BY <1>1, <1>2, <2>1, HandlerWrites DEF setVoteChoicesStore
<1>3. CASE ~(db[about[r]] # None /\ snap[r].FeeTxStatus = "confirmed")
  BY <1>1, <1>3, HandlerWritesLast DEF setVoteChoicesStore
<1> QED BY <1>2, <1>3

(* setVoteChoices changes the choices of its copy only.                    *)
LEMMA setVoteChoicesStep ==
    ASSUME Inv, NEW r \in Requests, setVoteChoices(r) PROVE Inv'
<1>1. PICK choice \in Choices \cup {snap[r].VoteChoices} :
          snap' = [snap EXCEPT ![r].VoteChoices = choice]
  BY DEF setVoteChoices
<1>2. pc[r] # "idle" /\ snap[r] # None /\ choice \in Choices \cup {None}
  BY HandlerCopy DEF setVoteChoices, Ticket
<1> DEFINE k == [snap[r] EXCEPT !.VoteChoices = choice]
<1>3. k \in Ticket /\ Sound(owner, tkt, fee, sent, about[r], k)
  BY <1>2, HandlerCopy, SoundChoice
<1>4. snap' = [snap EXCEPT ![r] = k]
  BY <1>1 DEF Inv, TypeOK
<1> HIDE DEF k
<1>5. "storeChoices" \in PCs /\ Ready("storeChoices", k)
  BY <1>3, NoneAssumption DEF PCs, Ready
<1> QED BY <1>2, <1>3, <1>4, <1>5, HandlerPrepares DEF setVoteChoices

(* SendRawTransaction for a confirmed ticket.                              *)
LEMMA Broadcast ==
    ASSUME Inv, NEW t \in Tickets, NEW f \in FeeTxs, NEW ok \in BOOLEAN,
           SendRawTransaction(t, f, ok), tkt[t] \in Final,
           UNCHANGED <<lastAddr, owner, tkt, held>>
    PROVE  /\ WorldGrows
           /\ fee' \in [FeeTxs -> FeeState] /\ sent' \in SUBSET (Tickets \X FeeTxs)
           /\ <<t, f>> \in sent'
           /\ AddressesOK' /\ NoEarlyBroadcast' /\ HeldTicketsPaid'
<1>1. /\ fee' \in [FeeTxs -> FeeState]
      /\ \A g \in FeeTxs : fee[g] = "final" => fee'[g] = "final"
  <2>1. fee \in [FeeTxs -> FeeState] /\ "pending" \in FeeState
    BY DEF Inv, TypeOK, FeeState
  <2>2. CASE fee' = fee
    BY <2>1, <2>2
  <2>3. CASE fee' = [fee EXCEPT ![f] = IF @ = "unknown" THEN "pending" ELSE @]
    BY <2>1, <2>3
  <2> QED BY <2>2, <2>3 DEF SendRawTransaction
<1>2. sent' = sent \cup {<<t, f>>} /\ sent \in SUBSET (Tickets \X FeeTxs)
  BY DEF SendRawTransaction, Inv, TypeOK
<1>3. WorldGrows
  BY <1>1, <1>2 DEF WorldGrows, Grows
<1>4. NoEarlyBroadcast'
  BY <1>2 DEF Inv, EveryCopySound, NoEarlyBroadcast
<1>5. HeldTicketsPaid'
  BY <1>1 DEF Inv, EveryCopySound, HeldTicketsPaid
<1>6. AddressesOK'
  BY DEF Inv, EveryCopySound, AddressesOK
<1> QED BY <1>1, <1>2, <1>3, <1>4, <1>5, <1>6

(* payFee broadcasts the fee of a ticket its copy calls confirmed, and it  *)
(* is final.                                                               *)
LEMMA payFeeSendStep ==
    ASSUME Inv, NEW r \in Requests, payFeeSend(r) PROVE Inv'
<1> DEFINE t == about[r]
           f == snap[r].FeeTxHex
<1>1. PICK ok \in BOOLEAN :
          /\ SendRawTransaction(t, f, ok)
          /\ snap' = [snap EXCEPT ![r] = AfterSend(snap[r], ok)]
  BY DEF payFeeSend
<1>2. /\ t \in Tickets /\ snap[r] \in Ticket
      /\ Sound(owner, tkt, fee, sent, t, snap[r]) /\ isPendingFee(snap[r])
  BY HandlerCopy DEF payFeeSend, Ready, isPendingFee
<1>3. f \in FeeTxs /\ tkt[t] \in Final
  BY <1>2, FeeTxKnown DEF Sound, ChainAgrees, isPendingFee
<1>4. UNCHANGED <<lastAddr, owner, tkt, held, now, subscribed, pref, acked, calls, faults, db>> /\ UNCHANGED task
  BY DEF payFeeSend, wallets
<1>5. /\ WorldGrows
      /\ fee' \in [FeeTxs -> FeeState] /\ sent' \in SUBSET (Tickets \X FeeTxs)
      /\ <<t, f>> \in sent'
      /\ AddressesOK' /\ NoEarlyBroadcast' /\ HeldTicketsPaid'
  BY <1>1, <1>2, <1>3, <1>4, Broadcast
<1> DEFINE k == AfterSend(snap[r], ok)
<1>6. k \in Ticket /\ Sound(owner', tkt', fee', sent', t, k) /\ k.FeeTxStatus \in {"broadcast", "error"}
  <2>1. Sound(owner', tkt', fee', sent', t, snap[r])
    BY <1>2, <1>5, RecordStays DEF WorldGrows
  <2>2. <<t, snap[r].FeeTxHex>> \in sent'
    BY <1>5
  <2> QED BY <1>2, <2>1, <2>2, SoundSent
<1>7. snap' = [snap EXCEPT ![r] = k]
  BY <1>1 DEF Inv, TypeOK
<1>8. "recordSend" \in PCs /\ Ready("recordSend", k) /\ k \in Ticket \cup {None}
  BY <1>6, NoneAssumption DEF PCs, Ready
<1> HIDE DEF k
<1>9. pc' = [pc EXCEPT ![r] = "recordSend"] /\ about' = [about EXCEPT ![r] = t]
  BY DEF payFeeSend, Goto, Inv, TypeOK
<1>10. /\ pc' \in [Requests -> PCs]
       /\ about' \in [Requests -> Tickets \cup {None}]
       /\ snap' \in [Requests -> Ticket \cup {None}]
       /\ HandlersOK'
  <2> HIDE DEF t
  <2> QED BY <1>2, <1>5, <1>6, <1>7, <1>8, <1>9, HandlerMoves
<1>11. db' \in TicketBucket /\ DatabaseOK'
  BY <1>4, <1>5, DatabaseStays
<1>12. CopiesOK' /\ CurrentOK' /\ TodoOK'
  BY <1>4, <1>5, TaskStays DEF Inv, EveryCopySound, CurrentOK
<1>13. TypeOK'
  BY <1>4, <1>5, <1>10, <1>11 DEF Inv, TypeOK, task
<1> QED BY <1>5, <1>10, <1>11, <1>12, <1>13 DEF Inv, EveryCopySound

(* payFee tells the client that its fee transaction was received.          *)
LEMMA payFeeRespondStep ==
    ASSUME Inv, NEW r \in Requests, payFeeRespond(r) PROVE Inv'
<1>1. about[r] \in Tickets /\ snap[r].FeeTxHash \in FeeTxs
  <2>1. snap[r] \in Ticket /\ FeeFieldsAgree(snap[r]) /\ snap[r].FeeTxStatus # "none"
    BY HandlerCopy DEF payFeeRespond, Ready, Sound
  <2> QED BY <2>1, HandlerCopy, FeeTxKnown DEF payFeeRespond
<1>2. acked' \in [Tickets -> SUBSET FeeTxs]
  BY <1>1 DEF payFeeRespond, Inv, TypeOK
<1>3. db' \in TicketBucket /\ DatabaseOK'
  BY SameWorld, DatabaseStays DEF payFeeRespond, chain
<1>4. held' = held /\ pref' \in [Wallets \X Tickets -> Choices \cup {None}]
  BY DEF payFeeRespond, wallets, Inv, TypeOK
<1> QED BY <1>2, <1>3, <1>4, HandlerEnds DEF payFeeRespond

(* setVoteChoices passes the choices on to the wallets.                    *)
LEMMA setVoteChoicesWalletsStep ==
    ASSUME Inv, NEW r \in Requests, setVoteChoicesWallets(r) PROVE Inv'
<1>1. snap[r].VoteChoices \in Choices \cup {None}
  BY HandlerCopy DEF setVoteChoicesWallets, Ready, Ticket
<1>2. pref' \in [Wallets \X Tickets -> Choices \cup {None}]
  BY <1>1 DEF setVoteChoicesWallets, Inv, TypeOK
<1>3. db' \in TicketBucket /\ DatabaseOK'
  BY SameWorld, DatabaseStays DEF setVoteChoicesWallets, chain
<1>4. acked' \in [Tickets -> SUBSET FeeTxs]
  BY DEF setVoteChoicesWallets, Inv, TypeOK
<1> QED BY <1>2, <1>3, <1>4, HandlerEnds DEF setVoteChoicesWallets

(* Every step of a handler.                                                *)
LEMMA HandlerPreserves ==
    ASSUME Inv, NEW r \in Requests, Handler(r) PROVE Inv'
  BY vspAuthStep, AnswerStep, feeAddressExpiredStep, feeAddressRenewStep, feeAddressNewStep,
     feeAddressInsertStep, payFeeStep, payFeeStoreStep, payFeeSendStep, payFeeRecordSendStep,
     payFeeRespondStep, setVoteChoicesStep, setVoteChoicesStoreStep, setVoteChoicesWalletsStep
  DEF Handler

-----------------------------------------------------------------------------
(* Steps of the chain and the clock.                                       *)

(* The counter of failures stays within its bound.                         *)
LEMMA FaultBound ==
    ASSUME Inv, Fault \/ UNCHANGED faults PROVE faults' \in 0 .. MaxFaults
  BY ConstantsAssumption DEF Fault, Inv, TypeOK

(* What the chain and the clock may do: they leave vspd's state alone.     *)
LEMMA WorldStep ==
    ASSUME Inv, WorldGrows, step = "delete" => tkt'[cur] \notin Final,
           tkt' \in [Tickets -> TicketState], fee' \in [FeeTxs -> FeeState], now' \in 0 .. MaxTime,
           subscribed' \in BOOLEAN, faults' \in 0 .. MaxFaults,
           UNCHANGED <<db, lastAddr, owner, web, task, wallets, acked, sent, calls>>
    PROVE  Inv'
<1>1. DatabaseOK' /\ HandlersOK' /\ CopiesOK' /\ CurrentOK' /\ TodoOK'
  BY DatabaseStays, HandlersStay, TaskStays
<1>2. AddressesOK' /\ NoEarlyBroadcast' /\ HeldTicketsPaid'
  BY LedgerStays DEF wallets
<1>3. TypeOK'
  BY DEF Inv, TypeOK, web, task, wallets
<1> QED BY <1>1, <1>2, <1>3 DEF Inv, EveryCopySound

(* A purchase is published, dropped, confirmed or spent: it never stops    *)
(* being final or spent.                                                   *)
LEMMA TicketStep ==
    ASSUME Inv, NEW t \in Tickets,
           PublishTicket(t) \/ DropTicket(t) \/ ConfirmTicket(t) \/ SpendTicket(t)
    PROVE  Inv'
<1>1. /\ tkt \in [Tickets -> TicketState]
      /\ step = "delete" => cur \in Tickets /\ tkt[cur] \notin Final
  BY DEF Inv, TypeOK, EveryCopySound, CurrentOK
<1>2. PICK s \in TicketState :
         /\ tkt' = [tkt EXCEPT ![t] = s]
         /\ tkt[t] \in Final => s \in Final /\ tkt[t] \notin Spent
         /\ s \in Final => ~(step = "delete" /\ cur = t)
  <2>1. CASE PublishTicket(t) \/ DropTicket(t)
    BY <2>1 DEF PublishTicket, DropTicket, TicketState, Final, Spent
  <2>2. CASE ConfirmTicket(t)
    BY <2>2 DEF ConfirmTicket, TicketState, Final, Spent
  <2>3. CASE SpendTicket(t)
    BY <1>1, <2>3 DEF SpendTicket, TicketState, Final, Spent
  <2> QED BY <2>1, <2>2, <2>3
<1>3. /\ UNCHANGED <<db, lastAddr, owner, web, task, wallets, acked, sent, calls, faults>>
      /\ fee' = fee /\ now' = now /\ subscribed' = subscribed
  BY DEF PublishTicket, DropTicket, ConfirmTicket, SpendTicket
<1>4. tkt' \in [Tickets -> TicketState] /\ (step = "delete" => tkt'[cur] \notin Final)
  BY <1>1, <1>2
<1>5. WorldGrows
  <2>1. Spent \subseteq Final
    BY DEF Final
  <2>2. \A u \in Tickets : u # t => tkt'[u] = tkt[u]
    BY <1>1, <1>2
  <2>3. tkt[t] \in Final => tkt'[t] \in Final /\ tkt[t] \notin Spent
    BY <1>1, <1>2
  <2> QED BY <1>3, <2>1, <2>2, <2>3 DEF WorldGrows, Grows
<1> QED BY <1>3, <1>4, <1>5, WorldStep DEF Inv, TypeOK

(* A fee transaction moves on: a final one stays final.                    *)
LEMMA MoveFeeStep ==
    ASSUME Inv, NEW f \in FeeTxs, MoveFee(f) PROVE Inv'
<1>1. PICK s \in FeeState : fee[f] # "final" /\ fee' = [fee EXCEPT ![f] = s]
  <2>1. PICK move \in {<<"unknown", "pending">>, <<"pending", "unknown">>, <<"pending", "final">>} :
           fee[f] = move[1] /\ fee' = [fee EXCEPT ![f] = move[2]]
    BY DEF MoveFee
  <2>2. move[1] # "final" /\ move[2] \in FeeState
    BY DEF FeeState
  <2> QED BY <2>1, <2>2
<1>2. /\ UNCHANGED <<db, lastAddr, owner, web, task, wallets, acked, sent, calls, faults>>
      /\ tkt' = tkt /\ now' = now /\ subscribed' = subscribed
  BY DEF MoveFee
<1>3. fee' \in [FeeTxs -> FeeState] /\ WorldGrows
  BY <1>1, <1>2 DEF Inv, TypeOK, WorldGrows, Grows
<1>4. step = "delete" => tkt'[cur] \notin Final
  BY <1>2 DEF Inv, EveryCopySound, CurrentOK
<1> QED BY <1>2, <1>3, <1>4, WorldStep DEF Inv, TypeOK

(* The clock is not part of a sound record.                                *)
LEMMA TickStep ==
    ASSUME Inv, Tick PROVE Inv'
<1>1. WorldGrows
  BY SameWorld DEF Tick
<1>2. now' \in 0 .. MaxTime
  BY ConstantsAssumption DEF Tick, Inv, TypeOK
<1>3. step = "delete" => tkt'[cur] \notin Final
  BY DEF Tick, Inv, EveryCopySound, CurrentOK
<1> QED BY <1>1, <1>2, <1>3, WorldStep DEF Tick, Inv, TypeOK

(* The connection says nothing of the chain.                               *)
LEMMA RedialStep ==
    ASSUME Inv, Redial PROVE Inv'
<1>1. WorldGrows /\ UNCHANGED <<tkt, fee, now>>
  BY SameWorld DEF Redial
<1>2. subscribed' \in BOOLEAN /\ faults' \in 0 .. MaxFaults
  BY FaultBound DEF Redial, Inv, TypeOK
<1>3. step = "delete" => tkt'[cur] \notin Final
  BY <1>1 DEF Inv, EveryCopySound, CurrentOK
<1>4. UNCHANGED <<db, lastAddr, owner, web, task, wallets, acked, sent, calls>>
  BY DEF Redial
<1> QED BY <1>1, <1>2, <1>3, <1>4, WorldStep DEF Inv, TypeOK

(* Every step of the chain, of the clock and of the connection.            *)
LEMMA ChainPreserves ==
    ASSUME Inv, Chain PROVE Inv'
  BY TicketStep, MoveFeeStep, TickStep, RedialStep DEF Chain

-----------------------------------------------------------------------------
(* Steps of the background task.                                           *)

(* What a list query returns.                                              *)
LEMMA Filters ==
    ASSUME Inv
    PROVE  /\ GetUnconfirmedTickets(db) \in TicketBucket
           /\ GetPendingFees(db) \in TicketBucket
           /\ GetUnconfirmedFees(db) \in TicketBucket
           /\ GetVotableTickets(db) \in TicketBucket
           /\ \A t \in Tickets :
                /\ GetUnconfirmedTickets(db)[t] # None => GetUnconfirmedTickets(db)[t] = db[t]
                /\ GetPendingFees(db)[t] # None => GetPendingFees(db)[t] = db[t] /\ isPendingFee(db[t])
                /\ GetUnconfirmedFees(db)[t] # None =>
                      GetUnconfirmedFees(db)[t] = db[t] /\ isUnconfirmedFee(db[t])
                /\ GetVotableTickets(db)[t] # None =>
                      GetVotableTickets(db)[t] = db[t] /\ db[t].FeeTxStatus = "confirmed"
<1>1. db \in TicketBucket
  BY DEF Inv, TypeOK
<1>2. /\ GetUnconfirmedTickets(db) \in TicketBucket
      /\ \A t \in Tickets :
            GetUnconfirmedTickets(db)[t] # None => GetUnconfirmedTickets(db)[t] = db[t]
  BY <1>1 DEF GetUnconfirmedTickets, filterTickets, Records, TicketBucket
<1>3. /\ GetPendingFees(db) \in TicketBucket
      /\ \A t \in Tickets : GetPendingFees(db)[t] # None =>
            GetPendingFees(db)[t] = db[t] /\ isPendingFee(db[t])
  BY <1>1 DEF GetPendingFees, filterTickets, Records, TicketBucket
<1>4. /\ GetUnconfirmedFees(db) \in TicketBucket
      /\ \A t \in Tickets : GetUnconfirmedFees(db)[t] # None =>
            GetUnconfirmedFees(db)[t] = db[t] /\ isUnconfirmedFee(db[t])
  BY <1>1 DEF GetUnconfirmedFees, filterTickets, Records, TicketBucket
<1>5. /\ GetVotableTickets(db) \in TicketBucket
      /\ \A t \in Tickets : GetVotableTickets(db)[t] # None =>
            GetVotableTickets(db)[t] = db[t] /\ db[t].FeeTxStatus = "confirmed"
  BY <1>1 DEF GetVotableTickets, filterTickets, Records, TicketBucket, isVotable
<1> QED BY <1>2, <1>3, <1>4, <1>5

(* A step that leaves the world and the handlers alone.                    *)
LEMMA QuietStep ==
    ASSUME Inv, UNCHANGED <<lastAddr, owner, chain, sent, calls>>, UNCHANGED web,
           db' \in TicketBucket, DatabaseOK',
           phase' \in Phases, batch' \in TicketBucket, cur' \in Tickets \cup {None}, step' \in Steps,
           clients' \in SUBSET Wallets, todo' \in SUBSET (Wallets \X Tickets),
           held' \in SUBSET (Wallets \X Tickets), HeldTicketsPaid',
           pref' \in [Wallets \X Tickets -> Choices \cup {None}],
           acked' \in [Tickets -> SUBSET FeeTxs], faults' \in 0 .. MaxFaults,
           CopiesOK', CurrentOK', TodoOK'
    PROVE  Inv'
<1>1. WorldGrows /\ tkt' = tkt /\ fee' = fee /\ now' = now /\ subscribed' = subscribed
  BY SameWorld DEF chain
<1>2. HandlersOK'
  BY <1>1, HandlersStay
<1>3. AddressesOK' /\ NoEarlyBroadcast'
  BY <1>1 DEF Inv, EveryCopySound, AddressesOK, NoEarlyBroadcast
<1>4. TypeOK'
  BY <1>1 DEF Inv, TypeOK, web
<1> QED BY <1>2, <1>3, <1>4 DEF Inv, EveryCopySound

(* wallets.Clients() returns some of the wallets.                          *)
LEMMA ConnectType ==
    ASSUME Inv, Connect PROVE clients' \in SUBSET Wallets /\ faults' \in 0 .. MaxFaults
<1>1. Fault \/ UNCHANGED faults
  BY DEF Connect
<1>2. clients' \in SUBSET Wallets
  BY DEF Connect
<1> QED BY <1>1, <1>2, FaultBound

(* The task has something to do on its list only where it works it off.    *)
LEMMA NothingToDo ==
    ASSUME Inv, step # "add", phase \notin {"addMissing", "fixChoices"} PROVE todo = {}
  BY DEF Inv, EveryCopySound, TodoOK

(* A new list is taken from the database.                                  *)
LEMMA EnterPhase ==
    ASSUME Inv, UNCHANGED <<owner, tkt, fee, sent>>,
           NEW p \in Phases, NEW list \in TicketBucket, Enter(p, list),
           \A t \in Tickets : list[t] # None =>
              /\ list[t] = db[t]
              /\ p = "fees" => isPendingFee(list[t])
              /\ p = "wallets" => isUnconfirmedFee(list[t])
              /\ p \in {"addMissing", "fixChoices"} => list[t].FeeTxStatus = "confirmed"
    PROVE  /\ phase' \in Phases /\ batch' \in TicketBucket
           /\ cur' \in Tickets \cup {None} /\ step' \in Steps
           /\ CopiesOK' /\ CurrentOK'
<1>1. phase' = p /\ batch' = list /\ cur' = None /\ step' = "next"
  BY DEF Enter
<1>2. tkt' = tkt /\ fee' = fee /\ owner' = owner /\ sent' = sent
  OBVIOUS
<1>3. ASSUME NEW t \in Tickets, list[t] # None
      PROVE  Sound(owner', tkt', fee', sent', t, list[t])
  BY <1>2, <1>3 DEF Inv, EveryCopySound, DatabaseOK, RecordOK
<1>4. CopiesOK'
  BY <1>1, <1>3 DEF CopiesOK, RecordOK
<1>5. CurrentOK'
  BY <1>1 DEF CurrentOK
<1> QED BY <1>1, <1>4, <1>5 DEF Steps

(* The empty list.                                                         *)
LEMMA EnterIdle ==
    ASSUME Inv, UNCHANGED <<owner, tkt, fee, sent>>, NEW p \in Phases, Enter(p, NoTickets)
    PROVE  /\ phase' \in Phases /\ batch' \in TicketBucket
           /\ cur' \in Tickets \cup {None} /\ step' \in Steps
           /\ CopiesOK' /\ CurrentOK'
<1>1. NoTickets \in TicketBucket /\ \A t \in Tickets : NoTickets[t] = None
  BY DEF NoTickets, TicketBucket
<1> QED BY <1>1, EnterPhase

(* Variables of the wallets and of the clients that a step leaves alone.   *)
LEMMA WalletsStay ==
    ASSUME Inv, UNCHANGED <<owner, chain, sent, wallets, acked>>
    PROVE  /\ held' \in SUBSET (Wallets \X Tickets) /\ HeldTicketsPaid'
           /\ pref' \in [Wallets \X Tickets -> Choices \cup {None}]
           /\ acked' \in [Tickets -> SUBSET FeeTxs]
  BY DEF Inv, TypeOK, EveryCopySound, HeldTicketsPaid, wallets, chain

(* A step that changes neither bucket nor world keeps the records sound.   *)
LEMMA DatabaseQuiet ==
    ASSUME Inv, UNCHANGED <<db, owner, chain, sent>>
    PROVE  db' \in TicketBucket /\ DatabaseOK'
  BY SameWorld, DatabaseStays DEF chain

(* update starts: the unconfirmed tickets are listed.                      *)
LEMMA updateUnconfirmedStep ==
    ASSUME Inv, updateUnconfirmed PROVE Inv'
<1>1. /\ phase' \in Phases /\ batch' \in TicketBucket
      /\ cur' \in Tickets \cup {None} /\ step' \in Steps
      /\ CopiesOK' /\ CurrentOK'
  BY Filters, EnterPhase DEF updateUnconfirmed, chain, Phases
<1>2. todo = {}
  BY NothingToDo DEF updateUnconfirmed, Inv, EveryCopySound, CurrentOK
<1>3. /\ todo' \in SUBSET (Wallets \X Tickets) /\ TodoOK'
      /\ clients' \in SUBSET Wallets /\ faults' \in 0 .. MaxFaults
  BY <1>2 DEF updateUnconfirmed, TodoOK, Inv, TypeOK
<1> QED BY <1>1, <1>3, WalletsStay, DatabaseQuiet, QuietStep DEF updateUnconfirmed

(* The pending fees are listed: confirmed tickets whose fee is received.   *)
LEMMA broadcastFeesStep ==
    ASSUME Inv, broadcastFees PROVE Inv'
<1>1. /\ phase' \in Phases /\ batch' \in TicketBucket
      /\ cur' \in Tickets \cup {None} /\ step' \in Steps
      /\ CopiesOK' /\ CurrentOK'
  BY Filters, EnterPhase DEF broadcastFees, chain, Phases
<1>2. /\ todo' \in SUBSET (Wallets \X Tickets) /\ TodoOK'
      /\ clients' \in SUBSET Wallets /\ faults' \in 0 .. MaxFaults
  BY DEF broadcastFees, ListDone, TodoOK, Inv, TypeOK
<1> QED BY <1>1, <1>2, WalletsStay, DatabaseQuiet, QuietStep DEF broadcastFees

(* The fees that are broadcast are listed, unless no wallet can be         *)
(* reached.                                                                *)
LEMMA addToWalletsStep ==
    ASSUME Inv, addToWallets PROVE Inv'
<1>1. /\ phase' \in Phases /\ batch' \in TicketBucket
      /\ cur' \in Tickets \cup {None} /\ step' \in Steps
      /\ CopiesOK' /\ CurrentOK'
  <2>1. "wallets" \in Phases
    BY DEF Phases
  <2>2. CASE Enter("wallets", NoTickets)
    BY <2>1, <2>2, EnterIdle DEF addToWallets, chain
  <2>3. CASE Enter("wallets", GetUnconfirmedFees(db))
    BY <2>1, <2>3, Filters, EnterPhase DEF addToWallets, chain
  <2> QED BY <2>2, <2>3 DEF addToWallets
<1>2. todo' \in SUBSET (Wallets \X Tickets) /\ TodoOK'
  BY DEF addToWallets, ListDone, TodoOK
<1>3. clients' \in SUBSET Wallets /\ faults' \in 0 .. MaxFaults
  BY ConnectType DEF addToWallets
<1> QED BY <1>1, <1>2, <1>3, WalletsStay, DatabaseQuiet, QuietStep DEF addToWallets

(* The votable tickets are listed: their fees are confirmed.               *)
LEMMA setOutcomesStep ==
    ASSUME Inv, setOutcomes PROVE Inv'
<1>1. /\ phase' = "outcomes" /\ batch' = GetVotableTickets(db) /\ step' = "scan"
      /\ cur' = None /\ todo' = {} /\ clients' = {}
  BY DEF setOutcomes, ListDone, Working, Inv, EveryCopySound, CurrentOK
<1>2. tkt' = tkt /\ fee' = fee /\ owner' = owner /\ sent' = sent
  BY DEF setOutcomes, chain
<1>3. ASSUME NEW t \in Tickets, batch'[t] # None
      PROVE  Sound(owner', tkt', fee', sent', t, batch'[t]) /\ batch'[t].FeeTxStatus = "confirmed"
  BY <1>1, <1>2, <1>3, Filters DEF Inv, EveryCopySound, DatabaseOK, RecordOK
<1>4. CopiesOK'
  BY <1>1, <1>3 DEF CopiesOK, RecordOK
<1>5. CurrentOK' /\ TodoOK'
  BY <1>1 DEF CurrentOK, TodoOK
<1>6. /\ phase' \in Phases /\ batch' \in TicketBucket /\ cur' \in Tickets \cup {None}
      /\ step' \in Steps /\ clients' \in SUBSET Wallets /\ todo' \in SUBSET (Wallets \X Tickets)
  BY <1>1, Filters DEF Phases, Steps
<1>7. faults' \in 0 .. MaxFaults
  BY DEF setOutcomes, Inv, TypeOK
<1> QED BY <1>4, <1>5, <1>6, <1>7, WalletsStay, DatabaseQuiet, QuietStep DEF setOutcomes

(* update ends with an empty list.                                         *)
LEMMA updateDoneStep ==
    ASSUME Inv, updateDone PROVE Inv'
<1>1. /\ phase' \in Phases /\ batch' \in TicketBucket
      /\ cur' \in Tickets \cup {None} /\ step' \in Steps
      /\ CopiesOK' /\ CurrentOK'
  BY EnterIdle DEF updateDone, chain, Phases
<1>2. /\ todo' \in SUBSET (Wallets \X Tickets) /\ TodoOK'
      /\ clients' \in SUBSET Wallets /\ faults' \in 0 .. MaxFaults
  BY DEF updateDone, ListDone, TodoOK, Inv, TypeOK
<1> QED BY <1>1, <1>2, WalletsStay, DatabaseQuiet, QuietStep DEF updateDone

(* The votable tickets are listed, for every wallet that can be reached.   *)
LEMMA checkWalletConsistencyStep ==
    ASSUME Inv, checkWalletConsistency PROVE Inv'
<1> DEFINE list == GetVotableTickets(db)
<1>1. /\ phase' \in Phases /\ batch' \in TicketBucket
      /\ cur' \in Tickets \cup {None} /\ step' \in Steps
      /\ CopiesOK' /\ CurrentOK'
  BY Filters, EnterPhase DEF checkWalletConsistency, chain, Phases
<1>2. clients' \in SUBSET Wallets /\ faults' \in 0 .. MaxFaults
  BY ConnectType DEF checkWalletConsistency
<1>3. /\ phase' = "addMissing" /\ batch' = list
      /\ todo' = clients' \X {t \in Tickets : list[t] # None}
  BY DEF checkWalletConsistency, Enter
<1>4. todo' \in SUBSET (Wallets \X Tickets) /\ TodoOK'
  BY <1>2, <1>3, Filters DEF TodoOK
<1> QED BY <1>1, <1>2, <1>4, WalletsStay, DatabaseQuiet, QuietStep DEF checkWalletConsistency

(* checkWalletConsistency ends with an empty list.                         *)
LEMMA consistencyDoneStep ==
    ASSUME Inv, consistencyDone PROVE Inv'
<1>1. /\ phase' \in Phases /\ batch' \in TicketBucket
      /\ cur' \in Tickets \cup {None} /\ step' \in Steps
      /\ CopiesOK' /\ CurrentOK'
  BY EnterIdle DEF consistencyDone, chain, Phases
<1>2. /\ todo' \in SUBSET (Wallets \X Tickets) /\ TodoOK'
      /\ clients' \in SUBSET Wallets /\ faults' \in 0 .. MaxFaults
  BY DEF consistencyDone, TodoOK, Inv, TypeOK
<1> QED BY <1>1, <1>2, WalletsStay, DatabaseQuiet, QuietStep DEF consistencyDone

(* The second pass goes over the same copies, whose fees are confirmed.    *)
LEMMA addMissingDoneStep ==
    ASSUME Inv, addMissingDone PROVE Inv'
<1>1. /\ phase = "addMissing" /\ phase' = "fixChoices" /\ batch' = batch /\ cur' = cur /\ step' = step
      /\ clients' = clients /\ todo' = clients \X Listed
  BY DEF addMissingDone
<1>2. tkt' = tkt /\ fee' = fee /\ owner' = owner /\ sent' = sent
  BY DEF addMissingDone, chain
<1>3. CopiesOK'
  BY <1>1, <1>2 DEF Inv, EveryCopySound, CopiesOK, RecordOK
<1>4. CurrentOK'
  BY <1>1, <1>2 DEF Inv, EveryCopySound, CurrentOK
<1>5. todo' \in SUBSET (Wallets \X Tickets) /\ TodoOK'
  BY <1>1 DEF Inv, TypeOK, EveryCopySound, CopiesOK, TodoOK, Listed
<1>6. /\ phase' \in Phases /\ batch' \in TicketBucket /\ cur' \in Tickets \cup {None}
      /\ step' \in Steps /\ clients' \in SUBSET Wallets
  BY <1>1 DEF Inv, TypeOK, Phases
<1>7. faults' \in 0 .. MaxFaults
  BY DEF addMissingDone, Inv, TypeOK
<1> QED BY <1>3, <1>4, <1>5, <1>6, <1>7, WalletsStay, DatabaseQuiet, QuietStep DEF addMissingDone

(* The task is done with ticket t.                                         *)
LEMMA NextTicketOK ==
    ASSUME Inv, WorldGrows, NEW t \in Tickets, cur \in {None, t}, NextTicket(t),
           UNCHANGED phase, todo' = {}
    PROVE  /\ phase' \in Phases /\ batch' \in TicketBucket
           /\ cur' \in Tickets \cup {None} /\ step' \in Steps
           /\ todo' \in SUBSET (Wallets \X Tickets)
           /\ CopiesOK' /\ CurrentOK' /\ TodoOK'
<1>1. /\ batch' = [batch EXCEPT ![t] = None] /\ cur' = None /\ step' = "next" /\ phase' = phase
  BY DEF NextTicket
<1>2. batch' \in TicketBucket /\ \A u \in Tickets : batch'[u] # None => u # t /\ batch'[u] = batch[u]
  BY <1>1 DEF Inv, TypeOK, TicketBucket
<1>3. ASSUME NEW u \in Tickets, batch'[u] # None
      PROVE  /\ batch[u] # None /\ batch'[u] = batch[u] /\ u # cur
             /\ Sound(owner', tkt', fee', sent', u, batch'[u])
  <2>1. batch[u] # None /\ batch'[u] = batch[u] /\ u # cur
    BY <1>2, <1>3, NoneAssumption
  <2>2. batch[u] \in Ticket /\ Sound(owner, tkt, fee, sent, u, batch[u])
    BY <2>1 DEF Inv, TypeOK, TicketBucket, EveryCopySound, CopiesOK, RecordOK
  <2> QED BY <2>1, <2>2, RecordStays DEF WorldGrows
<1>4. CopiesOK'
  BY <1>1, <1>3 DEF Inv, EveryCopySound, CopiesOK, RecordOK
<1>5. CurrentOK' /\ TodoOK'
  BY <1>1 DEF CurrentOK, TodoOK
<1> QED BY <1>1, <1>2, <1>4, <1>5 DEF Steps, Inv, TypeOK

(* The task has changed its copy of ticket t and will act on it.           *)
LEMMA PlanOK ==
    ASSUME Inv, WorldGrows, NEW t \in Tickets, NEW k \in Ticket, NEW s \in {"delete", "write"},
           step = "next", Plan(t, k, s), UNCHANGED phase, todo' = {},
           phase \in {"unconfirmed", "fees", "wallets"},
           Sound(owner', tkt', fee', sent', t, k),
           s = "delete" => phase = "unconfirmed" /\ tkt'[t] \notin Final
    PROVE  /\ phase' \in Phases /\ batch' \in TicketBucket
           /\ cur' \in Tickets \cup {None} /\ step' \in Steps
           /\ todo' \in SUBSET (Wallets \X Tickets)
           /\ CopiesOK' /\ CurrentOK' /\ TodoOK'
<1>1. /\ batch' = [batch EXCEPT ![t] = k] /\ cur' = t /\ step' = s /\ phase' = phase
      /\ cur = None
  BY DEF Plan, Inv, EveryCopySound, CurrentOK
<1>2. /\ batch' \in TicketBucket /\ batch'[t] = k
      /\ \A u \in Tickets : u # t => batch'[u] = batch[u]
  BY <1>1 DEF Inv, TypeOK, TicketBucket
<1>3. ASSUME NEW u \in Tickets, u # t, batch'[u] # None
      PROVE  /\ batch[u] # None /\ batch'[u] = batch[u] /\ u # cur
             /\ Sound(owner', tkt', fee', sent', u, batch'[u])
  <2>1. batch[u] # None /\ batch'[u] = batch[u] /\ u # cur
    BY <1>1, <1>2, <1>3, NoneAssumption
  <2>2. batch[u] \in Ticket /\ Sound(owner, tkt, fee, sent, u, batch[u])
    BY <2>1 DEF Inv, TypeOK, TicketBucket, EveryCopySound, CopiesOK, RecordOK
  <2> QED BY <2>1, <2>2, RecordStays DEF WorldGrows
<1>4. CopiesOK'
  <2> SUFFICES ASSUME NEW u \in Tickets, batch'[u] # None
               PROVE  /\ Sound(owner', tkt', fee', sent', u, batch'[u])
                      /\ phase' = "fees" /\ u # cur' => isPendingFee(batch'[u])
                      /\ phase' = "wallets" /\ u # cur' => isUnconfirmedFee(batch'[u])
    BY <1>1 DEF CopiesOK, RecordOK, isPendingFee, isUnconfirmedFee
  <2>1. CASE u = t
    BY <1>1, <1>2, <2>1
  <2>2. CASE u # t
    BY <1>1, <1>3, <2>2 DEF Inv, EveryCopySound, CopiesOK
  <2> QED BY <2>1, <2>2
<1>5. batch'[t] # None
  BY <1>2, NoneAssumption
<1>6. CurrentOK' /\ TodoOK'
  BY <1>1, <1>5 DEF CurrentOK, TodoOK
<1> QED BY <1>1, <1>2, <1>4, <1>6 DEF Steps, Inv, TypeOK

(* The copy of a ticket on the task's list.                                *)
LEMMA ListedCopy ==
    ASSUME Inv, NEW t \in Tickets, batch[t] # None
    PROVE  batch[t] \in Ticket /\ Sound(owner, tkt, fee, sent, t, batch[t])
  BY DEF Inv, TypeOK, TicketBucket, EveryCopySound, CopiesOK, RecordOK

(* One unconfirmed ticket: it is deleted, skipped or set to confirmed as   *)
(* dcrd says.                                                              *)
LEMMA unconfirmedTicketStep ==
    ASSUME Inv, NEW t \in Tickets, unconfirmedTicket(t) PROVE Inv'
<1>1. /\ phase = "unconfirmed" /\ step = "next" /\ cur = None /\ phase' = phase
      /\ todo = {} /\ todo' = {} /\ batch[t] # None
  BY NothingToDo DEF unconfirmedTicket, Working, Inv, EveryCopySound, CurrentOK
<1>2. WorldGrows /\ tkt' = tkt /\ fee' = fee /\ owner' = owner /\ sent' = sent
  BY SameWorld DEF unconfirmedTicket, chain
<1>3. batch[t] \in Ticket /\ Sound(owner, tkt, fee, sent, t, batch[t])
  BY <1>1, ListedCopy
<1>4. /\ phase' \in Phases /\ batch' \in TicketBucket
      /\ cur' \in Tickets \cup {None} /\ step' \in Steps
      /\ todo' \in SUBSET (Wallets \X Tickets)
      /\ CopiesOK' /\ CurrentOK' /\ TodoOK'
  <2>1. CASE tkt[t] = "unknown" /\ Plan(t, batch[t], "delete")
    <3>1. "unknown" \notin Final
      BY DEF Final, Spent
    <3> QED BY <1>1, <1>2, <1>3, <2>1, <3>1, PlanOK
  <2>2. CASE NextTicket(t)
    BY <1>1, <1>2, <2>2, NextTicketOK
  <2>3. CASE tkt[t] \in Final /\ Plan(t, [batch[t] EXCEPT !.Confirmed = TRUE], "write")
    <3> DEFINE k == [batch[t] EXCEPT !.Confirmed = TRUE]
    <3>1. k \in Ticket /\ Sound(owner', tkt', fee', sent', t, k)
      BY <1>2, <1>3, <2>3, SoundConfirmed
    <3>2. Plan(t, k, "write")
      BY <2>3
    <3> HIDE DEF k
    <3> QED BY <1>1, <1>2, <3>1, <3>2, PlanOK
  <2> QED BY <2>1, <2>2, <2>3 DEF unconfirmedTicket
<1>5. clients' \in SUBSET Wallets
  BY DEF unconfirmedTicket, Inv, TypeOK
<1>6. faults' \in 0 .. MaxFaults
  BY FaultBound DEF unconfirmedTicket
<1> QED BY <1>4, <1>5, <1>6, WalletsStay, DatabaseQuiet, QuietStep DEF unconfirmedTicket

(* A deletion leaves the other records as they were.                       *)
LEMMA unconfirmedDeleteStep ==
    ASSUME Inv, unconfirmedDelete PROVE Inv'
<1>1. /\ phase' = phase /\ todo = {} /\ todo' = {} /\ cur \in Tickets
  BY NothingToDo DEF unconfirmedDelete, Working, Inv, EveryCopySound, CurrentOK
<1>2. WorldGrows /\ tkt' = tkt /\ fee' = fee /\ owner' = owner /\ sent' = sent
  BY SameWorld DEF unconfirmedDelete, chain
<1>3. /\ phase' \in Phases /\ batch' \in TicketBucket
      /\ cur' \in Tickets \cup {None} /\ step' \in Steps
      /\ todo' \in SUBSET (Wallets \X Tickets)
      /\ CopiesOK' /\ CurrentOK' /\ TodoOK'
  BY <1>1, <1>2, NextTicketOK DEF unconfirmedDelete
<1>4. /\ db' \in TicketBucket
      /\ \A u \in Tickets : db'[u] # None => db'[u] = db[u]
  BY <1>1 DEF unconfirmedDelete, DeleteTicket, Inv, TypeOK, TicketBucket
<1>5. DatabaseOK'
  BY <1>2, <1>4 DEF Inv, EveryCopySound, DatabaseOK, RecordOK
<1>6. acked' \in [Tickets -> SUBSET FeeTxs]
  BY <1>1 DEF unconfirmedDelete, Inv, TypeOK
<1>7. /\ clients' \in SUBSET Wallets /\ faults' \in 0 .. MaxFaults
      /\ held' \in SUBSET (Wallets \X Tickets) /\ HeldTicketsPaid'
      /\ pref' \in [Wallets \X Tickets -> Choices \cup {None}]
  BY <1>2 DEF unconfirmedDelete, wallets, Inv, TypeOK, EveryCopySound, HeldTicketsPaid
<1> QED BY <1>3, <1>4, <1>5, <1>6, <1>7, QuietStep DEF unconfirmedDelete

(* A listed copy is written to the database.                               *)
LEMMA CopyWritten ==
    ASSUME Inv, UNCHANGED <<owner, chain, sent>>, NEW t \in Tickets, batch[t] # None,
           db' = UpdateTicket(db, t, batch[t])
    PROVE  db' \in TicketBucket /\ DatabaseOK'
<1>1. WorldGrows /\ tkt' = tkt /\ fee' = fee /\ owner' = owner /\ sent' = sent
  BY SameWorld DEF chain
<1>2. batch[t] \in Ticket /\ Sound(owner, tkt, fee, sent, t, batch[t])
  BY ListedCopy
<1> QED BY <1>1, <1>2, DatabaseWrite

(* A sound copy is written back, however old it is.                        *)
LEMMA writeBackStep ==
    ASSUME Inv, writeBack PROVE Inv'
<1>1. /\ phase' = phase /\ todo = {} /\ todo' = {} /\ cur \in Tickets /\ batch[cur] # None
  BY NothingToDo DEF writeBack, Inv, EveryCopySound, CurrentOK
<1>2. WorldGrows
  BY SameWorld DEF writeBack, chain
<1>3. /\ phase' \in Phases /\ batch' \in TicketBucket
      /\ cur' \in Tickets \cup {None} /\ step' \in Steps
      /\ todo' \in SUBSET (Wallets \X Tickets)
      /\ CopiesOK' /\ CurrentOK' /\ TodoOK'
  BY <1>1, <1>2, NextTicketOK DEF writeBack
<1>4. db' \in TicketBucket /\ DatabaseOK'
  BY <1>1, CopyWritten DEF writeBack
<1>5. clients' \in SUBSET Wallets /\ faults' \in 0 .. MaxFaults
  BY DEF writeBack, Inv, TypeOK
<1> QED BY <1>3, <1>4, <1>5, WalletsStay, QuietStep DEF writeBack

(* A copy with its outcome is written back.                                *)
LEMMA writeOutcomeStep ==
    ASSUME Inv, NEW t \in Tickets, writeOutcome(t) PROVE Inv'
<1>1. /\ phase' = phase /\ todo = {} /\ todo' = {} /\ cur = None /\ batch[t] # None
  BY NothingToDo DEF writeOutcome, Working, Inv, EveryCopySound, CurrentOK
<1>2. WorldGrows
  BY SameWorld DEF writeOutcome, chain
<1>3. /\ phase' \in Phases /\ batch' \in TicketBucket
      /\ cur' \in Tickets \cup {None} /\ step' \in Steps
      /\ todo' \in SUBSET (Wallets \X Tickets)
      /\ CopiesOK' /\ CurrentOK' /\ TodoOK'
  BY <1>1, <1>2, NextTicketOK DEF writeOutcome
<1>4. db' \in TicketBucket /\ DatabaseOK'
  BY <1>1, CopyWritten DEF writeOutcome
<1>5. clients' \in SUBSET Wallets /\ faults' \in 0 .. MaxFaults
  BY DEF writeOutcome, Inv, TypeOK
<1> QED BY <1>3, <1>4, <1>5, WalletsStay, QuietStep DEF writeOutcome

(* All wallets were tried; the task goes on with its list.                 *)
LEMMA ticketAddedStep ==
    ASSUME Inv, ticketAdded PROVE Inv'
<1>1. /\ phase' = phase /\ todo' = {} /\ cur \in Tickets
  BY DEF ticketAdded, Working, Inv, EveryCopySound, CurrentOK
<1>2. WorldGrows
  BY SameWorld DEF ticketAdded, chain
<1>3. /\ phase' \in Phases /\ batch' \in TicketBucket
      /\ cur' \in Tickets \cup {None} /\ step' \in Steps
      /\ todo' \in SUBSET (Wallets \X Tickets)
      /\ CopiesOK' /\ CurrentOK' /\ TodoOK'
  BY <1>1, <1>2, NextTicketOK DEF ticketAdded
<1>4. clients' \in SUBSET Wallets /\ faults' \in 0 .. MaxFaults
  BY DEF ticketAdded, Inv, TypeOK
<1> QED BY <1>3, <1>4, WalletsStay, DatabaseQuiet, QuietStep DEF ticketAdded

(* A pending fee is broadcast: its ticket is final.                        *)
LEMMA pendingFeeStep ==
    ASSUME Inv, NEW t \in Tickets, pendingFee(t) PROVE Inv'
<1> DEFINE f == batch[t].FeeTxHex
<1>1. /\ phase = "fees" /\ step = "next" /\ cur = None /\ phase' = phase
      /\ todo = {} /\ todo' = {} /\ batch[t] # None
  BY NothingToDo DEF pendingFee, Working, Inv, EveryCopySound, CurrentOK
<1>2. PICK ok \in BOOLEAN : SendRawTransaction(t, f, ok) /\ Plan(t, AfterSend(batch[t], ok), "write")
  BY DEF pendingFee
<1>3. /\ batch[t] \in Ticket /\ Sound(owner, tkt, fee, sent, t, batch[t]) /\ isPendingFee(batch[t])
  BY <1>1, ListedCopy, NoneAssumption DEF Inv, EveryCopySound, CopiesOK
<1>4. f \in FeeTxs /\ tkt[t] \in Final
  BY <1>3, FeeTxKnown DEF Sound, ChainAgrees, isPendingFee
<1>5. /\ UNCHANGED <<lastAddr, owner, tkt, held, now, subscribed, pref, acked, calls, faults, db, clients>>
      /\ UNCHANGED web
  BY DEF pendingFee, wallets
<1>6. /\ WorldGrows
      /\ fee' \in [FeeTxs -> FeeState] /\ sent' \in SUBSET (Tickets \X FeeTxs)
      /\ <<t, f>> \in sent'
      /\ AddressesOK' /\ NoEarlyBroadcast' /\ HeldTicketsPaid'
  BY <1>2, <1>4, <1>5, Broadcast
<1> DEFINE k == AfterSend(batch[t], ok)
<1>7. k \in Ticket /\ Sound(owner', tkt', fee', sent', t, k)
  <2>1. Sound(owner', tkt', fee', sent', t, batch[t])
    BY <1>3, <1>6, RecordStays DEF WorldGrows
  <2> QED BY <1>3, <1>6, <2>1, SoundSent
<1>8. Plan(t, k, "write")
  BY <1>2
<1> HIDE DEF k
<1>9. /\ phase' \in Phases /\ batch' \in TicketBucket
      /\ cur' \in Tickets \cup {None} /\ step' \in Steps
      /\ todo' \in SUBSET (Wallets \X Tickets)
      /\ CopiesOK' /\ CurrentOK' /\ TodoOK'
  BY <1>1, <1>6, <1>7, <1>8, PlanOK
<1>10. DatabaseOK' /\ HandlersOK'
  BY <1>5, <1>6, DatabaseStays, HandlersStay
<1>11. TypeOK'
  BY <1>5, <1>6, <1>9 DEF Inv, TypeOK, web
<1> QED BY <1>6, <1>9, <1>10, <1>11 DEF Inv, EveryCopySound

(* A fee that was broadcast is confirmed, failed or not yet there, as dcrd *)
(* says.                                                                   *)
LEMMA unconfirmedFeeStep ==
    ASSUME Inv, NEW t \in Tickets, unconfirmedFee(t) PROVE Inv'
<1>1. /\ phase = "wallets" /\ step = "next" /\ cur = None /\ phase' = phase
      /\ todo' = {} /\ batch[t] # None
  BY DEF unconfirmedFee, Working, Inv, EveryCopySound, CurrentOK
<1>2. WorldGrows /\ tkt' = tkt /\ fee' = fee /\ owner' = owner /\ sent' = sent
  BY SameWorld DEF unconfirmedFee, chain
<1>3. /\ batch[t] \in Ticket /\ Sound(owner', tkt', fee', sent', t, batch[t])
      /\ isUnconfirmedFee(batch[t])
  BY <1>1, <1>2, ListedCopy, NoneAssumption DEF Inv, EveryCopySound, CopiesOK
<1>4. /\ phase' \in Phases /\ batch' \in TicketBucket
      /\ cur' \in Tickets \cup {None} /\ step' \in Steps
      /\ todo' \in SUBSET (Wallets \X Tickets)
      /\ CopiesOK' /\ CurrentOK' /\ TodoOK'
  <2>1. CASE NextTicket(t)
    BY <1>1, <1>2, <2>1, NextTicketOK
  <2>2. CASE Plan(t, [batch[t] EXCEPT !.FeeTxStatus = "error"], "write")
    <3> DEFINE k == [batch[t] EXCEPT !.FeeTxStatus = "error"]
    <3>1. k \in Ticket /\ Sound(owner', tkt', fee', sent', t, k) /\ Plan(t, k, "write")
      BY <1>3, <2>2, SoundFailed
    <3> HIDE DEF k
    <3> QED BY <1>1, <1>2, <3>1, PlanOK
  <2>3. CASE /\ fee[batch[t].FeeTxHash] = "final"
             /\ Plan(t, [batch[t] EXCEPT !.FeeTxHex = None, !.FeeTxStatus = "confirmed"], "write")
    <3> DEFINE k == [batch[t] EXCEPT !.FeeTxHex = None, !.FeeTxStatus = "confirmed"]
    <3>1. k \in Ticket /\ Sound(owner', tkt', fee', sent', t, k) /\ Plan(t, k, "write")
      BY <1>2, <1>3, <2>3, SoundPaid
    <3> HIDE DEF k
    <3> QED BY <1>1, <1>2, <3>1, PlanOK
  <2> QED BY <2>1, <2>2, <2>3 DEF unconfirmedFee
<1>5. clients' \in SUBSET Wallets
  BY DEF unconfirmedFee, Inv, TypeOK
<1>6. faults' \in 0 .. MaxFaults
  BY FaultBound DEF unconfirmedFee
<1> QED BY <1>4, <1>5, <1>6, WalletsStay, DatabaseQuiet, QuietStep DEF unconfirmedFee

(* The copy is stored; only a confirmed fee gets its ticket to the         *)
(* wallets.                                                                *)
LEMMA feeWriteBackStep ==
    ASSUME Inv, feeWriteBack PROVE Inv'
<1>1. /\ phase = "wallets" /\ step = "write" /\ phase' = phase /\ todo = {} /\ cur \in Tickets
      /\ batch[cur] # None /\ clients' = clients
  BY NothingToDo DEF feeWriteBack, Working, Inv, EveryCopySound, CurrentOK
<1>2. WorldGrows /\ tkt' = tkt /\ fee' = fee /\ owner' = owner /\ sent' = sent
  BY SameWorld DEF feeWriteBack, chain
<1>3. db' \in TicketBucket /\ DatabaseOK'
  BY <1>1, CopyWritten DEF feeWriteBack
<1>4. /\ phase' \in Phases /\ batch' \in TicketBucket
      /\ cur' \in Tickets \cup {None} /\ step' \in Steps
      /\ todo' \in SUBSET (Wallets \X Tickets)
      /\ CopiesOK' /\ CurrentOK' /\ TodoOK'
  <2>1. CASE NextTicket(cur) /\ UNCHANGED todo
    BY <1>1, <1>2, <2>1, NextTicketOK
  <2>2. CASE /\ batch[cur].FeeTxStatus = "confirmed"
             /\ step' = "add" /\ todo' = clients \X {cur} /\ UNCHANGED <<batch, cur>>
    <3>1. CopiesOK'
      BY <1>1, <1>2, <2>2 DEF Inv, EveryCopySound, CopiesOK, RecordOK
    <3>2. CurrentOK' /\ TodoOK'
      BY <1>1, <2>2 DEF CurrentOK, TodoOK
    <3>3. todo' \in SUBSET (Wallets \X Tickets)
      BY <1>1, <2>2 DEF Inv, TypeOK
    <3> QED BY <1>1, <2>2, <3>1, <3>2, <3>3 DEF Inv, TypeOK, Steps
  <2> QED BY <2>1, <2>2 DEF feeWriteBack
<1>5. clients' \in SUBSET Wallets
  BY <1>1 DEF Inv, TypeOK
<1>6. faults' \in 0 .. MaxFaults
  BY FaultBound DEF feeWriteBack
<1> QED BY <1>3, <1>4, <1>5, <1>6, WalletsStay, QuietStep DEF feeWriteBack

(* A ticket whose fee is confirmed may be given to a wallet.               *)
LEMMA HoldTicket ==
    ASSUME Inv, UNCHANGED <<owner, chain>>, NEW w \in Wallets, NEW t \in Tickets,
           batch[t] # None, batch[t].FeeTxStatus = "confirmed",
           held' \in {held, held \cup {<<w, t>>}}
    PROVE  held' \in SUBSET (Wallets \X Tickets) /\ HeldTicketsPaid'
<1>1. batch[t] \in Ticket /\ Sound(owner, tkt, fee, sent, t, batch[t])
  BY ListedCopy
<1> DEFINE f == batch[t].FeeTxHash
           a == batch[t].FeeAddress
<1>2. f \in FeeTxs /\ fee[f] = "final"
  BY <1>1, FeeTxKnown DEF Sound, ChainAgrees
<1>3. a \in 1 .. MaxAddr /\ owner[a] = t
  BY <1>1 DEF Sound, OwnAddress
<1>4. Payment[f][a] > 0
  <2>1. Payment[f][a] \in Nat /\ batch[t].FeeAmount \in Nat
    <3>1. batch[t].FeeAmount \in Nat
      BY <1>1 DEF Ticket
    <3> HIDE DEF f, a
    <3>2. Payment[f] \in [1 .. MaxAddr -> Nat]
      BY <1>2, ConstantsAssumption
    <3> QED BY <1>3, <3>1, <3>2
  <2>2. batch[t].FeeAmount > 0 /\ Payment[f][a] >= batch[t].FeeAmount
    BY <1>1 DEF Sound, FeeFieldsAgree, FeeInHand
  <2> QED BY <2>1, <2>2
<1>5. owner' = owner /\ fee' = fee
  BY DEF chain
<1>6. HeldTicketsPaid
  BY DEF Inv, EveryCopySound
<1>7. held' \in SUBSET (Wallets \X Tickets)
  BY DEF Inv, TypeOK
<1> HIDE DEF f, a
<1>8. HeldTicketsPaid'
  BY <1>2, <1>3, <1>4, <1>5, <1>6 DEF HeldTicketsPaid
<1> QED BY <1>7, <1>8

(* What the task does about one wallet's vote choice.                      *)
LEMMA ChoiceSet ==
    ASSUME Inv, UNCHANGED <<owner, chain, sent>>, NEW w \in Wallets, NEW t \in Tickets,
           batch[t] # None,
           SetVoteChoice(w, t) \/ UNCHANGED <<db, batch, pref, faults>>
    PROVE  /\ db' \in TicketBucket /\ DatabaseOK'
           /\ pref' \in [Wallets \X Tickets -> Choices \cup {None}]
           /\ faults' \in 0 .. MaxFaults
           /\ batch' \in TicketBucket
           /\ \A u \in Tickets :
                 /\ batch'[u] # None <=> batch[u] # None
                 /\ batch'[u] # None =>
                      /\ Sound(owner', tkt', fee', sent', u, batch'[u])
                      /\ batch'[u].FeeTxStatus = batch[u].FeeTxStatus
                      /\ batch'[u].Confirmed = batch[u].Confirmed
<1>1. WorldGrows /\ tkt' = tkt /\ fee' = fee /\ owner' = owner /\ sent' = sent
  BY SameWorld DEF chain
<1>2. batch[t] \in Ticket /\ Sound(owner, tkt, fee, sent, t, batch[t])
  BY ListedCopy
<1>3. faults' \in 0 .. MaxFaults
  BY FaultBound DEF SetVoteChoice
<1>4. pref' \in [Wallets \X Tickets -> Choices \cup {None}]
  <2>1. batch[t].VoteChoices \in Choices \cup {None}
    BY <1>2 DEF Ticket
  <2> QED BY <2>1 DEF SetVoteChoice, Inv, TypeOK
<1>5. ASSUME NEW u \in Tickets, batch[u] # None PROVE Sound(owner', tkt', fee', sent', u, batch[u])
  BY <1>1, <1>5, ListedCopy
<1>6. CASE UNCHANGED <<db, batch>>
  BY <1>3, <1>4, <1>5, <1>6, DatabaseQuiet DEF Inv, TypeOK
<1>7. CASE removeAgenda(t)
  <2> DEFINE k == [batch[t] EXCEPT !.VoteChoices = None]
  <2>1. k \in Ticket /\ Sound(owner', tkt', fee', sent', t, k)
        /\ k.FeeTxStatus = batch[t].FeeTxStatus /\ k.Confirmed = batch[t].Confirmed
    BY <1>1, <1>2, SoundChoice
  <2>2. batch' = [batch EXCEPT ![t] = k] /\ db' = UpdateTicket(db, t, k)
    BY <1>7 DEF removeAgenda
  <2> HIDE DEF k
  <2>3. db' \in TicketBucket /\ DatabaseOK'
    BY <1>1, <2>1, <2>2, DatabaseWrite
  <2>4. batch' \in TicketBucket /\ batch'[t] = k /\ \A u \in Tickets : u # t => batch'[u] = batch[u]
    BY <2>1, <2>2 DEF Inv, TypeOK, TicketBucket
  <2> QED BY <1>3, <1>4, <1>5, <2>1, <2>3, <2>4, NoneAssumption
<1> QED BY <1>6, <1>7 DEF SetVoteChoice

(* A wallet is given a ticket whose fee is confirmed.                      *)
LEMMA addTicketForVotingStep ==
    ASSUME Inv, NEW w \in Wallets, addTicketForVoting(w) PROVE Inv'
<1>1. /\ phase = "wallets" /\ step = "add" /\ cur \in Tickets /\ batch[cur] # None
      /\ batch[cur].FeeTxStatus = "confirmed" /\ todo' \subseteq todo
      /\ UNCHANGED <<phase, cur, step, clients>>
  BY DEF addTicketForVoting, Working, Inv, EveryCopySound, CurrentOK
<1>2. held' \in SUBSET (Wallets \X Tickets) /\ HeldTicketsPaid'
  BY <1>1, HoldTicket DEF addTicketForVoting
<1>3. /\ db' \in TicketBucket /\ DatabaseOK'
      /\ pref' \in [Wallets \X Tickets -> Choices \cup {None}]
      /\ faults' \in 0 .. MaxFaults
      /\ batch' \in TicketBucket
      /\ \A u \in Tickets :
            /\ batch'[u] # None <=> batch[u] # None
            /\ batch'[u] # None =>
                 /\ Sound(owner', tkt', fee', sent', u, batch'[u])
                 /\ batch'[u].FeeTxStatus = batch[u].FeeTxStatus
                 /\ batch'[u].Confirmed = batch[u].Confirmed
  <2>1. CASE SetVoteChoice(w, cur) \/ UNCHANGED <<db, batch, pref, faults>>
    BY <1>1, <2>1, ChoiceSet DEF addTicketForVoting
  <2>2. CASE Fault /\ UNCHANGED <<db, batch, pref>>
    <3>1. SetVoteChoice(w, cur)
      BY <2>2 DEF SetVoteChoice
    <3> QED BY <1>1, <3>1, ChoiceSet DEF addTicketForVoting
  <2> QED BY <2>1, <2>2 DEF addTicketForVoting
<1>4. CopiesOK'
  BY <1>1, <1>3 DEF Inv, EveryCopySound, CopiesOK, RecordOK, isPendingFee, isUnconfirmedFee
<1>5. CurrentOK'
  BY <1>1, <1>3 DEF CurrentOK
<1>6. todo' \in SUBSET (Wallets \X Tickets) /\ TodoOK'
  BY <1>1, <1>3 DEF Inv, TypeOK, EveryCopySound, TodoOK
<1>7. /\ phase' \in Phases /\ cur' \in Tickets \cup {None} /\ step' \in Steps
      /\ clients' \in SUBSET Wallets /\ acked' \in [Tickets -> SUBSET FeeTxs]
  BY <1>1 DEF addTicketForVoting, Inv, TypeOK
<1> QED BY <1>2, <1>3, <1>4, <1>5, <1>6, <1>7, QuietStep DEF addTicketForVoting

(* A wallet is given a votable ticket it did not hold.                     *)
LEMMA addMissingStep ==
    ASSUME Inv, NEW w \in Wallets, NEW t \in Tickets, addMissing(w, t) PROVE Inv'
<1>1. /\ phase = "addMissing" /\ batch[t] # None /\ batch[t].FeeTxStatus = "confirmed"
      /\ todo' \subseteq todo /\ UNCHANGED <<phase, batch, cur, step, clients>>
  BY DEF addMissing, Inv, EveryCopySound, TodoOK
<1>2. held' \in SUBSET (Wallets \X Tickets) /\ HeldTicketsPaid'
  BY <1>1, HoldTicket DEF addMissing
<1>3. tkt' = tkt /\ fee' = fee /\ owner' = owner /\ sent' = sent
  BY DEF addMissing, chain
<1>4. CopiesOK'
  BY <1>1, <1>3 DEF Inv, EveryCopySound, CopiesOK, RecordOK
<1>5. CurrentOK'
  BY <1>1, <1>3 DEF Inv, EveryCopySound, CurrentOK
<1>6. todo' \in SUBSET (Wallets \X Tickets) /\ TodoOK'
  BY <1>1 DEF Inv, TypeOK, EveryCopySound, TodoOK
<1>7. /\ phase' \in Phases /\ batch' \in TicketBucket /\ cur' \in Tickets \cup {None}
      /\ step' \in Steps /\ clients' \in SUBSET Wallets
      /\ pref' \in [Wallets \X Tickets -> Choices \cup {None}]
      /\ acked' \in [Tickets -> SUBSET FeeTxs]
  BY <1>1 DEF addMissing, Inv, TypeOK
<1>8. faults' \in 0 .. MaxFaults
  BY FaultBound DEF addMissing
<1> QED BY <1>2, <1>4, <1>5, <1>6, <1>7, <1>8, DatabaseQuiet, QuietStep DEF addMissing

(* A wallet's choice is corrected.                                         *)
LEMMA fixChoicesStep ==
    ASSUME Inv, NEW w \in Wallets, NEW t \in Tickets, fixChoices(w, t) PROVE Inv'
<1>1. /\ phase = "fixChoices" /\ batch[t] # None
      /\ todo' \subseteq todo /\ UNCHANGED <<phase, cur, step, clients, held>>
  BY DEF fixChoices, Inv, EveryCopySound, TodoOK
<1>2. /\ db' \in TicketBucket /\ DatabaseOK'
      /\ pref' \in [Wallets \X Tickets -> Choices \cup {None}]
      /\ faults' \in 0 .. MaxFaults
      /\ batch' \in TicketBucket
      /\ \A u \in Tickets :
            /\ batch'[u] # None <=> batch[u] # None
            /\ batch'[u] # None =>
                 /\ Sound(owner', tkt', fee', sent', u, batch'[u])
                 /\ batch'[u].FeeTxStatus = batch[u].FeeTxStatus
                 /\ batch'[u].Confirmed = batch[u].Confirmed
  BY <1>1, ChoiceSet DEF fixChoices
<1>3. CopiesOK'
  BY <1>1, <1>2 DEF Inv, EveryCopySound, CopiesOK, RecordOK, isPendingFee, isUnconfirmedFee
<1>4. CurrentOK'
  <2>1. step \in {"next", "scan"} => cur = None
    BY DEF Inv, EveryCopySound, CurrentOK
  <2>2. step \in {"delete", "write", "add"} => cur \in Tickets /\ batch[cur] # None
    BY DEF Inv, EveryCopySound, CurrentOK
  <2>3. step # "delete" /\ step # "scan" /\ step # "add"
    BY <1>1 DEF Inv, EveryCopySound, CurrentOK
  <2> QED BY <1>1, <1>2, <2>1, <2>2, <2>3 DEF CurrentOK
<1>5. todo' \in SUBSET (Wallets \X Tickets) /\ TodoOK'
  BY <1>1, <1>2 DEF Inv, TypeOK, EveryCopySound, TodoOK
<1>6. /\ phase' \in Phases /\ cur' \in Tickets \cup {None} /\ step' \in Steps
      /\ clients' \in SUBSET Wallets /\ acked' \in [Tickets -> SUBSET FeeTxs]
      /\ held' \in SUBSET (Wallets \X Tickets)
  BY <1>1 DEF fixChoices, Inv, TypeOK
<1>7. HeldTicketsPaid'
  BY <1>1 DEF fixChoices, chain, Inv, EveryCopySound, HeldTicketsPaid
<1> QED BY <1>2, <1>3, <1>4, <1>5, <1>6, <1>7, QuietStep DEF fixChoices

(* Only tickets that the chain shows as spent get an outcome.              *)
LEMMA findSpentTicketsStep ==
    ASSUME Inv, findSpentTickets PROVE Inv'
<1>1. /\ phase = "outcomes" /\ step = "scan" /\ step' = "next" /\ cur = None /\ todo = {}
      /\ UNCHANGED <<phase, cur, clients, todo>>
  BY NothingToDo DEF findSpentTickets, Working, Inv, EveryCopySound, CurrentOK
<1>2. PICK found \in SUBSET {t \in Tickets : batch[t] # None /\ tkt[t] \in Spent},
           revoked \in {"missed", "expired"} :
          batch' = [t \in Tickets |->
                      IF t \in found THEN WithOutcome(batch[t], tkt[t], revoked) ELSE None]
  BY DEF findSpentTickets
<1>3. tkt' = tkt /\ fee' = fee /\ owner' = owner /\ sent' = sent
  BY DEF findSpentTickets, chain
<1> DEFINE k(t) == WithOutcome(batch[t], tkt[t], revoked)
<1>4. ASSUME NEW t \in found PROVE k(t) \in Ticket /\ Sound(owner, tkt, fee, sent, t, k(t))
  <2>1. t \in Tickets /\ batch[t] # None /\ tkt[t] \in Spent
    OBVIOUS
  <2>2. /\ batch[t] \in Ticket /\ Sound(owner, tkt, fee, sent, t, batch[t])
        /\ batch[t].FeeTxStatus = "confirmed"
    BY <1>1, <2>1, ListedCopy DEF Inv, EveryCopySound, CopiesOK
  <2> QED BY <2>1, <2>2, SoundOutcome
<1>5. batch' = [t \in Tickets |-> IF t \in found THEN k(t) ELSE None]
  BY <1>2
<1> HIDE DEF k
<1>6. /\ batch' \in TicketBucket
      /\ \A t \in Tickets : batch'[t] # None => Sound(owner, tkt, fee, sent, t, batch'[t])
  BY <1>4, <1>5 DEF TicketBucket
<1>7. CopiesOK' /\ CurrentOK' /\ TodoOK'
  BY <1>1, <1>3, <1>6 DEF CopiesOK, RecordOK, CurrentOK, TodoOK
<1>8. /\ phase' \in Phases /\ cur' \in Tickets \cup {None} /\ step' \in Steps
      /\ clients' \in SUBSET Wallets /\ todo' \in SUBSET (Wallets \X Tickets)
      /\ faults' \in 0 .. MaxFaults
  BY <1>1 DEF findSpentTickets, Inv, TypeOK, Steps
<1> QED BY <1>6, <1>7, <1>8, WalletsStay, DatabaseQuiet, QuietStep DEF findSpentTickets

(* Every step of the background task after it has started.                 *)
LEMMA TaskPreserves ==
    ASSUME Inv, TaskStep PROVE Inv'
  BY unconfirmedTicketStep, pendingFeeStep, unconfirmedFeeStep, writeOutcomeStep,
     unconfirmedDeleteStep, writeBackStep, feeWriteBackStep, broadcastFeesStep, addToWalletsStep,
     setOutcomesStep, findSpentTicketsStep, updateDoneStep, addTicketForVotingStep, ticketAddedStep,
     addMissingStep, fixChoicesStep, addMissingDoneStep, consistencyDoneStep
  DEF TaskStep

-----------------------------------------------------------------------------
(* Crash and restart, and the theorems.                                    *)

(* A restart drops all copies in flight and keeps the database.            *)
LEMMA RestartStep ==
    ASSUME Inv, Restart PROVE Inv'
<1>1. WorldGrows /\ tkt' = tkt /\ fee' = fee /\ owner' = owner /\ sent' = sent /\ now' = now
  BY SameWorld DEF Restart
<1>2. /\ pc' \in [Requests -> PCs]
      /\ about' \in [Requests -> Tickets \cup {None}]
      /\ snap' \in [Requests -> Ticket \cup {None}]
      /\ HandlersOK'
  BY DEF Restart, PCs, HandlersOK, HandlerOK
<1>3. /\ phase' \in Phases /\ batch' \in TicketBucket
      /\ cur' \in Tickets \cup {None} /\ step' \in Steps
      /\ CopiesOK' /\ CurrentOK'
  BY <1>1, EnterIdle DEF Restart, Phases
<1>4. TodoOK' /\ todo' = {} /\ clients' = {}
  BY DEF Restart, TodoOK
<1>5. DatabaseOK' /\ AddressesOK' /\ NoEarlyBroadcast' /\ HeldTicketsPaid'
  BY <1>1, DatabaseStays, LedgerStays DEF Restart, wallets
<1>6. faults' \in 0 .. MaxFaults
  BY FaultBound DEF Restart
<1>7. TypeOK'
  BY <1>1, <1>2, <1>3, <1>4, <1>6 DEF Restart, wallets, Inv, TypeOK
<1> QED BY <1>2, <1>3, <1>4, <1>5, <1>7 DEF Inv, EveryCopySound

(* The invariant holds in the empty database.                              *)
LEMMA InitInv == Init => Inv
<1> SUFFICES ASSUME Init PROVE Inv
  OBVIOUS
<1>1. TypeOK
  BY ConstantsAssumption DEF Init, TypeOK, TicketBucket, NoTickets, TicketState, FeeState, Phases, Steps, PCs
<1>2. DatabaseOK /\ HandlersOK /\ CopiesOK
  BY DEF Init, NoTickets, DatabaseOK, HandlersOK, HandlerOK, CopiesOK
<1>3. CurrentOK /\ TodoOK /\ AddressesOK /\ NoEarlyBroadcast /\ HeldTicketsPaid
  BY DEF Init, CurrentOK, TodoOK, AddressesOK, NoEarlyBroadcast, HeldTicketsPaid
<1> QED BY <1>1, <1>2, <1>3 DEF Inv, EveryCopySound

(* The invariant depends on the variables of the specification only.       *)
LEMMA StutterInv == ASSUME Inv, UNCHANGED vars PROVE Inv'
<1>1. WorldGrows /\ tkt' = tkt
  BY SameWorld DEF vars, chain
<1>2. step = "delete" => tkt'[cur] \notin Final
  BY <1>1 DEF Inv, EveryCopySound, CurrentOK
<1> QED BY <1>1, <1>2, WorldStep DEF vars, chain, Inv, TypeOK

(* The invariant is inductive.                                             *)
LEMMA NextInv == Inv /\ [Next]_vars => Inv'
<1> SUFFICES ASSUME Inv, [Next]_vars PROVE Inv'
  OBVIOUS
<1>1. CASE Chain
  BY <1>1, ChainPreserves
<1>2. ASSUME NEW r \in Requests, Handler(r) PROVE Inv'
  BY <1>2, HandlerPreserves
<1>3. CASE updateUnconfirmed \/ checkWalletConsistency \/ TaskStep
  BY <1>3, updateUnconfirmedStep, checkWalletConsistencyStep, TaskPreserves
<1>4. CASE Restart
  BY <1>4, RestartStep
<1>5. CASE UNCHANGED vars
  BY <1>5, StutterInv
<1> QED BY <1>1, <1>2, <1>3, <1>4, <1>5 DEF Next

(* Every copy of every record, in the database or in the hands of a        *)
(* handler or of the background task, is sound in every reachable state.   *)
THEOREM Soundness == Spec => []Inv
  BY InitInv, NextInv, PTL DEF Spec

(* Every variable keeps its type.                                          *)
THEOREM TypeCorrect == Spec => []TypeOK
<1>1. Inv => TypeOK
  BY DEF Inv
<1> QED BY <1>1, Soundness, PTL

(* No interleaving of handlers, task, chain and restarts makes a copy      *)
(* unsound.                                                                *)
THEOREM CopiesSound == Spec => []EveryCopySound
<1>1. Inv => EveryCopySound
  BY DEF Inv
<1> QED BY <1>1, Soundness, PTL

(* The fee transaction of a stored record pays the address and the amount  *)
(* of that record.                                                         *)
THEOREM FeesPaid == Spec => []StoredFeeIsPaid
<1>1. Inv => StoredFeeIsPaid
  BY DEF Inv, EveryCopySound, DatabaseOK, RecordOK, Sound, StoredFeeIsPaid
<1> QED BY <1>1, Soundness, PTL

(* A stored record never claims more than the chain has shown.             *)
THEOREM RecordsTrue == Spec => []StoredRecordIsTrue
<1>1. Inv => StoredRecordIsTrue
  BY DEF Inv, EveryCopySound, DatabaseOK, RecordOK, Sound, StoredRecordIsTrue
<1> QED BY <1>1, Soundness, PTL

(* No two stored tickets share a fee address.                              *)
THEOREM AddressesDistinct == Spec => []FeeAddressesDistinct
<1>1. Inv => FeeAddressesDistinct
  BY DEF Inv, EveryCopySound, DatabaseOK, RecordOK, Sound, OwnAddress, FeeAddressesDistinct
<1> QED BY <1>1, Soundness, PTL

(* Fees are passed to dcrd for final tickets only, by payFee and by        *)
(* broadcastFees.                                                          *)
THEOREM BroadcastAfterConfirmation == Spec => []NoEarlyBroadcast
<1>1. Inv => NoEarlyBroadcast
  BY DEF Inv, EveryCopySound
<1> QED BY <1>1, Soundness, PTL

(* Wallets hold only tickets that a confirmed transaction pays for.        *)
THEOREM WalletsHoldPaidTickets == Spec => []HeldTicketsPaid
<1>1. Inv => HeldTicketsPaid
  BY DEF Inv, EveryCopySound
<1> QED BY <1>1, Soundness, PTL

(* A step that makes a stored ticket disappear is a deletion by            *)
(* updateUnconfirmed, and its ticket is not final.                         *)
LEMMA OnlyUnconfirmedDeleted ==
    ASSUME Inv, Next, NEW t \in Tickets, db[t] # None, db'[t] = None
    PROVE  tkt[t] \notin Final
<1>1. ASSUME NEW u \in Tickets, NEW k \in Ticket,
             \/ db' = UpdateTicket(db, u, k)
             \/ db' = InsertNewTicket(db, u, k)
      PROVE  FALSE
  <2>1. db' = db \/ db' = [db EXCEPT ![u] = k]
    BY <1>1, Zenon DEF UpdateTicket, InsertNewTicket
  <2>2. db \in [Tickets -> Ticket \cup {None}]
    BY DEF Inv, TypeOK, TicketBucket
  <2> QED BY <2>1, <2>2, NoneAssumption
<1>2. CASE UNCHANGED db
  BY <1>2
<1>3. CASE Chain
  BY <1>2, <1>3 DEF Chain, PublishTicket, DropTicket, ConfirmTicket, SpendTicket, MoveFee, Tick, Redial
<1>4. ASSUME NEW r \in Requests, Handler(r) PROVE FALSE
  <2>1. CASE UNCHANGED db
    BY <2>1
  <2>2. CASE /\ pc[r] \in {"renew", "insert", "storeFee", "recordSend", "storeChoices"}
             /\ \/ db' = UpdateTicket(db, about[r], snap[r])
                \/ db' = InsertNewTicket(db, about[r], snap[r])
    <3>1. about[r] \in Tickets /\ snap[r] \in Ticket
      BY <2>2, HandlerCopy DEF Ready
    <3> QED BY <1>1, <2>2, <3>1
  <2> QED
    BY <1>4, <2>1, <2>2 DEF Handler, vspAuth, Answer, feeAddressExpired, feeAddressRenew, feeAddressNew,
       feeAddressInsert, payFee, payFeeStore, payFeeSend, payFeeRecordSend, payFeeRespond,
       setVoteChoices, setVoteChoicesStore, setVoteChoicesWallets
<1>5. CASE updateUnconfirmed \/ checkWalletConsistency \/ Restart
  BY <1>2, <1>5 DEF updateUnconfirmed, checkWalletConsistency, Restart
<1>6. CASE TaskStep
  <2>1. CASE unconfirmedDelete
    <3>1. cur \in Tickets /\ tkt[cur] \notin Final /\ db' = [db EXCEPT ![cur] = None]
      BY <2>1 DEF unconfirmedDelete, Working, DeleteTicket, Inv, EveryCopySound, CurrentOK
    <3> QED BY <3>1 DEF Inv, TypeOK, TicketBucket
  <2>2. CASE writeBack \/ feeWriteBack
    <3>1. cur \in Tickets /\ batch[cur] # None /\ db' = UpdateTicket(db, cur, batch[cur])
      BY <2>2 DEF writeBack, feeWriteBack, Working, Inv, EveryCopySound, CurrentOK
    <3> QED BY <1>1, <3>1, ListedCopy
  <2>3. ASSUME NEW u \in Tickets, writeOutcome(u) PROVE FALSE
    BY <1>1, <2>3, ListedCopy DEF writeOutcome
  <2>4. ASSUME NEW w \in Wallets, NEW u \in Tickets, batch[u] # None,
               SetVoteChoice(w, u) \/ UNCHANGED db
        PROVE  FALSE
    <3>1. CASE removeAgenda(u)
      <4> DEFINE k == [batch[u] EXCEPT !.VoteChoices = None]
      <4>1. k \in Ticket
        BY <2>4, ListedCopy, SoundChoice
      <4>2. db' = UpdateTicket(db, u, k)
        BY <3>1 DEF removeAgenda
      <4> HIDE DEF k
      <4> QED BY <1>1, <4>1, <4>2
    <3> QED BY <2>4, <3>1 DEF SetVoteChoice
  <2>5. ASSUME NEW w \in Wallets, addTicketForVoting(w) PROVE FALSE
    <3>1. cur \in Tickets /\ batch[cur] # None
      BY <2>5 DEF addTicketForVoting, Working, Inv, EveryCopySound, CurrentOK
    <3> QED BY <2>4, <2>5, <3>1 DEF addTicketForVoting
  <2>6. ASSUME NEW w \in Wallets, NEW u \in Tickets, fixChoices(w, u) PROVE FALSE
    <3>1. batch[u] # None
      BY <2>6 DEF fixChoices, Inv, EveryCopySound, TodoOK
    <3> QED BY <2>4, <2>6, <3>1 DEF fixChoices
  <2>7. CASE UNCHANGED db
    BY <2>7
  <2> QED
    BY <1>6, <2>1, <2>2, <2>3, <2>5, <2>6, <2>7
    DEF TaskStep, unconfirmedTicket, pendingFee, unconfirmedFee, broadcastFees, addToWallets,
        setOutcomes, findSpentTickets, updateDone, ticketAdded, addMissing, addMissingDone,
        consistencyDone
<1> QED BY <1>3, <1>4, <1>5, <1>6 DEF Next

(* updateUnconfirmed never deletes a ticket whose fee vspd has broadcast:  *)
(* a fee is broadcast only for a final ticket, and only tickets that are   *)
(* not final are deleted.                                                  *)
THEOREM PaidTicketsKept == Spec => NoPaidTicketDeleted
<1> DEFINE Kept == \A t \in Tickets :
              (db[t] # None /\ db'[t] = None) => \A f \in FeeTxs : <<t, f>> \notin sent
<1>1. Inv /\ [Next]_vars => [Kept]_vars
  <2> SUFFICES ASSUME Inv, Next PROVE Kept
    OBVIOUS
  <2>1. NoEarlyBroadcast
    BY DEF Inv, EveryCopySound
  <2> QED BY <2>1, OnlyUnconfirmedDeleted DEF NoEarlyBroadcast
<1> QED BY <1>1, Soundness, PTL DEF Spec, NoPaidTicketDeleted

-----------------------------------------------------------------------------
(* Updates end.  When the background task runs is a matter of fairness,    *)
(* but that a run comes to an end is not.                                  *)

Smaller(A, B) == A \subseteq B /\ A # B

(* What is still to be done with the ticket the task works on.             *)
Rank(s) == CASE s = "scan" -> 4 [] s = "next" -> 3 [] s = "add" -> 1 [] OTHER -> 2

NextPhase ==
    { <<"unconfirmed", "fees">>, <<"fees", "wallets">>, <<"wallets", "outcomes">>,
      <<"addMissing", "fixChoices">> }

(* A later phase, fewer tickets on the list, less to do for the ticket in  *)
(* hand, or fewer wallets to call.                                         *)
LessToDo ==
    /\ phase' = phase
    /\ \/ Smaller(Listed', Listed)
       \/ Listed' = Listed /\ Rank(step') < Rank(step)
       \/ Listed' = Listed /\ step' = step /\ Smaller(todo', todo)

TaskForward == phase' = "idle" \/ <<phase, phase'>> \in NextPhase \/ LessToDo

(* Every step of update and of checkWalletConsistency brings the run       *)
(* closer to its end, whatever dcrd and the wallets answer, and what       *)
(* handlers, clients and blocks do meanwhile does not take it back: a list *)
(* is read once and no ticket is added to it.                              *)
UpdatesAdvance ==
    [][/\ TaskStep => TaskForward
       /\ phase # "idle" /\ ~TaskStep => phase' = "idle" \/ UNCHANGED task]_vars

(* The task goes on with the next ticket: the list is shorter.             *)
LEMMA ListShrinks ==
    ASSUME Inv, NEW t \in Tickets, batch[t] # None, NextTicket(t), phase' = phase
    PROVE  LessToDo
<1>1. batch' = [batch EXCEPT ![t] = None] /\ batch \in [Tickets -> Ticket \cup {None}]
  BY DEF NextTicket, Inv, TypeOK, TicketBucket
<1>2. t \in Listed /\ t \notin Listed' /\ Listed' \subseteq Listed
  BY <1>1 DEF Listed
<1> QED BY <1>2 DEF LessToDo, Smaller

(* The task has decided about ticket t: the list is as long as before, but *)
(* less is to be done with t.                                              *)
LEMMA PlanForward ==
    ASSUME Inv, NEW t \in Tickets, batch[t] # None, NEW k \in Ticket,
           NEW s \in {"delete", "write"}, step = "next", Plan(t, k, s), phase' = phase
    PROVE  LessToDo
<1>1. batch' = [batch EXCEPT ![t] = k] /\ step' = s /\ batch \in [Tickets -> Ticket \cup {None}]
  BY DEF Plan, Inv, TypeOK, TicketBucket
<1>2. Listed' = Listed
  BY <1>1, NoneAssumption DEF Listed
<1>3. Rank(step') < Rank(step)
  BY <1>1 DEF Rank
<1> QED BY <1>2, <1>3 DEF LessToDo

(* A wallet was called about a ticket: the list is as long as before.      *)
LEMMA WalletCalled ==
    ASSUME Inv, UNCHANGED <<owner, chain, sent, phase, step>>,
           NEW w \in Wallets, NEW t \in Tickets, <<w, t>> \in todo, todo' = todo \ {<<w, t>>},
           batch[t] # None, SetVoteChoice(w, t) \/ UNCHANGED batch
    PROVE  LessToDo
<1>1. batch' \in [Tickets -> Ticket \cup {None}] /\ \A u \in Tickets : batch'[u] # None <=> batch[u] # None
  <2>1. CASE UNCHANGED batch
    BY <2>1 DEF Inv, TypeOK, TicketBucket
  <2>2. CASE SetVoteChoice(w, t)
    BY <2>2, ChoiceSet DEF TicketBucket
  <2> QED BY <2>1, <2>2
<1>2. Listed' = Listed
  BY <1>1 DEF Listed
<1>3. Smaller(todo', todo)
  BY DEF Smaller
<1> QED BY <1>2, <1>3 DEF LessToDo

(* Each step of the task.                                                  *)
LEMMA StepsGoForward ==
    ASSUME Inv, TaskStep PROVE TaskForward
<1>1. ASSUME NEW t \in Tickets, unconfirmedTicket(t) PROVE LessToDo
  <2>1. batch[t] # None /\ batch[t] \in Ticket /\ step = "next" /\ phase' = phase
    BY <1>1, ListedCopy DEF unconfirmedTicket, Working
  <2>2. [batch[t] EXCEPT !.Confirmed = TRUE] \in Ticket
    BY <2>1 DEF Ticket
  <2>3. CASE NextTicket(t)
    BY <2>1, <2>3, ListShrinks
  <2>4. CASE Plan(t, batch[t], "delete")
    BY <2>1, <2>4, PlanForward
  <2>5. CASE Plan(t, [batch[t] EXCEPT !.Confirmed = TRUE], "write")
    BY <2>1, <2>2, <2>5, PlanForward
  <2> QED BY <1>1, <2>3, <2>4, <2>5 DEF unconfirmedTicket
<1>2. ASSUME NEW t \in Tickets, pendingFee(t) PROVE LessToDo
  <2>1. batch[t] # None /\ batch[t] \in Ticket /\ step = "next" /\ phase' = phase
    BY <1>2, ListedCopy DEF pendingFee, Working
  <2>2. PICK ok \in BOOLEAN : Plan(t, AfterSend(batch[t], ok), "write")
    BY <1>2 DEF pendingFee
  <2>3. AfterSend(batch[t], ok) \in Ticket
    BY <2>1 DEF AfterSend, Ticket, FeeStatus
  <2> QED BY <2>1, <2>2, <2>3, PlanForward
<1>3. ASSUME NEW t \in Tickets, unconfirmedFee(t) PROVE LessToDo
  <2>1. batch[t] # None /\ batch[t] \in Ticket /\ step = "next" /\ phase' = phase
    BY <1>3, ListedCopy DEF unconfirmedFee, Working
  <2>2. /\ [batch[t] EXCEPT !.FeeTxStatus = "error"] \in Ticket
        /\ [batch[t] EXCEPT !.FeeTxHex = None, !.FeeTxStatus = "confirmed"] \in Ticket
    BY <2>1 DEF Ticket, FeeStatus
  <2>3. CASE NextTicket(t)
    BY <2>1, <2>3, ListShrinks
  <2>4. CASE Plan(t, [batch[t] EXCEPT !.FeeTxStatus = "error"], "write")
    BY <2>1, <2>2, <2>4, PlanForward
  <2>5. CASE Plan(t, [batch[t] EXCEPT !.FeeTxHex = None, !.FeeTxStatus = "confirmed"], "write")
    BY <2>1, <2>2, <2>5, PlanForward
  <2> QED BY <1>3, <2>3, <2>4, <2>5 DEF unconfirmedFee
<1>4. ASSUME NEW t \in Tickets, writeOutcome(t) PROVE LessToDo
  BY <1>4, ListShrinks DEF writeOutcome
<1>5. ASSUME unconfirmedDelete \/ writeBack \/ ticketAdded PROVE LessToDo
  <2>1. cur \in Tickets /\ batch[cur] # None
    BY <1>5 DEF unconfirmedDelete, writeBack, ticketAdded, Working, Inv, EveryCopySound, CurrentOK
  <2> QED BY <1>5, <2>1, ListShrinks DEF unconfirmedDelete, writeBack, ticketAdded
<1>6. CASE feeWriteBack
  <2>1. cur \in Tickets /\ batch[cur] # None /\ step = "write" /\ phase' = phase
    BY <1>6 DEF feeWriteBack, Working, Inv, EveryCopySound, CurrentOK
  <2>2. CASE NextTicket(cur)
    BY <2>1, <2>2, ListShrinks DEF TaskForward
  <2>3. CASE step' = "add" /\ UNCHANGED batch
    BY <2>1, <2>3 DEF TaskForward, LessToDo, Listed, Rank
  <2> QED BY <1>6, <2>2, <2>3 DEF feeWriteBack
<1>7. CASE findSpentTickets
  <2>1. PICK found \in SUBSET {t \in Tickets : batch[t] # None /\ tkt[t] \in Spent},
             revoked \in {"missed", "expired"} :
            batch' = [t \in Tickets |->
                        IF t \in found THEN WithOutcome(batch[t], tkt[t], revoked) ELSE None]
    BY <1>7 DEF findSpentTickets
  <2>2. Listed' \subseteq Listed
    BY <2>1 DEF Listed
  <2>3. Rank(step') < Rank(step) /\ phase' = phase
    BY <1>7 DEF findSpentTickets, Working, Rank
  <2> QED BY <2>2, <2>3 DEF TaskForward, LessToDo, Smaller
<1>8. ASSUME NEW w \in Wallets, addTicketForVoting(w) PROVE LessToDo
  <2>1. cur \in Tickets /\ batch[cur] # None
    BY <1>8 DEF addTicketForVoting, Working, Inv, EveryCopySound, CurrentOK
  <2> QED BY <1>8, <2>1, WalletCalled DEF addTicketForVoting
<1>9. ASSUME NEW w \in Wallets, NEW t \in Tickets, addMissing(w, t) \/ fixChoices(w, t)
      PROVE  LessToDo
  <2>1. <<w, t>> \in todo /\ batch[t] # None
    BY <1>9 DEF addMissing, fixChoices, Inv, EveryCopySound, TodoOK
  <2> QED BY <1>9, <2>1, WalletCalled DEF addMissing, fixChoices
<1>10. CASE broadcastFees \/ addToWallets \/ setOutcomes \/ addMissingDone
  BY <1>10 DEF broadcastFees, addToWallets, setOutcomes, addMissingDone, ListDone, Working, Enter,
     TaskForward, NextPhase
<1>11. CASE updateDone \/ consistencyDone
  BY <1>11 DEF updateDone, consistencyDone, Enter, TaskForward
<1> QED
  BY <1>1, <1>2, <1>3, <1>4, <1>5, <1>6, <1>7, <1>8, <1>9, <1>10, <1>11 DEF TaskStep, TaskForward

(* A run of update or of checkWalletConsistency terminates for any number  *)
(* of tickets and wallets, because every list it works through is finite.  *)
THEOREM UpdatesEnd == Spec => UpdatesAdvance
<1> DEFINE Forward == /\ TaskStep => TaskForward
                      /\ phase # "idle" /\ ~TaskStep => phase' = "idle" \/ UNCHANGED task
<1>1. Inv /\ [Next]_vars => [Forward]_vars
  <2> SUFFICES ASSUME Inv, Next PROVE Forward
    OBVIOUS
  <2>1. TaskStep => TaskForward
    BY StepsGoForward
  <2>2. CASE Chain
    BY <2>1, <2>2 DEF Chain, PublishTicket, DropTicket, ConfirmTicket, SpendTicket, MoveFee, Tick, Redial
  <2>3. ASSUME NEW r \in Requests, Handler(r) PROVE UNCHANGED task
    BY <2>3 DEF Handler, vspAuth, Answer, feeAddressExpired, feeAddressRenew, feeAddressNew,
       feeAddressInsert, payFee, payFeeStore, payFeeSend, payFeeRecordSend, payFeeRespond,
       setVoteChoices, setVoteChoicesStore, setVoteChoicesWallets
  <2>4. CASE updateUnconfirmed \/ checkWalletConsistency \/ Restart
    BY <2>1, <2>4 DEF updateUnconfirmed, checkWalletConsistency, Restart, Enter
  <2> QED BY <2>1, <2>2, <2>3, <2>4 DEF Next
<1> QED BY <1>1, Soundness, PTL DEF Spec, UpdatesAdvance
=============================================================================
