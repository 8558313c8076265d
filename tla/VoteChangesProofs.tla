------------------------- MODULE VoteChangesProofs -------------------------
(***************************************************************************)
(* Proofs that the bucket of vote changes always has the newest requests,  *)
(* in the order in which they were saved, and that a request is accepted   *)
(* only if it is newer than all of them, for any number of handlers,       *)
(* messages, deliveries and failures.                                      *)
(*                                                                         *)
(* The argument.  SaveVoteChange maps the last entries of a history to the *)
(* last entries of the history that is longer by one (SavedWindow).  Every *)
(* other step leaves bucket and history alone or empties both.  A delivery *)
(* is recorded at most once, which bounds the keys.                        *)
(***************************************************************************)
EXTENDS VoteChanges, FiniteSetTheorems, SequenceTheorems, TLAPS

(* The first key of the bucket after the requests in l were saved.         *)
First(l) == IF Len(l) > maxVoteChangeRecords THEN Len(l) - maxVoteChangeRecords ELSE 0

(* The bucket after the requests in l were saved.                          *)
Window(l) == [k \in First(l) .. Len(l) - 1 |-> l[k + 1]]

Busy == {h \in Handlers : pc[h] # "idle"}

(* A handler has a message exactly while it works on it; every delivery is *)
(* recorded at most once.                                                  *)
HandlersOK == \A h \in Handlers : pc[h] # "idle" => msg[h] \in Messages
RecordedOnce == Len(saved) + Cardinality(Busy) <= deliveries

Inv == TypeOK /\ KeepsNewest /\ HandlersOK /\ RecordedOnce

-----------------------------------------------------------------------------
(* The bucket.                                                             *)

(* The bounds of an interval are its least and its greatest element.       *)
LEMMA IntervalBounds ==
    ASSUME NEW a \in Int, NEW b \in Int, a <= b
    PROVE  Min(a .. b) = a /\ Max(a .. b) = b
<1>1. \A x \in a .. b : (\A y \in a .. b : x <= y) => x = a
  OBVIOUS
<1>2. \A x \in a .. b : (\A y \in a .. b : x >= y) => x = b
  OBVIOUS
<1>3. a \in a .. b /\ \A y \in a .. b : a <= y
  OBVIOUS
<1>4. b \in a .. b /\ \A y \in a .. b : b >= y
  OBVIOUS
<1>5. Min(a .. b) = a
  BY <1>1, <1>3 DEF Min
<1>6. Max(a .. b) = b
  BY <1>2, <1>4 DEF Max
<1> QED
  BY <1>5, <1>6

(* The newest entry is added, and the oldest one dropped from a full       *)
(* bucket: the bucket moves on with the history (SaveVoteChange).          *)
LEMMA SavedWindow ==
    ASSUME NEW l \in Seq(Messages), NEW m \in Messages
    PROVE  SaveVoteChange(Window(l), m) = Window(Append(l, m))
<1> DEFINE n == Len(l)
           keys == DOMAIN Window(l)
           kept == IF Cardinality(keys) >= maxVoteChangeRecords THEN keys \ {Min(keys)} ELSE keys
           newKey == IF keys = {} THEN 0 ELSE Max(keys) + 1
           more == Append(l, m)
<1>1. n \in Nat /\ maxVoteChangeRecords \in Nat \ {0}
  BY VoteChangesAssumption
<1>2. keys = First(l) .. n - 1 /\ First(l) \in Nat /\ First(l) <= n
  BY <1>1 DEF Window, First
<1>3. Cardinality(keys) = n - First(l)
  BY <1>1, <1>2, FS_Interval
<1>4. newKey = n
  <2>1. CASE n = 0
    BY <1>1, <1>2, <2>1
  <2>2. CASE n # 0
    <3>1. First(l) <= n - 1
      BY <1>1, <2>2 DEF First
    <3>2. Max(keys) = n - 1 /\ keys # {}
      BY <1>1, <1>2, <3>1, IntervalBounds
    <3> QED
      BY <1>1, <3>2
  <2> QED
    BY <2>1, <2>2
<1>5. kept = First(more) .. n - 1
  <2>0. Len(more) = n + 1
    OBVIOUS
  <2>1. CASE n >= maxVoteChangeRecords
    <3>1. First(l) = n - maxVoteChangeRecords /\ First(more) = First(l) + 1 /\ First(l) <= n - 1
      BY <1>1, <2>0, <2>1 DEF First
    <3>2. Min(keys) = First(l)
      BY <1>1, <1>2, <3>1, IntervalBounds
    <3>3. kept = keys \ {First(l)}
      BY <1>1, <1>2, <1>3, <3>1, <3>2
    <3>4. \A a, b \in Int : (a .. b) \ {a} = a + 1 .. b
      OBVIOUS
    <3> HIDE DEF kept, keys
    <3> QED
      BY <1>1, <1>2, <3>1, <3>3, <3>4
  <2>2. CASE n < maxVoteChangeRecords
    <3>1. First(l) = 0 /\ First(more) = 0
      BY <1>1, <2>0, <2>2 DEF First
    <3>2. kept = keys
      BY <1>1, <1>3, <2>2, <3>1
    <3> QED
      BY <1>2, <3>1, <3>2
  <2> QED
    BY <1>1, <2>1, <2>2
<1>6. SaveVoteChange(Window(l), m) =
         [k \in kept \cup {newKey} |-> IF k = newKey THEN m ELSE Window(l)[k]]
  BY DEF SaveVoteChange
<1> HIDE DEF keys, kept, newKey
<1>7. First(more) \in Nat /\ First(l) <= First(more) /\ First(more) <= n /\ Len(more) = n + 1
  BY <1>1 DEF First
<1>8. kept \cup {newKey} = First(more) .. Len(more) - 1
  BY <1>1, <1>4, <1>5, <1>7
<1>9. \A k \in First(more) .. Len(more) - 1 :
         (IF k = newKey THEN m ELSE Window(l)[k]) = more[k + 1]
  <2> TAKE k \in First(more) .. Len(more) - 1
  <2>1. CASE k = n
    BY <1>1, <1>4, <2>1
  <2>2. CASE k # n
    <3>1. k \in First(l) .. n - 1 /\ k + 1 \in 1 .. n
      BY <1>1, <1>2, <1>7, <2>2
    <3>2. Window(l)[k] = l[k + 1]
      BY <3>1 DEF Window
    <3> QED
      BY <1>1, <1>4, <2>2, <3>1, <3>2
  <2> QED
    BY <2>1, <2>2
<1> QED
  BY <1>6, <1>8, <1>9 DEF Window

(* What KeepsNewest says.                                                  *)
LEMMA NewestIsWindow == KeepsNewest <=> changes = Window(saved)
BY DEF KeepsNewest, Window, First

(* Its keys and values have their types as long as the history is short    *)
(* enough.                                                                 *)
LEMMA WindowType ==
    ASSUME NEW l \in Seq(Messages), NEW n \in Nat, Len(l) <= n
    PROVE  /\ DOMAIN Window(l) \subseteq 0 .. n
           /\ \A k \in DOMAIN Window(l) : Window(l)[k] \in Messages
<1>1. Len(l) \in Nat /\ First(l) \in Nat /\ \A k \in 1 .. Len(l) : l[k] \in Messages
  BY VoteChangesAssumption DEF First
<1> QED
  BY <1>1 DEF Window

-----------------------------------------------------------------------------
(* The steps of the handlers.                                              *)

LEMMA BusyFinite ==
    /\ IsFiniteSet(Busy) /\ Cardinality(Busy) \in Nat
    /\ \A h \in Busy : Cardinality(Busy \ {h}) = Cardinality(Busy) - 1
    /\ \A h : h \notin Busy => Cardinality(Busy \cup {h}) = Cardinality(Busy) + 1
<1>1. IsFiniteSet(Busy)
  BY VoteChangesAssumption, FS_Subset DEF Busy
<1> QED
  BY <1>1, FS_CardinalityType, FS_RemoveElement, FS_AddElement

(* A handler that goes on keeps its message.                               *)
LEMMA GotoKeeps ==
    ASSUME TypeOK, HandlersOK, NEW h \in Handlers, pc[h] # "idle",
           NEW label \in PCs \ {"idle"}, Goto(h, label)
    PROVE  /\ pc' \in [Handlers -> PCs] /\ msg' \in [Handlers -> Messages \cup {None}]
           /\ snap' \in [Handlers -> FeeStatus]
           /\ HandlersOK' /\ Busy' = Busy
BY DEF TypeOK, HandlersOK, Goto, Busy

(* One that ends leaves one handler less at work.                          *)
LEMMA DoneKeeps ==
    ASSUME TypeOK, HandlersOK, NEW h \in Handlers, pc[h] # "idle", Done(h)
    PROVE  /\ pc' \in [Handlers -> PCs] /\ msg' \in [Handlers -> Messages \cup {None}]
           /\ snap' \in [Handlers -> FeeStatus]
           /\ HandlersOK'
           /\ Cardinality(Busy') = Cardinality(Busy) - 1
<1>1. Busy' = Busy \ {h} /\ h \in Busy
  BY DEF TypeOK, Done, Busy
<1>2. Cardinality(Busy') = Cardinality(Busy) - 1
  BY <1>1, BusyFinite
<1> QED
  BY <1>2 DEF TypeOK, HandlersOK, Done, PCs, FeeStatus

(* Steps that leave the bucket and its history alone.                      *)
LEMMA BucketStays ==
    ASSUME KeepsNewest, UNCHANGED <<changes, saved>>
    PROVE  KeepsNewest'
BY DEF KeepsNewest

(* A fault is counted up to its bound.                                     *)
LEMMA FaultType ==
    ASSUME TypeOK, Fault
    PROVE  faults' \in 0 .. MaxFaults
BY VoteChangesAssumption DEF TypeOK, Fault

(* What is left to show of a step that leaves bucket and history alone.    *)
LEMMA CountKept ==
    ASSUME TypeOK, RecordedOnce, UNCHANGED <<saved, deliveries>>,
           Busy' = Busy \/ Cardinality(Busy') = Cardinality(Busy) - 1
    PROVE  RecordedOnce'
BY BusyFinite DEF TypeOK, RecordedOnce

-----------------------------------------------------------------------------
(* Every step keeps the invariant.                                         *)

(* The steps of others: the ticket is inserted, read, written, deleted.    *)
LEMMA OthersKeep ==
    ASSUME Inv, InsertNewTicket \/ readTicket \/ writeBack \/ DeleteTicket
    PROVE  Inv'
<1>0. UNCHANGED <<handlers, saved, changes, deliveries>>
  BY DEF InsertNewTicket, readTicket, writeBack, DeleteTicket, bounds
<1>1. TypeOK'
  <2>1. known' \in BOOLEAN /\ fee' \in FeeStatus
    BY DEF Inv, TypeOK, InsertNewTicket, readTicket, writeBack, DeleteTicket, ticket, FeeStatus
  <2>2. copy' \in FeeStatus \cup {None} /\ deleting' \in BOOLEAN
    BY DEF Inv, TypeOK, InsertNewTicket, readTicket, writeBack, DeleteTicket
  <2>3. errors' \in 0 .. MaxFeeErrors
    BY VoteChangesAssumption DEF Inv, TypeOK, InsertNewTicket, readTicket, writeBack, DeleteTicket, bounds
  <2>4. faults' \in 0 .. MaxFaults
    BY FaultType DEF Inv, TypeOK, InsertNewTicket, readTicket, writeBack, DeleteTicket, bounds
  <2> QED
    BY <1>0, <2>1, <2>2, <2>3, <2>4 DEF Inv, TypeOK, handlers
<1>2. KeepsNewest'
  BY <1>0, BucketStays DEF Inv
<1>3. HandlersOK' /\ Busy' = Busy
  BY <1>0 DEF Inv, HandlersOK, Busy, handlers
<1>4. RecordedOnce'
  BY <1>0, <1>3, CountKept DEF Inv
<1> QED
  BY <1>1, <1>2, <1>3, <1>4 DEF Inv

(* Bucket and history are emptied together.                                *)
LEMMA DeleteVoteChangesKeeps ==
    ASSUME Inv, DeleteVoteChanges
    PROVE  Inv'
<1>1. saved' = <<>> /\ changes' = NoChanges /\ UNCHANGED <<handlers, deliveries>>
  BY DEF DeleteVoteChanges, bounds
<1>2. saved' \in Seq(Messages) /\ Len(saved') = 0
  BY <1>1, EmptySeq
<1>3. KeepsNewest'
  <2>1. First(saved') = 0
    BY <1>2, VoteChangesAssumption DEF First
  <2>2. 0 .. Len(saved') - 1 = {}
    BY <1>2
  <2>3. Window(saved') = NoChanges
    BY <2>1, <2>2 DEF Window, NoChanges
  <2>4. changes' = Window(saved')
    BY <1>1, <2>3
  <2> QED
    BY <2>4 DEF KeepsNewest, Window, First
<1>4. TypeOK'
  BY <1>1, <1>2 DEF Inv, TypeOK, DeleteVoteChanges, NoChanges, ticket, handlers, bounds
<1>5. HandlersOK' /\ Busy' = Busy
  BY <1>1 DEF Inv, HandlersOK, Busy, handlers
<1>6. RecordedOnce'
  BY <1>1, <1>2, <1>5, BusyFinite DEF Inv, TypeOK, RecordedOnce
<1> QED
  BY <1>3, <1>4, <1>5, <1>6 DEF Inv

(* A message arrives and keeps one handler more at work.                   *)
LEMMA DeliverKeeps ==
    ASSUME Inv, NEW h \in Handlers, NEW m \in Messages, Deliver(h, m)
    PROVE  Inv'
<1>1. TypeOK'
  BY VoteChangesAssumption DEF Inv, TypeOK, Deliver, ticket, PCs, FeeStatus
<1>2. KeepsNewest'
  BY BucketStays DEF Inv, Deliver
<1>3. HandlersOK'
  BY DEF Inv, TypeOK, HandlersOK, Deliver
<1>4. Busy' = Busy \cup {h} /\ h \notin Busy
  BY DEF Inv, TypeOK, Deliver, Busy
<1>5. RecordedOnce'
  BY <1>4, BusyFinite DEF Inv, TypeOK, RecordedOnce, Deliver
<1> QED
  BY <1>1, <1>2, <1>3, <1>5 DEF Inv

(* A handler goes on to its next step or gives up.                         *)
LEMMA HandlerKeeps ==
    ASSUME Inv, NEW h \in Handlers,
           checkTimestamp(h) \/ UpdateTicket(h) \/ SendRawTransaction(h) \/ sendJSONResponse(h)
    PROVE  Inv'
<1>0. /\ pc[h] # "idle" /\ UNCHANGED <<saved, changes, deliveries>>
      /\ (\E label \in PCs \ {"idle"} : Goto(h, label)) \/ Done(h)
  BY DEF checkTimestamp, UpdateTicket, SendRawTransaction, sendJSONResponse, bounds, PCs
<1>1. /\ pc' \in [Handlers -> PCs] /\ msg' \in [Handlers -> Messages \cup {None}]
      /\ snap' \in [Handlers -> FeeStatus]
      /\ HandlersOK' /\ (Busy' = Busy \/ Cardinality(Busy') = Cardinality(Busy) - 1)
  BY <1>0, GotoKeeps, DoneKeeps DEF Inv
<1>2. /\ fee' \in FeeStatus /\ errors' \in 0 .. MaxFeeErrors
      /\ UNCHANGED <<known, copy, deleting, faults>>
  BY VoteChangesAssumption DEF Inv, TypeOK, checkTimestamp, UpdateTicket, SendRawTransaction,
     sendJSONResponse, ticket, bounds, FeeStatus
<1>3. TypeOK'
  BY <1>0, <1>1, <1>2 DEF Inv, TypeOK
<1>4. KeepsNewest' /\ RecordedOnce'
  BY <1>0, <1>1, BucketStays, CountKept DEF Inv
<1> QED
  BY <1>1, <1>3, <1>4 DEF Inv

(* A request is recorded, or that fails; the handler ends.                 *)
LEMMA SaveRecordKeeps ==
    ASSUME Inv, NEW h \in Handlers, saveRecord(h)
    PROVE  Inv'
<1>0. pc[h] # "idle" /\ Done(h) /\ msg[h] \in Messages
  BY DEF Inv, HandlersOK, saveRecord
<1>1. /\ pc' \in [Handlers -> PCs] /\ msg' \in [Handlers -> Messages \cup {None}]
      /\ snap' \in [Handlers -> FeeStatus]
      /\ HandlersOK' /\ Cardinality(Busy') = Cardinality(Busy) - 1
  BY <1>0, DoneKeeps DEF Inv
<1>2. CASE changes' = SaveVoteChange(changes, msg[h]) /\ saved' = Append(saved, msg[h]) /\ UNCHANGED faults
  <2>1. changes' = Window(saved')
    BY <1>0, <1>2, NewestIsWindow, SavedWindow DEF Inv, TypeOK
  <2>2. KeepsNewest'
    BY <2>1 DEF KeepsNewest, Window, First
  <2>3. saved' \in Seq(Messages) /\ Len(saved') = Len(saved) + 1 /\ Len(saved) \in Nat
    BY <1>0, <1>2 DEF Inv, TypeOK
  <2>4. RecordedOnce'
    BY <1>1, <2>3, BusyFinite DEF Inv, TypeOK, RecordedOnce, saveRecord
  <2>5. Len(saved') <= MaxDeliveries
    <3>1. h \in Busy /\ Cardinality(Busy) \in Nat /\ IsFiniteSet(Busy)
      BY <1>0, BusyFinite DEF Busy
    <3>2. Cardinality(Busy) # 0
      BY <3>1, FS_EmptySet
    <3> QED
      BY <2>3, <3>1, <3>2, VoteChangesAssumption DEF Inv, TypeOK, RecordedOnce
  <2>6. /\ DOMAIN changes' \subseteq 0 .. MaxDeliveries
        /\ \A k \in DOMAIN changes' : changes'[k] \in Messages
    BY <2>1, <2>3, <2>5, WindowType, VoteChangesAssumption
  <2>7. TypeOK'
    BY <1>1, <1>2, <2>3, <2>6 DEF Inv, TypeOK, saveRecord, ticket
  <2> QED
    BY <1>1, <2>2, <2>4, <2>7 DEF Inv
<1>3. CASE Fault /\ UNCHANGED <<changes, saved>>
  <2>1. TypeOK'
    BY <1>1, <1>3, FaultType DEF Inv, TypeOK, saveRecord, ticket
  <2>2. KeepsNewest' /\ RecordedOnce'
    BY <1>1, <1>3, BucketStays, CountKept DEF Inv, saveRecord
  <2> QED
    BY <1>1, <2>1, <2>2 DEF Inv
<1> QED
  BY <1>2, <1>3 DEF saveRecord

(* Every handler ends with the process; the database stays.                *)
LEMMA CrashKeeps ==
    ASSUME Inv, Crash
    PROVE  Inv'
<1>1. TypeOK'
  BY FaultType DEF Inv, TypeOK, Crash, ticket, PCs, FeeStatus
<1>2. KeepsNewest'
  BY BucketStays DEF Inv, Crash
<1>3. HandlersOK' /\ Busy' = {}
  BY DEF HandlersOK, Busy, Crash
<1>4. Cardinality(Busy') = 0
  BY <1>3, FS_EmptySet
<1>5. RecordedOnce'
  BY <1>4, BusyFinite DEF Inv, TypeOK, RecordedOnce, Crash
<1> QED
  BY <1>1, <1>2, <1>3, <1>5 DEF Inv

-----------------------------------------------------------------------------
(* The invariant holds, and what follows.                                  *)

(* It holds at first.                                                      *)
LEMMA InitInv == Init => Inv
<1> SUFFICES ASSUME Init PROVE Inv
  OBVIOUS
<1>1. saved \in Seq(Messages) /\ Len(saved) = 0
  BY EmptySeq DEF Init
<1>2. TypeOK
  <2>1. known \in BOOLEAN /\ fee \in FeeStatus /\ copy \in FeeStatus \cup {None} /\ deleting \in BOOLEAN
    BY DEF Init, FeeStatus
  <2>2. DOMAIN changes = {}
    BY DEF Init, NoChanges
  <2>3. /\ pc \in [Handlers -> PCs] /\ msg \in [Handlers -> Messages \cup {None}]
        /\ snap \in [Handlers -> FeeStatus]
    BY DEF Init, PCs, FeeStatus
  <2>4. deliveries \in 0 .. MaxDeliveries /\ errors \in 0 .. MaxFeeErrors /\ faults \in 0 .. MaxFaults
    BY VoteChangesAssumption DEF Init
  <2> QED
    BY <1>1, <2>1, <2>2, <2>3, <2>4 DEF TypeOK
<1>3. KeepsNewest
  <2>1. First(saved) = 0 /\ 0 .. Len(saved) - 1 = {}
    BY <1>1, VoteChangesAssumption DEF First
  <2> QED
    BY <2>1, NewestIsWindow DEF Window, Init, NoChanges
<1>4. HandlersOK /\ Busy = {}
  BY DEF Init, HandlersOK, Busy
<1>5. RecordedOnce
  BY <1>1, <1>4, FS_EmptySet DEF RecordedOnce, Init
<1> QED
  BY <1>2, <1>3, <1>4, <1>5 DEF Inv

(* Every step keeps it.                                                    *)
LEMMA NextInv == Inv /\ [Next]_vars => Inv'
<1> SUFFICES ASSUME Inv, [Next]_vars PROVE Inv'
  OBVIOUS
<1>1. CASE UNCHANGED vars
  <2> USE <1>1 DEF vars, ticket, handlers, bounds
  <2>1. TypeOK' /\ HandlersOK' /\ Busy' = Busy
    BY DEF Inv, TypeOK, HandlersOK, Busy
  <2>2. KeepsNewest' /\ RecordedOnce'
    BY <2>1, BucketStays, CountKept DEF Inv
  <2> QED
    BY <2>1, <2>2 DEF Inv
<1> QED
  BY <1>1, OthersKeep, DeleteVoteChangesKeeps, DeliverKeeps, HandlerKeeps, SaveRecordKeeps,
     CrashKeeps DEF Next

(* So it holds in every reachable state: every state is well typed, and a  *)
(* delivered request is recorded at most once (saveRecord).                *)
THEOREM Invariance == Spec => []Inv
BY InitInv, NextInv, PTL DEF Spec

(* The bucket has the newest requests in the order in which they were      *)
(* saved, under consecutive keys, however handlers, failures and deletions *)
(* interleave (SaveVoteChange).                                            *)
THEOREM NewestKept == Spec => []KeepsNewest
<1>1. Inv => KeepsNewest
  BY DEF Inv
<1> QED
  BY <1>1, Invariance, PTL

(* A request that setVoteChoices accepts is newer than each of the last    *)
(* maxVoteChangeRecords requests that were saved (setVoteChoices).         *)
THEOREM OnlyNewerAccepted == Spec => AcceptedIsNewer
<1> DEFINE Accepted ==
        \A h \in Handlers : (pc[h] = "check" /\ pc'[h] = "store") =>
            \A k \in 1 .. Len(saved) :
                Timestamp[saved[k]] >= Timestamp[msg[h]] => k + maxVoteChangeRecords <= Len(saved)
<1>1. Inv /\ [Next]_vars => [Accepted]_vars
  <2> SUFFICES ASSUME Inv, Next, NEW h \in Handlers, pc[h] = "check", pc'[h] = "store",
                      NEW k \in 1 .. Len(saved), Timestamp[saved[k]] >= Timestamp[msg[h]]
               PROVE  k + maxVoteChangeRecords <= Len(saved)
    BY DEF vars
  <2>1. checkTimestamp(h)
    BY DEF Inv, TypeOK, Next, InsertNewTicket, readTicket, writeBack, DeleteTicket, DeleteVoteChanges,
       Deliver, checkTimestamp, UpdateTicket, SendRawTransaction, sendJSONResponse, saveRecord, Crash,
       handlers, Goto, Done
  <2>2. Newer(msg[h])
    BY <2>1 DEF Inv, TypeOK, checkTimestamp, Done
  <2>3. msg[h] \in Messages /\ saved[k] \in Messages /\ Len(saved) \in Nat
    BY DEF Inv, TypeOK, HandlersOK
  <2>4. changes = Window(saved)
    BY NewestIsWindow DEF Inv
  <2>5. SUFFICES ASSUME k + maxVoteChangeRecords > Len(saved) PROVE FALSE
    BY <2>3, VoteChangesAssumption
  <2>6. k - 1 \in First(saved) .. Len(saved) - 1
    BY <2>3, <2>5, VoteChangesAssumption DEF First
  <2>7. k - 1 \in DOMAIN changes /\ changes[k - 1] = saved[k]
    BY <2>3, <2>4, <2>6 DEF Window
  <2>8. Timestamp[msg[h]] > Timestamp[saved[k]]
    BY <2>2, <2>7 DEF Newer
  <2> QED
    BY <2>3, <2>8, VoteChangesAssumption
<1> QED
  BY <1>1, Invariance, PTL DEF Spec, AcceptedIsNewer
=============================================================================
