-------------------------- MODULE RpcClientsProofs --------------------------
(***************************************************************************)
(* Proofs about RpcClients: the invariant IInv is inductive, so that for   *)
(* any number of handlers, failures and outages at most one connection is  *)
(* open, and none stays that was not validated.  TypeStep and SafeStep are *)
(* the two halves of the inductive step; ReturnSafe, MoveSafe and EndSafe  *)
(* are what the steps of the goroutines and of the network have in common. *)
(***************************************************************************)
EXTENDS RpcClients, TLAPS

(* Every goroutine is distinct from nobody, and Run is one of them.        *)
LEMMA Names == Run \in Goroutines /\ nobody \notin Goroutines /\ nil \notin Conns
BY RpcClientsAssumption DEF Goroutines, nil, Conns

(* A failure is counted up to its bound (Fault).                           *)
LEMMA FaultType ==
    ASSUME TypeOK, Fault
    PROVE  /\ blocks' \in 0 .. MaxBlocks /\ faults' \in 0 .. MaxFaults
           /\ outages' \in 0 .. MaxOutages
BY RpcClientsAssumption DEF TypeOK, Fault

(* So is a call that fails, for whatever reason (Fails).                   *)
LEMMA FailsType ==
    ASSUME TypeOK, NEW reason, Fails(reason)
    PROVE  /\ blocks' \in 0 .. MaxBlocks /\ faults' \in 0 .. MaxFaults
           /\ outages' \in 0 .. MaxOutages
BY FaultType DEF TypeOK, Fails, bounds

(* What Return does, whatever it returns.                                  *)
LEMMA ReturnType ==
    ASSUME TypeOK, NEW g \in Goroutines, NEW ok \in BOOLEAN, Return(g, ok)
    PROVE  /\ pc' = [pc EXCEPT ![g] = "idle"]
           /\ mine' = [mine EXCEPT ![g] = nil]
           /\ pc' \in [Goroutines -> {"idle", "dial", "validate", "notify", "close", "closing"}]
           /\ mine' \in [Goroutines -> Conns \cup {nil}]
           /\ doing' \in {"update", "working", "tick", "select"}
BY DEF TypeOK, Return, Goto

(* Ending connections loses notifications and never makes any.             *)
LEMMA EndType ==
    ASSUME TypeOK, NEW ended, End(ended)
    PROVE  /\ open' = open \ ended /\ UNCHANGED <<subscribed, quiet>>
           /\ pending' \in [Conns -> 0 .. blocks]
BY RpcClientsAssumption DEF TypeOK, End

(* Types are preserved by every step.                                      *)
LEMMA TypeStep ==
    ASSUME IInv, Next
    PROVE  TypeOK'
<1> USE Names
<1>a. TypeOK /\ DialOK
  BY DEF IInv
<1>1. CASE \E g \in Goroutines : dial(g)
  <2>1. PICK g \in Goroutines : dial(g)
    BY <1>1
  <2>2. CASE client \in open /\ Return(g, TRUE) /\ UNCHANGED shared
    BY <1>a, <2>1, <2>2, ReturnType DEF dial, TypeOK, link, shared, bounds
  <2>3. CASE client \notin open /\ client' = nil /\ mu' = g /\ Goto(g, "dial") /\ UNCHANGED <<mine, doing>>
    BY <1>a, <2>1, <2>3 DEF dial, TypeOK, Goto, link, bounds
  <2> QED
    BY <2>1, <2>2, <2>3 DEF dial
<1>2. CASE \E g \in Goroutines : Continue(g)
  <2>1. PICK g \in Goroutines : Continue(g)
    BY <1>2
  <2>2. CASE dialed(g)
    BY <1>a, <2>2 DEF dialed, TypeOK, Goto, bounds
  <2>3. CASE dialError(g)
    BY <1>a, <2>3, ReturnType, FailsType DEF dialError, TypeOK, link, Fails, Fault, bounds
  <2>4. CASE validated(g)
    BY <1>a, <2>4 DEF validated, TypeOK, Goto, link, shared, bounds
  <2>5. CASE notValidated(g)
    BY <1>a, <2>5, FailsType DEF notValidated, TypeOK, Goto, link, shared, Fails, Fault, bounds
  <2>6. CASE closeCurrent(g)
    <3>1. CASE client = nil
      BY <1>a, <2>6, <3>1, ReturnType DEF closeCurrent, TypeOK, link, shared, bounds
    <3>2. CASE client # nil
      BY <1>a, <2>6, <3>2 DEF closeCurrent, TypeOK, Goto, link, shared, bounds
    <3> QED
      BY <3>1, <3>2
  <2>7. CASE closed(g)
    BY <1>a, <2>7, ReturnType, EndType DEF closed, TypeOK, shared, bounds
  <2>8. CASE panic(g)
    <3>1. CASE g \in Handlers
      BY <1>a, <2>8, <3>1, ReturnType DEF panic, TypeOK, link, shared, bounds
    <3>2. CASE g \notin Handlers
      BY <1>a, <2>8, <3>2, RpcClientsAssumption DEF panic, ProcessStart, TypeOK, bounds
    <3> QED
      BY <3>1, <3>2
  <2>9. CASE NotifyBlocks(g)
    BY <1>a, <2>9, ReturnType DEF NotifyBlocks, TypeOK, shared, bounds
  <2>10. CASE NotifyBlocksError(g)
    <3>1. pc[g] = "notify" /\ mine[g] \in Conns
      BY <1>a, <2>10 DEF NotifyBlocksError, DialOK, TypeOK
    <3> QED
      BY <1>a, <2>10, <3>1, ReturnType, FailsType DEF NotifyBlocksError, TypeOK, shared, Fails, Fault, bounds
  <2> QED
    BY <2>1, <2>2, <2>3, <2>4, <2>5, <2>6, <2>7, <2>8, <2>9, <2>10 DEF Continue
<1>3. CASE ticker \/ updateDone
  BY <1>a, <1>3 DEF ticker, updateDone, TypeOK, link, shared, local, bounds
<1>4. CASE \E c \in Conns : Notify(c)
  <2>1. PICK c \in Conns : Notify(c)
    BY <1>4
  <2>2. pending' \in [Conns -> 0 .. blocks]
    BY <1>a, <2>1, RpcClientsAssumption DEF Notify, TypeOK
  <2> QED
    BY <1>a, <2>1, <2>2 DEF Notify, TypeOK, shared, local, bounds
<1>5. CASE dcrdStops
  BY <1>a, <1>5, EndType, RpcClientsAssumption DEF dcrdStops, TypeOK, shared, local
<1>6. CASE dcrdStarts
  BY <1>a, <1>6 DEF dcrdStarts, TypeOK, link, shared, local, bounds
<1>7. CASE connectionBreaks
  <2>1. PICK c \in open : End({c})
    BY <1>7 DEF connectionBreaks
  <2> QED
    BY <1>a, <1>7, <2>1, EndType, FaultType DEF connectionBreaks, TypeOK, shared, local, Fault
<1>8. CASE blockConnected
  <2>1. blocks' \in 0 .. MaxBlocks /\ blocks' = blocks + 1
    BY <1>a, <1>8, RpcClientsAssumption DEF blockConnected, TypeOK
  <2>2. pending' \in [Conns -> 0 .. blocks']
    BY <1>a, <1>8, <2>1, RpcClientsAssumption DEF blockConnected, TypeOK
  <2> QED
    BY <1>a, <1>8, <2>1, <2>2 DEF blockConnected, TypeOK, shared, local
<1> QED
  BY <1>1, <1>2, <1>3, <1>4, <1>5, <1>6, <1>7, <1>8 DEF Next

-----------------------------------------------------------------------------
(* The part of the invariant that is about one goroutine is preserved by a *)
(* goroutine that returns, when the connections stay as they are: a        *)
(* goroutine that is not in Client owns no connection.                     *)
LEMMA ReturnSafe ==
    ASSUME IInv, NEW g \in Goroutines, NEW ok \in BOOLEAN, Return(g, ok),
           UNCHANGED <<dcrd, client>>,
           open' \subseteq open, subscribed \subseteq subscribed', quiet \subseteq quiet',
           mu' = IF mu = g THEN nobody ELSE mu,
           mine[g] \in open' => dcrd = "good" /\ mine[g] \in subscribed' \cup quiet'
    PROVE  (OneConnection /\ OpenIsReady /\ DialOK)'
<1> USE Names
<1>1. TypeOK /\ OneConnection /\ OpenIsReady /\ DialOK
  BY DEF IInv
<1>2. /\ pc' = [pc EXCEPT ![g] = "idle"] /\ mine' = [mine EXCEPT ![g] = nil]
  BY <1>1, ReturnType
<1>3. OneConnection'
  BY <1>1 DEF OneConnection
<1>4. DialOK'
  BY <1>1, <1>2 DEF DialOK, TypeOK
<1>5. OpenIsReady'
  <2>1. SUFFICES ASSUME client' \in open'
                 PROVE  \/ dcrd' = "good" /\ client' \in (subscribed \cup quiet)'
                        \/ \E k \in Goroutines : mine'[k] = client' /\ pc'[k] # "idle"
    BY DEF OpenIsReady
  <2>2. CASE dcrd = "good" /\ client \in subscribed \cup quiet
    BY <2>2
  <2>3. CASE \E k \in Goroutines : mine[k] = client /\ pc[k] # "idle"
    <3>1. PICK k \in Goroutines : mine[k] = client /\ pc[k] # "idle"
      BY <2>3
    <3>2. CASE k = g
      BY <2>1, <3>1, <3>2
    <3>3. CASE k # g
      BY <1>1, <1>2, <3>1, <3>3 DEF TypeOK
    <3> QED
      BY <3>2, <3>3
  <2> QED
    BY <1>1, <2>1, <2>2, <2>3 DEF OpenIsReady
<1> QED
  BY <1>3, <1>4, <1>5

(* A goroutine that moves on and stays in Client keeps its connection, and *)
(* only a validated one takes it to notifyblocks.                          *)
LEMMA MoveSafe ==
    ASSUME IInv, NEW g \in Goroutines, NEW label, Goto(g, label),
           UNCHANGED <<dcrd, client, mu, mine, open, subscribed, quiet>>,
           pc[g] \notin {"idle", "dial"}, label \notin {"idle", "dial"},
           label = "notify" => dcrd = "good"
    PROVE  (OneConnection /\ OpenIsReady /\ DialOK)'
<1> USE Names
<1>1. TypeOK /\ OneConnection /\ OpenIsReady /\ DialOK
  BY DEF IInv
<1>2. OneConnection'
  BY <1>1 DEF OneConnection
<1>3. DialOK'
  BY <1>1 DEF DialOK, TypeOK, Goto
<1>4. OpenIsReady'
  BY <1>1 DEF OpenIsReady, TypeOK, Goto
<1> QED
  BY <1>2, <1>3, <1>4

(* The network ends connections, and no goroutine notices.                 *)
LEMMA EndSafe ==
    ASSUME IInv, NEW ended, End(ended),
           UNCHANGED <<client, mu, pc, mine>>,
           dcrd' = dcrd \/ (dcrd' = "down" /\ ended = open)
    PROVE  (OneConnection /\ OpenIsReady /\ DialOK)'
<1> USE Names
<1>1. TypeOK /\ OneConnection /\ OpenIsReady /\ DialOK
  BY DEF IInv
<1>2. open' = open \ ended /\ UNCHANGED <<subscribed, quiet>>
  BY DEF End
<1>3. OneConnection'
  BY <1>1, <1>2 DEF OneConnection
<1>4. DialOK'
  BY <1>1, <1>2 DEF DialOK
<1>5. OpenIsReady'
  BY <1>1, <1>2 DEF OpenIsReady
<1> QED
  BY <1>3, <1>4, <1>5

(* The three safety parts of the invariant are preserved by every step.    *)
LEMMA SafeStep ==
    ASSUME IInv, Next
    PROVE  (OneConnection /\ OpenIsReady /\ DialOK)'
<1> USE Names
<1>a. TypeOK /\ OneConnection /\ OpenIsReady /\ DialOK
  BY DEF IInv
<1>1. CASE \E g \in Goroutines : dial(g)
  <2>1. PICK g \in Goroutines : dial(g)
    BY <1>1
  <2>2. pc[g] = "idle" /\ mine[g] = nil /\ mu = nobody /\ UNCHANGED <<dcrd, open, subscribed, quiet>>
    BY <1>a, <2>1 DEF dial, Calling, DialOK, link
  <2>3. CASE client \in open /\ Return(g, TRUE) /\ UNCHANGED shared
    <3>1. mine[g] \notin open /\ UNCHANGED <<client, mu>> /\ mu # g
      BY <1>a, <2>2, <2>3 DEF TypeOK, shared
    <3> QED
      BY <2>2, <2>3, <3>1, ReturnSafe
  <2>4. CASE client \notin open /\ client' = nil /\ mu' = g /\ Goto(g, "dial") /\ UNCHANGED <<mine, doing>>
    <3>1. open = {} /\ open' = {}
      BY <1>a, <2>2, <2>4 DEF OneConnection
    <3>2. DialOK'
      BY <1>a, <2>2, <2>4, <3>1 DEF DialOK, TypeOK, Goto
    <3> QED
      BY <3>1, <3>2 DEF OneConnection, OpenIsReady
  <2> QED
    BY <2>1, <2>3, <2>4 DEF dial
<1>2. CASE \E g \in Goroutines : Continue(g)
  <2>1. PICK g \in Goroutines : Continue(g)
    BY <1>2
  <2>2. CASE dialed(g)
    <3>1. mu = g /\ client = nil /\ open = {}
      BY <1>a, <2>2 DEF dialed, DialOK, OneConnection, TypeOK
    <3>2. PICK c \in Conns : /\ Unused(c)
                             /\ client' = c /\ open' = open \cup {c}
                             /\ mine' = [mine EXCEPT ![g] = c]
      BY <2>2 DEF dialed
    <3>3. /\ mine'[g] = c /\ pc'[g] = "validate" /\ dcrd' = dcrd /\ dcrd # "down" /\ mu' = nobody
          /\ pc[g] = "dial" /\ pc' = [pc EXCEPT ![g] = "validate"]
      BY <1>a, <2>2, <3>2 DEF dialed, TypeOK, Goto
    <3>4. DialOK'
      BY <1>a, <3>1, <3>2, <3>3 DEF DialOK, TypeOK, Unused
    <3> QED
      BY <3>1, <3>2, <3>3, <3>4 DEF OneConnection, OpenIsReady
  <2>3. CASE dialError(g)
    <3>1. mu = g /\ mu' = nobody /\ mine[g] = nil /\ nil \notin open
      BY <1>a, <2>3 DEF dialError, DialOK, TypeOK
    <3> QED
      BY <2>3, <3>1, ReturnSafe DEF dialError, link
  <2>4. CASE validated(g)
    BY <2>4, MoveSafe DEF validated, link, shared
  <2>5. CASE notValidated(g)
    BY <2>5, MoveSafe DEF notValidated, link, shared
  <2>6. CASE closeCurrent(g)
    <3>1. pc[g] = "close" /\ mu # g /\ UNCHANGED <<dcrd, client, mu, open, subscribed, quiet>>
      BY <1>a, <2>6 DEF closeCurrent, DialOK, link, shared
    <3>2. CASE client = nil
      <4>1. open = {}
        BY <1>a, <3>2 DEF OneConnection, TypeOK
      <4> QED
        BY <2>6, <3>1, <3>2, <4>1, ReturnSafe DEF closeCurrent
    <3>3. CASE client # nil
      <4>1. Goto(g, "closing") /\ mine' = [mine EXCEPT ![g] = client]
        BY <2>6, <3>3 DEF closeCurrent
      <4>2. DialOK'
        BY <1>a, <3>1, <3>3, <4>1 DEF DialOK, TypeOK, Goto
      <4>3. mine'[g] = client' /\ pc'[g] # "idle"
        BY <1>a, <3>1, <4>1 DEF TypeOK, Goto
      <4> QED
        BY <1>a, <3>1, <4>2, <4>3 DEF OneConnection, OpenIsReady
    <3> QED
      BY <3>2, <3>3
  <2>7. CASE closed(g)
    <3>1. PICK c \in {mine[g], client} \ {nil} : End({c})
      BY <2>7 DEF closed
    <3>2. /\ open' = open \ {c} /\ UNCHANGED <<subscribed, quiet, dcrd, client, mu>>
          /\ pc[g] = "closing" /\ Return(g, FALSE)
      BY <2>7, <3>1 DEF closed, End, shared
    <3>3. mine[g] \notin open' /\ mu # g
      BY <1>a, <3>1, <3>2 DEF OneConnection, DialOK
    <3> QED
      BY <3>2, <3>3, ReturnSafe
  <2>8. CASE panic(g)
    <3>1. pc[g] = "closing" /\ open = {} /\ mu # g
      BY <1>a, <2>8 DEF panic, OneConnection, TypeOK, DialOK
    <3>2. CASE g \in Handlers
      BY <2>8, <3>1, <3>2, ReturnSafe DEF panic, link, shared
    <3>3. CASE g \notin Handlers
      BY <1>a, <2>8, <3>3 DEF panic, ProcessStart, OneConnection, OpenIsReady, DialOK
    <3> QED
      BY <3>2, <3>3
  <2>9. CASE NotifyBlocks(g)
    <3>1. pc[g] = "notify" /\ mine[g] \in open /\ dcrd = "good" /\ mu # g
      BY <1>a, <2>9 DEF NotifyBlocks, DialOK
    <3> QED
      BY <2>9, <3>1, ReturnSafe DEF NotifyBlocks, shared
  <2>10. CASE NotifyBlocksError(g)
    <3>1. pc[g] = "notify" /\ (mine[g] \in open => dcrd = "good") /\ mu # g
      BY <1>a, <2>10 DEF NotifyBlocksError, DialOK
    <3> QED
      BY <2>10, <3>1, ReturnSafe DEF NotifyBlocksError, shared
  <2> QED
    BY <2>1, <2>2, <2>3, <2>4, <2>5, <2>6, <2>7, <2>8, <2>9, <2>10 DEF Continue
<1>3. CASE ticker \/ updateDone \/ (\E c \in Conns : Notify(c)) \/ blockConnected
  <2>1. UNCHANGED <<dcrd, open, subscribed, quiet, client, mu, pc, mine>>
    BY <1>3 DEF ticker, updateDone, Notify, blockConnected, link, shared, local
  <2> QED
    BY <1>a, <2>1 DEF OneConnection, OpenIsReady, DialOK
<1>4. CASE dcrdStops
  BY <1>4, EndSafe DEF dcrdStops, shared, local
<1>5. CASE dcrdStarts
  <2>1. open = {} /\ UNCHANGED <<open, client, mu, pc, mine>>
    BY <1>a, <1>5 DEF dcrdStarts, DialOK, link, shared, local
  <2> QED
    BY <1>a, <1>5, <2>1 DEF dcrdStarts, OneConnection, OpenIsReady, DialOK
<1>6. CASE connectionBreaks
  <2>1. PICK c \in open : End({c})
    BY <1>6 DEF connectionBreaks
  <2>2. UNCHANGED <<dcrd, client, mu, pc, mine>>
    BY <1>6 DEF connectionBreaks, shared, local
  <2> QED
    BY <2>1, <2>2, EndSafe
<1> QED
  BY <1>1, <1>2, <1>3, <1>4, <1>5, <1>6 DEF Next

-----------------------------------------------------------------------------
(* The invariant holds when vspd starts.                                   *)
LEMMA InitIInv == Init => IInv
BY Names, RpcClientsAssumption
   DEF Init, ProcessStart, IInv, TypeOK, OneConnection, OpenIsReady, DialOK

(* The invariant holds in every reachable state (dial, Close, Client).     *)
THEOREM Invariance == Spec => []IInv
<1>1. IInv /\ [Next]_vars => IInv'
  <2>1. IInv /\ Next => IInv'
    BY TypeStep, SafeStep DEF IInv
  <2>2. IInv /\ UNCHANGED vars => IInv'
    BY DEF IInv, TypeOK, OneConnection, OpenIsReady, DialOK, vars, link, shared, local, bounds
  <2> QED
    BY <2>1, <2>2
<1> QED
  BY InitIInv, <1>1, PTL DEF Spec

(* Every variable keeps its type, whatever dcrd and the goroutines do.     *)
THEOREM Typed == Spec => []TypeOK
<1>1. IInv => TypeOK
  BY DEF IInv
<1> QED
  BY Invariance, <1>1, PTL

(* However many goroutines call Client and Close at the same time, dial    *)
(* replaces no connection that is still open.                              *)
THEOREM SingleConnection == Spec => []OneConnection
<1>1. IInv => OneConnection
  BY DEF IInv
<1> QED
  BY Invariance, <1>1, PTL

(* No goroutine leaves Client with an open connection behind it that was   *)
(* not validated, or that nobody asked notifications on (Client).          *)
THEOREM ReadyConnection == Spec => []OpenIsReady
<1>1. IInv => OpenIsReady
  BY DEF IInv
<1> QED
  BY Invariance, <1>1, PTL
=============================================================================
