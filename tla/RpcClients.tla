----------------------------- MODULE RpcClients -----------------------------
(***************************************************************************)
(* The connection to dcrd (rpc/client.go, DcrdConnect in rpc/dcrd.go), its *)
(* block notifications (rpc/notifs.go) and the loop that receives them     *)
(* (Run in internal/vspd/vspd.go).                                         *)
(*                                                                         *)
(* One connection is shared by all goroutines.  Whoever finds it closed    *)
(* dials a new one under the mutex of dial, validates it after the mutex   *)
(* is released, and asks for block notifications; others use the           *)
(* connection meanwhile.  Close takes no mutex and closes whatever         *)
(* connection is current.  Clients does the same for each wallet, without  *)
(* notifications.                                                          *)
(*                                                                         *)
(* The wsrpc library and dcrd are external.  The configuration of dcrd     *)
(* changes only while it is down, so an open connection is as good as dcrd *)
(* is.  Notifications of one connection are handed over one at a time;     *)
(* those of a connection that ends may be lost.                            *)
(***************************************************************************)
EXTENDS Naturals

CONSTANTS
    Handlers,       \* goroutines of the web server
    Run,            \* the goroutine of Run
    nobody,         \* the mutex is free
    MaxConns,       \* bound: connections remembered at once
    MaxBlocks,      \* bound: blocks that dcrd connects
    MaxFaults,      \* bound: failed calls and broken connections
    MaxOutages      \* bound: times dcrd stops

ASSUME RpcClientsAssumption ==
    /\ Run \notin Handlers
    /\ nobody \notin Handlers \cup {Run}
    /\ MaxConns \in Nat /\ MaxBlocks \in Nat /\ MaxFaults \in Nat /\ MaxOutages \in Nat

Goroutines == Handlers \cup {Run}
Conns == 1 .. MaxConns
nil == 0

VARIABLES
    dcrd,           \* "down", "good", or running with a wrong configuration
    open,           \* connections that are open at both ends
    subscribed,     \* connections dcrd sends block notifications on
    pending,        \* notifications of a connection that nobody received yet
    client, mu,     \* the current connection and the mutex of dial
    quiet,          \* connections that were kept although notifyblocks failed
    pc, mine,       \* per goroutine: step in Client, and its connection
    doing,          \* what Run is doing
    blocks, faults, outages

link == <<open, subscribed, pending, quiet>>
shared == <<client, mu>>
local == <<pc, mine>>
bounds == <<blocks, faults, outages>>
vars == <<dcrd, link, shared, local, doing, bounds>>

TypeOK ==
    /\ dcrd \in {"down", "good", "bad"}
    /\ open \in SUBSET Conns
    /\ subscribed \in SUBSET Conns
    /\ quiet \in SUBSET Conns
    /\ pending \in [Conns -> 0 .. blocks]
    /\ client \in Conns \cup {nil}
    /\ mu \in Goroutines \cup {nobody}
    /\ pc \in [Goroutines -> {"idle", "dial", "validate", "notify", "close", "closing"}]
    /\ mine \in [Goroutines -> Conns \cup {nil}]
    /\ doing \in {"update", "working", "tick", "select"}
    /\ blocks \in 0 .. MaxBlocks /\ faults \in 0 .. MaxFaults /\ outages \in 0 .. MaxOutages

(* vspd has just been started: Run begins with an update.                  *)
ProcessStart ==
    [ client |-> nil, mu |-> nobody,
      pc |-> [g \in Goroutines |-> "idle"],
      mine |-> [g \in Goroutines |-> nil],
      doing |-> "update" ]

Init ==
    /\ dcrd \in {"down", "good", "bad"}
    /\ open = {} /\ subscribed = {} /\ quiet = {}
    /\ pending = [c \in Conns |-> 0]
    /\ client = ProcessStart.client /\ mu = ProcessStart.mu
    /\ pc = ProcessStart.pc /\ mine = ProcessStart.mine
    /\ doing = ProcessStart.doing
    /\ blocks = 0 /\ faults = 0 /\ outages = 0

Fault == faults < MaxFaults /\ faults' = faults + 1 /\ UNCHANGED <<blocks, outages>>

(* A call fails for a reason the model knows, or for one of its own.       *)
Fails(reason) ==
    \/ reason /\ UNCHANGED bounds
    \/ Fault

-----------------------------------------------------------------------------
(* dcrd and the network.                                                   *)

(* Connections end; what was pending on them may be lost.                  *)
End(ended) ==
    /\ open' = open \ ended
    /\ pending' \in {p \in [Conns -> 0 .. MaxBlocks] :
                        \A c \in Conns : IF c \in ended THEN p[c] <= pending[c] ELSE p[c] = pending[c]}
    /\ UNCHANGED <<subscribed, quiet>>

dcrdStops ==
    /\ dcrd # "down"
    /\ outages < MaxOutages
    /\ outages' = outages + 1
    /\ dcrd' = "down"
    /\ End(open)
    /\ UNCHANGED <<shared, local, doing, blocks, faults>>

dcrdStarts ==
    /\ dcrd = "down"
    /\ dcrd' \in {"good", "bad"}
    /\ UNCHANGED <<link, shared, local, doing, bounds>>

connectionBreaks ==
    /\ Fault
    /\ \E c \in open : End({c})
    /\ UNCHANGED <<dcrd, shared, local, doing>>

blockConnected ==
    /\ dcrd # "down"
    /\ blocks < MaxBlocks
    /\ blocks' = blocks + 1
    /\ pending' = [c \in Conns |-> IF c \in open \cap subscribed THEN pending[c] + 1 ELSE pending[c]]
    /\ UNCHANGED <<dcrd, open, subscribed, quiet, shared, local, doing, faults, outages>>

-----------------------------------------------------------------------------
(* Client, in a handler or in Run.                                         *)

Goto(g, label) == pc' = [pc EXCEPT ![g] = label]

(* Mutant: Run returns when there is no connection.                        *)
BugReturn(g, ok) ==
    /\ Goto(g, "idle")
    /\ mine' = [mine EXCEPT ![g] = nil]
    /\ doing' = CASE g # Run -> doing
                  [] ~ok -> "returned"
                  [] doing = "update" /\ ok -> "working"
                  [] OTHER -> "select"

(* Client returns a connection or an error.  update goes on to work with a *)
(* connection and gives up without one.                                    *)
Return(g, ok) ==
    /\ Goto(g, "idle")
    /\ mine' = [mine EXCEPT ![g] = nil]
    /\ doing' = CASE g # Run -> doing
                  [] doing = "update" /\ ok -> "working"
                  [] OTHER -> "select"

Calling(g) == pc[g] = "idle" /\ (g = Run => doing \in {"update", "tick"})

(* Mutant: the mutex is not taken.                                         *)
BugDialUnlocked(g) ==
    /\ Calling(g)
    /\ \/ client \in open /\ Return(g, TRUE) /\ UNCHANGED shared
       \/ client \notin open /\ client' = nil /\ mu' = g /\ Goto(g, "dial") /\ UNCHANGED <<mine, doing>>
    /\ UNCHANGED <<dcrd, link, bounds>>

(* Mutant: nobody looks whether the connection is still open.              *)
BugDialStale(g) ==
    /\ Calling(g)
    /\ mu = nobody
    /\ \/ client # nil /\ Return(g, TRUE) /\ UNCHANGED shared
       \/ client = nil /\ mu' = g /\ Goto(g, "dial") /\ UNCHANGED <<client, mine, doing>>
    /\ UNCHANGED <<dcrd, link, bounds>>

(* dial: an open connection is returned as it is; a closed one is          *)
(* forgotten and the mutex is held while a new one is made.                *)
dial(g) ==
    /\ Calling(g)
    /\ mu = nobody
    /\ \/ client \in open /\ Return(g, TRUE) /\ UNCHANGED shared
       \/ client \notin open /\ client' = nil /\ mu' = g /\ Goto(g, "dial") /\ UNCHANGED <<mine, doing>>
    /\ UNCHANGED <<dcrd, link, bounds>>

(* A number that no connection in use has.                                 *)
Unused(c) == c # client /\ c \notin open /\ pending[c] = 0 /\ \A g \in Goroutines : mine[g] # c

dialed(g) ==
    /\ pc[g] = "dial"
    /\ dcrd # "down"
    /\ \E c \in Conns :
          /\ Unused(c) /\ \A d \in Conns : d < c => ~Unused(d)
          /\ client' = c
          /\ open' = open \cup {c}
          /\ subscribed' = subscribed \ {c} /\ quiet' = quiet \ {c}
          /\ mine' = [mine EXCEPT ![g] = c]
    /\ mu' = nobody
    /\ Goto(g, "validate")
    /\ UNCHANGED <<dcrd, pending, doing, bounds>>

dialError(g) ==
    /\ pc[g] = "dial"
    /\ Fails(dcrd = "down")
    /\ mu' = nobody
    /\ Return(g, FALSE)
    /\ UNCHANGED <<dcrd, link, client>>

(* The version, the network and the transaction index are as required.     *)
validated(g) ==
    /\ pc[g] = "validate"
    /\ mine[g] \in open /\ dcrd = "good"
    /\ Goto(g, "notify")
    /\ UNCHANGED <<dcrd, link, shared, mine, doing, bounds>>

(* Mutant: the connection is not closed.                                   *)
BugNotValidated(g) ==
    /\ pc[g] = "validate"
    /\ Fails(dcrd = "bad" \/ mine[g] \notin open)
    /\ Return(g, FALSE)
    /\ UNCHANGED <<dcrd, link, shared>>

(* One of the three calls fails, or its answer is not as required.         *)
notValidated(g) ==
    /\ pc[g] = "validate"
    /\ Fails(dcrd = "bad" \/ mine[g] \notin open)
    /\ Goto(g, "close")
    /\ UNCHANGED <<dcrd, link, shared, mine, doing>>

(* Close looks at the current connection, which need not be the one that   *)
(* was validated ...                                                       *)
closeCurrent(g) ==
    /\ pc[g] = "close"
    /\ IF client = nil
       THEN Return(g, FALSE)
       ELSE Goto(g, "closing") /\ mine' = [mine EXCEPT ![g] = client] /\ UNCHANGED doing
    /\ UNCHANGED <<dcrd, link, shared, bounds>>

(* ... and reads the field again without the mutex: it may find the same   *)
(* connection or the one that is current now, and closes it.               *)
closed(g) ==
    /\ pc[g] = "closing"
    /\ \E c \in {mine[g], client} \ {nil} : End({c})
    /\ Return(g, FALSE)
    /\ UNCHANGED <<dcrd, shared, bounds>>

(* It may also find nil, because another goroutine is in dial.  The panic  *)
(* ends a request, and the whole process if it is in Run.  (The goroutine  *)
(* that updates the web cache once a minute calls Client too, outside the  *)
(* recovery of requests.  It is not among the goroutines of this module;   *)
(* its panic ends the process as one in Run does.)                         *)
panic(g) ==
    /\ pc[g] = "closing"
    /\ client = nil
    /\ IF g \in Handlers
       THEN Return(g, FALSE) /\ UNCHANGED <<link, shared>>
       ELSE /\ open' = {} /\ subscribed' = {} /\ quiet' = {}
            /\ pending' = [c \in Conns |-> 0]
            /\ client' = ProcessStart.client /\ mu' = ProcessStart.mu
            /\ pc' = ProcessStart.pc /\ mine' = ProcessStart.mine
            /\ doing' = ProcessStart.doing
    /\ UNCHANGED <<dcrd, bounds>>

NotifyBlocks(g) ==
    /\ pc[g] = "notify"
    /\ mine[g] \in open
    /\ subscribed' = subscribed \cup {mine[g]}
    /\ Return(g, TRUE)
    /\ UNCHANGED <<dcrd, open, pending, quiet, shared, bounds>>

(* An error is returned and the connection is kept.                        *)
NotifyBlocksError(g) ==
    /\ pc[g] = "notify"
    /\ Fails(mine[g] \notin open)
    /\ quiet' = quiet \cup {mine[g]}
    /\ Return(g, FALSE)
    /\ UNCHANGED <<dcrd, open, subscribed, pending, shared>>

-----------------------------------------------------------------------------
(* Run.  A tick of either ticker calls Client; a block notification starts *)
(* an update.  The channel has no buffer.                                  *)

ticker ==
    /\ doing = "select"
    /\ doing' = "tick"
    /\ UNCHANGED <<dcrd, link, shared, local, bounds>>

Notify(c) ==
    /\ doing = "select"
    /\ pending[c] > 0
    /\ pending' = [pending EXCEPT ![c] = @ - 1]
    /\ doing' = "update"
    /\ UNCHANGED <<dcrd, open, subscribed, quiet, shared, local, bounds>>

(* The calls of an update return, with or without an error.                *)
updateDone ==
    /\ doing = "working"
    /\ doing' = "select"
    /\ UNCHANGED <<dcrd, link, shared, local, bounds>>

-----------------------------------------------------------------------------
Continue(g) ==
    \/ dialed(g) \/ dialError(g)
    \/ validated(g) \/ notValidated(g)
    \/ closeCurrent(g) \/ closed(g) \/ panic(g)
    \/ NotifyBlocks(g) \/ NotifyBlocksError(g)

Next ==
    \/ \E g \in Goroutines : dial(g) \/ Continue(g)
    \/ ticker \/ updateDone
    \/ \E c \in Conns : Notify(c)
    \/ dcrdStops \/ dcrdStarts \/ connectionBreaks \/ blockConnected

Spec == Init /\ [][Next]_vars

(* A call of Client that has begun goes on, calls of dcrd return, the      *)
(* mutex is starvation-free, and select takes every channel that is ready  *)
(* again and again.  Nobody has to make requests, and nothing is assumed   *)
(* of dcrd.                                                                *)
FairSpec ==
    /\ Spec
    /\ \A g \in Goroutines : WF_vars(Continue(g))
    /\ SF_vars(dial(Run))
    /\ WF_vars(updateDone) /\ SF_vars(ticker)
    /\ \A c \in Conns : SF_vars(Notify(c))

-----------------------------------------------------------------------------
(* Properties.                                                             *)

(* At most one connection is open, the current one: a connection that is   *)
(* replaced or forgotten is closed, although Close and dial run at the     *)
(* same time (dial).                                                       *)
OneConnection == open \subseteq {client}

(* A connection that stays has been validated and has notifications, or    *)
(* the goroutine that dialed it is still busy with it (Client).  The one   *)
(* exception is a connection whose notifyblocks call failed.               *)
OpenIsReady ==
    client \in open =>
        \/ dcrd = "good" /\ client \in subscribed \cup quiet
        \/ \E g \in Goroutines : mine[g] = client /\ pc[g] # "idle"

(* What the two rest on: the mutex is held by whoever is in dial, where    *)
(* there is no current connection; only a validated connection gets as far *)
(* as notifyblocks, and dcrd is not reconfigured under it.                 *)
DialOK ==
    /\ \A g \in Goroutines : pc[g] = "dial" <=> mu = g
    /\ mu # nobody => client = nil
    /\ \A g \in Goroutines : pc[g] = "notify" /\ mine[g] \in open => dcrd = "good"
    /\ dcrd = "down" => open = {}
    /\ \A g \in Goroutines : mine[g] = nil <=> pc[g] \in {"idle", "dial"}

IInv == TypeOK /\ OneConnection /\ OpenIsReady /\ DialOK

(* When dcrd stays up and well configured and no request is inside Client  *)
(* any more, vspd ends up with a connection to it and keeps it, whatever   *)
(* was going on before: failed calls, a goroutine that waits for the       *)
(* mutex, a late Close of another connection (dcrdTicker).                 *)
Reconnects ==
    <>[](dcrd = "good" /\ \A h \in Handlers : pc[h] = "idle") => <>[](client \in open)

(* The block notifications that are not lost with their connection all     *)
(* reach Run and start an update, although nobody receives from the channel while   *)
(* Run is updating or reconnecting (Notify).                               *)
NotificationsReceived == (\E c \in Conns : pending[c] > 0) ~> (\A c \in Conns : pending[c] = 0)

-----------------------------------------------------------------------------
(* Run, about its ticker: "Ensure dcrd client is connected so              *)
(* notifications are received."  Under the conditions of Reconnects the    *)
(* connection is one on which dcrd sends notifications.                    *)
NotificationsRestored ==
    <>[](dcrd = "good" /\ \A h \in Handlers : pc[h] = "idle")
        => <>[](client \in open \cap subscribed)
=============================================================================
