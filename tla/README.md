# A TLA+ verification development for vspd

vspd is the server of a Decred voting service provider (VSP). A ticket owner
registers a ticket, pays a fee to an address made for that ticket, and may set
vote choices; vspd follows the chain, hands paid tickets to voting wallets and
records what became of them. The modules here model the parts of vspd that
keep state and change it concurrently, check them with TLC, and prove the
central invariants with TLAPS.

Line references are to the Go sources under `src/`.

## 1. The system

| Component | State | Operations | Talks to |
|---|---|---|---|
| Ticket database (`database/ticket.go`) | one bbolt bucket per ticket | InsertNewTicket, UpdateTicket (writes the *whole* record), DeleteTicket, list queries that return copies | everything below |
| API handlers (`internal/webapi`) | none of their own; one goroutine per request | feeaddress, payfee, setvotechoices, setaltsignaddr, ticketstatus | database, dcrd, wallets |
| Request authentication (`middleware.go` vspAuth) | the copy of the record put in the request context | reads the ticket once | database, dcrd |
| Background task (`internal/vspd`) | `lastScannedBlock` | `update` in four steps per block; `checkWalletConsistency` every 30 minutes; `checkDatabaseIntegrity` at start-up | database, dcrd, wallets |
| Fee addresses (`addressgenerator.go`, `getfeeaddress.go`) | counter in memory, `addrMtx` | nextAddress, getNewFeeAddress | fee xpubs |
| Fee xpubs (`database/feexpub.go`, `cmd/vspadmin`) | one record per key | FeeXPub, SetLastAddressIndex, RetireXPub | - |
| Vote change records (`database/votechange.go`) | up to 10 signed requests per ticket | SaveVoteChange, GetVoteChanges, DeleteVoteChanges | handlers, background task |
| Alternate signing addresses (`database/altsignaddr.go`) | at most one address per ticket | Insert, Delete | handlers, background task |
| RPC clients (`rpc`) | one connection to dcrd, one per wallet | Client(s), Notify, wrappers of RPCs | dcrd, dcrwallet |
| Ticket broadcast (`middleware.go`) | a semaphore of 16 slots, shared by two routes | publishes a ticket and its parent, with retries | dcrd |
| Database file (`database/database.go`, `upgrade*.go`, `cmd/vspd`, `cmd/vspadmin`) | the file, its version, a backup, a mutex | create, open, upgrade, hot backup, download, close | every component that stores something |
| Web cache, sessions, admin pages | statistics, cookies | read-only views | database |

What makes the system hard is one fact: **nobody holds a lock between reading
a record and writing it back, and a write replaces the whole record.** A
handler works on the copy vspAuth read, the background task on copies a list
query returned, each across several RPCs. On top of that come failing RPCs,
wallets that are offline, transactions that vanish from the mempool, fees that
expire, blocks that arrive during a scan, and restarts.

What correctness means, component by component:

* *ticket record*: whatever overwrites whatever, the record never mixes two
  states of its ticket and never claims more than the chain shows; no paid
  ticket is lost; every votable ticket reaches every wallet with the right
  choices;
* *fee addresses*: an address is given to one ticket only, over crashes and
  changes of the key, and its index is saved before the address is given out;
* *spent scan*: successive scans leave no block out, a scan finds exactly the
  spent tickets of its range, the outcome stored is what happened;
* *vote changes*: the bucket keeps the newest requests and an old one is not
  accepted again while it is recorded;
* *ticket broadcast*: every slot taken is given back, no request waits for one,
  and only tickets dcrd knows get to the handlers;
* *alternate address*: it is not replaced, it is the one a client was told of,
  and it goes only with its ticket;
* *database file*: upgrades keep the contents wherever they are interrupted,
  the backup can be used at every moment, and a shutdown ends with a complete
  one.

## 2. Modules

| Module | Models |
|---|---|
| `TicketDB` | the record, the three writes, and the four filters of the ticket bucket, as functions from bucket to bucket |
| `TicketLifecycle` | the API handlers, `update` and `checkWalletConsistency`, interleaved (extends `TicketDB`) |
| `TicketLifecycleProofs` | the theorems about it |
| `TicketClaims` | abstract: what vspd promises about registered tickets, whatever happens; implemented by `TicketLifecycle` |
| `TicketClaimsProofs` | the refinement |
| `AddressSource` | abstract: a request gets at most one address, no address twice |
| `FeeAddresses` | getNewFeeAddress, the generator, the key records, vspadmin retirexpub; implements `AddressSource` |
| `FeeAddressesProofs` | the theorems about it, the refinement included |
| `SpentScan` | setOutcomes, checkDatabaseIntegrity and findSpentTickets over a growing chain |
| `SpentScanProofs` | the theorems about it |
| `VoteChanges` | the vote change bucket and the handlers that add to it |
| `VoteChangesProofs` | the theorems about it |
| `TicketBroadcast` | the middleware broadcastTicket, its semaphore and retry loop, and dcrd with a ticket and its parent |
| `AltSignAddr` | the handler setAltSignAddr and the bucket of alternate addresses |
| `SetAltSignAddrRoute` | composes the two into the routes /setaltsignaddr and /feeaddress, with vspAuth and the background task |
| `SetAltSignAddrRouteProofs` | the theorems about it |
| `DatabaseFile` | createdatabase, opening with upgrades, hot backup, download and shutdown, by vspd and vspadmin |
| `DatabaseFileProofs` | the theorems about it |
| `RpcClients` | the shared connection to dcrd, block notifications and the loop of `Run` |
| `RpcClientsProofs` | the theorems about it |
| `MC*` | constants of the instances TLC checks |

Operators whose names begin with `Bug` are mutants: each is an existing
definition with a plausible mistake. They are used nowhere in the
specifications; replacing the definition by its mutant must make TLC find a
violation, which shows that the property depends on that piece of code.

### TicketLifecycle

State: `db` is the bucket (record or `None` per ticket); `tkt` and `fee` are
ticket purchases and fee transactions as dcrd sees them; `held` and `pref` are
the wallets. A handler is `pc` (where it is), `about` (its ticket), `snap` (the
copy vspAuth read, later the copy it writes back). The background task is one
goroutine: `phase` (which loop), `batch` (the copies its list query returned),
`cur`/`step` (the ticket it is working on and what it does next), `clients`
and `todo` (the wallets still to be called). `sent` and `acked` are history:
what vspd passed to dcrd, and what it told clients.

There is a step boundary wherever another goroutine can run between two
accesses to shared state that the properties can tell apart: around every
database transaction, and around the RPCs whose result decides a write. Two
handlers make several calls in one step: the lookups at their beginning, which
are refused or not, and the loop of setVoteChoices over the wallets
(`setVoteChoicesWallets` reaches any subset of them).

`subscribed` says that dcrd notifies vspd of blocks on the connection it has.
`Redial` takes that away (the connection breaks, or notifyblocks fails on it) and
may give it back; a restart dials anew.

| Actions | Code |
|---|---|
| `vspAuth` | middleware.go, the read of the ticket |
| `feeAddressExpired`, `Renew`, `New`, `Insert` | getfeeaddress.go |
| `payFee`, `Store`, `Send`, `RecordSend`, `Respond` | payfee.go: checks, first write, broadcast, second write, answer |
| `setVoteChoices`, `Store`, `Wallets` | setvotechoices.go |
| `updateUnconfirmed`, `unconfirmedTicket`, `unconfirmedDelete`, `writeBack` | update.go 56-122 |
| `broadcastFees`, `pendingFee`, `writeBack` | update.go 124-156 |
| `addToWallets`, `unconfirmedFee`, `feeWriteBack`, `addTicketForVoting`, `ticketAdded` | update.go 158-275 |
| `setOutcomes`, `findSpentTickets`, `writeOutcome`, `updateDone` | update.go 277-341; the scan itself is `SpentScan` |
| `checkWalletConsistency`, `addMissing`, `fixChoices`, ... | walletconsistency.go |
| `Restart` | the process stops anywhere and starts again |
| `Redial` | rpc/dcrd.go, Client: the connection is lost or made again, with notifications or without |
| `PublishTicket`, `DropTicket`, `ConfirmTicket`, `SpendTicket`, `MoveFee`, `Tick` | external: chain and clock |

Two assumptions about the outside: a transaction with six confirmations stays
(no reorganisation that deep), and six blocks are not mined in the moment
between dcrd's answer that it does not know a ticket and the deletion that
follows (the guard of `ConfirmTicket`). Everything else the environment does is
unrestricted. A failing transaction of bbolt (disk full) is not modelled in
this module.

Abstractions: the three preference maps are one agenda, and a request may leave
it as it is; PurchaseHeight is in
`SpentScan`; a request that is malformed or refused is `Answer`; the fee
calculation returns any amount in `Fees`.

### TicketClaims

The abstract specification has four variables: which tickets are registered,
what each record claims (a fee was given, the purchase is final, the fee was
sent, is paid, the ticket is spent), what the chain has shown, and which
tickets a wallet was given. `Update` may change the claims at will within what
the chain has shown and in their order, because that is all a code that writes
whole records without a lock can promise: the lost updates of the runs
`lostfee` and `twofees` are updates of this kind. What it excludes is a claim
ahead of the chain, a deleted ticket that comes back with a fee (`Register`
gives none), a ticket deleted after its fee was sent, and a wallet with an
unpaid ticket. `KeepsPromises` in `TicketLifecycle` states the refinement;
`Claimed` and `ShownOf` are its mapping.

### FeeAddresses

`Lock`, `nextAddress` (or `nextAddressError`), `SetLastAddressIndexRead`,
`SetLastAddressIndexWrite` (or `...Error`) and `getNewFeeAddressReturn` are the
steps of getNewFeeAddress; the deferred unlock is in `Return`. `Start` is
webapi.New with newAddressGenerator, `Crash` the end of the process anywhere.
`RetireXPubRead` and `RetireXPubWrite` are vspadmin, which can have the file
open only while vspd does not. An address is the pair of key and index.

### SpentScan

One action per iteration: `scanBlock` (filter of a block, false positives
included), `checkTicket` (inner loop with removal from both slices),
`blockDone`, `scanDone` (which moves `lastScannedBlock`), `writeOutcome`.
`NewBlock` may happen at any point. The initial states are databases as old
versions of vspd left them: a missing purchase height, the outcome "revoked".

setOutcomes and checkRevoked are not the only writers of these records. A request
that vspAuth read a record for may write it back much later, whole:
`held` has these copies, `vspAuth` reads one, `UpdateTicket` writes one back
(setVoteChoices, which checks the outcome of the copy only; payFee, which writes
twice; feeAddress), `sendError` drops one. So an outcome can be cleared, or a
confirmed fee become unconfirmed, while a scan is under way or between two.
The scan does the same to the others: what it stores is the copy its list query
returned (`toCheck`).

`skipped` and `blind` are history variables that record the four ways in which
the code leaves a spent ticket votable: its fee is found confirmed after the
block that spends it was scanned; the write of its outcome failed; a request
writes back a votable copy of its record after that block was scanned; or its
purchase height is unknown. The properties say that failed calls, blocks that
arrive during a scan, restarts and all the interleavings of writers add no other.
The first is the subject of the run `spent_scan_late`. The third has a step of its
own in this model, although setvotechoices.go 49 has "Only allow vote choices to be
updated for mempool/immature/live tickets": the check that follows is of the copy, and a
spent ticket whose outcome setOutcomes has stored in the meantime counts as votable
again until vspd restarts. `OutcomeIsSettledOnce` says what is left of finality: an
outcome is settled by setOutcomes or, for records of old versions, by
checkRevoked, each from a list it read before a scan; neither replaces what the
other has settled, and only a request that still holds a copy without one can clear
it, in the same run of vspd. An outcome "revoked" of an old version cannot be
cleared: a request that finds it is refused, and no record gets it anew.
`SpentTicketsGetOutcome` supposes that dcrd notifies vspd of blocks from some
time on (`subscribed`, `Redial`, as in `TicketLifecycle`). The maturity is at least 1
(it is 16 or 256 on the networks of dcrd): a scan for tickets whose purchase
height is unknown starts at block `TicketMaturity`, and block 0, which
`spentAt` uses for "not spent", is never scanned.

### RpcClients

`dial`, `dialed`/`dialError`, `validated`/`notValidated`, `NotifyBlocks` (or
`...Error`) are the steps of DcrdConnect.Client in one goroutine; the mutex
covers only the first two. `closeCurrent`, `closed` and `panic` are Close: it
reads the field `client` more than once and without the mutex, so it may close
a connection that another goroutine has just dialed, or find nil. A panic ends
a request (recovery.go) or, in Run, the process, which starts again. `ticker`,
`Notify` and `updateDone` are the loop of Run and the unbuffered channel. An
update counts as one call of Client and some time in which Run does not
receive. The wsrpc library is external: it delivers the notifications of a
connection one at a time and may lose those of a connection that ends.

Two things the code permits are visible in this model and limit the
properties: another goroutine may use a connection while its dialer is still
validating it (`OpenIsReady` says it does not stay), and two goroutines whose
validation fails may close each other's connections for as long as requests
keep coming (`Reconnects` therefore waits until no request is inside Client).

### TicketBroadcast, AltSignAddr, SetAltSignAddrRoute

`TicketBroadcast` is a component without a specification of its own: variables,
`BroadcastInit`, the actions of dcrd and the network (`Propagate`, `Relay`,
`Mine`, `SpendOutputs`, `Evict`) and those of a request. `pc` names the next
call to dcrd: `sendParent`, `slot` and `retry` for the parent, `ticket` and
`sendTicket` for the ticket. `broadcastSem` and `attempts` are the semaphore and
the loop. The hash of the parent is not checked against the ticket when dcrd
knows it, so a request may always skip to the ticket. SendRawTransaction
(rpc/dcrd.go 197) fails for a transaction whose outputs are spent, because the
lookup that should recognise it is given the hex (dcrd.go 215).

`AltSignAddr` has the check, the answer and the insert of the handler as three
steps, and the deletion. `SetAltSignAddrRoute` puts the two in sequence with
vspAuth; a request in the handler is of either route, since the middleware does
not tell them apart. Its background task deletes an unconfirmed ticket and then,
in another transaction, its address. `told` are the addresses a client was
told are set; `lost` becomes TRUE once a write failed, vspd stopped before one
or the task deleted an address, and `forgotten` once dcrd dropped the ticket:
the exceptions the properties name. Because the answer precedes the insert, of
two concurrent requests both may be told of success while one address is stored
(setaltsignaddr.go 102, 115).

### DatabaseFile

A file is a record: version, tickets with the encoding and fields that the
upgrades touch, the fee keys where that version keeps them, and the number of
its last transaction; or one of the values `NoFile`, `Empty` (created by bbolt,
no bucket yet) and `Torn` (part of a copy). `Init` has files of all five
versions. `Meaning` is what a database says independently of its version, and
`log` is that meaning after every transaction; an upgrade must leave it as it
was. The two programs are `pc`; `next` is the upgrade that comes next
(`upgrades[currentVersion:]`), `lock` bbolt's file lock. The hot backup of
`cmd/vspd` is its own goroutine (`hot`): lock the mutex, copy in a read
transaction to the temporary file, rename. Close of vspd is `Close`, `closeLock`,
`closeCopied`, `closeRename`; it waits for read transactions, so for a download
(`reader`), and copies a file whose lock it has released. `Write` goes on until
then, because the web server leaves handlers running after ten seconds.

Assumed about the outside: at most one process of vspd and one of vspadmin at a
time; transactions of bbolt are atomic and durable; a rename is atomic and what
was written is not lost when a process is killed (power loss is not modelled;
the copies are not synced); bbolt visits every ticket once although
upgrade_v3.go replaces them during the iteration; a copy of a file that is
written meanwhile is consistent if at most one transaction was committed, since
that one writes free pages only. After two it may be torn, which `overtaken`
records.

An interrupted createdatabase leaves a file that nothing can open and that
createdatabase does not replace (database.go 98, vspadmin main.go 69). The model
has it; the instance may stop there, which is why this run does not check for
deadlock.

### VoteChanges

One ticket. `VoteChanges` delivers signed requests any number of times in
any order to concurrent handlers, and has another writer (`readTicket`,
`writeBack`: the background task or feeaddress) with its own copy; the record
is saved after the answer, and a failure or crash may lose it.

setvotechoices.go reads the ticket early and saves the whole record late. A
vote change can therefore write back over what another writer stored meanwhile,
and of two concurrent vote changes the older may be saved last. Both are in the
models (`TicketLifecycle`, `VoteChanges`). What it does to an outcome is in
`SpentScan`, where `OutcomeIsSettledOnce` bounds it and `skipped` records it.

## 3. Runs

| Run | Checks | Bounds and why they are enough |
|---|---|---|
| `fee` | record consistent and true, no early broadcast, wallets hold paid tickets, paid tickets kept, the inductive invariant `EveryCopySound`, and the refinement of `TicketClaims` | 1 ticket, 1 fee transaction, 2 handlers, 3 requests, 2 fee amounts, 1 clock tick (the fee expires), 1 failure or restart: a handler races a handler and the background task, and each may be cut off once |
| `liveness` | received fees move on while dcrd notifies, votable tickets reach every wallet, wallets follow the database | 1 handler next to the task, 2 choices, 1 failure; no symmetry |
| `fee_addresses` | addresses given once, saved first, one active key, `IInv`, refinement; every waiting request is answered | 3 requests, 3 keys, 3 crashes, invalid children and the last derivable index within reach; no symmetry, since liveness is checked |
| `spent_scan` | scans exact, outcomes true, settled once, no gap between scans, spent tickets get an outcome | 2 tickets, one legacy, one with requests that hold up to 2 copies of its record (read at different times, they can overwrite each other as well as an outcome); both tickets may be spent in one block, so that removing one moves the other into its place; heights 3 to 5 with missing and expiry within reach (expiry 2 blocks after maturity 1); 1 failure, restart or loss of notifications; no symmetry, since liveness is checked. Longer slices, and tickets with one script, are left to `ScanIsExact` |
| `vote_changes` | bucket keeps the newest, accepted is newer | 2 records kept, 3 requests, 5 deliveries: the bucket overflows and a replay can follow |
| `rpc_clients` | one open connection, none kept without validation, vspd reconnects, notifications start updates | Run and one handler, which is enough for each to close or forget the other's connection (the goroutine of the web cache, a third caller of Client, is left out); 2 blocks, 2 failures, 1 outage of dcrd, 4 connection numbers (more are never in use at once) |
| `set_alt_sign_addr` | slots held and given back, only known tickets pass, address kept, answer honoured, requests end | 2 requests for 1 slot, so that one finds it taken; 3 attempts, so that there is a first, a middle and a last; 3 failures, evictions or stops: enough for an eviction, a failed deletion and a stop in one behaviour |
| `database_file` | contents kept, layout known, backup usable, last backup complete, shutdown ends | files of 5 versions and none, 1 ticket, 3 transactions of handlers or vspadmin (two of them can overtake the copy of Close), 2 failures or kills |

The type invariants are checked in the runs of `TicketLifecycle` and
`RpcClients`, and within the inductive invariant in that of `FeeAddresses`.
Deadlock is not checked where the bounds on requests and faults make the
instance stop. `Interchangeable`/`Symmetric` are used in safety runs only.

Four runs expect a violation. Each checks one sentence of the documentation or
of a comment which the code does not keep when actors interleave or a call fails:

| Run | Sentence | What happens |
|---|---|---|
| `lostfee` | ticket.go 19-20, "NoFee indicates no fee tx has been received yet" | updateUnconfirmed (update.go:112) writes back a copy from before the payment; the fee the client was told is received is gone |
| `twofees` | api.md 155-156, payfee returns an error if a fee was provided | two handlers read the ticket before either stores its fee (payfee.go 52, 240) |
| `spent_scan_late` | ticket.go 105-106, an empty outcome means votable | a fee confirmed after the spending block was scanned (update.go:298) |
| `rpc_quiet` | vspd.go 110, the ticker ensures that notifications are received | after one failed notifyblocks call (dcrd.go:118) the connection is kept and reused, and no notification comes |

### Fairness

`TicketLifecycle`: weak fairness of the steps of the background task (a
goroutine that can run does run, and every RPC returns); strong fairness of
starting `checkWalletConsistency`, whose ticker depends on nothing outside vspd;
strong fairness of starting `update` *while dcrd notifies vspd of blocks*
(`subscribed /\ updateUnconfirmed`). The select in Run serves its channels again
and again; Go's select chooses fairly among ready cases, and blocks keep being
mined. But blocks are the only trigger of `update` in the loop of Run, and one
failed notifyblocks silences them on a connection that is kept, as the run
`rpc_quiet` shows. Nothing says that the connection is ever replaced, so `Redial`
has no fairness, and `ReceivedFeeMovesOn` has `<>[]subscribed` as its hypothesis;
the two properties about wallets have none. Nothing is assumed of clients,
handlers, chain or wallets. Faults are bounded in number, so a wallet is
eventually reachable. `FeeAddresses`: weak fairness of every request and strong
fairness of `Lock`, because Go's mutex hands over to a waiter that has waited
long. `SetAltSignAddrRoute`: weak fairness of every request (calls of dcrd
return, the sleeps of one second end); nothing is assumed of dcrd, the network
or the task. `DatabaseFile`: weak fairness of the steps of a shutdown and of the
copy of a hot backup, of `downloaded` (the server's write timeout of 60 seconds
ends a download), and strong fairness of `hotDone`: the loop comes back to its
select, where the cancelled context is ready each time, and select takes a ready
case sooner or later. Its `servicesDone` is weakly fair too: the services the
shutdown waits for come to an end, although an RPC that Run has begun is not
cancelled (its context is `context.TODO`) and ends only when dcrd answers or the
connection breaks. `SpentScan`: weak fairness of the scan's own steps and strong
fairness of `subscribed /\ setOutcomes`; `SpentTicketsGetOutcome` has the same
hypothesis as `ReceivedFeeMovesOn`. `RpcClients`: a call of Client that has begun goes on (weak
fairness of `Continue`), the mutex is starvation-free and select takes a ready
channel again and again (strong fairness of `dial` in Run, `ticker` and
`Notify`); no handler has to make a request and dcrd may stay down.

## 4. Proofs

`TicketLifecycleProofs` proves, for any sets of tickets, fee transactions,
handlers and wallets and any bounds, the safety invariants of the run `fee` and,
beyond it, that no two tickets have the same fee address
(`FeeAddressesDistinct`, which the run with its single ticket could not refute).
The invariants are not inductive by themselves: a stale copy that is written
back must be known to be harmless *before* it is written. The inductive
invariant is therefore `TypeOK /\ EveryCopySound`: every copy of a record, in
the database, in a handler (`HandlersOK`) and in the background task
(`CopiesOK`, `CurrentOK`, `TodoOK`), has its own fee address (`OwnAddress`), fee
fields that fit together (`FeeFieldsAgree`) and says nothing the chain does not
bear out (`ChainAgrees`). What the chain bears out stays true (confirmations are
not taken back, `sent` only grows), so a copy stays sound while it waits.
`Soundness` states it; `TypeCorrect`, `CopiesSound`, `FeesPaid`, `RecordsTrue`,
`AddressesDistinct`, `BroadcastAfterConfirmation` and `WalletsHoldPaidTickets`
follow. `PaidTicketsKept` is an action property: a ticket is deleted only when
dcrd does not know it, and by the invariant its fee was then never sent.
`UpdatesEnd` is the variant of the background task: each of its steps enters a
later phase, shortens the list, leaves less to do for the ticket in hand or
calls one wallet less (`LessToDo`), and blocks and handlers leave all of that
alone. That a planned copy is still on the list, so that the list does shrink
when the task is done with it, is the invariant again.

`TicketClaimsProofs` proves `PromisesKept`, that `TicketLifecycle` implements
`TicketClaims`, from the same invariant: one lemma per action shows which step
of the abstract specification it is, or that it changes none of its variables.
An action that writes a record back is an `Update` if the ticket is registered
and a stutter if it is not; that its claims are claimable is `EveryCopySound` of
the copy, that a registration claims no fee is part of `HandlersOK` (a record
about to be inserted has fee status none).

`SetAltSignAddrRouteProofs` proves the safety properties of the run
`set_alt_sign_addr` for any number of requests, slots, attempts and failures.
`Inv` adds to them that the task acts only on tickets dcrd dropped (`TaskOK`)
and how the stages of the handlers, what clients were told and what is stored
belong together (`HandlersOK`). `CountWaiting` is the argument about the
semaphore: a step of one request changes the set of requests in the retry loop
by that request, and the count with it. `SlotsAreHeld`, `OnlyKnownTicketsPass`,
`AnswersAreHonoured` and `AddressesAreKept` follow. `RequestsTerminate` bounds the
steps of a request by `StepsLeft`: every step of its own lowers it, no other step
raises it, and it is never more than `MaxAttempts + 8`.

`FeeAddressesProofs` proves `IInv` inductive: the generator runs on the active
key and is never behind the saved index (`GeneratorOK`), the holder of addrMtx
is the only request between derivation and answer (`RequestsOK`), a retirement
under way works on the active record (`AdminOK`). `AddressesGivenOnce`,
`GivenAddressesSaved`, `ActiveKeyUnique` and `IndexGrows` follow, and
`Refinement`: every step is a `Give` of AddressSource or a stutter.

`RpcClientsProofs` proves `IInv` of RpcClients inductive, for any number of
handlers, failures and outages. `OneConnection` needs to know that the mutex is
held exactly by the goroutine in `dial` and that there is no current connection
meanwhile; `OpenIsReady` that only a connection validated against the present
configuration of dcrd is at notifyblocks, and that a goroutine outside Client
owns no connection. `DialOK` says this. `SingleConnection` and
`ReadyConnection` follow. `OpenIsReady` names the exception of `rpc_quiet`, a
connection whose notifyblocks call failed.

`DatabaseFileProofs` proves the safety properties of the run `database_file`,
for any tickets, last indexes, transactions and failures. One lemma per upgrade
(`UpgradeV2` to `UpgradeV5`) shows that it turns the layout of a version into
that of the next one and keeps `Meaning`, by `SameMeaning`; `NewIsOK`, `OldIsOK`,
`RetireIsOK` and `WriteIsOK` do the same for the other ways a database comes
about. `Inv` says that the file is sound and means what `log` says last
(`FileOK`), that the program with the lock knows the version and that vspd finds
the latest version also after it has released the lock (`LockOK`), and that
every finished copy is a database as it once was (`CopiesOK`). A copy stays one
because `log` only grows (`LogGrows`); the last one is complete because nobody
writes for vspd once the lock is released. `ContentIsKept`, `LayoutIsKnown`,
`BackupIsUsable` and `FinalBackupIsComplete` follow.

`SpentScanProofs` proves the safety properties of the run `spent_scan`, for any
requests and copies, tickets, scripts, purchase heights, chains, filter matches,
failures and restarts. The central facts are about the two slices:
`nonOrderPreservingRemove` on both keeps them aligned and removes exactly one
ticket (`Removed`, `RemovedElements`), so that the tickets of the list are at
every iteration split between the slice and the results (`SliceOK`), and the
results are what the blocks passed so far spend; of the block under way, the
part of the slice before `i` has nothing more of it (`ScanOK`). The chain may
grow meanwhile, but only above `endHeight`. Since a result is true of the chain
and of the copy it is stored with (`SpentOK`) and no other result is for the
same ticket, which has no other outcome until then (`PendingOK`), what is stored
is true, and settled once. A copy in the hands of a request has no outcome and
the purchase height that is right, or none in a record of an old version
(`HeldOK`, `RightHeight`), so writing it back can clear an outcome and never
replace it. That no spent ticket is missed (`MissedOK`) needs that a scan for
votable tickets is for all of them that are not tracked as exceptions, and
starts at the last scanned block, or at a height at which none of them could
have been spent (`StartOK`). `ScanIsExact`, `OutcomesAreTrue`, `NoneMissed` and
`OutcomesAreSettledOnce` follow. `ScansEnd` is the variant of the scan, the pair
of `BlocksLeft` and `ItemsLeft`: the loop that looks at the same index again
after a removal terminates because the slice is shorter then, and new blocks do
not move `endHeight`, nor do requests.

`VoteChangesProofs` proves both properties of the run `vote_changes`, for any
number of handlers, messages, deliveries and failures and any size of the
bucket. `KeepsNewest` is all but inductive: `SavedWindow` shows that
SaveVoteChange turns the last entries of a history into the last entries of the
history with one more, by what `Min`, `Max` and `Cardinality` are of an
interval of keys. Beside it, `Inv` has that a delivery is recorded once at most
(`RecordedOnce`), which bounds the history. `AcceptedIsNewer` follows from the
check of the timestamp and `KeepsNewest`.

The assumptions are the named `ASSUME`s of the modules: types of the constants,
that the sets of tickets and handlers which are counted are finite, and that
`None` is no element of the sets it stands beside. In SpentScan, a ticket is
bought no later than `FirstHeight` and the maturity is at least 1. In
FeeAddresses, `Keys` and `InvalidChild` are arbitrary.

Model-checked only: the liveness properties, because fairness and ENABLED are
beyond the prover. Every safety property of a passing run, and both
refinements, are theorems. Of the argument for `SpentTicketsGetOutcome`,
`RequestsEnd` and `ReceivedFeeMovesOn`, the part that is not about fairness is
proved as action properties: scans, requests and runs of the background task
cannot go on for ever, the lists they work through being finite (`ScansEnd`,
`RequestsTerminate`, `UpdatesEnd`). No cfg names these three: the runs check the
liveness properties themselves.

## 5. Not modelled

* reorganisations deeper than six blocks, disk failures in `TicketLifecycle`;
* the connections to the wallets (Clients follows the protocol of `RpcClients`
  without notifications), what the RPC wrappers encode and decode;
* web cache, sessions, admin pages other than the download, rate limits,
  statistics: no influence on the state of a ticket. The cache is a copy of
  statistics that is replaced under a lock once a minute;
* power loss, and two processes of vspd at once;
* signature checks, address and transaction decoding, the fee formula: their
  result is a choice;
* configuration, logging, client library, v3tool, vote-validator: outside the
  server's state.

## 6. Plan

Done: 1. `TicketDB`, `TicketLifecycle` and its proofs; 2. `AddressSource`,
`FeeAddresses`, refinement and proofs; 3. `SpentScan`; 4. `VoteChanges`;
5. `RpcClients` and its proofs; 6. `TicketBroadcast`, `AltSignAddr`, their
composition and its proofs; 7. `DatabaseFile` and its proofs; 8. `TicketClaims`,
refinement and proof;
9. proofs of `SpentScan` and `VoteChanges`; 10. variants of scans, requests and
the background task.

Next: the variant of an open and a backup in `DatabaseFile`, and that
`SpentScan` implements the step findSpentTickets takes in `TicketLifecycle`.
