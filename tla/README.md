# FRED in TLA+

FRED watches a dark pool for front running. Its clients put the hash of an order
into a replicated ledger before they send the order to the pool; when the pool
reports a fill, they compare places in the ledger. The repository holds three
programs: the ledger (`hotstuff/`, C++, a HotStuff replica with a REST interface),
the dark pool (`server/server.js`) and the client (`client/client.js`).

This directory holds TLA+ models of all three, the TLC configurations that check
them on small instances, and TLAPS proofs of the most important properties.
`PROJECT.json` ties every definition to the lines it models, every property to a
changed version of the code that breaks it, and lists the hazards the properties
are for.

## The system

| Part | State | Operations | Talks to |
|---|---|---|---|
| consensus core (`consensus.cc`) | `hqc`, `b_leaf`, `b_lock`, `b_exec`, `vheight`, per-block certificates under construction | `on_receive_proposal`, `on_receive_vote`, `update`, `update_hqc` | application base by virtual calls, disk |
| application base (`hotstuff.cc`) | `latest_new_qc` slot | `do_propose`, `do_empty_propose`, `do_vote`, `on_new_qc`, `wait_for_new_qc`, `reload_decided_blocks` | core, protocol manager, VM bridge |
| block store and fetching (`block_storage/`, `network_event_queue.cc`) | cache of blocks, requests with the events that wait for them, work lists per peer | `on_event`, `validate`, `insert_block`, `add_fetch_request`, `deliver_block`, the loop of `BlockFetchWorker`, the fetch server | core's event queue, peers |
| disk (`block.cc`, `io_utils.cc`, `lmdb.cc`, `lmdb_wrapper.cc`) | block files, index of decided blocks, certificate of the top block, persisted round | `write_to_disk`, `add_decided_block`, `set_qc_on_top_block`, `create_db`, `open_db`, `commit_wtxn`, `init_clean`, `init_from_disk` | core |
| garbage collector (`garbage_collector.cc`) | list and buffer of blocks to flush, requested height | `add_block`, `invoke_gc`, the thread's loop | block store, core |
| certificates and configuration (`crypto/`, `replica_config.cc`) | signatures by replica; replicas and quorum size | `add_partial_certificate`, `serialize`, `parse`, `verify`, `finish_init` | core, wire |
| protocol client and server (`protocol/`, `nonblocking_rpc_client.h`) | work list, connection, call in progress | `vote`, `propose`, `fetch`, reconnect and repeat | RPC transport |
| RPC transport (`xdrpp`: `msgsock`, `srpc`, `server`, `marshal`) | bytes of each stream, lengths and messages half read, replies half written | `input`, `output`, `dispatch`, `invoke`, `read_message` | event loop |
| event loop (`xdrpp/pollset`) | descriptors in two tables, timeouts, injected callbacks, signal flags and owners | `poll`, `fd_cb`, `timeout`, `inject_cb`, `signal_cb` and its handler | every server thread |
| speculative VM bridge (`vm/`) | list of speculated heights, buffers and counters of proposals, the state machine | `get_and_apply_next_proposal`, `apply_block`, `notify_vm_of_commitment`, `run` | three threads, three mutexes |
| ledger service (`main/test.cc`) | `confirmed_hashes`, proposal buffer of the non-speculative bridge | `/append`, `/get_index` | application base |
| dark pool | two heaps, counters, fairness coefficient | `/getNewClientId`, `/sendOrder`, `/setFairness` | DynamoDB |
| client | its id, its order, what `append` answered | one run of `main` | all of the above |

The hard parts are: messages that are late, reordered or repeated and name blocks
that are not there yet; several proposers and a leader that proposes ahead of its
certificates; a crash between the sending of a vote, the writing of files and the
commit of the index; a collector that clears bodies without a lock beside threads
that save and send them; byte streams that are cut anywhere and connections that
break under a call that is then repeated; an event loop whose callbacks change its
own tables while signals and other threads wake it; three threads that hold mutexes
across condition waits; settlement writes that finish in any order; and a client
that draws conclusions from values read at different times.

What makes each part correct: the core, one ledger and nothing executed that is not
on disk; recovery, a start that succeeds and keeps what was executed; the queue,
that the core gets every sound message once and only with blocks whose links it can
follow; storage, an index that only grows and bodies that are there while anyone
can need them; transport, calls in order and unchanged, results of their own call
only; event loop, nothing it was asked to run forgotten; bridge, each body applied
once and no thread stuck; service, indices that agree with the ledger; pool, an
uncrossed book and price priority; client, accusing only who was filled.

## Modules

| Module | Models | Used by runs |
|---|---|---|
| `HotstuffCore` | the core of every replica, with proposing and voting, over a network that delays, reorders and repeats | `core` |
| `ReplicatedLedger` | the promise of the core: one log that only grows, of which each replica has executed a beginning | refined by `HotstuffCore` |
| `HotstuffRecovery` | `HotstuffCore` with disks, crashes between and inside handlers, and `init_from_disk` | `restart`, `restart_split` |
| `Storage` | one replica's block store, files, LMDB index, garbage collector and fetch server, killed and restarted | `storage` |
| `NetworkEvents` | one replica's event queue, validation, block store and fetch workers | `network` |
| `Certificates` | configuration, partial and quorum certificates, their bitmap form | through `RpcLink` |
| `Xdr` | the wire format of every kind of type the interfaces use | through `RpcLink` |
| `RpcLink` | clients that reconnect and repeat, byte streams, the server's sockets, dispatch and handlers; EXTENDS `Xdr` and `Certificates` | `rpc` |
| `Pollset` | the event loop | `pollset` |
| `VMBridge` | one replica's speculative bridge and state machine | `vm_leaders`, `vm_rewind` |
| `LedgerApp` | the REST service of the leader | `ledger_leader` |
| `AppendLog` | the promise of the service | refined by `LedgerApp`, used by `Fred` |
| `Darkpool` | `server.js` | through `Fred` |
| `Fred` | clients, pool and ledger together | `fred`, `fred_accused` |
| `HotstuffCore_proofs`, `HotstuffRecovery_proofs` | theorems about the core with its refinement of `ReplicatedLedger`, and about restarts | |
| `Storage_proofs`, `Pollset_proofs` | theorems about a replica's disk, store and collector, and about the event loop | |
| `NetworkEvents_proofs`, `VMBridge_proofs`, `LedgerApp_proofs`, `Fred_proofs` | theorems about the event queue, the bridge, the service with its refinement of `AppendLog`, and the pool with its clients | |
| `MC*` | instances for TLC | |

How the models rest on each other: `RpcLink` shows that calls arrive unchanged, in
order and perhaps again, and the network of `HotstuffCore` and `NetworkEvents`
allows that and also lets messages overtake each other; `Storage` shows that
recent blocks are served whole, which `NetworkEvents` assumes of its peers;
`NetworkEvents` shows that the core's links can be followed, which `HotstuffCore`
and `Storage` assume; `HotstuffCore` shows that what commits is on one branch, which
`Storage`, `VMBridge` and `LedgerApp` assume; `AppendLog` is what `Fred` uses of
`LedgerApp`.

Variables and actions carry the names of the code. Where a definition has a
changed version used to test a property, that version stands directly before it,
is called `<name>_<Change>` and its comment begins with "Variant".

### HotstuffCore

A block is a number that stands for the hash of its header; parent, justify and
height are functions of it. The header does not contain the proposer, so two
replicas can propose the same block (`do_propose_same_header`). A certificate is
the block it certifies; that it is backed by votes is a property
(`CertifiedByQuorum`), not an assumption. `update` is modelled as one step with
its early returns in the order of the code: raise `hqc`, move the lock, write the
locked chain to disk, test the three-chain, walk down from its head, throw
"safety breached" or execute. Handlers are atomic because one thread runs them
all; `do_propose` shares only `hqc` and `b_leaf` with them, under
`proposal_mutex`.

Replicas follow the code. They may stop, but they do not lie; signatures and
`validate` are in `Certificates`, `RpcLink` and `NetworkEvents`. `vheight` is a `uint32_t` while heights are
`uint64_t`; the model takes it modulo `VHeightModulus`, and `HeightAssumption`
says that heights stay below it, so no property says anything of the wrap. Past 2^32
blocks the comparison in `on_receive_proposal` would be with a small number again and a
replica would vote twice at one height.

### HotstuffRecovery

Adds what survives a crash: files, index, and the certificate stored with the top
block. A handler that completes saves exactly what it wrote. `CrashInHandler`
stops `on_receive_proposal` after its vote has gone out and anywhere in the
writing of files, which goes from a block to its parents; the transaction commits
or does not. `reload_state_from_index` sets `vheight` and `b_lock` to the last
executed block, as the code does. The genesis block stands for the common index
all replicas started from, because `init_from_disk` refuses an empty one. (The
program in `main/` clears its directories and calls `init_clean`; recovery is the
library's interface.)

### Storage

Four threads over one set of blocks: the network's inserts, the core's writes,
indexes and prunes, the collector clears one body after the other without a lock,
the fetch server tests the flag of a block and copies the block some time later. A
body that is cleared while it is copied is torn; the receiver's test of the hash
refuses it. The blocks are any tree (`TreeAssumption`); a commit is of a block below
the lock, which `LockIsAbove` of `HotstuffCore_proofs` shows. A file is absent, half written, written without its body, or whole.
Index keys are the bytes of a height, most significant first, and the cursor walks
them in the order of the bytes. One commit adds the blocks of its queue, no two of
which have the same height, so `add_decided_block` is written for the whole queue. The process is killed between any two steps and
started again with `init_from_disk` or `init_clean`; a start that would throw is
not a step, and `RestartIsPossible` says that after the first commit
`init_from_disk` never is one of those. (Before the first commit there is no "qc"
record and only `init_clean` works.) `commit` is the transaction; `persist` is its
end, where `commit_wtxn` refuses a lower round. Killing a process loses nothing
that was written to the file system or to LMDB's map; a power failure could,
because the database is opened with `MDB_NOSYNC | MDB_WRITEMAP`, and is not
modelled.

### NetworkEvents

An event whose block is missing waits with a request; when the block arrives the
events go back into the queue, or move on to what that block is itself waiting
for. A worker takes all its requests, calls the peer, and puts them back if the
call fails. Each arrival of a message is a message of its own, so a repeated RPC
is another member of `Messages`. A message may have one of four defects, and is
dropped where the code drops it: an unknown sender or a bad signature at `validate`
of the vote, a wrong body or a certificate without a quorum at that of the block.
The result of `validate_hash` in `block_fetch_worker.cc:73` is ignored; what
protects the store is `validate_and_add_event`. `was_requested_from` never says yes
in the code (`requested_from` is never set), so a peer is asked again for every
event. The events of one answer enter the queue together. Assumed: a peer that
names a block can still serve it, which `Storage` shows for the last 100 blocks
below what the peer has executed; a replica further behind gets an answer without the
block, and no property promises it more.

### Certificates and Xdr

A certificate is a function from signers to signatures; on the wire it is a bitmap
and the signatures in the order of its bits, lowest first.
Signatures and hashes are symbolic (a pair of what is signed and who signs): the
library that computes them is external. `verify` throws for an unknown signer, as
`get_info` does; in `RpcLink` such a certificate ends the server. In `Xdr` a type is a record that says what `xdrc` generates for
it, and `put`, `get` and `serial_size` are the archives. Sizes are scaled: a
byte has `Base` values and a word has two bytes, so that a bound on a length, a
wrap and a message cut inside its length can all occur with messages of a few dozen
bytes. Both modules are pure operators, and are exercised by `RpcLink`.

### RpcLink

Two clients and one server. A client opens a connection, takes an identifier from
the global counter (two steps: it is incremented without a lock), writes its call,
and reads until a whole message has arrived; on any failure it gives the connection
up and makes the call again over a new one, while the server may still be reading
the old. The server's socket reassembles lengths and messages from reads that end
anywhere, checks length and padding, decodes, runs the handler, and writes what the
socket takes of the reply, the rest from a callback. `dispatch` has the error
replies in the order of the code (version, program, procedure, arguments). It catches
`xdr_runtime_error` alone: what else a handler throws leaves the event loop's thread and
ends the process (`terminate`), which closes every connection and takes no more.
`Scenarios` says what is called; the model does not restrict when connections break
or where a stream is cut beyond the scenario's counts.

### Pollset

`poll` is a program with a phase: the callbacks of descriptors one at a time, among
them that of the self-pipe, which runs what was injected; then timeouts, signals and
`consolidate`, whose second loop is a recursive function of its steps. A callback may make any call
of the interface, at any moment of the round, within `maxOps`. Each signal handler
has three steps (flag, owner, wake-up byte), on any thread. `Usages` are the ways a
program uses the loop. The self-pipe is a descriptor of the loop like any other, so
`pending()` is always true, in the model as in the code. A callback may also cancel or
move the timeout it is called for, which nothing in `pollset.h` forbids: `run_timeouts`
then erases a node that is gone (`pollset.cc:271`). What the build does with it is not
followed any further: the loop stops in the phase `undefined`, the invariants and theorems
cover the steps up to it, and the eventual properties except it. Nothing in the
repository does this.

### VMBridge

Everything under the mutex of `VMControlInterface` is one step; the gadget's mutex
is a variable, because it is held across the wait in `get_proposal`. Consensus
appears as the branch below `b_leaf`, the height of the highest certificate and
the commit rule. `Setups` are the ways in which a replica is run: alone and waiting
for its certificates, or one of several leaders that propose ahead.

### LedgerApp, Darkpool, Fred

`LedgerApp` has the one REST thread, the event thread and the single slot between
them. In `Darkpool` a handler is one step, since Node runs it to its end, and the
two puts of a match complete later in any order or fail. An order names any client id: `server.js:142` refuses one that is missing or negative
and asks nothing else. `Rank` is the order in
which prices compare, so that the theorems also cover prices sent as strings.
`Fred` composes the client with `Darkpool` and with the actions of `AppendLog`;
every request can fail before or after it is served. In one scenario nobody runs
the client and others trade at two prices with a pool that may front run; in the
others clients check on an honest pool.

## Runs

All bounds are named constants. TLC needs at most three and a half minutes for each
run with two workers.

| Run | Instance | Distinct states | Shows |
|---|---|---|---|
| `core` | 2 replicas, quorum 2; one proposes up to two ahead of its certificate (5 blocks), the other competes (2 blocks) | 251,885 | one vote per height with `vheight` at its width, certificates backed by quorums and for ancestors, finality of what is executed, executed blocks on disk, agreement, "safety breached" unreachable, refinement of `ReplicatedLedger` |
| `restart` | 2 replicas, quorum 2, the proposer crashes once anywhere | 264,244 | recovery never throws, nothing executed is lost or repeated, safety while fewer replicas restart than two quorums share |
| `restart_split` (violation) | 3 replicas, quorum 2, one restart | | two branches commit: the vote and the lock are not on disk |
| `storage` | a chain of 6 blocks, one with an empty body, 2 crashes, either way of starting | 102,894 | a replica that has committed can always restart, recent blocks are served whole, the index and the round only grow, what is to be collected is |
| `network` | 4 blocks, 3 sound and 4 unsound messages from 2 peers, calls that fail | 122,032 | only sound events with complete links reach the core, each event is in one place, every sound message reaches the core |
| `rpc` | 29 scenarios: votes over a connection that breaks, proposals with every set of signers, a certificate of an unknown signer, two peers, foreign versions and arguments, fetches that need several writes, messages that are too long | 28,724 | calls arrive in order and unchanged, results are of their own call, certificates arrive as they were, every call that can be served returns unless the server has ended |
| `pollset` | 4 usages: descriptors, timeouts, injected callbacks with a signal, two signals that change hands | 62,035 | the two tables agree, every injected callback, signal and timeout is run unless a timeout took itself out |
| `vm_leaders` | one leader with 9 proposals and the source's buffer of 3; leaders in turn with a buffer of 2 | 52,995 | the state machine counts each body once, speculation agrees with consensus, no exception, `do_propose` returns, commits are applied |
| `vm_rewind` (violation) | leaders in turn that wait for certificates | | the rewind locks a mutex its thread holds |
| `ledger_leader` | 5 clients | 19,921 | reported indices agree with the order in the blocks, the slot is fresh, every client is answered, refinement of `AppendLog` |
| `fred` | 3 clients and an honest pool, or 3 orders at 2 prices and a pool that front runs; 2 failures | 2,329,655 | book uncrossed, price priority, orders conserved, table names matched clients; the accused was filled at that price and side and is in the ledger |
| `fred_accused` (violation) | the clients with 1 failure | | a client accuses an order that is not after its own |

Why the bounds are enough. A commit needs three certified blocks and a fourth
that carries the last certificate, so chains of four or five reach every branch of
`update`, and a second proposer with one or two blocks reaches every conflict of
locks; what holds for longer chains and more replicas is proved. `storage` keeps
`KeepDepth` = 1 block below the last executed one (100 in `hotstuff.cc:43`), so that
a chain of six commits, prunes, and prunes again while the collector is at work;
keys are of bytes with `ByteBase` = 2 values, so that heights need several bytes;
the second crash can hit the restarted process. In `rpc` bytes have 64 values, a
message at most `MaxMsgLen` = 62 of them and the server's socket takes `SndBuf` = 20
at once, less than one fetched block; identifiers wrap at `XidMod` = 4; the
connection in use and one left behind are all a client has while one connection
breaks. In `pollset` three to four calls by callbacks suffice to remove, add again
and move an entry in one round. Five appends get
past the three empty blocks with which a leader starts and commit one more. Three
orders are a match and a bystander; more are covered by the proofs. In `fred` two
clients would not do, because the comparison only succeeds for a third entry in
the ledger. The runs that set `CHECK_DEADLOCK FALSE` are those in which everything
asked for has been done and the threads wait for more work, or, in `storage`, the
process has been killed for the last time (the `vm_` runs also stop for good inside
the rewind).

Fairness. `NetworkEvents`: the queue and worker threads loop for ever, so weak
fairness of their steps; a fetch is retried until it succeeds
(`readd_request`, `wait_for_try_open_connection`), which is strong fairness of the
successful call. `Storage`: weak fairness of the collector's thread. `RpcLink`: weak
fairness of each client thread and of the server's event loop for each connection,
with the enabling conditions written out; connections break only finitely often.
`Pollset`: weak fairness of the loop, of the clock, of a signal handler that has
begun, and of the other pollset; nothing makes a callback or a signal arrive.
`VMBridge`: weak fairness of the state machine's thread, of the
event thread and of a driver that waits on the condition variable, which `run`
notifies in every turn; nothing makes the driver propose. `LedgerApp`: weak
fairness of the certificate of the pending proposal (the other replicas answer and
messages are sent again until they arrive), of the waiting handler and of commits.
The models of safety have no fairness.

## Proofs

TLAPS checks every theorem for all values of the constants, in eight modules. Each
inductive invariant below was first checked by TLC on the instance of its run.

**Core** (`HotstuffCore_proofs`). The inductive invariant is
in two halves. `BaseInv` is what each replica keeps by itself: `TypeOK`, `TreeInv`
(heights and ancestors follow parents, the justify block is a proper ancestor),
`PointerInv` (what the pointers of a replica point to), `CertifiedByQuorum`,
`HeadInv` (what is executed heads a three-chain) and `WrittenInv` (the locked chain
is on disk). `SafeInv(T)` is what follows when any two quorums meet in a replica of T,
those that remember their votes: `OneVoteOf(T)`, `VoteInv(T)` (a voter's lock and
height at the time of its votes bind it afterwards), `ExecInv(T)` (what is executed is
below the lock) and `NoSafetyBreach`. `IInv` is
`BaseInv` with `SafeInv(Replicas)`. None of the safety properties is inductive alone:
agreement rests on why a voter may not have voted for a conflicting block, which is
only visible in `VoteInv`.

The argument: two quorums of n - n/3 share a replica (`QuorumsIntersect`), hence
two certificates have a common voter (`CommonVoter`), hence there is at most one
certificate per height. `Finality`: suppose a block conflicting with the head of a
three-chain is certified at its height or above, and take the lowest one; a common
voter of it and of the last certificate of the three-chain was locked when it
voted, so the block's own certificate is for a lower block that conflicts too, or
is not low enough: a contradiction. Everything else follows: `ExecutedIsFinal`,
`AgreementHolds`, `NeverBreached`, `CommitsOnlyExtend`, and, because the lock is
above what is executed and the whole locked chain is written, `ExecutedOnDisk`.
`ImplementsLedger` maps the replica that has executed furthest to the abstract log
and shows that each step of the core is a commit or changes nothing.
`TypeCorrect`, `LockIsAbove` and `CommitsOnlyExtend` have no run of their own; their
definitions (`TypeOK`, `LockAboveExec`, `CommitsExtend`) are in `HotstuffCore`.
Assumed: a finite nonempty set of replicas, disjoint block names per minter, and
`HeightAssumption`.

**Restarts** (`HotstuffRecovery_proofs`). `RecoveryInv` is `BaseInv`, `DiskInv` (the index
is what is decided, its certificate that of `b_exec`, and what the core takes for
written is on disk) and, as long as `FewRestarts`, that is, fewer replicas have
restarted than two quorums share, `SafeInv(Steady)` with no failed start, where
`Steady` are the replicas that have never restarted. Under that condition every two
quorums still meet in a replica of `Steady`, so the argument of the core goes through
with `Steady` in place of all replicas: `FewRestartsSafe`, and with it
`RestartsSucceed`. `RestartsKeepExecuted` needs no such condition.
`RestartSucceeds` has the condition for a reason the proof brought out. Three
replicas, quorums of two: one crashes inside the handler of a proposal, after its vote
and before the files; restarted, it votes on a competing branch and locks it, and
when the first branch then commits, `write_to_disk` starts from the lock and never
reaches the committed block. It is executed and indexed without a file, and the
second restart throws. TLC finds this in 31 steps on an instance with three replicas
and two restarts when the condition is removed; it is the same loss of votes and locks
as the finding of `restart_split`. With two replicas (`restart`) the condition allows one of them to restart any
number of times.

**Storage** (`Storage_proofs`). `StorageInv` is `TypeOK`, `DiskInv` (on disk, whether
the process runs or not: the index is the table of one branch, from the block of the
"qc" record down, and the files of that branch are whole), `AnswerInv`, and while the
process runs `StoreInv` (the store has what its blocks name, and the bodies of all
that are not old), `CoreInv` (what is executed is the indexed branch, or the one in
the open transaction), `FileInv` (what is executed or locked is written with all below
it, except where the core's thread is at work, and whole unless the block is old and
was never executed) and `GcInv` (the collector is `KeepDepth` behind `b_exec`).
`Restart` is `RestartIsPossible`: what must not happen is that the collector clears a
body before the core has written its file, or that a restart takes an unwritten block
for written; `FileInv` says for each block which thread still owes its file. `Served`
is `RecentIsServed`, and `IndexGrows` is `IndexOnlyGrows`: `init_clean` on a database
that exists does not get past `create_db`, and the queue of a commit has only heights
above the index. The keys have to be told apart by their bytes, and ancestors followed
to any depth: `write_unsigned_big_endian` is shown to be injective (`KeysDiffer`), and
`Ancestors`, a recursive function, is reasoned about through `TreeInduction`. Assumed:
`StorageAssumption` and `TreeAssumption`. `StorageInv` was also checked by TLC on
instances with forks, which the run's chain does not have.

**Event loop** (`Pollset_proofs`). Three invariants. `LoopInv`: the two views of the
descriptors agree and contain the self-pipe (`TableOK`), and `r` of `poll` is exactly
the number of reports at entries it has not come to (`RoundInv`), although callbacks
add and take out descriptors in between: they never shorten `pollfds_` or change a
report. From it follow `Consistent` (`TableIsConsistent`), `InBounds` (every entry
`poll` reads exists) and `Consolidated` (`poll` returns with a table in which every
entry has a callback). `consolidate` is shown correct by induction over the steps of
its second loop: the entries above the one it is at are alive and there is at least
one, because the self-pipe is never taken out. `WakeInv` and `PendingInv` say what the
self-pipe is for: `InjectionsAnnounced`, while an injected callback waits there is a byte in the
pipe or the loop is between emptying the pipe and taking the callbacks; and
`SignalsAnnounced`, when the loop goes to sleep every caught signal is announced, or
about to be, to whoever owns it by then. They are the safety half of
`InjectedCallbacksRun` and `SignalsAreHandled`. `TimeInv` follows the iterator of
`run_timeouts` across the callbacks and gives `TimeoutsOnTime`: what is run is a pending
timeout whose time has come. It stays pending to the end of its callback unless that
callback takes it out itself, and then the loop is in the phase `undefined` before
anything else is run. `RoundIsComplete` is the other half: a due
timeout at or after the iterator's place stays ahead of it until it is cancelled or moved,
or has run and is erased; only one that is set behind the iterator waits for the next
round. The last
six have no run of their own; TLC checked their invariants, and `RoundIsComplete`'s
property, on the instance of `pollset`. Assumed: `UsagesAssumption`, the self-pipe is none of the program's
descriptors, and times are numbers.

**Event queue** (`NetworkEvents_proofs`). `StoreClosed`: every block in the store has
the blocks it names there, and an event reaches the core only with its block.
`Conservation`: every message that was taken into the queue is in exactly one place:
in the queue, with one request, or with the core. The invariant counts a message in
each place (`PlacesInv`), for those that have not arrived as well, and the lemmas say
how each operation on sequences changes a count. Assumed of
`Messages` (`MessagesAssumption`): each has its kind's fields, and only the defects
that kind can have (`Defects`).

**Bridge** (`VMBridge_proofs`). `NothingThrown` needs two facts about the interleaving
of three threads: `GapInv`, the gadget's list continues where commits stop, without a
gap, and is not empty between `apply_block` and `notify_vm_of_commitment`; and
`RequestInv`, proposer mode is never left while the driver waits for a proposal,
because it holds the gadget's mutex that `apply_block` needs. `Speculation` and
`StateIsLedger` are about one leader that waits: `BranchInv` says that its branch is
at most one block ahead of its certificates, hence never cut, and that every block on
it is committed or speculated on, hence none is ever executed a second time;
`NumbersInv` says that the buffer holds the last numbers given out and the branch the
ones before. Bodies are then counted by a bijection: the bodies of a concatenation
are those of its parts (`BodiesConcat`). Assumed: `SetupsAssumption`, the types of
the setups.

**Service** (`LedgerApp_proofs`). `LedgerOrder`: the blocks hold a beginning of what
`/append` was called with, at most three behind, the rest waits in the buffer in
the same order, and a reported index stays right; `FreshSlot`: a handler
waits on a slot that holds nothing older than its own proposal; `Refinement`:
`LedgerApp` implements `AppendLog`.

**Pool and clients** (`Fred_proofs`). `BookStaysUncrossed`, `BestIsServedFirst`,
`TableNamesMatched`, `OrdersAreConserved` and `PoolTypeCorrect` for the pool by
itself, for every set of prices, every order of comparison and any number of orders. An
arriving order finds an uncrossed book, so only it can cross, and one match attempt
removes it. That the fronts of the heaps exist follows from the least element of a
set of naturals. An order is counted by its number: of the set of waiting orders and
the set of matches with that number one is empty and the other has one element
(`OnePlace`), which a match moves from one to the other. `PoolAmongClients` gives
the same for the composition with clients whose requests fail, and `AccusedFilled`
adds the clients: what was read from the table was matched and stays so, and an entry
found in the ledger stays there under the same id, because a client gets its id
before it appends (`ProgressInv`). Assumed: `PricesAssumption`, `RankAssumption`, and
`ScenariosAssumption`: a price that the pool does not refuse is one of `Prices`.

What recursive functions compute is proved from the least-number principle (`LeastNumber`,
from `WFMin` and the well-foundedness of the naturals in the library), which takes a
set and not an operator: `TreeInduction` in `Storage_proofs` and `StepByStep` in
`Pollset_proofs`. That a recursive function exists is part of the proof
(`AncestorsDef`, `FilledExists`).

Only model-checked, and why. Liveness under fairness (`MessagesReachCore`,
`GarbageIsCollected`, `ProposeReturns`, `CommitsAreApplied`, `CallsAreServed` and the
other `~>` properties) is beyond the prover. `Xdr` and `RpcLink` are written with
RECURSIVE operators, because types nest and have no set that a recursive function
could have as its domain, so `CallsArriveInOrder`, `AnswersAreResults` and
`CertificatesSurvive` stay with TLC. Every other safety property of the runs has a
theorem.

## Findings

Three disagreements have a run: `restart_split` (a restarted replica forgets its
votes and its lock, and one restart among three replicas suffices for the
program's own "safety breached"), `vm_rewind` (self-deadlock in the rewind) and
`fred_accused` (the client compares the boolean that `append` returned with a place
in the ledger).

Others were met while modelling and have no run:

- `speculative_exec_gadget.h:120`: a replica that becomes leader while a certified
  block of another is not committed has its own speculated blocks dropped; the
  comment says this "should not happen in regular operation".
- `counting_vm.cc:38`: `exec_block` does not revert speculative state that is left
  over, as the comment at `vm_control_interface.h:215` requires; `log_commitment`
  does nothing, so `tests/test_counting_vm.cc:60` cannot hold.
- `main/test.cc:96`: the first three appends are confirmed by the certificates of
  empty blocks while the hashes are still in the buffer; on replicas other than
  the first, `/append` answers from a variable that is never assigned (line 88).
- `server.js:88`: prices that arrive as strings, as `client.js` sends them, compare
  as strings, so a bid of 9 meets an ask of 10; line 56: every match of the same
  price and side overwrites the settlement of the last.
- `client.js:77`: the order is sent although the append failed
  (`CLIENT_DESIGN:3`: "If not exit"); line 119: the loop's exit is never taken.
- `block_fetch_manager.h`: `requested_from` is never set. `block_fetch_server.cc:17`:
  a block that is flushed, or torn while it is copied, is missing in the answer or
  refused, and the request is not made again.
- `nonblocking_rpc_client.h:146`: a call the server refuses, or whose reply is too
  long, is made again for ever and holds up every later one; repeated calls can be
  handled long after the call has returned. Lines 87-93: after `done_flag` without
  a connection the call goes through a null client; `on_connection_open` is called
  although the connection failed.
- `srpc.cc`: `read_message` tests `len & 3` before it swaps the bytes, so replies of
  2^24 bytes and more are refused whatever their length; `xid_counter` is a global
  without a lock.
- `msgsock.cc`: when the very first write of a reply would block, the callback for
  writing is never set.
- `server.cc`: a message of odd length makes the decoder throw outside the `try`,
  which closes the connection; a malformed header gets no reply; a handler's
  exceptions other than `xdr_runtime_error` (the `get_info` of a certificate's unknown
  signer; a vote of one is refused before) leave the event loop and end the process,
  which `RpcLink` follows. `types.h:502`: a vector's limit is not
  checked when it is written, only when it is read; any nonzero word is a true bool.
- `async_worker.h:53`: a destructor returns while the detached thread may still be
  in `do_gc`, whose work flag has been cleared. `pollset.cc:123`: after a callback
  has thrown, the rest of the list is moved past the end of a vector.
- `block.cc`: `has_body` throws for a flushed block; `nonspeculative_vm_bridge.h:140`
  dereferences the null body of an empty block, which `CountingVM` does not look at.
- `replica_config.cc`: the quorum is n - n/3, which for three replicas is two:
  enough while replicas follow the code, and not for one that does not.

## Not modelled

Replicas that deviate from the code. Shutdown (`done_flag`, destructors): the
program runs until it is killed. Loss of unsynced pages in a power failure. The
pacemakers inside `#if 0` in `liveness.h`. Code that nothing calls:
`LMDBLoadingWrapper`, `SharedLMDBInstance`, the `_fast` variants of saving and
loading, `get_decided_hash_id_pair`, `cancel_wait_for_new_qc`, and of the XDR library
arpc, rpcbind, sessions and UDP. The cryptographic and hash functions, name
resolution, and LMDB and the operating system's sockets themselves, which appear as
the code uses them. The XDR compiler (`xdrc/`), the option parser, printers and test
generators: text processing at build time or for people, with no state of the
running program; what the compiler generates for this program's interfaces is in
`RpcLink`. The REST interface of replicas that do not lead. (`main/test.cc` clears
its directories and starts clean; recovery is the library's interface.)

## Plan

Done: core, ledger refinement, recovery, storage with the collector, network events
with validation, certificates, marshalling, transport, event loop, VM bridge, ledger
service, dark pool, FRED; theorems for the core and its refinement, recovery, storage,
the event loop, the event queue, the bridge, the service and its refinement, the pool
and its clients.

Left: a theorem about `Certificates` (what `parse_qc` reads is what `serialize` wrote,
for every set of signers), which needs facts about powers of two and folds; a byte
stream between `Xdr` and `RpcLink` that carries whole messages, so that the calls'
order could be proved apart from the format.
