# TLA+ specifications of the KaspaX kdapps

The repository is a desktop distribution (Hyprland configuration, install
scripts, themes) that carries a family of Rust programs under
`src/applications/kdapps`.  `kdapp` is a framework: an *episode* is a small state
machine whose commands travel in transactions of the Kaspa block DAG, and an
*engine* executes the commands of each accepted block and takes them back when
the chain reorganises.  The other programs are applications of it: a merchant's
invoices and subscriptions, a lottery, authentication, comments, games.

This directory holds the TLA+ specifications of the framework and of the
applications whose behaviour is more than a sequential script, the
configurations with which TLC checks them, and proofs about the engine, the
listener, the merchant, authentication, the game and the off-chain routers.  Paths
below are relative to `src/applications/kdapps`.

## 1. Inventory

Each entry: the state the component keeps, its operations, what makes it hard,
and what it has to promise.

### kdapp: engine, `kdapp/src/engine.rs`, `kdapp/src/episode.rs`
- State: `episodes` (each an `EpisodeWrapper` of an episode and its stack of
  rollback objects), `revert_map` (accepted block to the episodes it changed),
  `episode_creation_times`, `next_filtering`, the receiving end of a channel.
- Operations: `BlkAccepted` (filter old episodes, then execute each
  transaction's payload: create an episode, signed or unsigned command),
  `BlkReverted` (walk the block's entry backwards, pop one rollback object per
  entry, remove the episode whose stack is empty), `Exit`.
- Interacts with the listener by messages, with event handlers by callbacks.
- Hard: a block is executed transaction by transaction while messages queue up;
  accept, revert and accept again in any legal order; some transactions rejected;
  episodes that expire between acceptance and reversion.
- Promises: a reversion undoes exactly what the acceptance did; handlers are
  always told the current state; the age limit holds; it ends after `Exit`.

### kdapp: listener, `kdapp/src/proxy.rs`
- State: the `sink` it has worked up to, the RPC connection, the exit signal.
- Operations: `connect_client`, the once-a-second poll of `run_listener`,
  reconnection, `BlkReverted` for removed blocks, fetching of accepting and merged
  blocks, dispatch of each transaction to the engine whose pattern and prefix it has.
- Hard: the node reorganises between any two calls, and any call may fail.
- Promises: each engine gets the transactions of the listener's chain, once, in
  order, whole blocks only; it catches up, and stops when asked to.

### kdapp: generator, pki, utxo cache
- Building of transactions (choice of an output, a nonce that gives the id its
  pattern), signatures, a read-through cache of outputs with a time to live.

### kdapp-merchant: episode, storage, scheduler
- State: invoices, customers, subscriptions and used carrier transactions in
  memory; the sled trees of `merchant.db`; rollback objects in memory only.
- Operations: seven commands of `ReceiptEpisode` and their seven rollbacks, each
  written through to the trees; `RegisterCustomer`, `Initialize` from disk; the
  scheduler's pass over the subscriptions on disk; the modes of `main.rs`.
- Hard: crashes between two writes, restarts with an empty engine, a thread that
  reads what another writes, reversion after any history.
- Promises: memory and disk agree, a carrier transaction pays once, payments
  survive unless rolled back.

### kdapp-merchant: routers, checkpoints and watcher, HTTP front end
- `UdpRouter` and `TcpRouter` take numbered messages off-chain and acknowledge
  them; `client_sender.rs` retries.  `handler.rs` emits checkpoints, three datagrams
  each, that `watcher.rs` anchors on chain.  `server.rs` turns HTTP requests into
  commands and lists what is on disk.
- Hard: loss, repetition and delay of datagrams; retries; restarts that forget
  the numbers; submissions whose answer is lost; several spenders of one output.
- Promises: a message is given to the episode once and in order; an
  acknowledgement means what it says; anchors follow the checkpoints.

### kas-draw: lottery, off-chain router, submissions, watchtower
- `offchain.rs` and `offchain_client.rs`: a UDP router with a file of sequence
  numbers that all clients share.  `episode.rs`: tickets, a draw, a claim, a close.
  `submit.rs` submits an anchor from an output the watcher may use too.
  `handler.rs`: a dashboard and a simulated watchtower.
- Hard: rollbacks that guess what they overwrite (the pool, the winner); clients that
  race for the file; datagrams that come late or twice.
- Promises: the pool is covered by tickets, a ticket's number is its own.

### kaspa-auth: episode, peer, daemon
- State of the episode: owner, challenge, session token, rate limits.  State of
  the peer: a map of episodes that the engine's event handler and the HTTP
  handlers share, WebSocket clients.  The daemon keeps identities on the disk behind
  passwords, unlocked keys and sessions in memory; a task per connection.
- Hard: the HTTP handlers execute commands on copies the engine does not know
  of; reversions reach the engine only; the age of a challenge depends on the clock;
  tasks of the daemon that wait without a lock for the disk, the peer or the chain.
- Promises: a session is one of the chain, attempts are limited, a password opens
  the key that was made with it.

### comment-it: episodes, HTTP peer, ws-peer
- `core/episode.rs`: who is authenticated, challenges, attempts, comments;
  `comment.rs`: comments of whoever has a session.  The HTTP peer keeps a map of
  episodes, keys of requests in progress, outputs in use and a cache of outputs; its
  handlers run at the same time, send transactions and poll the map.  The ws-peer of
  `main.rs` signs what pages send over WebSockets.
- Hard: several locks taken one after the other, timers, guards that clean up twice,
  lost answers, a process that starts again, an indexer that is asked for rooms.
- Promises: comments and sessions are those of the chain; an output is spent by one
  handler; a request of a kind is alone; a page is told what happened.

### comment-board: episodes, participants, wallet
- `episode/board_with_contract.rs`: members, bonds, locked outputs, comments;
  `comments.rs`: an open room that keeps fifty comments.  A participant authenticates
  step by step, each time from the output of its last transaction.  The wallet
  (`utxo_manager.rs`) keeps a list of outputs, splits them, locks and unlocks bonds;
  `kaspa_scripts.rs` encodes the bonds' conditions.
- Hard: rollbacks restore a part of the state only, and nobody is told; participants
  share one challenge; the wallet's list is stale; a submission is tried again.
- Promises: bonds add up and are backed by outputs; a comment is made once.

### tictactoe: game and program
- `game.rs`: board, players, whose turn it is, the last six moves; a seventh move
  takes the oldest mark off.  `main.rs`: two players that open or join a game, wait for
  a turn, submit a move and wait until the board shows it.
- Hard: the rollback puts a mark back whose owner it does not know; the program learns
  of commands and not of rollbacks, and spends the output of its own last transaction.
- Promises: a rollback gives the game back as it was; players do not wait in vain.

### kdapp-indexer and the page's feed
- An event handler that mirrors comment episodes into a store, queries over it, and
  `comment-it/public/js/commentSection.js`, which merges pages of it with news.
- Hard: rollbacks are ignored; rooms are ordered by a time that is no key; the page's
  loads, polls and WebSocket interleave.
- Promises: what is listed is or was on the chain; the page skips no comment of its room.

### kdapp-mcp-server
- A JSON-RPC server that feeds its own engine, mirrors each game to a map and a
  file, and loads the files when it starts.
- Hard: writes that fail, restarts without the engine's state.

### kdapp-wallet, the desktop distribution
- A key store over the keychain; `bin/`, `install/`, `migrations/`, `config/`,
  `themes/`: sequential scripts and data without state of their own.

### How the components meet
The listener polls the node and sends `EngineMsg` values over one channel per
engine; the engine calls its event handlers in its own thread; handlers write to
a store (merchant, indexer), to a shared map (kaspa-auth, comment-it, MCP server),
to a channel (players, participants) or to the network (checkpoints).  A router
replaces the listener when commands come off-chain.  HTTP handlers, the scheduler,
tasks of connections and clients run beside it and share the map, the trees or a
file.  Programs of different users meet only through the chain.

## 2. Modules

| module | models | state |
|---|---|---|
| `Engine` | `kdapp/src/engine.rs` over any episode type (`episode.rs`) | the fields of `Engine`, the channel, `pc` for the place in the loop |
| `ChainFeed` | what an engine is owed by the listener | the blocks, the chain, the channel |
| `EngineSystem` | `Engine` and `ChainFeed` together, the properties, the inductive invariant | adds auxiliary records of what was executed |
| `EpisodeLedger` | abstract specification: a stack of versions, refined by `EngineSystem` | `history` |
| `EngineProofs` | lemmas and theorems about the engine, and that `EngineSystem` refines `EpisodeLedger` | |
| `Filters`, `FilterLemmas` | `Vec::retain` and `Iterator::filter`, as an operator that can be proved about; what is proved of it, and of sequences with an element more | `Keep` |
| `Proxy` | `run_listener` of `kdapp/src/proxy.rs` and a node | the listener's locals, the node's DAG, what each engine has in effect |
| `Merchant` | `kdapp-merchant/src/`: `episode.rs`, `storage.rs`, `scheduler.rs`, `sim_router.rs`, `server.rs`, the modes of `main.rs`, the flush of `handler.rs` | episode, trees, rollback stack, states of the disk, the channel |
| `MerchantProofs` | invariant, lemmas and theorems about the merchant | |
| `Checkpoints` | the checkpoints of `handler.rs`, `watcher.rs`, and `kas-draw/src/submit.rs` | states, numbers, datagrams, the output, anchors |
| `Offchain` | the UDP and TCP routers of kdapp-merchant, the router of kas-draw, their clients | sequence file, clients, network, router, channel, episodes |
| `FeedProofs` | invariants, lemmas and theorems about what feeds an engine: the listener (`Proxy`) and the routers (`Offchain`) | |
| `SimpleAuth` | `kaspa-auth/src/core/episode.rs`, `crypto/challenges.rs` | operators on an episode |
| `AuthPeer` | engine, event handler and HTTP handlers of kaspa-auth | per peer the engine's episode and the shared map |
| `AuthDaemon` | `kaspa-auth/src/daemon/`, `utils/keychain.rs`, `auth/session.rs` | disk, memory, a task per connection, the chain's episodes |
| `TicTacToe`, `McpGame`, `Lottery` | the episodes of `tictactoe/src/game.rs`, `kdapp-mcp-server/src/state.rs`, `kas-draw/src/episode.rs` | operators on an episode |
| `CommentRoom`, `CommentEpisode` | `comment-it/src/core/episode.rs`, `comment-it/src/comment.rs` | operators on an episode |
| `CommentBoard`, `OpenRoom` | `comment-board/src/episode/board_with_contract.rs`, `comment-board/src/comments.rs` | operators on an episode |
| `EpisodeChain` | one episode of one of these seven on a chain that reorganises (`EpisodeWrapper` of `engine.rs`) | the episode and the trail of commands with their rollback objects |
| `EpisodeChainProofs` | invariant, lemmas and theorems about the game | |
| `TttPlayers` | `tictactoe/src/main.rs`, `kdapp/src/generator.rs`: two players and their engines | the chain, both engines, channels, tasks, transactions |
| `CommentPeer` | the HTTP peer of comment-it, `kdapp/src/utils/utxo_cache.rs` | engine, map, keys, reservations, cache, timers, requests, the node |
| `WsPeer` | the ws-peer of `comment-it/src/main.rs` | connections, the wallet's output, the node |
| `BoardParticipant` | `comment-board/src/participant/`, `episode/handler.rs` | the chain, and a task and a channel per participant |
| `BondWallet` | `comment-board/src/wallet/utxo_manager.rs` | the manager's fields, the node's outputs |
| `BondScript` | the descriptors of `comment-board/src/wallet/kaspa_scripts.rs` | operators on bytes |
| `BoardSystem` | the three above as parts of one specification | |
| `AuthBoardProofs` | invariants, lemmas and theorems about `AuthPeer` and about `BoardSystem` | |
| `Index` | `kdapp-indexer/src/`, `commentSection.js` | engine, store, page |
| `McpServer` | `kdapp-mcp-server/src/` | engine, map, files, channel |
| `Programs` | `CommentPeer`, `WsPeer`, `AuthDaemon`, `Checkpoints`, `Index`, `McpServer`, `TttPlayers` as parts of one specification | |
| `ProgramsProofs` | invariants, lemmas and theorems about `Checkpoints`, `McpServer` and `AuthDaemon` in `Programs` | |
| `CommentItProofs` | invariants, lemmas and theorems about `CommentPeer`, `WsPeer` and `Index` in `Programs` | |

A module `MCx` gives the constants of `x` small values.  `MCKdapp` takes the engine and
the listener, `MCAccounts` `AuthPeer` and `BoardSystem`: a variable (`side`, `program`)
says which of the two a behaviour is of.

`EpisodeChain`, `BoardSystem` and `Programs` hold several programs that never share a
variable; a variable (`app`, `part`) says which one a behaviour is of, and the
others' variables keep their initial values.  That is a way to check them together,
not a claim that they interact: where programs do interact, one module has both
(`Engine` with its feed, the peers with their engines, players with each other).

### Engine and ChainFeed
One turn of the loop of `Engine::start` is cut where something else can be observed:
`RecvBlkAccepted` (with the filtering of old episodes), one action per payload
(`CreateEpisode`, `ExecuteCommand`, `RejectCommand`, `SkipPayload`),
`FinishAccepted`; `RecvBlkReverted`, one action per popped entry
(`UndoCommand`, `UndoCreation`, `UndoMissing`), `FinishReverted`;
`RecvUnknownReverted` and `RecvExit`.  Only the engine's thread touches these
variables; the cut exists so that the channel can fill in between and so that
properties can speak of half a block.  `observed` is what the event handlers were
last given.  The episode type is a parameter of which four things are assumed,
by name, in `Engine`:
- `EpisodeTyping`: the methods return values of the right type;
- `RollbackContract`: the rollback object of an accepted command leads back to the
  state before it, the promise in the comment of the trait;
- `RejectionContract`: a rejected command changes nothing;
- `ConstantsAssumption`: scores and lifetimes are natural numbers.

`ChainFeed` is the listener as an engine sees it when no block is lost: it
appends blocks to a chain, takes the last one back, may announce a reversion of a
block the engine never had, and closes with `Exit`.  `Proxy` checks that the real
listener is of this kind unless an RPC call fails; `ReorgAssumption` of
`EngineSystem` says that a new tip's score is at most `MaxReorg` below the highest
seen, and `MaxReorg` at most the lifetime of an episode (`EPISODE_LIFETIME` is
2,592,000 scores, three days at ten blocks a second; finality is a matter of hours).

`MCEngine` instantiates the episode by the one that tells most apart: its state
is the list of commands it has executed, so that two different histories are never
confused; a command is rejected once `MaxCommands` were executed.

### Proxy
Its specification is `ListenerSpec`, which leaves the names `Init`, `Next` and `Spec` to
`Offchain` where `FeedProofs` extends both.  `stage` follows `run_listener`: `start` (the
first connection), `tick` (wait a second, read the exit signal), `ask` (`get_virtual_chain_from_block`), `dispatch` (removed and added
blocks one by one), `engines` (a fetched block to hand to each engine), `done`.  Each
RPC call is an action that succeeds, and an action that fails and spends one of
`MaxFaults`.  The node's `Mine` runs between any two of them.  `fed[e]` is the effect of
what was sent to engine `e`; the history of messages itself is not kept.  Names and the
order in which tied tips win are the node's choice.

### Merchant and Checkpoints
Every command and rollback is one action (`CreateInvoice`, `MarkPaid`,
`AckReceipt`, `CancelInvoice`, `CreateSubscription`, `ProcessSubscription`,
`CancelSubscription`, `UndoCreate`, `UndoPaid`, `UndoAck`, `UndoCancel`,
`UndoCreateSubscription`, `UndoProcessSubscription`, `UndoCancelSubscription`)
that changes the episode and appends to `store` one state of the trees for
each write it makes, in the order of the writes.  `Stop` ends the process and
leaves any of these on disk; `BackgroundFlush` and `OnCommand` (the
flush of `handler.rs`) forget the older ones.  That sled recovers to a prefix of
its writes is an assumption about the library and is marked external.
`main.rs` runs one mode at a time on `merchant.db`: `proxy` (commands can be
reverted, each has its own transaction), `router` (off-chain, all under one default
transaction), `demo` and `serve` (which start the scheduler), `new` (an episode and
nothing more); the commands that only send one message are `OneShot`.  A request of
`server.rs` is answered whatever becomes of its command (`Request`, `Forwarded`), and
a command that finds no episode is dropped (`Drop`).  An invoice has the time of its last
change, which every command sets and no rollback restores, so `UndoPaid`, `UndoAck` and
`UndoCancel` leave it that of the command they take back.  Its id, memo and creation
time, which stay as they are, are left out.

`Checkpoints` has the thread of the engine, which sends three copies of a checkpoint
and waits in between, the watcher, which takes one datagram at a time and submits up
to three times, and the node.  A state of the episode is a number; a reorganisation
and a restart of either process are actions.  The numbers of checkpoints start again with
the process and with the episode, and the watcher compares none.

### Offchain
One client is one message: it takes a number from the file or from its command
line, sends, and sends again until acknowledged or out of attempts.  Reading and
writing the file are two actions, since nothing locks it.  A datagram stays in
`net` once sent, which is loss, repetition and delay at once.  `router` says whose
router runs; the flags `--no-ack` and `--no-close` are not set.  The engine behind
the router is reduced to what it was given while the episode was open.

### SimpleAuth, AuthPeer, AuthDaemon
Challenges and tokens are records of what the code hashes, so tokens can repeat.
In `AuthPeer` every block carries one command whose signature is valid; the episode
exists from the outset; a block's time is the clock when it was mined, which is never
ahead of the clock of a peer.  `BlkAccepted(p)` is the engine's step and its handler's
copy into `mirror[p]`, with the word that the handler broadcasts; `BlkReverted(p)`
changes the engine's episode only, because `on_rollback` only logs.
`RequestChallenge`, `VerifyAuth`, `VerifyAuthUpdate` and the revocation are the HTTP
handlers, cut where they give a lock back or wait.  A revocation is signed with the
key of the web participant.

`AuthDaemon` has a task per connection.  A request that waits for nothing is one
action; creating an identity and an authentication are cut at each wait: for the disk
(the password first, then the key), for the node, for the peer's answer, up to
`MaxPolls` times for a status.  Blocks leave the chain, other programs revoke, writes
fail, and the daemon is started again.  The peer that the daemon asks has a map which the
engine's handler writes, and which its HTTP handlers (`request_challenge`, `verify_auth`)
write too, at time 0 and with the owner as the signer; blocks have later times.  So a
flow may sign a challenge that the chain does not know, whose response fails there.

### The episodes and EpisodeChain
Each episode module has `Initialize`, `Execute` and `Rollback` with the results the
trait's methods have, `Accepts` for all the checks of `execute`, `Executed` for its
assignments and `RollbackOf` for the object it returns.  Texts, signatures and
amounts are reduced to whether they pass their checks (`ok`); challenges are named
after what the code makes them of.  Fields that no command of the default build
changes are left out.

`EpisodeChain` is a stack: an action executes a command and pushes its rollback
object, `Undo` pops one.  This is what the engine does to one episode, one command per
block; `Engine` says in which order, for many.  A command that is refused changes
nothing and is left out.  `trail` also records the episode before each command, which
only properties read.

The theorems about the engine assume `RollbackContract`.  Of the episodes here the
two games keep it (the lemmas `MoveUndone` and `McpMove`, for games of two that were started by `initialize`).
The lottery, the comment rooms, the boards and the authentication episode do not, so
that `ReversionRestores` does not hold for them; their `RollbackRestores` lists what
comes back, and the other properties of `EpisodeChain` and `AuthPeer` what holds in
spite of the rest.

### TttPlayers
A player is a task (`pc`), a channel of states, and an engine that follows the chain at
its own pace (`BlkAccepted`, `BlkReverted`).  Transactions of a player spend each
other's outputs and are mined in that order; those of the two in any order; one that a
reorganisation drops is mined again.  Players may start from one shared output.

### CommentPeer and WsPeer
A request of the HTTP peer is a record `req[r]` with the place it is at.  It is cut
where its handler gives a lock back or waits: choosing an output, reserving it, sending,
each poll of the map, the explicit removal of its key and the guard's.  `Release` is the
ten-second timer, `Expire` the age of the cache, `Restart` and `Rehydrate` a new
process that asks the indexer for its rooms.  `drift`, `doubtful`, `leaked` and `stolen`
record the causes that the properties admit.  The two internal routes that broadcast what
is posted to them (`episode_authenticated`, `session_revoked`) are requests of anyone, at
any time; what `told` was made for says whether the engine's handler or a route did it.
Requests left out change and broadcast nothing.  `WsPeer` has a task per connection.

### BoardParticipant, BondWallet, BondScript
Participants submit along their own chain of outputs, or from the bond wallet, and wait
for states on an unbounded channel that gets one for every accepted command of
anybody and none for a rollback.  The wallet's methods are cut at each answer of the
node, and `Submit` has every outcome a submission can have, a lost answer included.  The
wallet is modelled by its public methods.  The program itself calls the splitting, the
refresh, `submit_comment_with_bond_payload` and the unlocking; nothing in it calls
`lock_utxo_for_comment`, `create_script_based_bond`, `upgrade_bond_to_script_based`,
`forfeit_bond` or `scan_pending_bonds`, so `BondsBacked` is about a manager that is
offered and, so far, not used for bonds.
A descriptor is a sequence of small numbers, of which keys and times take two.

### Index and McpServer
`Index` writes what its engine tells it; blocks leave the chain without a word.  The
page's functions wait for their requests, so each request is asked, answered and rendered
in steps of its own: a load (`loadFeedForEpisode`) asks for a snapshot, then
(`renderSnapshot`) for later comments, and then (`pollNewComments`) starts the timer,
whose polls (`Tick`) go on meanwhile, and so do other loads; a request may fail (`Fail`),
which ends its load.  Between any two steps the WebSocket brings a comment of any room
(`handleNewComment`), which is displayed whatever room is shown.  The store in memory
does not fail.  `McpServer` takes
a request after the other while its engine's thread executes and writes each snapshot
to the map and to a file, which may fail; a restart loads the files and not the games.

## 3. Runs

State counts are distinct states.

| run | module, configuration | result |
|---|---|---|
| `engine` | `MCEngine`, `MCEngine.cfg` | holds, 186,067 states |
| `kdapp` | `MCKdapp`, `MCKdapp.cfg` | holds, 292,703 states |
| `proxy_lost` | `MCProxy`, `MCProxyLost.cfg` | violation found |
| `merchant` | `MCMerchant`, `MCMerchant.cfg` | holds, 764,681 states |
| `merchant_reorg` | `MCMerchant`, `MCMerchantReorg.cfg` | violation found |
| `merchant_rollback` | `MCMerchant`, `MCMerchantRollback.cfg` | violation found |
| `offchain` | `MCOffchain`, `MCOffchain.cfg` | holds, 1,709,190 states |
| `accounts` | `MCAccounts`, `MCAccounts.cfg` | holds, 1,555,265 states |
| `auth_status` | `MCAccounts`, `MCAccountsStatus.cfg` | violation found |
| `episodes` | `MCEpisodeChain`, `MCEpisodeChain.cfg` | holds, 1,516,238 states |
| `anchors` | `MCPrograms`, `MCAnchors.cfg` | violation found |
| `programs` | `MCPrograms`, `MCPrograms.cfg` | holds, 840,318 states |

`CHECK_DEADLOCK FALSE` is set where the system may stop: an engine after `Exit`, a
listener that is done, clients that all ended, a chain at its bound.

### engine
Three blocks, two episodes, scores {1, 2, 5, 7} with a lifetime of 3 and a sample
of 1, so that an episode can be filtered before a block that touched it is
reverted; at most two messages wait.  Each block may create an episode, execute
commands and have one rejected, and any block may be accepted, reverted and
accepted again.  `UndoTrail`: popping one rollback object inverts the effect that
pushed it.  `RevertMapFollowsChain`: the map names exactly the effects to undo.
`RevertRestores`: after a reversion everything is as before the acceptance, but
for episodes that expired.  `HandlersInformed`, `LifetimeBound`, `StoppedOnChain`.
Blocks are interchangeable, hence the symmetry; the run checks safety only.

### kdapp and proxy_lost
The engine with scores {1, 2}, so nothing expires (after an expiry a reversion does not
restore, and the refinement is meant to fail).  `ImplementsLedger`: with the versions of
the applied blocks as `history` (`Versions`), every step of the engine is a step of the
ledger that applies a block at once and goes back to an old version, or a stutter.
`ExitStopsEngine`: `Exit` sent leads to a stopped engine.

The listener with four blocks, which are enough for two competing chains of two, one
failed call for every place where one can fail, and two engines for transactions that
belong to one, the other, both patterns but one prefix, or none: one block may have
something for both engines and another nothing for either.  `FedWhole`: an engine has
whole blocks only, also when blocks were lost, and unless a failed call made the listener
give a block up it has exactly its transactions of the listener's chain.
`ListenerCatchesUp` (`CatchesUp` where the listener runs) and `ExitIsAnswered` are
liveness.  `proxy_lost` checks the same without the exemption and finds the block that is
never dispatched after a reconnection (finding 1).

### merchant, merchant_reorg and merchant_rollback
Two invoices compete for a transaction of the chain and the default one that off-chain
commands share, one subscription; at most two
rollback objects, one queued command, one listed entry per customer, times 0 and 1.
Two rollback objects give every pair of commands in either order; longer stacks
repeat them.  `CopiesMatch`: disk, episode and used carriers agree, and what the
scheduler enqueued is there.  `DiskSound`: in every state of the trees a crash may
leave, a carrier pays one invoice and lists name what was paid.  `SettledStays`,
`RollbackRestores`: what a rollback object leads back to is the episode before its
command, but for the time an invoice was last changed.  The other two runs have a second
transaction, whose script is not known.  `merchant_reorg` finds the payment that outlives
its transaction (finding 2), `merchant_rollback` the invoice that keeps the time of a
command that was taken back (finding 4).

### offchain
Three clients, so that one message can be retried, one repeated late and one raced;
numbers 0 and 1, two attempts, one crash.  `StrictOrder`, `AckHonest`,
`NothingLost`; `InStep` lists the conditions under which file and router agree on
the next number of every episode: no crash, no two clients with the file open at
once, every number taken from the file and acknowledged, no `Close`.  They are there
because TLC found file and router apart without them: each names one way in which
the code lets the two part for good.

### accounts and auth_status
kaspa-auth: two participants, times 5 and 6, a window and an age limit of 0 and two attempts:
between 5 and 6 challenges expire and limits lapse, and within one of them limits
are hit; three blocks and one reorganisation.  The theorems hold for every window,
limit and set of times.  `SessionSound` and `RateBound` speak of the engine's episode
and, the first, of the shared map; `MirrorExplained` says the map is the
engine's episode but for two reasons, and what WebSocket clients are told was
executed; `RollbackRestores` what a reversion gives back.  `auth_status` finds a
session reported as confirmed by the chain that is not (finding 3).

comment-board: two participants with a comment each, one reorganisation and one fault of the node:
enough for each to cross the other at every step.  A wallet of three outputs that may
make three transactions, with one fault and times 0 and 1: a bond, its unlocking or
upgrade, and another bond from the change; the bound on transactions is what keeps
the run small.  Descriptors over four byte values, up to two moderators.
`BondsBacked`: a bond in the table has a transaction, alone on its output, and the
locked total covers the table.  `CommentOnce`: a comment that is tried again is
carried once.  `AuthHonest`: who is in the room is authenticated.  `StuckExplained`: who
waits for ever for its authentication was crossed by another.  `DescriptorRoundTrip`.

### episodes
Seven episodes in one run, since the chain around them is the same.  A game
has up to seven moves, the first number at which a mark is taken off, on seven
cells (and one move beyond the board), and eight are ever executed, so that the
seventh can be taken back and played again; the theorems cover longer games.  The
lottery has five commands on the chain (two tickets, a draw, a claim and one more),
the room of comment-it six (challenge, response, comment and revocation, with two
attempts), its older episode four (two sessions, a comment, a revocation), the boards
four, one with an expiry after the fourth, the other with a window of two comments; each
may have one more that is taken back.  A block's time is the number of commands
executed so far.
`MarksAlternate`: the board holds the last six moves of the two in turn.
`PoolBacked`: the pool is covered by the tickets of the chain, the winner holds one,
numbers are not given twice.  `RoomSound`: comments, sessions and tokens follow from
the chain alone, and the limit is never undercounted.  `BondsExact`: total, locked
outputs and comments agree.  `RollbackRestores`: no rollback reports failure, but that
of a comment an open room has pushed out, and the part named in `Restored` comes back.

### anchors
The anchor part of `programs` alone.  `SeqStrict`, that each anchor has a higher number
than the one before, is what `onlyKAS-merchant.md:95` says; two copies of one checkpoint
are enough for the watcher to anchor one number twice (finding 5).

### programs
- peer (`ReservationsExplained`, `MapExplained`): two requests at once, out of nothing
  or in a room where the wallet is authenticated, two outputs, one fault.  What a
  handler holds is its own, the map is the engine's episode, and what its handler
  announces was executed, but for the causes named in the module; what the internal
  routes announce may be anything.
- socket (`ReservationsExplained`, second part): three commands of two connections,
  two submissions each at most, two faults.  A command reaches the chain once at
  most, and what the page hears of it is true but for a broken connection.
- daemon (`DaemonExplained`): four requests over two connections, one user with two
  passwords, one fault.  The unlocked key is the one on the disk, made with the
  password, unless two creations met or one stopped half way.  A listed session has a
  token for a key of its user and a challenge that a block gave, and is one of the chain
  unless the peer gave the token itself when it was shown the response; one of the chain
  is listed unless its flow gave up.
- anchor (`AnchorsExplained`): three states, two copies each, two faults.  Every copy
  is under way, anchored once, or missed for a known reason; anchors follow the
  order of checkpoints, and two with one number are of two lives.
- index (`IndexExplained`): two rooms, four commands, two times, two faults, two loads
  and two requests at once, one comment over the WebSocket, five of all these events
  together (`MaxEvents`), pages of one row.  The store shows what the chain has, but for
  what was reverted.  Once the last load came to its end, what the page does not display
  of the loaded room is later than all it has seen, so its next poll asks for it, or older
  than what a load brought, but for reversions and times that do not increase.
- server (`SnapshotsExplained`): four requests of two agents, one fault.
- table (`PlayersExplained`): four cells to try, games from the start or from the sixth
  move, outputs worth three transactions, one reorganisation or foreign game.

A fault ("trouble" in the modules) is a refusal, a lost answer, a block that leaves the
chain or a restart.  Two are needed where one hides another; one is allowed where a
second makes the run too long.

### Bounds in general
Every bound is a constant whose comment says so: `MaxQueue`, `MaxCommands`,
`MaxBlocks`, `MaxFaults`, `MaxStack`, `MaxListed`, `MaxTime`, `Attempts`,
`MaxCrashes`, `MaxChannel`, `MaxChain`, `MaxReorgs`, `MaxLength`,
`MaxExecuted`, `MaxComments`, `MaxReverts`, `MaxTxs`, `MaxRequests`, `MaxTroubles`,
`MaxKeys`, `MaxEpisodes`, `MaxStates`, `MaxLoads`, `MaxNews`, `Fetches`, `MaxEvents`,
`MaxAsked`, `Purse`.  Polls of up to
thirty seconds are one or two, since each is like the one before.  The theorems of
section 5 hold for every value of the constants.

### Mutants
Each property is also checked against a mutated definition, defined next to the
original with a name that says what is broken or that ends in `_Mutant`, for which TLC
finds a violation: a dropped push, an entry not removed, a file not written, a status
not looked at.

## 4. Fairness

- `EngineSystem`: `WF_vars(EngineProgress)`.  The engine's thread blocks only in
  `recv()`, so it runs while it has a message or a message to finish.  Nothing obliges
  the listener to send.
- `Proxy`: `WF_vars(Listen)`.  The listener is one task that never waits without a
  timeout; an RPC call returns an answer or an error.  Nothing obliges the node to
  mine, and failures are bounded: with endless failures nobody catches up.
  `MCKdapp` takes over both, each for the behaviours of its side.
- All other specifications: none, and no liveness is claimed: processes may stop at any
  moment, the network may lose everything, and nobody has to mine.  That nobody gets
  stuck is stated as safety where the code promises it (`StuckExplained`,
  `PlayersExplained`): a state in which a program waits for something that can no
  longer come is named, with its cause.

## 5. Proofs

### The engine
`EngineProofs` has the theorems about `EngineSystem` and their lemmas: for
every set of ids, blocks and keys, every episode type that keeps the
assumptions of section 2, all lists of transactions, scores, lifetimes and bounds.

| theorem | what it establishes |
|---|---|
| `Inductive` | `Spec => []IInv` |
| `TypeCorrect` | `Spec => []TypeOK` |
| `RollbackObjectsSound` | `Spec => []UndoTrail` |
| `HandlersAlwaysInformed` | `Spec => []HandlersInformed` |
| `RevertMapExact` | `Spec => []RevertMapFollowsChain` |
| `ReversionRestores` | `Spec => RevertRestores`, an action property |
| `LifetimeBounded` | `Spec => []LifetimeBound` |
| `StopsOnChain` | `Spec => []StoppedOnChain` |

The inductive invariant `IInv` (at the end of `EngineSystem`) is a conjunction:

- `Typed`: the types, and where the message in progress is;
- `InOrder`, `Current`, `ExitLast`: each message leads from the chain the engine is
  on when it gets there to the next one (`views` records which), so the block
  that is reverted is the last one applied;
- `EntriesFollow`, `Segments`: each applied block owns one segment of the trail of
  effects, and its entry in `revert_map` names that segment;
- `UndoTrail`, `Marked`: popping one object inverts one effect, and the episodes
  recorded at a block's acceptance are those at the start of its segment;
- `HandlersInformed`: what handlers were given is what is there;
- `Ages`: how far scores of messages, of the last filtering and of episodes can be
  apart.

`UndoTrail` and `RevertMapFollowsChain` are not inductive alone: a reversion of a
block in the middle would pop a foreign object, and only the order of messages
excludes it.  The proof has one lemma per action and conjunct; the arithmetic on
segments and ages is in lemmas of its own.  `RollbackContract` is used once, where
an effect is pushed, and `RejectionContract` where a rejected command leaves the
handlers informed.  `ReorgAssumption` is used where ages are bounded.

### The refinement
`EngineProofs` also proves `EngineImplementsLedger`:
`Spec /\ []NothingExpired => ImplementsLedger`, with `NothingExpired` for
`expired = {}`.  The premise is needed: the effects of a block on an episode that
was filtered in between are not undone.  The invariant is
`LInv == IInv /\ Known /\ InCourse`: the blocks under way are ones the listener may
send, and after `handled` transactions the episodes are at that point of the
block's course, the recursive function `Course` of `EpisodeLedger`.  That this
function exists for every list of transactions (`CourseSteps`) is shown by the least
length for which it would not.  `LedgerStep` then maps the actions: `Accepted` to
`AcceptBlock`, `RecvBlkReverted` to `RevertBlock`, all others to a stutter.  The
end of a reversion stutters because of `Restored`, the lemma behind
`ReversionRestores`.

### Filters
SMT knows nothing of `SelectSeq`.  Where the code retains or filters and a proof is
about what stays, the models use `Keep(s, T)`, the elements of `s` that are in the set
`T`, defined by a recursive function over the length.  That the function exists is
shown by the least length for which it would not, and the lemmas (`KeepAppend`,
`KeepAgree`, `KeepConcat`, `KeepMembers` and others) by induction for a *set* of
sequences (`SeqInduction`), which needs no operator as a parameter.  What a sequence is
after an `Append`, for sequences whose elements nothing is known of (`Appended`,
`IsSeq`, `Prolonged`), stands there too.

### The listener
`FeedProofs`, for all engines, patterns and transactions, and any number of blocks,
reorganisations and failed calls:

| theorem | what it establishes |
|---|---|
| `ListenerInductive` | `ListenerSpec => []ListenerInv` |
| `Fed` | `ListenerSpec => []FedWhole` |

`FedWhole` speaks of the moments between two blocks.  Between two engines those that
had their turn are one block ahead of the others, so the invariant says for each
engine up to which block of the listener's chain it was fed (`Position`) and that this
is what it has in effect (`Told`, unless a failed call made the listener give a block
up).  `Queued` says what is left: the blocks in `added` are the last ones of the
listener's chain, in order, and the transactions fetched for the block under way are
all an engine asks for (`RestAll`).  `Chained` describes the node's DAG.  A
reorganisation is the hard step: that the removed blocks come off the end of what each
engine has, and that the common part of the two chains is what remains, is `ForkSound`
with `PartReverted`; a block that is handed over is `PartNext`.  That a transaction is
asked for by an engine exactly if it carries its prefix uses `ProxyAssumption`, where
no two engines have one prefix.

### The merchant
`MerchantProofs`, for any invoices, subscriptions, keys and transactions, and stacks,
channels and lists of any length (`MerchantAssumption`: amounts and the interval are
natural numbers, the ids of subscriptions finitely many numbers, and the values that
stand for nothing are no others):

| theorem | what it establishes |
|---|---|
| `Inductive` | `Spec => []IInv` |
| `Copies` | `Spec => []CopiesMatch` |
| `Disk` | `Spec => []DiskSound` |
| `Settlements` | `Spec => SettledStays`, an action property |
| `Restores` | `Spec => RollbackRestores`, an action property |

`DiskSound` speaks of every version of the trees a crash may leave, so each single
write of a command or rollback has to keep it (`SoundTrees` in the type of `store`;
`InvoicePut`, `CustomerPut`, `SubscriptionPut`): `MarkPaid` writes the invoice before
the customer's list and `UndoPaid` after it; with the other order (a mutant of the run
`merchant`) a crash leaves a list that names an unpaid invoice.  `Trailed` says of each object on the rollback stack that
it leads from the episode after its command back to the one before
(`Linked`).  It cannot say that of the episodes themselves, since a subscription that a
rollback puts back comes last in its customer's list: they are compared by `Image`, all
but those lists, and by `Listed`, what a list names in whatever order.  `LikeLinked`
shows that an object still applies to an episode that is only `Like` the one it was
pushed on, which is why a long series of commands and rollbacks holds together.  With
`Trailed`, what a rollback writes is sound because the episode before the command was
(`LikeSound`), and `Restores` is a corollary.  `Image` leaves out the time of an invoice's
last change, since no rollback object holds it: `Restores` says that all else comes back,
and the run `merchant_rollback` that the time does not.  `Placed` says in which mode there can be
an episode and what its channel holds: a command of the scheduler finds its
subscription because the demo cancels none.  For `Settlements` each version a step adds
is compared with the last one (`Remembers`).

### Authentication
`AuthBoardProofs`, for any number of peers and participants, any times and limits, and
chains and reorganisations of any length:

| theorem | what it establishes |
|---|---|
| `Inductive` | `Spec => []IInv` |
| `Sessions` | `Spec => []SessionSound` |
| `Rates` | `Spec => []RateBound` |
| `Mirrors` | `Spec => []MirrorExplained` |
| `Restores` | `Spec => RollbackRestores`, an action property |

`Trailed` says that each rollback object on an engine's trail leads back to what the
episode showed before its command; it gives `RollbackRestores`, and `SessionSound`
after a reversion.  The limit of challenges is the harder half: the code counts
attempts, which a rollback does not take back and which are dropped when they are old,
while `RateBound` speaks of challenges on the chain.  `Counted` relates the two from
the time of the last executed command on, and `Follows` says that no block the peer
has still to execute is older than that, also after a reorganisation: an engine only
takes blocks back that left the chain, and those mined since are no older.

### comment-board beside its episode
`AuthBoardProofs`, for any number of participants, bonds, outputs, faults and
reorganisations:

| theorem | what it establishes |
|---|---|
| `PeopleInvariant` | `BoardSpec => []PeopleInv` |
| `AuthIsHonest` | `BoardSpec => []AuthHonest` |
| `StuckIsExplained` | `BoardSpec => []StuckExplained` |
| `WalletInvariant` | `BoardSpec => []WalletInv` |
| `BondsAreBacked` | `BoardSpec => []BondsBacked` |
| `CommentIsOnce` | `BoardSpec => []CommentOnce` |
| `DescriptorsRoundTrip` | `BoardSpec => []DescriptorRoundTrip` |

`BoardAssumption`: amounts and bytes are natural numbers and keys as wide as they are
said to be; what stands for nothing is no participant and no challenge; the contract
expires (90 days after its creation) after a member's first three transactions.

- `PeopleInv`: both properties of the participants are about what somebody waiting knows
  of a chain that changes behind its back.  Nobody is told of a rollback, so what was
  heard (`channel`) does not say what is.  The invariant goes by the transactions
  instead.  `Stage` says how many a participant has sent where it is; `InTurn`, that
  those in blocks are an initial part of them, in their order, whatever was reverted and
  mined again, since each spends an output of the one before; `RoomFollows`, that there
  is a room from the first block on that creates one; `Honest`, that whoever is in the
  room has sent a response, and that each state ever sent holds no more than the
  room does now unless the room was removed (`StateOk`).  `Unstuck` is
  `StuckExplained` before its end: alone, a participant whose request is mined is the
  one challenged or already in.
- `WalletInv`: the wallet's own list says little, since it is stale.  `NodeInv` is about
  the node: identifiers are not used twice and what can still be spent, or is an
  output of a transaction that waits, was spent by nobody.  So whatever a bond's
  transaction spends carries its name from then on (`SpentStays`), which gives `Backed`.
  That the total covers the bonds is arithmetic on a sum over the table: `SumBondsSplit`
  for bonds that are released, `SumBondsPut` for one that is written, perhaps over another
  of the same comment.  They rest on `AddedParts`, that a sum over a finite set can be
  taken apart at any element, proved by induction over its subsets (`SubsetInduction`)
  for the library's fold.  `CommentOnce` needs that a comment that waits for its second
  attempt has carried nothing (`AttemptGood`): an orphan was refused.
- `DescriptorsRoundTrip`: the keys of the moderators are as wide as their number
  (`FlattenedWidth`, by induction over the library's loop), so the user's key follows
  them exactly if as many were given as the descriptor counts (`UserFollows`).

### The routers
`FeedProofs`, for every set of clients and episodes, every number of attempts and
crashes, and a network that loses, delays and repeats (`OffchainAssumption`,
`NoneAssumption`):

| theorem | what it establishes |
|---|---|
| `InOrderAlways` | `Spec => []StrictOrder` |
| `AckNeverLies` | `Spec => []AckHonest` |
| `NeverLost` | `Spec => []NothingLost` |
| `FileInStep` | `Spec => []InStep` |

The invariant is `Typed`, `Genuine` (a message under way is the one its client sends,
for good), `Honest` (acknowledgements, and numbers the router remembers, belong to
messages that were accepted), `Ordered` and `NothingLost`.  `StrictOrder` speaks of what
the episode was given, and the next message it will get waits in the channel, behind
which stands the number the router will compare with: so it is not inductive.
`Ordered` says of the log (`LogOrdered`), of the channel (`QueueOrdered`) and of the
router (`RouterOrdered`) that below each number all others were given, wait, or were
taken by a message no episode gets.  A `Close` ends this for the episode, and what
follows one in the channel is never given, which `Live` and `Shut` express.

`InStep` compares the file with the router, and a number is on its way from one to the
other through a client and the network.  `FileOrdered` says that, unless two had the file
open at once, whoever has it open has its content, the number in it is that of some
client, and no client took a higher one.  `Counted` says that without a crash the router
remembers a number for every episode that was handed a command and no `Close`, and none
it was handed is higher.  Once every client is answered, each of the two numbers is at
least the other (`AckHonest` leads from an answer to what was handed).

### The applications
`EpisodeChainProofs`, for every set of keys, commands, bonds and times, any number of
commands and rollbacks, and a game of two (`EpisodeChainAssumption`;
`tictactoe/src/main.rs:196` starts a game with two).  The `execute` and `rollback` of the
seven applications are proved about as they are, without an assumption on the episode.

| theorem | what it establishes |
|---|---|
| `Invariance` | `Spec => []Trails` |
| `RollbacksRestore` | `Spec => RollbackRestores`, an action property |
| `MarksAlwaysAlternate` | `Spec => []MarksAlternate` |
| `PoolAlwaysBacked` | `Spec => []PoolBacked` |
| `BondsAlwaysExact` | `Spec => []BondsExact` |
| `RoomAlwaysSound` | `Spec => []RoomSound` |

None of these is inductive for `Undo`, since it says nothing of rollback objects.  Each
application has an invariant that says, for every object on the trail, from which
episode to which it leads; `Trails` is their conjunction.

- `GameTrail`: from the game after its move to the one before it, and all these games
  alternate.  `MoveGood` shows that a legal move keeps a game alternating: the parity of
  index and history decides whose each mark is (`MoversStay`), and the mark that goes is
  the mover's own (`SixBack`, "6 moves back is always current player").  `MoveUndone`
  shows that the rollback inverts it.
- `LotteryTrail`: a rollback gives back the tickets and whether the lottery is paused,
  and guesses the pool.  The guess is covered because the tickets before a command are
  among those after it, so the pool of an earlier draw is covered by fewer tickets.  The
  winner there is came from a draw on the chain (`DrewFrom`), so it still has its ticket
  when a later purchase is taken back.
- `McpTrail`: board, history and the player to move come back, with the mark that the
  move displaced.
- `BoardTrail`: the comments are those of the chain (`Shown`), the locked outputs theirs
  (`Locks`), and numbers increase without being consecutive (`Numbered`), which keeps
  two bonds from one output.
- `RoomTrail`, `TalkTrail`: who is authenticated after any *prefix* of the trail is what
  that prefix says (`Follow`, `Given`).  A rollback needs it for the shorter prefix, which
  the current episode says nothing of.
- `OpenTrail`: identifiers, comments and history are one segment that ends at the newest
  identifier (`Listed`).  A rollback cannot bring back what was pushed out, so the segment
  may get shorter than the window, and empty (`PushedOut`).

### The programs around the episodes
`Programs` has its parts side by side, so each has an invariant of its own that the steps
of the others leave alone; `ProgramsProofs` and `CommentItProofs` prove them, for any
number of requests, connections, blocks, copies, restarts and faults:

| theorem | what it establishes | in |
|---|---|---|
| `Anchors` | `Spec => []AnchorsExplained` | `ProgramsProofs` |
| `Snapshots` | `Spec => []SnapshotsExplained` | `ProgramsProofs` |
| `Daemons` | `Spec => []DaemonExplained` | `ProgramsProofs` |
| `Reservations` | `Spec => []ReservationsExplained` | `CommentItProofs` |
| `Map` | `Spec => []MapExplained` | `CommentItProofs` |
| `RoomIndex` | `Spec => []IndexExplained` | `CommentItProofs` |

The assumptions are in `Programs` by name.  Most say that a value which stands for nothing
is no number or record.  The others: participants are lists (`ServerAssumption`); the
history a model of the peer may start from is one its engine executed (`PeerAssumption`,
`Executable`); a room has participants, blocks have times, a page a number of rows
(`IndexAssumption`).

- `AnchorInv`: that anchors follow the checkpoints needs the whole way of one: no copy
  on the network, in the watcher's hands or at the node is behind another (`InLine`).
  A submission that the node took spends the output it names, so it is taken once
  (`SpentOnce`); each copy is counted at one place (`CopiesCounted`).
- `ServerInv`: what is being written to the file is the last snapshot, and what the map
  has (`Written`); from there the file has it unless the write failed or was cut short.
- `DaemonInv`: the password goes to the disk before the key, so in between the two belong
  to different creations.  `Identified` says which task makes up for it: unless two
  requests about a user met, one task at most is between the two, with the password the
  disk has, or with the key.  `Settled` follows a session from the commands of a flow to
  the list.  The peer's map, which a flow is answered from, may have a token that its HTTP
  handler gave; so of the map, the answer and the list it says that a token is the
  chain's or one of those (`Known`), and in either case for a challenge of a block and a
  key of the user (`Given`).
- `PeerInv`: that two requests spend one output says nothing of an output that was
  mined, reverted, cached, chosen or released meanwhile.  `Ledger` says which outputs
  there are, from the chain alone; `Reserved`, that whatever a transaction spends or the
  chain spent is reserved or in doubt, and that the cache and the handlers know no other
  outputs than those and the ones that are free.  `KeysHeld` says who owns a key of
  `pending_requests`.  `Undoable` says that what the chain has executed can be rolled
  back in the room there is, and that without drift the map is that room.
- `SocketInv`: a command without an answer is in the hands of one task (`OneTask`), and
  the node spends the wallet's outputs one after the other, each by the command that chose
  it (`OutputsInTurn`); so an error that was not a broken connection is a rival's doing.
- `IndexInv`: comments are numbered, and in the order of their times unless blocks were
  out of order (`InNumber`).  A block may be reverted at any time, so what its rollback
  will take has to be said of every block of the chain (`Undone`, `Brought`), and the rows
  of the index are those of the room or of a number that was reverted and not given again
  (`Rowed`).  `PageInv` is about the page: a comment of the loaded room is displayed or
  older than what was loaded (`Shown`), or the load that is under way will bring it
  (`Coming`), or it is later than the page has seen and than any request under way for
  that room will make it see (`Later`).  Any answer may move the last seen time, forward
  or back, so `Warranted` says of each request what its answer can be, and `Seen` that the
  time a page has seen is that of a comment in the room, which a rollback could take away.

### Only model-checked
- Liveness: `ExitStopsEngine`, `ListenerCatchesUp`, `ExitIsAnswered`.  The prover has no
  rule for fairness and `ENABLED`.
- `PlayersExplained` of `TttPlayers`.  It needs an invariant about two engines, their
  channels, tasks and transactions under way together, which is not written.
- What folds over sequences and sets compute for every input, beyond what the theorems
  above need: the library's induction theorems take an operator as a parameter, which
  the installed provers cannot instantiate, so each such fact is an induction of its
  own over a set of numbers (`SetInduction`).

## 6. Findings

Each of these five has a run that finds a state in which the code differs from what
the repository says of it:

1. `kdapp/src/proxy.rs:116` (`proxy_lost`): after a failed poll and a reconnection the
   sink is replaced by the node's, and the blocks between the two are neither
   dispatched nor reverted.
2. `kdapp-merchant/src/episode.rs:109` (`merchant_reorg`): a payment is durable and its
   rollback object is not, so after a restart a reorganisation leaves the invoice paid by
   a transaction that is not on the chain, against `onlyKAS-merchant.md:80` ("Rollbacks
   mirror each action for DAG reorg safety").
3. `kaspa-auth/src/api/http/handlers/status.rs:28` (`auth_status`): a session is reported
   as confirmed by the chain from a map that HTTP handlers change and reversions do not
   reach.
4. `kdapp-merchant/src/episode.rs:340` (`merchant_rollback`): `last_update` is set by the
   commands of an invoice (219, 246, 262) and restored by none of their rollbacks
   (329-366), against `kdapp/src/episode.rs:53-54` ("back to the state prior to this
   call") and `onlyKAS-merchant.md:80`.  The listing shows it (`server.rs:155-174`), and a
   checkpoint's hash of the whole episode covers it (`handler.rs:38`), so a reversion does
   not lead back to the hash there was.
5. `kdapp-merchant/src/watcher.rs:134` (`anchors`): every checkpoint is anchored, whatever
   its number, while `onlyKAS-merchant.md:95` says "`seq` is strictly monotone; watchers
   ignore out‑of‑order checkpoints".  Each is sent in several copies, and `seq` starts
   again with the episode (`handler.rs:65`) and with the process.

Others were met while reading, and have no run of their own:

- `kas-draw/src/episode.rs:193`: the rollbacks of the lottery do not return to the state
  before the command, as `kdapp/src/episode.rs:54` asks: the number of a ticket stays
  used, an earlier winner is forgotten (201), the pool becomes one ticket (208).
- `kaspa-auth/src/crypto/challenges.rs:55`: the age of a challenge is taken from the
  machine's clock, so peers that replay the chain later disagree, against `GEMINI.md:549`.
- `kdapp-merchant/src/main.rs`: `serve` and the modes that send one command start an
  engine with no episode, so each command is answered and dropped, against the
  examples of `onlyKAS-merchant.md:33-38`.
- `comment-it/src/main.rs:86-93`: the untagged enum of messages takes `SubmitResponse`
  and `RevokeSession` for `RequestChallenge`, whose fields they have.
- `comment-board/src/comments.rs`: the rollback of a comment that was pushed out of the
  window of fifty reports failure.
- `kaspa-auth/src/api/http/handlers/auth.rs`: `/auth/start` returns no episode, so
  the clients that start with it fail at their first step against this peer.

Behaviour that the models have and a reader may not expect:

- `kdapp`: `revert_map` has an entry per accepted block and loses one only by a
  reversion (`engine.rs:175`).
- kdapp-merchant and kas-draw: a due subscription is enqueued twice if the engine is
  more than ten seconds behind (`scheduler.rs:22`); numbers of states are counted per
  process and not taken back by a rollback (`handler.rs:178`).
- kaspa-auth daemon: two creations of one identity may leave another key in memory than
  on the disk; a stop ends the process before its reply; a revocation is local; the
  signature of a challenge is a mock; a session outlives a lock of its identity.
- kaspa-auth: tokens are hashes of challenge, time and owner, so they repeat.
- comment-it: an explicit removal followed by the guard's takes the key of a newer request; an
  output is chosen under one lock and reserved under another, and released after ten
  seconds whether or not it was spent; the map stays behind after a reversion;
  an indexer names members before, and after, the engine accepts their comments; a room that
  was loaded from the indexer is empty, and its creation is then refused; only the
  participants of `NewEpisode` may act, though `episode.rs:72` says anyone can join.
- comment-it `comment.rs`: anyone may register a session for any key, authors are not
  compared with signers, and of two keys with one token the map's order decides which
  is revoked (210).
- comment-board: two participants that authenticate at once can both wait for ever;
  an outdated list of outputs is spent from, a locked amount is counted twice, a bond is
  confirmed when there is any output at all; a submission is tried again only if the
  error says "orphan"; a bond's script and its descriptor have different layouts.
- tictactoe: any finished game of the player's ends the program; a move refused after a
  reorganisation leaves both players waiting; an older state can pass for the confirmation of
  a move; players that share an output collide.
- kdapp-mcp-server: loaded games are shown and not played.

## 7. Not modelled

- `kdapp/src/generator.rs`: how a nonce gives an id its pattern; `pki.rs`: signatures.
  Patterns, headers and signatures are parameters (`Matches`, `HasHeader`, `sig`).
- `connect_client`'s checks of the network and of the node's sync state, which end the
  program.
- Source that no build includes: comment-it `auth/flow.rs` and `handlers/comments.rs`,
  kaspa-auth `api/websocket/auth_handler.rs`, files named `*-fixed.rs`.
- Source nothing calls: kaspa-auth `run_auth_organizer_peer` and `AuthEventHandler`,
  comment-it `organizer.rs`, `resilient_peer_connection`, comment-board
  `create_script_bond_transaction`.
- The indexer's store of the feature `rocksdb-backend`.
- kas-draw's dashboard and simulated watchtower: nobody reads what they are told.
- kdapp-merchant's `OnchainCreate` and `OnchainAck`: one submission each.
- Fields of the board's contract that no command changes (disputes, votes, roles), and
  the byte layout of scripts, apart from descriptors.
- kaspa-auth's funding of transactions and notifications between peers, which change no
  episode; in comment-it the routes of such notifications are modelled.
- The wallet's command line, the desktop distribution, and the pages but for the
  feed: no state of their own, or the operating system's.

## 8. What is left

- A proof of `PlayersExplained`.
- Longer chains for the parts of `Programs`, which are a few commands and one or two
  faults long: one run for each part would allow them.
