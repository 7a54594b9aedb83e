# A verification development of the nvnmchain explorer

TLA+ models of the explorer in `src/`, the TLC runs that check them on small
instances, and theorems about them that TLAPS checks for every instance.

- `X.tla` models a part of the system, `MCX.tla` gives one part, or several that
  share no state, a small instance, `*.cfg` are TLC's runs, `YProofs.tla` holds the
  theorems about the modules it extends.
- `PROJECT.json` maps every definition to the lines it models, lists the runs,
  the hazards of the code and the properties that answer them, the findings,
  the theorems, and for each property a plausible bug that breaks it.
- An operator whose comment begins with "Slip" is such a bug: it is not part of
  any specification, and only shows that a property would notice.

## The system

One process: a web server and an indexer that share one SQLite connection
behind a mutex (`Db = Arc<Mutex<Connection>>`) and one JSON-RPC client.

| Component | State | Operations | Works with |
|---|---|---|---|
| Store (`db.rs`) | blocks, transactions, transfers, token metadata with holder counts, balances, genesis balances and their cursor, row counters | one transaction each: write a batch of blocks, save a genesis page, rebuild balances, recount holders, upsert metadata, save anchoring rows | every task below, through the mutex |
| Head watcher (`ws.rs`) | retry pause, failures in a row | poll, subscribe, retry | sends heads to the forward loop |
| Forward loop (`indexer.rs`) | last block sent, highest head | drain heads, fetch a range, keep what runs on, send | reads the table once for its seed, sends to the writer, publishes its lag |
| Backfill loop (`indexer.rs`) | frontier | yield to the tip, fetch the range below, keep what runs down, send tip first | seeds an empty table, sends to the writer, reads the lag |
| Writer (`indexer.rs`) | the batch in hand | take up to 64 bundles, commit, retry | the channel of 1024 bundles, the store |
| Fetch layer (`indexer.rs`, `rpc.rs`) | the parts of the range left, what the node gave | ask for blocks, halve, ask for receipts, ask again one by one | both loops, the node |
| Token metadata (`indexer.rs`, `tokens.rs`) | `known_tokens`, shared by all fetch tasks | find tokens to describe, ask the node, attach rows to bundles, start-up repair | fetch tasks of both loops, the writer |
| Start-up repair and genesis pass (`indexer.rs`) | cursor (in the store) | look, unlock, recompute; read a page, ask the node, save the page | the store, beside the writer |
| Anchoring backfill (`indexer.rs`) | watermark, window | ask for logs, halve the window, save | the store, beside the writer |
| Stats loop (`indexer.rs`) | none | aggregate queries into one kv row | the store, the feed |
| Live feed and streams (`web.rs`) | last block published, one broadcast channel, per viewer the last block sent | publish; start at the tip, follow, replay after a lag | the store, the stats row, browsers |
| Web pages and JSON API (`web.rs`, `web/api.rs`) | none | page through listings; show a transaction's calls, what each did, what failed | the store, the node, the caches |
| Caches (`web.rs`, `signatures.rs`) | traces, labels, signatures, `TRACING_UNAVAILABLE` | look, ask, store, start over when full | page views, the node, a signature directory |
| Pure parts (`parse.rs`, `decoder.rs`, `summary.rs`, `anchoring.rs`, `memo.rs`, `name_search.rs`, `tempo_address.rs`, `tokens.rs`) | none | parse, decode, summarise, rank | callers |
| Process (`main.rs`) | shutdown flag, connections in flight | start, stop within deadlines | everything |

### What is hard about it

- **Two loops, one writer, no journal of intent.** Positions live in memory and
  run ahead of the commits. What is on record after a crash is all the next
  start has, and it looks only at the lowest and the highest block: a hole would
  stay for ever.
- **Incremental figures.** Balances, holder counts and row counters are moved by
  deltas from three sources (blocks, genesis pages, repair) that take turns on
  one lock, while blocks may be written twice and batches rolled back.
- **Look, unlock, ask, lock, write.** The genesis pass, the repairs, the metadata
  fetch and the anchoring backfill read under a lock, let go of it to ask the
  node, and write what they worked out for a table that has moved on.
- **A cache filled before the write it stands for** (`known_tokens`), whose rows
  travel with bundles that may be cut off or lost.
- **A node that answers in part**: ranges with blocks missing, a whole request
  refused for its size, receipts that lag behind blocks, heads late or out of
  order.
- **Slow viewers** of a bounded broadcast channel, whose replay overlaps both the
  channel and the blocks being published.
- **Pages cut by offset** out of tables that grow at both ends, counted and read
  by different statements.
- **Outcomes told from several sources**: a trace, a replay that leaves calls out,
  the receipt, and a flat list whose entries point at each other by position.
- **Caches asked without their lock**, by several views at once, of sources that
  fail.
- **A node's answers in pieces**: a batch's items out of order, failed, left out or
  with nothing in them; a log without its place, a transaction without its fee.
- **Tasks that wait for each other** through two bounded channels, and have to end
  when one flag is raised.
- **A box and a page that search alike but not the same way**, over three indexes.
- **Restarts** at any step, and power losses that take back commits
  (`synchronous=NORMAL` with a write-ahead log).

### What makes each component correct

- Store: counts equal a recount and balances equal the sum of what is on record,
  always; once caught up, balances are the chain's; nothing settled is taken back.
- Pipeline: the table is a run of blocks with no hole, whatever stops it; it
  reaches the tip first; it comes to hold the whole chain.
- Fetch layer: no block comes out without its receipts, none the node gave is
  lost, none is asked for twice, and the halving ends.
- Metadata: a token no longer asked for has a row or one on its way.
- Anchoring backfill: nothing behind the watermark lacks its rows; it ends.
- Live feed: a viewer sees each block once, in order, none skipped, and the tip.
- Caches: bounded, an entry is gone within its time, and what a view learned is
  only lost to one that asked before it.
- Transaction page: the flat list is the call tree, each call is shown with its
  own outcome, a failure is named after a call that failed, each payment is told
  once.
- Listings: a reader who follows the pages misses nothing that was there when it
  began, but what came in between the count and the rows of one request.
- Head watcher and process: heads keep coming through any failure of the socket,
  which is come back to; a raised flag ends everything, whatever waits on what, and
  nothing else ends anything.
- Batches: a field or a balance stored is the node's answer to that very call, or
  what the code takes for none.
- Receipts: each log is one row under its own place, however the node gives it and
  however often the block is fetched; the fee is what was charged.
- Start on an older database: once the writer runs, the counters are the row
  counts, and balances that were complete are so still.
- Search: Enter leads to one of the suggestions; no registry is shown twice or
  after one that answers less well.

## The modules

```
Ranges ----> Indexer ====> BlockIndex (implements)
   |-------> Metadata --.
   `-------> Fetch      |-> MCMetadata      HeadWatcher --> Process
BatchCall --------------'                   Ledger
Fetch, Receipts, Anchoring, OldDatabase, LiveFeed --> MCTasks
CallTree --> TxPage, Caches --> MCPage      Orders --> Listing, Search --> MCReader
```

`Indexer` has the order of blocks and the crashes, with a block number for a
bundle; `Ledger` says what writing a bundle does; `Fetch` says where the answer
to a range, any part of it, comes from, and `Receipts` what a block of it becomes;
`Metadata` repeats the shape of the two loops, without their waits, for the rows
that ride on bundles, and `BatchCall` has the request behind a row; `Process` has
the same loops as what they wait for, a bundle being a place in a channel, with
`HeadWatcher` beside them; `LiveFeed`, `Listing` and `Anchoring` take from
`Indexer` that the table is a run that grows at both ends or, for `Anchoring`, that
blocks come on record at any moment; `OldDatabase` is what comes before `Ledger`'s
initial states. `TxPage` composes `CallTree` with what the page makes of the list,
and gets its trace from what `Caches` calls the traces. `Orders` is the sorting that
`Listing` and `Search` share: an order is a set of pairs, and the k-th row the one
with k - 1 before it.

`MCTasks`, `MCMetadata`, `MCPage` and `MCReader` each host parts that share no
state: a behaviour has one of them and rests the others, so one run answers for
all without multiplying their states.

### Ledger (`db.rs`; `repair_derived_tables` and `genesis_loop` in `indexer.rs`)

A database is a record, and each statement a pure operator on it
(`InsertTransfers`, `UpsertMeta`, `AdjustBalances`, `WriteBlock`, `SaveGenesis`,
`RebuildBalances`, `SyncHolderCounts`), in the order `write_block` runs them. `db`
is what is committed, `txn` an open transaction with its own view; no other
action may take the lock while it is open (`Unlocked`). `BeginBatch`,
`WriteBundle`, `CommitBatch` and `AbortBatch` are `save_block_bundles`, a block
twice in a batch included. `ReadGenesisPage` and `SaveGenesisPage` are the two
locked parts of `add_genesis_balances`, `LoseGenesisPage` the node that does not
answer; `ReadTables`, `Repair` and `RepairFails` are the two locked parts of
`repair_derived_tables`. An amount is so many units, and a balance the units
received less those sent, so that sums are cardinalities; 256-bit texts are not
modelled. A balance of zero is an absent row, as in the code.

### Indexer, Ranges, BlockIndex (`indexer.rs`)

`forward` and `backfill` hold what each loop has in local variables and the point
it waits at (`pc`); `pending` is the channel and the writer's batch, of which the
first `taken` are the batch. `ForwardFetched` and `BackfillFetched` take any part
of a range as the answer and cut it with `ContiguousFrom` and
`ContiguousDownTo`; `SeedTimeout` is the five seconds of `wait_for_seed`;
`RereadFrontier` the look at the table from block 1. `Checkpoint` moves what is
durable up to what is committed, and `Restart` goes on from either. Heads may be
announced late, twice and out of order (`ws.rs` polls and subscribes at once).
`BlockIndex` is the promise: a run of blocks that commits extend and a loss cuts
back to what was secured.

### Metadata (`attach_token_metadata` and what it serves)

A fetch task is a record in `tasks` between its look at `known_tokens`, its
request and its end; a row is the head its supply was read at. `EndRange` joins a
range's tasks, cuts it and with it the rows of the bundles dropped; `Send`,
`Write` and `UpsertRows` take what is left to the table. `refused` and `cut` are
histories: tokens whose last request failed, and whose row was cut off.

### Fetch (`fetch_raw_blocks`, `batch_call`)

The recursion over halves is the sequence `spans` of parts not done yet. `Halve`
is one error for a whole request of two blocks or more; a request for one block
cannot be refused as a whole, since `batch_call` sends it alone and hands back
its error as the block's. `Fail` is a transport error. `ReceiptsAnswered` takes
what `eth_getBlockReceipts` gives (`Gives`) for some of the blocks, `Retry` asks
once more per transaction, lowest block first, and keeps the answers only when
all of them came. `served` and `requests` are histories.

### Receipts (`assemble_bundle`, `apply_receipt`, `index_log`; `parse.rs`)

A block is a sequence of logs, each known by what it is (a transfer of the fee
token, into the Fee Manager as the fee or as something else, a write of the
anchoring contract, a log under Transfer's topic that does not fit it). `Fetched` is
the block and its receipts, with what they tell of each transaction's fee and fee
token; `IndexLog` is one turn of `apply_receipt`'s loop, with the running count and
the way the node gives that log's place; `SaveBundle` writes the rows, which are
left as they are when the key is taken; `SaveLog` is a row of the anchoring backfill.

### BatchCall (`batch_call`, `fetch_token_metadata`, `balances_at_genesis`)

A request is a sequence of calls, an answer any items with ids: out of order, some
missing, each with what the node says, an error of its own, or neither error nor
result, which `batch_call` hands on as a null (`Null`). `TokensAnswered` makes rows
or repairs of the results by position among the calls, `BalancesAnswered` genesis
balances, where a call the contract reverted stands for none, and so does a null:
`unsaid` is a history of the balances that came of one.

### OldDatabase (`init_db`, `repair_derived_tables`)

The databases older builds left are the initial states: with row counters or
without, with balances under text keys, under address bytes, or with none.
`SeedCounter` and `BlobBalanceKeys` are the steps of `init_db`, each a commit;
then the writer runs beside `LookAtTables`, `RebuildAll` and `RecountAll`.
`StartAgain` may come between any two.

### HeadWatcher and Process (`ws.rs`, `main.rs`, the loops' waits)

`watcher.until` is what the poll goes on until: the socket's end, the pause's, or
never. `CheckShutdown`, `HeadPolled`, `SendPolled` and `PollAgain` are the poll,
`SocketOpens` to `SocketCloses` the subscription's task; both send to the
forward loop through `heads`. In `Process` each task ends in its own place: a
loop at the flag or when its channel is closed, the writer at the flag or when
both loops are gone, and `main` goes from serving to waiting for the indexer when
the last connection is done (`ServerStops`) or the deadline has passed
(`GraceOver`), whoever is still connected. A loop that ends takes the channel it
receives from with it: queued heads are gone with the forward loop. How long a pause
or a grace lasts is left out; that each does end is not.

### LiveFeed (`feed`, `events`, `sse_step`)

The feed's poll, read, publication and stats are steps of their own, and so are
the viewer's first look at the tip, the rest of a replay, a message received and
a replay begun. The channel keeps the last `Capacity` messages and tells a
receiver once that it lagged. Viewers only read, so one stands for all; it may
leave and another come. The table's growth is `Commit`, at both ends at once.
The feed runs from before the server listens (`main.rs` spawns it first).

### Anchoring (`backfill_anchoring`)

`Start`, `Answer`/`Refuse` and `Save` are the head, a window's logs and its
transaction, with `IndexBlock`, the writer, at any point between.

### CallTree and TxPage (`flatten_trace`, `tx_page`, `build_summary`)

The recursion of `walk_trace` is a stack of the calls being walked: `Enter` is a
call, which puts its entry and its position in the caller's children, `Leave` the
return. A trace is a forest, whichever of its calls failed. `TxPage` goes on from
the list as `tx_page` does: `ExtractCalls` when there is no trace (the raw calls,
or the transaction as one call), `Replay` and `Apply` for a failure whose calls
have no outcome (with the calls a replay leaves out), `ResolveSuccess` and
`ResolveFailure`, `Blamed`, and the summary's `Lead` or `FailureLead` over the
logs `KnownEvents` has words for. What is said of an event, its amounts and
names, is left out.

### Listing (`web/api.rs`, `anchoring.rs`, the pages of `web.rs`, queries of `db.rs`)

A row is its place in the table. A request is up to three reads, since the count
and the rows are different statements (or calls of the node) and the indexer
writes between them: `CountsFirst` and `CountsAfter` say which handlers take the
count before and which after the rows. Each of the twelve listings has its own way
to a page: by offset, by a range of block numbers (`BlocksStart`), by a cursor in
the link (`ByCursor`; `/api/v1/blocks` looks up its highest and then its lowest
block, `Lowest`, before the rows, and decides by those), by two walks merged (`MergedWalks`), by ids counted down
(`NewestFirst`). The transactions page takes its count from the statistics, which
`Recount` takes again at any time. The reader begins at page 1 and goes on while
it is offered another; `was`, `seen` and `late` are histories.

### Search (`resolve_search`, `search_suggest`, `anchoring_search`, `name_search.rs`)

The query stays what it is, and every text searched is known by how it compares
with it. Its shape is what the code can tell of it: a number, an address, a hash, a
name, or a hash without its 0x (`"bare hash"`), which is a name to what suggests and
a hash to the index. `SearchSuggest` and `AnchoringSuggest` are what is shown while typing,
`SearchPage` and `AnchoringPage` what Enter finds; both ask the index, the
contract and the name index, any of which may not answer in time. Between the two
a block, a token or a registry may come in.

### Caches (`fetch_missing_trace`, `cached_label`, `signatures::resolve`)

The three have one shape, told by `cache`: `Look` under the lock, `Answer`,
`Unreachable` or `TraceFails` without it, `Store` under it again. They differ in
what they store of a failure (`Stored`), in what is fresh (`Fresh`, an inclusive
bound for names and a strict one for labels), and in the time an entry bears: a
name that of the look, a label that of the store. `Learn` indexes a token a label
is about. `since` is a history: which of the keys a view asked for were stored by
others after it asked.

## The runs

| Run | What it asks | Bounds and why they are enough |
|---|---|---|
| `ledger` | exact counts, balances, counters; the cursor; monotonicity; the pass catches up | two blocks, three transfers, two tokens, a page of two rows, batches of two, one restart: a mint, a holder funded only at genesis, a page that ends inside a block, a block written twice, metadata that comes before, with or after transfers |
| `indexer` | no holes, nothing skipped, tip first, refinement of `BlockIndex`; the whole chain is indexed, under fairness | head 4 growing to 6, queue of one, batches of two, ranges of two, one restart: `LongChain` (4 > 1 + 2) holds as it does of any real chain; both loops have to wait, the backfill has two ranges and a partial one, the tip moves twice |
| `indexer_reseed` | what a short chain does (finding) | head 2, a queue it fits in |
| `metadata` | a token remembered is carried; with all indexed every token is described; a stored field is the answer to its call | four blocks, two tokens, chunks of one and two in flight, one restart: two tasks want the same token; a mint while a row is on its way. Requests of one contract and of two, any items in any order; a behaviour asks for rows or for balances, which share nothing but the node |
| `metadata_cut` | is a row cut off with its block fetched again? (finding) | the same chain |
| `token_rows` | is an empty name one the node gave? (finding) | the same requests |
| `tasks` | fetch: whole or absent, nothing lost, each block once and in few requests; receipts: on record as on the chain; anchoring: rows behind the watermark, it ends; older databases: brought up to date; live feed: in order, none skipped, the tip is seen | six blocks (three levels of halving), three with transactions, one of them with two; six logs of two transactions, with a fee beyond i64 and a deposit before a fee; window of five (halved twice), two restarts, a chain that grows; three blocks, one of them empty and one with two transactions, three starts; channel of two, replay of two, tip up to 5, two stats: a viewer lags, is replayed in part, and overlaps the channel |
| `old_balances` | are balances right after the repair? (finding) | two starts |
| `log_indexes` | does a place that does not parse get one of its own? (finding) | the same six logs |
| `page` | the list is the tree, each call its outcome, who is blamed, each payment once; labels in time, what may be forgotten | traces of up to four calls in any forest (a child among siblings with children of its own), up to three raw calls with or without a destination, up to three actions: two equal payments, a memo transfer beside a plain one; three keys and room for two, two views at once, requests of two names, entries that age after one of two units of time |
| `reader` | nothing passed over, what may be missed, merged pages; Enter and the suggestions agree, best once first | five rows, two to a page: three pages, the last of them short, rows coming in at both ends on any page; three tokens of every way to match, up to four registries, a box of two and a page of three: more hits than room |
| `process` | nothing ends before a signal, and nobody waits for a task that is gone or waits in turn; heads keep arriving, the socket is come back to, a signal ends the process | two heads to come, channels of one place, one connection: with the first on record the forward loop has a range to fetch, so it rests, sends, waits for room and meets the flag or a writer that is gone in the middle of it; every sender waits, for every receiver |

Runs whose system may stop (a bounded chain that is indexed, a fetch that is
done, a listing read to its end, a process that exited) switch deadlock off; in
`ledger`, `indexer` and `page` it is checked. Type invariants are proved and not
run.

### Fairness

`Indexer`: every task the runtime can poll is polled (weak fairness); tokio's
channel hands out permits in order, so a sender is not passed over for ever
(strong fairness of sends); the node, asked again and again for blocks that
exist, in the end gives them all (strong fairness of the whole answer); a write
that is retried for ever succeeds. Restarts are bounded. No fairness is assumed
of heads announced late or of checkpoints. `Ledger`: the genesis pass goes on and
the node answers in the end. `LiveFeed`: the feed and a viewer that stays are
scheduled. `Anchoring`: the node answers, with logs or an error, and the save
commits or fails (`MCFairSpec` has both for their modes). `Process`: tasks that can
go on are polled (weak); a poll asked again and again is answered, room in a
channel is handed out in order, a write tried again succeeds (strong). Nothing is
asked of a socket that is open and silent, of a connection that never ends, or of
the indexer's window: `StopsInOrder` does without them.

### Findings

1. `indexer_reseed` — `indexer.rs:892`: on a chain short enough to fit in the
   queue the backfill can reach block 1 before anything is committed, read an
   empty table, seed again at a newer head, and let a crash leave a hole.
2. `metadata_cut` — `indexer.rs:332`: tokens are remembered before their rows are
   written; a row cut off with its block is not asked for again until a restart
   or a mint.
3. `token_rows` — `tokens.rs:147`: a view whose call failed, that the answer
   leaves out or that has neither result nor error, is stored as an empty one, though `tokens.rs:113` says no token is
   stored from an answer the node never gave.
4. `old_balances` — `indexer.rs:654`: on a database older than the balance table,
   a block committed before the rebuild passes for complete balances, in this
   start or the next, and they stay short.
5. `log_indexes` — `indexer.rs:507`: a log's place that does not parse becomes 0
   and takes the key of the log that is there; the comment says it gets a fallback.

Noted while modelling and not run, some of them among the hazards:

- `indexer.rs:345`: a supply read earlier for an older block can be written over
  one read after a mint.
- `indexer.rs:216`: any array is taken as all the receipts of a block, an empty
  one too in `rpc.rs`'s `fetch_block_receipts`.
- `tokens.rs:198`: an item with neither result nor error (`rpc.rs:242`), or a single
  answer with neither (`rpc.rs:173`), is stored as a genesis balance of 0, which is
  never asked for again. `EachItsOwnAnswer` excepts it by name (`unsaid`).
- `indexer.rs:386`: a stated fee beyond i64 counts as none: it is overwritten by
  the transfer that settled it, or by any other transfer of the fee token into the
  Fee Manager (a deposit), and the page marks no payment as the fee
  (`decoder.rs:921`). So does a fee stated as nothing. `OnRecordAsOnChain` excepts
  such deposits by name.
- `indexer.rs:821`: `chain_head`, "the newest head the node announced"
  (`indexer.rs:691`), takes the highest of the heads queued together, and goes back
  when a late one comes by itself.
- `web.rs:937`: a replay stops after 4096 blocks and the viewer goes on from the
  channel: blocks between are never sent, though `main.rs:51` says live viewers
  never see gaps. `NoneSkipped` excepts them by name.
- `web.rs:1300`: the first call mirrors the transaction though others stand beside
  it, when the replay fails or the receipt has a reason.
- `web.rs:553`: a deeper failure that its caller caught may be blamed.
- `web.rs:1115`: an error about one transaction that reads "does not exist" or
  "not available" turns tracing off for the process, against `web.rs:1149`.
- `signatures.rs:88`: a directory that is down is remembered like one that does
  not know the selector, for the same seven days.
- `web.rs:1072`: the transactions page takes its count from the last statistics.
- `ws.rs:102`: the socket's pause is not reset by a subscription that ran and then
  failed, where `ws.rs:15` reads as if it were.
- a burn makes the zero address a counted holder.
- `web.rs:1922`: the index takes a hash without its 0x (`db.rs:24`) and Enter opens
  what it names, but `is_hash` (`web.rs:2196`) does not know it, so the box offers
  nothing, though `web.rs:1931` says Enter lands where the suggestions said it would.
  `EnterLeadsToASuggestion` excepts it by name (`BareHashKnown`).
- Search: a token of that exact name is ranked after those whose symbol begins
  with it, and may be cut off (`web.rs:1930`); an address that is a token's is
  suggested as the token, and Enter opens the address; "#5" and the built-in
  names are suggested but not found by Enter; the checksum of a record and a token's
  name of one character are found only by Enter. `EnterLeadsToASuggestion` names
  what it excepts.

## What is proved

| Module | Theorems | Inductive invariant |
|---|---|---|
| `LedgerProofs` | types, the other five invariants of the `ledger` run, `NothingForgotten` | `Sound` of both the committed database and an open transaction's view (balances are sums, counts are counts of holders, row ids end at `lastId`, what the cursor passed is settled); `Extends`: the view only adds to the database, with row ids above the database's; `PageOK`: a page in flight settles every row below the cursor it will set, although batches commit in between, because their rows are above it; `CountersOf`: the counters lag a transaction's tables by what it will add |
| `IndexerProofs` | types, `NoHoles`, `NothingSkipped`, `TipFirst`, and that `Spec` implements `BlockIndex!Spec` | `QueueOK`: what is on record together with **any prefix** of the queue is a run that reaches the first head, since a commit may stop after any of them; `ForwardOK` and `BackfillOK`: what a loop holds joins what was sent |
| `MetadataProofs` (`Metadata`, `BatchCall`) | types, `KnownIsCarried`, `MentionedIsDescribed`; `EachItsOwnAnswer` | what a request asks for is mentioned by its blocks, and read at a head there was; `PlaceInv`: each loop walks away from what is on record or on its way and never comes by a block twice, so what is on its way is not on record; `AccountInv`: a token of a bundle on its way is accounted for, and one of a block on record is too or is mentioned by a block still to come, whose request will ask for it (what a crash takes, it takes with its block); for `BatchCall`, `CallsOK`: what a request asks, in the order its answer is read back in, and that a balance is the default exactly where it was reverted or `unsaid` |
| `OlderBuildProofs` (`Anchoring`, `OldDatabase`) | types, `RowsBehindWatermark`; types, `BroughtUpToDate` | a window begins at most one block after the watermark; `Counted`: a counter is right from when it is there, and there once its table was passed; `Kept`: the keys are converted before anything else runs, and balances once complete stay so under one kind of key or the other, whichever step a start was cut short at |
| `FetchProofs` (`Fetch`) | types and the three invariants the `tasks` run checks of it | `Tiles`: the parts tile the chunk's end, no more of them than blocks; `BudgetOK`: requests made are within four per block done plus the parts left (`Spent`); `ServedOK`: what was given lies in the result, or in the part under way |
| `FetchProofs` (`Receipts`) | `OnRecordAsOnChain` | `BundleOK`: at each log the rows made are those of the logs before it, each under its own place, the running count is the place of the next, whichever of them gave theirs, and what a transaction's fee reads follows from what was told and which of its logs were read (`FeeSoFar`): the charge once it was stated or its fee log read, nothing until then; `RecordedOK`: what is on record are the rows of all of them, so that fetching or backfilling again inserts nothing new |
| `FetchProofs` (`Process`) | types (no task knows of a height above the chain, no channel is over its size), `NoneLeftWaiting`: nothing ends unasked, every wait is for a task that goes on | `EndsInv`: each task ends by the flag or after another that ended, which makes the first end the flag's; and `SocketGoesWithWatcher`: a watcher that is gone took the socket's task with it, without which a silent socket would keep the head channel open and the forward loop waiting |
| `LiveFeedProofs` | `InOrder`, `NoneSkipped` | `FeedOK`: what the feed has yet to publish is the run that ends at the last block it sent; `Channel`: what the channel holds rises and misses no number after its first, since only its oldest is ever dropped; `Complete`: while nothing was lost since the last replay, the channel holds every published block after the last one delivered, so what comes first in it is the next one |
| `PageProofs` (`CallTree`, `TxPage`) | `FlatIsTheTree`, for a trace of any size and shape; `EachCallItsOutcome`, `BlameIsWarranted` | `FrameOK`: a frame's list has the calls its node made so far, at rising places after its own and a level deeper, and what it has left comes after them and is not entered; `DoneOK`: an entry whose frame is gone lists all of its node's calls. At the end no call is missing: the least one that were has a caller, which is entered and lists it. `Traced`: until a failure is looked into the list is the whole trace, each entry with its call's status; `LaidOn`: the outcomes stand on the calls they are of, found by counting the calls a replay can ask for, and the transaction's own failure on another only if it is the first |
| `PageProofs` (`TxPage`) | `EachActionSaidOnce` | `EventsInv`: at the end what is known is what `KnownEvents` makes of the receipt. The rest is about lists: each thing done ends at a log of its own, further down than the one before (`EndsRise`); the log kept of it is its last and no log of it before that is kept, because only the Transfer of a memo transfer is restated; so the events kept are as many as the things done with words, and in their order (`OrderKept`) |
| `PageProofs` (`Caches`) | `TaggedInTime`, `OnlyOlderLooksForget` | `LabelsOK`: a label that says none was stamped before its token was indexed, whoever stores it, because a look is answered and stored in one unit of time; `StoredSince`: a name a view lacks and the cache holds fresh was stored after that view looked |
| `ReaderProofs` (`Listing`) | `NothingPassedOver`, `MissesOnlyTheLate`, `PagesAreSlices` | `LeftOK`: a row still to come is below every row read, and behind all the pages read so far had room for: by its rank, which never falls as rows come in, by its height below the highest there was, or by the cursor. `HeldOK`: a count taken before the rows is no more than the rows there are; no row still to come is below the lowest block read before them. For the merged walks: a row among the first n of all is among the first n of its own walk |
| `ReaderProofs` (`Search`) | `BestOnceFirst`, `EnterLeadsToASuggestion` | `Good`: a list whose registries are there, no two alike and no better one after another; lists stay good when cut and joined to lists without registries, and while registries are added, since one keeps its number and name. `EnterInv`: until something changes, what is shown and what was found are the two searches of the same state. The two are compared search by search, a hash known without its 0x excepted: each hit of the shorter search is a hit of the longer one, or the longer one is full |

Assumptions are those each module names. `ChainAssumption`: the chain is finite,
a log has one block and index, a transaction one block. `SolventAssumption`:
nobody but the zero address spends more than it got. `PipelineAssumption`,
`MetadataAssumption`, `AnchoringAssumption`, `FetchAssumption`,
`LiveFeedAssumption`, `CachesAssumption`, `MaxNodesAssumption`, `BoundsAssumption`,
`OldDatabaseAssumption`, `ListingAssumption`, `SearchAssumption`,
`WatcherAssumption`, `ProcessAssumption`, `ReceiptsAssumption`: ranges of the
parameters, and that there are finitely many tokens to search. `FeesAssumption`: the
log that settles a fee moves what was charged, and one that was charged something
has such a log (`indexer.rs:381`). `NoHoles` and what follows from it need `LongChain` as well, the
first head above `QueueCap + MaxBatch` (1024 + 64 in the code): without it
`indexer_reseed` is the counterexample. It is an assumption of those theorems and
not of the module, since the run that refutes the claim without it uses the module.
In the same way `RecordIsTheChain` assumes `PlacesParse`, that a node gives a log's
place so that it parses or not at all: `log_indexes` is the counterexample without it.

Every invariant and every step property the runs check is a theorem. Only
model-checked is liveness (`CatchesUp`, `GenesisCatchesUp`, `SeesTheTip`, `Ends`,
`HeadsKeepArriving`, `SocketReturns`, `StopsInOrder`), which rests on fairness and
so on which actions are enabled, beyond the provers here. What a loop over data
returns for every input takes an induction they cannot do either; where a property
is about such a loop, the model has the loop as steps (`IndexLog`, `CallTree`'s
walk), whose invariant is the induction, or its result by what it consists of
(`Ordered`, `KnownEvents`).

## What is not modelled

ABI coding, formatting, the words of a summary, templates, memos and virtual
addresses (their inputs and outputs are text, and no state is behind them); the
fields of a block, a receipt or a token that are copied as they are; queries of a
single row, and the pages that show nothing else; listings ordered by balance or
holder count, whose rows move under the reader; the aggregates of the statistics,
which are read and stored under one lock; how an address is told to be a wallet, a
token or a contract; the pace of a rate-limited gateway, which nothing but tests
asks for; how long pauses and deadlines are. A second signal, which exits at once,
is a crash. `PROJECT.json` lists them all under `components`.

## Plan

Written so far, most important first: `Ledger`, `Indexer` with `BlockIndex` and
`Ranges`, `Metadata`, `Fetch`, `LiveFeed`, `Anchoring`, `CallTree` and `TxPage`,
`Listing`, `Caches`, `HeadWatcher` and `Process`, `Search`, `BatchCall`,
`OldDatabase`, `Receipts`, `Orders`. Next:

1. `HeadWatcher`'s steps in the place of `Announce` in `Indexer`'s runs.
2. Listings ordered by balance, read while balances move.
