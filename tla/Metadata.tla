------------------------------ MODULE Metadata ------------------------------
(***************************************************************************)
(* Token metadata (src/indexer.rs, attach_token_metadata and what it       *)
(* serves): fetch tasks of both loops share the set of tokens they need    *)
(* not describe again; the rows they fetch travel with the blocks of their *)
(* chunk, through the cut and the channel, to the writer.                  *)
(*                                                                         *)
(* A row is the head its token's supply was read at, 0 for no row.  The    *)
(* loops' waits, the channel's limit and the batching of commits are       *)
(* Indexer's; what a row's count of holders holds is Ledger's.             *)
(***************************************************************************)
EXTENDS Integers, FiniteSets, Sequences, Ranges

CONSTANTS
  Token,
  FirstHead,     \* the chain's height when the explorer first runs
  MaxHead,       \* bound: the height the chain stops growing at
  Mentions,      \* the tokens each block transfers or pays fees in
  Mints,         \* those of them whose supply it moves
  FetchBatch,    \* blocks one range asks for (cfg.batch)
  ChunkSize,     \* blocks of one request (RPC_BLOCK_BATCH, 16 in the code)
  Inflight,      \* requests of one range under way at once
  RestartLimit   \* bound: how often the process may restart

Block == 1..MaxHead
Loop == {"forward", "backfill"}

ASSUME MetadataAssumption ==
  /\ FirstHead \in Nat \ {0}
  /\ MaxHead \in Nat
  /\ FirstHead <= MaxHead
  /\ Mentions \in [Block -> SUBSET Token]
  /\ Mints \in [Block -> SUBSET Token]
  /\ \A b \in Block : Mints[b] \subseteq Mentions[b]
  /\ FetchBatch \in Nat \ {0}
  /\ ChunkSize \in Nat \ {0}
  /\ Inflight \in Nat \ {0}
  /\ RestartLimit \in Nat

NoRow == 0

VARIABLES
  chain,     \* the chain's height
  known,     \* known_tokens, shared by every task of the process
  loops,     \* each loop: pc, at (its position), next and to (its range), out
  tasks,     \* the requests under way
  queue,     \* bundles on their way to the writer
  stored,    \* blocks on record
  rows,      \* token_metadata
  repair,    \* repair_token_metadata between its read and its write
  refused,   \* history: tokens whose last request the node did not answer
  cut,       \* history: tokens whose rows were cut off with their block
  restarts   \* bound: restarts so far

vars == <<chain, known, loops, tasks, queue, stored, rows, repair, refused, cut, restarts>>

Described == {t \in Token : rows[t] # NoRow}

\* A bundle: a block and the rows fetched for the tokens it mentions.
Bundle(b, fetched) == [block |-> b, rows |-> [t \in Mentions[b] \cap DOMAIN fetched |-> fetched[t]]]

NoRows == [t \in {} |-> NoRow]

Idle(at) == [pc |-> "idle", at |-> at, next |-> 0, to |-> 0, out |-> {}]

\* Where a start finds the loops: at the highest and the lowest block of S, or
\* on either side of the head when there is none and the backfill seeds.
StartsAt(at, S, head) ==
  IF S = {} THEN at["forward"] = head /\ at["backfill"] = head + 1
            ELSE IsHighest(at["forward"], S) /\ IsLowest(at["backfill"], S)

Started(S, head) ==
  {[l \in Loop |-> Idle(at[l])] : at \in {a \in [Loop -> 0..(MaxHead + 1)] : StartsAt(a, S, head)}}

NoRepair == [pc |-> "start", stale |-> {}, asked |-> 0]

Init ==
  /\ chain = FirstHead
  /\ known = {}
  /\ loops \in Started({}, FirstHead)
  /\ tasks = {}
  /\ queue = <<>>
  /\ stored = {}
  /\ rows = [t \in Token |-> NoRow]
  /\ repair = NoRepair
  /\ refused = {}
  /\ cut = {}
  /\ restarts = 0

-----------------------------------------------------------------------------
(***************************************************************************)
(* The chain, and the range a loop asks for.                               *)
(***************************************************************************)
Grow ==
  /\ chain < MaxHead
  /\ chain' = chain + 1
  /\ UNCHANGED <<known, loops, tasks, queue, stored, rows, repair, refused, cut, restarts>>

\* The forward loop waits for the first block on record (wait_for_seed).
NextRange(l) ==
  IF l = "backfill"
  THEN {n \in Block : loops[l].at - FetchBatch <= n /\ n < loops[l].at}
  ELSE {n \in Block : loops[l].at < n /\ n <= loops[l].at + FetchBatch /\ n <= chain}

BeginRange(l) ==
  /\ loops[l].pc = "idle"
  /\ l = "forward" => stored # {}
  /\ \E from, to \in NextRange(l) :
       /\ IsLowest(from, NextRange(l))
       /\ IsHighest(to, NextRange(l))
       /\ loops' = [loops EXCEPT ![l] = [pc |-> "fetch", at |-> loops[l].at,
                                         next |-> from, to |-> to, out |-> loops[l].out]]
  /\ UNCHANGED <<chain, known, tasks, queue, stored, rows, repair, refused, cut, restarts>>

-----------------------------------------------------------------------------
(***************************************************************************)
(* The requests of a range.                                                *)
(***************************************************************************)
TasksOf(l) == {k \in tasks : k.loop = l}

Spawn(l) ==
  LET nums == ChunkAt(loops[l].next, loops[l].to, ChunkSize)
  IN  /\ loops[l].pc = "fetch"
      /\ loops[l].next <= loops[l].to
      /\ Cardinality(TasksOf(l)) < Inflight
      /\ tasks' = tasks \cup {[loop |-> l, nums |-> nums, pc |-> "look", wanted |-> {}, asked |-> 0]}
      /\ loops' = [loops EXCEPT ![l].next = @ + ChunkSize]
      /\ UNCHANGED <<chain, known, queue, stored, rows, repair, refused, cut, restarts>>

\* Tokens with no row, as far as the process knows, and tokens whose supply
\* the blocks moved.
TokensToFetch(nums, seen) ==
  ((UNION {Mentions[b] : b \in nums}) \ seen) \cup UNION {Mints[b] : b \in nums}

\* A task is over: the blocks it got, with the rows fetched for them.
Finish(task, nums, fetched) ==
  /\ tasks' = tasks \ {task}
  /\ loops' = [loops EXCEPT ![task.loop].out = @ \cup {Bundle(b, fetched) : b \in nums}]

\* The node answers with some of the blocks; the task looks what they need.
Look(task, got) ==
  LET wanted == TokensToFetch(got, known)
  IN  /\ task.pc = "look"
      /\ IF wanted = {}
         THEN Finish(task, got, NoRows)
         ELSE /\ tasks' = (tasks \ {task}) \cup
                          {[task EXCEPT !.pc = "ask", !.nums = got, !.wanted = wanted, !.asked = chain]}
              /\ UNCHANGED loops
      /\ UNCHANGED <<chain, known, queue, stored, rows, repair, refused, cut, restarts>>

\* The node reads each token at a head it had since it was asked.
Answer(task, fetched) ==
  /\ task.pc = "ask"
  /\ known' = known \cup task.wanted
  /\ refused' = refused \ task.wanted
  /\ Finish(task, task.nums, fetched)
  /\ UNCHANGED <<chain, queue, stored, rows, repair, cut, restarts>>

\* Slip: the token is remembered though nothing came back.
RefuseButRemember(task) ==
  /\ task.pc = "ask"
  /\ known' = known \cup task.wanted
  /\ refused' = refused \cup task.wanted
  /\ Finish(task, task.nums, NoRows)
  /\ UNCHANGED <<chain, queue, stored, rows, repair, cut, restarts>>

\* Nothing stored and nothing remembered.
Refuse(task) ==
  /\ task.pc = "ask"
  /\ refused' = refused \cup task.wanted
  /\ Finish(task, task.nums, NoRows)
  /\ UNCHANGED <<chain, known, queue, stored, rows, repair, cut, restarts>>

-----------------------------------------------------------------------------
(***************************************************************************)
(* The cut, the channel and the writer.                                    *)
(***************************************************************************)
BlocksOf(bundles) == {x.block : x \in bundles}
RowsOf(bundles) == UNION {DOMAIN x.rows : x \in bundles}

\* The bundles that adjoin the loop's position with no hole.
Kept(l) ==
  LET got == BlocksOf(loops[l].out)
      run == IF l = "forward" THEN ContiguousFrom(got, loops[l].at + 1)
                              ELSE ContiguousDownTo(got, loops[l].at - 1)
  IN  {x \in loops[l].out : x.block \in run}

EndRange(l) ==
  /\ loops[l].pc = "fetch"
  /\ loops[l].next > loops[l].to
  /\ TasksOf(l) = {}
  /\ loops' = [loops EXCEPT ![l] = [pc |-> IF Kept(l) = {} THEN "idle" ELSE "send",
                                    at |-> loops[l].at, next |-> 0, to |-> 0, out |-> Kept(l)]]
  /\ cut' = cut \cup (RowsOf(loops[l].out \ Kept(l)) \ RowsOf(Kept(l)))
  /\ UNCHANGED <<chain, known, tasks, queue, stored, rows, repair, refused, restarts>>

Send(l) ==
  /\ loops[l].pc = "send"
  /\ \E x \in loops[l].out :
       LET rest == loops[l].out \ {x}
       IN  /\ IF l = "forward" THEN IsLowest(x.block, BlocksOf(loops[l].out))
                               ELSE IsHighest(x.block, BlocksOf(loops[l].out))
           /\ queue' = Append(queue, x)
           /\ loops' = [loops EXCEPT ![l] = IF rest = {} THEN Idle(x.block)
                                                         ELSE [loops[l] EXCEPT !.out = rest]]
  /\ UNCHANGED <<chain, known, tasks, stored, rows, repair, refused, cut, restarts>>

\* The last row written is the row.
UpsertRows(fetched) == [t \in Token |-> IF t \in DOMAIN fetched THEN fetched[t] ELSE rows[t]]

Write ==
  /\ queue # <<>>
  /\ stored' = stored \cup {Head(queue).block}
  /\ rows' = UpsertRows(Head(queue).rows)
  /\ queue' = Tail(queue)
  /\ UNCHANGED <<chain, known, loops, tasks, repair, refused, cut, restarts>>

-----------------------------------------------------------------------------
(***************************************************************************)
(* The start-up repair: rows worth fetching again, read once, asked for    *)
(* without the lock and written beside the writer.                         *)
(***************************************************************************)
RepairRead(stale) ==
  /\ repair.pc = "start"
  /\ stale \subseteq Described
  /\ repair' = IF stale = {} THEN [NoRepair EXCEPT !.pc = "done"]
                             ELSE [pc |-> "ask", stale |-> stale, asked |-> chain]
  /\ UNCHANGED <<chain, known, loops, tasks, queue, stored, rows, refused, cut, restarts>>

\* A token with neither name nor symbol is left as it is.
RepairSave(fetched) ==
  /\ repair.pc = "ask"
  /\ rows' = UpsertRows(fetched)
  /\ repair' = [NoRepair EXCEPT !.pc = "done"]
  /\ UNCHANGED <<chain, known, loops, tasks, queue, stored, refused, cut, restarts>>

\* Slip: the tokens of the transfers on record count as described.
RestartFromTransfers ==
  /\ restarts < RestartLimit
  /\ restarts' = restarts + 1
  /\ known' = UNION {Mentions[b] : b \in stored}
  /\ loops' \in Started(stored, chain)
  /\ tasks' = {}
  /\ queue' = <<>>
  /\ repair' = NoRepair
  /\ UNCHANGED <<chain, stored, rows, refused, cut>>

\* What is committed stays; known_tokens starts from the rows on record.
Restart ==
  /\ restarts < RestartLimit
  /\ restarts' = restarts + 1
  /\ known' = Described
  /\ loops' \in Started(stored, chain)
  /\ tasks' = {}
  /\ queue' = <<>>
  /\ repair' = NoRepair
  /\ UNCHANGED <<chain, stored, rows, refused, cut>>

Next ==
  \/ Grow
  \/ \E l \in Loop : BeginRange(l) \/ Spawn(l) \/ EndRange(l) \/ Send(l)
  \/ \E task \in tasks :
       \/ \E got \in SUBSET task.nums : Look(task, got)
       \/ \E fetched \in [task.wanted -> task.asked..chain] : Answer(task, fetched)
       \/ Refuse(task)
  \/ Write
  \/ \E stale \in SUBSET Described : RepairRead(stale)
  \/ \E some \in SUBSET repair.stale :
       \E fetched \in [some -> repair.asked..chain] : RepairSave(fetched)
  \/ Restart

Spec == Init /\ [][Next]_vars

-----------------------------------------------------------------------------
(***************************************************************************)
(* Properties.                                                             *)
(***************************************************************************)
Row == 1..MaxHead

Bundles ==
  UNION {[block : {b}, rows : UNION {[S -> Row] : S \in SUBSET Mentions[b]}] : b \in Block}

Request ==
  [loop : Loop, nums : SUBSET Block, pc : {"look", "ask"}, wanted : SUBSET Token,
   asked : 0..MaxHead]

LoopState ==
  [pc : {"idle", "fetch", "send"}, at : 0..(MaxHead + 1), next : Nat, to : 0..MaxHead,
   out : SUBSET Bundles]

TypeOK ==
  /\ chain \in FirstHead..MaxHead
  /\ known \in SUBSET Token
  /\ loops \in [Loop -> LoopState]
  /\ tasks \in SUBSET Request
  /\ queue \in Seq(Bundles)
  /\ stored \in SUBSET Block
  /\ rows \in [Token -> 0..MaxHead]
  /\ repair \in [pc : {"start", "ask", "done"}, stale : SUBSET Token, asked : 0..MaxHead]
  /\ refused \in SUBSET Token
  /\ cut \in SUBSET Token
  /\ restarts \in Nat

\* The rows fetched and not yet written.
Carried ==
  RowsOf(UNION {loops[l].out : l \in Loop}) \cup UNION {DOMAIN queue[i].rows : i \in 1..Len(queue)}

\* A token that is not asked for again has a row, or one on its way, unless
\* its row was cut off with its block (attach_token_metadata remembers the
\* token before anything is written).
KnownIsCarried == known \subseteq Described \cup Carried \cup cut

AllIndexed == stored = 1..chain /\ tasks = {} /\ queue = <<>>

\* With everything indexed, every token the blocks mention has its row, but
\* for those the node did not answer for and those cut off: two tasks that ask
\* for one token, a task that relies on another's row still on its way, and a
\* crash that drops that row, lose nothing.
MentionedIsDescribed ==
  AllIndexed => \A b \in stored : Mentions[b] \subseteq Described \cup refused \cup cut

\* indexer.rs, tokens_to_fetch: "Tokens with no metadata row yet" are fetched.
\* No token is passed over that has neither a row nor one on its way.
NoRowIsFetched == known \subseteq Described \cup Carried

=============================================================================
