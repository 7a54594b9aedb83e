------------------------------ MODULE MCTasks -------------------------------
(***************************************************************************)
(* Parts of the process for TLC that share no state, so that a behaviour   *)
(* has one and rests the others: a chunk of six blocks fetched, three of   *)
(* them with transactions; a block's receipts made into rows; the          *)
(* anchoring rows of an older build's blocks; an older build's database    *)
(* brought up to date; and the live feed with one viewer at a time.        *)
(***************************************************************************)
EXTENDS Anchoring, Fetch, Receipts, OldDatabase, LiveFeed

MCTx == {"x2", "x3", "y3", "x6"}
MCTxsOf == [b \in Number |-> CASE b = 2 -> {"x2"}
                               [] b = 3 -> {"x3", "y3"}
                               [] b = 6 -> {"x6"}
                               [] OTHER -> {}]

\* All of them, or, from a node still indexing receipts, an empty array.
MCGives == [b \in Number |-> {MCTxsOf[b], {}}]

\* Two holders, one of them paid twice; a block without transactions.
MCPaid == <<"h1", "h2", "h1">>
MCTxs == <<1, 0, 2>>

\* A transaction that put money into the Fee Manager before it paid its fee, and
\* one whose fee is more than an i64 holds.
MCLogs == <<[tx |-> 1, is |-> "deposit", amount |-> 1],
            [tx |-> 1, is |-> "misfit", amount |-> 0],
            [tx |-> 1, is |-> "fee", amount |-> 2],
            [tx |-> 2, is |-> "write", amount |-> 0],
            [tx |-> 2, is |-> "elsewhere", amount |-> 4],
            [tx |-> 2, is |-> "fee", amount |-> 9]>>
MCCharges == <<2, 9>>

VARIABLE about

NoAnchoring ==
    /\ chain = 0 /\ stored = {} /\ rows = {} /\ watermark = 0 /\ task = [pc |-> "start"] /\ restarts = 0

NoFetch ==
    /\ pc = "done" /\ spans = <<>> /\ found = {} /\ receipts = Nothing /\ short = {}
    /\ result = Nothing /\ served = [blocks |-> {}, receipts |-> {}] /\ requests = 0

NoDatabase ==
    /\ written = {} /\ counters = <<>> /\ bal = <<>> /\ converted = FALSE /\ holders = 0
    /\ stage = "none" /\ mending = "none" /\ built = FALSE /\ starts = 0

NoReceipts == ReceiptsInit

NoFeed ==
    /\ low = 0 /\ tip = None /\ stats = 0 /\ feed = <<>> /\ sending = <<>>
    /\ viewer = "none" /\ rx = <<>> /\ lagged = FALSE /\ pending = <<>> /\ lastNum = None
    /\ delivered = <<>> /\ truncated = FALSE /\ sessions = 0 /\ stopping = FALSE

MCInit ==
    \/ about = "fetch" /\ FetchInit /\ NoAnchoring /\ NoDatabase /\ NoReceipts /\ NoFeed
    \/ about = "receipts" /\ ReceiptsInit /\ NoAnchoring /\ NoFetch /\ NoDatabase /\ NoFeed
    \/ about = "anchoring" /\ Init /\ NoFetch /\ NoDatabase /\ NoReceipts /\ NoFeed
    \/ about = "database" /\ OldInit /\ NoAnchoring /\ NoFetch /\ NoReceipts /\ NoFeed
    \/ about = "feed" /\ FeedInit /\ NoAnchoring /\ NoFetch /\ NoDatabase /\ NoReceipts

\* What a step of each leaves alone.
besideFetch == <<about, vars, oldVars, receiptsVars, feedVars>>
besideReceipts == <<about, vars, fetchVars, oldVars, feedVars>>
besideAnchoring == <<about, fetchVars, oldVars, receiptsVars, feedVars>>
besideDatabase == <<about, vars, fetchVars, receiptsVars, feedVars>>
besideFeed == <<about, vars, fetchVars, oldVars, receiptsVars>>

MCNext ==
    \/ about = "fetch" /\ FetchNext /\ UNCHANGED besideFetch
    \/ about = "receipts" /\ ReceiptsNext /\ UNCHANGED besideReceipts
    \/ about = "anchoring" /\ Next /\ UNCHANGED besideAnchoring
    \/ about = "database" /\ OldNext /\ UNCHANGED besideDatabase
    \/ about = "feed" /\ FeedNext /\ UNCHANGED besideFeed

allVars == <<about, vars, fetchVars, oldVars, receiptsVars, feedVars>>

MCSpec == MCInit /\ [][MCNext]_allVars

\* The fairness of Anchoring's FairSpec and of LiveFeed's.
MCFairSpec ==
    /\ MCSpec
    /\ WF_allVars(about = "anchoring" /\ (Answer \/ Refuse) /\ UNCHANGED besideAnchoring)
    /\ WF_allVars(about = "anchoring" /\ (Save \/ Fail) /\ UNCHANGED besideAnchoring)
    /\ WF_allVars(about = "feed" /\ Feed /\ UNCHANGED besideFeed)
    /\ WF_allVars(about = "feed" /\ Step /\ UNCHANGED besideFeed)
=============================================================================
