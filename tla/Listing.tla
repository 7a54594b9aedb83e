------------------------------ MODULE Listing -------------------------------
(***************************************************************************)
(* The explorer's listings, read page by page while the indexer writes:    *)
(* db.rs's queries, web/api.rs, anchoring.rs and the pages of web.rs.  Each *)
(* page is a request of its own that reads the tables, or asks the node, up *)
(* to three times; in between rows come in, newer at one end and older at   *)
(* the other.  A reader opens page 1 of a listing and goes on to the page   *)
(* after as long as the answer offers one.                                  *)
(*                                                                          *)
(* A row is its place in the order of blocks and positions, counted from 1; *)
(* role says which of an address's two indexes it stands on.                *)
(***************************************************************************)
EXTENDS Naturals, FiniteSets, SequencesExt, Orders

CONSTANTS
    MaxRow,             \* the rows there will ever be
    PerPage             \* rows to a page (25)

ASSUME ListingAssumption == MaxRow \in Nat /\ PerPage \in Nat \ {0}

VARIABLES
    lo, hi,             \* the rows on record, hi < lo when there are none
    role,               \* what each row is to the address
    counted,            \* total_txns of the statistics, once there is one
    listing,            \* what the reader reads
    reader              \* its pages, and the request it waits for

listingVars == <<lo, hi, role, counted, listing, reader>>

Roles == {"sent", "received", "self", "other"}

\* The listings: of /api/v1 transactions, blocks, an address's transactions
\* and transfers, and registries, records and versions of the contract; of the
\* pages, transactions, blocks, an address's transactions, a token's transfers,
\* and the blocks one by one.
Listings == {"txs", "blocks", "address_txs", "address_transfers",
             "registries", "records", "versions",
             "txs_page", "blocks_page", "address_page", "token_page", "block_page"}

OfAddress == listing \in {"address_txs", "address_transfers", "address_page"}
OfContract == listing \in {"registries", "records", "versions"}

\* What is listed now: the contract's ids begin at 1.
Listed == IF OfAddress THEN {r \in lo..hi : role[r] # "other"} ELSE lo..hi

\* Only an address's listings look at roles, and the rest leave them alike.
ListingInit ==
    /\ listing \in Listings
    /\ hi \in 0..MaxRow
    /\ lo \in IF OfContract THEN {1} ELSE 1..(hi + 1)
    /\ role \in [1..MaxRow -> IF OfAddress THEN Roles ELSE {"other"}]
    /\ counted \in {{}} \cup (IF listing = "txs_page" THEN {{n} : n \in 0..Cardinality(Listed)} ELSE {})
    /\ reader = [pc |-> "idle"]

\* Rows of the forward loop, or ids of the contract.
IndexNewer == hi < MaxRow /\ hi' = hi + 1 /\ UNCHANGED <<lo, role, counted, listing, reader>>

\* Rows of the backfill.
IndexOlder == lo > 1 /\ lo <= hi /\ lo' = lo - 1 /\ UNCHANGED <<hi, role, counted, listing, reader>>

\* The statistics are taken again (indexer.rs stats_loop).
Recount ==
    /\ listing = "txs_page"
    /\ counted' = {Cardinality(Listed)}
    /\ UNCHANGED <<lo, hi, role, listing, reader>>

-----------------------------------------------------------------------------
(* The pages.                                                              *)

PageOffset(page) == (page - 1) * PerPage

\* ORDER BY ... DESC LIMIT limit OFFSET offset.
Slice(rows, limit, offset) ==
    LET newest == Descending(rows)
    IN SubSeq(newest, offset + 1, IF Len(newest) < offset + limit THEN Len(newest) ELSE offset + limit)

Page(rows, page) == Slice(rows, PerPage, PageOffset(page))

\* Slip: each walk is cut at a page, not at the page's end.
MergedWalksShort(page) ==
    LET sent == {r \in lo..hi : role[r] \in {"sent", "self"}}
        received == {r \in lo..hi : role[r] = "received"}
    IN Page(ToSet(Slice(sent, PerPage, 0)) \cup ToSet(Slice(received, PerPage, 0)), page)

\* get_address_transactions and get_address_transfers: a walk down each index,
\* cut at the page's end, then merged; a row to itself is read as sent.
MergedWalks(page) ==
    LET cut == PerPage + PageOffset(page)
        sent == {r \in lo..hi : role[r] \in {"sent", "self"}}
        received == {r \in lo..hi : role[r] = "received"}
    IN Page(ToSet(Slice(sent, cut, 0)) \cup ToSet(Slice(received, cut, 0)), page)

\* Slip: a page of blocks begins one too high.
BlocksStartHigh(highest, page) ==
    LET end == IF highest > PageOffset(page) THEN highest - PageOffset(page) ELSE 0
    IN IF end > PerPage THEN end - PerPage + 2 ELSE 1

\* The heights of a page of blocks, from the highest there was.
BlocksEnd(highest, page) == IF highest > PageOffset(page) THEN highest - PageOffset(page) ELSE 0
BlocksStart(highest, page) ==
    IF BlocksEnd(highest, page) > PerPage THEN BlocksEnd(highest, page) - PerPage + 1 ELSE 1

\* get_blocks_in_range.
BlocksPage(highest, page) ==
    Descending({r \in lo..hi : r \in BlocksStart(highest, page)..BlocksEnd(highest, page)})

\* newest_first: the ids of a page of 1..count, none past the end.
NewestFirst(count, page) ==
    IF count <= PageOffset(page) THEN <<>>
    ELSE LET last == count - PageOffset(page)
         IN Descending((IF last > PerPage THEN last - PerPage + 1 ELSE 1)..last)

\* Slip: a single row more is not worth a page.
RunsPastShort(count, page) == page * PerPage + 1 < count

\* Whether a count of rows runs past a page (next_of, and the pager's
\* page < total_pages).
RunsPast(count, page) == page * PerPage < count

\* get_address_transfers: the same walks down the transfers.
AddressTransfers(page) == MergedWalks(page)

\* The versions of a record, whose count is the index of its latest.
Versions(latest, page) == NewestFirst(latest, page)

\* blocks_page: the heights up to the one the page before ended above.
BlocksFrom(from) ==
    Descending({r \in lo..hi : r \in (IF from > PerPage THEN from - PerPage + 1 ELSE 0)..from})

\* block_page: find_block.
FindBlock(height) == IF height \in lo..hi THEN <<height>> ELSE <<>>

-----------------------------------------------------------------------------
(* The reader.                                                             *)

\* The listings whose handler takes a number before it reads the rows.
CountsFirst == {"blocks", "registries", "records", "versions",
                "txs_page", "blocks_page", "address_page", "block_page"}
\* Those whose handler takes one after.
CountsAfter == {"token_page", "block_page"}
\* Those whose link to the next page carries where it begins.
ByCursor == {"blocks_page", "block_page"}

FirstStep == IF listing \in CountsFirst THEN "count" ELSE "read"

Highest == IF lo <= hi THEN hi ELSE 0

Open ==
    /\ reader.pc = "idle"
    /\ reader' = [pc |-> FirstStep, page |-> 1, held |-> 0, items |-> <<>>,
                  lowest |-> 1, was |-> Listed, seen |-> {}, late |-> 0]
    /\ UNCHANGED <<lo, hi, role, counted, listing>>

\* txs_page does not count while there are statistics.
TotalTxs == IF counted = {} THEN Cardinality(Listed) ELSE CHOOSE n \in counted : TRUE

\* The highest block, the contract's count, the address's count.
Count ==
    /\ reader.pc = "count"
    /\ reader' = [reader EXCEPT !.pc = IF listing = "blocks" THEN "lowest" ELSE "read",
                    !.held = CASE listing \in {"blocks"} \cup ByCursor -> Highest
                               [] listing = "txs_page" -> TotalTxs
                               [] OTHER -> Cardinality(Listed)]
    /\ UNCHANGED <<lo, hi, role, counted, listing>>

\* /api/v1 blocks reads its lowest block before the rows, too.
Lowest ==
    /\ reader.pc = "lowest"
    /\ reader' = [reader EXCEPT !.pc = "read", !.lowest = IF lo <= hi THEN lo ELSE 1]
    /\ UNCHANGED <<lo, hi, role, counted, listing>>

ItemsOf(page, held) ==
    CASE listing = "address_transfers" -> AddressTransfers(page)
      [] listing \in {"address_txs", "address_page"} -> MergedWalks(page)
      [] listing = "blocks" -> BlocksPage(held, page)
      [] listing = "blocks_page" -> BlocksFrom(held)
      [] listing = "block_page" -> FindBlock(held)
      [] listing = "records" -> NewestFirst(held, page)
      [] listing = "versions" -> Versions(held, page)
      [] OTHER -> Page(Listed, page)

\* The page is shown; the reader goes on when it offers another.
Shown(r, more) ==
    CASE ~more -> [r EXCEPT !.pc = "end"]
      [] more /\ listing \in ByCursor -> [r EXCEPT !.pc = "read", !.held = Last(r.items) - 1]
      [] OTHER -> [r EXCEPT !.pc = FirstStep, !.page = @ + 1]

\* Whether a page offers another once its rows are read: a full one does
\* (api.rs listing), and so does one that the count taken before runs past; a
\* page of blocks offers older ones if it has any, in /api/v1 if it begins above
\* the lowest block there was.
OffersMore(items) ==
    CASE listing = "blocks_page" -> items # <<>>
      [] listing = "blocks" -> BlocksStart(reader.held, reader.page) > reader.lowest
      [] listing \in CountsFirst \ (ByCursor \cup {"blocks"}) -> RunsPast(reader.held, reader.page)
      [] OTHER -> Len(items) = PerPage

\* The listings whose count may be short of the rows they then read.
CountMayBeShort == {"registries", "txs_page", "address_page"}

\* late: the rows that came in since the count.
Read ==
    /\ reader.pc = "read"
    /\ LET items == ItemsOf(reader.page, reader.held)
           read == [reader EXCEPT
                      !.items = items,
                      !.seen = @ \cup ToSet(items),
                      !.late = IF listing \in CountMayBeShort
                               THEN Cardinality(Listed) - reader.held ELSE 0]
       IN reader' = IF listing \in CountsAfter THEN [read EXCEPT !.pc = "after"]
                    ELSE Shown(read, OffersMore(items))
    /\ UNCHANGED <<lo, hi, role, counted, listing>>

\* A block page links to the block below if it is indexed (blocks_present).
HasPrevious == reader.items # <<>> /\ Last(reader.items) - 1 \in lo..hi

\* A token's count, or a block's neighbours are looked up after the rows are read.
CountAfter ==
    /\ reader.pc = "after"
    /\ LET more == IF listing = "block_page" THEN HasPrevious
                   ELSE RunsPast(Cardinality(Listed), reader.page)
       IN reader' = Shown(reader, more)
    /\ UNCHANGED <<lo, hi, role, counted, listing>>

ListingNext == IndexNewer \/ IndexOlder \/ Recount \/ Open \/ Count \/ Lowest \/ Read \/ CountAfter

ListingSpec == ListingInit /\ [][ListingNext]_listingVars

-----------------------------------------------------------------------------
(* Properties.                                                             *)

\* A reader who goes from page to page never passes over a row that was there
\* when it began, whatever comes in at either end meanwhile: rows that come in
\* move the rest down the pages, and at worst are read twice.
NothingPassedOver ==
    reader.pc # "idle" =>
        \A row \in reader.was, read \in reader.seen : read < row => row \in reader.seen

\* At the end it has read every row that was there when it began.  Where the
\* count is taken before the rows (web.rs address_page and txs_page, whose count
\* is the statistics', api.rs registries), it may miss as many of the oldest as
\* came in between the two.
MissesOnlyTheLate ==
    reader.pc = "end" => Cardinality(reader.was \ reader.seen) <= reader.late

\* A page of an address's transactions is the page of all of them, sent and
\* received, each once, though neither walk is read to its end (db.rs
\* get_address_transactions).
PagesAreSlices ==
    [][(reader.pc = "read" /\ reader' # reader /\ OfAddress) =>
          reader'.items = Page(Listed, reader.page)]_listingVars
=============================================================================
