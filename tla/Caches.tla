------------------------------- MODULE Caches -------------------------------
(***************************************************************************)
(* The caches behind the pages: call traces and address labels (web.rs)    *)
(* and the names of selectors (signatures.rs).  They have one shape: look  *)
(* under the lock, let go of it to ask a source, lock again and store; full, *)
(* they start over.  They differ in what they store of a failure, in       *)
(* whether entries age, and in when an entry is stamped.  Several page      *)
(* views use a cache at once.                                               *)
(*                                                                          *)
(* A behaviour is about one of the three, cache.  A key is a transaction, an *)
(* address or a selector, and its value is "own", what the source has for   *)
(* it, or "none".                                                           *)
(***************************************************************************)
EXTENDS Naturals, FiniteSets, FiniteSetsExt

CONSTANTS
    Keys,
    Views,              \* the page views under way at once
    MaxHeld,            \* entries held before a cache starts over
    MaxLookup,          \* selectors to a request
    Ttl,                \* how long an entry is reused
    MaxNow              \* how long a run looks on

ASSUME CachesAssumption ==
    /\ MaxHeld \in Nat \ {0} /\ MaxLookup \in Nat \ {0}
    /\ Ttl \in Nat \ {0} /\ MaxNow \in Nat

VARIABLES
    cache,              \* which cache this is about
    held,               \* its entries: a value and when it was asked for
    unavailable,        \* TRACING_UNAVAILABLE
    source,             \* since when the source has each key; Never
    now,
    views

cacheVars == <<cache, held, unavailable, source, now, views>>

Kinds == {"traces", "labels", "signatures"}
Never == MaxNow + 1
Has(k) == source[k] <= now

Idle == [pc |-> "idle", want |-> {}, at |-> 0, got |-> <<>>, shown |-> <<>>, since |-> {}]

CachesInit ==
    /\ cache \in Kinds
    /\ held = <<>>
    /\ unavailable = FALSE
    /\ source \in [Keys -> {0, Never}]
    /\ now = 0
    /\ views = [v \in Views |-> Idle]

\* A token is indexed.  What the node can trace and what the directory knows
\* stay as they are.
Learn(k) ==
    /\ cache = "labels"
    /\ source[k] = Never
    /\ source' = [source EXCEPT ![k] = now]
    /\ UNCHANGED <<cache, held, unavailable, now, views>>

\* A source takes its time. From a label read to its stamp there is only a lock
\* to take, no time to speak of.
Tick ==
    /\ now < MaxNow
    /\ cache = "labels" => \A v \in Views : views[v].pc # "store"
    /\ now' = now + 1
    /\ UNCHANGED <<cache, held, unavailable, source, views>>

\* Slip: an entry is good for one moment longer.
FreshLong(k) == k \in DOMAIN held /\ (cache = "traces" \/ now - held[k].asked <= Ttl)

\* Traces do not age; a label is reused while less than its time has passed, a
\* name until more has.
Fresh(k) ==
    /\ k \in DOMAIN held
    /\ cache = "labels" => now - held[k].asked < Ttl
    /\ cache = "signatures" => held[k].asked + Ttl >= now

\* Slip: a view asks for all it wants, cached or not.
MissingAll(wanted) == {wanted}

\* The keys a view asks for: those not fresh, no more than a request takes.
Missing(wanted) ==
    LET stale == {k \in wanted : ~Fresh(k)}
    IN IF Cardinality(stale) <= MaxLookup THEN {stale} ELSE kSubset(MaxLookup, stale)

\* A page of calls wants several names, the others one thing each.
Wants == IF cache = "signatures" THEN (SUBSET Keys) \ {{}} ELSE {{k} : k \in Keys}

\* The look under the lock.  A node that cannot trace is not asked.
Look(v) ==
    /\ views[v].pc = "idle"
    /\ \E wanted \in Wants : \E missing \in Missing(wanted) :
          LET fresh == {k \in wanted : Fresh(k)}
              asks == missing # {} /\ ~(cache = "traces" /\ unavailable)
          IN views' = [views EXCEPT ![v] =
               [Idle EXCEPT !.pc = IF asks THEN "ask" ELSE "done",
                            !.want = missing, !.at = now,
                            !.shown = [k \in fresh |-> held[k].value]]]
    /\ UNCHANGED <<cache, held, unavailable, source, now>>

\* What the source gives for what was asked.  The directory is a stranger: a name
\* that does not hash to the selector it was given for is no name.
Given(keys) == {k \in keys : Has(k)}

\* The source answers.
Answer(v) ==
    /\ views[v].pc = "ask"
    /\ views' = [views EXCEPT ![v].pc = "store",
                             ![v].got = [k \in Given(views[v].want) |-> "own"]]
    /\ UNCHANGED <<cache, held, unavailable, source, now>>

\* The directory cannot be reached: nothing is known of any name.
Unreachable(v) ==
    /\ cache = "signatures"
    /\ views[v].pc = "ask"
    /\ views' = [views EXCEPT ![v].pc = "store"]
    /\ UNCHANGED <<cache, held, unavailable, source, now>>

\* The node refuses or fails to trace, or takes too long: nothing is stored.  An
\* error that reads like that of a method it does not have turns tracing off.
TraceFails(v) ==
    /\ cache = "traces"
    /\ views[v].pc = "ask"
    /\ \E unsupported \in BOOLEAN : unavailable' = (unavailable \/ unsupported)
    /\ views' = [views EXCEPT ![v].pc = "done"]
    /\ UNCHANGED <<cache, held, source, now>>

\* What is stored of an answer: a trace only when there is one, a label or a
\* name or that there is none.
Stored(v) == IF cache = "traces" THEN DOMAIN views[v].got ELSE views[v].want

\* What is kept of a cache about to grow: a full one starts over.
Kept == IF Cardinality(DOMAIN held) >= MaxHeld THEN {} ELSE DOMAIN held

\* A name is stamped with the time of the look, a label with that of the store.
Store(v) ==
    /\ views[v].pc = "store"
    /\ LET got == views[v].got
           Entry(k) == [value |-> IF k \in DOMAIN got THEN got[k] ELSE "none",
                        asked |-> CASE cache = "traces" -> 0
                                    [] cache = "labels" -> now
                                    [] cache = "signatures" -> views[v].at]
       IN /\ held' = IF Stored(v) = {} THEN held
                     ELSE [k \in Kept \cup Stored(v) |-> IF k \in Stored(v) THEN Entry(k) ELSE held[k]]
          /\ views' = [w \in Views |->
                IF w = v THEN [views[v] EXCEPT !.pc = "done", !.got = <<>>, !.since = {},
                                 !.shown = [k \in DOMAIN @ \cup DOMAIN got |->
                                              IF k \in DOMAIN got THEN got[k] ELSE @[k]]]
                ELSE IF views[w].pc \in {"ask", "store"}
                THEN [views[w] EXCEPT !.since = @ \cup (DOMAIN got \cap views[w].want)]
                ELSE views[w]]
    /\ UNCHANGED <<cache, unavailable, source, now>>

\* The page is shown and its view is over.
Close(v) ==
    /\ views[v].pc = "done"
    /\ views' = [views EXCEPT ![v] = Idle]
    /\ UNCHANGED <<cache, held, unavailable, source, now>>

Step(v) ==
    Look(v) \/ Answer(v) \/ Unreachable(v) \/ TraceFails(v) \/ Store(v) \/ Close(v)

CachesNext == Tick \/ (\E k \in Keys : Learn(k)) \/ (\E v \in Views : Step(v))

CachesSpec == CachesInit /\ [][CachesNext]_cacheVars

-----------------------------------------------------------------------------
(* Properties.                                                             *)

\* web.rs LABEL_TTL: "a token indexed after its first look is tagged within
\* this", though a view that looked before it was indexed may store after one
\* that looked later.
TaggedInTime ==
    cache = "labels" =>
        \A v \in Views : \A k \in Keys :
            (/\ views[v].pc = "done"
             /\ k \in DOMAIN views[v].shown \cup views[v].want
             /\ source[k] + Ttl <= views[v].at)
            => k \in DOMAIN views[v].shown /\ views[v].shown[k] = "own"

\* A name or label that is fresh gives way to none only when a view stores what
\* it asked before that name was stored; a view that could see it never takes it
\* back (signatures.rs resolve, web.rs cached_label).
OnlyOlderLooksForget ==
    [][\A k \in DOMAIN held \cap DOMAIN held' :
          (Fresh(k) /\ held[k].value = "own" /\ held'[k].value = "none") =>
              \E v \in Views : views[v].pc = "store" /\ views'[v].pc = "done" /\ k \in views[v].since]_cacheVars
=============================================================================
