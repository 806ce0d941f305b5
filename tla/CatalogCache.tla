---------------------------- MODULE CatalogCache -----------------------------
(***************************************************************************)
(* The answers that CatalogService keeps in Redis, beside the tables.      *)
(*                                                                         *)
(* A reader looks a key up, asks the database when it is not there, and    *)
(* sets the key; the variants of a product take it two queries.  No writer *)
(* ever deletes a key: an answer goes when its time to live is over.       *)
(***************************************************************************)
EXTENDS Catalog

CONSTANTS
    Kinds,         \* which of the answers "list", "product", "variants" are read
    Readers        \* catalog handlers in flight

ASSUME KindsAssumption == Kinds \subseteq {"list", "product", "variants"}

VARIABLES
    cache,         \* cache[k]: the answer under key k, or None
    read           \* read[r]: what reader r is doing

cacheVars == <<cache, read>>
------------------------------------------------------------------------------
Keys == Kinds \X Products
Idle == [step |-> "idle"]
Reading == {Idle} \cup [step : {"query", "found"}, key : Keys] \cup
           [step : {"set"}, key : Keys, answer : Answers]

CacheInit ==
    /\ cache = [k \in Keys |-> None]
    /\ read = [r \in Readers |-> Idle]
------------------------------------------------------------------------------
(* CatalogService and CacheService                                         *)

Goto(r, rec) == read' = [read EXCEPT ![r] = rec]

\* The key is not there, or Redis does not answer.
Lookup(r, k) ==
    /\ read[r] = Idle
    /\ Goto(r, [step |-> "query", key |-> k])
    /\ UNCHANGED cache

\* findProductVariants first looks whether the product is in the catalog.
FindProduct(r) ==
    /\ read[r].step = "query"
    /\ read[r].key[1] = "variants"
    /\ Goto(r, IF Listed(read[r].key[2]) THEN [read[r] EXCEPT !.step = "found"] ELSE Idle)
    /\ UNCHANGED cache

\* Wrong on purpose (mutation): a product that is not found is cached too.
QueryWithout404(r) ==
    /\ read[r] # Idle
    /\ read[r].step = IF read[r].key[1] = "variants" THEN "found" ELSE "query"
    /\ Goto(r, [step |-> "set", key |-> read[r].key, answer |-> Answer(read[r].key[2])])
    /\ UNCHANGED cache

\* What is not in the catalog is answered 404 and not cached, except that a
\* list without it is a list.
Query(r) ==
    /\ read[r] # Idle
    /\ LET k == read[r].key
           a == Answer(k[2])
           reply(ans) == [step |-> "set", key |-> k, answer |-> ans] IN
       \/ /\ k[1] = "list" /\ read[r].step = "query"
          /\ Goto(r, reply(a))
       \/ /\ k[1] = "product" /\ read[r].step = "query"
          /\ Goto(r, IF a.listed THEN reply(a) ELSE Idle)
       \/ /\ read[r].step = "found"
          /\ Goto(r, reply([a EXCEPT !.listed = TRUE]))
    /\ UNCHANGED cache

\* SET with a time to live; an error is only logged.
SetCache(r) ==
    /\ read[r].step = "set"
    /\ cache' \in {cache, [cache EXCEPT ![read[r].key] = read[r].answer]}
    /\ Goto(r, Idle)

\* Wrong on purpose (mutation): SET without EX.
NeverExpireKey(k) ==
    /\ cache[k] # None
    /\ read = [r \in Readers |-> Idle]
    /\ UNCHANGED cacheVars

ExpireKey(k) ==
    /\ cache[k] # None
    /\ cache' = [cache EXCEPT ![k] = None]
    /\ UNCHANGED read

Reads(r) == (\E k \in Keys : Lookup(r, k)) \/ FindProduct(r) \/ Query(r) \/ SetCache(r)

CatalogRuns == (\E r \in Readers : Reads(r)) \/ (\E k \in Keys : ExpireKey(k))
------------------------------------------------------------------------------
CacheTypeOK ==
    /\ cache \in [Keys -> Answers \cup {None}]
    /\ read \in [Readers -> Reading]

\* An answer in the cache is late, never invented: it is of the state of the
\* tables now or earlier, and only a product that was in the catalog when it
\* was asked for gets a key of its own (CatalogService).
CacheIsPast ==
    \A k \in Keys : cache[k] # None =>
        /\ cache[k].edits <= product[k[2]].edits
        /\ cache[k].listed => Exists(k[2])
        /\ k[1] = "list" \/ cache[k].listed

\* A product that was deleted leaves the catalog that customers are shown, at
\* the latest when its keys expire, and does not come back (CatalogService).
DeletedLeaves ==
    \A k \in Keys : product[k[2]].state = "deleted" ~> [](cache[k] = None \/ ~cache[k].listed)
==============================================================================
