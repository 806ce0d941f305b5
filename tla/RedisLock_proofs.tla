--------------------------- MODULE RedisLock_proofs --------------------------
(***************************************************************************)
(* What Redis keeps for a time: mutual exclusion of RedisLock, for every   *)
(* set of clients and resources, and the answers of CatalogCache, for      *)
(* every set of products, variants and readers; and what the back office,  *)
(* which writes the same catalog tables, keeps in its query cache.         *)
(*                                                                         *)
(* MutualExclusion is not inductive: a client inside without its name      *)
(* under the key would let another one in.  Holders says it is there.      *)
(* Neither is CacheIsPast: ReadsPast says the same of what a reader holds  *)
(* before it sets the key.                                                 *)
(***************************************************************************)
EXTENDS RedisServices, BackOffice, TLAPS

Holders ==
    \A c \in Clients, k \in Resources \ Overruns : Inside(c, k) => lock[k] = c

IInv == LockTypeOK /\ Holders

LEMMA LockInit == Init => IInv
BY DEF Init, IInv, LockTypeOK, Holders, Stage, Outside, Inside

LEMMA LockStep == IInv /\ [Next]_lockVars => IInv'
<1> SUFFICES ASSUME IInv, [Next]_lockVars PROVE IInv'
    OBVIOUS
<1> USE FreeAssumption DEF IInv, LockTypeOK, Holders, Stage, Outside, Inside, MoveTo
<1>1. ASSUME NEW c \in Clients, NEW k \in Resources, Acquire(c, k) PROVE IInv'
    BY <1>1 DEF Acquire
<1>2. ASSUME NEW c \in Clients, NEW k \in Resources, AcquireUnseen(c, k) PROVE IInv'
    BY <1>2 DEF AcquireUnseen
<1>3. ASSUME NEW c \in Clients, NEW k \in Resources, ReleaseGet(c, k) PROVE IInv'
    BY <1>3 DEF ReleaseGet
<1>4. ASSUME NEW c \in Clients, NEW k \in Resources, ReleaseDel(c, k) PROVE IInv'
    BY <1>4 DEF ReleaseDel
<1>5. ASSUME NEW c \in Clients, Leave(c) PROVE IInv'
    BY <1>5 DEF Leave
<1>6. ASSUME NEW k \in Resources, Expire(k) PROVE IInv'
    BY <1>6 DEF Expire
<1>7. CASE UNCHANGED lockVars
    BY <1>7 DEF lockVars
<1> QED
    BY <1>1, <1>2, <1>3, <1>4, <1>5, <1>6, <1>7 DEF Next

LEMMA HoldersExclude == IInv => MutualExclusion
BY DEF IInv, Holders, MutualExclusion

\* Every reachable state of the lock is well typed, with any number of
\* clients (acquire and release of RedisLockService).
THEOREM LockTypeCorrect == Spec => []LockTypeOK
<1>1. IInv => LockTypeOK
    BY DEF IInv
<1> QED
    BY LockInit, LockStep, <1>1, PTL DEF Spec

\* Two handlers are never between acquire and release of a resource whose
\* holders do not outlive their lease.
THEOREM LockExcludes == Spec => []MutualExclusion
BY LockInit, LockStep, HoldersExclude, PTL DEF Spec
------------------------------------------------------------------------------
(***************************************************************************)
(* The locks and the cache side by side.                                   *)
(***************************************************************************)

\* An answer is not ahead of its product, and what has a key of its own was
\* in the catalog.
Past(k, a) ==
    /\ a.edits <= product[k[2]].edits
    /\ a.listed => Exists(k[2])
    /\ k[1] = "list" \/ a.listed

\* What a reader is about to set is as old as what is set, and a reader of
\* variants has found their product.
ReadsPast ==
    \A r \in Readers :
        /\ read[r].step = "set" => Past(read[r].key, read[r].answer)
        /\ read[r].step = "found" => read[r].key[1] = "variants" /\ Exists(read[r].key[2])

CInv == CatalogTypeOK /\ CacheTypeOK /\ CacheIsPast /\ ReadsPast

\* Tables that only grow older keep every answer in the past.
LEMMA Ageing ==
    ASSUME CInv, CatalogTypeOK', UNCHANGED cacheVars,
           \A p \in Products : /\ product[p].edits <= product'[p].edits
                               /\ Exists(p) => Exists(p)'
    PROVE  CInv'
<1>1. CacheTypeOK'
    BY DEF CInv, CacheTypeOK, cacheVars
<1>2. \A k \in Keys : product[k[2]].edits \in Nat /\ product'[k[2]].edits \in Nat
    BY CatalogAssumption DEF CInv, CatalogTypeOK, Keys
<1>3. ASSUME NEW k \in Keys, NEW a \in Answers, Past(k, a) PROVE Past(k, a)'
    <2>1. k[2] \in Products /\ a.edits \in Nat
        BY CatalogAssumption DEF Keys, Answers
    <2> QED
        BY <1>2, <1>3, <2>1 DEF Past
<1>4. CacheIsPast'
    BY <1>3 DEF CInv, CacheTypeOK, CacheIsPast, Past, cacheVars
<1>5. ReadsPast'
    <2>1. ASSUME NEW r \in Readers, read[r].step = "set"
          PROVE  read[r].key \in Keys /\ read[r].answer \in Answers
        BY <2>1 DEF CInv, CacheTypeOK, Reading, Idle
    <2>2. ASSUME NEW r \in Readers, read[r].step = "found"
          PROVE  read[r].key \in Keys
        BY <2>2 DEF CInv, CacheTypeOK, Reading, Idle
    <2> QED
        BY <1>3, <2>1, <2>2 DEF CInv, ReadsPast, Keys, cacheVars
<1> QED
    BY <1>1, <1>4, <1>5 DEF CInv

\* A write ages its product, and none is unmade.
LEMMA Writes ==
    ASSUME CatalogTypeOK, NEW p, NEW state, Write(p, state),
           p \in Products => state \in States /\ (Exists(p) => state # "none")
    PROVE  /\ product' \in [Products -> [state : States, edits : 0..MaxEdits]]
           /\ \A q \in Products : /\ product[q].edits <= product'[q].edits
                                  /\ Exists(q) => Exists(q)'
<1> USE CatalogAssumption DEF Write, CatalogTypeOK, Exists
<1>1. CASE p \notin Products
    <2>1. PICK rec : product' = [product EXCEPT ![p] = rec]
        OBVIOUS
    <2>2. product' = product
        BY <1>1, <2>1
    <2>3. \A q \in Products : product[q].edits <= product[q].edits
        OBVIOUS
    <2>4. \A q \in Products : Exists(q) => Exists(q)'
        BY <2>2
    <2> QED
        BY <2>2, <2>3, <2>4
<1>2. CASE p \in Products
    <2> DEFINE rec == [state |-> state, edits |-> product[p].edits + 1]
    <2>1. /\ product[p] \in [state : States, edits : 0..MaxEdits]
          /\ product' = [product EXCEPT ![p] = rec]
        BY <1>2
    <2>2. /\ rec \in [state : States, edits : 0..MaxEdits] /\ rec.state = state
          /\ product[p].edits <= rec.edits
        BY <1>2, <2>1
    <2> HIDE DEF rec
    <2> QED
        BY <1>2, <2>1, <2>2
<1> QED
    BY <1>1, <1>2

LEMMA EditsAge ==
    ASSUME CatalogTypeOK, AdminWrites
    PROVE  /\ CatalogTypeOK'
           /\ \A p \in Products : /\ product[p].edits <= product'[p].edits
                                  /\ Exists(p) => Exists(p)'
<1>s. \A p \in Products : product[p].state \in States
    BY DEF CatalogTypeOK
<1>1. ASSUME NEW p \in Products, CreateProduct(p) \/ UpdateProduct(p) \/ DeleteProduct(p)
      PROVE  /\ CatalogTypeOK'
             /\ \A q \in Products : /\ product[q].edits <= product'[q].edits
                                    /\ Exists(q) => Exists(q)'
    <2>1. PICK state : /\ Write(p, state) /\ state \in States
                       /\ Exists(p) => state # "none"
        BY <1>1, <1>s DEF CreateProduct, UpdateProduct, DeleteProduct, States, Exists
    <2>2. UNCHANGED <<variantOf, stocked, referred>>
        BY <1>1 DEF CreateProduct, UpdateProduct, DeleteProduct
    <2> QED
        BY <2>1, <2>2, Writes DEF CatalogTypeOK
<1>2. ASSUME NEW p \in Products, NEW v \in Variants, CreateVariant(p, v)
      PROVE  /\ CatalogTypeOK'
             /\ \A q \in Products : /\ product[q].edits <= product'[q].edits
                                    /\ Exists(q) => Exists(q)'
    BY <1>2, <1>s, Writes DEF CreateVariant, CatalogTypeOK, Exists
<1>3. ASSUME NEW v \in Variants, UpdateVariant(v) \/ UpdateInventory(v) \/ DeleteVariant(v)
      PROVE  /\ CatalogTypeOK'
             /\ \A q \in Products : /\ product[q].edits <= product'[q].edits
                                    /\ Exists(q) => Exists(q)'
    <2>1. PICK p : p = variantOf[v]
        OBVIOUS
    <2>2. Write(p, product[p].state)
        BY <1>3, <2>1 DEF UpdateVariant, UpdateInventory, DeleteVariant
    <2>3. /\ variantOf' \in [Variants -> Products \cup {None}]
          /\ stocked' \subseteq Variants /\ referred' \subseteq Variants
        BY <1>3 DEF UpdateVariant, UpdateInventory, DeleteVariant, CatalogTypeOK
    <2> QED
        BY <1>s, <2>2, <2>3, Writes DEF CatalogTypeOK, Exists
<1> QED
    BY <1>1, <1>2, <1>3 DEF AdminWrites

LEMMA CatalogStart == CatalogInit /\ CacheInit => CInv
<1> SUFFICES ASSUME CatalogInit, CacheInit PROVE CInv
    OBVIOUS
<1>1. CatalogTypeOK
    BY CatalogAssumption DEF CatalogInit, CatalogTypeOK
<1>2. CacheTypeOK /\ CacheIsPast /\ ReadsPast
    BY DEF CacheInit, CacheTypeOK, CacheIsPast, ReadsPast, Reading, Idle
<1> QED
    BY <1>1, <1>2 DEF CInv

LEMMA ReaderStep ==
    ASSUME CInv, CatalogRuns, UNCHANGED tableVars
    PROVE  CInv'
<1> USE DEF tableVars, Goto
<1>i. CatalogTypeOK /\ CacheTypeOK
    BY DEF CInv
<1>u. /\ CatalogTypeOK'
      /\ \A k, a : Past(k, a)' <=> Past(k, a)
      /\ \A p : Exists(p)' <=> Exists(p)
    BY <1>i DEF CatalogTypeOK, Past, Exists
<1>1. ASSUME NEW r \in Readers, NEW rec \in Reading, read' = [read EXCEPT ![r] = rec],
             UNCHANGED cache,
             rec.step = "set" => Past(rec.key, rec.answer),
             rec.step = "found" => rec.key[1] = "variants" /\ Exists(rec.key[2])
      PROVE  CInv'
    BY <1>1, <1>i, <1>u DEF CInv, CacheTypeOK, CacheIsPast, ReadsPast, Past
<1>2. ASSUME NEW r \in Readers, NEW k \in Keys, Lookup(r, k) PROVE CInv'
    <2>1. [step |-> "query", key |-> k] \in Reading
        BY DEF Reading
    <2> QED
        BY <1>1, <1>2, <2>1 DEF Lookup
<1>3. ASSUME NEW r \in Readers, FindProduct(r) PROVE CInv'
    <2>1. read[r].key \in Keys /\ read[r] \in [step : {"query", "found"}, key : Keys]
        BY <1>3, <1>i DEF FindProduct, CacheTypeOK, Reading, Idle
    <2>2. Idle \in Reading /\ Idle.step = "idle"
        BY DEF Reading, Idle
    <2>3. CASE ~Listed(read[r].key[2])
        BY <1>1, <1>3, <2>2, <2>3 DEF FindProduct
    <2>4. CASE Listed(read[r].key[2])
        <3> DEFINE rec == [read[r] EXCEPT !.step = "found"]
        <3>1. rec \in Reading /\ rec.step = "found" /\ rec.key = read[r].key
            BY <2>1 DEF Reading
        <3>2. rec.key[1] = "variants" /\ Exists(rec.key[2])
            BY <1>3, <2>4, <3>1 DEF FindProduct, Listed, Exists
        <3>3. read' = [read EXCEPT ![r] = rec] /\ UNCHANGED cache
            BY <1>3, <2>4 DEF FindProduct
        <3> HIDE DEF rec
        <3> QED
            BY <1>1, <3>1, <3>2, <3>3
    <2> QED
        BY <2>3, <2>4
<1>4. ASSUME NEW r \in Readers, Query(r) PROVE CInv'
    <2>1. PICK k : k = read[r].key
        OBVIOUS
    <2>2. k \in Keys /\ k[2] \in Products
        BY <1>4, <1>i, <2>1 DEF Query, CacheTypeOK, Reading, Idle, Keys
    <2>3. PICK a : a = Answer(k[2])
        OBVIOUS
    <2>4. /\ a \in Answers /\ a.listed = Listed(k[2]) /\ a.edits = product[k[2]].edits
          /\ Listed(k[2]) => Exists(k[2])
        BY <1>i, <2>2, <2>3 DEF Answer, Answers, CatalogTypeOK, Listed, Exists, VariantsOf
    <2>5. Idle \in Reading /\ Idle.step = "idle"
        BY DEF Reading, Idle
    <2>6. ASSUME NEW b \in Answers, Past(k, b),
                 read' = [read EXCEPT ![r] = [step |-> "set", key |-> k, answer |-> b]],
                 UNCHANGED cache
          PROVE  CInv'
        <3>1. [step |-> "set", key |-> k, answer |-> b] \in Reading
            BY <2>2 DEF Reading
        <3> QED
            BY <1>1, <2>6, <3>1
    <2>7. CASE k[1] = "list" /\ read[r].step = "query"
        <3>1. Past(k, a)
            BY <1>i, <2>2, <2>4, <2>7, CatalogAssumption DEF Past, CatalogTypeOK
        <3> QED
            BY <1>4, <2>1, <2>3, <2>4, <2>6, <2>7, <3>1 DEF Query
    <2>8. CASE k[1] = "product" /\ read[r].step = "query"
        <3>1. a.listed => Past(k, a)
            BY <1>i, <2>2, <2>4, CatalogAssumption DEF Past, CatalogTypeOK
        <3>2. CASE a.listed
            BY <1>4, <2>1, <2>3, <2>4, <2>6, <2>8, <3>1, <3>2 DEF Query
        <3>3. CASE ~a.listed
            BY <1>1, <1>4, <2>1, <2>3, <2>5, <2>8, <3>3 DEF Query
        <3> QED
            BY <3>2, <3>3
    <2>9. CASE read[r].step = "found"
        <3> DEFINE b == [a EXCEPT !.listed = TRUE]
        <3>1. b \in Answers /\ b.listed /\ b.edits = a.edits
            BY <2>4 DEF Answers
        <3>2. Exists(k[2])
            BY <2>1, <2>9 DEF CInv, ReadsPast
        <3>3. Past(k, b)
            BY <1>i, <2>2, <2>4, <3>1, <3>2, CatalogAssumption DEF Past, CatalogTypeOK
        <3>4. /\ read' = [read EXCEPT ![r] = [step |-> "set", key |-> k, answer |-> b]]
              /\ UNCHANGED cache
            BY <1>4, <2>1, <2>3, <2>9 DEF Query
        <3> HIDE DEF b
        <3> QED
            BY <2>6, <3>1, <3>3, <3>4
    <2> QED
        BY <1>4, <2>1, <2>7, <2>8, <2>9 DEF Query
<1>5. ASSUME NEW r \in Readers, SetCache(r) PROVE CInv'
    <2>1. PICK k, a : k = read[r].key /\ a = read[r].answer
        OBVIOUS
    <2>2. k \in Keys /\ a \in Answers /\ Past(k, a)
        BY <1>5, <1>i, <2>1 DEF SetCache, CacheTypeOK, Reading, Idle, CInv, ReadsPast
    <2>3. cache' = cache \/ cache' = [cache EXCEPT ![k] = a]
        BY <1>5, <2>1 DEF SetCache
    <2>4. cache' \in [Keys -> Answers \cup {None}] /\ CacheIsPast'
        BY <1>i, <1>u, <2>2, <2>3 DEF CacheTypeOK, CInv, CacheIsPast, Past
    <2>5. read' = [read EXCEPT ![r] = Idle] /\ Idle \in Reading /\ Idle.step = "idle"
        BY <1>5 DEF SetCache, Reading, Idle
    <2>6. ReadsPast'
        BY <1>i, <1>u, <2>5 DEF CacheTypeOK, CInv, ReadsPast
    <2> QED
        BY <1>i, <1>u, <2>4, <2>5, <2>6 DEF CInv, CacheTypeOK
<1>6. ASSUME NEW k \in Keys, ExpireKey(k) PROVE CInv'
    BY <1>6, <1>i, <1>u DEF ExpireKey, CInv, CacheTypeOK, CacheIsPast, ReadsPast, Past
<1> QED
    BY <1>2, <1>3, <1>4, <1>5, <1>6 DEF CatalogRuns, Reads

LEMMA RedisInvariant == RedisSpec => [](IInv /\ CInv)
<1>1. RedisInit => IInv /\ CInv
    BY LockInit, CatalogStart DEF RedisInit
<1>2. IInv /\ CInv /\ [RedisNext]_redisVars => (IInv /\ CInv)'
    <2> SUFFICES ASSUME IInv, CInv, [RedisNext]_redisVars PROVE IInv' /\ CInv'
        OBVIOUS
    <2>1. [Next]_lockVars
        BY DEF RedisNext, redisVars, lockVars
    <2>2. IInv'
        BY <2>1, LockStep
    <2>3. CASE UNCHANGED <<tableVars, cacheVars>>
        BY <2>2, <2>3 DEF tableVars, cacheVars, CInv, CatalogTypeOK, CacheTypeOK, CacheIsPast,
           ReadsPast, Past, Exists
    <2>4. CASE CatalogRuns /\ UNCHANGED tableVars
        BY <2>2, <2>4, ReaderStep
    <2>5. CASE AdminWrites /\ UNCHANGED cacheVars
        BY <2>2, <2>5, EditsAge, Ageing DEF CInv
    <2>6. ASSUME NEW v \in Variants, Refer(v), UNCHANGED cacheVars PROVE CInv'
        <3>1. CatalogTypeOK' /\ UNCHANGED product
            BY <2>6 DEF Refer, CInv, CatalogTypeOK
        <3> QED
            BY <2>6, <3>1, Ageing DEF CInv, CatalogTypeOK, Exists
    <2> QED
        BY <2>2, <2>3, <2>4, <2>5, <2>6 DEF RedisNext, redisVars
<1> QED
    BY <1>1, <1>2, PTL DEF RedisSpec

\* Beside a busy catalog too, two handlers are never between acquire and
\* release of a resource whose holders do not outlive their lease.
THEOREM LockExcludesBesideCache == RedisSpec => []MutualExclusion
BY RedisInvariant, HoldersExclude, PTL

\* For any number of products, readers and admins, and whatever Redis drops or
\* loses: what a customer is shown from the cache was so, and has a key of its
\* own only if it was in the catalog (CatalogService).
THEOREM CacheShowsThePast == RedisSpec => []CacheIsPast
<1>1. CInv => CacheIsPast
    BY DEF CInv
<1> QED
    BY <1>1, RedisInvariant, PTL
------------------------------------------------------------------------------
(***************************************************************************)
(* The back office over the same tables.                                   *)
(*                                                                         *)
(* A save is shown because its page asks again from the moment the save is *)
(* acknowledged, and what is answered from then on holds it: products are  *)
(* never unmade and their edits only grow.                                 *)
(***************************************************************************)

\* The page on the screen was rendered, or the error page is there instead.
ThrownIsBroken == Throws(tab, shown) => broken

\* A dialog is open on a page that shows an answer.
DialogHasPage == dialog # None => tab \in Views

VariantsHaveProduct == \A v \in Variants : variantOf[v] # None => Exists(variantOf[v])

\* A save that was performed is in its product's row ...
SaveIsStored ==
    save # Nothing /\ save.step = "done" =>
        Exists(save.p) /\ save.after <= product[save.p].edits

\* ... and one that was acknowledged in every answer that the page may be given
\* from then on, in the one that it was given, and on a page that is not stale.
Covers(k) ==
    LET p == acked.p IN
    /\ p \in Products
    /\ IF k.at = "edit" THEN p = k.p ELSE Exists(p)
    /\ product[p].edits >= acked.edits
Holds(a) == acked.p \in DOMAIN a /\ a[acked.p].edits >= acked.edits

AckIsKept ==
    LET k == acked.view IN k # None =>
        /\ Covers(k)
        /\ asking[k].step = "answered" => Holds(asking[k].data)
        /\ k \notin stale => Holds(shown[k])

PInv ==
    /\ TypeOK /\ ThrownIsBroken /\ DialogHasPage
    /\ VariantsHaveProduct /\ SaveIsStored /\ AckIsKept

\* Admins, this one or others, write the tables.
LEMMA WritesKeep ==
    ASSUME PInv, AdminWrites
    PROVE  /\ CatalogTypeOK' /\ VariantsHaveProduct'
           /\ \A p \in Products : /\ product[p].edits \in Nat /\ product'[p].edits \in Nat
                                  /\ product[p].edits <= product'[p].edits
                                  /\ Exists(p) => Exists(p)'
<1>1. /\ CatalogTypeOK /\ CatalogTypeOK'
      /\ \A p \in Products : /\ product[p].edits <= product'[p].edits
                             /\ Exists(p) => Exists(p)'
    BY EditsAge DEF PInv, TypeOK
<1>2. \A p \in Products : product[p].edits \in Nat /\ product'[p].edits \in Nat
    <2>1. \A p \in Products : product[p].edits \in 0..MaxEdits
        BY <1>1 DEF CatalogTypeOK
    <2>2. \A p \in Products : product'[p].edits \in 0..MaxEdits
        BY <1>1 DEF CatalogTypeOK
    <2> QED
        BY <2>1, <2>2, CatalogAssumption
<1>3. variantOf \in [Variants -> Products \cup {None}]
    BY <1>1 DEF CatalogTypeOK
<1>4. ASSUME UNCHANGED variantOf PROVE VariantsHaveProduct'
    BY <1>1, <1>3, <1>4 DEF PInv, VariantsHaveProduct, Exists
<1>5. ASSUME NEW p \in Products, NEW v \in Variants, CreateVariant(p, v)
      PROVE  VariantsHaveProduct'
    <2>1. Exists(p)' /\ variantOf' = [variantOf EXCEPT ![v] = p]
        BY <1>1, <1>5 DEF CreateVariant
    <2> QED
        BY <1>1, <1>3, <2>1 DEF PInv, VariantsHaveProduct, Exists
<1>6. ASSUME NEW v \in Variants, DeleteVariant(v) PROVE VariantsHaveProduct'
    BY <1>1, <1>3, <1>6 DEF PInv, VariantsHaveProduct, DeleteVariant, Exists
<1>7. VariantsHaveProduct'
    BY <1>4, <1>5, <1>6 DEF AdminWrites, CreateProduct, UpdateProduct, DeleteProduct,
       UpdateVariant, UpdateInventory
<1> QED
    BY <1>1, <1>2, <1>7

\* What a page is covered by does not grow out of it.
LEMMA CoversStays ==
    ASSUME PInv, acked' = acked, acked.view # None,
           \A p \in Products : /\ product[p].edits \in Nat /\ product'[p].edits \in Nat
                               /\ product[p].edits <= product'[p].edits
                               /\ Exists(p) => Exists(p)'
    PROVE  Covers(acked.view)'
<1>1. acked.edits \in Nat
    BY CatalogAssumption DEF PInv, TypeOK
<1>2. PICK p \in Products : /\ p = acked.p
                            /\ IF acked.view.at = "edit" THEN p = acked.view.p ELSE Exists(p)
                            /\ product[p].edits >= acked.edits
    BY DEF PInv, AckIsKept, Covers
<1>3. product'[p].edits >= acked.edits
    BY <1>1, <1>2
<1> QED
    BY <1>2, <1>3 DEF Covers

\* Steps that leave the cache and what is acknowledged alone.
LEMMA StayStep ==
    ASSUME PInv, UNCHANGED <<tableVars, shown, stale, acked>>,
           asking' \in [Views -> Asked],
           \A k \in Views : asking'[k] \in {asking[k], Nothing, [step |-> "sent"]},
           tab' \in Tabs, broken' \in BOOLEAN, Throws(tab', shown) => broken',
           dialog' \in {None, "variant", "stock"},
           dialog' # None => ~broken' /\ tab' \in Views /\ shown[tab'] # None,
           save' \in Saves \cup {Nothing},
           save' # Nothing /\ save'.step = "done" =>
              /\ save # Nothing /\ save.step = "done"
              /\ save'.p = save.p /\ save'.after = save.after
    PROVE  PInv'
<1>1. TypeOK'
    BY DEF PInv, TypeOK, CatalogTypeOK, tableVars
<1>2. ThrownIsBroken' /\ DialogHasPage' /\ VariantsHaveProduct'
    BY DEF PInv, ThrownIsBroken, DialogHasPage, VariantsHaveProduct, Throws, Exists, tableVars
<1>3. SaveIsStored'
    BY DEF PInv, SaveIsStored, Exists, tableVars
<1>4. AckIsKept'
    BY DEF PInv, TypeOK, AckIsKept, Covers, Holds, Exists, tableVars, Nothing
<1> QED
    BY <1>1, <1>2, <1>3, <1>4 DEF PInv

\* An answer is of the products in the tables, and holds what it covers.
LEMMA Answering ==
    ASSUME PInv, NEW k \in Views
    PROVE  /\ AnswerTo(k) \in Data
           /\ Covers(k) => Holds(AnswerTo(k))
<1>1. /\ \A p \in Products : Answer(p) \in Answers /\ Answer(p).edits = product[p].edits
      /\ \A p : Listed(p) \in BOOLEAN
    BY DEF PInv, TypeOK, CatalogTypeOK, Answer, Answers, VariantsOf, Listed
<1>2. CASE k.at = "edit"
    <2>1. k.p \in Products /\ AnswerTo(k) = [q \in {k.p} |-> Answer(q)]
        BY <1>2 DEF Views, Page, Form, AnswerTo, GetProduct
    <2>2. AnswerTo(k) \in [{k.p} -> Answers] /\ {k.p} \in SUBSET Products
        BY <1>1, <2>1
    <2>3. Covers(k) => Holds(AnswerTo(k))
        BY <1>1, <1>2, <2>1 DEF Covers, Holds
    <2> QED
        BY <2>2, <2>3 DEF Data
<1>3. CASE k.at # "edit"
    <2> PICK S : S = {q \in Products : Exists(q)}
        OBVIOUS
    <2>1. AnswerTo(k) = [p \in S |-> Answer(p)] /\ S \in SUBSET Products
        BY <1>3 DEF AnswerTo, ListProducts
    <2>2. AnswerTo(k) \in [S -> Answers]
        BY <1>1, <2>1
    <2>3. Covers(k) => Holds(AnswerTo(k))
        BY <1>1, <1>3, <2>1 DEF Covers, Holds
    <2> QED
        BY <2>1, <2>2, <2>3 DEF Data
<1> QED
    BY <1>2, <1>3

\* The document is loaded anew.
LEMMA ReloadStep ==
    ASSUME PInv, UNCHANGED tableVars, NEW t \in Tabs, Reload(t)
    PROVE  PInv'
<1>1. /\ tab' = t /\ broken' = FALSE /\ shown' = [k \in Views |-> None] /\ stale' = {}
      /\ asking' = [k \in Views |-> IF k = t THEN [step |-> "sent"] ELSE Nothing]
      /\ dialog' = None /\ save' = Nothing /\ acked' = [view |-> None, p |-> None, edits |-> 0]
    BY DEF Reload
<1>2. TypeOK'
    <2>1. CatalogTypeOK'
        BY DEF PInv, TypeOK, CatalogTypeOK, tableVars
    <2>2. shown' \in [Views -> Data \cup {None}] /\ asking' \in [Views -> Asked]
        BY <1>1 DEF Asked
    <2>3. acked' \in [view : Views \cup {None}, p : Products \cup {None}, edits : 0..MaxEdits]
        BY <1>1, CatalogAssumption
    <2> QED
        BY <1>1, <2>1, <2>2, <2>3 DEF TypeOK
<1>3. ThrownIsBroken'
    <2>1. t.at = "edit" => t \in Views
        BY DEF Tabs, Page
    <2> QED
        BY <1>1, <2>1 DEF ThrownIsBroken, Throws
<1>4. VariantsHaveProduct'
    BY DEF PInv, VariantsHaveProduct, Exists, tableVars
<1>5. SaveIsStored' /\ AckIsKept' /\ DialogHasPage'
    BY <1>1 DEF SaveIsStored, AckIsKept, DialogHasPage
<1> QED
    BY <1>2, <1>3, <1>4, <1>5 DEF PInv

LEMMA AnswerStep ==
    ASSUME PInv, UNCHANGED tableVars, NEW k \in Views, ApiAnswers(k)
    PROVE  PInv'
<1> PICK a : a = AnswerTo(k)
    OBVIOUS
<1> PICK rec : rec = [step |-> "answered", data |-> a]
    OBVIOUS
<1>1. a \in Data /\ (Covers(k) => Holds(a))
    BY Answering
<1>2. /\ asking' = [asking EXCEPT ![k] = rec]
      /\ UNCHANGED <<tab, broken, shown, stale, dialog, save, acked>>
    BY DEF ApiAnswers
<1>3. rec \in Asked /\ rec.step = "answered" /\ rec.data = a
    BY <1>1 DEF Asked
<1>4. asking' \in [Views -> Asked] /\ \A j \in Views : asking'[j] = IF j = k THEN rec ELSE asking[j]
    BY <1>2, <1>3 DEF PInv, TypeOK
<1>5. TypeOK'
    BY <1>2, <1>4 DEF PInv, TypeOK, CatalogTypeOK, tableVars
<1>6. ThrownIsBroken' /\ DialogHasPage' /\ VariantsHaveProduct'
    BY <1>2 DEF PInv, ThrownIsBroken, DialogHasPage, VariantsHaveProduct, Throws, Exists, tableVars
<1>7. SaveIsStored'
    BY <1>2 DEF PInv, SaveIsStored, Exists, tableVars
<1>8. AckIsKept'
    BY <1>1, <1>2, <1>3, <1>4 DEF PInv, TypeOK, AckIsKept, Covers, Holds, Exists, tableVars
<1> QED
    BY <1>5, <1>6, <1>7, <1>8 DEF PInv

LEMMA ArriveStep ==
    ASSUME PInv, UNCHANGED tableVars, NEW k \in Views, AnswerArrives(k)
    PROVE  PInv'
<1> PICK a : a = asking[k].data
    OBVIOUS
<1>1. a \in Data /\ asking[k].step = "answered" /\ a # None
    BY DataAssumption DEF PInv, TypeOK, AnswerArrives, Asked, Nothing
<1>2. /\ shown' = [shown EXCEPT ![k] = a] /\ stale' = stale \ {k}
      /\ asking' = [asking EXCEPT ![k] = Nothing]
      /\ broken' = (broken \/ Throws(tab, shown'))
      /\ dialog' = IF broken' THEN None ELSE dialog
      /\ UNCHANGED <<tab, save, acked>>
    BY DEF AnswerArrives
<1>3. /\ shown' \in [Views -> Data \cup {None}] /\ asking' \in [Views -> Asked]
      /\ \A j \in Views : shown'[j] = IF j = k THEN a ELSE shown[j]
      /\ \A j \in Views : asking'[j] = IF j = k THEN Nothing ELSE asking[j]
    BY <1>1, <1>2 DEF PInv, TypeOK, Asked
<1>4. broken' \in BOOLEAN /\ (broken => broken') /\ (Throws(tab, shown') => broken')
    <2>1. broken' = (broken \/ Throws(tab, shown'))
        BY <1>2
    <2> QED
        BY <2>1, Zenon
<1>5. dialog' # None => ~broken' /\ dialog' = dialog
    BY <1>2
<1>6. dialog # None => tab \in Views /\ shown[tab] # None
    BY DEF PInv, TypeOK, DialogHasPage
<1>7. TypeOK'
    BY <1>1, <1>2, <1>3, <1>4, <1>5, <1>6 DEF PInv, TypeOK, CatalogTypeOK, tableVars
<1>8. ThrownIsBroken' /\ DialogHasPage' /\ VariantsHaveProduct'
    BY <1>2, <1>4, <1>5 DEF PInv, ThrownIsBroken, DialogHasPage, VariantsHaveProduct, Throws, Exists, tableVars
<1>9. SaveIsStored'
    BY <1>2 DEF PInv, SaveIsStored, Exists, tableVars
<1>10. AckIsKept'
    BY <1>1, <1>2, <1>3 DEF PInv, TypeOK, AckIsKept, Covers, Holds, Exists, tableVars, Nothing
<1> QED
    BY <1>7, <1>8, <1>9, <1>10 DEF PInv

\* Somebody else writes the tables.
LEMMA OthersStep ==
    ASSUME PInv, AdminWrites, UNCHANGED pageVars
    PROVE  PInv'
<1>1. /\ CatalogTypeOK' /\ VariantsHaveProduct'
      /\ \A p \in Products : /\ product[p].edits \in Nat /\ product'[p].edits \in Nat
                             /\ product[p].edits <= product'[p].edits
                             /\ Exists(p) => Exists(p)'
    BY WritesKeep
<1>2. TypeOK' /\ ThrownIsBroken' /\ DialogHasPage'
    BY <1>1 DEF PInv, TypeOK, ThrownIsBroken, DialogHasPage, Throws, pageVars
<1>3. SaveIsStored'
    <2>1. save # Nothing => save.p \in Products /\ save.after \in Nat
        BY CatalogAssumption DEF PInv, TypeOK, Saves
    <2> QED
        BY <1>1, <2>1 DEF PInv, SaveIsStored, pageVars
<1>4. AckIsKept'
    <2>1. acked.view # None => Covers(acked.view)'
        BY <1>1, CoversStays DEF pageVars
    <2> QED
        BY <2>1 DEF PInv, AckIsKept, Holds, pageVars
<1> QED
    BY <1>1, <1>2, <1>3, <1>4 DEF PInv

\* A handler that writes leaves its product in the table.
LEMMA Performing ==
    ASSUME PInv, NEW p \in Products, NEW op, Performs(op, p)
    PROVE  AdminWrites /\ Exists(p)'
<1>1. product \in [Products -> [state : States, edits : 0..MaxEdits]]
    BY DEF PInv, TypeOK, CatalogTypeOK
<1>2. AdminWrites
    BY DEF Performs, AdminWrites, VariantsOf
<1>3. Exists(p) => Exists(p)'
    BY <1>2, WritesKeep
<1>4. CASE CreateProduct(p)
    BY <1>1, <1>2, <1>4 DEF CreateProduct, Write, Exists
<1>5. CASE \E v \in VariantsOf(p) : UpdateInventory(v)
    <2>1. PICK v \in Variants : variantOf[v] = p
        BY <1>5 DEF VariantsOf
    <2>2. Exists(p)
        BY <2>1, CatalogAssumption DEF PInv, VariantsHaveProduct
    <2> QED
        BY <1>2, <1>3, <2>2
<1> QED
    BY <1>2, <1>3, <1>4, <1>5 DEF Performs, UpdateProduct, DeleteProduct, CreateVariant

LEMMA SavedStep ==
    ASSUME PInv, ApiSaves
    PROVE  PInv'
<1>1. /\ save # Nothing /\ save \in Saves /\ save.p \in Products /\ save.step = "sent"
      /\ Performs(save.op, save.p)
      /\ UNCHANGED <<tab, broken, shown, stale, asking, dialog, acked>>
    BY DEF ApiSaves, PInv, TypeOK, Saves
<1> PICK p \in Products : p = save.p
    BY <1>1
<1> PICK e : e = product'[p].edits
    OBVIOUS
<1>2. AdminWrites /\ Exists(p)'
    BY <1>1, Performing
<1>3. /\ CatalogTypeOK' /\ VariantsHaveProduct'
      /\ \A q \in Products : /\ product[q].edits \in Nat /\ product'[q].edits \in Nat
                             /\ product[q].edits <= product'[q].edits
                             /\ Exists(q) => Exists(q)'
    BY <1>2, WritesKeep
<1>4. e \in 0..MaxEdits
    BY <1>3 DEF CatalogTypeOK
<1> PICK rec : rec = [save EXCEPT !.step = "done", !.after = e]
    OBVIOUS
<1>5. save' = Nothing \/ save' = rec
    BY DEF ApiSaves
<1>6. rec \in Saves /\ rec.p = p /\ rec.after = e
    BY <1>1, <1>4 DEF Saves
<1>7. TypeOK' /\ ThrownIsBroken' /\ DialogHasPage'
    BY <1>1, <1>3, <1>5, <1>6 DEF PInv, TypeOK, ThrownIsBroken, DialogHasPage, Throws
<1>8. SaveIsStored'
    <2>1. e <= product'[p].edits
        BY <1>3
    <2> QED
        BY <1>2, <1>5, <1>6, <2>1 DEF SaveIsStored, Exists
<1>9. AckIsKept'
    <2>1. acked.view # None => Covers(acked.view)'
        BY <1>1, <1>3, CoversStays
    <2> QED
        BY <1>1, <2>1 DEF PInv, AckIsKept, Holds
<1> QED
    BY <1>3, <1>7, <1>8, <1>9 DEF PInv

\* Pages are visited and left, requests lost, dialogs opened and saves sent.
LEMMA PageStep ==
    ASSUME PInv, UNCHANGED tableVars,
           \/ \E t \in Tabs : Visit(t)
           \/ Retry \/ OrdersArrive \/ OpenDialog \/ SaveIsRefused
           \/ \E k \in Views : AnswerIsLost(k)
           \/ \E p \in Products, op \in {"create", "update", "delete", "variant", "stock"} :
                 SendSave(op, p)
    PROVE  PInv'
<1>1. /\ asking \in [Views -> Asked] /\ tab \in Tabs /\ broken \in BOOLEAN
      /\ Throws(tab, shown) => broken
      /\ dialog \in {None, "variant", "stock"}
      /\ dialog # None => ~broken /\ tab \in Views /\ shown[tab] # None
      /\ save \in Saves \cup {Nothing}
      /\ Nothing \in Asked /\ [step |-> "sent"] \in Asked /\ Nothing.step # "done"
    BY DEF PInv, TypeOK, ThrownIsBroken, DialogHasPage, Asked, Nothing
<1>2. \A k \in Views : asking[k] \in {asking[k], Nothing, [step |-> "sent"]}
    OBVIOUS
<1>3. ASSUME NEW t \in Tabs, Mount(t)
      PROVE  /\ asking' \in [Views -> Asked]
             /\ \A k \in Views : asking'[k] \in {asking[k], Nothing, [step |-> "sent"]}
    BY <1>1, <1>3 DEF Mount, Ask
<1>4. ASSUME NEW t \in Tabs, Visit(t) PROVE PInv'
    <2>1. /\ tab' = t /\ dialog' = None /\ Mount(t) /\ UNCHANGED <<shown, stale, acked>>
          /\ save' = IF save = Nothing THEN Nothing ELSE [save EXCEPT !.here = FALSE]
        BY <1>4 DEF Visit
    <2>2. broken' \in BOOLEAN /\ (Throws(t, shown) => broken')
        <3>1. broken' = Throws(t, shown)
            BY <1>4 DEF Visit
        <3>2. Throws(t, shown) \in BOOLEAN
            BY DEF Throws
        <3> QED
            BY <3>1, <3>2
    <2>3. /\ save' \in Saves \cup {Nothing}
          /\ save' # Nothing /\ save'.step = "done" =>
                /\ save # Nothing /\ save.step = "done"
                /\ save'.p = save.p /\ save'.after = save.after
        BY <1>1, <2>1 DEF Saves
    <2>4. /\ asking' \in [Views -> Asked]
          /\ \A k \in Views : asking'[k] \in {asking[k], Nothing, [step |-> "sent"]}
        BY <1>3, <2>1
    <2> QED
        BY <2>1, <2>2, <2>3, <2>4, StayStep
<1>5. CASE Retry
    <2>1. /\ broken /\ Mount(tab) /\ UNCHANGED <<tab, dialog, save, shown, stale, acked>>
        BY <1>5 DEF Retry
    <2>2. broken' \in BOOLEAN /\ (Throws(tab, shown) => broken')
        <3>1. broken' = Throws(tab, shown)
            BY <1>5 DEF Retry
        <3>2. Throws(tab, shown) \in BOOLEAN
            BY DEF Throws
        <3> QED
            BY <3>1, <3>2
    <2>3. /\ asking' \in [Views -> Asked]
          /\ \A k \in Views : asking'[k] \in {asking[k], Nothing, [step |-> "sent"]}
        BY <1>1, <1>3, <2>1
    <2> QED
        BY <1>1, <2>1, <2>2, <2>3, StayStep
<1>6. CASE OrdersArrive
    <2>1. tab \notin Views
        BY <1>6 DEF OrdersArrive, OrdersThrow, OrderThrows, Views, Page, Form
    <2>2. /\ broken' = TRUE /\ dialog = None
          /\ UNCHANGED <<tab, shown, stale, asking, dialog, save, acked>>
        BY <1>1, <1>6, <2>1 DEF OrdersArrive
    <2> QED
        BY <1>1, <1>2, <2>2, StayStep
<1>7. CASE OpenDialog
    <2>1. /\ ~broken /\ dialog' \in {None} \cup VariantDialog \cup StockDialog
          /\ UNCHANGED <<tab, broken, shown, stale, asking, save, acked>>
        BY <1>7 DEF OpenDialog
    <2>2. tab.at \in {"edit", "inventory"} => tab \in Views
        BY <1>1 DEF Tabs, Page
    <2>3. /\ dialog' \in {None, "variant", "stock"}
          /\ dialog' # None => tab \in Views /\ shown[tab] # None
        BY <2>1, <2>2 DEF VariantDialog, StockDialog
    <2> QED
        BY <1>1, <1>2, <2>1, <2>3, StayStep
<1>8. CASE SaveIsRefused
    <2>1. save' = Nothing /\ UNCHANGED <<tab, broken, shown, stale, asking, dialog, acked>>
        BY <1>8 DEF SaveIsRefused
    <2> QED
        BY <1>1, <1>2, <2>1, StayStep
<1>9. ASSUME NEW k \in Views, AnswerIsLost(k) PROVE PInv'
    <2>1. /\ asking' = [asking EXCEPT ![k] = Nothing]
          /\ UNCHANGED <<tab, broken, shown, stale, dialog, save, acked>>
        BY <1>9 DEF AnswerIsLost
    <2>2. /\ asking' \in [Views -> Asked]
          /\ \A j \in Views : asking'[j] \in {asking[j], Nothing, [step |-> "sent"]}
        BY <1>1, <2>1
    <2> QED
        BY <1>1, <2>1, <2>2, StayStep
<1>10. ASSUME NEW p \in Products,
              NEW op \in {"create", "update", "delete", "variant", "stock"}, SendSave(op, p)
       PROVE  PInv'
    <2>1. /\ save' = [step |-> "sent", here |-> TRUE, after |-> 0, op |-> op, p |-> p]
          /\ UNCHANGED <<tab, broken, shown, stale, asking, dialog, acked>>
        BY <1>10 DEF SendSave
    <2>2. save' \in Saves /\ save'.step = "sent"
        BY <2>1, CatalogAssumption DEF Saves
    <2> QED
        BY <1>1, <1>2, <2>1, <2>2, StayStep
<1> QED
    BY <1>4, <1>5, <1>6, <1>7, <1>8, <1>9, <1>10

\* A save is acknowledged: its page asks again, from the tables that hold it.
LEMMA AckStep ==
    ASSUME PInv, UNCHANGED tableVars, SaveArrives
    PROVE  PInv'
<1>1. /\ save \in Saves /\ save # Nothing /\ save.step = "done" /\ save.p \in Products
      /\ save.after \in 0..MaxEdits
      /\ asking \in [Views -> Asked] /\ tab \in Tabs /\ broken \in BOOLEAN
    BY DEF SaveArrives, PInv, TypeOK, Saves
<1> PICK p \in Products : p = save.p
    BY <1>1
<1> PICK hit : hit = Invalidates(save.op, p)
    OBVIOUS
<1> PICK on : on = IF tab \in hit /\ ~broken /\ shown[tab] # None THEN tab ELSE None
    OBVIOUS
<1> PICK to : to = Landing(save.op, p)
    OBVIOUS
<1> PICK now : now = Refetch(on)
    OBVIOUS
<1>2. /\ stale' = stale \cup {k \in hit : shown[k] # None}
      /\ tab' = to /\ broken' = (broken \/ Throws(to, shown))
      /\ asking' = IF to # tab /\ asking[to] = Nothing THEN Ask(to, now) ELSE now
      /\ acked' = IF on = None THEN acked ELSE [view |-> on, p |-> p, edits |-> save.after]
      /\ dialog' = DialogAfter(save.op) /\ save' = Nothing /\ shown' = shown
    BY DEF SaveArrives
<1>3. /\ hit \in SUBSET Views
      /\ \A k \in hit : k.at = "edit" => k.p = p
    BY DEF Invalidates, AfterForm, AfterVariant, AfterDelete, AfterStock, Views, Page, Form
<1>4. to \in Tabs /\ (to # tab => to \in Views /\ save.op = "create")
    BY <1>1 DEF Landing, Tabs, Views
<1>5. /\ now \in [Views -> Asked]
      /\ \A k \in Views : now[k] \in {asking[k], [step |-> "sent"]}
      /\ on # None => now[on] = [step |-> "sent"]
    BY <1>1, <1>3 DEF Refetch, Ask, Asked
<1>6. /\ asking' \in [Views -> Asked]
      /\ \A k \in Views : asking'[k] \in {asking[k], [step |-> "sent"]}
      /\ on # None => asking'[on] = [step |-> "sent"]
    <2>1. CASE to # tab /\ asking[to] = Nothing
        <3>1. asking' = [now EXCEPT ![to] = [step |-> "sent"]] /\ [step |-> "sent"] \in Asked
            BY <1>2, <2>1 DEF Ask, Asked
        <3> QED
            BY <1>3, <1>4, <1>5, <2>1, <3>1
    <2>2. CASE ~(to # tab /\ asking[to] = Nothing)
        BY <1>2, <1>5, <2>2
    <2> QED
        BY <2>1, <2>2
<1>7. broken' \in BOOLEAN /\ (Throws(to, shown) => broken')
    <2>1. broken' = (broken \/ Throws(to, shown))
        BY <1>2
    <2> QED
        BY <2>1, Zenon
<1>8. dialog' # None => dialog' = dialog /\ to = tab /\ ~broken'
    <2> SUFFICES ASSUME dialog' # None PROVE dialog' = dialog /\ to = tab /\ ~broken'
        OBVIOUS
    <2>1. dialog' = dialog /\ to = tab
        BY <1>2, <1>4 DEF DialogAfter
    <2>2. ~broken /\ ~Throws(tab, shown)
        BY <2>1 DEF PInv, TypeOK, ThrownIsBroken
    <2> QED
        BY <1>2, <2>1, <2>2
<1>9. dialog' \in {None, "variant", "stock"}
    BY <1>2 DEF DialogAfter, PInv, TypeOK
<1>10. acked' \in [view : Views \cup {None}, p : Products \cup {None}, edits : 0..MaxEdits]
    BY <1>1, <1>2, <1>3 DEF PInv, TypeOK
<1>11. TypeOK'
    BY <1>2, <1>3, <1>4, <1>6, <1>7, <1>8, <1>9, <1>10 DEF PInv, TypeOK, CatalogTypeOK, tableVars
<1>12. ThrownIsBroken' /\ DialogHasPage' /\ VariantsHaveProduct'
    BY <1>2, <1>7, <1>8
       DEF PInv, ThrownIsBroken, DialogHasPage, VariantsHaveProduct, Throws, Exists, tableVars
<1>13. SaveIsStored'
    BY <1>2 DEF SaveIsStored
<1>14. CASE on = None
    <2>1. AckIsKept'
        BY <1>2, <1>6, <1>14 DEF PInv, TypeOK, AckIsKept, Covers, Holds, Exists, tableVars
    <2> QED
        BY <1>11, <1>12, <1>13, <2>1 DEF PInv
<1>15. CASE on # None
    <2>1. /\ on \in hit /\ on \in Views /\ on \in stale' /\ acked'.view = on
         /\ acked'.p = p /\ acked'.edits = save.after
        BY <1>2, <1>3, <1>15
    <2>2. Exists(p) /\ product[p].edits >= save.after
        <3>1. Exists(p) /\ save.after <= product[p].edits /\ product[p].edits \in 0..MaxEdits
            BY <1>1 DEF PInv, TypeOK, CatalogTypeOK, SaveIsStored
        <3> QED
            BY <1>1, <3>1, CatalogAssumption
    <2>3. Covers(on)'
        BY <1>3, <2>1, <2>2 DEF Covers, Exists, tableVars
    <2>4. AckIsKept'
        BY <1>6, <1>15, <2>1, <2>3 DEF AckIsKept
    <2> QED
        BY <1>11, <1>12, <1>13, <2>4 DEF PInv
<1> QED
    BY <1>14, <1>15

LEMMA BackOfficeStarts == BackOfficeInit => PInv
<1> SUFFICES ASSUME BackOfficeInit PROVE PInv
    OBVIOUS
<1>1. /\ tab = Page("new") /\ broken = FALSE /\ shown = [k \in Views |-> None] /\ stale = {}
      /\ asking = [k \in Views |-> Nothing] /\ dialog = None /\ save = Nothing
      /\ acked = [view |-> None, p |-> None, edits |-> 0]
    BY DEF BackOfficeInit
<1>2. CatalogTypeOK /\ VariantsHaveProduct
    BY CatalogAssumption
       DEF BackOfficeInit, CatalogInit, CatalogTypeOK, VariantsHaveProduct, Exists
<1>3. TypeOK
    <2>1. tab \in Tabs /\ asking \in [Views -> Asked]
        BY <1>1 DEF Tabs, Asked
    <2>2. acked \in [view : Views \cup {None}, p : Products \cup {None}, edits : 0..MaxEdits]
        BY <1>1, CatalogAssumption
    <2> QED
        BY <1>1, <1>2, <2>1, <2>2 DEF TypeOK
<1>4. ThrownIsBroken /\ DialogHasPage
    BY <1>1 DEF ThrownIsBroken, DialogHasPage, Throws, Page
<1> QED
    BY <1>1, <1>2, <1>3, <1>4 DEF PInv, SaveIsStored, AckIsKept

LEMMA BackOfficeStep == PInv /\ [BackOfficeNext]_boVars => PInv'
<1> SUFFICES ASSUME PInv, [BackOfficeNext]_boVars PROVE PInv'
    OBVIOUS
<1>1. CASE TabSteps /\ UNCHANGED tableVars
    <2>1. CASE SaveArrives
        BY <1>1, <2>1, AckStep
    <2>2. CASE \E t \in Tabs : Reload(t)
        BY <1>1, <2>2, ReloadStep
    <2>3. CASE \E k \in Views : ApiAnswers(k)
        BY <1>1, <2>3, AnswerStep
    <2>4. CASE \E k \in Views : AnswerArrives(k)
        BY <1>1, <2>4, ArriveStep
    <2> QED
        BY <1>1, <2>1, <2>2, <2>3, <2>4, PageStep DEF TabSteps
<1>2. CASE ApiSaves
    BY <1>2, SavedStep
<1>3. CASE AdminWrites /\ UNCHANGED pageVars
    BY <1>3, OthersStep
<1>4. CASE UNCHANGED boVars
    BY <1>4 DEF boVars, tableVars, pageVars, PInv, TypeOK, CatalogTypeOK, ThrownIsBroken,
       DialogHasPage, VariantsHaveProduct, SaveIsStored, AckIsKept, Covers, Holds, Throws, Exists
<1> QED
    BY <1>1, <1>2, <1>3, <1>4 DEF BackOfficeNext

LEMMA BackOfficeInvariant == BackOfficeSpec => []PInv
BY BackOfficeStarts, BackOfficeStep, PTL DEF BackOfficeSpec

\* For any number of products, variants and running requests, the tab's state
\* keeps its types and no dialog is open on a page that is not shown.
THEOREM BackOfficeTypeCorrect == BackOfficeSpec => []TypeOK
<1>1. PInv => TypeOK
    BY DEF PInv
<1> QED
    BY <1>1, BackOfficeInvariant, PTL

\* For any number of products and admins: a save acknowledged on a page that it
\* marks as stale is in the row of its own product there whenever the page's
\* answer counts as fresh; no answer read before the save covers it up (the
\* onSuccess handlers of the forms).
THEOREM SavesStayShown == BackOfficeSpec => []SavesAreShown
<1>1. PInv => SavesAreShown
    BY DEF PInv, AckIsKept, Holds, SavesAreShown
<1> QED
    BY <1>1, BackOfficeInvariant, PTL
==============================================================================
