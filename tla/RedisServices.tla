---------------------------- MODULE RedisServices ----------------------------
(***************************************************************************)
(* The two services of the API that keep keys in Redis for a time: the     *)
(* locks of RedisLockService and the cached answers of CatalogService,     *)
(* while admins edit the catalog.                                          *)
(***************************************************************************)
EXTENDS RedisLock, CatalogCache

redisVars == <<lockVars, tableVars, cacheVars>>

RedisInit == Init /\ CatalogInit /\ CacheInit

RedisNext ==
    \/ Next /\ UNCHANGED <<tableVars, cacheVars>>
    \/ CatalogRuns /\ UNCHANGED <<lockVars, tableVars>>
    \/ AdminWrites /\ UNCHANGED <<lockVars, cacheVars>>
    \/ (\E v \in Variants : Refer(v)) /\ UNCHANGED <<lockVars, cacheVars>>

\* Redis drops a cached answer whose time is up, and a reader that has asked the database
\* goes on.
RedisSpec ==
    /\ RedisInit
    /\ [][RedisNext]_redisVars
    /\ \A k \in Keys : WF_redisVars(ExpireKey(k) /\ UNCHANGED <<lockVars, tableVars>>)
    /\ \A r \in Readers : WF_redisVars((FindProduct(r) \/ Query(r) \/ SetCache(r))
                                       /\ UNCHANGED <<lockVars, tableVars>>)
==============================================================================
