------------------------------ MODULE RedisLock ------------------------------
(***************************************************************************)
(* RedisLockService: a lock per resource, kept as one Redis key with a     *)
(* time to live.                                                           *)
(*                                                                         *)
(* acquire is a single SET NX EX.  release reads the key and, if it still  *)
(* holds the caller's identifier, deletes it: two commands, between which  *)
(* anything may happen.  Errors are swallowed on both sides, so a SET may  *)
(* take effect and be reported as a failure, and a DEL may be lost.        *)
(***************************************************************************)
CONSTANTS
    Resources,     \* lock names
    Clients,       \* identifiers of acquisitions in flight
    Free,          \* the key does not exist
    Overruns       \* locks whose holders may work on after their lease has ended

ASSUME FreeAssumption == Free \notin Clients
ASSUME LeaseAssumption == Overruns \subseteq Resources

VARIABLES
    lock,          \* lock[k]: the identifier stored under the key, or Free
    stage          \* what the client is doing, and with which resource

lockVars == <<lock, stage>>

\* "in": between acquire and release; "leaving": between GET and DEL.
Outside == [at |-> "out"]
Inside(c, k) == stage[c] \in {[at |-> "in", key |-> k], [at |-> "leaving", key |-> k]}

Stage == {Outside} \cup [at : {"in", "leaving"}, key : Resources]

Init ==
    /\ lock = [k \in Resources |-> Free]
    /\ stage = [c \in Clients |-> Outside]

MoveTo(c, s) == stage' = [stage EXCEPT ![c] = s]

\* Wrong on purpose (mutation): SET without NX.
AcquireWithoutNX(c, k) ==
    /\ stage[c] = Outside
    /\ lock' = [lock EXCEPT ![k] = c]
    /\ MoveTo(c, [at |-> "in", key |-> k])

Acquire(c, k) ==
    /\ stage[c] = Outside
    /\ lock[k] = Free
    /\ lock' = [lock EXCEPT ![k] = c]
    /\ MoveTo(c, [at |-> "in", key |-> k])

\* The SET is applied, its answer is lost, acquire returns false.
AcquireUnseen(c, k) ==
    /\ stage[c] = Outside
    /\ lock[k] = Free
    /\ lock' = [lock EXCEPT ![k] = c]
    /\ UNCHANGED stage

\* release: GET, and nothing more when the value is another's or absent.
ReleaseGet(c, k) ==
    /\ stage[c] = [at |-> "in", key |-> k]
    /\ MoveTo(c, IF lock[k] = c THEN [at |-> "leaving", key |-> k] ELSE Outside)
    /\ UNCHANGED lock

ReleaseDel(c, k) ==
    /\ stage[c] = [at |-> "leaving", key |-> k]
    /\ lock' = [lock EXCEPT ![k] = Free]
    /\ MoveTo(c, Outside)

\* The holder dies, or its release fails on the way to Redis.
Leave(c) ==
    /\ stage[c] # Outside
    /\ MoveTo(c, Outside)
    /\ UNCHANGED lock

Expire(k) ==
    /\ lock[k] # Free
    /\ k \in Overruns \/ \A c \in Clients : ~Inside(c, k)
    /\ lock' = [lock EXCEPT ![k] = Free]
    /\ UNCHANGED stage

Next ==
    \/ \E c \in Clients, k \in Resources :
          Acquire(c, k) \/ AcquireUnseen(c, k) \/ ReleaseGet(c, k) \/ ReleaseDel(c, k)
    \/ \E c \in Clients : Leave(c)
    \/ \E k \in Resources : Expire(k)

Spec == Init /\ [][Next]_lockVars
------------------------------------------------------------------------------
LockTypeOK ==
    /\ lock \in [Resources -> Clients \cup {Free}]
    /\ stage \in [Clients -> Stage]

\* As long as no handler outlives its lease, two of them are never between
\* acquire and release of the same resource, whatever is lost on the way to
\* Redis and whoever dies holding the lock.
MutualExclusion ==
    \A c, d \in Clients, k \in Resources \ Overruns :
        Inside(c, k) /\ Inside(d, k) => c = d
==============================================================================
