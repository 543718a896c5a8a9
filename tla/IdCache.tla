------------------------------ MODULE IdCache ------------------------------
(***************************************************************************)
(* The duplicate cache of offchain-id.cc as operators on a value: a cache  *)
(* is a set of entries [context, id, expire], `expire' an absolute time.   *)
(* RoutingProtocol keeps one as m_rreqIdCache (RREQs already seen).        *)
(***************************************************************************)
EXTENDS Integers

\* IdCache::Purge.  An entry survives the very instant at which it expires.
LiveIds(cache, now) == {u \in cache : ~(u.expire < now)}

\* The answer of IdCache::IsDuplicate (addr, id).
IsDuplicate(cache, now, addr, id) ==
    \E u \in LiveIds(cache, now) : u.context = addr /\ u.id = id

\* Mutant: the lifetime is not added.
RegisteredNoLifetime(cache, now, lifetime, addr, id) ==
    LiveIds(cache, now) \cup {[context |-> addr, id |-> id, expire |-> now]}

\* The cache IsDuplicate leaves behind when its answer was "false": purged, and
\* with the pair registered for a lifetime from now.
Registered(cache, now, lifetime, addr, id) ==
    LiveIds(cache, now)
        \cup {[context |-> addr, id |-> id, expire |-> now + lifetime]}
=============================================================================
