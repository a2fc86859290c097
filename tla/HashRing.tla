------------------------------ MODULE HashRing ------------------------------
(***************************************************************************)
(* The consistent-hash ring and the router in front of it                  *)
(* (src/src/cluster/consistent_hash.rs).  Routing threads and one thread   *)
(* that adds and removes nodes share the node table, the ring and the      *)
(* cache of routes, each behind a lock of its own.                         *)
(***************************************************************************)
EXTENDS Integers, FiniteSetsExt, SequencesExt

CONSTANTS
    RingNodes, Keys, Routers,
    VirtualHash,    \* node -> sequence of the hashes of its virtual nodes
    KeyHash,        \* key -> hash
    Weights,        \* numbers of virtual nodes that a node may be added with
    Loads,          \* loads that a node may be added with
    LoadThreshold, ReplicaCount,
    RingChanges     \* bound on additions and removals

VARIABLES
    ring_nodes,     \* known node -> [active, load]
    ring,           \* hash -> node
    cache,          \* key -> node
    router,         \* what each routing thread does
    change,         \* the addition or removal under way
    changes,
    load_balance,   \* how the router is configured
    disturbed       \* a route overlapped a change, or an inactive node was added
ringVars == <<ring_nodes, ring, cache, router, change, changes, load_balance, disturbed>>

NoRoute == [pc |-> "idle"]
NoChange == [pc |-> "idle"]

RingInit ==
    /\ ring_nodes = [n \in {} |-> [active |-> TRUE, load |-> 0]]
    /\ ring = [h \in {} |-> ""] /\ cache = [k \in {} |-> ""]
    /\ router = [t \in Routers |-> NoRoute] /\ change = NoChange
    /\ changes = 0 /\ disturbed = FALSE /\ load_balance \in BOOLEAN

Without(f, S) == [x \in DOMAIN f \ S |-> f[x]]
With(f, S, value) == [x \in DOMAIN f \cup S |-> IF x \in S THEN value ELSE f[x]]
Routing == \E t \in Routers : router[t].pc # "idle"
------------------------------------------------------------------------------
\* The virtual node that follows a hash on ring r, or the first of all.
Following(r, hash) ==
    IF \E h \in DOMAIN r : h >= hash THEN Min({h \in DOMAIN r : h >= hash}) ELSE Min(DOMAIN r)

\* get_node, as a set of at most one node.
GetNode(r, known, key) ==
    IF r = <<>> THEN {} ELSE {r[Following(r, KeyHash[key])]} \cap known

\* From a key clockwise, the first virtual node of every node.
Clockwise(r, key) ==
    LET Later(g, h) == IF (g >= KeyHash[key]) = (h >= KeyHash[key]) THEN g < h
                       ELSE g >= KeyHash[key]
        walk == SetToSortSeq(DOMAIN r, Later)
    IN  FoldLeft(LAMBDA seen, h : IF r[h] \in Range(seen) THEN seen ELSE Append(seen, r[h]),
                 <<>>, walk)

GetNodesWithReplicas(r, table, key) ==
    LET alive == SelectSeq(Clockwise(r, key), LAMBDA n : n \in DOMAIN table /\ table[n].active)
    IN  SubSeq(alive, 1, Min({ReplicaCount + 1, Len(alive)}))

\* route_with_load_balance: the first of the least loaded replicas, or else the
\* owner, active or not.
RouteOf(r, table, key) ==
    LET light == SelectSeq(GetNodesWithReplicas(r, table, key),
                           LAMBDA n : table[n].load < LoadThreshold)
        best == SelectSeq(light, LAMBDA n : \A m \in Range(light) : table[n].load <= table[m].load)
    IN  IF load_balance /\ light # <<>> THEN {best[1]} ELSE GetNode(r, DOMAIN table, key)
------------------------------------------------------------------------------
VirtualNodes(n, count) == {VirtualHash[n][i] : i \in 1..count}
\* Virtual nodes left from a greater weight stay; an equal hash is taken over.
RingWith(r, n, count) == With(r, VirtualNodes(n, count), n)
RingWithout(r, n) == Without(r, {h \in DOMAIN r : r[h] = n})

BeginAdd(n, count, load, active) ==
    /\ change.pc = "idle" /\ changes < RingChanges /\ changes' = changes + 1
    /\ ring_nodes' = With(ring_nodes, {n}, [active |-> active, load |-> load])
    /\ change' = [pc |-> "ring", kind |-> "add", node |-> n, count |-> count]
    /\ disturbed' = (disturbed \/ Routing \/ ~active)
    /\ UNCHANGED <<ring, cache, router, load_balance>>

BeginRemove(n) ==
    /\ change.pc = "idle" /\ changes < RingChanges /\ changes' = changes + 1
    /\ ring_nodes' = Without(ring_nodes, {n})
    /\ change' = [pc |-> "ring", kind |-> "remove", node |-> n]
    /\ disturbed' = (disturbed \/ Routing)
    /\ UNCHANGED <<ring, cache, router, load_balance>>

ChangeRing ==
    /\ change.pc = "ring" /\ change' = [change EXCEPT !.pc = "cache"]
    /\ ring' = IF change.kind = "add" THEN RingWith(ring, change.node, change.count)
               ELSE RingWithout(ring, change.node)
    /\ UNCHANGED <<ring_nodes, cache, router, changes, load_balance, disturbed>>

\* A thread that hangs holds the entry of its key.
Hung(key) == \E t \in Routers : router[t].pc = "hung" /\ router[t].key = key

\* Mutant of Stale: an added node leaves the cache as it is.
StaleOfRemoved(done) == {key \in DOMAIN cache : done.kind = "remove" /\ cache[key] = done.node}
\* The routes that a change drops: all, or those of the removed node.
Stale(done) == {key \in DOMAIN cache : done.kind = "add" \/ cache[key] = done.node}
ChangeCache ==
    /\ change.pc = "cache" /\ \A key \in DOMAIN cache : ~Hung(key)
    /\ cache' = Without(cache, Stale(change)) /\ change' = NoChange
    /\ UNCHANGED <<ring_nodes, ring, router, changes, load_balance, disturbed>>

\* route: a cached node that is active is the answer.  One that is not makes
\* the thread remove the entry while it still holds it for reading: it hangs.
RouteCached(t, key) ==
    /\ router[t].pc = "idle" /\ key \in DOMAIN cache /\ ~Hung(key)
    /\ ~(cache[key] \in DOMAIN ring_nodes /\ ring_nodes[cache[key]].active)
    /\ router' = [router EXCEPT ![t] = [pc |-> "hung", key |-> key]]
    /\ disturbed' = (disturbed \/ change.pc # "idle")
    /\ UNCHANGED <<ring_nodes, ring, cache, change, changes, load_balance>>

RouteMisses(t, key) ==
    /\ router[t].pc = "idle" /\ key \notin DOMAIN cache
    /\ LET node == RouteOf(ring, ring_nodes, key)
       IN  /\ node # {}
           /\ router' = [router EXCEPT ![t] =
                [pc |-> "found", key |-> key, node |-> CHOOSE n \in node : TRUE]]
    /\ disturbed' = (disturbed \/ change.pc # "idle")
    /\ UNCHANGED <<ring_nodes, ring, cache, change, changes, load_balance>>

RouteFound(t) ==
    /\ router[t].pc = "found" /\ ~Hung(router[t].key)
    /\ cache' = With(cache, {router[t].key}, router[t].node)
    /\ router' = [router EXCEPT ![t] = NoRoute]
    /\ UNCHANGED <<ring_nodes, ring, change, changes, load_balance, disturbed>>

RingNext ==
    \/ \E n \in RingNodes, count \in Weights, load \in Loads, active \in BOOLEAN :
           BeginAdd(n, count, load, active)
    \/ \E n \in RingNodes : BeginRemove(n)
    \/ ChangeRing
    \/ ChangeCache
    \/ \E t \in Routers, key \in Keys :
           RouteCached(t, key) \/ RouteMisses(t, key)
    \/ \E t \in Routers : RouteFound(t)
------------------------------------------------------------------------------
Owners(r) == [key \in Keys |-> GetNode(r, Range(r), key)]

\* When a node goes, the keys of the others stay where they are; when one
\* comes, a key stays or moves to it: whatever weights, hashes that collide and
\* virtual nodes left behind.
MovesLittle ==
    \A n \in RingNodes :
        /\ \A key \in Keys : Owners(ring)[key] # {n} =>
             Owners(RingWithout(ring, n))[key] = Owners(ring)[key]
        /\ \A count \in Weights, key \in Keys :
             Owners(RingWith(ring, n, count))[key] \in {Owners(ring)[key], {n}}

\* Between changes the ring leads to known nodes, and the replicas of a key are
\* its owner first, when active, and as many other active nodes as there are.
ReplicasSound ==
    change.pc = "idle" =>
        /\ Range(ring) \subseteq DOMAIN ring_nodes
        /\ \A key \in Keys :
             LET found == GetNodesWithReplicas(ring, ring_nodes, key)
                 alive == {n \in Range(ring) : ring_nodes[n].active}
                 owner == GetNode(ring, DOMAIN ring_nodes, key)
             IN  /\ IsInjective(found) /\ Range(found) \subseteq alive
                 /\ Len(found) = Min({ReplicaCount + 1, Cardinality(alive)})
                 /\ owner \cap alive # {} => found[1] \in owner

\* As long as routes and changes do not overlap and every node is active, no
\* thread hangs and a cached route is one that the ring gives now: the owner of
\* the key, or with load balancing an active node.
RoutesCurrent ==
    ~disturbed =>
        /\ \A t \in Routers : router[t].pc # "hung"
        /\ change.pc = "idle" => \A key \in DOMAIN cache :
             /\ cache[key] \in DOMAIN ring_nodes
             /\ ~load_balance => {cache[key]} = GetNode(ring, DOMAIN ring_nodes, key)

RingSound == MovesLittle /\ ReplicasSound /\ RoutesCurrent
==============================================================================
