---------------------------- MODULE MCSequential ----------------------------
(***************************************************************************)
(* Instances for TLC of the order router with one thread and every kind of *)
(* request, of what computes factors in one thread (the operators and      *)
(* their graph), and of what looks records and nodes up: the indexes, the  *)
(* queries and the hash ring.  The parts share no state: a behaviour is    *)
(* one of one part, chosen at the start.                                   *)
(***************************************************************************)
EXTENDS MCOrderRouter, FactorEngine, RecordQueries, HashRing, TLC

CONSTANTS Parts, n1, n2, n3, k1, k2

VARIABLE part
sequentialVars == <<part, vars, operatorVars, dagVars, indexVars, queryVars, ringVars>>

\* Hashes of two virtual nodes of each node, two of them the same, and of the
\* keys, one of them after the last virtual node but one.
MCVirtualHash == n1 :> <<0, 3>> @@ n2 :> <<1, 3>> @@ n3 :> <<2, 5>>
MCKeyHash == k1 :> 1 @@ k2 :> 4

SequentialInit ==
    /\ part \in Parts
    /\ Init /\ OperatorInit /\ DagInit /\ IndexInit /\ QueryInit /\ RingInit
    /\ load_balance => part = "ring"

\* Factors are only compared: until one was removed, the next that comes may
\* have any name.  A sort before the last removal changes what follows it, a
\* later one is the executor's own.
GraphPartNext ==
    /\ DagNext
    /\ removals = 0 => \A n \in nodes' \ nodes, m \in FactorIds : m < n => m \in nodes
    /\ ~executing' /\ dirty /\ ~dirty' => removals < Removals

\* Types are only compared too: the first record may have any.  The stream is
\* never read together with the copy for aggregates.
QueryPartNext ==
    /\ QueryNext
    /\ stored' # <<>> => stored'[1].type = CHOOSE r \in QueryTypes : TRUE
    /\ pushed' # {} => aggregate_source' = query_source'

\* Nothing is said of routes after a change overlapped one, and loads matter
\* only with load balancing, where two changes make a choice between replicas:
\* what follows them is left out.  Any idle thread may be the one that routes.
RingPartNext ==
    /\ RingNext
    /\ load_balance => changes' < 3
    /\ \A t \in Routers : router[t].pc = "idle" /\ router'[t].pc # "idle" =>
           t = CHOOSE r \in Routers : router[r].pc = "idle"
    /\ disturbed => \A t \in Routers : router'[t].pc \in {router[t].pc, "idle"}
    /\ ~load_balance /\ change'.pc = "ring" /\ change'.kind = "add" =>
           ring_nodes'[change'.node].load = 0

SequentialNext ==
    /\ part' = part
    /\ \/ /\ part = "router" /\ Next
          /\ UNCHANGED <<operatorVars, dagVars, indexVars, queryVars, ringVars>>
       \/ /\ part = "operators" /\ OperatorNext
          /\ UNCHANGED <<vars, dagVars, indexVars, queryVars, ringVars>>
       \/ /\ part = "graph" /\ GraphPartNext
          /\ UNCHANGED <<vars, operatorVars, indexVars, queryVars, ringVars>>
       \/ /\ part = "index" /\ IndexNext
          /\ UNCHANGED <<vars, operatorVars, dagVars, queryVars, ringVars>>
       \/ /\ part = "queries" /\ QueryPartNext
          /\ UNCHANGED <<vars, operatorVars, dagVars, indexVars, ringVars>>
       \/ /\ part = "ring" /\ RingPartNext
          /\ UNCHANGED <<vars, operatorVars, dagVars, indexVars, queryVars>>

SequentialSpec == SequentialInit /\ [][SequentialNext]_sequentialVars

\* What is looked up is what was stored: every path through the indexes finds
\* the same records, a query across stream, storage and files loses and adds
\* none that the code owes it, and the hash ring and its cache lead to the
\* node that a key belongs to.  Each is asked for in its own part only, in the
\* others its state does not change.
LookupsAgree ==
    CASE part = "index" -> IndexesAgree
      [] part = "queries" -> QueriesExact
      [] part = "ring" -> RingSound
      [] OTHER -> TRUE
=============================================================================
