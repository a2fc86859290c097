--------------------------- MODULE LogReplication ---------------------------
(***************************************************************************)
(* Replication of the log: the LogReplicator of                            *)
(* src/src/replication/replicator.rs on every node of the group.           *)
(*                                                                         *)
(* A request may be delivered any number of times, late or never (the      *)
(* client repeats a call whose answer is lost); the answer of a delivery   *)
(* is handled once or lost.  Elections are summarised in one step (module  *)
(* Failover has their steps); a voter compares the candidate's last        *)
(* sequence with its own commit index, as handle_vote_request does.        *)
(* The calls of one node run one after the other.                          *)
(***************************************************************************)
EXTENDS Integers, FiniteSets, Sequences

CONSTANTS
    Nodes,
    BatchSize,      \* ReplicationConfig.batch_size
    LogTerms,       \* bound on terms: 1..LogTerms
    LogSequences,   \* bound on sequences
    LogLength,      \* bound on the entries a node keeps
    LogRequests,    \* bound on requests under way
    LogResponses    \* bound on answers under way

ASSUME LogReplicationAssumption ==
    /\ IsFiniteSet(Nodes)
    /\ {BatchSize, LogTerms, LogSequences, LogLength, LogRequests, LogResponses}
         \subseteq Nat \ {0}

VARIABLES
    role, term,         \* RoleManager
    pending_logs,       \* pending_logs[n]: sequence of entries
    slave_match_index,  \* slave_match_index[n][m], or Absent
    slave_next_index,   \* slave_next_index[n][m]; 1 when absent
    commit_index,
    requests,           \* ReplicationRequests that can still arrive
    responses           \* answers under way

leaderVars == <<slave_match_index, slave_next_index>>
logVars == <<role, term, pending_logs, leaderVars, commit_index, requests, responses>>

Absent == -1
Entry == [sequence : 1..LogSequences, term : 1..LogTerms]
Sequences(log) == {log[i].sequence : i \in DOMAIN log}
Highest(S) == CHOOSE s \in S \cup {0} : \A r \in S : r <= s
Lower(a, b) == IF a < b THEN a ELSE b
IsMaster(n) == role[n] = "Master"
IsMajority(Q) == 2 * Cardinality(Q) > Cardinality(Nodes)

LogInit ==
    /\ role = [n \in Nodes |-> "Slave"]
    /\ term = [n \in Nodes |-> 0]
    /\ pending_logs = [n \in Nodes |-> <<>>]
    /\ slave_match_index = [n \in Nodes |-> [m \in Nodes |-> Absent]]
    /\ slave_next_index = [n \in Nodes |-> [m \in Nodes |-> 1]]
    /\ commit_index = [n \in Nodes |-> 0]
    /\ requests = {}
    /\ responses = {}
------------------------------------------------------------------------------
\* handle_vote_request: what a voter asks of the candidate's log.
MayVote(m, last) == last >= commit_index[m]

\* An election that node n wins with the votes of Q, and register_slave for
\* every other node.
Elect(n) ==
    /\ term[n] < LogTerms
    /\ \E Q \in SUBSET Nodes :
         /\ n \in Q /\ IsMajority(Q)
         /\ \A m \in Q \ {n} :
              /\ term[m] <= term[n]
              /\ MayVote(m, Highest(Sequences(pending_logs[n])))
         /\ term' = [m \in Nodes |-> IF m \in Q THEN term[n] + 1 ELSE term[m]]
         /\ role' = [m \in Nodes |-> IF m = n THEN "Master"
                                     ELSE IF m \in Q THEN "Slave" ELSE role[m]]
    /\ slave_match_index' = [slave_match_index EXCEPT ![n] =
                               [m \in Nodes |-> IF m = n THEN @[m] ELSE 0]]
    /\ slave_next_index' = [slave_next_index EXCEPT ![n] =
                              [m \in Nodes |-> IF m = n THEN @[m] ELSE 1]]
    /\ UNCHANGED <<pending_logs, commit_index, requests, responses>>

\* append_log: the caller passes the next sequence of the node's WAL.
AppendLog(n) ==
    LET next == 1 + Highest(Sequences(pending_logs[n])) IN
    /\ IsMaster(n)
    /\ next <= LogSequences /\ Len(pending_logs[n]) < LogLength
    /\ pending_logs' = [pending_logs EXCEPT ![n] =
                          Append(@, [sequence |-> next, term |-> term[n]])]
    /\ UNCHANGED <<role, term, leaderVars, commit_index, requests, responses>>

\* The places in the log of the entries from next_index on, at most a batch of
\* them (filter and take): a set of one function.
Batches(log, next) ==
    LET from == {i \in DOMAIN log : log[i].sequence >= next}
        size == Lower(BatchSize, Cardinality(from))
    IN  {place \in [1..size -> from] :
           \A k \in 1..size : \A i \in from :
               i < place[k] <=> \E j \in 1..(k - 1) : place[j] = i}

\* prev_log_sequence and prev_log_term are sent too; no receiver reads them.
CreateReplicationRequest(n, m) ==
    /\ IsMaster(n) /\ m # n
    /\ Cardinality(requests) < LogRequests
    /\ \E place \in Batches(pending_logs[n], slave_next_index[n][m]) :
         LET entries == [k \in DOMAIN place |-> pending_logs[n][place[k]]]
         IN  /\ entries # <<>>
             /\ requests' = requests \cup
                  {[to |-> m, leader_id |-> n, term |-> term[n], entries |-> entries,
                    leader_commit |-> commit_index[n]]}
    /\ UNCHANGED <<role, term, pending_logs, leaderVars, commit_index, responses>>

Answer(req, success, match) ==
    [from |-> req.to, to |-> req.leader_id, term |-> term[req.to],
     success |-> success, match_sequence |-> match]

RefuseLogs(req) ==
    /\ req.term < term[req.to]
    /\ Cardinality(responses) < LogResponses
    /\ responses' = responses \cup {Answer(req, FALSE, 0)}
    /\ UNCHANGED <<role, term, pending_logs, leaderVars, commit_index, requests>>

\* Mutant of CommitOf: the last sequence of the request is not looked at.
LeaderCommitOf(n, req) ==
    IF req.leader_commit > commit_index[n] THEN req.leader_commit ELSE commit_index[n]
CommitOf(n, req) ==
    IF req.leader_commit > commit_index[n]
    THEN Lower(req.leader_commit, req.entries[Len(req.entries)].sequence)
    ELSE commit_index[n]

\* apply_logs of a request that is not stale.  The answer carries the term
\* the node had before.
ApplyLogs(req) ==
    LET n == req.to IN
    /\ req.term >= term[n]
    /\ Len(pending_logs[n]) + Len(req.entries) <= LogLength
    /\ Cardinality(responses) < LogResponses
    /\ term' = [term EXCEPT ![n] = req.term]
    /\ role' = [role EXCEPT ![n] = "Slave"]
    /\ pending_logs' = [pending_logs EXCEPT ![n] = @ \o req.entries]
    /\ commit_index' = [commit_index EXCEPT ![n] = CommitOf(n, req)]
    /\ responses' = responses \cup
         {Answer(req, TRUE, req.entries[Len(req.entries)].sequence)}
    /\ UNCHANGED <<leaderVars, requests>>
------------------------------------------------------------------------------
\* The value at position len / 2 of the sorted match indices.
MajorityIndex(match) ==
    LET Upto(i) == {m \in DOMAIN match : match[m] \in 0..i}
        Below(i) == {m \in DOMAIN match : match[m] \in 0..(i - 1)}
        half == Cardinality({m \in DOMAIN match : match[m] # Absent}) \div 2
    IN  CHOOSE i \in {match[m] : m \in DOMAIN match} \ {Absent} :
          Cardinality(Below(i)) <= half /\ half < Cardinality(Upto(i))

Matched(resp) == resp.match_sequence

\* Mutant of Back: one step too far.
BackToZero(next) == IF next >= 1 THEN next - 1 ELSE next
Back(next) == IF next > 1 THEN next - 1 ELSE next

StepDown(resp) ==
    /\ resp.term > term[resp.to]
    /\ IsMaster(resp.to)
    /\ term' = [term EXCEPT ![resp.to] = resp.term]
    /\ role' = [role EXCEPT ![resp.to] = "Slave"]
    /\ responses' = responses \ {resp}
    /\ UNCHANGED <<pending_logs, leaderVars, commit_index, requests>>

\* handle_replication_response with success, and update_commit_index.
Confirm(resp) ==
    LET n == resp.to
        match == [slave_match_index[n] EXCEPT ![resp.from] = Matched(resp)]
        majority == MajorityIndex(match)
    IN  /\ IsMaster(n) /\ resp.term <= term[n] /\ resp.success
        /\ slave_match_index' = [slave_match_index EXCEPT ![n] = match]
        /\ slave_next_index' = [slave_next_index EXCEPT ![n][resp.from] = Matched(resp) + 1]
        /\ commit_index' = [commit_index EXCEPT ![n] =
                              IF majority > @ THEN majority ELSE @]
        /\ responses' = responses \ {resp}
        /\ UNCHANGED <<role, term, pending_logs, requests>>

Retry(resp) ==
    LET n == resp.to IN
    /\ IsMaster(n) /\ resp.term <= term[n] /\ ~resp.success
    /\ slave_next_index' = [slave_next_index EXCEPT ![n][resp.from] = Back(@)]
    /\ responses' = responses \ {resp}
    /\ UNCHANGED <<role, term, pending_logs, slave_match_index, commit_index, requests>>

\* The answer is lost, or finds a node that is no longer master.
DropResponse(resp) ==
    /\ responses' = responses \ {resp}
    /\ UNCHANGED <<role, term, pending_logs, leaderVars, commit_index, requests>>

\* No more attempts of a call.
DropRequest(req) ==
    /\ requests' = requests \ {req}
    /\ UNCHANGED <<role, term, pending_logs, leaderVars, commit_index, responses>>

UnregisterSlave(n, m) ==
    /\ IsMaster(n) /\ slave_match_index[n][m] # Absent
    /\ slave_match_index' = [slave_match_index EXCEPT ![n][m] = Absent]
    /\ slave_next_index' = [slave_next_index EXCEPT ![n][m] = 1]
    /\ UNCHANGED <<role, term, pending_logs, commit_index, requests, responses>>

LogNext ==
    \/ \E n \in Nodes : Elect(n) \/ AppendLog(n)
    \/ \E n, m \in Nodes : CreateReplicationRequest(n, m) \/ UnregisterSlave(n, m)
    \/ \E req \in requests : RefuseLogs(req) \/ ApplyLogs(req) \/ DropRequest(req)
    \/ \E resp \in responses :
         StepDown(resp) \/ Confirm(resp) \/ Retry(resp) \/ DropResponse(resp)

LogSpec == LogInit /\ [][LogNext]_logVars
------------------------------------------------------------------------------
(* Properties. *)

\* The types of the replicator's state on every node.
LogTypeOK ==
    /\ role \in [Nodes -> {"Master", "Slave"}]
    /\ term \in [Nodes -> 0..LogTerms]
    /\ pending_logs \in [Nodes -> Seq(Entry)]
    /\ slave_match_index \in [Nodes -> [Nodes -> Absent..LogSequences]]
    /\ slave_next_index \in [Nodes -> [Nodes -> 1..(LogSequences + 1)]]
    /\ commit_index \in [Nodes -> 0..LogSequences]

\* A node holds every sequence below one it holds: what a master sends starts
\* where the slave's last answer ended, whatever was repeated or lost.
NoGaps ==
    \A n \in Nodes : \A s \in Sequences(pending_logs[n]) :
        1..s \subseteq Sequences(pending_logs[n])

\* Every sequence at or below a node's commit index is one entry, of one term,
\* on a majority of the nodes, the node itself among them: only slaves are
\* counted, and requests are repeated, late or lost.
CommittedOnMajority ==
    \A n \in Nodes : \A s \in 1..commit_index[n] :
        \E t \in 1..LogTerms :
            LET holders == {m \in Nodes :
                              \E i \in DOMAIN pending_logs[m] :
                                 pending_logs[m][i] = [sequence |-> s, term |-> t]}
            IN  n \in holders /\ IsMajority(holders)

\* What the log promises together: a commit index on a majority that covers
\* whole prefixes.
CommittedPrefix == NoGaps /\ CommittedOnMajority
=============================================================================
