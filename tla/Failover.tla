------------------------------ MODULE Failover ------------------------------
(***************************************************************************)
(* Elections of the replication group: RoleManager (role.rs), the          *)
(* FailoverCoordinator (failover.rs) and the HeartbeatManager              *)
(* (heartbeat.rs) of src/src/replication.                                  *)
(*                                                                         *)
(* Role, term, vote and votes received of a node are variables with a lock *)
(* each.  The detector, the election timer, the heartbeat sender and the   *)
(* handlers of messages are tasks that read and write them in separate     *)
(* lock sections; every step below is one section.  Threads is the set of  *)
(* tasks a node runs at the same time: with one thread handlers run one    *)
(* after the other.                                                        *)
(*                                                                         *)
(* The transport is external: the code hands requests and answers to its   *)
(* caller.  A message is delivered at most once, at any time or never.     *)
(* Timeouts are nondeterministic.  What a node has logged and committed    *)
(* does not change during an election.                                     *)
(***************************************************************************)
EXTENDS Integers, FiniteSets

CONSTANTS
    Nodes,
    Threads,
    Nobody,
    MinVotes,       \* min_votes_required
    LastSequence,   \* last_log_sequence of each node
    CommitIndex,    \* commit_index of each node
    MaxTerm,        \* bound on terms
    MaxMessages     \* bound on messages under way when a call begins

Terms == 0..MaxTerm

\* What a node has committed it has logged.
ASSUME FailoverAssumption ==
    /\ IsFiniteSet(Nodes) /\ Nobody \notin Nodes
    /\ MinVotes \in Nat /\ 2 * MinVotes > Cardinality(Nodes)
    /\ LastSequence \in [Nodes -> Nat]
    /\ CommitIndex \in [Nodes -> Nat]
    /\ \A n \in Nodes : CommitIndex[n] =< LastSequence[n]
    /\ {MaxTerm, MaxMessages} \subseteq Nat

VARIABLES
    role, current_term, voted_for,  \* RoleManager
    votes_received,  \* votes_received[n][t]: length of the vector of term t
    call,            \* call[n][h]: what thread h of node n is doing
    network,         \* messages under way
    granted,         \* history: <<voter, candidate, term>> of answered votes
    elected          \* history: <<node, term>> of won elections

roleVars == <<role, current_term, voted_for>>
vars == <<roleVars, votes_received, call, network, granted, elected>>

Roles == {"Slave", "Candidate", "Master"}
Message == [type : {"vote", "voted", "heartbeat", "alive"}, from : Nodes, to : Nodes,
            term : Terms, yes : BOOLEAN]
Idle == [step |-> "idle", peer |-> Nobody, term |-> 0, seen |-> 0]

Init ==
    /\ role = [n \in Nodes |-> "Slave"]
    /\ current_term = [n \in Nodes |-> 0]
    /\ voted_for = [n \in Nodes |-> Nobody]
    /\ votes_received = [n \in Nodes |-> [t \in Terms |-> 0]]
    /\ call = [n \in Nodes |-> [h \in Threads |-> Idle]]
    /\ network = {}
    /\ granted = {}
    /\ elected = {}
------------------------------------------------------------------------------
At(n, h, step) == call[n][h].step = step
Peer(n, h) == call[n][h].peer
Goto(n, h, step) == call' = [call EXCEPT ![n][h].step = step]
\* The call goes on with the term it has just read.
SeeAndGoto(n, h, step) ==
    call' = [call EXCEPT ![n][h].seen = current_term[n], ![n][h].step = step]

\* Mutant of Finish: the thread keeps the message it has handled.
FinishKeepingMessage(n, h) == Goto(n, h, "idle")
Finish(n, h) == call' = [call EXCEPT ![n][h] = Idle]

Send(type, n, peers, term, yes) ==
    {[type |-> type, from |-> n, to |-> m, term |-> term, yes |-> yes] : m \in peers}

\* RoleManager::set_term: a larger term, and no vote in it yet.
SetTerm(n, term) ==
    /\ current_term' = [current_term EXCEPT ![n] = IF term > @ THEN term ELSE @]
    /\ voted_for' = [voted_for EXCEPT ![n] =
                       IF term > current_term[n] THEN Nobody ELSE @]

\* Mutant of SetRole: stepping down is forgotten.
KeepRole(n, r) == role' = [role EXCEPT ![n] = IF r = "Slave" THEN @ ELSE r]
SetRole(n, r) == role' = [role EXCEPT ![n] = r]
------------------------------------------------------------------------------
(* The failure detector and the heartbeat timeout checker. *)

Detect(n, h) ==
    /\ At(n, h, "idle")
    /\ role[n] = "Slave"
    /\ current_term[n] < MaxTerm
    /\ Goto(n, h, "candidate")
    /\ UNCHANGED <<roleVars, votes_received, network, granted, elected>>

\* become_candidate: role, term and vote one after the other.
BecomeCandidate(n, h) ==
    /\ At(n, h, "candidate")
    /\ SetRole(n, "Candidate")
    /\ Goto(n, h, "increment")
    /\ UNCHANGED <<current_term, voted_for, votes_received, network,
                   granted, elected>>

IncrementTerm(n, h) ==
    /\ At(n, h, "increment")
    /\ current_term[n] < MaxTerm
    /\ SetTerm(n, current_term[n] + 1)
    /\ Goto(n, h, "vote_self")
    /\ UNCHANGED <<role, votes_received, network, granted, elected>>

\* vote_for: only the first vote of a term counts.
VoteFor(n, candidate) ==
    voted_for' = [voted_for EXCEPT ![n] = IF @ = Nobody THEN candidate ELSE @]

VoteForSelf(n, h) ==
    /\ At(n, h, "vote_self")
    /\ VoteFor(n, n)
    /\ Finish(n, h)
    /\ UNCHANGED <<role, current_term, votes_received, network,
                   granted, elected>>
------------------------------------------------------------------------------
(* The election timer: start_election. *)

ElectionTimeout(n, h) ==
    /\ At(n, h, "idle")
    /\ role[n] = "Candidate"
    /\ Goto(n, h, "election")
    /\ UNCHANGED <<roleVars, votes_received, network, granted, elected>>

ReadElectionTerm(n, h) ==
    /\ At(n, h, "election")
    /\ SeeAndGoto(n, h, "clear")
    /\ UNCHANGED <<roleVars, votes_received, network, granted, elected>>

ClearVotes(n, h) ==
    /\ At(n, h, "clear")
    /\ votes_received' = [votes_received EXCEPT ![n] = [t \in Terms |-> 0]]
    /\ Goto(n, h, "own_vote")
    /\ UNCHANGED <<roleVars, network, granted, elected>>

\* The candidate counts its own vote, whoever it has voted for, and asks.
RequestVotes(n, h) ==
    /\ At(n, h, "own_vote")
    /\ LET term == call[n][h].seen
       IN  /\ votes_received' = [votes_received EXCEPT ![n][term] = 1]
           /\ granted' = granted \cup {<<n, n, term>>}
           /\ network' = network \cup Send("vote", n, Nodes \ {n}, term, TRUE)
    /\ Goto(n, h, "check")
    /\ UNCHANGED <<roleVars, elected>>

\* check_election_result and become_master.
CheckElectionResult(n, h) ==
    /\ At(n, h, "check")
    /\ IF votes_received[n][call[n][h].seen] >= MinVotes
       THEN Goto(n, h, "win") ELSE Finish(n, h)
    /\ UNCHANGED <<roleVars, votes_received, network, granted, elected>>

BecomeMaster(n, h) ==
    /\ At(n, h, "win")
    /\ SetRole(n, "Master")
    /\ elected' = elected \cup {<<n, call[n][h].seen>>}
    /\ Finish(n, h)
    /\ UNCHANGED <<current_term, voted_for, votes_received, network,
                   granted>>
------------------------------------------------------------------------------
(* handle_vote_request. *)

\* A handler begins: the message is taken and the term is read.
Receive(n, h, m, step) ==
    /\ At(n, h, "idle")
    /\ m \in network /\ m.to = n
    /\ network' = network \ {m}
    /\ call' = [call EXCEPT ![n][h] =
                   IF step = "ignore" THEN Idle
                   ELSE [step |-> step, peer |-> m.from, term |-> m.term,
                         seen |-> current_term[n]]]
    /\ UNCHANGED <<roleVars, votes_received, granted, elected>>

ReceiveVoteRequest(n, h) ==
    \E m \in network :
        /\ m.type = "vote"
        /\ Receive(n, h, m, IF m.term > current_term[n] THEN "raise" ELSE "can_vote")

RaiseTerm(n, h) ==
    /\ At(n, h, "raise")
    /\ SetTerm(n, call[n][h].term)
    /\ Goto(n, h, "follow")
    /\ UNCHANGED <<role, votes_received, network, granted, elected>>

Follow(n, h) ==
    /\ At(n, h, "follow")
    /\ SetRole(n, "Slave")
    /\ Goto(n, h, "read_again")
    /\ UNCHANGED <<current_term, voted_for, votes_received, network,
                   granted, elected>>

ReadTermAgain(n, h) ==
    /\ At(n, h, "read_again")
    /\ SeeAndGoto(n, h, "can_vote")
    /\ UNCHANGED <<roleVars, votes_received, network, granted, elected>>

MayVote(n, h) ==
    /\ call[n][h].term >= call[n][h].seen
    /\ voted_for[n] = Nobody
    /\ LastSequence[Peer(n, h)] >= CommitIndex[n]

RejectVote(n, h) ==
    /\ At(n, h, "can_vote")
    /\ ~MayVote(n, h)
    /\ network' = network \cup Send("voted", n, {Peer(n, h)}, call[n][h].seen, FALSE)
    /\ Finish(n, h)
    /\ UNCHANGED <<roleVars, votes_received, granted, elected>>

DecideVote(n, h) ==
    /\ At(n, h, "can_vote")
    /\ MayVote(n, h)
    /\ Goto(n, h, "grant")
    /\ UNCHANGED <<roleVars, votes_received, network, granted, elected>>

\* The vote is answered with true, also when vote_for found another vote.
GrantVote(n, h) ==
    /\ At(n, h, "grant")
    /\ VoteFor(n, Peer(n, h))
    /\ network' = network \cup Send("voted", n, {Peer(n, h)}, call[n][h].seen, TRUE)
    /\ granted' = granted \cup {<<n, Peer(n, h), call[n][h].seen>>}
    /\ Finish(n, h)
    /\ UNCHANGED <<role, current_term, votes_received, elected>>
------------------------------------------------------------------------------
(* handle_vote_response. *)

\* Only a candidate reads the term and goes on.
ReceiveVote(n, h) ==
    \E m \in network :
        /\ m.type = "voted"
        /\ Receive(n, h, m, IF role[n] # "Candidate" THEN "ignore"
                            ELSE IF m.yes THEN "read_yes" ELSE "read_no")

ReadVote(n, h) ==
    /\ call[n][h].step \in {"read_yes", "read_no"}
    /\ IF call[n][h].term > current_term[n] THEN SeeAndGoto(n, h, "step_down")
       ELSE IF At(n, h, "read_yes") /\ call[n][h].term = current_term[n]
            THEN SeeAndGoto(n, h, "push") ELSE Finish(n, h)
    /\ UNCHANGED <<roleVars, votes_received, network, granted, elected>>

PushVote(n, h) ==
    /\ At(n, h, "push")
    /\ votes_received' = [votes_received EXCEPT ![n][call[n][h].seen] = @ + 1]
    /\ Goto(n, h, "check")
    /\ UNCHANGED <<roleVars, network, granted, elected>>

\* A larger term in any answer: the node takes it and steps down.
TakeTerm(n, h) ==
    /\ At(n, h, "step_down")
    /\ SetTerm(n, call[n][h].term)
    /\ Goto(n, h, "slave")
    /\ UNCHANGED <<role, votes_received, network, granted, elected>>

StepDown(n, h) ==
    /\ At(n, h, "slave")
    /\ SetRole(n, "Slave")
    /\ Finish(n, h)
    /\ UNCHANGED <<current_term, voted_for, votes_received, network,
                   granted, elected>>
------------------------------------------------------------------------------
(* Heartbeats. *)

SenderTick(n, h) ==
    /\ At(n, h, "idle")
    /\ role[n] = "Master"
    /\ Goto(n, h, "beat")
    /\ UNCHANGED <<roleVars, votes_received, network, granted, elected>>

SendHeartbeat(n, h) ==
    /\ At(n, h, "beat")
    /\ network' = network \cup
         Send("heartbeat", n, Nodes \ {n}, current_term[n], TRUE)
    /\ Finish(n, h)
    /\ UNCHANGED <<roleVars, votes_received, granted, elected>>

ReceiveHeartbeat(n, h) ==
    \E m \in network :
        /\ m.type = "heartbeat"
        /\ Receive(n, h, m, IF m.term > current_term[n] THEN "hb_raise"
                            ELSE IF m.term = current_term[n] THEN "hb_follow"
                            ELSE "hb_answer")

HeartbeatTerm(n, h) ==
    /\ At(n, h, "hb_raise")
    /\ SetTerm(n, call[n][h].term)
    /\ Goto(n, h, "hb_follow")
    /\ UNCHANGED <<role, votes_received, network, granted, elected>>

HeartbeatFollow(n, h) ==
    /\ At(n, h, "hb_follow")
    /\ SetRole(n, "Slave")
    /\ Goto(n, h, "hb_answer")
    /\ UNCHANGED <<current_term, voted_for, votes_received, network,
                   granted, elected>>

AnswerHeartbeat(n, h) ==
    /\ At(n, h, "hb_answer")
    /\ network' = network \cup
         Send("alive", n, {Peer(n, h)}, current_term[n], TRUE)
    /\ Finish(n, h)
    /\ UNCHANGED <<roleVars, votes_received, granted, elected>>

ReceiveAlive(n, h) ==
    \E m \in network :
        /\ m.type = "alive"
        /\ Receive(n, h, m, IF role[n] = "Master" THEN "read_no" ELSE "ignore")
------------------------------------------------------------------------------
Work(n, h) ==
    \/ BecomeCandidate(n, h) \/ IncrementTerm(n, h) \/ VoteForSelf(n, h)
    \/ ReadElectionTerm(n, h) \/ ClearVotes(n, h) \/ RequestVotes(n, h)
    \/ CheckElectionResult(n, h) \/ BecomeMaster(n, h)
    \/ RaiseTerm(n, h) \/ Follow(n, h) \/ ReadTermAgain(n, h)
    \/ RejectVote(n, h) \/ DecideVote(n, h) \/ GrantVote(n, h)
    \/ ReadVote(n, h) \/ PushVote(n, h) \/ TakeTerm(n, h) \/ StepDown(n, h)
    \/ SendHeartbeat(n, h) \/ HeartbeatTerm(n, h) \/ HeartbeatFollow(n, h)
    \/ AnswerHeartbeat(n, h)

Handle(n, h) ==
    \/ ReceiveVoteRequest(n, h) \/ ReceiveVote(n, h)
    \/ ReceiveHeartbeat(n, h) \/ ReceiveAlive(n, h)

Begin(n, h) ==
    \/ Detect(n, h) \/ Handle(n, h)
    \/ /\ Cardinality(network) =< MaxMessages
       /\ ElectionTimeout(n, h) \/ SenderTick(n, h)

Lose ==
    /\ \E m \in network : network' = network \ {m}
    /\ UNCHANGED <<roleVars, votes_received, call, granted, elected>>

Next == Lose \/ \E n \in Nodes, h \in Threads : Begin(n, h) \/ Work(n, h)

Spec == Init /\ [][Next]_vars

\* Every call runs to its end before another one begins.
AllIdle == \A n \in Nodes, h \in Threads : At(n, h, "idle")
SerialNext ==
    \/ AllIdle /\ Lose
    \/ \E n \in Nodes, h \in Threads : (AllIdle /\ Begin(n, h)) \/ Work(n, h)
SerialSpec == Init /\ [][SerialNext]_vars
------------------------------------------------------------------------------
(* Properties. *)

Steps == {"idle", "candidate", "increment", "vote_self", "election", "clear",
          "own_vote", "check", "win", "raise", "follow", "read_again", "can_vote",
          "grant", "read_yes", "read_no", "push", "step_down", "slave", "beat",
          "hb_raise", "hb_follow", "hb_answer"}

\* Every variable keeps its type; an idle thread has nothing of a call left.
TypeOK ==
    /\ role \in [Nodes -> Roles]
    /\ current_term \in [Nodes -> Terms]
    /\ voted_for \in [Nodes -> Nodes \cup {Nobody}]
    /\ votes_received \in [Nodes -> [Terms -> Nat]]
    /\ call \in [Nodes -> [Threads -> [step : Steps, peer : Nodes \cup {Nobody},
                                       term : Terms, seen : Terms]]]
    /\ \A n \in Nodes, h \in Threads : At(n, h, "idle") => call[n][h] = Idle
    /\ network \subseteq Message
    /\ granted \subseteq Nodes \X Nodes \X Terms
    /\ elected \subseteq Nodes \X Terms

\* A node votes for one candidate of a term, its own vote included: what the
\* documentation of the terms promises.
OneVotePerTerm ==
    \A g1, g2 \in granted : g1[1] = g2[1] /\ g1[3] = g2[3] => g1[2] = g2[2]

\* At most one node wins the election of a term, over all messages, repeated
\* elections and steps down.
OneMasterPerTerm == \A e1, e2 \in elected : e1[2] = e2[2] => e1[1] = e2[1]

\* Who wins has everything that a majority has committed.
MasterHoldsCommitted ==
    \A e \in elected :
        Cardinality({n \in Nodes : CommitIndex[n] =< LastSequence[e[1]]}) >= MinVotes

\* A node that is Master between two calls won the election of its own term:
\* it has stepped down from every older one.  Heartbeats come only from the
\* winner of their term.
MastersElected ==
    /\ AllIdle => \A n \in Nodes :
         role[n] = "Master" => <<n, current_term[n]>> \in elected
    /\ \A m \in network : m.type = "heartbeat" => <<m.from, m.term>> \in elected

\* So no two nodes are masters, or send heartbeats, of one term, and a master
\* has what was committed.
MastersOfTheirTerm ==
    OneVotePerTerm /\ OneMasterPerTerm /\ MastersElected /\ MasterHoldsCommitted
=============================================================================
