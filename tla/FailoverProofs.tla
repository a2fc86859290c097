--------------------------- MODULE FailoverProofs ---------------------------
(***************************************************************************)
(* Proofs about Failover: when a node runs its calls one after the other,  *)
(* whatever the other nodes do meanwhile and whatever messages are lost or *)
(* delayed, a term has one master, masters and heartbeats belong to won    *)
(* elections, and a winner has what a majority has committed.              *)
(*                                                                         *)
(* The runs check SerialSpec, in which no two nodes run calls at a time;   *)
(* the invariant is proved for OwnSpec, in which only the calls of one     *)
(* node wait for each other, and SerialSpec implies OwnSpec.               *)
(*                                                                         *)
(* At the end: the votes of a node that is asked over gRPC (ReplicationRpc).*)
(***************************************************************************)
EXTENDS Failover, ReplicationRpc, FiniteSetTheorems, TLAPS

NodeIdle(n) == \A h \in Threads : At(n, h, "idle")
OwnNext ==
    \/ Lose
    \/ \E n \in Nodes, h \in Threads : (NodeIdle(n) /\ Begin(n, h)) \/ Work(n, h)
OwnSpec == Init /\ [][OwnNext]_vars
------------------------------------------------------------------------------
(* The inductive invariant. *)

OneRuns ==
    \A n \in Nodes : \A h, g \in Threads :
        ~At(n, h, "idle") /\ ~At(n, g, "idle") => h = g

\* Who has voted for n in term t; the message that says so; a call of n that is
\* counting the vote of m; and the votes that are counted or lost.
Voters(n, t) == {m \in Nodes : <<m, n, t>> \in granted}
Voted(m, n, t) == [type |-> "voted", from |-> m, to |-> n, term |-> t, yes |-> TRUE]
Counting(n, m, t) ==
    \E h \in Threads : /\ call[n][h].step \in {"read_yes", "push"}
                       /\ call[n][h].peer = m /\ call[n][h].term = t
Arrived(n, t) == {m \in Voters(n, t) : Voted(m, n, t) \notin network /\ ~Counting(n, m, t)}

\* A vote for the term a node is in is still in voted_for, and nobody votes for
\* a node that lacks what it has committed.
VotesStand ==
    \A m, n \in Nodes : \A t \in Terms : <<m, n, t>> \in granted =>
        /\ t =< current_term[m]
        /\ t = current_term[m] => voted_for[m] = n
        /\ CommitIndex[m] =< LastSequence[n]

VotesCounted ==
    \A n \in Nodes : \A t \in Terms : votes_received[n][t] =< Cardinality(Arrived(n, t))

Majority ==
    \A n \in Nodes : \A t \in Terms :
        <<n, t>> \in elected => Cardinality(Voters(n, t)) >= MinVotes

MessagesTrue ==
    \A m \in network :
        /\ m.from # m.to
        /\ m.type = "voted" /\ m.yes => <<m.from, m.to, m.term>> \in granted
        /\ m.type = "heartbeat" => <<m.from, m.term>> \in elected

\* What is so when a call of n is at step s, with peer p and terms t and u.
HoldsAt(n, s, p, t, u) ==
    /\ s \in {"raise", "follow", "read_again", "can_vote", "grant", "read_yes",
              "push", "hb_answer", "hb_raise", "hb_follow"} => p \in Nodes \ {n}
    /\ s \in {"election", "clear", "own_vote", "check", "win", "read_yes", "push",
              "increment", "vote_self"} => role[n] = "Candidate"
    /\ s \in {"clear", "own_vote", "check", "win", "can_vote", "grant", "push"} =>
         u = current_term[n]
    /\ s \in {"raise", "step_down", "hb_raise"} => t > current_term[n]
    /\ s = "push" => t = u
    /\ s \in {"candidate", "read_again"} => role[n] = "Slave"
    /\ s \in {"vote_self", "grant"} => voted_for[n] = Nobody
    /\ s = "grant" => CommitIndex[n] =< LastSequence[p]
    /\ s \in {"read_yes", "push"} =>
         <<p, n, t>> \in granted /\ Voted(p, n, t) \notin network
    /\ s = "win" => Cardinality(Voters(n, u)) >= MinVotes
    /\ s = "beat" => role[n] = "Master"

CallTrue(n, h) ==
    HoldsAt(n, call[n][h].step, call[n][h].peer, call[n][h].term, call[n][h].seen)

\* A candidate has voted for itself and a master has won its term, but for the
\* steps that change role and term one after the other.
Changing(n) == \E h \in Threads : call[n][h].step \in {"follow", "slave", "hb_follow"}
Standing(n) == \E h \in Threads : call[n][h].step \in {"increment", "vote_self"}
RoleTrue(n) ==
    /\ role[n] = "Candidate" => voted_for[n] = n \/ Changing(n) \/ Standing(n)
    /\ role[n] = "Master" => <<n, current_term[n]>> \in elected \/ Changing(n)

IInv ==
    /\ TypeOK /\ OneRuns /\ VotesStand /\ OneVotePerTerm /\ VotesCounted
    /\ Majority /\ MessagesTrue
    /\ \A n \in Nodes, h \in Threads : CallTrue(n, h)
    /\ \A n \in Nodes : RoleTrue(n)
------------------------------------------------------------------------------
(* How a call goes on. *)

Call == [step : Steps, peer : Nodes \cup {Nobody}, term : Terms, seen : Terms]

\* No other call of the node runs.
Alone(n, h) == \A g \in Threads : g # h => call[n][g] = Idle

\* The call goes to step s, with peer p and terms t and u.
Moved(n, h, s, p, t, u) ==
    /\ call' \in [Nodes -> [Threads -> Call]]
    /\ call'[n][h] = [step |-> s, peer |-> p, term |-> t, seen |-> u]
    /\ s = "idle" => call'[n][h] = Idle
    /\ \A g \in Threads : g # h => call'[n][g] = Idle
    /\ \A m \in Nodes : m # n => call'[m] = call[m]

LEMMA Constants ==
    /\ IsFiniteSet(Nodes) /\ Nobody \notin Nodes
    /\ MinVotes \in Nat /\ 2 * MinVotes > Cardinality(Nodes)
    /\ LastSequence \in [Nodes -> Nat] /\ CommitIndex \in [Nodes -> Nat]
    /\ \A n \in Nodes : CommitIndex[n] =< LastSequence[n]
    /\ MaxTerm \in Nat /\ Terms \subseteq Nat /\ 0 \in Terms
BY FailoverAssumption DEF Terms

LEMMA CallFields ==
    \A c \in Call :
        /\ c = [step |-> c.step, peer |-> c.peer, term |-> c.term, seen |-> c.seen]
        /\ c.step \in Steps /\ c.peer \in Nodes \cup {Nobody}
        /\ c.term \in Terms /\ c.seen \in Terms
BY DEF Call

LEMMA CallExcept ==
    ASSUME NEW c \in Call, NEW s \in Steps, NEW u \in Terms
    PROVE  /\ [c EXCEPT !.step = s]
                = [step |-> s, peer |-> c.peer, term |-> c.term, seen |-> c.seen]
           /\ [[c EXCEPT !.seen = u] EXCEPT !.step = s]
                = [step |-> s, peer |-> c.peer, term |-> c.term, seen |-> u]
<1>1. ASSUME NEW d \in Call
      PROVE  /\ [d EXCEPT !.step = s] \in Call
             /\ [d EXCEPT !.step = s].step = s
             /\ [d EXCEPT !.step = s].peer = d.peer
             /\ [d EXCEPT !.step = s].term = d.term
             /\ [d EXCEPT !.step = s].seen = d.seen
  BY DEF Call
<1>2. /\ [c EXCEPT !.seen = u] \in Call
      /\ [c EXCEPT !.seen = u].peer = c.peer
      /\ [c EXCEPT !.seen = u].term = c.term
      /\ [c EXCEPT !.seen = u].seen = u
  BY DEF Call
<1>3. ASSUME NEW d \in Call
      PROVE [d EXCEPT !.step = s]
              = [step |-> s, peer |-> d.peer, term |-> d.term, seen |-> d.seen]
  <2>1. PICK e \in Call : e = [d EXCEPT !.step = s]
    BY <1>1
  <2>2. e.step = s /\ e.peer = d.peer /\ e.term = d.term /\ e.seen = d.seen
    BY <1>1, <2>1, Zenon
  <2>3. e = [step |-> e.step, peer |-> e.peer, term |-> e.term, seen |-> e.seen]
    BY CallFields
  <2> QED
    BY ONLY <2>1, <2>2, <2>3, Zenon
<1> QED
  BY <1>2, <1>3, Zenon

LEMMA Typed ==
    ASSUME TypeOK, NEW n \in Nodes, NEW h \in Threads
    PROVE  /\ call[n][h] \in Call
           /\ call[n][h] = [step |-> call[n][h].step, peer |-> call[n][h].peer,
                            term |-> call[n][h].term, seen |-> call[n][h].seen]
           /\ call[n][h].step \in Steps /\ call[n][h].peer \in Nodes \cup {Nobody}
           /\ call[n][h].term \in Terms /\ call[n][h].seen \in Terms
           /\ current_term[n] \in Terms /\ current_term[n] \in Nat
           /\ role[n] \in Roles /\ voted_for[n] \in Nodes \cup {Nobody}
<1>1. call[n][h] \in Call
  BY DEF TypeOK, Call
<1>2. /\ current_term[n] \in Terms /\ role[n] \in Roles
      /\ voted_for[n] \in Nodes \cup {Nobody}
  BY DEF TypeOK
<1> QED
  BY <1>1, <1>2, CallFields, Constants

LEMMA PutMoves ==
    ASSUME TypeOK, NEW n \in Nodes, NEW h \in Threads, Alone(n, h),
           NEW s \in Steps, NEW p \in Nodes \cup {Nobody}, NEW t \in Terms, NEW u \in Terms,
           s = "idle" => p = Nobody /\ t = 0 /\ u = 0,
           call' = [call EXCEPT ![n][h] = [step |-> s, peer |-> p, term |-> t, seen |-> u]]
    PROVE  Moved(n, h, s, p, t, u)
<1>1. [step |-> s, peer |-> p, term |-> t, seen |-> u] \in Call
  BY DEF Call
<1>2. call \in [Nodes -> [Threads -> Call]]
  BY DEF TypeOK, Call
<1>3. call' \in [Nodes -> [Threads -> Call]]
  BY <1>1, <1>2
<1>4. /\ call'[n][h] = [step |-> s, peer |-> p, term |-> t, seen |-> u]
      /\ \A g \in Threads : g # h => call'[n][g] = call[n][g]
      /\ \A m \in Nodes : m # n => call'[m] = call[m]
  BY <1>1, <1>2
<1> QED
  BY <1>3, <1>4 DEF Moved, Alone, Idle

LEMMA FinishMoves ==
    ASSUME TypeOK, NEW n \in Nodes, NEW h \in Threads, Alone(n, h), Finish(n, h)
    PROVE  Moved(n, h, "idle", Nobody, 0, 0)
BY PutMoves, Constants DEF Finish, Idle, Steps

LEMMA SeeMoves ==
    ASSUME TypeOK, NEW n \in Nodes, NEW h \in Threads, Alone(n, h),
           NEW s \in Steps \ {"idle"}, SeeAndGoto(n, h, s)
    PROVE  Moved(n, h, s, call[n][h].peer, call[n][h].term, current_term[n])
<1>1. PICK p, t, u : p = call[n][h].peer /\ t = call[n][h].term /\ u = current_term[n]
  OBVIOUS
<1>2. p \in Nodes \cup {Nobody} /\ t \in Terms /\ u \in Terms
  BY <1>1, Typed
<1>3. call' = [call EXCEPT ![n][h] = [step |-> s, peer |-> p, term |-> t, seen |-> u]]
  <2>1. [[call[n][h] EXCEPT !.seen = u] EXCEPT !.step = s]
           = [step |-> s, peer |-> p, term |-> t, seen |-> u]
    <3>1. PICK c \in Call : c = call[n][h]
      BY Typed
    <3>2. p = c.peer /\ t = c.term
      BY <1>1, <3>1
    <3>3. s \in Steps /\ u \in Terms
      BY <1>2
    <3> QED
      <4>1. [[c EXCEPT !.seen = u] EXCEPT !.step = s]
              = [step |-> s, peer |-> c.peer, term |-> c.term, seen |-> u]
        BY <3>3, CallExcept
      <4> QED
        BY ONLY <3>1, <3>2, <4>1
  <2>2. call \in [Nodes -> [Threads -> Call]]
    BY DEF TypeOK, Call
  <2>3. call' = [call EXCEPT ![n][h] = [[call[n][h] EXCEPT !.seen = u] EXCEPT !.step = s]]
    BY <1>1, <2>2 DEF SeeAndGoto
  <2> QED
    BY <2>1, <2>3
<1> QED
  BY <1>1, <1>2, <1>3, PutMoves

LEMMA GotoMoves ==
    ASSUME TypeOK, NEW n \in Nodes, NEW h \in Threads, Alone(n, h),
           NEW s \in Steps \ {"idle"}, Goto(n, h, s)
    PROVE  Moved(n, h, s, call[n][h].peer, call[n][h].term, call[n][h].seen)
<1>1. PICK p, t, u : p = call[n][h].peer /\ t = call[n][h].term /\ u = call[n][h].seen
  OBVIOUS
<1>2. p \in Nodes \cup {Nobody} /\ t \in Terms /\ u \in Terms
  BY <1>1, Typed
<1>3. call' = [call EXCEPT ![n][h] = [step |-> s, peer |-> p, term |-> t, seen |-> u]]
  <2>1. [call[n][h] EXCEPT !.step = s] = [step |-> s, peer |-> p, term |-> t, seen |-> u]
    BY <1>1, Typed, CallExcept
  <2>2. call' = [call EXCEPT ![n][h] = [call[n][h] EXCEPT !.step = s]]
    BY DEF Goto
  <2> QED
    BY <2>1, <2>2
<1> QED
  BY <1>1, <1>2, <1>3, PutMoves
------------------------------------------------------------------------------
(* What a step of one node leaves true of the others and of the messages. *)

LEMMA Subsets ==
    ASSUME NEW A \in SUBSET Nodes, NEW B \in SUBSET A
    PROVE  /\ Cardinality(A) \in Nat /\ Cardinality(B) \in Nat
           /\ Cardinality(B) =< Cardinality(A)
<1>1. IsFiniteSet(A)
  BY Constants, FS_Subset
<1> QED
  BY <1>1, FS_Subset, FS_CardinalityType

LEMMA VotersGrow ==
    ASSUME granted \subseteq granted', NEW n, NEW t
    PROVE  /\ Voters(n, t) \subseteq Voters(n, t)'
           /\ Cardinality(Voters(n, t)) >= MinVotes => Cardinality(Voters(n, t)') >= MinVotes
<1>1. Voters(n, t) \subseteq Voters(n, t)' /\ Voters(n, t)' \subseteq Nodes
  BY DEF Voters
<1>2. /\ Cardinality(Voters(n, t)) \in Nat /\ Cardinality(Voters(n, t)') \in Nat
      /\ Cardinality(Voters(n, t)) =< Cardinality(Voters(n, t)')
  BY <1>1, Subsets
<1> QED
  BY <1>1, <1>2, Constants

\* Only node n changes its role, its term and its vote, and its vote of a term
\* stays.
Frame(n) ==
    /\ \A m \in Nodes : m # n =>
         role'[m] = role[m] /\ current_term'[m] = current_term[m] /\ voted_for'[m] = voted_for[m]
    /\ current_term'[n] >= current_term[n]
    /\ current_term'[n] = current_term[n] /\ voted_for[n] # Nobody => voted_for'[n] = voted_for[n]

\* A vote that is on its way was given in this step or was on its way before.
NoOldVotes ==
    \A m, n \in Nodes : \A t \in Terms :
        <<m, n, t>> \in granted /\ Voted(m, n, t) \in network' => Voted(m, n, t) \in network

LEMMA OneRunsKept ==
    ASSUME IInv, NEW n \in Nodes, NEW h \in Threads,
           NEW s, NEW p, NEW t, NEW u, Moved(n, h, s, p, t, u)
    PROVE  OneRuns'
<1>1. ASSUME NEW m \in Nodes, m # n, NEW g \in Threads, NEW k \in Threads,
             ~At(m, g, "idle")', ~At(m, k, "idle")'
      PROVE  g = k
  BY <1>1 DEF Moved, IInv, OneRuns, At
<1>2. ASSUME NEW g \in Threads, ~At(n, g, "idle")' PROVE g = h
  BY <1>2 DEF Moved, At, Idle
<1> QED
  BY <1>1, <1>2 DEF OneRuns

LEMMA CallsKept ==
    ASSUME IInv, NEW n \in Nodes, NEW h \in Threads,
           NEW s, NEW p, NEW t, NEW u, Moved(n, h, s, p, t, u),
           Frame(n), granted \subseteq granted', NoOldVotes, HoldsAt(n, s, p, t, u)'
    PROVE  \A m \in Nodes, g \in Threads : CallTrue(m, g)'
<1>1. ASSUME NEW m \in Nodes, m # n, NEW g \in Threads
      PROVE  CallTrue(m, g)'
  <2>1. PICK c \in Call : c = call[m][g]
    BY Typed DEF IInv
  <2>2. c = call'[m][g] /\ HoldsAt(m, c.step, c.peer, c.term, c.seen)
    BY <1>1, <2>1 DEF Moved, IInv, CallTrue
  <2>3. /\ role'[m] = role[m] /\ current_term'[m] = current_term[m]
        /\ voted_for'[m] = voted_for[m]
    BY <1>1 DEF Frame
  <2>4. c.step \in {"read_yes", "push"} =>
          <<c.peer, m, c.term>> \in granted' /\ Voted(c.peer, m, c.term) \notin network'
    <3>1. HAVE c.step \in {"read_yes", "push"}
    <3>2. /\ <<c.peer, m, c.term>> \in granted /\ Voted(c.peer, m, c.term) \notin network
          /\ c.peer \in Nodes
      BY <2>2, <3>1 DEF HoldsAt
    <3>3. c.term \in Terms
      BY CallFields
    <3> QED
      BY <3>2, <3>3 DEF NoOldVotes
  <2>5. c.step = "win" => Cardinality(Voters(m, c.seen)') >= MinVotes
    BY <2>2, VotersGrow DEF HoldsAt
  <2>6. HoldsAt(m, c.step, c.peer, c.term, c.seen)'
    BY ONLY <2>2, <2>3, <2>4, <2>5 DEF HoldsAt, Voted
  <2> QED
    BY <2>2, <2>6, Zenon DEF CallTrue
<1>2. ASSUME NEW g \in Threads, g # h PROVE CallTrue(n, g)'
  <2>1. call'[n][g].step = "idle"
    BY <1>2 DEF Moved, Idle
  <2> QED
    BY <2>1 DEF CallTrue, HoldsAt
<1>3. CallTrue(n, h)'
  <2>1. /\ call'[n][h].step = s /\ call'[n][h].peer = p
        /\ call'[n][h].term = t /\ call'[n][h].seen = u
    BY DEF Moved
  <2> QED
    BY <2>1, Zenon DEF CallTrue
<1> QED
  BY <1>1, <1>2, <1>3

LEMMA RolesKept ==
    ASSUME IInv, NEW n \in Nodes, NEW h \in Threads,
           NEW s, NEW p, NEW t, NEW u, Moved(n, h, s, p, t, u),
           Frame(n), elected \subseteq elected', RoleTrue(n)'
    PROVE  \A m \in Nodes : RoleTrue(m)'
<1>1. ASSUME NEW m \in Nodes, m # n PROVE RoleTrue(m)'
  <2>1. /\ role'[m] = role[m] /\ current_term'[m] = current_term[m]
        /\ voted_for'[m] = voted_for[m] /\ call'[m] = call[m]
    BY <1>1 DEF Frame, Moved
  <2>2. Changing(m)' = Changing(m) /\ Standing(m)' = Standing(m)
    BY <2>1 DEF Changing, Standing
  <2>3. RoleTrue(m)
    BY DEF IInv
  <2> QED
    BY <2>1, <2>2, <2>3 DEF RoleTrue
<1> QED
  BY <1>1

LEMMA VotesStandKept ==
    ASSUME IInv, NEW n \in Nodes, Frame(n), TypeOK', granted' = granted
    PROVE  VotesStand' /\ OneVotePerTerm'
<1>1. ASSUME NEW m \in Nodes, NEW k \in Nodes, NEW t \in Terms, <<m, k, t>> \in granted
      PROVE  /\ t =< current_term'[m]
             /\ t = current_term'[m] => voted_for'[m] = k
             /\ CommitIndex[m] =< LastSequence[k]
  <2>1. /\ t =< current_term[m]
        /\ t = current_term[m] => voted_for[m] = k
    BY <1>1 DEF IInv, VotesStand
  <2>2. CommitIndex[m] =< LastSequence[k]
    BY <1>1 DEF IInv, VotesStand
  <2>3. current_term[m] \in Nat /\ current_term'[m] \in Nat /\ t \in Nat /\ k # Nobody
    BY Constants DEF IInv, TypeOK
  <2>4. /\ current_term'[m] >= current_term[m]
        /\ current_term'[m] = current_term[m] /\ voted_for[m] # Nobody => voted_for'[m] = voted_for[m]
    BY <2>3 DEF Frame
  <2> QED
    BY <2>1, <2>2, <2>3, <2>4
<1>2. VotesStand'
  BY <1>1 DEF VotesStand
<1> QED
  BY <1>2 DEF IInv, OneVotePerTerm

LEMMA MajorityKept ==
    ASSUME IInv, granted \subseteq granted', elected' = elected
    PROVE  Majority'
BY VotersGrow DEF IInv, Majority

\* No vote that has arrived is on its way or being counted again.
ArrivedStay ==
    \A m \in Nodes : \A t \in Terms : Arrived(m, t) \subseteq Arrived(m, t)'

LEMMA CountedKept ==
    ASSUME IInv, votes_received' = votes_received, ArrivedStay
    PROVE  VotesCounted'
<1>1. ASSUME NEW m \in Nodes, NEW t \in Terms
      PROVE  votes_received[m][t] =< Cardinality(Arrived(m, t)')
  <2>1. Arrived(m, t) \subseteq Arrived(m, t)' /\ Arrived(m, t)' \subseteq Nodes
    BY DEF ArrivedStay, Arrived, Voters
  <2>2. /\ Cardinality(Arrived(m, t)) \in Nat /\ Cardinality(Arrived(m, t)') \in Nat
        /\ Cardinality(Arrived(m, t)) =< Cardinality(Arrived(m, t)')
    BY <2>1, Subsets
  <2>3. /\ votes_received[m][t] =< Cardinality(Arrived(m, t))
        /\ votes_received[m][t] \in Nat
    BY DEF IInv, VotesCounted, TypeOK
  <2> QED
    BY <2>2, <2>3
<1> QED
  BY <1>1 DEF VotesCounted

LEMMA ArrivedKept ==
    ASSUME IInv, NEW n \in Nodes, NEW h \in Threads,
           NEW s, NEW p, NEW t, NEW u, Moved(n, h, s, p, t, u),
           granted \subseteq granted', NoOldVotes,
           \/ s \notin {"read_yes", "push"}
           \/ Voted(p, n, t) \in network
           \/ /\ call[n][h].step \in {"read_yes", "push"}
              /\ call[n][h].peer = p /\ call[n][h].term = t
    PROVE  ArrivedStay
<1>1. ASSUME NEW m \in Nodes, NEW v \in Terms, NEW k \in Arrived(m, v)
      PROVE  k \in Arrived(m, v)'
  <2>1. /\ k \in Nodes /\ <<k, m, v>> \in granted
        /\ Voted(k, m, v) \notin network /\ ~Counting(m, k, v)
    BY DEF Arrived, Voters
  <2>2. Voted(k, m, v) \notin network'
    BY <2>1 DEF NoOldVotes
  <2>3. ~Counting(m, k, v)'
    <3>1. CASE m # n
      BY <2>1, <3>1 DEF Counting, Moved
    <3>2. CASE m = n
      <4>1. SUFFICES ASSUME NEW g \in Threads, call'[n][g].step \in {"read_yes", "push"},
                            call'[n][g].peer = k, call'[n][g].term = v
                     PROVE  FALSE
        BY <3>2 DEF Counting
      <4>2. g = h
        BY <4>1 DEF Moved, Idle
      <4>3. s \in {"read_yes", "push"} /\ p = k /\ t = v
        BY <4>1, <4>2 DEF Moved
      <4>4. Voted(p, n, t) \notin network
        BY <2>1, <3>2, <4>3
      <4>5. Counting(n, k, v)
        BY <4>3, <4>4 DEF Counting
      <4> QED
        BY <2>1, <3>2, <4>5
    <3> QED
      BY <3>1, <3>2
  <2> QED
    BY <2>1, <2>2, <2>3 DEF Arrived, Voters, Voted
<1> QED
  BY <1>1 DEF ArrivedStay

\* A step that neither gives nor counts a vote nor wins an election.
LEMMA Ordinary ==
    ASSUME IInv, NEW n \in Nodes, NEW h \in Threads,
           NEW s, NEW p, NEW t, NEW u, Moved(n, h, s, p, t, u),
           TypeOK', Frame(n),
           granted' = granted, elected' = elected, votes_received' = votes_received,
           \A m \in network' : m \in network \/
              /\ m.from # m.to
              /\ ~(m.type = "voted" /\ m.yes)
              /\ m.type = "heartbeat" => <<m.from, m.term>> \in elected,
           \/ s \notin {"read_yes", "push"}
           \/ Voted(p, n, t) \in network
           \/ /\ call[n][h].step \in {"read_yes", "push"}
              /\ call[n][h].peer = p /\ call[n][h].term = t,
           HoldsAt(n, s, p, t, u)', RoleTrue(n)'
    PROVE  IInv'
<1>1. NoOldVotes
  BY DEF NoOldVotes, Voted
<1>2. MessagesTrue'
  <2>1. ASSUME NEW m \in network' PROVE
          /\ m.from # m.to
          /\ m.type = "voted" /\ m.yes => <<m.from, m.to, m.term>> \in granted
          /\ m.type = "heartbeat" => <<m.from, m.term>> \in elected
    BY DEF IInv, MessagesTrue
  <2> QED
    BY <2>1 DEF MessagesTrue
<1>3. VotesStand' /\ OneVotePerTerm'
  BY VotesStandKept
<1>4. VotesCounted'
  BY <1>1, ArrivedKept, CountedKept
<1>5. Majority'
  BY MajorityKept
<1>6. \A m \in Nodes, g \in Threads : CallTrue(m, g)'
  BY <1>1, CallsKept
<1>7. \A m \in Nodes : RoleTrue(m)'
  BY RolesKept
<1>8. OneRuns'
  BY OneRunsKept
<1> QED
  BY <1>2, <1>3, <1>4, <1>5, <1>6, <1>7, <1>8 DEF IInv
------------------------------------------------------------------------------
(* The steps that change role, term or vote, or only the call. *)

LEMMA TypedAfter ==
    ASSUME IInv, NEW n \in Nodes, NEW h \in Threads,
           NEW s, NEW p, NEW t, NEW u, Moved(n, h, s, p, t, u)
    PROVE  /\ call' \in [Nodes -> [Threads -> Call]]
           /\ \A m \in Nodes, g \in Threads : At(m, g, "idle")' => call'[m][g] = Idle
<1>1. ASSUME NEW m \in Nodes, m # n, NEW g \in Threads, At(m, g, "idle")'
      PROVE  call'[m][g] = Idle
  BY <1>1 DEF Moved, IInv, TypeOK, At
<1>2. ASSUME NEW g \in Threads, At(n, g, "idle")' PROVE call'[n][g] = Idle
  BY <1>2 DEF Moved, At
<1> QED
  BY <1>1, <1>2 DEF Moved

\* RoleTrue of a node whose only call that may run is at step s.
RoleAt(n, s) ==
    /\ role[n] = "Candidate" =>
         voted_for[n] = n \/ s \in {"follow", "slave", "hb_follow", "increment", "vote_self"}
    /\ role[n] = "Master" =>
         <<n, current_term[n]>> \in elected \/ s \in {"follow", "slave", "hb_follow"}

LEMMA RoleAfter ==
    ASSUME NEW n \in Nodes, NEW h \in Threads,
           NEW s, NEW p, NEW t, NEW u, Moved(n, h, s, p, t, u), RoleAt(n, s)'
    PROVE  RoleTrue(n)'
<1>1. call'[n][h].step = s
  BY DEF Moved
<1> QED
  BY <1>1 DEF RoleAt, RoleTrue, Changing, Standing

LEMMA Now ==
    ASSUME IInv, NEW n \in Nodes, NEW h \in Threads, Alone(n, h)
    PROVE  /\ HoldsAt(n, call[n][h].step, call[n][h].peer, call[n][h].term, call[n][h].seen)
           /\ RoleAt(n, call[n][h].step)
<1>1. CallTrue(n, h) /\ RoleTrue(n)
  BY DEF IInv
<1>2. /\ Changing(n) => call[n][h].step \in {"follow", "slave", "hb_follow"}
      /\ Standing(n) => call[n][h].step \in {"increment", "vote_self"}
  BY DEF Alone, Idle, Changing, Standing
<1> QED
  BY <1>1, <1>2 DEF CallTrue, RoleTrue, RoleAt

\* A step that changes the role of a node alone.
LEMMA RoleStep ==
    ASSUME IInv, NEW n \in Nodes, NEW h \in Threads,
           NEW s, NEW p, NEW t, NEW u, Moved(n, h, s, p, t, u),
           NEW r \in {"Slave", "Candidate"}, SetRole(n, r),
           UNCHANGED <<current_term, voted_for, votes_received, network, granted, elected>>,
           r = "Candidate" => s = "increment",
           s \notin {"read_yes", "push"}, HoldsAt(n, s, p, t, u)'
    PROVE  IInv'
<1>1. role' = [role EXCEPT ![n] = r] /\ role'[n] = r
  BY DEF SetRole, IInv, TypeOK
<1>2. TypeOK'
  <2>1. role' \in [Nodes -> Roles]
    BY <1>1 DEF IInv, TypeOK, Roles
  <2> QED
    BY <2>1, TypedAfter DEF IInv, TypeOK, Call
<1>3. Frame(n)
  <2>1. current_term[n] \in Nat
    BY Typed DEF IInv
  <2> QED
    BY <1>1, <2>1 DEF Frame, IInv, TypeOK
<1>4. RoleAt(n, s)'
  BY <1>1 DEF RoleAt
<1>5. RoleTrue(n)'
  BY <1>4, RoleAfter
<1>6. /\ granted' = granted /\ elected' = elected
      /\ votes_received' = votes_received /\ network' = network
  OBVIOUS
<1> QED
  BY <1>2, <1>3, <1>5, <1>6, Ordinary

\* A step into a larger term.
LEMMA TermStep ==
    ASSUME IInv, NEW n \in Nodes, NEW h \in Threads,
           NEW s, NEW p, NEW t, NEW u, Moved(n, h, s, p, t, u),
           NEW k \in Terms, k > current_term[n], SetTerm(n, k),
           UNCHANGED <<role, votes_received, network, granted, elected>>,
           s \in {"follow", "slave", "hb_follow"} \/ (s = "vote_self" /\ role[n] = "Candidate"),
           HoldsAt(n, s, p, t, u)'
    PROVE  IInv'
<1>1. /\ current_term' = [current_term EXCEPT ![n] = k]
      /\ voted_for' = [voted_for EXCEPT ![n] = Nobody]
  BY DEF SetTerm, IInv, TypeOK
<1>2. TypeOK'
  <2>1. current_term' \in [Nodes -> Terms] /\ voted_for' \in [Nodes -> Nodes \cup {Nobody}]
    BY <1>1 DEF IInv, TypeOK
  <2> QED
    BY <2>1, TypedAfter DEF IInv, TypeOK, Call
<1>3. Frame(n)
  <2>1. current_term[n] \in Nat /\ k \in Nat /\ current_term'[n] = k
    BY <1>1, Typed, Constants DEF IInv, TypeOK
  <2> QED
    BY <1>1, <2>1 DEF Frame, IInv, TypeOK
<1>4. RoleAt(n, s)'
  BY DEF RoleAt
<1>5. RoleTrue(n)'
  BY <1>4, RoleAfter
<1>6. /\ granted' = granted /\ elected' = elected /\ votes_received' = votes_received
      /\ network' = network /\ s \notin {"read_yes", "push"}
  OBVIOUS
<1> QED
  BY <1>2, <1>3, <1>5, <1>6, Ordinary

\* A step of the call alone, that may send messages which give no vote, or take
\* one from the network.
LEMMA CallStep ==
    ASSUME IInv, NEW n \in Nodes, NEW h \in Threads,
           NEW s, NEW p, NEW t, NEW u, Moved(n, h, s, p, t, u),
           UNCHANGED <<roleVars, votes_received, granted, elected>>,
           network' \subseteq Message,
           \A m \in network' : m \in network \/
              /\ m.from # m.to
              /\ ~(m.type = "voted" /\ m.yes)
              /\ m.type = "heartbeat" => <<m.from, m.term>> \in elected,
           \/ s \notin {"read_yes", "push"}
           \/ Voted(p, n, t) \in network
           \/ /\ call[n][h].step \in {"read_yes", "push"}
              /\ call[n][h].peer = p /\ call[n][h].term = t,
           HoldsAt(n, s, p, t, u)', RoleAt(n, s)
    PROVE  IInv'
<1>1. TypeOK'
  BY TypedAfter DEF IInv, TypeOK, roleVars, Call
<1>2. Frame(n)
  <2>1. current_term[n] \in Nat
    BY Typed DEF IInv
  <2> QED
    BY <2>1 DEF Frame, roleVars
<1>3. RoleAt(n, s)'
  BY DEF RoleAt, roleVars
<1>4. RoleTrue(n)'
  BY <1>3, RoleAfter
<1>5. granted' = granted /\ elected' = elected /\ votes_received' = votes_received
  OBVIOUS
<1> QED
  BY <1>1, <1>2, <1>4, <1>5, Ordinary
------------------------------------------------------------------------------
(* The actions, in the groups above. *)

LEMMA RoleActions ==
    ASSUME IInv, NEW n \in Nodes, NEW h \in Threads, Alone(n, h),
           \/ BecomeCandidate(n, h) \/ Follow(n, h)
           \/ StepDown(n, h) \/ HeartbeatFollow(n, h)
    PROVE  IInv'
<1>1. PICK p, t, u : p = call[n][h].peer /\ t = call[n][h].term /\ u = call[n][h].seen
  OBVIOUS
<1>2. TypeOK /\ HoldsAt(n, call[n][h].step, p, t, u)
  BY <1>1, Now DEF IInv
<1>3. ASSUME NEW r \in Roles, SetRole(n, r) PROVE role'[n] = r
  BY <1>2, <1>3 DEF SetRole, TypeOK
<1>4. CASE BecomeCandidate(n, h)
  <2>1. Moved(n, h, "increment", p, t, u)
    BY <1>1, <1>2, <1>4, GotoMoves DEF BecomeCandidate, Steps
  <2>2. HoldsAt(n, "increment", p, t, u)'
    BY <1>3, <1>4 DEF BecomeCandidate, HoldsAt, Roles
  <2> QED
    BY <1>4, <2>1, <2>2, RoleStep DEF BecomeCandidate
<1>5. CASE Follow(n, h)
  <2>1. Moved(n, h, "read_again", p, t, u)
    BY <1>1, <1>2, <1>5, GotoMoves DEF Follow, Steps
  <2>2. HoldsAt(n, "read_again", p, t, u)'
    BY <1>2, <1>3, <1>5 DEF Follow, HoldsAt, Roles, At
  <2> QED
    BY <1>5, <2>1, <2>2, RoleStep DEF Follow
<1>6. CASE StepDown(n, h)
  <2>1. Moved(n, h, "idle", Nobody, 0, 0)
    BY <1>2, <1>6, FinishMoves DEF StepDown
  <2>2. HoldsAt(n, "idle", Nobody, 0, 0)'
    BY DEF HoldsAt
  <2> QED
    BY <1>6, <2>1, <2>2, RoleStep DEF StepDown
<1>7. CASE HeartbeatFollow(n, h)
  <2>1. Moved(n, h, "hb_answer", p, t, u)
    BY <1>1, <1>2, <1>7, GotoMoves DEF HeartbeatFollow, Steps
  <2>2. HoldsAt(n, "hb_answer", p, t, u)'
    BY <1>2, <1>7 DEF HeartbeatFollow, HoldsAt, At
  <2> QED
    BY <1>7, <2>1, <2>2, RoleStep DEF HeartbeatFollow
<1> QED
  BY <1>4, <1>5, <1>6, <1>7

LEMMA TermActions ==
    ASSUME IInv, NEW n \in Nodes, NEW h \in Threads, Alone(n, h),
           \/ IncrementTerm(n, h) \/ RaiseTerm(n, h)
           \/ TakeTerm(n, h) \/ HeartbeatTerm(n, h)
    PROVE  IInv'
<1>1. PICK p, t, u : p = call[n][h].peer /\ t = call[n][h].term /\ u = call[n][h].seen
  OBVIOUS
<1>2. TypeOK /\ HoldsAt(n, call[n][h].step, p, t, u) /\ t \in Terms /\ current_term[n] \in Terms
  BY <1>1, Now, Typed DEF IInv
<1>3. ASSUME NEW k \in Terms, k > current_term[n], SetTerm(n, k)
      PROVE  current_term'[n] = k /\ voted_for'[n] = Nobody
  BY <1>2, <1>3 DEF SetTerm, TypeOK
<1>4. CASE IncrementTerm(n, h)
  <2>1. Moved(n, h, "vote_self", p, t, u)
    BY <1>1, <1>2, <1>4, GotoMoves DEF IncrementTerm, Steps
  <2>2. PICK k \in Terms : k = current_term[n] + 1 /\ k > current_term[n]
    <3>1. current_term[n] \in Nat /\ current_term[n] < MaxTerm /\ MaxTerm \in Nat
      BY <1>2, <1>4, Constants DEF IncrementTerm
    <3>2. current_term[n] + 1 \in 0..MaxTerm /\ current_term[n] + 1 > current_term[n]
      BY <3>1
    <3> QED
      BY <3>2 DEF Terms
  <2>3. SetTerm(n, k) /\ role[n] = "Candidate" /\ role' = role
    BY <1>2, <1>4, <2>2 DEF IncrementTerm, HoldsAt, At
  <2>4. HoldsAt(n, "vote_self", p, t, u)'
    BY <1>3, <2>2, <2>3 DEF HoldsAt
  <2> QED
    BY <1>4, <2>1, <2>2, <2>3, <2>4, TermStep DEF IncrementTerm
<1>5. CASE RaiseTerm(n, h)
  <2>1. Moved(n, h, "follow", p, t, u)
    BY <1>1, <1>2, <1>5, GotoMoves DEF RaiseTerm, Steps
  <2>2. t > current_term[n] /\ SetTerm(n, t) /\ p \in Nodes \ {n}
    BY <1>1, <1>2, <1>5 DEF RaiseTerm, HoldsAt, At
  <2>3. HoldsAt(n, "follow", p, t, u)'
    BY <2>2 DEF HoldsAt
  <2> QED
    BY <1>2, <1>5, <2>1, <2>2, <2>3, TermStep DEF RaiseTerm
<1>6. CASE TakeTerm(n, h)
  <2>1. Moved(n, h, "slave", p, t, u)
    BY <1>1, <1>2, <1>6, GotoMoves DEF TakeTerm, Steps
  <2>2. t > current_term[n] /\ SetTerm(n, t)
    BY <1>1, <1>2, <1>6 DEF TakeTerm, HoldsAt, At
  <2>3. HoldsAt(n, "slave", p, t, u)'
    BY DEF HoldsAt
  <2> QED
    BY <1>2, <1>6, <2>1, <2>2, <2>3, TermStep DEF TakeTerm
<1>7. CASE HeartbeatTerm(n, h)
  <2>1. Moved(n, h, "hb_follow", p, t, u)
    BY <1>1, <1>2, <1>7, GotoMoves DEF HeartbeatTerm, Steps
  <2>2. t > current_term[n] /\ SetTerm(n, t) /\ p \in Nodes \ {n}
    BY <1>1, <1>2, <1>7 DEF HeartbeatTerm, HoldsAt, At
  <2>3. HoldsAt(n, "hb_follow", p, t, u)'
    BY <2>2 DEF HoldsAt
  <2> QED
    BY <1>2, <1>7, <2>1, <2>2, <2>3, TermStep DEF HeartbeatTerm
<1> QED
  BY <1>4, <1>5, <1>6, <1>7

LEMMA VoteForSelfStep ==
    ASSUME IInv, NEW n \in Nodes, NEW h \in Threads, Alone(n, h), VoteForSelf(n, h)
    PROVE  IInv'
<1>1. TypeOK /\ voted_for[n] = Nobody
  BY Now DEF IInv, VoteForSelf, At, HoldsAt
<1>2. voted_for' = [voted_for EXCEPT ![n] = n]
  BY <1>1 DEF VoteForSelf, VoteFor, TypeOK
<1>3. Moved(n, h, "idle", Nobody, 0, 0)
  BY <1>1, FinishMoves DEF VoteForSelf
<1>4. TypeOK'
  <2>1. voted_for' \in [Nodes -> Nodes \cup {Nobody}]
    BY <1>1, <1>2 DEF TypeOK
  <2> QED
    BY <1>3, <2>1, TypedAfter DEF IInv, TypeOK, VoteForSelf, Call
<1>5. Frame(n)
  <2>1. current_term[n] \in Nat /\ current_term' = current_term /\ role' = role
    BY Typed DEF IInv, VoteForSelf
  <2> QED
    BY <1>1, <1>2, <2>1 DEF Frame, TypeOK
<1>6. RoleTrue(n)'
  <2>1. voted_for'[n] = n /\ role' = role /\ current_term' = current_term /\ elected' = elected
    BY <1>1, <1>2 DEF VoteForSelf, TypeOK
  <2>2. RoleAt(n, "vote_self")
    BY Now DEF VoteForSelf, At
  <2>3. RoleAt(n, "idle")'
    BY <2>1, <2>2 DEF RoleAt
  <2> QED
    BY <1>3, <2>3, RoleAfter
<1>7. HoldsAt(n, "idle", Nobody, 0, 0)'
  BY DEF HoldsAt
<1>8. UNCHANGED <<votes_received, network, granted, elected>>
  BY DEF VoteForSelf
<1> QED
  BY <1>3, <1>4, <1>5, <1>6, <1>7, <1>8, Ordinary

\* Calls that begin without a message: the first three actions need nothing of
\* the invariant but that a candidate has voted for itself.
LEMMA TimerActions ==
    ASSUME IInv, NEW n \in Nodes, NEW h \in Threads, Alone(n, h),
           Detect(n, h) \/ ElectionTimeout(n, h) \/ SenderTick(n, h)
    PROVE  IInv'
<1>1. PICK p, t, u : p = call[n][h].peer /\ t = call[n][h].term /\ u = call[n][h].seen
  OBVIOUS
<1>2. PICK s : \/ s = "candidate" /\ role[n] = "Slave" /\ Goto(n, h, s)
               \/ s = "election" /\ role[n] = "Candidate" /\ Goto(n, h, s)
               \/ s = "beat" /\ role[n] = "Master" /\ Goto(n, h, s)
  BY DEF Detect, ElectionTimeout, SenderTick
<1>3. /\ UNCHANGED <<roleVars, votes_received, granted, elected>>
      /\ network' = network /\ At(n, h, "idle")
  BY DEF Detect, ElectionTimeout, SenderTick
<1>4. Moved(n, h, s, p, t, u)
  BY <1>1, <1>2, GotoMoves DEF IInv, Steps
<1>5. HoldsAt(n, s, p, t, u)'
  BY <1>2, <1>3 DEF HoldsAt, roleVars
<1>6. RoleAt(n, s)
  <2>1. RoleAt(n, "idle")
    BY <1>3, Now DEF At
  <2> QED
    BY <2>1 DEF RoleAt
<1>7. network' \subseteq Message /\ s \notin {"read_yes", "push"}
  BY <1>2, <1>3 DEF IInv, TypeOK
<1> QED
  BY <1>3, <1>4, <1>5, <1>6, <1>7, CallStep

LEMMA VotersBound ==
    ASSUME IInv, NEW n \in Nodes, NEW t \in Terms, votes_received[n][t] >= MinVotes
    PROVE  Cardinality(Voters(n, t)) >= MinVotes
<1>1. votes_received[n][t] =< Cardinality(Arrived(n, t)) /\ votes_received[n][t] \in Nat
  BY DEF IInv, VotesCounted, TypeOK
<1>2. Arrived(n, t) \subseteq Voters(n, t) /\ Voters(n, t) \subseteq Nodes
  BY DEF Arrived, Voters
<1>3. /\ Cardinality(Arrived(n, t)) =< Cardinality(Voters(n, t))
      /\ Cardinality(Arrived(n, t)) \in Nat /\ Cardinality(Voters(n, t)) \in Nat
  BY <1>2, Subsets
<1> QED
  BY <1>1, <1>3, Constants

LEMMA ElectionActions ==
    ASSUME IInv, NEW n \in Nodes, NEW h \in Threads, Alone(n, h),
           ReadElectionTerm(n, h) \/ CheckElectionResult(n, h)
    PROVE  IInv'
<1>1. PICK p, t, u, now : /\ p = call[n][h].peer /\ t = call[n][h].term
                          /\ u = call[n][h].seen /\ now = current_term[n]
  OBVIOUS
<1>2. /\ TypeOK /\ HoldsAt(n, call[n][h].step, p, t, u) /\ RoleAt(n, call[n][h].step)
      /\ u \in Terms
  BY <1>1, Now, Typed DEF IInv
<1>3. /\ UNCHANGED <<roleVars, votes_received, granted, elected>>
      /\ network' = network /\ network' \subseteq Message
      /\ At(n, h, "election") \/ At(n, h, "check")
  BY <1>2 DEF ReadElectionTerm, CheckElectionResult, TypeOK
<1>4. RoleAt(n, "clear") /\ RoleAt(n, "win") /\ RoleAt(n, "idle") /\ role'[n] = "Candidate"
  BY <1>2, <1>3 DEF RoleAt, At, HoldsAt, roleVars
<1>5. CASE ReadElectionTerm(n, h)
  <2>1. Moved(n, h, "clear", p, t, now)
    BY <1>1, <1>2, <1>5, SeeMoves DEF ReadElectionTerm, Steps
  <2>2. HoldsAt(n, "clear", p, t, now)'
    BY <1>1, <1>3, <1>4 DEF HoldsAt, roleVars
  <2> QED
    BY <1>3, <1>4, <2>1, <2>2, CallStep
<1>6. CASE CheckElectionResult(n, h) /\ votes_received[n][u] >= MinVotes
  <2>1. Moved(n, h, "win", p, t, u)
    BY <1>1, <1>2, <1>6, GotoMoves DEF CheckElectionResult, Steps
  <2>2. u = current_term[n] /\ Cardinality(Voters(n, u)') >= MinVotes
    BY <1>2, <1>3, <1>6, VotersBound, VotersGrow DEF CheckElectionResult, At, HoldsAt
  <2>3. HoldsAt(n, "win", p, t, u)'
    BY <1>3, <1>4, <2>2 DEF HoldsAt, roleVars
  <2> QED
    BY <1>3, <1>4, <2>1, <2>3, CallStep
<1>7. CASE CheckElectionResult(n, h) /\ ~(votes_received[n][u] >= MinVotes)
  <2>1. Moved(n, h, "idle", Nobody, 0, 0)
    BY <1>1, <1>2, <1>7, FinishMoves DEF CheckElectionResult
  <2>2. HoldsAt(n, "idle", Nobody, 0, 0)'
    BY DEF HoldsAt
  <2> QED
    BY <1>3, <1>4, <2>1, <2>2, CallStep
<1> QED
  BY <1>5, <1>6, <1>7

LEMMA VoteActions ==
    ASSUME IInv, NEW n \in Nodes, NEW h \in Threads, Alone(n, h),
           ReadTermAgain(n, h) \/ DecideVote(n, h) \/ ReadVote(n, h)
    PROVE  IInv'
<1>1. PICK p, t, u, now : /\ p = call[n][h].peer /\ t = call[n][h].term
                          /\ u = call[n][h].seen /\ now = current_term[n]
  OBVIOUS
<1>2. /\ TypeOK /\ HoldsAt(n, call[n][h].step, p, t, u) /\ RoleAt(n, call[n][h].step)
      /\ u \in Terms /\ t \in Terms /\ current_term[n] \in Nat /\ t \in Nat
  BY <1>1, Now, Typed, Constants DEF IInv
<1>3. /\ UNCHANGED <<roleVars, votes_received, granted, elected>>
      /\ network' = network /\ network' \subseteq Message
      /\ call[n][h].step \in {"read_again", "can_vote", "read_yes", "read_no"}
  BY <1>2 DEF ReadTermAgain, DecideVote, ReadVote, TypeOK, At
<1>4. /\ RoleAt(n, "can_vote") /\ RoleAt(n, "grant") /\ RoleAt(n, "step_down")
      /\ RoleAt(n, "push") /\ RoleAt(n, "idle")
  BY <1>2, <1>3 DEF RoleAt
<1>5. CASE ReadTermAgain(n, h)
  <2>1. Moved(n, h, "can_vote", p, t, now)
    BY <1>1, <1>2, <1>5, SeeMoves DEF ReadTermAgain, Steps
  <2>2. HoldsAt(n, "can_vote", p, t, now)'
    BY <1>1, <1>2, <1>3, <1>5 DEF HoldsAt, roleVars, ReadTermAgain, At
  <2> QED
    BY <1>3, <1>4, <2>1, <2>2, CallStep
<1>6. CASE DecideVote(n, h)
  <2>1. Moved(n, h, "grant", p, t, u)
    BY <1>1, <1>2, <1>6, GotoMoves DEF DecideVote, Steps
  <2>2. /\ p \in Nodes \ {n} /\ u = current_term[n] /\ voted_for[n] = Nobody
        /\ LastSequence[p] >= CommitIndex[n]
    BY <1>1, <1>2, <1>6 DEF DecideVote, MayVote, Peer, HoldsAt, At
  <2>3. CommitIndex[n] =< LastSequence[p]
    BY <2>2, Constants
  <2>4. HoldsAt(n, "grant", p, t, u)'
    BY <1>3, <2>2, <2>3 DEF HoldsAt, roleVars
  <2> QED
    BY <1>3, <1>4, <2>1, <2>4, CallStep
<1>7. CASE ReadVote(n, h) /\ t > current_term[n]
  <2>1. Moved(n, h, "step_down", p, t, now)
    BY <1>1, <1>2, <1>7, SeeMoves DEF ReadVote, Steps
  <2>2. HoldsAt(n, "step_down", p, t, now)'
    BY <1>1, <1>3, <1>7 DEF HoldsAt, roleVars
  <2> QED
    BY <1>3, <1>4, <2>1, <2>2, CallStep
<1>8. CASE ReadVote(n, h) /\ call[n][h].step = "read_yes" /\ t = current_term[n]
  <2>1. Moved(n, h, "push", p, t, now)
    <3>1. ~(t > current_term[n])
      BY <1>2, <1>8
    <3>2. SeeAndGoto(n, h, "push")
      BY <1>1, <1>8, <3>1 DEF ReadVote, At
    <3> QED
      BY <1>1, <1>2, <3>2, SeeMoves DEF Steps
  <2>2. /\ p \in Nodes \ {n} /\ role[n] = "Candidate"
        /\ <<p, n, t>> \in granted /\ Voted(p, n, t) \notin network
    BY <1>2, <1>8 DEF HoldsAt
  <2>3. HoldsAt(n, "push", p, t, now)'
    BY <1>1, <1>3, <1>8, <2>2 DEF HoldsAt, roleVars, Voted
  <2> QED
    BY <1>1, <1>3, <1>4, <1>8, <2>1, <2>3, CallStep
<1>9. CASE /\ ReadVote(n, h) /\ ~(t > current_term[n])
           /\ ~(call[n][h].step = "read_yes" /\ t = current_term[n])
  <2>1. Moved(n, h, "idle", Nobody, 0, 0)
    BY <1>1, <1>2, <1>9, FinishMoves DEF ReadVote, At
  <2>2. HoldsAt(n, "idle", Nobody, 0, 0)'
    BY DEF HoldsAt
  <2> QED
    BY <1>3, <1>4, <2>1, <2>2, CallStep
<1> QED
  BY <1>5, <1>6, <1>7, <1>8, <1>9

LEMMA SendActions ==
    ASSUME IInv, NEW n \in Nodes, NEW h \in Threads, Alone(n, h),
           RejectVote(n, h) \/ SendHeartbeat(n, h) \/ AnswerHeartbeat(n, h)
    PROVE  IInv'
<1>1. PICK p, t, u, now : /\ p = call[n][h].peer /\ t = call[n][h].term
                          /\ u = call[n][h].seen /\ now = current_term[n]
  OBVIOUS
<1>2. /\ TypeOK /\ HoldsAt(n, call[n][h].step, p, t, u) /\ RoleAt(n, call[n][h].step)
      /\ u \in Terms /\ now \in Terms
  BY <1>1, Now, Typed DEF IInv
<1>3. /\ UNCHANGED <<roleVars, votes_received, granted, elected>> /\ Finish(n, h)
      /\ call[n][h].step \in {"can_vote", "beat", "hb_answer"}
  BY DEF RejectVote, SendHeartbeat, AnswerHeartbeat, At
<1>4. Moved(n, h, "idle", Nobody, 0, 0) /\ HoldsAt(n, "idle", Nobody, 0, 0)'
  <2>1. Moved(n, h, "idle", Nobody, 0, 0)
    BY <1>2, <1>3, FinishMoves
  <2> QED
    BY <2>1 DEF HoldsAt
<1>5. RoleAt(n, "idle")
  BY <1>2, <1>3 DEF RoleAt
<1>6. SUFFICES ASSUME NEW m \in network', m \notin network
               PROVE  /\ m \in Message /\ m.from # m.to
                      /\ ~(m.type = "voted" /\ m.yes)
                      /\ m.type = "heartbeat" => <<m.from, m.term>> \in elected
  <2>1. network \subseteq Message
    BY <1>2 DEF TypeOK
  <2>2. network' \subseteq Message
    BY <1>6, <2>1
  <2> QED
    BY <1>3, <1>4, <1>5, <1>6, <2>2, CallStep
<1>7. CASE RejectVote(n, h)
  <2>1. p \in Nodes \ {n} /\ m \in Send("voted", n, {p}, u, FALSE)
    BY <1>1, <1>2, <1>6, <1>7 DEF RejectVote, Peer, HoldsAt, At
  <2>2. PICK k \in Nodes \ {n} :
           m = [type |-> "voted", from |-> n, to |-> k, term |-> u, yes |-> FALSE]
    BY <2>1 DEF Send
  <2>3. /\ m \in Message /\ m.from # m.to /\ m.type = "voted"
        /\ m.term = u /\ m.from = n /\ m.yes = FALSE
    BY <1>2, <2>2 DEF Message
  <2> QED
    BY <2>1, <2>3
<1>8. CASE SendHeartbeat(n, h)
  <2>1. m \in Send("heartbeat", n, Nodes \ {n}, now, TRUE) /\ <<n, now>> \in elected
    BY <1>1, <1>2, <1>6, <1>8 DEF SendHeartbeat, HoldsAt, RoleAt, At
  <2>2. PICK k \in Nodes \ {n} :
           m = [type |-> "heartbeat", from |-> n, to |-> k, term |-> now, yes |-> TRUE]
    BY <2>1 DEF Send
  <2>3. /\ m \in Message /\ m.from # m.to /\ m.type = "heartbeat"
        /\ m.term = now /\ m.from = n /\ m.yes = TRUE
    BY <1>2, <2>2 DEF Message
  <2> QED
    BY <2>1, <2>3
<1>9. CASE AnswerHeartbeat(n, h)
  <2>1. p \in Nodes \ {n} /\ m \in Send("alive", n, {p}, now, TRUE)
    BY <1>1, <1>2, <1>6, <1>9 DEF AnswerHeartbeat, Peer, HoldsAt, At
  <2>2. PICK k \in Nodes \ {n} :
           m = [type |-> "alive", from |-> n, to |-> k, term |-> now, yes |-> TRUE]
    BY <2>1 DEF Send
  <2>3. /\ m \in Message /\ m.from # m.to /\ m.type = "alive"
        /\ m.term = now /\ m.from = n /\ m.yes = TRUE
    BY <1>2, <2>2 DEF Message
  <2> QED
    BY <2>1, <2>3
<1> QED
  BY <1>7, <1>8, <1>9

\* A handler begins: every kind of message, and what it finds.
LEMMA HandleActions ==
    ASSUME IInv, NEW n \in Nodes, NEW h \in Threads, Alone(n, h), Handle(n, h)
    PROVE  IInv'
<1>1. PICK m, s :
        /\ m \in network
        /\ Receive(n, h, m, s)
        /\ \/ s \in {"ignore", "read_no", "can_vote", "hb_follow", "hb_answer"}
           \/ s \in {"raise", "hb_raise"} /\ m.term > current_term[n]
           \/ s = "read_yes" /\ role[n] = "Candidate" /\ m.type = "voted" /\ m.yes
  <2>1. CASE ReceiveVoteRequest(n, h)
    BY <2>1 DEF ReceiveVoteRequest
  <2>2. CASE ReceiveVote(n, h)
    BY <2>2 DEF ReceiveVote
  <2>3. CASE ReceiveHeartbeat(n, h)
    BY <2>3 DEF ReceiveHeartbeat
  <2>4. CASE ReceiveAlive(n, h)
    BY <2>4 DEF ReceiveAlive
  <2> QED
    BY <2>1, <2>2, <2>3, <2>4 DEF Handle
<1>2. PICK p, t, now : p = m.from /\ t = m.term /\ now = current_term[n]
  OBVIOUS
<1>3. /\ TypeOK /\ m.to = n /\ p \in Nodes \ {n} /\ t \in Terms /\ now \in Terms
      /\ m \in Message
  BY <1>1, <1>2, Typed DEF IInv, TypeOK, MessagesTrue, Receive, Message
<1>4. /\ UNCHANGED <<roleVars, votes_received, granted, elected>>
      /\ network' = network \ {m} /\ network' \subseteq Message
  BY <1>1, <1>3 DEF Receive, TypeOK
<1>5. \A r : RoleAt(n, r)
  <2>1. RoleAt(n, "idle")
    BY <1>1, Now DEF Receive, At
  <2> QED
    BY <2>1 DEF RoleAt
<1>6. CASE s = "ignore"
  <2>1. Finish(n, h)
    BY <1>1, <1>6 DEF Receive, Finish
  <2>2. Moved(n, h, "idle", Nobody, 0, 0)
    BY <1>3, <2>1, FinishMoves
  <2>3. HoldsAt(n, "idle", Nobody, 0, 0)'
    BY DEF HoldsAt
  <2> QED
    BY <1>4, <1>5, <2>2, <2>3, CallStep
<1>7. CASE s # "ignore"
  <2>1. Moved(n, h, s, p, t, now)
    <3>1. s \in Steps /\ s # "idle"
      BY <1>1, <1>7 DEF Steps
    <3>2. call' = [call EXCEPT ![n][h] = [step |-> s, peer |-> p, term |-> t, seen |-> now]]
      BY <1>1, <1>2, <1>7 DEF Receive
    <3> QED
      BY <1>3, <3>1, <3>2, PutMoves
  <2>2. CASE s # "read_yes"
    <3>1. HoldsAt(n, s, p, t, now)'
      BY <1>1, <1>2, <1>3, <1>4, <1>7, <2>2 DEF HoldsAt, roleVars
    <3> QED
      BY <1>1, <1>4, <1>5, <1>7, <2>1, <2>2, <3>1, CallStep
  <2>3. CASE s = "read_yes"
    <3>1. m = Voted(p, n, t) /\ role[n] = "Candidate" /\ Voted(p, n, t) \in network
      BY <1>1, <1>2, <1>3, <2>3 DEF Voted, Message
    <3>2. <<p, n, t>> \in granted
      BY <1>1, <1>2, <1>3, <2>3 DEF IInv, MessagesTrue
    <3>3. HoldsAt(n, s, p, t, now)'
      BY <1>3, <1>4, <2>3, <3>1, <3>2 DEF HoldsAt, roleVars, Voted
    <3> QED
      BY <1>4, <1>5, <2>1, <3>1, <3>3, CallStep
  <2> QED
    BY <2>2, <2>3
<1> QED
  BY <1>6, <1>7
------------------------------------------------------------------------------
(* The steps that give, count and forget votes, and the one that wins. *)

LEMMA Together ==
    ASSUME IInv, NEW n \in Nodes, NEW h \in Threads,
           NEW s, NEW p, NEW t, NEW u, Moved(n, h, s, p, t, u), TypeOK', Frame(n),
           granted \subseteq granted', elected \subseteq elected', NoOldVotes,
           VotesStand', OneVotePerTerm', VotesCounted', Majority', MessagesTrue',
           HoldsAt(n, s, p, t, u)', RoleAt(n, s)'
    PROVE  IInv'
<1>1. RoleTrue(n)'
  BY RoleAfter
<1>2. \A m \in Nodes, g \in Threads : CallTrue(m, g)'
  BY CallsKept
<1>3. \A m \in Nodes : RoleTrue(m)'
  BY <1>1, RolesKept
<1>4. OneRuns'
  BY OneRunsKept
<1> QED
  BY <1>2, <1>3, <1>4 DEF IInv

LEMMA BecomeMasterStep ==
    ASSUME IInv, NEW n \in Nodes, NEW h \in Threads, Alone(n, h), BecomeMaster(n, h)
    PROVE  IInv'
<1>1. PICK p, t, u : /\ p = call[n][h].peer /\ t = call[n][h].term /\ u = call[n][h].seen
                     /\ u \in Terms
  <2>1. call[n][h].seen \in Terms
    BY Typed DEF IInv
  <2> QED
    BY <2>1, Zenon
<1>2. TypeOK /\ u = current_term[n] /\ Cardinality(Voters(n, u)) >= MinVotes
  <2>1. HoldsAt(n, "win", p, t, u)
    BY <1>1, Now DEF BecomeMaster, At
  <2> QED
    BY <2>1 DEF IInv, HoldsAt
<1>3. /\ role' = [role EXCEPT ![n] = "Master"] /\ elected' = elected \cup {<<n, u>>}
      /\ UNCHANGED <<current_term, voted_for, votes_received, network, granted>>
      /\ Moved(n, h, "idle", Nobody, 0, 0)
  BY <1>1, <1>2, FinishMoves DEF BecomeMaster, SetRole
<1>4. TypeOK'
  <2>1. role' \in [Nodes -> Roles] /\ elected' \subseteq Nodes \X Terms
    BY <1>1, <1>2, <1>3 DEF TypeOK, Roles
  <2> QED
    BY <1>3, <2>1, TypedAfter DEF IInv, TypeOK, Call
<1>5. Frame(n)
  <2>1. current_term[n] \in Nat
    BY Typed DEF IInv
  <2> QED
    BY <1>2, <1>3, <2>1 DEF Frame, TypeOK
<1>6. NoOldVotes /\ VotesStand' /\ OneVotePerTerm'
  BY <1>3, <1>4, <1>5, VotesStandKept DEF NoOldVotes, Voted
<1>7. VotesCounted'
  <2>1. ArrivedStay
    BY <1>3, <1>6, ArrivedKept
  <2> QED
    BY <1>3, <2>1, CountedKept
<1>8. Majority'
  <2>1. ASSUME NEW m \in Nodes, NEW k \in Terms, <<m, k>> \in elected'
        PROVE  Cardinality(Voters(m, k)) >= MinVotes
    <3>1. CASE <<m, k>> \in elected
      BY <3>1 DEF IInv, Majority
    <3>2. CASE m = n /\ k = u
      BY <1>2, <3>2
    <3> QED
      BY <1>3, <2>1, <3>1, <3>2
  <2>2. granted' = granted
    BY <1>3
  <2> QED
    BY <2>1, <2>2 DEF Majority, Voters
<1>9. MessagesTrue'
  BY <1>3 DEF IInv, MessagesTrue
<1>10. HoldsAt(n, "idle", Nobody, 0, 0)'
  BY DEF HoldsAt
<1>11. RoleAt(n, "idle")'
  BY <1>1, <1>2, <1>3 DEF RoleAt, TypeOK
<1> QED
  BY <1>3, <1>4, <1>5, <1>6, <1>7, <1>8, <1>9, <1>10, <1>11, Together

LEMMA ClearVotesStep ==
    ASSUME IInv, NEW n \in Nodes, NEW h \in Threads, Alone(n, h), ClearVotes(n, h)
    PROVE  IInv'
<1>1. PICK p, t, u : p = call[n][h].peer /\ t = call[n][h].term /\ u = call[n][h].seen
  OBVIOUS
<1>2. /\ TypeOK /\ role[n] = "Candidate" /\ u = current_term[n] /\ RoleAt(n, "clear")
  <2>1. HoldsAt(n, "clear", p, t, u) /\ RoleAt(n, "clear")
    BY <1>1, Now DEF ClearVotes, At
  <2> QED
    BY <2>1 DEF IInv, HoldsAt
<1>3. /\ votes_received' = [votes_received EXCEPT ![n] = [k \in Terms |-> 0]]
      /\ UNCHANGED <<roleVars, network, granted, elected>>
      /\ Moved(n, h, "own_vote", p, t, u)
  BY <1>1, <1>2, GotoMoves DEF ClearVotes, Steps
<1>4. TypeOK'
  <2>1. votes_received' \in [Nodes -> [Terms -> Nat]]
    BY <1>2, <1>3 DEF TypeOK
  <2> QED
    BY <1>3, <2>1, TypedAfter DEF IInv, TypeOK, roleVars, Call
<1>5. Frame(n)
  <2>1. current_term[n] \in Nat
    BY Typed DEF IInv
  <2> QED
    BY <1>3, <2>1 DEF Frame, roleVars
<1>6. NoOldVotes /\ VotesStand' /\ OneVotePerTerm'
  BY <1>3, <1>4, <1>5, VotesStandKept DEF NoOldVotes, Voted
<1>7. VotesCounted'
  <2>1. ArrivedStay
    BY <1>3, <1>6, ArrivedKept
  <2>2. ASSUME NEW m \in Nodes, NEW k \in Terms
        PROVE  votes_received'[m][k] =< Cardinality(Arrived(m, k)')
    <3>1. Arrived(m, k) \subseteq Arrived(m, k)' /\ Arrived(m, k)' \subseteq Nodes
      BY <2>1 DEF ArrivedStay, Arrived, Voters
    <3>2. /\ Cardinality(Arrived(m, k)) \in Nat /\ Cardinality(Arrived(m, k)') \in Nat
          /\ Cardinality(Arrived(m, k)) =< Cardinality(Arrived(m, k)')
      BY <3>1, Subsets
    <3>3. /\ votes_received[m][k] =< Cardinality(Arrived(m, k)) /\ votes_received[m][k] \in Nat
          /\ votes_received'[m][k] \in {0, votes_received[m][k]}
      BY <1>2, <1>3 DEF IInv, VotesCounted, TypeOK
    <3> QED
      BY <3>2, <3>3
  <2> QED
    BY <2>2 DEF VotesCounted
<1>8. Majority' /\ MessagesTrue'
  BY <1>3, MajorityKept DEF IInv, MessagesTrue
<1>9. HoldsAt(n, "own_vote", p, t, u)' /\ RoleAt(n, "own_vote")'
  BY <1>2, <1>3 DEF HoldsAt, RoleAt, roleVars
<1> QED
  BY <1>3, <1>4, <1>5, <1>6, <1>7, <1>8, <1>9, Together

LEMMA PushVoteStep ==
    ASSUME IInv, NEW n \in Nodes, NEW h \in Threads, Alone(n, h), PushVote(n, h)
    PROVE  IInv'
<1>1. PICK p, t, u : p = call[n][h].peer /\ t = call[n][h].term /\ u = call[n][h].seen
  OBVIOUS
<1>2. /\ TypeOK /\ role[n] = "Candidate" /\ u = current_term[n] /\ RoleAt(n, "push")
      /\ p \in Nodes /\ t = u /\ u \in Terms
      /\ <<p, n, t>> \in granted /\ Voted(p, n, t) \notin network
  <2>1. HoldsAt(n, "push", p, t, u) /\ RoleAt(n, "push")
    BY <1>1, Now DEF PushVote, At
  <2>2. u \in Terms
    BY <1>1, Typed DEF IInv
  <2> QED
    BY <2>1, <2>2 DEF IInv, HoldsAt
<1>3. /\ votes_received' = [votes_received EXCEPT ![n][u] = @ + 1]
      /\ UNCHANGED <<roleVars, network, granted, elected>>
      /\ Moved(n, h, "check", p, t, u)
  BY <1>1, <1>2, GotoMoves DEF PushVote, Steps
<1>4. TypeOK'
  <2>1. votes_received' \in [Nodes -> [Terms -> Nat]]
    BY <1>2, <1>3 DEF TypeOK
  <2> QED
    BY <1>3, <2>1, TypedAfter DEF IInv, TypeOK, roleVars, Call
<1>5. Frame(n)
  <2>1. current_term[n] \in Nat
    BY Typed DEF IInv
  <2> QED
    BY <1>3, <2>1 DEF Frame, roleVars
<1>6. NoOldVotes /\ VotesStand' /\ OneVotePerTerm'
  BY <1>3, <1>4, <1>5, VotesStandKept DEF NoOldVotes, Voted
<1>7. VotesCounted'
  <2>1. ArrivedStay
    BY <1>3, <1>6, ArrivedKept
  <2>2. ASSUME NEW m \in Nodes, NEW k \in Terms
        PROVE  votes_received'[m][k] =< Cardinality(Arrived(m, k)')
    <3>1. Arrived(m, k) \subseteq Arrived(m, k)' /\ Arrived(m, k)' \subseteq Nodes
      BY <2>1 DEF ArrivedStay, Arrived, Voters
    <3>2. /\ Cardinality(Arrived(m, k)) \in Nat /\ Cardinality(Arrived(m, k)') \in Nat
          /\ Cardinality(Arrived(m, k)) =< Cardinality(Arrived(m, k)')
      BY <3>1, Subsets
    <3>3. votes_received[m][k] =< Cardinality(Arrived(m, k)) /\ votes_received[m][k] \in Nat
      BY <1>2 DEF IInv, VotesCounted, TypeOK
    <3>4. CASE m # n \/ k # u
      <4>1. votes_received'[m][k] = votes_received[m][k]
        BY <1>2, <1>3, <3>4 DEF TypeOK
      <4> QED
        BY <3>2, <3>3, <4>1
    <3>5. CASE m = n /\ k = u
      <4>1. votes_received'[m][k] = votes_received[m][k] + 1
        BY <1>2, <1>3, <3>5 DEF TypeOK
      <4>2. Counting(n, p, u) /\ p \notin Arrived(n, u)
        BY <1>1, <1>2 DEF Counting, Arrived, PushVote, At
      <4>3. ~Counting(n, p, u)'
        BY <1>3 DEF Moved, Counting, Idle
      <4>4. p \in Arrived(n, u)'
        BY <1>2, <1>3, <4>3 DEF Arrived, Voters, Voted
      <4>5. IsFiniteSet(Arrived(n, u)) /\ Arrived(n, u) \subseteq Nodes
        BY Constants, FS_Subset DEF Arrived, Voters
      <4>6. Cardinality(Arrived(n, u) \cup {p}) = Cardinality(Arrived(n, u)) + 1
        BY <4>2, <4>5, FS_AddElement
      <4>7. Arrived(n, u) \cup {p} \subseteq Arrived(n, u)' /\ Arrived(n, u)' \subseteq Nodes
        BY <3>1, <3>5, <4>4
      <4>8. Cardinality(Arrived(n, u) \cup {p}) =< Cardinality(Arrived(n, u)')
        BY <4>7, Subsets
      <4>9. votes_received[n][u] + 1 =< Cardinality(Arrived(n, u)')
        BY <3>2, <3>3, <3>5, <4>6, <4>8
      <4> QED
        BY <3>5, <4>1, <4>9
    <3> QED
      BY <3>4, <3>5
  <2> QED
    BY <2>2 DEF VotesCounted
<1>8. Majority' /\ MessagesTrue'
  BY <1>3, MajorityKept DEF IInv, MessagesTrue
<1>9. HoldsAt(n, "check", p, t, u)' /\ RoleAt(n, "check")'
  BY <1>2, <1>3 DEF HoldsAt, RoleAt, roleVars
<1> QED
  BY <1>3, <1>4, <1>5, <1>6, <1>7, <1>8, <1>9, Together

\* A node gives the vote of the term it is in to p, and to no other.
LEMMA VoteGiven ==
    ASSUME IInv, NEW n \in Nodes, NEW p \in Nodes, NEW u \in Terms,
           u = current_term[n], voted_for[n] \in {Nobody, p},
           CommitIndex[n] =< LastSequence[p],
           granted' = granted \cup {<<n, p, u>>}, current_term' = current_term,
           voted_for' = [voted_for EXCEPT ![n] = p]
    PROVE  /\ VotesStand' /\ OneVotePerTerm' /\ granted' \subseteq Nodes \X Nodes \X Terms
           /\ <<n, p, u>> \in granted => voted_for[n] = p
<1>1. /\ VotesStand /\ OneVotePerTerm /\ voted_for \in [Nodes -> Nodes \cup {Nobody}]
      /\ granted \subseteq Nodes \X Nodes \X Terms
  BY DEF IInv, TypeOK
<1>2. voted_for'[n] = p /\ \A m \in Nodes : m # n => voted_for'[m] = voted_for[m]
  BY <1>1
<1>3. ASSUME NEW k \in Nodes, <<n, k, u>> \in granted PROVE k = p
  <2>1. voted_for[n] = k
    BY <1>1, <1>3 DEF VotesStand
  <2> QED
    BY <2>1, Constants
<1>4. ASSUME NEW m \in Nodes, NEW k \in Nodes, NEW t \in Terms, <<m, k, t>> \in granted'
      PROVE  /\ t =< current_term[m]
             /\ t = current_term[m] => voted_for'[m] = k
             /\ CommitIndex[m] =< LastSequence[k]
  <2>1. CASE m = n /\ k = p /\ t = u
    <3>1. u \in Nat
      BY Constants
    <3> QED
      BY <1>2, <2>1, <3>1
  <2>2. CASE <<m, k, t>> \in granted
    <3>1. /\ t =< current_term[m]
          /\ t = current_term[m] => voted_for[m] = k
          /\ CommitIndex[m] =< LastSequence[k]
      BY <1>1, <2>2 DEF VotesStand
    <3>2. m = n /\ t = u => k = p
      BY <1>3, <2>2
    <3> QED
      BY <1>2, <3>1, <3>2
  <2> QED
    BY <1>4, <2>1, <2>2
<1>5. VotesStand'
  BY <1>4 DEF VotesStand
<1>6. granted' \subseteq Nodes \X Nodes \X Terms
  BY <1>1
<1>7. OneVotePerTerm'
  <2>1. SUFFICES ASSUME NEW g \in granted', NEW f \in granted', g[1] = f[1], g[3] = f[3]
                 PROVE  g[2] = f[2]
    BY DEF OneVotePerTerm
  <2>2. PICK m \in Nodes, k \in Nodes, t \in Terms : g = <<m, k, t>>
    BY <1>6
  <2>3. PICK j \in Nodes : f = <<m, j, t>>
    BY <1>6, <2>1, <2>2
  <2>4. CASE g \in granted /\ f \in granted
    BY <1>1, <2>1, <2>4 DEF OneVotePerTerm
  <2>5. CASE m = n /\ t = u
    <3>1. k = p /\ j = p
      BY <1>3, <2>2, <2>3, <2>5
    <3> QED
      BY <2>2, <2>3, <3>1
  <2> QED
    BY <2>2, <2>3, <2>4, <2>5
<1>8. <<n, p, u>> \in granted => voted_for[n] = p
  BY <1>1 DEF VotesStand
<1> QED
  BY <1>5, <1>6, <1>7, <1>8

LEMMA RequestVotesStep ==
    ASSUME IInv, NEW n \in Nodes, NEW h \in Threads, Alone(n, h), RequestVotes(n, h)
    PROVE  IInv'
<1>1. PICK p, t, u : p = call[n][h].peer /\ t = call[n][h].term /\ u = call[n][h].seen
  OBVIOUS
<1>2. /\ TypeOK /\ role[n] = "Candidate" /\ u = current_term[n] /\ u \in Terms
      /\ voted_for[n] = n
  <2>1. HoldsAt(n, "own_vote", p, t, u) /\ RoleAt(n, "own_vote")
    BY <1>1, Now DEF RequestVotes, At
  <2>2. u \in Terms
    BY <1>1, Typed DEF IInv
  <2> QED
    BY <2>1, <2>2 DEF IInv, HoldsAt, RoleAt
<1>3. /\ votes_received' = [votes_received EXCEPT ![n][u] = 1]
      /\ granted' = granted \cup {<<n, n, u>>}
      /\ network' = network \cup Send("vote", n, Nodes \ {n}, u, TRUE)
      /\ UNCHANGED <<roleVars, elected>>
      /\ Moved(n, h, "check", p, t, u)
  BY <1>1, <1>2, GotoMoves DEF RequestVotes, Steps
<1>4. ASSUME NEW m \in network', m \notin network
      PROVE  m \in Message /\ m.type = "vote" /\ m.from # m.to
  <2>1. PICK k \in Nodes \ {n} :
           m = [type |-> "vote", from |-> n, to |-> k, term |-> u, yes |-> TRUE]
    BY <1>3, <1>4 DEF Send
  <2> QED
    BY <1>2, <2>1 DEF Message
<1>5. VotesStand' /\ OneVotePerTerm' /\ granted' \subseteq Nodes \X Nodes \X Terms
  <2>1. voted_for' = [voted_for EXCEPT ![n] = n] /\ current_term' = current_term
    BY <1>2, <1>3 DEF TypeOK, roleVars
  <2>2. CommitIndex[n] =< LastSequence[n]
    BY Constants
  <2> QED
    BY <1>2, <1>3, <2>1, <2>2, VoteGiven
<1>6. TypeOK'
  <2>1. votes_received' \in [Nodes -> [Terms -> Nat]]
    BY <1>2, <1>3 DEF TypeOK
  <2>2. network' \subseteq Message
    BY <1>2, <1>4 DEF TypeOK
  <2> QED
    BY <1>3, <1>5, <2>1, <2>2, TypedAfter DEF IInv, TypeOK, roleVars, Call
<1>7. Frame(n)
  <2>1. current_term[n] \in Nat
    BY Typed DEF IInv
  <2> QED
    BY <1>3, <2>1 DEF Frame, roleVars
<1>8. NoOldVotes
  BY <1>4 DEF NoOldVotes, Voted
<1>9. MessagesTrue'
  BY <1>3, <1>4 DEF IInv, MessagesTrue
<1>10. VotesCounted'
  <2>1. ArrivedStay
    BY <1>3, <1>8, ArrivedKept
  <2>2. ASSUME NEW m \in Nodes, NEW k \in Terms
        PROVE  votes_received'[m][k] =< Cardinality(Arrived(m, k)')
    <3>1. Arrived(m, k) \subseteq Arrived(m, k)' /\ Arrived(m, k)' \subseteq Nodes
      BY <2>1 DEF ArrivedStay, Arrived, Voters
    <3>2. /\ Cardinality(Arrived(m, k)) \in Nat /\ Cardinality(Arrived(m, k)') \in Nat
          /\ Cardinality(Arrived(m, k)) =< Cardinality(Arrived(m, k)')
      BY <3>1, Subsets
    <3>3. votes_received[m][k] =< Cardinality(Arrived(m, k)) /\ votes_received[m][k] \in Nat
      BY <1>2 DEF IInv, VotesCounted, TypeOK
    <3>4. CASE m # n \/ k # u
      <4>1. votes_received'[m][k] = votes_received[m][k]
        BY <1>2, <1>3, <3>4 DEF TypeOK
      <4> QED
        BY <3>2, <3>3, <4>1
    <3>5. CASE m = n /\ k = u
      <4>1. votes_received'[m][k] = 1
        BY <1>2, <1>3, <3>5 DEF TypeOK
      <4>2. ~Counting(n, n, u)'
        BY <1>3 DEF Moved, Counting, Idle
      <4>3. Voted(n, n, u) \notin network'
        BY <1>9 DEF MessagesTrue, Voted
      <4>4. n \in Arrived(n, u)'
        BY <1>3, <4>2, <4>3 DEF Arrived, Voters, Voted
      <4>5. /\ Cardinality({n}) = 1
            /\ {n} \subseteq Arrived(n, u)' /\ Arrived(n, u)' \subseteq Nodes
        BY <3>1, <3>5, <4>4, FS_Singleton
      <4>6. Cardinality({n}) =< Cardinality(Arrived(n, u)')
        BY <4>5, Subsets
      <4> QED
        BY <3>5, <4>1, <4>5, <4>6
    <3> QED
      BY <3>4, <3>5
  <2> QED
    BY <2>2 DEF VotesCounted
<1>11. Majority'
  BY <1>3, MajorityKept
<1>12. HoldsAt(n, "check", p, t, u)' /\ RoleAt(n, "check")'
  BY <1>2, <1>3 DEF HoldsAt, RoleAt, roleVars
<1> QED
  BY <1>3, <1>5, <1>6, <1>7, <1>8, <1>9, <1>10, <1>11, <1>12, Together

LEMMA GrantVoteStep ==
    ASSUME IInv, NEW n \in Nodes, NEW h \in Threads, Alone(n, h), GrantVote(n, h)
    PROVE  IInv'
<1>1. PICK p, t, u : p = call[n][h].peer /\ t = call[n][h].term /\ u = call[n][h].seen
  OBVIOUS
<1>2. /\ TypeOK /\ p \in Nodes \ {n} /\ u = current_term[n] /\ u \in Terms
      /\ voted_for[n] = Nobody /\ CommitIndex[n] =< LastSequence[p] /\ role[n] # "Candidate"
      /\ RoleAt(n, "idle")
  <2>1. HoldsAt(n, "grant", p, t, u) /\ RoleAt(n, "grant")
    BY <1>1, Now DEF GrantVote, At
  <2>2. u \in Terms
    BY <1>1, Typed DEF IInv
  <2> QED
    BY <2>1, <2>2, Constants DEF IInv, HoldsAt, RoleAt
<1>3. /\ voted_for' = [voted_for EXCEPT ![n] = p]
      /\ granted' = granted \cup {<<n, p, u>>}
      /\ network' = network \cup {Voted(n, p, u)}
      /\ UNCHANGED <<role, current_term, votes_received, elected>>
      /\ Moved(n, h, "idle", Nobody, 0, 0)
  <2>1. voted_for' = [voted_for EXCEPT ![n] = p]
    BY <1>1, <1>2 DEF GrantVote, VoteFor, Peer, TypeOK
  <2>2. Send("voted", n, {p}, u, TRUE) = {Voted(n, p, u)}
    BY DEF Send, Voted
  <2>3. /\ network' = network \cup Send("voted", n, {p}, u, TRUE)
        /\ granted' = granted \cup {<<n, p, u>>}
        /\ UNCHANGED <<role, current_term, votes_received, elected>>
        /\ Finish(n, h)
    BY <1>1 DEF GrantVote, Peer
  <2> QED
    BY <1>2, <2>1, <2>2, <2>3, FinishMoves
<1>4. /\ VotesStand' /\ OneVotePerTerm' /\ granted' \subseteq Nodes \X Nodes \X Terms
      /\ <<n, p, u>> \notin granted
  BY <1>2, <1>3, VoteGiven, Constants
<1>5. TypeOK'
  <2>1. voted_for' \in [Nodes -> Nodes \cup {Nobody}]
    BY <1>2, <1>3 DEF TypeOK
  <2>2. network' \subseteq Message
    <3>1. Voted(n, p, u) \in Message
      BY <1>2 DEF Voted, Message
    <3> QED
      BY <1>2, <1>3, <3>1 DEF TypeOK
  <2> QED
    BY <1>3, <1>4, <2>1, <2>2, TypedAfter DEF IInv, TypeOK, Call
<1>6. Frame(n)
  <2>1. current_term[n] \in Nat
    BY Typed DEF IInv
  <2> QED
    BY <1>2, <1>3, <2>1 DEF Frame, TypeOK
<1>7. NoOldVotes
  <2>1. SUFFICES ASSUME NEW m \in Nodes, NEW k \in Nodes, NEW v \in Terms,
                        <<m, k, v>> \in granted, Voted(m, k, v) = Voted(n, p, u)
                 PROVE  FALSE
    BY <1>3 DEF NoOldVotes, Voted
  <2>2. m = n /\ k = p /\ v = u
    BY <2>1 DEF Voted
  <2> QED
    BY <1>4, <2>1, <2>2
<1>8. MessagesTrue'
  <2>1. ASSUME NEW m \in network'
        PROVE  /\ m.from # m.to
               /\ m.type = "voted" /\ m.yes => <<m.from, m.to, m.term>> \in granted'
               /\ m.type = "heartbeat" => <<m.from, m.term>> \in elected
    <3>1. CASE m \in network
      BY <1>3, <3>1 DEF IInv, MessagesTrue
    <3>2. CASE m = Voted(n, p, u)
      BY <1>2, <1>3, <3>2 DEF Voted
    <3> QED
      BY <1>3, <2>1, <3>1, <3>2
  <2> QED
    BY <1>3, <2>1 DEF MessagesTrue
<1>9. VotesCounted' /\ Majority'
  <2>1. ArrivedStay
    BY <1>3, <1>7, ArrivedKept
  <2> QED
    BY <1>3, <2>1, CountedKept, MajorityKept
<1>10. HoldsAt(n, "idle", Nobody, 0, 0)' /\ RoleAt(n, "idle")'
  BY <1>2, <1>3 DEF HoldsAt, RoleAt
<1> QED
  BY <1>3, <1>4, <1>5, <1>6, <1>7, <1>8, <1>9, <1>10, Together

\* A message is lost, or nothing changes.
LEMMA LoseStep ==
    ASSUME IInv, Lose \/ UNCHANGED vars
    PROVE  IInv'
<1>1. /\ network' \subseteq network
      /\ UNCHANGED <<roleVars, votes_received, call, granted, elected>>
  BY DEF Lose, vars
<1>2. TypeOK' /\ OneRuns' /\ MessagesTrue'
  BY <1>1 DEF IInv, TypeOK, OneRuns, At, MessagesTrue, roleVars
<1>3. VotesStand' /\ OneVotePerTerm' /\ Majority'
  BY <1>1 DEF IInv, VotesStand, OneVotePerTerm, Majority, Voters, roleVars
<1>4. VotesCounted'
  <2>1. ArrivedStay
    BY <1>1 DEF ArrivedStay, Arrived, Voters, Voted, Counting
  <2> QED
    BY <1>1, <2>1, CountedKept
<1>5. ASSUME NEW n \in Nodes, NEW h \in Threads PROVE CallTrue(n, h)'
  <2>1. CallTrue(n, h)
    BY DEF IInv
  <2> QED
    BY <1>1, <2>1 DEF CallTrue, HoldsAt, Voters, Voted, roleVars
<1>6. ASSUME NEW n \in Nodes PROVE RoleTrue(n)'
  <2>1. RoleTrue(n)
    BY DEF IInv
  <2> QED
    BY <1>1, <2>1 DEF RoleTrue, Changing, Standing, roleVars
<1> QED
  BY <1>2, <1>3, <1>4, <1>5, <1>6 DEF IInv
------------------------------------------------------------------------------
(* The invariant and what follows from it. *)

LEMMA InitHolds == Init => IInv
<1> SUFFICES ASSUME Init PROVE IInv
  OBVIOUS
<1>1. TypeOK
  BY Constants DEF Init, TypeOK, Idle, Roles, Steps, At, Message
<1>2. \A n \in Nodes, h \in Threads : call[n][h] = Idle
  BY DEF Init
<1>3. OneRuns
  BY <1>2 DEF OneRuns, At, Idle
<1>4. VotesStand /\ OneVotePerTerm /\ Majority /\ MessagesTrue
  BY DEF Init, VotesStand, OneVotePerTerm, Majority, MessagesTrue
<1>5. VotesCounted
  <2>1. ASSUME NEW n \in Nodes, NEW t \in Terms
        PROVE  votes_received[n][t] =< Cardinality(Arrived(n, t))
    <3>1. Arrived(n, t) \subseteq Nodes
      BY DEF Arrived, Voters
    <3>2. votes_received[n][t] = 0 /\ Cardinality(Arrived(n, t)) \in Nat
      BY <3>1, Subsets DEF Init
    <3> QED
      BY <3>2
  <2> QED
    BY <2>1 DEF VotesCounted
<1>6. \A n \in Nodes, h \in Threads : CallTrue(n, h)
  BY <1>2 DEF CallTrue, HoldsAt, Idle
<1>7. \A n \in Nodes : RoleTrue(n)
  BY DEF Init, RoleTrue
<1> QED
  BY <1>1, <1>3, <1>4, <1>5, <1>6, <1>7 DEF IInv

LEMMA BeginAlone ==
    ASSUME IInv, NEW n \in Nodes, NEW h \in Threads, NodeIdle(n)
    PROVE  Alone(n, h)
BY DEF IInv, TypeOK, NodeIdle, Alone

LEMMA WorkAlone ==
    ASSUME IInv, NEW n \in Nodes, NEW h \in Threads, ~At(n, h, "idle")
    PROVE  Alone(n, h)
BY DEF IInv, TypeOK, OneRuns, Alone

LEMMA NextHolds == IInv /\ [OwnNext]_vars => IInv'
<1> SUFFICES ASSUME IInv, [OwnNext]_vars PROVE IInv'
  OBVIOUS
<1>1. CASE Lose
  BY <1>1, LoseStep
<1>2. ASSUME NEW n \in Nodes, NEW h \in Threads, NodeIdle(n), Begin(n, h) PROVE IInv'
  <2>1. Alone(n, h)
    BY <1>2, BeginAlone
  <2>2. CASE Detect(n, h) \/ ElectionTimeout(n, h) \/ SenderTick(n, h)
    BY <2>1, <2>2, TimerActions
  <2>3. CASE Handle(n, h)
    BY <2>1, <2>3, HandleActions
  <2> QED
    BY <1>2, <2>2, <2>3 DEF Begin
<1>3. ASSUME NEW n \in Nodes, NEW h \in Threads, Work(n, h) PROVE IInv'
  <2>1. ~At(n, h, "idle")
    BY <1>3 DEF Work, At, BecomeCandidate, IncrementTerm, VoteForSelf, ReadElectionTerm,
                ClearVotes, RequestVotes, CheckElectionResult, BecomeMaster, RaiseTerm, Follow,
                ReadTermAgain, RejectVote, DecideVote, GrantVote, ReadVote, PushVote, TakeTerm,
                StepDown, SendHeartbeat, HeartbeatTerm, HeartbeatFollow, AnswerHeartbeat
  <2>2. Alone(n, h)
    BY <2>1, WorkAlone
  <2>3. CASE \/ BecomeCandidate(n, h) \/ Follow(n, h)
             \/ StepDown(n, h) \/ HeartbeatFollow(n, h)
    BY <2>2, <2>3, RoleActions
  <2>4. CASE \/ IncrementTerm(n, h) \/ RaiseTerm(n, h)
             \/ TakeTerm(n, h) \/ HeartbeatTerm(n, h)
    BY <2>2, <2>4, TermActions
  <2>5. CASE VoteForSelf(n, h)
    BY <2>2, <2>5, VoteForSelfStep
  <2>6. CASE ReadElectionTerm(n, h) \/ CheckElectionResult(n, h)
    BY <2>2, <2>6, ElectionActions
  <2>7. CASE ReadTermAgain(n, h) \/ DecideVote(n, h) \/ ReadVote(n, h)
    BY <2>2, <2>7, VoteActions
  <2>8. CASE RejectVote(n, h) \/ SendHeartbeat(n, h) \/ AnswerHeartbeat(n, h)
    BY <2>2, <2>8, SendActions
  <2>9. CASE ClearVotes(n, h)
    BY <2>2, <2>9, ClearVotesStep
  <2>10. CASE RequestVotes(n, h)
    BY <2>2, <2>10, RequestVotesStep
  <2>11. CASE BecomeMaster(n, h)
    BY <2>2, <2>11, BecomeMasterStep
  <2>12. CASE GrantVote(n, h)
    BY <2>2, <2>12, GrantVoteStep
  <2>13. CASE PushVote(n, h)
    BY <2>2, <2>13, PushVoteStep
  <2> QED
    BY <1>3, <2>3, <2>4, <2>5, <2>6, <2>7, <2>8, <2>9, <2>10, <2>11, <2>12, <2>13 DEF Work
<1>4. CASE UNCHANGED vars
  BY <1>4, LoseStep
<1> QED
  BY <1>1, <1>2, <1>3, <1>4 DEF OwnNext

\* What the runs check, and a group in which every node has one thread, are
\* cases of OwnSpec.
LEMMA SerialIsOwn == SerialSpec => OwnSpec
<1>1. SerialNext => OwnNext
  BY DEF SerialNext, OwnNext, AllIdle, NodeIdle
<1> QED
  BY <1>1, PTL DEF SerialSpec, OwnSpec

LEMMA OneThreadIsOwn ==
    ASSUME \A h, g \in Threads : h = g
    PROVE  Spec => OwnSpec
<1>1. ASSUME NEW n \in Nodes, NEW h \in Threads, Begin(n, h) PROVE NodeIdle(n)
  <2>1. At(n, h, "idle")
    BY <1>1 DEF Begin, Handle, Detect, ElectionTimeout, SenderTick, ReceiveVoteRequest,
                ReceiveVote, ReceiveHeartbeat, ReceiveAlive, Receive
  <2> QED
    BY <2>1 DEF NodeIdle
<1>2. Next => OwnNext
  BY <1>1 DEF Next, OwnNext
<1> QED
  BY <1>2, PTL DEF Spec, OwnSpec

LEMMA InvariantMasters == IInv => MastersOfTheirTerm
<1> SUFFICES ASSUME IInv PROVE MastersOfTheirTerm
  OBVIOUS
<1>1. ASSUME NEW n \in Nodes, NEW t \in Terms, <<n, t>> \in elected
      PROVE  /\ Voters(n, t) \in SUBSET Nodes
             /\ Cardinality(Voters(n, t)) \in Nat /\ Cardinality(Voters(n, t)) >= MinVotes
  BY <1>1, Subsets DEF IInv, Majority, Voters
<1>2. OneMasterPerTerm
  <2>1. SUFFICES ASSUME NEW n \in Nodes, NEW m \in Nodes, NEW t \in Terms,
                        <<n, t>> \in elected, <<m, t>> \in elected
                 PROVE  n = m
    BY DEF OneMasterPerTerm, IInv, TypeOK
  <2>2. Voters(n, t) \cap Voters(m, t) # {}
    <3>1. /\ Cardinality(Voters(n, t)) + Cardinality(Voters(m, t)) > Cardinality(Nodes)
          /\ Cardinality(Nodes) \in Nat /\ IsFiniteSet(Nodes)
      BY <1>1, <2>1, Constants, FS_CardinalityType
    <3> QED
      BY <1>1, <2>1, <3>1, FS_MajoritiesIntersect
  <2>3. PICK v \in Nodes : <<v, n, t>> \in granted /\ <<v, m, t>> \in granted
    BY <2>2 DEF Voters
  <2> QED
    BY <2>3 DEF IInv, OneVotePerTerm
<1>3. MastersElected
  <2>1. ASSUME AllIdle, NEW n \in Nodes, role[n] = "Master"
        PROVE  <<n, current_term[n]>> \in elected
    <3>1. ~Changing(n) /\ RoleTrue(n)
      BY <2>1 DEF Changing, AllIdle, At, IInv
    <3> QED
      BY <2>1, <3>1 DEF RoleTrue
  <2> QED
    BY <2>1 DEF MastersElected, IInv, MessagesTrue
<1>4. MasterHoldsCommitted
  <2>1. SUFFICES ASSUME NEW n \in Nodes, NEW t \in Terms, <<n, t>> \in elected
                 PROVE  Cardinality({m \in Nodes : CommitIndex[m] =< LastSequence[n]}) >= MinVotes
    BY DEF MasterHoldsCommitted, IInv, TypeOK
  <2>2. Voters(n, t) \subseteq {m \in Nodes : CommitIndex[m] =< LastSequence[n]}
    BY <2>1 DEF Voters, IInv, VotesStand
  <2>3. /\ Cardinality(Voters(n, t)) =< Cardinality({m \in Nodes : CommitIndex[m] =< LastSequence[n]})
        /\ Cardinality({m \in Nodes : CommitIndex[m] =< LastSequence[n]}) \in Nat
    BY <2>2, Subsets
  <2> QED
    BY <1>1, <2>1, <2>3, Constants
<1> QED
  BY <1>2, <1>3, <1>4 DEF IInv, MastersOfTheirTerm

\* The inductive invariant of elections: votes stand as long as their term, a
\* candidate has counted no vote that nobody gave, and what a call has read is
\* still so at each of its steps (role.rs, failover.rs, heartbeat.rs).
THEOREM Invariance ==
    /\ OwnSpec => []IInv
    /\ SerialSpec => []IInv
<1>1. OwnSpec => []IInv
  BY InitHolds, NextHolds, PTL DEF OwnSpec
<1> QED
  BY <1>1, SerialIsOwn, PTL

\* Roles, terms, votes and messages keep their types.
THEOREM TypeCorrect == SerialSpec => []TypeOK
<1>1. IInv => TypeOK
  BY DEF IInv
<1> QED
  BY <1>1, Invariance, PTL

\* One vote of a node and one master in a term, masters and heartbeats only of
\* won elections, and a master holds what a majority has committed: when calls
\* of a node do not overlap, whatever the other nodes do at the same time
\* (handle_vote_request, handle_vote_response and check_election_result).
THEOREM MastersElectedOnce ==
    /\ OwnSpec => []MastersOfTheirTerm
    /\ SerialSpec => []MastersOfTheirTerm
BY InvariantMasters, Invariance, PTL

\* So it is in a group whose nodes have one thread each.
THEOREM OneThreadElectsOnce ==
    ASSUME \A h, g \in Threads : h = g
    PROVE  Spec => []MastersOfTheirTerm
BY OneThreadIsOwn, MastersElectedOnce, PTL
------------------------------------------------------------------------------
(* The gRPC service of one node (ReplicationRpc): a vote that was given    *)
(* stays, whatever appends, heartbeats, streams and snapshots come between. *)

RequestFields == {"pc", "term", "prev", "entries", "commit", "match", "stream"}

\* Terms are numbers, and votes are given to candidates.
RpcTyped ==
    /\ rpc_term \in Nat
    /\ DOMAIN rpc = Calls
    /\ \A c \in Calls : DOMAIN rpc[c] = RequestFields /\ rpc[c].term \in Nat
    /\ votes_granted \subseteq Nat \X DOMAIN CandidateLast

\* One handler raises the term at a time, and nobody else has raised it since that
\* handler read it; between its two steps nobody has given a vote in the new term.
RaisedAlone ==
    /\ \A c, d \in Calls : rpc[c].pc \in Raising /\ rpc[d].pc \in Raising => c = d
    /\ \A c \in Calls :
         /\ rpc[c].pc \in {"raise", "raise_only"} => rpc[c].term > rpc_term
         /\ rpc[c].pc = "forget" => \A v \in votes_granted : v[1] < rpc_term

\* The vote of the present term is the one that was answered.
VoteIsGranted ==
    \A v \in votes_granted : v[1] <= rpc_term /\ (v[1] = rpc_term => v[2] = rpc_vote)

RpcVoteInv ==
    /\ RpcTyped
    /\ "mixed" \notin mishaps => RaisedAlone /\ VoteIsGranted /\ VotesKept

\* A step of a handler that is not about to raise the term, or no longer, when
\* term, vote and votes stay.
LEMMA HandlerSteps ==
    ASSUME RpcVoteInv, NEW c \in Calls, NEW request, DOMAIN request = RequestFields,
           request.term \in Nat,
           rpc' = [rpc EXCEPT ![c] = request], mishaps \subseteq mishaps',
           UNCHANGED <<rpc_term, votes_granted>>,
           rpc_vote' = rpc_vote \/ rpc[c].pc = "forget",
           request.pc \in Raising =>
             /\ request.pc \in {"raise", "raise_only"} /\ request.term > rpc_term
             /\ "mixed" \in mishaps' \/ \A d \in Calls \ {c} : rpc[d].pc \notin Raising
    PROVE  RpcVoteInv'
<1>1. rpc'[c] = request /\ \A d \in Calls \ {c} : rpc'[d] = rpc[d]
  BY DEF RpcVoteInv, RpcTyped
<1>2. RpcTyped'
  BY <1>1 DEF RpcVoteInv, RpcTyped
<1>3. ASSUME "mixed" \notin mishaps' PROVE RaisedAlone' /\ VoteIsGranted' /\ VotesKept'
  <2>1. RaisedAlone /\ VoteIsGranted /\ VotesKept
    BY <1>3 DEF RpcVoteInv
  <2>2. \A d, e \in Calls : rpc'[d].pc \in Raising /\ rpc'[e].pc \in Raising => d = e
    BY <1>1, <1>3, <2>1 DEF RaisedAlone
  <2>3. ASSUME NEW d \in Calls
        PROVE  /\ rpc'[d].pc \in {"raise", "raise_only"} => rpc'[d].term > rpc_term
               /\ rpc'[d].pc = "forget" => \A v \in votes_granted : v[1] < rpc_term
    <3>1. CASE d = c
      BY <1>1, <3>1 DEF Raising
    <3>2. CASE d # c
      BY <1>1, <2>1, <3>2 DEF RaisedAlone
    <3> QED
      BY <3>1, <3>2
  <2>4. VoteIsGranted'
    <3>1. CASE rpc_vote' = rpc_vote
      BY <2>1, <3>1 DEF VoteIsGranted
    <3>2. CASE rpc[c].pc = "forget"
      <4>1. \A v \in votes_granted : v[1] < rpc_term /\ v[1] \in Nat /\ rpc_term \in Nat
        BY <2>1, <3>2 DEF RaisedAlone, RpcVoteInv, RpcTyped
      <4> QED
        BY <4>1 DEF VoteIsGranted
    <3> QED
      BY <3>1, <3>2
  <2> QED
    BY <1>3, <2>1, <2>2, <2>3, <2>4 DEF RaisedAlone, VotesKept
<1> QED
  BY <1>2, <1>3 DEF RpcVoteInv

\* A handler that goes on keeps its request.
LEMMA Going ==
    ASSUME RpcTyped, NEW c \in Calls, NEW pc, GoOn(c, pc)
    PROVE  \E request : /\ rpc' = [rpc EXCEPT ![c] = request] /\ DOMAIN request = RequestFields
                        /\ request.pc = pc /\ request.term = rpc[c].term /\ request.term \in Nat
<1>1. PICK request : request = [rpc[c] EXCEPT !.pc = pc]
  OBVIOUS
<1>2. DOMAIN rpc[c] = RequestFields /\ rpc[c].term \in Nat
  BY DEF RpcTyped
<1>3. DOMAIN request = RequestFields /\ request.pc = pc /\ request.term = rpc[c].term
  BY <1>1, <1>2 DEF RequestFields
<1>4. rpc' = [rpc EXCEPT ![c] = request]
  BY <1>1 DEF GoOn
<1> QED
  BY <1>2, <1>3, <1>4

\* What requests are made of.
LEMMA TermsAreNumbers == \A t \in LeaderTerms : t \in Nat
BY RpcAssumption DEF RpcAssumption

LEMMA NoRequestFields == DOMAIN NoCall = RequestFields /\ NoCall.term = 0 /\ NoCall.pc = "idle"
BY DEF NoCall, RequestFields

LEMMA AppendFields ==
    ASSUME NEW t, NEW prev, NEW count
    PROVE  LET request == AppendOf(t, prev, count)
           IN  DOMAIN request = RequestFields /\ request.term = t /\ request.pc = "check"
BY NoRequestFields DEF AppendOf, RequestFields

\* A handler with the lock of the term raises it, or leaves it, in one step.
LEMMA TermSteps ==
    ASSUME RpcVoteInv, NEW c \in Calls, NEW request, DOMAIN request = RequestFields,
           request.term \in Nat,
           DOMAIN rpc' = Calls, rpc'[c] = request, \A d \in Calls \ {c} : rpc'[d] = rpc[d],
           mishaps \subseteq mishaps', request.pc \notin Raising,
           "mixed" \in mishaps' \/ \A d \in Calls \ {c} : rpc[d].pc \notin Raising,
           NEW t \in Nat, t >= rpc_term, rpc_term' = t,
           votes_granted \subseteq votes_granted',
           \A v \in votes_granted' \ votes_granted :
               v[1] = t /\ v[2] = rpc_vote' /\ v \in Nat \X DOMAIN CandidateLast,
           t = rpc_term /\ rpc_vote # NoVote => rpc_vote' = rpc_vote
    PROVE  RpcVoteInv'
<1>1. RpcTyped'
  <2>1. \A v \in votes_granted' : v \in Nat \X DOMAIN CandidateLast
    BY DEF RpcVoteInv, RpcTyped
  <2> QED
    BY <2>1 DEF RpcVoteInv, RpcTyped
<1>2. ASSUME "mixed" \notin mishaps' PROVE RaisedAlone' /\ VoteIsGranted' /\ VotesKept'
  <2>1. RaisedAlone /\ VoteIsGranted /\ VotesKept
    BY <1>2 DEF RpcVoteInv
  <2>2. \A d \in Calls : rpc'[d].pc \notin Raising
    BY <1>2
  <2>3. RaisedAlone'
    BY <2>2 DEF RaisedAlone, Raising
  <2>4. \A v \in votes_granted : /\ v[1] \in Nat /\ v[2] # NoVote /\ v[1] <= rpc_term
                                 /\ v[1] = rpc_term => v[2] = rpc_vote
    BY <2>1, RpcAssumption DEF VoteIsGranted, RpcVoteInv, RpcTyped, RpcAssumption
  <2>5. rpc_term \in Nat
    BY DEF RpcVoteInv, RpcTyped
  <2>6. VoteIsGranted'
    <3> SUFFICES ASSUME NEW v \in votes_granted'
                 PROVE  v[1] <= t /\ (v[1] = t => v[2] = rpc_vote')
      BY DEF VoteIsGranted
    <3>1. CASE v \in votes_granted
      BY <2>4, <2>5, <3>1
    <3>2. CASE v \notin votes_granted
      BY <3>2
    <3> QED
      BY <3>1, <3>2
  <2>7. VotesKept'
    <3> SUFFICES ASSUME NEW v \in votes_granted', NEW w \in votes_granted', v[1] = w[1]
                 PROVE  v[2] = w[2]
      BY DEF VotesKept
    <3>1. CASE v \in votes_granted /\ w \in votes_granted
      BY <1>2, <2>1, <3>1 DEF VotesKept
    <3>2. CASE v \notin votes_granted \/ w \notin votes_granted
      BY <2>6, <3>2 DEF VoteIsGranted
    <3> QED
      BY <3>1, <3>2
  <2> QED
    BY <2>3, <2>6, <2>7
<1> QED
  BY <1>1, <1>2 DEF RpcVoteInv

\* Who takes the lock of the term sees whether it is being raised.
LEMMA MeetsOthers ==
    ASSUME NEW c \in Calls, mishaps' = Meets(c)
    PROVE  /\ mishaps \subseteq mishaps'
           /\ "mixed" \in mishaps' \/ \A d \in Calls \ {c} : rpc[d].pc \notin Raising
BY DEF Meets

\* append_entries takes a newer term and frees the vote under one lock.
LEMMA Appending ==
    ASSUME RpcVoteInv, NEW c \in Calls, AppendEntries(c)
    PROVE  RpcVoteInv'
<1>1. PICK t \in LeaderTerms :
        /\ t >= rpc_term
        /\ \E prev \in 0..Len(LeaderLog[t]) : \E count \in 0..Len(LeaderLog[t]) - prev :
             rpc' = [rpc EXCEPT ![c] = AppendOf(t, prev, count)]
        /\ rpc_term' = t
        /\ rpc_vote' = VoteAtTerm(t)
  BY DEF AppendEntries
<1>2. PICK prev, count : rpc' = [rpc EXCEPT ![c] = AppendOf(t, prev, count)]
  BY <1>1
<1>3. PICK request : request = AppendOf(t, prev, count)
  OBVIOUS
<1>4. DOMAIN request = RequestFields /\ request.term = t /\ request.pc = "check" /\ t \in Nat
  BY <1>3, AppendFields, TermsAreNumbers
<1>5. /\ mishaps \subseteq mishaps'
      /\ "mixed" \in mishaps' \/ \A d \in Calls \ {c} : rpc[d].pc \notin Raising
  BY MeetsOthers DEF AppendEntries
<1>6. votes_granted' = votes_granted /\ rpc' = [rpc EXCEPT ![c] = request] /\ request.pc \notin Raising
  BY <1>2, <1>3, <1>4 DEF AppendEntries, answers, Raising
<1>7. t = rpc_term => rpc_vote' = rpc_vote
  BY <1>1, <1>4 DEF VoteAtTerm
<1>8. DOMAIN rpc' = Calls /\ rpc'[c] = request /\ \A d \in Calls \ {c} : rpc'[d] = rpc[d]
  BY <1>6 DEF RpcVoteInv, RpcTyped
<1> QED
  BY <1>1, <1>4, <1>5, <1>6, <1>7, <1>8, TermSteps

\* request_vote votes for nobody else in the term it has voted in.
LEMMA Voting ==
    ASSUME RpcVoteInv, NEW c \in Calls, RequestVote(c)
    PROVE  RpcVoteInv'
<1>1. PICK t \in LeaderTerms, candidate \in DOMAIN CandidateLast :
        \E voted, grant :
          /\ t >= rpc_term /\ rpc_term' = t
          /\ voted = VoteAtTerm(t)
          /\ voted # NoVote /\ grant => voted = candidate
          /\ rpc_vote' = IF grant THEN candidate ELSE voted
          /\ votes_granted' = votes_granted \cup {v \in {<<t, candidate>>} : grant}
  <2>1. PICK t \in LeaderTerms, candidate \in DOMAIN CandidateLast :
          /\ t >= rpc_term
          /\ LET voted == VoteAtTerm(t)
                 last  == LastEntry(log_store)
                 asks  == CandidateLast[candidate]
                 newer == asks.term > last.term \/ (asks.term = last.term /\ asks.seq >= last.seq)
                 grant == IF voted = NoVote THEN newer ELSE voted = candidate
             IN  /\ rpc_term' = t
                 /\ rpc_vote' = IF grant THEN candidate ELSE voted
                 /\ votes_granted' = votes_granted \cup {v \in {<<t, candidate>>} : grant}
    BY DEF RequestVote
  <2> PICK voted : voted = VoteAtTerm(t)
    OBVIOUS
  <2> DEFINE last  == LastEntry(log_store)
             asks  == CandidateLast[candidate]
             newer == asks.term > last.term \/ (asks.term = last.term /\ asks.seq >= last.seq)
  <2> PICK grant : grant = IF voted = NoVote THEN newer ELSE voted = candidate
    OBVIOUS
  <2> QED
    BY <2>1
<1> PICK voted, grant :
      /\ t >= rpc_term /\ rpc_term' = t
      /\ voted = VoteAtTerm(t)
      /\ voted # NoVote /\ grant => voted = candidate
      /\ rpc_vote' = IF grant THEN candidate ELSE voted
      /\ votes_granted' = votes_granted \cup {v \in {<<t, candidate>>} : grant}
  BY <1>1
<1>2. PICK request : request = rpc[c]
  OBVIOUS
<1>3. request = NoCall /\ rpc' = rpc /\ t \in Nat
  BY <1>2, TermsAreNumbers DEF RequestVote, Arrives
<1>4. DOMAIN request = RequestFields /\ request.term \in Nat /\ request.pc \notin Raising
  BY <1>3, NoRequestFields DEF Raising
<1>5. DOMAIN rpc' = Calls /\ rpc'[c] = request /\ \A d \in Calls \ {c} : rpc'[d] = rpc[d]
  BY <1>2, <1>3 DEF RpcVoteInv, RpcTyped
<1>6. /\ mishaps \subseteq mishaps'
      /\ "mixed" \in mishaps' \/ \A d \in Calls \ {c} : rpc[d].pc \notin Raising
  BY MeetsOthers DEF RequestVote
<1>7. \A v \in votes_granted' \ votes_granted :
        v[1] = t /\ v[2] = rpc_vote' /\ v \in Nat \X DOMAIN CandidateLast
  BY <1>1, <1>3
<1>8. t = rpc_term /\ rpc_vote # NoVote => rpc_vote' = rpc_vote
  BY <1>1, <1>3 DEF VoteAtTerm
<1> QED
  BY <1>1, <1>3, <1>4, <1>5, <1>6, <1>7, <1>8, TermSteps

\* What a handler read of the term still stands when it writes it.
LEMMA TermRaised ==
    ASSUME RpcVoteInv, NEW c \in Calls, RaiseToTerm(c) \/ RaiseOnly(c)
    PROVE  RpcVoteInv'
<1>1. PICK pc : GoOn(c, pc) /\ pc \in {"forget", "append", "write"}
                /\ (pc = "forget" => RaiseToTerm(c))
  BY DEF RaiseToTerm, RaiseOnly
<1>2. /\ rpc[c].pc \in {"raise", "raise_only"} /\ rpc_term' = rpc[c].term
      /\ UNCHANGED <<rpc_vote, votes_granted, mishaps>>
  BY DEF RaiseToTerm, RaiseOnly, answers
<1>3. PICK request : /\ rpc' = [rpc EXCEPT ![c] = request] /\ DOMAIN request = RequestFields
                     /\ request.pc = pc /\ request.term = rpc[c].term /\ request.term \in Nat
  BY <1>1, Going DEF RpcVoteInv
<1>4. DOMAIN rpc' = Calls /\ rpc'[c] = request /\ \A d \in Calls \ {c} : rpc'[d] = rpc[d]
  BY <1>3 DEF RpcVoteInv, RpcTyped
<1>5. RpcTyped'
  BY <1>2, <1>3, <1>4 DEF RpcVoteInv, RpcTyped
<1>6. ASSUME "mixed" \notin mishaps' PROVE RaisedAlone' /\ VoteIsGranted' /\ VotesKept'
  <2>1. RaisedAlone /\ VoteIsGranted /\ VotesKept
    BY <1>2, <1>6 DEF RpcVoteInv
  <2>2. rpc[c].pc \in Raising /\ rpc[c].term > rpc_term /\ rpc_term \in Nat
    BY <1>2, <2>1 DEF RaisedAlone, Raising, RpcVoteInv, RpcTyped
  <2>3. \A d \in Calls \ {c} : rpc'[d].pc \notin Raising
    BY <1>4, <2>1, <2>2 DEF RaisedAlone
  <2>4. \A v \in votes_granted : v[1] \in Nat /\ v[1] <= rpc_term
    BY <2>1 DEF VoteIsGranted, RpcVoteInv, RpcTyped
  <2>5. \A v \in votes_granted : v[1] < rpc_term'
    BY <1>2, <1>3, <2>2, <2>4
  <2>6. VoteIsGranted'
    <3>1. rpc_term' \in Nat
      BY <1>5 DEF RpcTyped
    <3> QED
      BY <1>2, <2>4, <2>5, <3>1 DEF VoteIsGranted
  <2>7. VotesKept'
    BY <1>2, <1>6, <2>1 DEF VotesKept
  <2>8. RaisedAlone'
    <3>1. \A d, e \in Calls : rpc'[d].pc \in Raising /\ rpc'[e].pc \in Raising => d = e
      BY <2>3
    <3>2. ASSUME NEW d \in Calls
          PROVE  /\ rpc'[d].pc \notin {"raise", "raise_only"}
                 /\ rpc'[d].pc = "forget" => \A v \in votes_granted' : v[1] < rpc_term'
      <4>1. CASE d = c
        BY <1>1, <1>2, <1>3, <1>4, <2>5, <4>1
      <4>2. CASE d # c
        BY <2>3, <4>2 DEF Raising
      <4> QED
        BY <4>1, <4>2
    <3> QED
      BY <3>1, <3>2 DEF RaisedAlone
  <2> QED
    BY <2>6, <2>7, <2>8
<1> QED
  BY <1>5, <1>6 DEF RpcVoteInv

\* Handlers that do not raise the term.
LEMMA Handling ==
    ASSUME RpcVoteInv, NEW c \in Calls,
           \/ CheckConsistency(c) \/ AppendToLog(c) \/ ReadLast(c) \/ UpdateCommit(c)
           \/ ForgetVote(c) \/ StreamAppendEntries(c) \/ StreamEnds(c) \/ InstallSnapshot(c)
           \/ WriteChunk(c) \/ WriteChunkFails(c) \/ SnapshotBreaks(c) \/ SnapshotEndsEarly(c)
           \/ InstallCommit(c) \/ TruncateLog(c)
    PROVE  RpcVoteInv'
<1>1. /\ mishaps \subseteq mishaps' /\ UNCHANGED <<rpc_term, votes_granted>>
      /\ rpc_vote' = rpc_vote \/ rpc[c].pc = "forget"
  BY DEF CheckConsistency, AppendToLog, ReadLast, UpdateCommit, ForgetVote, StreamAppendEntries,
         StreamEnds, InstallSnapshot, WriteChunk, WriteChunkFails, SnapshotBreaks,
         SnapshotEndsEarly, InstallCommit, TruncateLog, node, answers
<1>2. DOMAIN rpc[c] = RequestFields /\ rpc[c].term \in Nat /\ RpcTyped
  BY DEF RpcVoteInv, RpcTyped
<1>3. \E request : /\ rpc' = [rpc EXCEPT ![c] = request] /\ DOMAIN request = RequestFields
                   /\ request.term \in Nat /\ request.pc \notin Raising
  <2>1. CASE \/ rpc' = [rpc EXCEPT ![c] = NoCall]
             \/ \E pc \in {"last", "truncate"} : GoOn(c, pc)
    BY <1>2, <2>1, NoRequestFields, Going DEF Raising
  <2>2. CASE CheckConsistency(c)
    <3>1. PICK request : request = IF Consistent(rpc[c]) THEN [rpc[c] EXCEPT !.pc = "append"] ELSE NoCall
      OBVIOUS
    <3>2. rpc' = [rpc EXCEPT ![c] = request]
      BY <2>2, <3>1 DEF CheckConsistency
    <3>3. DOMAIN request = RequestFields /\ request.term \in Nat /\ request.pc \notin Raising
      BY <1>2, <3>1, NoRequestFields DEF Raising, RequestFields
    <3> QED
      BY <3>2, <3>3
  <2>3. CASE AppendToLog(c)
    <3>1. PICK m : m = Last(rpc[c].entries).seq
      OBVIOUS
    <3>2. \/ rpc' = [rpc EXCEPT ![c].pc = "last"]
          \/ rpc' = [rpc EXCEPT ![c].pc = "last", ![c].match = m]
      BY <2>3, <3>1 DEF AppendToLog
    <3>3. PICK request : /\ rpc' = [rpc EXCEPT ![c] = request]
                         /\ \/ request = [rpc[c] EXCEPT !.pc = "last"]
                            \/ request = [rpc[c] EXCEPT !.pc = "last", !.match = m]
      BY <3>2
    <3>4. DOMAIN request = RequestFields /\ request.term \in Nat /\ request.pc \notin Raising
      BY <1>2, <3>3 DEF Raising, RequestFields
    <3> QED
      BY <3>3, <3>4
  <2>4. CASE ReadLast(c)
    <3>1. PICK request : /\ rpc' = [rpc EXCEPT ![c] = request]
                         /\ \E m : request = [rpc[c] EXCEPT !.pc = "commit", !.commit = m]
      BY <2>4 DEF ReadLast
    <3>2. DOMAIN request = RequestFields /\ request.term \in Nat /\ request.pc \notin Raising
      BY <1>2, <3>1 DEF Raising, RequestFields
    <3> QED
      BY <3>1, <3>2
  <2>5. CASE UpdateCommit(c)
    <3>1. PICK request, append : /\ rpc' = [rpc EXCEPT ![c] = request]
                                 /\ append = AppendOf(rpc[c].term, rpc[c].prev + 1, 1)
                                 /\ \/ request = NoCall
                                    \/ request = [append EXCEPT !.pc = "stream", !.stream = TRUE]
      BY <2>5 DEF UpdateCommit
    <3>2. DOMAIN append = RequestFields /\ append.term = rpc[c].term
      BY <3>1, AppendFields
    <3>3. CASE request = NoCall
      <4>1. DOMAIN request = RequestFields /\ request.term = 0 /\ request.pc = "idle"
        BY <3>3, NoRequestFields
      <4>2. request.pc \notin Raising /\ request.term \in Nat
        BY <4>1 DEF Raising
      <4>3. rpc' = [rpc EXCEPT ![c] = request]
        BY <3>1
      <4> QED
        BY <4>1, <4>2, <4>3
    <3>4. CASE request = [append EXCEPT !.pc = "stream", !.stream = TRUE]
      <4>1. DOMAIN request = RequestFields /\ request.term \in Nat /\ request.pc = "stream"
        BY <1>2, <3>2, <3>4 DEF RequestFields
      <4> QED
        BY <3>1, <4>1 DEF Raising
    <3> QED
      BY <3>1, <3>3, <3>4
  <2>6. CASE StreamAppendEntries(c)
    <3> PICK t \in LeaderTerms :
          rpc' = [rpc EXCEPT ![c] = [AppendOf(t, 0, 1) EXCEPT !.pc = "stream", !.stream = TRUE]]
      BY <2>6 DEF StreamAppendEntries
    <3> PICK append : append = AppendOf(t, 0, 1)
      OBVIOUS
    <3>1. PICK request : /\ rpc' = [rpc EXCEPT ![c] = request]
                         /\ append = AppendOf(t, 0, 1)
                         /\ request = [append EXCEPT !.pc = "stream", !.stream = TRUE]
      OBVIOUS
    <3>2. DOMAIN append = RequestFields /\ append.term \in Nat
      BY <3>1, AppendFields, TermsAreNumbers
    <3>3. DOMAIN request = RequestFields /\ request.term \in Nat /\ request.pc \notin Raising
      BY <3>1, <3>2 DEF Raising, RequestFields
    <3> QED
      BY <3>1, <3>3
  <2>7. CASE InstallSnapshot(c)
    <3>1. PICK t, request :
            /\ t \in LeaderTerms
            /\ rpc' = [rpc EXCEPT ![c] = request]
            /\ request = [NoCall EXCEPT !.pc = "chunk", !.term = t, !.commit = LeaderCommit[t]]
      BY <2>7 DEF InstallSnapshot
    <3>2. DOMAIN request = RequestFields /\ request.term \in Nat /\ request.pc \notin Raising
      BY <3>1, NoRequestFields, TermsAreNumbers DEF Raising, RequestFields
    <3> QED
      BY <3>1, <3>2
  <2>8. CASE ChunkDone(c)
    <3>1. PICK request : /\ rpc' = [rpc EXCEPT ![c] = request]
                         /\ request = [rpc[c] EXCEPT !.prev = rpc[c].prev + 1,
                              !.pc = IF rpc[c].prev + 1 = Chunks THEN "install" ELSE "chunk"]
      BY <2>8 DEF ChunkDone
    <3>2. DOMAIN request = RequestFields /\ request.term \in Nat /\ request.pc \notin Raising
      BY <1>2, <3>1 DEF Raising, RequestFields
    <3> QED
      BY <3>1, <3>2
  <2>9. CASE SnapshotEndsEarly(c)
    <3>1. PICK request : /\ rpc' = [rpc EXCEPT ![c] = request]
                         /\ \E m : request = [rpc[c] EXCEPT !.pc = "install", !.commit = m]
      BY <2>9 DEF SnapshotEndsEarly
    <3>2. DOMAIN request = RequestFields /\ request.term \in Nat /\ request.pc \notin Raising
      BY <1>2, <3>1 DEF Raising, RequestFields
    <3> QED
      BY <3>1, <3>2
  <2> QED
    BY <2>1, <2>2, <2>3, <2>4, <2>5, <2>6, <2>7, <2>8, <2>9
    DEF ForgetVote, StreamEnds, WriteChunk, WriteChunkFails, SnapshotBreaks, InstallCommit,
        TruncateLog
<1> QED
  BY <1>1, <1>3, HandlerSteps

\* Handlers that read the term and raise it later.
LEMMA TermRead ==
    ASSUME RpcVoteInv, NEW c \in Calls, Heartbeat(c) \/ StreamItem(c) \/ ReceiveChunk(c)
    PROVE  RpcVoteInv'
<1>1. /\ UNCHANGED <<rpc_term, rpc_vote, votes_granted>>
      /\ Meets(c) \subseteq mishaps'
  BY DEF Heartbeat, StreamItem, ReceiveChunk, node, answers
<1>2. /\ mishaps \subseteq mishaps'
      /\ "mixed" \in mishaps' \/ \A d \in Calls \ {c} : rpc[d].pc \notin Raising
  BY <1>1 DEF Meets
<1>3. \E request : /\ rpc' = [rpc EXCEPT ![c] = request] /\ DOMAIN request = RequestFields
                   /\ request.term \in Nat
                   /\ request.pc \in Raising =>
                        request.pc \in {"raise", "raise_only"} /\ request.term > rpc_term
  <2>1. CASE Heartbeat(c)
    <3> PICK t \in LeaderTerms :
          rpc' = [rpc EXCEPT ![c] = [AppendOf(t, 0, 0)
                    EXCEPT !.pc = IF t > rpc_term THEN "raise" ELSE "last"]]
      BY <2>1 DEF Heartbeat
    <3> PICK append : append = AppendOf(t, 0, 0)
      OBVIOUS
    <3>1. PICK request : /\ rpc' = [rpc EXCEPT ![c] = request]
                         /\ append = AppendOf(t, 0, 0)
                         /\ request = [append EXCEPT !.pc = IF t > rpc_term THEN "raise" ELSE "last"]
      OBVIOUS
    <3>2. DOMAIN append = RequestFields /\ append.term = t /\ t \in Nat
      BY <3>1, AppendFields, TermsAreNumbers
    <3>3. /\ DOMAIN request = RequestFields /\ request.term = t
          /\ request.pc = IF t > rpc_term THEN "raise" ELSE "last"
      BY <3>1, <3>2 DEF RequestFields
    <3>4. request.pc \in Raising => request.pc = "raise" /\ t > rpc_term
      BY <3>3 DEF Raising
    <3> QED
      BY <3>1, <3>2, <3>3, <3>4
  <2>2. CASE StreamItem(c) \/ ReceiveChunk(c)
    <3>1. PICK pc : /\ GoOn(c, pc) /\ pc \in {"raise_only", "append", "write"}
                    /\ pc = "raise_only" => rpc[c].term > rpc_term
      BY <2>2 DEF StreamItem, ReceiveChunk
    <3>2. PICK request : /\ rpc' = [rpc EXCEPT ![c] = request] /\ DOMAIN request = RequestFields
                         /\ request.pc = pc /\ request.term = rpc[c].term /\ request.term \in Nat
      BY <3>1, Going DEF RpcVoteInv
    <3> QED
      BY <3>1, <3>2 DEF Raising
  <2> QED
    BY <2>1, <2>2
<1> QED
  BY <1>1, <1>2, <1>3, HandlerSteps

\* In a term the node answers one candidate with yes (request_vote), whatever
\* append_entries, heartbeat, stream_append_entries and install_snapshot do to term
\* and vote meanwhile, as long as no two handlers raise the term at a time.
THEOREM VotesAreKept == RpcSpec => []VotesKept
<1>1. RpcInit => RpcVoteInv
  <2> SUFFICES ASSUME RpcInit PROVE RpcVoteInv
    OBVIOUS
  <2>1. DOMAIN rpc = Calls /\ \A c \in Calls : rpc[c] = NoCall
    BY DEF RpcInit
  <2>2. RpcTyped
    BY <2>1, NoRequestFields DEF RpcInit, RpcTyped
  <2>3. RaisedAlone /\ VoteIsGranted /\ VotesKept
    BY <2>1, NoRequestFields DEF RpcInit, RaisedAlone, VoteIsGranted, VotesKept, Raising
  <2> QED
    BY <2>2, <2>3 DEF RpcVoteInv
<1>2. RpcVoteInv /\ [RpcNext]_rpcVars => RpcVoteInv'
  <2> SUFFICES ASSUME RpcVoteInv, [RpcNext]_rpcVars PROVE RpcVoteInv'
    OBVIOUS
  <2>1. CASE UNCHANGED rpcVars
    BY <2>1 DEF rpcVars, RpcVoteInv, RpcTyped, RaisedAlone, VoteIsGranted, VotesKept
  <2>2. ASSUME NEW c \in Calls, AppendEntries(c) PROVE RpcVoteInv'
    BY <2>2, Appending
  <2>3. ASSUME NEW c \in Calls, RequestVote(c) PROVE RpcVoteInv'
    BY <2>3, Voting
  <2>4. ASSUME NEW c \in Calls, RaiseToTerm(c) \/ RaiseOnly(c) PROVE RpcVoteInv'
    BY <2>4, TermRaised
  <2>5. ASSUME NEW c \in Calls, Heartbeat(c) \/ StreamItem(c) \/ ReceiveChunk(c)
        PROVE  RpcVoteInv'
    BY <2>5, TermRead
  <2>6. ASSUME NEW c \in Calls,
               \/ CheckConsistency(c) \/ AppendToLog(c) \/ ReadLast(c) \/ UpdateCommit(c)
               \/ ForgetVote(c) \/ StreamAppendEntries(c) \/ StreamEnds(c)
               \/ InstallSnapshot(c) \/ WriteChunk(c) \/ WriteChunkFails(c)
               \/ SnapshotBreaks(c) \/ SnapshotEndsEarly(c) \/ InstallCommit(c) \/ TruncateLog(c)
        PROVE  RpcVoteInv'
    BY <2>6, Handling
  <2> QED
    BY <2>1, <2>2, <2>3, <2>4, <2>5, <2>6 DEF RpcNext
<1>3. RpcVoteInv => VotesKept
  BY DEF RpcVoteInv, VotesKept
<1> QED
  BY <1>1, <1>2, <1>3, PTL DEF RpcSpec
=============================================================================
