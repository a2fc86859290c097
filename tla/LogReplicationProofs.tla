------------------------ MODULE LogReplicationProofs ------------------------
(***************************************************************************)
(* What is committed is on a majority, and no log has a gap, however       *)
(* requests and answers are delayed, repeated or lost and whoever is       *)
(* elected, for any batch size and any bounds.                             *)
(*                                                                         *)
(* Logs only grow, and entries are never taken back.  The invariant says   *)
(* that what a master believes of a slave, its match and next index and    *)
(* the answers under way, is so of the entries the two have in common:     *)
(* such a belief stays true in the next term, when the same node is        *)
(* elected again and an old answer arrives.                                *)
(***************************************************************************)
EXTENDS LogReplication, TLAPS, FiniteSetTheorems, SequenceTheorems

Entries(n) == {pending_logs[n][i] : i \in DOMAIN pending_logs[n]}

\* Nodes n and m have, of every sequence up to k, an entry in common.
ShareUpTo(n, m, k) == \A s \in 1..k : \E e \in Entries(n) \cap Entries(m) : e.sequence = s

Request == [to : Nodes, leader_id : Nodes, term : 0..LogTerms, entries : Seq(Entry),
            leader_commit : 0..LogSequences]
Response == [from : Nodes, to : Nodes, term : 0..LogTerms, success : BOOLEAN,
             match_sequence : 0..LogSequences]

LogTyped ==
    /\ LogTypeOK
    /\ requests \subseteq Request /\ responses \subseteq Response
    /\ \A n \in Nodes : IsMaster(n) => term[n] # 0
    /\ \A n \in Nodes : slave_match_index[n][n] = Absent
    /\ \A req \in requests : req.to # req.leader_id /\ req.entries # <<>>
    /\ \A resp \in responses : resp.from # resp.to

\* Below an entry of a log everything comes before it.
Gapless ==
    \A n \in Nodes : \A i \in DOMAIN pending_logs[n] :
        \A r \in 1..(pending_logs[n][i].sequence - 1) :
            \E j \in 1..(i - 1) : pending_logs[n][j].sequence = r

\* A request carries entries of its sender; what is below one of them comes
\* before it in the request, or the receiver has it from the sender.
RequestGapless(req) ==
    \A i \in DOMAIN req.entries :
        /\ req.entries[i] \in Entries(req.leader_id)
        /\ \A r \in 1..(req.entries[i].sequence - 1) :
             \/ \E j \in 1..(i - 1) : req.entries[j].sequence = r
             \/ \E e \in Entries(req.leader_id) \cap Entries(req.to) : e.sequence = r

\* What a master believes of a slave is so.
BeliefsTrue ==
    /\ \A n, m \in Nodes : ShareUpTo(n, m, slave_match_index[n][m])
    /\ \A n, m \in Nodes : ShareUpTo(n, m, slave_next_index[n][m] - 1)
    /\ \A resp \in responses :
         resp.success => ShareUpTo(resp.to, resp.from, resp.match_sequence)

\* Another node has what a node has committed.
CommittedTwice ==
    \A n \in Nodes : \A s \in 1..commit_index[n] :
        \E m \in Nodes \ {n} : \E e \in Entries(n) \cap Entries(m) : e.sequence = s

IInv ==
    /\ LogTyped /\ Gapless /\ BeliefsTrue /\ CommittedTwice
    /\ \A req \in requests : RequestGapless(req)
------------------------------------------------------------------------------
LEMMA Constants ==
    /\ IsFiniteSet(Nodes) /\ BatchSize \in Nat \ {0} /\ LogTerms \in Nat \ {0}
    /\ LogSequences \in Nat \ {0} /\ LogLength \in Nat \ {0}
BY LogReplicationAssumption DEF LogReplicationAssumption

\* A set of numbers has a least one, and a bounded set a greatest.
LEMMA Least ==
    ASSUME NEW S \in SUBSET Nat, S # {}
    PROVE  \E m \in S : \A k \in S : m <= k
<1>1. PICK R : R = OpToRel(<, Nat)
  OBVIOUS
<1>2. IsWellFoundedOn(R, Nat)
  BY <1>1, NatLessThanWellFounded
<1>3. PICK m \in S : \A k \in S : <<k, m>> \notin R
  BY <1>2, WFMin, Zenon
<1>4. \A k \in Nat : k < m => <<k, m>> \in R
  BY <1>1 DEF OpToRel
<1>5. ASSUME NEW k \in S PROVE m <= k
  <2>1. m \in Nat /\ k \in Nat
    BY <1>3
  <2>2. ~(k < m)
    BY <1>3, <1>4, <2>1
  <2> QED
    BY <2>1, <2>2
<1> QED
  BY <1>3, <1>5

LEMMA Greatest ==
    ASSUME NEW b \in Nat, NEW S \in SUBSET (0..b), S # {}
    PROVE  \E m \in S : \A k \in S : k <= m
<1> DEFINE T == {b - k : k \in S}
<1>1. \A k \in S : k \in Nat /\ b - k \in Nat
  OBVIOUS
<1>2. T \in SUBSET Nat /\ T # {}
  BY <1>1
<1>3. PICK t \in T : \A u \in T : t <= u
  BY <1>2, Least
<1>4. PICK m \in S : t = b - m
  BY <1>3
<1>5. ASSUME NEW k \in S PROVE k <= m
  <2>1. b - m <= b - k
    BY <1>3, <1>4
  <2>2. m \in Nat /\ k \in Nat
    BY <1>1, <1>4
  <2> QED
    BY <2>1, <2>2
<1> QED
  BY <1>4, <1>5

LEMMA HighestOf ==
    ASSUME NEW b \in Nat, NEW S \in SUBSET (0..b)
    PROVE  /\ Highest(S) \in S \cup {0} /\ Highest(S) \in 0..b
           /\ \A r \in S : r <= Highest(S)
<1>1. \E s \in S \cup {0} : \A r \in S : r <= s
  <2>1. CASE S = {}
    BY <2>1
  <2>2. CASE S # {}
    BY <2>2, Greatest
  <2> QED
    BY <2>1, <2>2
<1>2. Highest(S) \in S \cup {0} /\ \A r \in S : r <= Highest(S)
  BY <1>1 DEF Highest
<1>3. S \cup {0} \subseteq 0..b
  OBVIOUS
<1> QED
  BY <1>2, <1>3

LEMMA InitIInv == LogInit => IInv
<1> SUFFICES ASSUME LogInit PROVE IInv
  OBVIOUS
<1> USE DEF LogInit
<1>1. <<>> \in Seq(Entry) /\ DOMAIN <<>> = {}
  OBVIOUS
<1>2. LogTypeOK
  BY <1>1, Constants DEF LogTypeOK, Absent
<1>3. LogTyped
  BY <1>2 DEF LogTyped, IsMaster
<1>4. Gapless
  BY <1>1 DEF Gapless
<1>5. CommittedTwice
  BY DEF CommittedTwice
<1>6. BeliefsTrue
  <2>1. 1..Absent = {} /\ 1..(1 - 1) = {}
    BY DEF Absent
  <2> QED
    BY <2>1 DEF BeliefsTrue, ShareUpTo
<1> QED
  BY <1>3, <1>4, <1>5, <1>6 DEF IInv

\* Logs only grow: what two nodes share they go on sharing.
LEMMA SharedKept ==
    ASSUME \A n \in Nodes : Entries(n) \subseteq Entries(n)'
    PROVE  /\ \A n, m \in Nodes : \A k : ShareUpTo(n, m, k) => ShareUpTo(n, m, k)'
           /\ \A req : req.leader_id \in Nodes /\ req.to \in Nodes /\ RequestGapless(req)
                         => RequestGapless(req)'
<1>1. ASSUME NEW n \in Nodes, NEW m \in Nodes, NEW k, ShareUpTo(n, m, k)
      PROVE  ShareUpTo(n, m, k)'
  <2>1. Entries(n) \cap Entries(m) \subseteq Entries(n)' \cap Entries(m)'
    OBVIOUS
  <2> QED
    BY <1>1, <2>1 DEF ShareUpTo
<1>2. ASSUME NEW req, req.leader_id \in Nodes, req.to \in Nodes, RequestGapless(req)
      PROVE  RequestGapless(req)'
  <2>1. /\ Entries(req.leader_id) \subseteq Entries(req.leader_id)'
        /\ Entries(req.to) \subseteq Entries(req.to)'
    BY <1>2
  <2> QED
    BY <1>2, <2>1 DEF RequestGapless
<1> QED
  BY <1>1, <1>2

LEMMA LogsKept ==
    ASSUME UNCHANGED pending_logs
    PROVE  /\ \A n \in Nodes : Entries(n)' = Entries(n)
           /\ \A n, m \in Nodes : \A k : ShareUpTo(n, m, k)' <=> ShareUpTo(n, m, k)
           /\ \A req : RequestGapless(req)' <=> RequestGapless(req)
           /\ Gapless' <=> Gapless
BY DEF Entries, ShareUpTo, RequestGapless, Gapless

LEMMA ShareLess ==
    ASSUME NEW n \in Nodes, NEW m \in Nodes, NEW k \in Int, NEW l \in Int, l <= k,
           ShareUpTo(n, m, k)
    PROVE  ShareUpTo(n, m, l)
<1>1. 1..l \subseteq 1..k
  OBVIOUS
<1> QED
  BY <1>1 DEF ShareUpTo

LEMMA ShareNone == \A n, m \in Nodes : ShareUpTo(n, m, 0) /\ ShareUpTo(n, m, Absent)
<1>1. 1..0 = {} /\ 1..Absent = {}
  BY DEF Absent
<1> QED
  BY <1>1 DEF ShareUpTo

LEMMA TypedFacts ==
    ASSUME LogTyped
    PROVE  /\ \A n \in Nodes : term[n] \in 0..LogTerms /\ commit_index[n] \in 0..LogSequences
           /\ \A n \in Nodes : pending_logs[n] \in Seq(Entry)
           /\ \A n, m \in Nodes : /\ slave_match_index[n][m] \in Absent..LogSequences
                                  /\ slave_next_index[n][m] \in 1..(LogSequences + 1)
           /\ \A n \in Nodes : Entries(n) \subseteq Entry
<1>1. /\ \A n \in Nodes : term[n] \in 0..LogTerms /\ commit_index[n] \in 0..LogSequences
      /\ \A n \in Nodes : pending_logs[n] \in Seq(Entry)
  BY DEF LogTyped, LogTypeOK
<1>2. \A n, m \in Nodes : /\ slave_match_index[n][m] \in Absent..LogSequences
                          /\ slave_next_index[n][m] \in 1..(LogSequences + 1)
  BY DEF LogTyped, LogTypeOK
<1>3. \A n \in Nodes : Entries(n) \subseteq Entry
  BY <1>1 DEF Entries
<1> QED
  BY <1>1, <1>2, <1>3
------------------------------------------------------------------------------
(* The master. *)

LEMMA ElectStep == ASSUME IInv, NEW n \in Nodes, Elect(n) PROVE IInv'
<1>1. PICK Q \in SUBSET Nodes :
         /\ n \in Q
         /\ term' = [m \in Nodes |-> IF m \in Q THEN term[n] + 1 ELSE term[m]]
         /\ role' = [m \in Nodes |-> IF m = n THEN "Master"
                                     ELSE IF m \in Q THEN "Slave" ELSE role[m]]
  BY DEF Elect
<1>2. /\ term[n] < LogTerms
      /\ slave_match_index' = [slave_match_index EXCEPT ![n] =
                               [m \in Nodes |-> IF m = n THEN @[m] ELSE 0]]
      /\ slave_next_index' = [slave_next_index EXCEPT ![n] =
                              [m \in Nodes |-> IF m = n THEN @[m] ELSE 1]]
      /\ UNCHANGED <<pending_logs, commit_index, requests, responses>>
  BY DEF Elect
<1>3. LogTyped /\ BeliefsTrue /\ CommittedTwice
  BY DEF IInv
<1>4. /\ \A l, m \in Nodes : slave_match_index'[l][m]
            = IF l = n THEN IF m = n THEN slave_match_index[l][m] ELSE 0
                       ELSE slave_match_index[l][m]
      /\ \A l, m \in Nodes : slave_next_index'[l][m]
            = IF l = n THEN IF m = n THEN slave_next_index[l][m] ELSE 1
                       ELSE slave_next_index[l][m]
  BY <1>2, <1>3 DEF LogTyped, LogTypeOK
<1>5. LogTypeOK'
  <2>1. term' \in [Nodes -> 0..LogTerms] /\ role' \in [Nodes -> {"Master", "Slave"}]
    <3>1. term[n] + 1 \in 0..LogTerms
      BY <1>2, <1>3, TypedFacts, Constants
    <3> QED
      BY <1>1, <1>3, <3>1 DEF LogTyped, LogTypeOK
  <2>2. 0 \in Absent..LogSequences /\ 1 \in 1..(LogSequences + 1)
    BY Constants DEF Absent
  <2>3. /\ slave_match_index' \in [Nodes -> [Nodes -> Absent..LogSequences]]
        /\ slave_next_index' \in [Nodes -> [Nodes -> 1..(LogSequences + 1)]]
    <3>1. /\ [m \in Nodes |-> IF m = n THEN slave_match_index[n][m] ELSE 0]
                \in [Nodes -> Absent..LogSequences]
          /\ [m \in Nodes |-> IF m = n THEN slave_next_index[n][m] ELSE 1]
                \in [Nodes -> 1..(LogSequences + 1)]
      BY <1>3, <2>2, TypedFacts
    <3> QED
      BY <1>2, <1>3, <3>1 DEF LogTyped, LogTypeOK
  <2> QED
    BY <1>2, <1>3, <2>1, <2>3 DEF LogTyped, LogTypeOK
<1>6. LogTyped'
  <2>1. \A m \in Nodes : IsMaster(m)' => term'[m] # 0
    <3>1. term[n] + 1 # 0
      BY <1>3, TypedFacts
    <3> QED
      BY <1>1, <1>3, <3>1 DEF LogTyped, IsMaster
  <2>2. \A m \in Nodes : slave_match_index'[m][m] = Absent
    BY <1>3, <1>4 DEF LogTyped
  <2> QED
    BY <1>2, <1>3, <1>5, <2>1, <2>2 DEF LogTyped
<1>7. BeliefsTrue'
  <2>1. 1 - 1 = 0
    OBVIOUS
  <2>2. ASSUME NEW l \in Nodes, NEW m \in Nodes
        PROVE  /\ ShareUpTo(l, m, slave_match_index'[l][m])
               /\ ShareUpTo(l, m, slave_next_index'[l][m] - 1)
    BY <1>3, <1>4, <2>1, ShareNone DEF BeliefsTrue
  <2>3. ASSUME NEW l \in Nodes, NEW m \in Nodes
        PROVE  /\ ShareUpTo(l, m, slave_match_index[l][m])'
               /\ ShareUpTo(l, m, slave_next_index[l][m] - 1)'
    BY <1>2, <2>2 DEF ShareUpTo, Entries
  <2>4. \A resp \in responses' :
          resp.success => ShareUpTo(resp.to, resp.from, resp.match_sequence)'
    BY <1>2, <1>3 DEF BeliefsTrue, ShareUpTo, Entries
  <2> QED
    BY <2>3, <2>4 DEF BeliefsTrue
<1>8. CommittedTwice' /\ Gapless' /\ \A req \in requests' : RequestGapless(req)'
  BY <1>2, <1>3, LogsKept DEF IInv, CommittedTwice, Entries
<1> QED
  BY <1>6, <1>7, <1>8 DEF IInv

\* A step that only adds entries to logs.
LEMMA LogsGrow ==
    ASSUME IInv, \A n \in Nodes : Entries(n) \subseteq Entries(n)',
           UNCHANGED <<slave_match_index, slave_next_index>>
    PROVE  /\ \A n, m \in Nodes : ShareUpTo(n, m, slave_match_index[n][m])'
           /\ \A n, m \in Nodes : ShareUpTo(n, m, slave_next_index[n][m] - 1)'
           /\ \A resp \in responses :
                resp.success => ShareUpTo(resp.to, resp.from, resp.match_sequence)'
           /\ \A req \in requests : RequestGapless(req)'
           /\ \A n \in Nodes : \A s \in 1..commit_index[n] :
                \E m \in Nodes \ {n} : \E e \in Entries(n)' \cap Entries(m)' : e.sequence = s
<1>1. /\ \A n, m \in Nodes : ShareUpTo(n, m, slave_match_index[n][m])
      /\ \A n, m \in Nodes : ShareUpTo(n, m, slave_next_index[n][m] - 1)
      /\ \A resp \in responses :
           resp.success => ShareUpTo(resp.to, resp.from, resp.match_sequence)
  BY DEF IInv, BeliefsTrue
<1>2. /\ \A resp \in responses : resp.to \in Nodes /\ resp.from \in Nodes
      /\ \A req \in requests : req.to \in Nodes /\ req.leader_id \in Nodes /\ RequestGapless(req)
  BY DEF IInv, LogTyped, Request, Response
<1>3. ASSUME NEW n \in Nodes, NEW m \in Nodes, NEW k, ShareUpTo(n, m, k)
      PROVE  \A s \in 1..k : \E e \in Entries(n)' \cap Entries(m)' : e.sequence = s
  BY <1>3 DEF ShareUpTo
<1>4. ASSUME NEW n \in Nodes, NEW m \in Nodes
      PROVE  /\ ShareUpTo(n, m, slave_match_index[n][m])'
             /\ ShareUpTo(n, m, slave_next_index[n][m] - 1)'
  BY <1>1, <1>3 DEF ShareUpTo
<1>5. ASSUME NEW resp \in responses, resp.success
      PROVE  ShareUpTo(resp.to, resp.from, resp.match_sequence)'
  BY <1>1, <1>2, <1>3, <1>5 DEF ShareUpTo
<1>6. \A req \in requests : RequestGapless(req)'
  BY <1>2, SharedKept
<1>7. ASSUME NEW n \in Nodes, NEW s \in 1..commit_index[n]
      PROVE  \E m \in Nodes \ {n} : \E e \in Entries(n)' \cap Entries(m)' : e.sequence = s
  <2>1. PICK m \in Nodes \ {n} : \E e \in Entries(n) \cap Entries(m) : e.sequence = s
    BY DEF IInv, CommittedTwice
  <2>2. Entries(n) \subseteq Entries(n)' /\ Entries(m) \subseteq Entries(m)'
    BY <2>1
  <2> QED
    BY <2>1, <2>2
<1> QED
  BY <1>4, <1>5, <1>6, <1>7

LEMMA AppendLogStep == ASSUME IInv, NEW n \in Nodes, AppendLog(n) PROVE IInv'
<1>1. PICK next : next = 1 + Highest(Sequences(pending_logs[n]))
  OBVIOUS
<1>2. PICK new : new = [sequence |-> next, term |-> term[n]]
  OBVIOUS
<1>3. /\ IsMaster(n) /\ next <= LogSequences
      /\ pending_logs' = [pending_logs EXCEPT ![n] = Append(@, new)]
      /\ UNCHANGED <<role, term, leaderVars, commit_index, requests, responses>>
  BY <1>1, <1>2 DEF AppendLog
<1>4. LogTyped /\ pending_logs \in [Nodes -> Seq(Entry)]
  BY DEF IInv, LogTyped, LogTypeOK
<1>5. pending_logs[n] \in Seq(Entry)
  BY <1>4
<1>6. Sequences(pending_logs[n]) \in SUBSET (0..LogSequences)
  <2>1. \A i \in DOMAIN pending_logs[n] : pending_logs[n][i] \in Entry
    BY <1>5
  <2>2. \A i \in DOMAIN pending_logs[n] : pending_logs[n][i].sequence \in 0..LogSequences
    BY <2>1 DEF Entry
  <2> QED
    BY <2>2 DEF Sequences
<1>7. /\ Highest(Sequences(pending_logs[n])) \in Sequences(pending_logs[n]) \cup {0}
      /\ Highest(Sequences(pending_logs[n])) \in 0..LogSequences
  BY <1>6, HighestOf, Constants
<1>8. /\ next \in 1..LogSequences
      /\ next = 1 \/ \E i \in DOMAIN pending_logs[n] : pending_logs[n][i].sequence = next - 1
  <2>1. PICK h : h = Highest(Sequences(pending_logs[n]))
    OBVIOUS
  <2>2. next = 1 + h /\ h \in 0..LogSequences /\ h \in Sequences(pending_logs[n]) \cup {0}
    BY <1>1, <1>7, <2>1
  <2>3. h = next - 1 /\ next \in 1..LogSequences /\ (h = 0 => next = 1)
    BY <1>3, <2>2, Constants
  <2>4. h = 0 \/ \E i \in DOMAIN pending_logs[n] : pending_logs[n][i].sequence = h
    BY <2>2 DEF Sequences
  <2> QED
    BY <2>3, <2>4
<1>9. new \in Entry /\ new.sequence = next
  <2>1. term[n] \in 1..LogTerms
    BY <1>3, <1>4, TypedFacts, Constants DEF LogTyped
  <2> QED
    BY <1>2, <1>8, <2>1 DEF Entry
<1> DEFINE len == Len(pending_logs[n])
<1>10. /\ len \in Nat /\ DOMAIN pending_logs[n] = 1..len
       /\ pending_logs'[n] = Append(pending_logs[n], new)
       /\ \A m \in Nodes : m # n => pending_logs'[m] = pending_logs[m]
       /\ pending_logs' \in [Nodes -> Seq(Entry)]
  BY <1>3, <1>4, <1>5, <1>9
<1>11. /\ DOMAIN pending_logs'[n] = 1..(len + 1)
       /\ \A i \in 1..len : pending_logs'[n][i] = pending_logs[n][i]
       /\ pending_logs'[n][len + 1] = new
  BY <1>5, <1>9, <1>10
<1> HIDE DEF len
<1>12. \A m \in Nodes : Entries(m) \subseteq Entries(m)'
  <2>1. Entries(n) \subseteq Entries(n)'
    BY <1>10, <1>11 DEF Entries
  <2>2. \A m \in Nodes : m # n => Entries(m)' = Entries(m)
    BY <1>10 DEF Entries
  <2> QED
    BY <2>1, <2>2
<1>13. LogTyped'
  BY <1>3, <1>4, <1>10 DEF LogTyped, LogTypeOK, leaderVars, IsMaster
<1>14. Gapless'
  <2>1. ASSUME NEW m \in Nodes, m # n, NEW i \in DOMAIN pending_logs'[m],
               NEW r \in 1..(pending_logs'[m][i].sequence - 1)
        PROVE  \E j \in 1..(i - 1) : pending_logs'[m][j].sequence = r
    <3>1. pending_logs'[m] = pending_logs[m] /\ Gapless
      BY <1>10, <2>1 DEF IInv
    <3> QED
      BY <3>1 DEF Gapless
  <2>2. ASSUME NEW i \in 1..len, NEW r \in 1..(pending_logs[n][i].sequence - 1)
        PROVE  \E j \in 1..(i - 1) : pending_logs'[n][j].sequence = r
    <3>1. PICK j \in 1..(i - 1) : pending_logs[n][j].sequence = r
      BY <1>10 DEF IInv, Gapless
    <3>2. j \in 1..len
      BY <1>10, <3>1
    <3> QED
      BY <1>11, <3>1, <3>2
  <2>3. ASSUME NEW r \in 1..(next - 1)
        PROVE  \E j \in 1..len : pending_logs'[n][j].sequence = r
    <3>1. PICK i \in 1..len : pending_logs[n][i].sequence = next - 1
      BY <1>8, <1>10, <2>3
    <3>2. CASE r = next - 1
      BY <1>11, <3>1, <3>2
    <3>3. CASE r # next - 1
      <4>1. r \in 1..(pending_logs[n][i].sequence - 1)
        BY <1>8, <3>1, <3>3
      <4>2. PICK j \in 1..(i - 1) : pending_logs'[n][j].sequence = r
        BY <2>2, <4>1
      <4>3. j \in 1..len
        BY <1>10, <4>2
      <4> QED
        BY <4>2, <4>3
    <3> QED
      BY <3>2, <3>3
  <2>4. ASSUME NEW i \in DOMAIN pending_logs'[n], NEW r \in 1..(pending_logs'[n][i].sequence - 1)
        PROVE  \E j \in 1..(i - 1) : pending_logs'[n][j].sequence = r
    <3>1. CASE i \in 1..len
      BY <1>11, <2>2, <2>4, <3>1
    <3>2. CASE i = len + 1
      <4>1. r \in 1..(next - 1) /\ 1..(i - 1) = 1..len
        BY <1>9, <1>10, <1>11, <2>4, <3>2
      <4> QED
        BY <2>3, <4>1
    <3> QED
      BY <1>10, <1>11, <2>4, <3>1, <3>2
  <2> QED
    BY <2>1, <2>4 DEF Gapless
<1>15. BeliefsTrue' /\ CommittedTwice' /\ \A req \in requests' : RequestGapless(req)'
  BY <1>3, <1>12, LogsGrow DEF leaderVars, BeliefsTrue, CommittedTwice
<1> QED
  BY <1>13, <1>14, <1>15 DEF IInv

\* A step that leaves the logs and the commit indices alone.
LEMMA OtherStep ==
    ASSUME IInv, LogTyped', UNCHANGED <<pending_logs, commit_index>>,
           \A n, m \in Nodes : ShareUpTo(n, m, slave_match_index'[n][m]),
           \A n, m \in Nodes : ShareUpTo(n, m, slave_next_index'[n][m] - 1),
           \A resp \in responses' :
             resp.success => ShareUpTo(resp.to, resp.from, resp.match_sequence),
           \A req \in requests' : RequestGapless(req)
    PROVE  IInv'
<1>1. BeliefsTrue'
  BY DEF BeliefsTrue, ShareUpTo, Entries
<1>2. CommittedTwice'
  BY DEF IInv, CommittedTwice, Entries
<1>3. Gapless' /\ \A req \in requests' : RequestGapless(req)'
  BY LogsKept DEF IInv
<1> QED
  BY <1>1, <1>2, <1>3 DEF IInv

LEMMA UnregisterStep == ASSUME IInv, NEW n \in Nodes, NEW m \in Nodes, UnregisterSlave(n, m) PROVE IInv'
<1>1. /\ slave_match_index' = [slave_match_index EXCEPT ![n][m] = Absent]
      /\ slave_next_index' = [slave_next_index EXCEPT ![n][m] = 1]
      /\ UNCHANGED <<role, term, pending_logs, commit_index, requests, responses>>
  BY DEF UnregisterSlave
<1>2. LogTyped /\ BeliefsTrue
  BY DEF IInv
<1>3. /\ \A k, l \in Nodes : slave_match_index'[k][l]
            = IF k = n /\ l = m THEN Absent ELSE slave_match_index[k][l]
      /\ \A k, l \in Nodes : slave_next_index'[k][l]
            = IF k = n /\ l = m THEN 1 ELSE slave_next_index[k][l]
  BY <1>1, <1>2 DEF LogTyped, LogTypeOK
<1>4. LogTyped'
  <2>1. Absent \in Absent..LogSequences /\ 1 \in 1..(LogSequences + 1)
    BY Constants DEF Absent
  <2>2. /\ slave_match_index' \in [Nodes -> [Nodes -> Absent..LogSequences]]
        /\ slave_next_index' \in [Nodes -> [Nodes -> 1..(LogSequences + 1)]]
    BY <1>1, <1>2, <2>1 DEF LogTyped, LogTypeOK
  <2>3. \A k \in Nodes : slave_match_index'[k][k] = Absent
    BY <1>2, <1>3 DEF LogTyped
  <2> QED
    BY <1>1, <1>2, <2>2, <2>3 DEF LogTyped, LogTypeOK, IsMaster
<1>5. 1 - 1 = 0
  OBVIOUS
<1>6. /\ \A k, l \in Nodes : ShareUpTo(k, l, slave_match_index'[k][l])
      /\ \A k, l \in Nodes : ShareUpTo(k, l, slave_next_index'[k][l] - 1)
  BY <1>2, <1>3, <1>5, ShareNone DEF BeliefsTrue
<1> QED
  BY <1>1, <1>2, <1>4, <1>6, OtherStep DEF IInv, BeliefsTrue

LEMMA RetryStep == ASSUME IInv, NEW resp \in responses, Retry(resp) PROVE IInv'
<1>1. PICK n \in Nodes, m \in Nodes : n = resp.to /\ m = resp.from
  BY DEF IInv, LogTyped, Response
<1>2. /\ slave_next_index' = [slave_next_index EXCEPT ![n][m] = Back(@)]
      /\ responses' = responses \ {resp}
      /\ UNCHANGED <<role, term, pending_logs, slave_match_index, commit_index, requests>>
  BY <1>1 DEF Retry
<1>3. LogTyped /\ BeliefsTrue
  BY DEF IInv
<1>4. PICK next : next = slave_next_index[n][m]
  OBVIOUS
<1>5. /\ next \in 1..(LogSequences + 1)
      /\ Back(next) \in 1..(LogSequences + 1) /\ Back(next) - 1 <= next - 1
  <2>1. next \in 1..(LogSequences + 1)
    BY <1>3, <1>4, TypedFacts
  <2> QED
    BY <2>1, Constants DEF Back
<1>6. \A k, l \in Nodes : slave_next_index'[k][l]
            = IF k = n /\ l = m THEN Back(next) ELSE slave_next_index[k][l]
  BY <1>2, <1>3, <1>4 DEF LogTyped, LogTypeOK
<1>7. LogTyped'
  <2>1. slave_next_index' \in [Nodes -> [Nodes -> 1..(LogSequences + 1)]]
    BY <1>2, <1>3, <1>4, <1>5 DEF LogTyped, LogTypeOK
  <2> QED
    BY <1>2, <1>3, <2>1 DEF LogTyped, LogTypeOK, IsMaster
<1>8. ShareUpTo(n, m, Back(next) - 1)
  <2>1. ShareUpTo(n, m, next - 1)
    BY <1>3, <1>4 DEF BeliefsTrue
  <2>2. next - 1 \in Int /\ Back(next) - 1 \in Int
    BY <1>5
  <2> QED
    BY <1>5, <2>1, <2>2, ShareLess
<1>9. \A k, l \in Nodes : ShareUpTo(k, l, slave_next_index'[k][l] - 1)
  BY <1>3, <1>6, <1>8 DEF BeliefsTrue
<1> QED
  BY <1>2, <1>3, <1>7, <1>9, OtherStep DEF IInv, BeliefsTrue

LEMMA StepDownStep == ASSUME IInv, NEW resp \in responses, StepDown(resp) PROVE IInv'
<1>1. resp.to \in Nodes /\ resp.term \in 0..LogTerms
  BY DEF IInv, LogTyped, Response
<1>2. /\ term' = [term EXCEPT ![resp.to] = resp.term]
      /\ role' = [role EXCEPT ![resp.to] = "Slave"]
      /\ responses' = responses \ {resp}
      /\ UNCHANGED <<pending_logs, leaderVars, commit_index, requests>>
  BY DEF StepDown
<1>3. LogTyped /\ BeliefsTrue
  BY DEF IInv
<1>4. LogTyped'
  <2>1. LogTypeOK'
    BY <1>1, <1>2, <1>3 DEF LogTyped, LogTypeOK, leaderVars
  <2>2. \A k \in Nodes : IsMaster(k)' => term'[k] # 0
    BY <1>1, <1>2, <1>3 DEF LogTyped, LogTypeOK, IsMaster
  <2> QED
    BY <1>2, <1>3, <2>1, <2>2 DEF LogTyped, leaderVars
<1> QED
  BY <1>2, <1>3, <1>4, OtherStep DEF IInv, BeliefsTrue, leaderVars

LEMMA DropStep ==
    ASSUME IInv, requests' \subseteq requests, responses' \subseteq responses,
           UNCHANGED <<role, term, pending_logs, leaderVars, commit_index>>
    PROVE  IInv'
<1>1. LogTyped'
  BY DEF IInv, LogTyped, LogTypeOK, leaderVars, IsMaster
<1> QED
  BY <1>1, OtherStep DEF IInv, BeliefsTrue, leaderVars

LEMMA RefuseStep == ASSUME IInv, NEW req \in requests, RefuseLogs(req) PROVE IInv'
<1>1. PICK new : new = Answer(req, FALSE, 0)
  OBVIOUS
<1>2. /\ responses' = responses \cup {new}
      /\ UNCHANGED <<role, term, pending_logs, leaderVars, commit_index, requests>>
  BY <1>1 DEF RefuseLogs
<1>3. new \in Response /\ new.from # new.to /\ ~new.success
  <2>1. req.to \in Nodes /\ req.leader_id \in Nodes /\ req.to # req.leader_id
    BY DEF IInv, LogTyped, Request
  <2>2. term[req.to] \in 0..LogTerms /\ 0 \in 0..LogSequences
    BY <2>1, TypedFacts, Constants DEF IInv
  <2> QED
    BY <1>1, <2>1, <2>2 DEF Answer, Response
<1>4. LogTyped'
  BY <1>2, <1>3 DEF IInv, LogTyped, LogTypeOK, leaderVars, IsMaster
<1> QED
  BY <1>2, <1>3, <1>4, OtherStep DEF IInv, BeliefsTrue, leaderVars

\* What is below an entry of a batch, and not below next, comes before it.
LEMMA BatchInOrder ==
    ASSUME NEW log \in Seq(Entry), NEW next \in Nat, NEW place \in Batches(log, next)
    PROVE  \E size \in Nat :
             /\ DOMAIN place = 1..size
             /\ \A k \in 1..size : place[k] \in DOMAIN log /\ log[place[k]].sequence >= next
             /\ \A k \in 1..size : \A i \in DOMAIN log :
                  i < place[k] /\ log[i].sequence >= next => \E j \in 1..(k - 1) : place[j] = i
<1> DEFINE from == {i \in DOMAIN log : log[i].sequence >= next}
           size == Lower(BatchSize, Cardinality(from))
<1>1. IsFiniteSet(from)
  <2>1. DOMAIN log = 1..Len(log) /\ Len(log) \in Nat
    OBVIOUS
  <2>2. IsFiniteSet(DOMAIN log)
    BY <2>1, FS_Interval
  <2> QED
    BY <2>2, FS_Subset
<1>2. size \in Nat
  BY <1>1, FS_CardinalityType, Constants DEF Lower
<1>3. /\ place \in [1..size -> from]
      /\ \A k \in 1..size : \A i \in from : i < place[k] <=> \E j \in 1..(k - 1) : place[j] = i
  BY DEF Batches
<1> HIDE DEF size
<1> QED
  BY <1>2, <1>3

LEMMA CreateStep ==
    ASSUME IInv, NEW n \in Nodes, NEW m \in Nodes, CreateReplicationRequest(n, m)
    PROVE  IInv'
<1>1. PICK log : log = pending_logs[n]
  OBVIOUS
<1>2. PICK next : next = slave_next_index[n][m]
  OBVIOUS
<1>3. PICK place, req :
        /\ place \in Batches(log, next)
        /\ [k \in DOMAIN place |-> log[place[k]]] # <<>>
        /\ req = [to |-> m, leader_id |-> n, term |-> term[n],
                  entries |-> [k \in DOMAIN place |-> log[place[k]]],
                  leader_commit |-> commit_index[n]]
        /\ requests' = requests \cup {req}
  <2>1. PICK place \in Batches(log, next) :
          LET entries == [k \in DOMAIN place |-> log[place[k]]]
          IN  /\ entries # <<>>
              /\ requests' = requests \cup
                   {[to |-> m, leader_id |-> n, term |-> term[n], entries |-> entries,
                     leader_commit |-> commit_index[n]]}
    BY <1>1, <1>2 DEF CreateReplicationRequest
  <2> QED
    BY <2>1, Zenon
<1>4. m # n /\ UNCHANGED <<role, term, pending_logs, leaderVars, commit_index, responses>>
  BY DEF CreateReplicationRequest
<1>5. /\ log \in Seq(Entry) /\ next \in Nat /\ next \in 1..(LogSequences + 1)
      /\ term[n] \in 0..LogTerms /\ commit_index[n] \in 0..LogSequences
      /\ ShareUpTo(n, m, next - 1)
  BY <1>1, <1>2, TypedFacts DEF IInv, BeliefsTrue
<1>6. PICK size \in Nat :
             /\ DOMAIN place = 1..size
             /\ \A k \in 1..size : place[k] \in DOMAIN log /\ log[place[k]].sequence >= next
             /\ \A k \in 1..size : \A i \in DOMAIN log :
                  i < place[k] /\ log[i].sequence >= next => \E j \in 1..(k - 1) : place[j] = i
  BY <1>3, <1>5, BatchInOrder, ZenonT(60)
<1>7. PICK entries : entries = [k \in 1..size |-> log[place[k]]]
  OBVIOUS
<1>8. /\ req.entries = entries /\ req.to = m /\ req.leader_id = n
      /\ entries # <<>> /\ entries \in Seq(Entry) /\ DOMAIN entries = 1..size
      /\ \A k \in 1..size : entries[k] = log[place[k]]
  <2>1. \A i \in DOMAIN log : log[i] \in Entry
    BY <1>5
  <2>2. \A k \in 1..size : log[place[k]] \in Entry
    BY <1>6, <2>1
  <2>3. entries \in Seq(Entry) /\ DOMAIN entries = 1..size
    BY <1>6, <1>7, <2>2
  <2> QED
    BY <1>3, <1>6, <1>7, <2>3
<1>9. req \in Request
  <2>1. req = [to |-> m, leader_id |-> n, term |-> term[n], entries |-> entries,
                  leader_commit |-> commit_index[n]]
    BY <1>3, <1>6, <1>7
  <2> QED
    BY <1>5, <1>8, <2>1 DEF Request
<1>10. LogTyped'
  BY <1>3, <1>4, <1>8, <1>9 DEF IInv, LogTyped, LogTypeOK, leaderVars, IsMaster
<1>11. RequestGapless(req)
  <2>1. ASSUME NEW k \in 1..size PROVE entries[k] \in Entries(n)
    BY <1>1, <1>6, <1>8 DEF Entries
  <2>2. ASSUME NEW k \in 1..size, NEW r \in 1..(entries[k].sequence - 1), r >= next
        PROVE  \E j \in 1..(k - 1) : entries[j].sequence = r
    <3>1. entries[k] = log[place[k]] /\ place[k] \in DOMAIN log
      BY <1>6, <1>8
    <3>2. PICK i \in 1..(place[k] - 1) : log[i].sequence = r
      BY <1>1, <2>2, <3>1 DEF IInv, Gapless
    <3>3. i \in DOMAIN log /\ i < place[k]
      BY <1>5, <3>1, <3>2
    <3>4. PICK j \in 1..(k - 1) : place[j] = i
      BY <1>6, <2>2, <3>2, <3>3
    <3>5. j \in 1..size
      BY <3>4
    <3> QED
      BY <1>8, <3>2, <3>4, <3>5
  <2>3. ASSUME NEW k \in 1..size, NEW r \in 1..(entries[k].sequence - 1), ~(r >= next)
        PROVE  \E e \in Entries(n) \cap Entries(m) : e.sequence = r
    <3>1. r \in 1..(next - 1)
      <4>1. r \in Int /\ 1 <= r /\ next \in Int
        BY <1>5
      <4> QED
        BY <2>3, <4>1
    <3> QED
      BY <1>5, <3>1 DEF ShareUpTo
  <2> QED
    BY <1>8, <2>1, <2>2, <2>3 DEF RequestGapless
<1> QED
  BY <1>3, <1>4, <1>10, <1>11, OtherStep DEF IInv, BeliefsTrue, leaderVars
------------------------------------------------------------------------------
(* The slave. *)

LEMMA Appended ==
    ASSUME NEW s \in Seq(Entry), NEW a \in Seq(Entry), a # <<>>, NEW c, c = s \o a
    PROVE  /\ c \in Seq(Entry) /\ Len(s) \in Nat /\ Len(a) \in Nat \ {0}
           /\ DOMAIN s = 1..Len(s) /\ DOMAIN a = 1..Len(a) /\ DOMAIN c = 1..(Len(s) + Len(a))
           /\ \A i \in 1..Len(s) : c[i] = s[i]
           /\ \A i \in 1..Len(a) : c[Len(s) + i] = a[i]
<1>1. Len(s) \in Nat /\ Len(a) \in Nat /\ Len(a) # 0
  OBVIOUS
<1>2. c \in Seq(Entry) /\ Len(c) = Len(s) + Len(a)
  OBVIOUS
<1>3. DOMAIN s = 1..Len(s) /\ DOMAIN a = 1..Len(a) /\ DOMAIN c = 1..Len(c)
  BY <1>2
<1>4. ASSUME NEW i \in 1..Len(s) PROVE c[i] = s[i]
  BY <1>1, <1>2
<1>5. ASSUME NEW i \in 1..Len(a) PROVE c[Len(s) + i] = a[i]
  <2>1. Len(s) + i \in 1..(Len(s) + Len(a)) /\ ~(Len(s) + i <= Len(s))
    BY <1>1
  <2> QED
    BY <1>1, <1>2, <2>1
<1> QED
  BY <1>1, <1>2, <1>3, <1>4, <1>5

LEMMA ApplyStep == ASSUME IInv, NEW req \in requests, ApplyLogs(req) PROVE IInv'
<1>1. PICK n \in Nodes, l \in Nodes, added \in Seq(Entry) :
        n = req.to /\ l = req.leader_id /\ added = req.entries
  BY DEF IInv, LogTyped, Request
<1>2. /\ n # l /\ added # <<>> /\ req.term \in 0..LogTerms /\ req.leader_commit \in 0..LogSequences
      /\ RequestGapless(req)
  BY <1>1 DEF IInv, LogTyped, Request
<1>3. PICK answer, last : last = added[Len(added)].sequence /\ answer = Answer(req, TRUE, last)
  OBVIOUS
<1>4. /\ term' = [term EXCEPT ![n] = req.term]
      /\ role' = [role EXCEPT ![n] = "Slave"]
      /\ pending_logs' = [pending_logs EXCEPT ![n] = @ \o added]
      /\ commit_index' = [commit_index EXCEPT ![n] = CommitOf(n, req)]
      /\ responses' = responses \cup {answer}
      /\ UNCHANGED <<leaderVars, requests>>
  BY <1>1, <1>3 DEF ApplyLogs
<1>5. LogTyped /\ pending_logs \in [Nodes -> Seq(Entry)] /\ pending_logs[n] \in Seq(Entry)
  BY DEF IInv, LogTyped, LogTypeOK
<1>6. PICK log, longer :
        log \in Seq(Entry) /\ log = pending_logs[n] /\ longer = log \o added
  BY <1>5
<1>7. /\ pending_logs'[n] = longer
      /\ \A m \in Nodes : m # n => pending_logs'[m] = pending_logs[m]
  BY <1>1, <1>4, <1>5, <1>6
<1>8. PICK len \in Nat, more \in Nat \ {0} :
        /\ longer \in Seq(Entry) /\ len = Len(log) /\ more = Len(added)
        /\ DOMAIN log = 1..len /\ DOMAIN added = 1..more /\ DOMAIN longer = 1..(len + more)
        /\ \A i \in 1..len : longer[i] = log[i]
        /\ \A i \in 1..more : longer[len + i] = added[i]
  <2>1. /\ longer \in Seq(Entry) /\ Len(log) \in Nat /\ Len(added) \in Nat \ {0}
        /\ DOMAIN log = 1..Len(log) /\ DOMAIN added = 1..Len(added)
        /\ DOMAIN longer = 1..(Len(log) + Len(added))
        /\ \A i \in 1..Len(log) : longer[i] = log[i]
        /\ \A i \in 1..Len(added) : longer[Len(log) + i] = added[i]
    <3>1. log \in Seq(Entry) /\ added \in Seq(Entry) /\ added # <<>> /\ longer = log \o added
      BY <1>1, <1>2, <1>6, Zenon
    <3> QED
      BY ONLY <3>1, Appended
  <2> QED
    BY <2>1, Zenon
<1>9. pending_logs' \in [Nodes -> Seq(Entry)]
  BY <1>4, <1>5, <1>6, <1>8
<1>10. /\ \A m \in Nodes : Entries(m) \subseteq Entries(m)'
       /\ \A i \in 1..more : added[i] \in Entries(n)'
  <2>1. ASSUME NEW m \in Nodes, m # n PROVE Entries(m)' = Entries(m)
    BY <1>7, <2>1 DEF Entries
  <2>2. Entries(n) = {log[i] : i \in 1..len} /\ Entries(n)' = {longer[i] : i \in 1..(len + more)}
    BY <1>6, <1>7, <1>8 DEF Entries
  <2>3. \A i \in 1..len : i \in 1..(len + more)
    OBVIOUS
  <2>4. \A i \in 1..more : len + i \in 1..(len + more)
    OBVIOUS
  <2>5. \A i \in 1..len : log[i] \in Entries(n)'
    BY <1>8, <2>2, <2>3
  <2>6. \A i \in 1..more : added[i] \in Entries(n)'
    BY <1>8, <2>2, <2>4
  <2> QED
    BY <2>1, <2>2, <2>5, <2>6
<1>11. /\ \A k \in 1..more : added[k] \in Entry /\ added[k] \in Entries(l)
       /\ \A k \in 1..more : \A r \in 1..(added[k].sequence - 1) :
             \/ \E j \in 1..(k - 1) : added[j].sequence = r
             \/ \E e \in Entries(l) \cap Entries(n) : e.sequence = r
  <2>1. \A k \in 1..more : added[k] \in Entry
    BY <1>1, <1>8
  <2>2. /\ \A k \in 1..more : added[k] \in Entries(l)
        /\ \A k \in 1..more : \A r \in 1..(added[k].sequence - 1) :
             \/ \E j \in 1..(k - 1) : added[j].sequence = r
             \/ \E e \in Entries(l) \cap Entries(n) : e.sequence = r
    <3>1. \A i \in DOMAIN added :
            /\ added[i] \in Entries(l)
            /\ \A r \in 1..(added[i].sequence - 1) :
                 \/ \E j \in 1..(i - 1) : added[j].sequence = r
                 \/ \E e \in Entries(l) \cap Entries(n) : e.sequence = r
      BY <1>1, <1>2, Zenon DEF RequestGapless
    <3> QED
      BY <1>8, <3>1
  <2> QED
    BY <2>1, <2>2
<1>12. last \in 1..LogSequences /\ ShareUpTo(n, l, last)' /\ ShareUpTo(l, n, last)'
  <2>1. last = added[more].sequence /\ more \in 1..more /\ added[more] \in Entry
    BY <1>3, <1>8, <1>11
  <2>2. last \in 1..LogSequences
    BY <2>1 DEF Entry
  <2>3. \A k \in 1..more : added[k] \in Entries(n)' \cap Entries(l)'
    BY <1>10, <1>11
  <2>4. Entries(l) \cap Entries(n) \subseteq Entries(n)' \cap Entries(l)'
    BY <1>10
  <2>5. ASSUME NEW r \in 1..last PROVE \E e \in Entries(n)' \cap Entries(l)' : e.sequence = r
    <3>1. CASE r = last
      BY <2>1, <2>3, <3>1
    <3>2. CASE r # last
      <4>1. r \in 1..(added[more].sequence - 1)
        BY <2>1, <2>2, <3>2
      <4>2. CASE \E j \in 1..(more - 1) : added[j].sequence = r
        <5>1. PICK j \in 1..(more - 1) : added[j].sequence = r
          BY <4>2
        <5>2. j \in 1..more
          BY <5>1
        <5> QED
          BY <2>3, <5>1, <5>2
      <4>3. CASE \E e \in Entries(l) \cap Entries(n) : e.sequence = r
        BY <2>4, <4>3
      <4> QED
        BY <1>11, <2>1, <4>1, <4>2, <4>3
    <3> QED
      BY <3>1, <3>2
  <2> QED
    BY <2>2, <2>5 DEF ShareUpTo
<1>13. CommitOf(n, req) \in 0..LogSequences /\ (CommitOf(n, req) = commit_index[n] \/ CommitOf(n, req) \in 0..last)
  <2>1. commit_index[n] \in 0..LogSequences
    BY <1>5, TypedFacts
  <2>2. CommitOf(n, req) = IF req.leader_commit > commit_index[n]
                           THEN Lower(req.leader_commit, last) ELSE commit_index[n]
    BY <1>1, <1>3 DEF CommitOf
  <2> QED
    BY <1>2, <1>12, <2>1, <2>2, Constants DEF Lower
<1>14. answer \in Response /\ answer.from = n /\ answer.to = l /\ answer.match_sequence = last
  <2>1. term[n] \in 0..LogTerms /\ last \in 0..LogSequences
    BY <1>5, <1>12, TypedFacts
  <2> QED
    BY <1>1, <1>3, <2>1 DEF Answer, Response
<1>15. LogTyped'
  <2>1. LogTypeOK'
    BY <1>2, <1>4, <1>5, <1>9, <1>13 DEF LogTyped, LogTypeOK, leaderVars
  <2>2. \A k \in Nodes : IsMaster(k)' => term'[k] # 0
    BY <1>4, <1>5 DEF LogTyped, LogTypeOK, IsMaster
  <2> QED
    BY <1>2, <1>4, <1>5, <1>14, <2>1, <2>2 DEF LogTyped, leaderVars
<1>16. Gapless'
  <2>1. ASSUME NEW m \in Nodes, m # n, NEW i \in DOMAIN pending_logs'[m],
               NEW r \in 1..(pending_logs'[m][i].sequence - 1)
        PROVE  \E j \in 1..(i - 1) : pending_logs'[m][j].sequence = r
    <3>1. pending_logs'[m] = pending_logs[m] /\ Gapless
      BY <1>7, <2>1 DEF IInv
    <3> QED
      BY <3>1 DEF Gapless
  <2>2. ASSUME NEW i \in 1..len, NEW r \in 1..(log[i].sequence - 1)
        PROVE  \E j \in 1..(i - 1) : longer[j].sequence = r
    <3>1. PICK j \in 1..(i - 1) : log[j].sequence = r
      BY <1>6, <1>8 DEF IInv, Gapless
    <3>2. j \in 1..len
      BY <3>1
    <3> QED
      BY <1>8, <3>1, <3>2
  <2>3. ASSUME NEW k \in 1..more, NEW r \in 1..(added[k].sequence - 1)
        PROVE  \E j \in 1..(len + k - 1) : longer[j].sequence = r
    <3>1. CASE \E j \in 1..(k - 1) : added[j].sequence = r
      <4>1. PICK j \in 1..(k - 1) : added[j].sequence = r
        BY <3>1
      <4>2. j \in 1..more /\ len + j \in 1..(len + k - 1)
        BY <4>1
      <4> QED
        BY <1>8, <4>1, <4>2
    <3>2. CASE \E e \in Entries(l) \cap Entries(n) : e.sequence = r
      <4>1. PICK j \in 1..len : log[j].sequence = r
        BY <1>6, <1>8, <3>2 DEF Entries
      <4>2. j \in 1..(len + k - 1)
        BY <4>1
      <4> QED
        BY <1>8, <4>1, <4>2
    <3> QED
      BY <1>11, <3>1, <3>2
  <2>4. ASSUME NEW i \in 1..(len + more), NEW r \in 1..(longer[i].sequence - 1)
        PROVE  \E j \in 1..(i - 1) : longer[j].sequence = r
    <3>1. CASE i \in 1..len
      BY <1>8, <2>2, <3>1
    <3>2. CASE i \notin 1..len
      <4>1. PICK k \in 1..more : i = len + k
        <5>1. i - len \in 1..more /\ i = len + (i - len)
          BY <3>2
        <5> QED
          BY <5>1
      <4>2. r \in 1..(added[k].sequence - 1)
        BY <1>8, <4>1
      <4> QED
        BY <2>3, <4>1, <4>2
    <3> QED
      BY <3>1, <3>2
  <2> QED
    <3>1. \A i \in DOMAIN pending_logs'[n] : \A r \in 1..(pending_logs'[n][i].sequence - 1) :
            \E j \in 1..(i - 1) : pending_logs'[n][j].sequence = r
      <4>1. \A i \in DOMAIN longer : \A r \in 1..(longer[i].sequence - 1) :
              \E j \in 1..(i - 1) : longer[j].sequence = r
        BY ONLY <1>8, <2>4
      <4> QED
        BY <1>7, <4>1, ZenonT(60)
    <3> QED
      BY <2>1, <3>1 DEF Gapless
<1>17. CommittedTwice'
  <2>1. ASSUME NEW m \in Nodes, NEW s \in 1..commit_index'[m]
        PROVE  \E k \in Nodes \ {m} : \E e \in Entries(m)' \cap Entries(k)' : e.sequence = s
    <3>1. CASE s \in 1..commit_index[m]
      BY <1>4, <1>10, <3>1, LogsGrow DEF leaderVars
    <3>2. CASE s \notin 1..commit_index[m]
      <4>1. m = n /\ commit_index'[m] = CommitOf(n, req)
        BY <1>4, <1>5, <2>1, <3>2 DEF LogTyped, LogTypeOK
      <4>2. s \in 1..last
        BY <1>12, <1>13, <2>1, <3>2, <4>1
      <4> QED
        BY <1>2, <1>12, <4>1, <4>2 DEF ShareUpTo
    <3> QED
      BY <3>1, <3>2
  <2> QED
    BY <2>1 DEF CommittedTwice
<1>18. BeliefsTrue'
  <2>1. /\ \A k, m \in Nodes : ShareUpTo(k, m, slave_match_index[k][m])'
        /\ \A k, m \in Nodes : ShareUpTo(k, m, slave_next_index[k][m] - 1)'
        /\ \A resp \in responses :
                resp.success => ShareUpTo(resp.to, resp.from, resp.match_sequence)'
    BY <1>4, <1>10, LogsGrow DEF leaderVars
  <2>2. ShareUpTo(answer.to, answer.from, answer.match_sequence)'
    BY <1>12, <1>14 DEF ShareUpTo
  <2> QED
    BY <1>4, <2>1, <2>2 DEF BeliefsTrue
<1>19. \A r \in requests' : RequestGapless(r)'
  BY <1>4, <1>10, LogsGrow DEF leaderVars
<1> QED
  BY <1>15, <1>16, <1>17, <1>18, <1>19 DEF IInv
------------------------------------------------------------------------------
(* Answers and the commit index. *)

\* The value in the middle is the match index of a slave.
LEMMA MajorityIndexOf ==
    ASSUME NEW match \in [Nodes -> Absent..LogSequences], NEW m \in Nodes, match[m] # Absent
    PROVE  \E k \in Nodes : MajorityIndex(match) = match[k] /\ match[k] # Absent
<1> DEFINE values == {match[k] : k \in DOMAIN match} \ {Absent}
           Upto(i) == {k \in DOMAIN match : match[k] \in 0..i}
           Below(i) == {k \in DOMAIN match : match[k] \in 0..(i - 1)}
           present == {k \in DOMAIN match : match[k] # Absent}
           half == Cardinality(present) \div 2
<1>1. values \subseteq 0..LogSequences /\ values # {} /\ DOMAIN match = Nodes
  BY Constants DEF Absent
<1>2. /\ IsFiniteSet(present) /\ present # {}
      /\ \A i : IsFiniteSet(Upto(i)) /\ IsFiniteSet(Below(i))
      /\ \A i : Cardinality(Upto(i)) \in Nat /\ Cardinality(Below(i)) \in Nat
  BY <1>1, Constants, FS_Subset, FS_CardinalityType
<1>3. Cardinality(present) \in Nat \ {0} /\ half \in Nat /\ half < Cardinality(present)
  BY <1>2, FS_CardinalityType, FS_EmptySet, SMTT(60)
<1> DEFINE enough == {i \in values : half < Cardinality(Upto(i))}
<1>4. enough \in SUBSET Nat /\ enough # {}
  <2>1. PICK top \in values : \A i \in values : i <= top
    BY <1>1, Greatest, Constants
  <2>2. \A k \in Nodes : match[k] # Absent => match[k] \in values
    BY <1>1
  <2>3. Upto(top) = present
    BY <1>1, <2>1, <2>2 DEF Absent
  <2>4. top \in enough
    BY <1>3, <2>1, <2>3
  <2>5. values \subseteq Nat
    BY <1>1
  <2> QED
    BY <2>4, <2>5
<1>5. PICK least \in enough : \A i \in enough : least <= i
  BY <1>4, Least
<1>6. Cardinality(Below(least)) <= half
  <2>1. CASE Below(least) = {}
    <3>1. Cardinality(Below(least)) = 0
      BY <2>1, FS_EmptySet
    <3>2. half \in Nat
      BY <1>3
    <3> HIDE DEF Below, half
    <3> QED
      BY <3>1, <3>2
  <2>2. CASE Below(least) # {}
    <3> DEFINE lower == {match[k] : k \in Below(least)}
    <3>1. lower \subseteq values /\ lower \in SUBSET (0..LogSequences) /\ lower # {}
      BY <1>1, <2>2 DEF Absent
    <3>2. PICK next \in lower : \A i \in lower : i <= next
      BY <3>1, Greatest, Constants
    <3>3. next \in values /\ next < least /\ next \in 0..LogSequences
      BY <1>1, <1>4, <1>5, <3>1, <3>2
    <3>4. Below(least) \subseteq Upto(next)
      BY <3>2, <3>3
    <3>5. ~(half < Cardinality(Upto(next)))
      BY <1>1, <1>4, <1>5, <3>3, SMTT(60)
    <3>6. Cardinality(Below(least)) <= Cardinality(Upto(next))
      BY <1>2, <3>4, FS_Subset
    <3>7. /\ Cardinality(Upto(next)) \in Nat /\ Cardinality(Below(least)) \in Nat
          /\ half \in Nat
      BY <1>2, <1>3
    <3> QED
      BY <3>5, <3>6, <3>7
  <2> QED
    BY <2>1, <2>2
<1>7. MajorityIndex(match) \in values
  <2>1. \E i \in values : Cardinality(Below(i)) <= half /\ half < Cardinality(Upto(i))
    BY <1>5, <1>6
  <2>2. MajorityIndex(match) = CHOOSE i \in values :
          Cardinality(Below(i)) <= half /\ half < Cardinality(Upto(i))
    BY DEF MajorityIndex
  <2> HIDE DEF values, Below, Upto, half
  <2> QED
    BY <2>1, <2>2
<1> QED
  BY <1>1, <1>7

LEMMA ConfirmStep == ASSUME IInv, NEW resp \in responses, Confirm(resp) PROVE IInv'
<1>1. PICK n \in Nodes, m \in Nodes, k \in 0..LogSequences :
        n = resp.to /\ m = resp.from /\ k = resp.match_sequence
  BY DEF IInv, LogTyped, Response
<1>2. LogTyped /\ BeliefsTrue /\ m # n /\ resp.success /\ ShareUpTo(n, m, k)
  BY <1>1 DEF IInv, LogTyped, BeliefsTrue, Confirm
<1>3. PICK match : match = [slave_match_index[n] EXCEPT ![m] = k]
  OBVIOUS
<1>4. PICK majority : majority = MajorityIndex(match)
  OBVIOUS
<1>5. /\ slave_match_index' = [slave_match_index EXCEPT ![n] = match]
      /\ slave_next_index' = [slave_next_index EXCEPT ![n][m] = k + 1]
      /\ commit_index' = [commit_index EXCEPT ![n] = IF majority > @ THEN majority ELSE @]
      /\ responses' = responses \ {resp}
      /\ UNCHANGED <<role, term, pending_logs, requests>>
  BY <1>1, <1>3, <1>4 DEF Confirm, Matched
<1>6. /\ match \in [Nodes -> Absent..LogSequences]
      /\ match[m] = k /\ \A l \in Nodes : l # m => match[l] = slave_match_index[n][l]
  <2>1. slave_match_index[n] \in [Nodes -> Absent..LogSequences]
    BY <1>2 DEF LogTyped, LogTypeOK
  <2>2. k \in Absent..LogSequences
    BY Constants DEF Absent
  <2> QED
    BY <1>3, <2>1, <2>2
<1>7. PICK slave \in Nodes : majority = match[slave] /\ match[slave] # Absent
  <2>1. match[m] # Absent
    BY <1>6, Constants DEF Absent
  <2> QED
    BY <1>4, <1>6, <2>1, MajorityIndexOf
<1>8. \A l \in Nodes : ShareUpTo(n, l, match[l])
  BY <1>2, <1>6 DEF BeliefsTrue
<1>9. slave # n /\ majority \in 0..LogSequences /\ ShareUpTo(n, slave, majority)
  <2>1. slave_match_index[n][n] = Absent
    BY <1>2 DEF LogTyped
  <2>2. slave # n
    BY <1>2, <1>6, <1>7, <2>1
  <2>3. majority \in Absent..LogSequences /\ majority # Absent
    BY <1>6, <1>7
  <2> QED
    BY <1>7, <1>8, <2>2, <2>3, Constants DEF Absent
<1>10. /\ \A i, l \in Nodes : slave_match_index'[i][l]
              = IF i = n THEN match[l] ELSE slave_match_index[i][l]
       /\ \A i, l \in Nodes : slave_next_index'[i][l]
              = IF i = n /\ l = m THEN k + 1 ELSE slave_next_index[i][l]
       /\ \A i \in Nodes : commit_index'[i] = IF i = n /\ majority > commit_index[n]
                                              THEN majority ELSE commit_index[i]
  BY <1>2, <1>5 DEF LogTyped, LogTypeOK
<1>11. LogTyped'
  <2>1. k + 1 \in 1..(LogSequences + 1)
    BY Constants
  <2>2. /\ slave_match_index' \in [Nodes -> [Nodes -> Absent..LogSequences]]
        /\ slave_next_index' \in [Nodes -> [Nodes -> 1..(LogSequences + 1)]]
        /\ commit_index' \in [Nodes -> 0..LogSequences]
    BY <1>2, <1>5, <1>6, <1>9, <2>1 DEF LogTyped, LogTypeOK
  <2>3. \A l \in Nodes : slave_match_index'[l][l] = Absent
    BY <1>2, <1>6, <1>10 DEF LogTyped
  <2> QED
    BY <1>2, <1>5, <2>2, <2>3 DEF LogTyped, LogTypeOK, IsMaster
<1>12. BeliefsTrue'
  <2>1. k + 1 - 1 = k
    OBVIOUS
  <2>2. ASSUME NEW i \in Nodes, NEW l \in Nodes
        PROVE  /\ ShareUpTo(i, l, slave_match_index'[i][l])
               /\ ShareUpTo(i, l, slave_next_index'[i][l] - 1)
    BY <1>2, <1>8, <1>10, <2>1 DEF BeliefsTrue
  <2> QED
    BY <1>2, <1>5, <2>2 DEF BeliefsTrue, ShareUpTo, Entries
<1>13. CommittedTwice'
  <2>1. ASSUME NEW i \in Nodes, NEW s \in 1..commit_index'[i]
        PROVE  \E l \in Nodes \ {i} : \E e \in Entries(i) \cap Entries(l) : e.sequence = s
    <3>1. CASE i = n /\ majority > commit_index[n]
      <4>1. s \in 1..majority
        BY <1>10, <2>1, <3>1
      <4> QED
        BY <1>9, <3>1, <4>1 DEF ShareUpTo
    <3>2. CASE ~(i = n /\ majority > commit_index[n])
      <4>1. s \in 1..commit_index[i]
        BY <1>10, <2>1, <3>2
      <4> QED
        BY <4>1 DEF IInv, CommittedTwice
    <3> QED
      BY <3>1, <3>2
  <2> QED
    BY <1>5, <2>1 DEF CommittedTwice, Entries
<1>14. Gapless' /\ \A req \in requests' : RequestGapless(req)'
  BY <1>5, LogsKept DEF IInv
<1> QED
  BY <1>11, <1>12, <1>13, <1>14 DEF IInv
------------------------------------------------------------------------------
LEMMA NextIInv == IInv /\ [LogNext]_logVars => IInv'
<1> SUFFICES ASSUME IInv, [LogNext]_logVars PROVE IInv'
  OBVIOUS
<1>1. CASE UNCHANGED logVars
  BY <1>1, DropStep DEF logVars, leaderVars
<1>2. ASSUME NEW n \in Nodes, Elect(n) PROVE IInv'
  BY <1>2, ElectStep
<1>3. ASSUME NEW n \in Nodes, AppendLog(n) PROVE IInv'
  BY <1>3, AppendLogStep
<1>4. ASSUME NEW n \in Nodes, NEW m \in Nodes, CreateReplicationRequest(n, m) PROVE IInv'
  BY <1>4, CreateStep
<1>5. ASSUME NEW n \in Nodes, NEW m \in Nodes, UnregisterSlave(n, m) PROVE IInv'
  BY <1>5, UnregisterStep
<1>6. ASSUME NEW req \in requests, RefuseLogs(req) PROVE IInv'
  BY <1>6, RefuseStep
<1>7. ASSUME NEW req \in requests, ApplyLogs(req) PROVE IInv'
  BY <1>7, ApplyStep
<1>8. ASSUME NEW req \in requests, DropRequest(req) PROVE IInv'
  BY <1>8, DropStep DEF DropRequest, leaderVars
<1>9. ASSUME NEW resp \in responses, StepDown(resp) PROVE IInv'
  BY <1>9, StepDownStep
<1>10. ASSUME NEW resp \in responses, Confirm(resp) PROVE IInv'
  BY <1>10, ConfirmStep
<1>11. ASSUME NEW resp \in responses, Retry(resp) PROVE IInv'
  BY <1>11, RetryStep
<1>12. ASSUME NEW resp \in responses, DropResponse(resp) PROVE IInv'
  BY <1>12, DropStep DEF DropResponse, leaderVars
<1> QED
  BY <1>1, <1>2, <1>3, <1>4, <1>5, <1>6, <1>7, <1>8, <1>9, <1>10, <1>11, <1>12 DEF LogNext

\* The invariant of the logs, of what masters believe of their slaves and of the
\* requests and answers under way.
THEOREM Invariance == LogSpec => []IInv
<1>1. LogInit => IInv
  BY InitIInv
<1>2. IInv /\ [LogNext]_logVars => IInv'
  BY NextIInv
<1> QED
  BY <1>1, <1>2, PTL DEF LogSpec

\* The replicator's state keeps its types on every node; in particular next_index
\* never falls below 1.
THEOREM TypeCorrect == LogSpec => []LogTypeOK
<1>1. IInv => LogTypeOK
  BY DEF IInv, LogTyped
<1> QED
  BY <1>1, Invariance, PTL

LEMMA GaplessSequences == ASSUME IInv PROVE NoGaps
<1> SUFFICES ASSUME NEW n \in Nodes, NEW s \in Sequences(pending_logs[n]), NEW r \in 1..s
             PROVE  r \in Sequences(pending_logs[n])
  BY DEF NoGaps
<1>1. PICK i \in DOMAIN pending_logs[n] : pending_logs[n][i].sequence = s
  BY DEF Sequences
<1>2. pending_logs[n] \in Seq(Entry)
  BY DEF IInv, LogTyped, LogTypeOK
<1>3. s \in 1..LogSequences
  <2>1. pending_logs[n][i] \in Entry
    BY <1>1, <1>2
  <2> QED
    BY <1>1, <2>1 DEF Entry
<1>4. CASE r = s
  BY <1>4
<1>5. CASE r # s
  <2>1. r \in 1..(pending_logs[n][i].sequence - 1)
    BY <1>1, <1>3, <1>5
  <2>2. PICK j \in 1..(i - 1) : pending_logs[n][j].sequence = r
    BY <1>1, <2>1 DEF IInv, Gapless
  <2>3. j \in DOMAIN pending_logs[n]
    <3>1. DOMAIN pending_logs[n] = 1..Len(pending_logs[n]) /\ Len(pending_logs[n]) \in Nat
      BY <1>2
    <3>2. i \in 1..Len(pending_logs[n]) /\ j \in 1..(i - 1)
      BY <1>1, <2>2, <3>1
    <3> QED
      BY <3>1, <3>2
  <2> QED
    BY <2>2, <2>3 DEF Sequences
<1> QED
  BY <1>4, <1>5

\* apply_logs appends what it is sent without a look at prev_log_sequence, and a
\* request may be repeated or late: yet a node that holds a sequence holds all
\* below it.
THEOREM LogsHaveNoGaps == LogSpec => []NoGaps
<1>1. IInv => NoGaps
  BY GaplessSequences
<1> QED
  BY <1>1, Invariance, PTL

\* update_commit_index takes the value at len / 2 of the slaves' match indices, and
\* apply_logs what the request covers of the master's commit index: in a group of
\* up to three nodes a majority holds every sequence up to a node's commit index,
\* one entry of one term, and there is nothing missing below it.
THEOREM CommittedIsReplicated ==
    ASSUME Cardinality(Nodes) <= 3
    PROVE  LogSpec => []CommittedPrefix
<1>1. IInv => CommittedPrefix
  <2> SUFFICES ASSUME IInv PROVE CommittedPrefix
    OBVIOUS
  <2>1. ASSUME NEW n \in Nodes, NEW s \in 1..commit_index[n]
        PROVE  \E t \in 1..LogTerms :
                 LET holders == {m \in Nodes :
                              \E i \in DOMAIN pending_logs[m] :
                                 pending_logs[m][i] = [sequence |-> s, term |-> t]}
                 IN  n \in holders /\ IsMajority(holders)
    <3>0. PICK m \in Nodes \ {n} : \E e \in Entries(n) \cap Entries(m) : e.sequence = s
      BY DEF IInv, CommittedTwice
    <3>1. PICK e \in Entries(n) \cap Entries(m) : e.sequence = s
      BY <3>0
    <3>2. e \in Entry /\ e = [sequence |-> s, term |-> e.term] /\ e.term \in 1..LogTerms
      <4>1. e \in Entry
        BY <3>1, TypedFacts DEF IInv
      <4> QED
        BY <3>1, <4>1 DEF Entry
    <3> DEFINE holders == {k \in Nodes : \E i \in DOMAIN pending_logs[k] :
                                pending_logs[k][i] = [sequence |-> s, term |-> e.term]}
    <3>3. n \in holders /\ m \in holders /\ m # n
      BY <3>0, <3>1, <3>2 DEF Entries
    <3>4. IsMajority(holders)
      <4>1. {n, m} \subseteq holders /\ holders \subseteq Nodes
        BY <3>3
      <4> HIDE DEF holders
      <4>2. Cardinality({n, m}) = 2
        <5>1. IsFiniteSet({n}) /\ Cardinality({n}) = 1
          BY FS_Singleton
        <5>2. Cardinality({n} \cup {m}) = 2
          BY <3>3, <5>1, FS_AddElement, SMTT(60)
        <5>3. {n} \cup {m} = {n, m}
          OBVIOUS
        <5> QED
          BY <5>2, <5>3
      <4>3. /\ IsFiniteSet(holders) /\ Cardinality(holders) \in Nat
            /\ Cardinality({n, m}) <= Cardinality(holders) /\ Cardinality(Nodes) \in Nat
        BY <4>1, Constants, FS_Subset, FS_CardinalityType
      <4> QED
        BY <4>2, <4>3 DEF IsMajority
    <3> QED
      BY <3>2, <3>3, <3>4
  <2> QED
    BY <2>1, GaplessSequences DEF CommittedPrefix, CommittedOnMajority
<1> QED
  BY <1>1, Invariance, PTL
==============================================================================
