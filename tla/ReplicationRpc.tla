--------------------------- MODULE ReplicationRpc ---------------------------
(***************************************************************************)
(* The replication service of one node over gRPC (replication/grpc.rs):    *)
(* the handlers of appends, heartbeats, votes, snapshots and streamed      *)
(* appends, run by concurrent tasks, and the clients' retries.  Term, vote *)
(* and log are those of the service's own context; every lock is taken by  *)
(* itself, so that a handler is cut where it gives one back.               *)
(*                                                                         *)
(* The leaders and their logs are given: nothing in the program builds     *)
(* their requests.  A record is known by its place and its term.           *)
(***************************************************************************)
EXTENDS Integers, FiniteSets, SequencesExt

CONSTANTS
    Calls,           \* handlers that run at a time
    LeaderLog,       \* LeaderLog[t]: the terms of the entries the leader of t has
    LeaderCommit,    \* LeaderCommit[t]: how many of them are committed
    CandidateLast,   \* CandidateLast[c]: last entry of a candidate
    NoVote,
    RpcLimit,        \* bound on requests
    ChunkFaults      \* bound on chunks that cannot be written

LeaderTerms == DOMAIN LeaderLog
Chunks == 2          \* a snapshot comes in two chunks

ASSUME RpcAssumption ==
    /\ IsFiniteSet(Calls) /\ {RpcLimit, ChunkFaults} \subseteq Nat
    /\ NoVote \notin DOMAIN CandidateLast
    /\ LeaderTerms \subseteq Nat \ {0}
    /\ \A t \in LeaderTerms :
         LeaderLog[t] \in Seq(LeaderTerms) /\ LeaderCommit[t] \in 0..Len(LeaderLog[t])

VARIABLES
    rpc_term,        \* current_term
    rpc_vote,        \* voted_for
    rpc_commit,      \* commit_index
    log_store,       \* a set of [seq, term]: an entry stored twice is read as one
    snapshot_file,   \* the chunks <<term, index>> in snapshot.dat
    rpc,             \* rpc[c]: the request of a handler and where it is
    rpc_requests,
    chunk_faults,
    votes_granted,         \* votes that were answered with yes: <<term, candidate>>
    acked,           \* appends that were answered with success: <<term, match>>
    mishaps          \* what the properties below make an exception for

rpcVars == <<rpc_term, rpc_vote, rpc_commit, log_store, snapshot_file, rpc, rpc_requests,
             chunk_faults, votes_granted, acked, mishaps>>

NoCall == [pc |-> "idle", term |-> 0, prev |-> 0, entries |-> <<>>, commit |-> 0,
           match |-> 0, stream |-> FALSE]
RpcInit ==
    /\ rpc_term = 0 /\ rpc_vote = NoVote /\ rpc_commit = 0 /\ log_store = {}
    /\ snapshot_file = <<>> /\ rpc = [c \in Calls |-> NoCall]
    /\ rpc_requests = 0 /\ chunk_faults = 0 /\ votes_granted = {} /\ acked = {} /\ mishaps = {}
------------------------------------------------------------------------------
(* What the handlers share. *)

EntryOf(t, s) == [seq |-> s, term |-> LeaderLog[t][s]]
\* get_last_log_info.
LastEntry(log) ==
    IF log = {} THEN [seq |-> 0, term |-> 0]
    ELSE CHOOSE e \in log : \A x \in log : x.seq <= e.seq
\* check_log_consistency.
Consistent(call) == call.prev = 0 \/ EntryOf(call.term, call.prev) \in log_store
\* append_entries: every entry takes out those behind it, or in its place, that
\* are of other terms.
Appended(log, entries) ==
    FoldLeft(LAMBDA kept, e : {x \in kept : x.seq < e.seq \/ x.term = e.term} \cup {e},
             log, entries)

\* Another handler is between reading the term and having written it, with all
\* that belongs to it.
Raising == {"raise", "forget", "raise_only"}
Meets(c) == mishaps \cup {m \in {"mixed"} : \E d \in Calls \ {c} : rpc[d].pc \in Raising}

\* A request reaches a handler; a retry of the client is one more request.
Arrives(c) == rpc[c] = NoCall /\ rpc_requests < RpcLimit /\ rpc_requests' = rpc_requests + 1
GoOn(c, pc) == rpc' = [rpc EXCEPT ![c].pc = pc]
node == <<rpc_term, rpc_vote, rpc_commit, log_store>>
disk == <<snapshot_file, chunk_faults>>
answers == <<votes_granted, acked>>

\* Some entries of the leader of t, behind the one at prev.
AppendOf(t, prev, count) ==
    [NoCall EXCEPT !.pc = "check", !.term = t, !.prev = prev, !.commit = LeaderCommit[t],
                   !.entries = [n \in 1..count |-> EntryOf(t, prev + n)]]
------------------------------------------------------------------------------
(* Appends and votes hold the lock of the term.  A request of an older term  *)
(* is refused.                                                               *)

\* Mutant of VoteAtTerm: a request of the present term frees the vote, too.
FreeAtTerm(t) == IF t >= rpc_term THEN NoVote ELSE rpc_vote
\* A newer term frees the vote.
VoteAtTerm(t) == IF t > rpc_term THEN NoVote ELSE rpc_vote

AppendEntries(c) ==
    /\ Arrives(c)
    /\ \E t \in {t \in LeaderTerms : t >= rpc_term} :
         /\ \E prev \in 0..Len(LeaderLog[t]) :
            \E count \in 0..Len(LeaderLog[t]) - prev :
              rpc' = [rpc EXCEPT ![c] = AppendOf(t, prev, count)]
         /\ rpc_term' = t
         /\ rpc_vote' = VoteAtTerm(t)
    /\ mishaps' = Meets(c)
    /\ UNCHANGED <<rpc_commit, log_store, disk, answers>>

RequestVote(c) ==
    /\ Arrives(c)
    /\ \E t \in {t \in LeaderTerms : t >= rpc_term}, candidate \in DOMAIN CandidateLast :
         LET voted == VoteAtTerm(t)
             last  == LastEntry(log_store)
             asks  == CandidateLast[candidate]
             newer == asks.term > last.term \/ (asks.term = last.term /\ asks.seq >= last.seq)
             grant == IF voted = NoVote THEN newer ELSE voted = candidate
         IN  /\ rpc_term' = t
             /\ rpc_vote' = IF grant THEN candidate ELSE voted
             /\ votes_granted' = votes_granted \cup {v \in {<<t, candidate>>} : grant}
    /\ mishaps' = Meets(c)
    /\ UNCHANGED <<rpc_commit, log_store, disk, rpc, acked>>

\* The lock of the term is given back before the log is looked at.
CheckConsistency(c) ==
    /\ rpc[c].pc = "check"
    /\ rpc' = [rpc EXCEPT ![c] = IF Consistent(@) THEN [@ EXCEPT !.pc = "append"] ELSE NoCall]
    /\ UNCHANGED <<node, disk, rpc_requests, answers, mishaps>>

\* The answers to appends, given or about to be given.
Answered == acked \cup {<<rpc[d].term, rpc[d].match>> : d \in Calls}

\* An append without entries answers with the last entry there is, whoever it is
\* of: that is no promise about the leader's.
AppendToLog(c) ==
    LET call == rpc[c]
        last == Last(call.entries).seq
    IN  /\ call.pc = "append"
        /\ IF call.entries = <<>>
           THEN /\ UNCHANGED <<log_store, mishaps>>
                /\ rpc' = [rpc EXCEPT ![c].pc = "last"]
           ELSE /\ log_store' = Appended(log_store, call.entries)
                /\ rpc' = [rpc EXCEPT ![c].pc = "last", ![c].match = last]
                /\ mishaps' = mishaps
                     \cup {m \in {"overtaken"} : call.term < rpc_term}
                     \cup {m \in {"late"} : \E a \in Answered : a[1] = call.term /\ last < a[2]}
        /\ UNCHANGED <<rpc_term, rpc_vote, rpc_commit, disk, rpc_requests, answers>>

\* update_commit_index reads the last entry before it takes the lock of the index.
ReadLast(c) ==
    /\ rpc[c].pc = "last"
    /\ rpc' = [rpc EXCEPT ![c].pc = "commit",
                          ![c].commit = IF @ < LastEntry(log_store).seq THEN @
                                        ELSE LastEntry(log_store).seq]
    /\ UNCHANGED <<node, disk, rpc_requests, answers, mishaps>>

\* A stream goes on with the next entry.
UpdateCommit(c) ==
    LET call == rpc[c]
        next == call.prev + 1
    IN  /\ call.pc = "commit"
        /\ rpc_commit' = IF call.commit > rpc_commit THEN call.commit ELSE rpc_commit
        /\ acked' = IF call.match = 0 THEN acked ELSE acked \cup {<<call.term, call.match>>}
        /\ rpc' = [rpc EXCEPT ![c] =
              IF call.stream /\ next < Len(LeaderLog[call.term])
              THEN [AppendOf(call.term, next, 1)
                      EXCEPT !.pc = "stream", !.stream = TRUE]
              ELSE NoCall]
        /\ UNCHANGED <<rpc_term, rpc_vote, log_store, disk, rpc_requests, votes_granted, mishaps>>
------------------------------------------------------------------------------
(* Heartbeats, streams and snapshots read the term, and write it later.      *)

Heartbeat(c) ==
    /\ Arrives(c)
    /\ \E t \in LeaderTerms :
         rpc' = [rpc EXCEPT ![c] = [AppendOf(t, 0, 0)
                   EXCEPT !.pc = IF t > rpc_term THEN "raise" ELSE "last"]]
    /\ mishaps' = Meets(c)
    /\ UNCHANGED <<node, disk, answers>>

RaiseToTerm(c) ==
    /\ rpc[c].pc = "raise"
    /\ rpc_term' = rpc[c].term /\ GoOn(c, "forget")
    /\ UNCHANGED <<rpc_vote, rpc_commit, log_store, disk, rpc_requests, answers, mishaps>>

ForgetVote(c) ==
    /\ rpc[c].pc = "forget"
    /\ rpc_vote' = NoVote /\ GoOn(c, "last")
    /\ UNCHANGED <<rpc_term, rpc_commit, log_store, disk, rpc_requests, answers, mishaps>>

\* Streams and snapshots keep the vote of the older term.
RaiseOnly(c) ==
    /\ rpc[c].pc = "raise_only"
    /\ rpc_term' = rpc[c].term /\ GoOn(c, IF rpc[c].stream THEN "append" ELSE "write")
    /\ UNCHANGED <<rpc_vote, rpc_commit, log_store, disk, rpc_requests, answers, mishaps>>

\* A leader streams its log from the first entry on, one at a time, without
\* saying what comes before.
StreamAppendEntries(c) ==
    /\ Arrives(c)
    /\ \E t \in {t \in LeaderTerms : LeaderLog[t] # <<>>} :
         rpc' = [rpc EXCEPT ![c] = [AppendOf(t, 0, 1)
                                      EXCEPT !.pc = "stream", !.stream = TRUE]]
    /\ UNCHANGED <<node, disk, answers, mishaps>>

StreamItem(c) ==
    /\ rpc[c].pc = "stream" /\ rpc[c].term >= rpc_term
    /\ GoOn(c, IF rpc[c].term > rpc_term THEN "raise_only" ELSE "append")
    /\ mishaps' = Meets(c)
    /\ UNCHANGED <<node, disk, rpc_requests, answers>>

\* The leader goes, or sees that an item was refused.
StreamEnds(c) ==
    /\ rpc[c].pc = "stream" /\ rpc' = [rpc EXCEPT ![c] = NoCall]
    /\ UNCHANGED <<node, disk, rpc_requests, answers, mishaps>>
------------------------------------------------------------------------------
(* install_snapshot.  prev counts the chunks written; match is 0 throughout. *)

Snapshotting(d) == \/ rpc[d].pc \in {"chunk", "write", "install", "truncate"}
                   \/ rpc[d].pc = "raise_only" /\ ~rpc[d].stream

\* The leader of t sends what is committed in its log.
InstallSnapshot(c) ==
    /\ Arrives(c)
    /\ \E t \in LeaderTerms : rpc' = [rpc EXCEPT ![c] = [NoCall EXCEPT
                                  !.pc = "chunk", !.term = t, !.commit = LeaderCommit[t]]]
    /\ mishaps' = mishaps \cup {m \in {"snapshot"} : \E d \in Calls : Snapshotting(d)}
    /\ UNCHANGED <<node, disk, answers>>

\* The term of the leader is not compared but to raise one's own.
ReceiveChunk(c) ==
    /\ rpc[c].pc = "chunk"
    /\ GoOn(c, IF rpc[c].term > rpc_term THEN "raise_only" ELSE "write")
    /\ mishaps' = Meets(c) \cup {m \in {"overtaken"} : rpc[c].term < rpc_term}
    /\ UNCHANGED <<node, disk, rpc_requests, answers>>

ChunkDone(c) == rpc' = [rpc EXCEPT ![c].prev = @ + 1,
                          ![c].pc = IF rpc[c].prev + 1 = Chunks THEN "install" ELSE "chunk"]

\* The first chunk empties the file.
WriteChunk(c) ==
    LET chunk == <<rpc[c].term, rpc[c].prev>> IN
    /\ rpc[c].pc = "write"
    /\ snapshot_file' = IF rpc[c].prev = 0 THEN <<chunk>> ELSE Append(snapshot_file, chunk)
    /\ ChunkDone(c)
    /\ UNCHANGED <<node, chunk_faults, rpc_requests, answers, mishaps>>

\* The other chunks are still written, and the snapshot is installed.
WriteChunkFails(c) ==
    /\ rpc[c].pc = "write" /\ chunk_faults < ChunkFaults
    /\ chunk_faults' = chunk_faults + 1 /\ mishaps' = mishaps \cup {"snapshot"}
    /\ snapshot_file' = IF rpc[c].prev = 0 THEN <<>> ELSE snapshot_file
    /\ ChunkDone(c)
    /\ UNCHANGED <<node, rpc_requests, answers>>

\* The stream of the leader breaks: the handler ends with an error.
SnapshotBreaks(c) ==
    /\ rpc[c].pc = "chunk" /\ rpc' = [rpc EXCEPT ![c] = NoCall]
    /\ mishaps' = IF rpc[c].prev > 0 THEN mishaps \cup {"snapshot"} ELSE mishaps
    /\ UNCHANGED <<node, disk, rpc_requests, answers>>

\* The stream ends without a last chunk: what has come is installed, and if
\* nothing has, a snapshot of no entries.
SnapshotEndsEarly(c) ==
    /\ rpc[c].pc = "chunk"
    /\ rpc' = [rpc EXCEPT ![c].pc = "install", ![c].commit = IF rpc[c].prev = 0 THEN 0 ELSE @]
    /\ mishaps' = IF rpc[c].prev > 0 THEN mishaps \cup {"snapshot"} ELSE mishaps
    /\ UNCHANGED <<node, disk, rpc_requests, answers>>

\* The commit index becomes that of the snapshot, be it larger or smaller.
InstallCommit(c) ==
    /\ rpc[c].pc = "install" /\ rpc_commit' = rpc[c].commit /\ GoOn(c, "truncate")
    /\ UNCHANGED <<rpc_term, rpc_vote, log_store, disk, rpc_requests, answers, mishaps>>

TruncateLog(c) ==
    /\ rpc[c].pc = "truncate" /\ rpc' = [rpc EXCEPT ![c] = NoCall]
    /\ log_store' = {e \in log_store : e.seq > rpc[c].commit}
    /\ UNCHANGED <<rpc_term, rpc_vote, rpc_commit, disk, rpc_requests, answers, mishaps>>

RpcNext ==
    \E c \in Calls :
      \/ AppendEntries(c) \/ RequestVote(c) \/ CheckConsistency(c) \/ AppendToLog(c)
      \/ ReadLast(c) \/ UpdateCommit(c)
      \/ Heartbeat(c) \/ RaiseToTerm(c) \/ ForgetVote(c) \/ RaiseOnly(c)
      \/ StreamAppendEntries(c) \/ StreamItem(c) \/ StreamEnds(c)
      \/ InstallSnapshot(c) \/ ReceiveChunk(c) \/ WriteChunk(c) \/ WriteChunkFails(c)
      \/ SnapshotBreaks(c) \/ SnapshotEndsEarly(c) \/ InstallCommit(c) \/ TruncateLog(c)
RpcSpec == RpcInit /\ [][RpcNext]_rpcVars
------------------------------------------------------------------------------
(* Properties. *)

\* Where the handlers are, and what term, vote and log are made of.
RpcTypeOK ==
    /\ rpc_term \in {0} \cup LeaderTerms /\ rpc_vote \in {NoVote} \cup DOMAIN CandidateLast
    /\ \A e \in log_store : \E t \in LeaderTerms :
         e.seq \in DOMAIN LeaderLog[t] /\ e = EntryOf(t, e.seq)
    /\ \A c \in Calls : rpc[c].pc \in {"idle", "check", "append", "last", "commit", "stream",
                                       "chunk", "write", "install", "truncate"} \cup Raising

\* What is on disk as a whole snapshot.
OnDisk == {LeaderCommit[t] : t \in {t \in LeaderTerms : snapshot_file = <<<<t, 0>>, <<t, 1>>>>}}

\* An append that was answered with success is kept until a newer leader is
\* heard of: up to the entry in the answer, the log or the snapshot has what
\* the leader has.  It is not claimed after an append that comes late, whose
\* entries end before what was already appended; after one, or a snapshot, of a
\* leader when a newer term had been taken; after a snapshot that was cut short,
\* failed or met another; nor when a term was read while it was being raised in steps.
AckedKept ==
    (/\ mishaps = {}
     /\ \A c \in Calls : ~Snapshotting(c))
    => \A a \in acked : a[1] = rpc_term =>
         \A s \in 1..a[2] : EntryOf(a[1], s) \in log_store \/ \E d \in OnDisk : s <= d

\* In a term the node says yes to one candidate, if it is asked several times,
\* if it hears of the term from others first, whatever appends, snapshots and
\* streams come between; a term that was being raised in steps is excepted.
VotesKept ==
    "mixed" \notin mishaps =>
      \A v, w \in votes_granted : v[1] = w[1] => v[2] = w[2]
=============================================================================
