---------------------------- MODULE FactorStore ----------------------------
(***************************************************************************)
(* What is kept of factors: the values a WalStreamFactorEngine sends over  *)
(* a bounded channel to a FactorWalConsumer, which writes them to a WAL in *)
(* batches (src/src/factor/wal_persister.rs), what UnifiedRecoveryManager  *)
(* makes of that WAL (src/src/storage/unified_recovery.rs), and the        *)
(* checkpoints of a StateStore (src/src/factor/state.rs).                  *)
(*                                                                         *)
(* The value of a factor is the number of the update that gave it.         *)
(***************************************************************************)
EXTENDS Integers, FiniteSets, SequencesExt, Functions

CONSTANTS
    FactorKeys,      \* factors of one instrument
    ChannelSize,     \* channel_buffer_size
    WalBatch,        \* batch_size of the consumer
    SnapshotSlots,   \* factors that fit into a FactorSnapshot record (32)
    UpdateLimit,     \* bound on the updates
    SnapshotLimit,   \* bound on the snapshots
    CommitFaults,    \* bound on failing group commits
    Savers,          \* threads that save checkpoints
    MaxCheckpoints,  \* max_checkpoints
    CheckpointLimit, \* bound on the checkpoints
    StoreCrashes     \* bound on the crashes of the StateStore's process

ASSUME FactorStoreAssumption ==
    /\ IsFiniteSet(FactorKeys) /\ IsFiniteSet(Savers)
    /\ {ChannelSize, WalBatch, SnapshotSlots, MaxCheckpoints} \subseteq Nat \ {0}
    /\ {UpdateLimit, SnapshotLimit, CommitFaults, CheckpointLimit, StoreCrashes} \subseteq Nat
    /\ Cardinality(Savers) <= MaxCheckpoints

VARIABLES
    factor_values,   \* values in the engine, 0 if there is none yet
    updates,         \* updates so far
    last_checkpoint_id, \* snapshots so far, those not sent included
    factor_channel,  \* messages [kind, values] on their way
    batch_buffer_f,  \* the consumer's batch_buffer
    group_buffer,    \* records of the WAL's group commit that is running
    factor_wal,      \* records on disk
    consumer,        \* "running", "flushing", "last flush" or "stopped"
    persister,       \* "open", "shut down" (the flag) or "dropped"
    recovered,       \* the values a restarted process finds, or NotRestarted
    accepted_values, \* history: newest values accepted before shutdown
    committed_values, \* history: newest values in group commits that returned Ok
    commit_faults

factorVars == <<factor_values, updates, last_checkpoint_id, factor_channel, batch_buffer_f,
                group_buffer, factor_wal, consumer, persister, recovered, accepted_values,
                committed_values, commit_faults>>

NotRestarted == <<>>
NoValues == [f \in FactorKeys |-> 0]
Latest(values, new) == [f \in FactorKeys |-> IF f \in DOMAIN new THEN new[f] ELSE values[f]]
WalMessage(kind, values) == [kind |-> kind, values |-> values]
Shutdown == WalMessage("Shutdown", <<>>)
HasShutdown(messages) == \E i \in DOMAIN messages : messages[i] = Shutdown

FactorInit ==
    /\ factor_values = NoValues /\ updates = 0 /\ last_checkpoint_id = 0
    /\ factor_channel = <<>> /\ batch_buffer_f = <<>>
    /\ group_buffer = <<>> /\ factor_wal = <<>>
    /\ consumer = "running" /\ persister = "open"
    /\ recovered = NotRestarted
    /\ accepted_values = NoValues /\ committed_values = NoValues /\ commit_faults = 0

\* try_send of messages, of which the first that finds the channel full is the
\* last that is tried.
TrySend(messages) ==
    LET room == ChannelSize - Len(factor_channel)
        accepted == SubSeq(messages, 1, IF Len(messages) < room THEN Len(messages) ELSE room)
    IN  /\ factor_channel' = factor_channel \o accepted
        /\ accepted_values' = IF persister = "open"
                   THEN FoldLeft(LAMBDA s, m : Latest(s, m.values), accepted_values, accepted)
                   ELSE accepted_values

Alive == recovered = NotRestarted /\ persister # "dropped"

\* WalStreamFactorEngine::update, and update_all with persist_batch, which goes
\* through a HashMap in any order.  The engine keeps the value in any case.
UpdateFactors(keys) ==
    /\ Alive /\ updates < UpdateLimit
    /\ updates' = updates + 1
    /\ factor_values' = [f \in FactorKeys |-> IF f \in keys THEN updates' ELSE factor_values[f]]
    /\ \E order \in SetToSeqs(keys) :
         TrySend([i \in DOMAIN order |-> WalMessage("Update", [f \in {order[i]} |-> updates'])])
    /\ UNCHANGED <<last_checkpoint_id, batch_buffer_f, group_buffer, factor_wal,
                   consumer, persister, recovered, committed_values, commit_faults>>

\* persist_snapshot; message_to_wal_record keeps as many factors as a record has
\* places for.
PersistSnapshot ==
    /\ Alive /\ last_checkpoint_id < SnapshotLimit
    /\ last_checkpoint_id' = last_checkpoint_id + 1
    /\ LET known == {f \in FactorKeys : factor_values[f] # 0}
           places == IF Cardinality(known) < SnapshotSlots THEN Cardinality(known)
                     ELSE SnapshotSlots
       IN  \E kept \in SUBSET known :
             /\ Cardinality(kept) = places
             /\ TrySend(<<WalMessage("Snapshot", Restrict(factor_values, kept))>>)
    /\ UNCHANGED <<factor_values, updates, batch_buffer_f, group_buffer, factor_wal,
                   consumer, persister, recovered, committed_values, commit_faults>>

\* shutdown: its message is lost when the channel is full.
ShutDown ==
    /\ Alive /\ persister = "open"
    /\ persister' = "shut down"
    /\ factor_channel' = IF Len(factor_channel) < ChannelSize
                         THEN Append(factor_channel, Shutdown) ELSE factor_channel
    /\ UNCHANGED <<factor_values, updates, last_checkpoint_id, batch_buffer_f,
                   group_buffer, factor_wal, consumer, recovered, accepted_values, committed_values,
                   commit_faults>>

DropPersister ==
    /\ Alive /\ persister = "shut down"
    /\ persister' = "dropped"
    /\ UNCHANGED <<factor_values, updates, last_checkpoint_id, factor_channel,
                   batch_buffer_f, group_buffer, factor_wal, consumer, recovered, accepted_values,
                   committed_values, commit_faults>>

\* flush: the batch goes to the group commit of the WAL.
Flush(batch, last) ==
    /\ group_buffer' = batch /\ batch_buffer_f' = <<>>
    /\ consumer' = IF batch = <<>> /\ last THEN "stopped"
                   ELSE IF last THEN "last flush" ELSE "flushing"

ReceiveFactor ==
    /\ recovered = NotRestarted /\ consumer = "running" /\ factor_channel # <<>>
    /\ factor_channel' = Tail(factor_channel)
    /\ LET message == Head(factor_channel)
           batch == Append(batch_buffer_f, message)
       IN  IF message = Shutdown THEN Flush(batch_buffer_f, TRUE)
           ELSE IF Len(batch) >= WalBatch THEN Flush(batch, FALSE)
           ELSE batch_buffer_f' = batch /\ UNCHANGED <<group_buffer, consumer>>
    /\ UNCHANGED <<factor_values, updates, last_checkpoint_id, factor_wal, persister,
                   recovered, accepted_values, committed_values, commit_faults>>

\* An empty channel: poll writes what it has, run waits, and both end when
\* nobody can send any more.
ChannelEmpty ==
    /\ recovered = NotRestarted /\ consumer = "running" /\ factor_channel = <<>>
    /\ \/ persister = "dropped" /\ Flush(batch_buffer_f, TRUE)
       \/ persister # "dropped" /\ batch_buffer_f # <<>> /\ Flush(batch_buffer_f, FALSE)
    /\ UNCHANGED <<factor_values, updates, last_checkpoint_id, factor_channel,
                   factor_wal, persister, recovered, accepted_values, committed_values,
                   commit_faults>>

AfterCommit == IF consumer = "last flush" THEN "stopped" ELSE "running"

\* append_async of every record and flush_group_commit.
GroupCommit ==
    /\ recovered = NotRestarted /\ consumer \in {"flushing", "last flush"}
    /\ factor_wal' = factor_wal \o group_buffer
    /\ committed_values' =
         FoldLeft(LAMBDA c, m : Latest(c, m.values), committed_values, group_buffer)
    /\ group_buffer' = <<>>
    /\ consumer' = AfterCommit
    /\ UNCHANGED <<factor_values, updates, last_checkpoint_id, factor_channel,
                   batch_buffer_f, persister, recovered, accepted_values, commit_faults>>

\* The records have left both buffers, and the error is only logged.  append_async
\* commits on its own when enough has come or time has passed, so that a part of
\* the batch may be written whatever becomes of the part before.
GroupCommitFails ==
    /\ recovered = NotRestarted /\ consumer \in {"flushing", "last flush"}
    /\ commit_faults < CommitFaults /\ commit_faults' = commit_faults + 1
    /\ \E written \in SUBSET Range(group_buffer) :
         factor_wal' = factor_wal \o SelectSeq(group_buffer, LAMBDA m : m \in written)
    /\ group_buffer' = <<>>
    /\ consumer' = AfterCommit
    /\ UNCHANGED <<factor_values, updates, last_checkpoint_id, factor_channel,
                   batch_buffer_f, persister, recovered, accepted_values, committed_values>>

\* process_instrument_record.
Replayed(values, message) == Latest(values, message.values)

\* The process ends at any moment; a group commit that is running leaves a part
\* of its records.
RestartFactors ==
    /\ recovered = NotRestarted
    /\ \E n \in 0..Len(group_buffer) :
         /\ factor_wal' = factor_wal \o SubSeq(group_buffer, 1, n)
         /\ recovered' = FoldLeft(Replayed, NoValues, factor_wal')
    /\ UNCHANGED <<factor_values, updates, last_checkpoint_id, factor_channel,
                   batch_buffer_f, group_buffer, consumer, persister, accepted_values,
                   committed_values, commit_faults>>

FactorNext ==
    \/ \E f \in FactorKeys : UpdateFactors({f})
    \/ UpdateFactors(FactorKeys) \/ PersistSnapshot \/ ShutDown \/ DropPersister
    \/ ReceiveFactor \/ ChannelEmpty \/ GroupCommit \/ GroupCommitFails \/ RestartFactors
------------------------------------------------------------------------------
(* The checkpoints of a StateStore.  The n-th checkpoint holds the n-th     *)
(* state; a file is complete or torn.                                       *)

VARIABLES
    state_files,     \* checkpoint files by id: "torn" or "complete"
    checkpoint_id,   \* checkpoint_counter
    saver,           \* saver[s]: [pc, id, old]
    reader,          \* load_latest_checkpoint: [pc, id, floor]
    saved,           \* history: ids for which save_checkpoint returned Ok
    store_crashes

storeVars == <<state_files, checkpoint_id, saver, reader, saved, store_crashes>>

NoSave == [pc |-> "idle", id |-> 0, old |-> {}]
NoLoad == [pc |-> "idle", id |-> 0, floor |-> 0]
Newest(ids) == IF ids = {} THEN 0 ELSE CHOOSE i \in ids : \A j \in ids : j <= i
Removed(files, id) == Restrict(files, DOMAIN files \ {id})

StoreInit ==
    /\ state_files = <<>> /\ checkpoint_id = 1
    /\ saver = [s \in Savers |-> NoSave] /\ reader = NoLoad
    /\ saved = {} /\ store_crashes = 0

\* next_checkpoint_id and File::create.
CreateCheckpoint(s) ==
    /\ saver[s].pc = "idle" /\ checkpoint_id <= CheckpointLimit
    /\ checkpoint_id' = checkpoint_id + 1
    /\ state_files' = [i \in DOMAIN state_files \cup {checkpoint_id} |->
                         IF i = checkpoint_id THEN "torn" ELSE state_files[i]]
    /\ saver' = [saver EXCEPT ![s] = [pc |-> "write", id |-> checkpoint_id, old |-> {}]]
    /\ UNCHANGED <<reader, saved, store_crashes>>

\* Mutant of OldCheckpoints: the newest go first.
NewestCheckpoints(ids) ==
    {i \in ids : Cardinality({j \in ids : j < i}) >= MaxCheckpoints}
\* What cleanup_old_checkpoints removes of the files it lists.
OldCheckpoints(ids) ==
    {i \in ids : Cardinality({j \in ids : j > i}) >= MaxCheckpoints}

\* A file that has been removed meanwhile is written all the same, unseen.
WriteCheckpoint(s) ==
    /\ saver[s].pc = "write"
    /\ state_files' = [i \in DOMAIN state_files |->
                         IF i = saver[s].id THEN "complete" ELSE state_files[i]]
    /\ saver' = [saver EXCEPT ![s].pc = "clean", ![s].old = OldCheckpoints(DOMAIN state_files)]
    /\ UNCHANGED <<checkpoint_id, reader, saved, store_crashes>>

\* The oldest file first; one that somebody else has removed ends the call with
\* an error.
RemoveCheckpoint(s) ==
    /\ saver[s].pc = "clean" /\ saver[s].old # {}
    /\ LET id == CHOOSE i \in saver[s].old : \A j \in saver[s].old : i <= j
       IN  /\ state_files' = Removed(state_files, id)
           /\ saver' = [saver EXCEPT ![s] = IF id \in DOMAIN state_files
                                            THEN [@ EXCEPT !.old = @ \ {id}] ELSE NoSave]
    /\ UNCHANGED <<checkpoint_id, reader, saved, store_crashes>>

SaveReturns(s) ==
    /\ saver[s].pc = "clean" /\ saver[s].old = {}
    /\ saved' = saved \cup {saver[s].id}
    /\ saver' = [saver EXCEPT ![s] = NoSave]
    /\ UNCHANGED <<state_files, checkpoint_id, reader, store_crashes>>

\* load_latest_checkpoint: the largest id, and then its file.
FindLatest ==
    /\ reader.pc # "read"
    /\ reader' = [pc |-> "read", id |-> Newest(DOMAIN state_files), floor |-> Newest(saved)]
    /\ UNCHANGED <<state_files, checkpoint_id, saver, saved, store_crashes>>

LoadCheckpoint ==
    /\ reader.pc = "read"
    /\ reader' = [reader EXCEPT !.pc =
         IF reader.id = 0 THEN "none"
         ELSE IF reader.id \notin DOMAIN state_files THEN "not found"
         ELSE IF state_files[reader.id] = "torn" THEN "error" ELSE "loaded"]
    /\ UNCHANGED <<state_files, checkpoint_id, saver, saved, store_crashes>>

\* A crash leaves the files as they are; StateStore::new looks for the largest id.
RestartStore ==
    /\ store_crashes < StoreCrashes /\ store_crashes' = store_crashes + 1
    /\ saver' = [s \in Savers |-> NoSave] /\ reader' = NoLoad
    /\ checkpoint_id' = Newest(DOMAIN state_files) + 1
    /\ UNCHANGED <<state_files, saved>>

StoreNext ==
    \/ \E s \in Savers : CreateCheckpoint(s) \/ WriteCheckpoint(s) \/ RemoveCheckpoint(s)
                         \/ SaveReturns(s)
    \/ FindLatest \/ LoadCheckpoint \/ RestartStore
------------------------------------------------------------------------------
(* Properties. *)

FactorTypeOK ==
    /\ {factor_values, accepted_values} \subseteq [FactorKeys -> 0..updates]
    /\ Len(factor_channel) <= ChannelSize /\ Len(batch_buffer_f) < WalBatch
    /\ DOMAIN state_files \subseteq 1..(checkpoint_id - 1)
    /\ \A s \in Savers : saver[s].id < checkpoint_id

\* After a restart every factor has a value the engine has given it, and none
\* older than one that a successful group commit has written; and a consumer that
\* has ended without a failing commit has written every value that was accepted
\* before shutdown.
FactorsRecovered ==
    /\ recovered # NotRestarted =>
         \A f \in FactorKeys :
           committed_values[f] <= recovered[f] /\ recovered[f] <= factor_values[f]
    /\ consumer = "stopped" /\ commit_faults = 0 =>
         \A f \in FactorKeys : accepted_values[f] <= committed_values[f]

\* Savers that clean up behind each other never leave less than a complete
\* checkpoint that is as new as any for which save_checkpoint has returned Ok, and
\* what load_latest_checkpoint gives is not older than that.
CheckpointsKept ==
    /\ saved # {} => \E i \in DOMAIN state_files :
                       i >= Newest(saved) /\ state_files[i] = "complete"
    /\ reader.pc = "loaded" => reader.id >= reader.floor
    /\ reader.pc = "none" => reader.floor = 0

\* What is kept of factors, values and states.
FactorsKept == FactorsRecovered /\ CheckpointsKept
=============================================================================
