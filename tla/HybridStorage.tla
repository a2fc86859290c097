---------------------------- MODULE HybridStorage ----------------------------
(***************************************************************************)
(* OltpHybridStorage (src/src/storage/hybrid/oltp.rs) of one instrument    *)
(* with its WalManager, MemTable, SSTables, compaction and checkpoints.    *)
(*                                                                         *)
(* Writers run write / write_batch concurrently: the sequence counter and  *)
(* the file size are atomics that are read and written apart, the WAL file *)
(* has a mutex, the MemTable a read-write lock that a flush holds for its  *)
(* whole length.  A crash can come at any step and can leave the bytes of  *)
(* an entry half written.                                                  *)
(*                                                                         *)
(* A record is a number, which also stands for its timestamp.  Of a WAL    *)
(* file the model keeps the entries and whether replay can read it; sizes  *)
(* are counted in entries.                                                 *)
(***************************************************************************)
EXTENDS Integers, FiniteSets

CONSTANTS
    Writers,
    NoWriter,
    MaxWrites,     \* bound on records
    MaxBatch,      \* bound on the records of one call
    MaxFileSize,   \* max_file_size, in entries
    MemTableSize,  \* memtable_size_bytes, in entries
    Level0Files,   \* CompactionConfig.level0_max_files
    MaxCrashes,    \* bounds on crashes, on failing or torn writes, on
    MaxFaults,     \* checkpoints and on compactions
    MaxCheckpoints,
    MaxCompactions

Records == 1..MaxWrites
Sequences == 1..(MaxWrites + 2)
\* SSTables by name: the n-th flush of a process, and 0 for l1_<time>.sst.
SstNames == 0..MaxWrites
Entries == [seq : Sequences, rec : Records]

ASSUME StorageAssumption ==
    /\ MaxWrites \in Nat \ {0}
    /\ {MaxBatch, MaxFileSize, MemTableSize, Level0Files} \subseteq Nat \ {0}
    /\ {MaxCrashes, MaxFaults, MaxCheckpoints} \subseteq Nat
    /\ MaxCompactions \in {0, 1}
    /\ IsFiniteSet(Writers) /\ NoWriter \notin Writers

VARIABLES
    wal_files,         \* wal_files[s]: the file wal_<s>.log
    sst_files,         \* sst_files[n]: the file <n>.sst
    checkpoint,        \* the newest checkpoint: its WAL sequence and SSTables
    up,                \* a process has the storage open
    current_sequence, current_file, file_size, unflushed, \* WalManager
    memtable, flusher, sstables, sstable_counter, \* OltpHybridStorage
    orphans,           \* history: SSTables of this process that were written
                       \* whole and then neither opened nor registered
    level0, level1, compacting,                   \* CompactionScheduler
    ckpt,              \* the create_checkpoint call under way
    pc, pending,       \* per writer: step, entries of its call
    written,           \* history: records drawn so far
    acked,             \* history: records whose write returned Ok
    cut,               \* history: records whose WAL file was removed
    crashes, faults, checkpoints, compactions

diskVars == <<wal_files, sst_files, checkpoint>>
walVars == <<current_sequence, current_file, file_size, unflushed>>
memVars == <<memtable, flusher, sstables, sstable_counter, orphans>>
compVars == <<level0, level1, compacting, compactions>>
ckptVars == <<ckpt, checkpoints>>
writerVars == <<pc, pending>>
historyVars == <<written, acked, cut>>
vars == <<diskVars, up, walVars, memVars, compVars, ckptVars, writerVars,
          historyVars, crashes, faults>>

NoFile == [state |-> "absent", entries |-> {}]
NoSst == [state |-> "absent", recs |-> {}]
NoCheckpoint == [seq |-> 0, files |-> {}]
IdleCkpt == [step |-> "idle", seq |-> 0]

Existing == {s \in Sequences : wal_files[s].state # "absent"}
OnDisk == UNION {wal_files[s].entries : s \in Existing}
InWal == {e.rec : e \in OnDisk}

\* replay reads every file to its end; three stray bytes at the end of a file
\* end it, anything else that is not an entry is an error.
Replays == \A s \in Existing : wal_files[s].state \in {"whole", "stray"}

Largest(S) == CHOOSE n \in S : \A m \in S : m =< n
------------------------------------------------------------------------------
Init ==
    /\ wal_files = [s \in Sequences |-> IF s = 1 THEN [NoFile EXCEPT !.state = "whole"]
                                        ELSE NoFile]
    /\ sst_files = [n \in SstNames |-> NoSst]
    /\ checkpoint = NoCheckpoint
    /\ up = TRUE
    /\ current_sequence = 1
    /\ current_file = 1
    /\ file_size = 0
    /\ unflushed = {}
    /\ memtable = {}
    /\ flusher = NoWriter
    /\ sstables = {}
    /\ sstable_counter = 0
    /\ orphans = {}
    /\ level0 = {}
    /\ level1 = {}
    /\ compacting = {}
    /\ ckpt = IdleCkpt
    /\ pc = [w \in Writers |-> "idle"]
    /\ pending = [w \in Writers |-> {}]
    /\ written = 0
    /\ acked = {}
    /\ cut = {}
    /\ crashes = 0
    /\ faults = 0
    /\ checkpoints = 0
    /\ compactions = 0
------------------------------------------------------------------------------
(* WalManager: append and append_batch. *)

Goto(w, step) == pc' = [pc EXCEPT ![w] = step]
Recs(S) == {e.rec : e \in S}

\* Mutant of Return: the entries of the call are kept.
ReturnKeepingPending(w) == pc' = [pc EXCEPT ![w] = "idle"] /\ UNCHANGED pending

\* The call of writer w is over.
Return(w) ==
    /\ pc' = [pc EXCEPT ![w] = "idle"]
    /\ pending' = [pending EXCEPT ![w] = {}]

\* A file after entries E have been added: what follows stray bytes cannot
\* be read.
Added(file, E) ==
    [state |-> IF file.state = "stray" /\ E # {} THEN "broken" ELSE file.state,
     entries |-> file.entries \cup E]

\* The entries of one batch draw their sequence numbers one by one.
DrawSequence(w) ==
    /\ up
    /\ pc[w] \in {"idle", "drawn"}
    /\ written < MaxWrites
    /\ Cardinality(pending[w]) < MaxBatch
    /\ current_sequence \in Sequences
    /\ pending' = [pending EXCEPT ![w] = @ \cup
                     {[seq |-> current_sequence, rec |-> written + 1]}]
    /\ current_sequence' = current_sequence + 1
    /\ written' = written + 1
    /\ Goto(w, "drawn")
    /\ UNCHANGED <<diskVars, up, current_file, file_size, unflushed, memVars,
                   compVars, ckptVars, acked, cut, crashes, faults>>

\* current_file_size is read before the file is locked.
CheckSize(w) ==
    /\ pc[w] = "drawn"
    /\ Goto(w, IF file_size + Cardinality(pending[w]) > MaxFileSize
               THEN "rotate" ELSE "append")
    /\ UNCHANGED <<diskVars, up, walVars, memVars, compVars, ckptVars, pending,
                   historyVars, crashes, faults>>

\* Mutant of WithHeader: the file is opened to truncate.
WithHeaderTruncating(file) == [NoFile EXCEPT !.state = "whole"]

\* The header of a file that is opened to append: a second one in the middle
\* of a file is no entry.
WithHeader(file) ==
    IF file.state = "absent" THEN [NoFile EXCEPT !.state = "whole"]
    ELSE [file EXCEPT !.state = "broken"]

\* The new file is named by the next sequence, which two writers that came
\* past CheckSize together both read.  The old BufWriter writes what it holds.
RotateFile(w) ==
    /\ pc[w] = "rotate"
    /\ current_sequence \in Sequences
    /\ LET old == IF wal_files[current_file].state = "absent" THEN wal_files
                  ELSE [wal_files EXCEPT ![current_file] = Added(@, unflushed)]
       IN  /\ wal_files' = [old EXCEPT ![current_sequence] = WithHeader(@)]
           /\ cut' = IF wal_files[current_file].state = "absent"
                     THEN cut \cup Recs(unflushed) ELSE cut
    /\ current_file' = current_sequence
    /\ file_size' = 0
    /\ unflushed' = {}
    /\ Goto(w, "append")
    /\ UNCHANGED <<sst_files, checkpoint, up, current_sequence, memVars, compVars,
                   ckptVars, pending, written, acked, crashes, faults>>

\* The new file cannot be created, or its header cannot be written or synced:
\* what there is of it stays on the disk, and the old file stays the current
\* one.  The entries drawn for the call are dropped.
RotateFails(w) ==
    /\ pc[w] = "rotate"
    /\ faults < MaxFaults
    /\ current_sequence \in Sequences
    /\ faults' = faults + 1
    /\ LET new == wal_files[current_sequence]
       IN  \E file \in {new, WithHeader(new), [new EXCEPT !.state = "broken"]} :
              wal_files' = [wal_files EXCEPT ![current_sequence] = file]
    /\ Return(w)
    /\ UNCHANGED <<sst_files, checkpoint, up, walVars, memVars, compVars,
                   ckptVars, historyVars, crashes>>

\* Write and fsync under the mutex, what an earlier failure left in the
\* buffer first.  The file may have been unlinked by a checkpoint.
AppendEntries(w) ==
    /\ pc[w] = "append"
    /\ LET E == unflushed \cup pending[w]
       IN  IF wal_files[current_file].state = "absent"
           THEN cut' = cut \cup Recs(E) /\ UNCHANGED wal_files
           ELSE /\ wal_files' = [wal_files EXCEPT ![current_file] = Added(@, E)]
                /\ UNCHANGED cut
    /\ file_size' = file_size + Cardinality(pending[w])
    /\ unflushed' = {}
    /\ Goto(w, "insert")
    /\ UNCHANGED <<sst_files, checkpoint, up, current_sequence, current_file,
                   memVars, compVars, ckptVars, pending, written, acked,
                   crashes, faults>>

\* The disk refuses: the call returns Err, and the entries stay in the
\* BufWriter.  append has counted them already, append_batch has not.
AppendFails(w) ==
    /\ pc[w] = "append"
    /\ faults < MaxFaults
    /\ faults' = faults + 1
    /\ unflushed' = unflushed \cup pending[w]
    /\ file_size' \in {file_size, file_size + Cardinality(pending[w])}
    /\ Return(w)
    /\ UNCHANGED <<diskVars, up, current_sequence, current_file, memVars,
                   compVars, ckptVars, historyVars, crashes>>
------------------------------------------------------------------------------
(* OltpHybridStorage: MemTable and flush. *)

\* Mutants of InsertMem: the read lock is kept over try_flush; the flush does
\* not keep the writers out.
InsertMemKeepingLock(w) ==
    /\ pc[w] = "insert"
    /\ flusher = NoWriter
    /\ memtable' = memtable \cup Recs(pending[w])
    /\ IF Cardinality(memtable') >= MemTableSize
       THEN Goto(w, "flush") /\ flusher' = w /\ UNCHANGED <<pending, acked>>
       ELSE Return(w) /\ acked' = acked \cup Recs(pending[w]) /\ UNCHANGED flusher
    /\ UNCHANGED <<diskVars, up, walVars, sstables, sstable_counter, orphans,
                   compVars, ckptVars, written, cut, crashes, faults>>

InsertMemUnlocked(w) ==
    /\ pc[w] = "insert"
    /\ memtable' = memtable \cup Recs(pending[w])
    /\ IF Cardinality(memtable') >= MemTableSize
       THEN Goto(w, "flush") /\ UNCHANGED <<pending, acked>>
       ELSE Return(w) /\ acked' = acked \cup Recs(pending[w])
    /\ UNCHANGED <<diskVars, up, walVars, flusher, sstables, sstable_counter,
                   orphans, compVars, ckptVars, written, cut, crashes, faults>>

InsertMem(w) ==
    /\ pc[w] = "insert"
    /\ flusher = NoWriter
    /\ memtable' = memtable \cup Recs(pending[w])
    /\ IF Cardinality(memtable') >= MemTableSize
       THEN Goto(w, "flush") /\ UNCHANGED <<pending, acked>>
       ELSE Return(w) /\ acked' = acked \cup Recs(pending[w])
    /\ UNCHANGED <<diskVars, up, walVars, flusher, sstables, sstable_counter,
                   orphans, compVars, ckptVars, written, cut, crashes, faults>>

\* Another writer has flushed in the meantime: nothing to do.
FlushNotNeeded(w) ==
    /\ pc[w] = "flush"
    /\ flusher = NoWriter
    /\ Cardinality(memtable) < MemTableSize
    /\ Return(w)
    /\ acked' = acked \cup Recs(pending[w])
    /\ UNCHANGED <<diskVars, up, walVars, memVars, compVars, ckptVars, written,
                   cut, crashes, faults>>

\* The SSTable is created, truncating a file of the same name, and filled.
\* Until its header is written the file cannot be opened.
FlushBegin(w) ==
    /\ pc[w] = "flush"
    /\ flusher = NoWriter
    /\ Cardinality(memtable) >= MemTableSize
    /\ flusher' = w
    /\ sstable_counter' = sstable_counter + 1
    /\ sst_files' = [sst_files EXCEPT ![sstable_counter'] =
                       [state |-> "partial", recs |-> memtable]]
    /\ Goto(w, "flushing")
    /\ UNCHANGED <<wal_files, checkpoint, up, walVars, memtable, sstables, orphans,
                   compVars, ckptVars, pending, historyVars, crashes, faults>>

FlushEnd(w) ==
    /\ pc[w] = "flushing"
    /\ sst_files' = [sst_files EXCEPT ![sstable_counter].state = "whole"]
    /\ memtable' = {}
    /\ sstables' = sstables \cup {sstable_counter}
    /\ level0' = level0 \cup {sstable_counter}
    /\ flusher' = NoWriter
    /\ Return(w)
    /\ acked' = acked \cup Recs(pending[w])
    /\ UNCHANGED <<wal_files, checkpoint, up, walVars, sstable_counter, orphans,
                   level1, compacting, compactions, ckptVars, written, cut, crashes,
                   faults>>

\* write returns Err although the record is in the WAL.  Either the SSTable
\* cannot be written, or it is whole when its sync fails, or it is whole, the
\* MemTable has been cleared, and the file cannot be opened.
FlushFails(w) ==
    /\ pc[w] = "flushing"
    /\ faults < MaxFaults
    /\ faults' = faults + 1
    /\ \/ UNCHANGED <<sst_files, memtable, orphans>>
       \/ /\ sst_files' = [sst_files EXCEPT ![sstable_counter].state = "whole"]
          /\ orphans' = orphans \cup {sstable_counter}
          /\ memtable' \in {memtable, {}}
    /\ flusher' = NoWriter
    /\ Return(w)
    /\ UNCHANGED <<wal_files, checkpoint, up, walVars, sstables, sstable_counter,
                   compVars, ckptVars, historyVars, crashes>>
------------------------------------------------------------------------------
(* CompactionScheduler: level 0 into one file of level 1. *)

CompactBegin ==
    /\ up
    /\ compacting = {}
    /\ compactions < MaxCompactions
    /\ Cardinality(level0) >= Level0Files
    /\ \A n \in level0 : sst_files[n].state = "whole"
    /\ compacting' = level0
    /\ sst_files' = [sst_files EXCEPT ![0] =
                       [state |-> "partial",
                        recs |-> UNION {sst_files[n].recs : n \in level0}]]
    /\ compactions' = compactions + 1
    /\ UNCHANGED <<wal_files, checkpoint, up, walVars, memVars, level0, level1,
                   ckptVars, writerVars, historyVars, crashes, faults>>

\* Mutant of CompactEnd: the levels are set from the state before the merge.
CompactEndOverwriting ==
    /\ compacting # {}
    /\ sst_files' = [n \in SstNames |->
                       IF n \in compacting THEN NoSst
                       ELSE IF n = 0 THEN [sst_files[0] EXCEPT !.state = "whole"]
                       ELSE sst_files[n]]
    /\ level0' = {}
    /\ level1' = {0}
    /\ compacting' = {}
    /\ UNCHANGED <<wal_files, checkpoint, up, walVars, memVars, compactions,
                   ckptVars, writerVars, historyVars, crashes, faults>>

\* The merged files leave the levels and the disk.  The storage keeps its
\* handles on them and gets none on the new file.
CompactEnd ==
    /\ compacting # {}
    /\ sst_files' = [n \in SstNames |->
                       IF n \in compacting THEN NoSst
                       ELSE IF n = 0 THEN [sst_files[0] EXCEPT !.state = "whole"]
                       ELSE sst_files[n]]
    /\ level0' = level0 \ compacting
    /\ level1' = level1 \cup {0}
    /\ compacting' = {}
    /\ UNCHANGED <<wal_files, checkpoint, up, walVars, memVars, compactions,
                   ckptVars, writerVars, historyVars, crashes, faults>>
------------------------------------------------------------------------------
(* create_checkpoint, concurrent with the writers. *)

CheckpointBegin ==
    /\ up
    /\ ckpt.step = "idle"
    /\ checkpoints < MaxCheckpoints
    /\ checkpoints' = checkpoints + 1
    /\ ckpt' = [step |-> "save", seq |-> current_sequence]
    /\ UNCHANGED <<diskVars, up, walVars, memVars, compVars, writerVars,
                   historyVars, crashes, faults>>

CheckpointSave ==
    /\ ckpt.step = "save"
    /\ checkpoint' = [seq |-> ckpt.seq, files |-> sstables]
    /\ ckpt' = [ckpt EXCEPT !.step = "truncate"]
    /\ UNCHANGED <<wal_files, sst_files, up, walVars, memVars, compVars,
                   checkpoints, writerVars, historyVars, crashes, faults>>

\* Every file that starts below the checkpoint is removed, the one that is
\* being written too.
CheckpointTruncate ==
    /\ ckpt.step = "truncate"
    /\ LET old == {s \in Existing : s < ckpt.seq}
       IN  /\ wal_files' = [s \in Sequences |-> IF s \in old THEN NoFile
                                                ELSE wal_files[s]]
           /\ cut' = cut \cup Recs(UNION {wal_files[s].entries : s \in old})
    /\ ckpt' = IdleCkpt
    /\ UNCHANGED <<sst_files, checkpoint, up, walVars, memVars, compVars,
                   checkpoints, writerVars, written, acked, crashes, faults>>
------------------------------------------------------------------------------
(* Crash and restart. *)

\* What a crash can leave of the entries a writer was putting into the file:
\* none, some, or all of them, and behind them bytes of the next one.
TornTail(w) ==
    /\ pc[w] = "append"
    /\ wal_files[current_file].state # "absent"
    /\ \E n \in Sequences \cup {0}, tail \in {"none", "stray", "broken"} :
         \E E \in {{e \in unflushed : e.seq =< n},
                   unflushed \cup {e \in pending[w] : e.seq =< n}} :
              LET file == Added(wal_files[current_file], E)
              IN  /\ E # {} \/ tail # "none"
                  /\ wal_files' = [wal_files EXCEPT ![current_file] =
                       [file EXCEPT !.state =
                          IF tail = "none" THEN @
                          ELSE IF @ = "whole" THEN tail ELSE "broken"]]

\* The new file has been created and its header has not been written.
TornHeader(w) ==
    /\ pc[w] = "rotate"
    /\ current_sequence \in Sequences
    /\ wal_files' = [wal_files EXCEPT ![current_sequence].state = "broken"]

Crash ==
    /\ up
    /\ crashes < MaxCrashes
    /\ crashes' = crashes + 1
    /\ \/ UNCHANGED <<wal_files, faults>>
       \/ /\ faults < MaxFaults
          /\ faults' = faults + 1
          /\ \E w \in Writers : TornTail(w) \/ TornHeader(w)
    /\ up' = FALSE
    /\ unflushed' = {}
    /\ memtable' = {}
    /\ flusher' = NoWriter
    /\ sstables' = {}
    /\ sstable_counter' = 0
    /\ orphans' = {}
    /\ level0' = {}
    /\ level1' = {}
    /\ compacting' = {}
    /\ ckpt' = IdleCkpt
    /\ pc' = [w \in Writers |-> "idle"]
    /\ pending' = [w \in Writers |-> {}]
    /\ current_sequence' = 1 /\ current_file' = 1 /\ file_size' = 0
    /\ UNCHANGED <<sst_files, checkpoint, compactions, checkpoints, historyVars>>

\* Mutant of NextSequence: only the newest file is scanned.
NextSequenceOfNewest(files) ==
    1 + Largest({1} \cup {e.seq : e \in wal_files[Largest(files)].entries})

\* open_existing scans every file; a log without entries continues at 2.
NextSequence(files) ==
    1 + Largest({1} \cup {e.seq : e \in UNION {wal_files[s].entries : s \in files}})

\* create: WalManager::new continues the newest file or starts wal_1, and the
\* whole WAL goes into the MemTable.  When replay fails, so does create.
Open ==
    /\ ~up
    /\ Replays
    /\ up' = TRUE
    /\ \/ /\ Existing = {}
          /\ wal_files' = [wal_files EXCEPT ![1].state = "whole"]
          /\ current_sequence' = 1
          /\ current_file' = 1
          /\ file_size' = 0
       \/ /\ Existing # {}
          /\ current_sequence' = NextSequence(Existing)
          /\ current_file' = Largest(Existing)
          /\ file_size' = Cardinality(wal_files[current_file'].entries)
          /\ UNCHANGED wal_files
    /\ memtable' = InWal
    /\ UNCHANGED <<sst_files, checkpoint, unflushed, flusher, sstables,
                   sstable_counter, orphans, compVars, ckptVars, writerVars,
                   historyVars, crashes, faults>>

\* recover, before the first write: every .sst file in the order of the names,
\* up to one that cannot be opened.  The WAL is in the MemTable already.
Recover ==
    /\ up
    /\ crashes > 0
    /\ sstables = {} /\ sstable_counter = 0
    /\ \A w \in Writers : pc[w] = "idle"
    /\ LET flushed == {n \in SstNames \ {0} : sst_files[n].state # "absent"}
           Opens(n) == \A m \in flushed : m =< n => sst_files[m].state = "whole"
           merged == IF sst_files[0].state = "whole" /\ \A n \in flushed : Opens(n)
                     THEN {0} ELSE {}
       IN  /\ sstables' = {n \in flushed : Opens(n)} \cup merged
           /\ level0' = sstables'
    /\ UNCHANGED <<diskVars, up, walVars, memtable, flusher, sstable_counter,
                   orphans, level1, compacting, compactions, ckptVars, writerVars,
                   historyVars, crashes, faults>>

\* recover_from_checkpoint: the SSTables the checkpoint names, if all open.
RecoverFromCheckpoint ==
    /\ up
    /\ crashes > 0
    /\ sstables = {} /\ sstable_counter = 0
    /\ \A w \in Writers : pc[w] = "idle"
    /\ checkpoint # NoCheckpoint
    /\ \A n \in checkpoint.files : sst_files[n].state = "whole"
    /\ sstables' = checkpoint.files
    /\ UNCHANGED <<diskVars, up, walVars, memtable, flusher, sstable_counter,
                   orphans, compVars, ckptVars, writerVars, historyVars, crashes,
                   faults>>
------------------------------------------------------------------------------
Write(w) ==
    \/ CheckSize(w) \/ RotateFile(w) \/ RotateFails(w) \/ AppendEntries(w)
    \/ AppendFails(w) \/ InsertMem(w) \/ FlushNotNeeded(w) \/ FlushBegin(w)
    \/ FlushEnd(w) \/ FlushFails(w)

Next ==
    \/ \E w \in Writers : DrawSequence(w) \/ Write(w)
    \/ CompactBegin \/ CompactEnd
    \/ CheckpointBegin \/ CheckpointSave \/ CheckpointTruncate
    \/ Crash \/ Open \/ Recover \/ RecoverFromCheckpoint

Spec == Init /\ [][Next]_vars

\* Threads that write are scheduled; nobody has to start a write, crash, open,
\* compact or take a checkpoint.
FairSpec == Spec /\ \A w \in Writers : WF_vars(Write(w))
------------------------------------------------------------------------------
(* Properties. *)

WalFile == [state : {"absent", "whole", "stray", "broken"}, entries : SUBSET Entries]
SstFile == [state : {"absent", "partial", "whole"}, recs : SUBSET Records]

\* Every variable keeps its type; a writer has entries in hand exactly during
\* a call, and the MemTable lock is held by the writer that flushes.
TypeOK ==
    /\ wal_files \in [Sequences -> WalFile]
    /\ sst_files \in [SstNames -> SstFile]
    /\ checkpoint \in [seq : Nat, files : SUBSET SstNames]
    /\ up \in BOOLEAN
    /\ current_sequence \in 1..(MaxWrites + 3)
    /\ current_file \in Sequences
    /\ file_size \in Nat
    /\ unflushed \subseteq Entries
    /\ memtable \subseteq Records
    /\ flusher \in Writers \cup {NoWriter}
    /\ sstables \subseteq SstNames
    /\ sstable_counter \in SstNames
    /\ orphans \subseteq SstNames
    /\ level0 \cup level1 \cup compacting \subseteq SstNames
    /\ ckpt \in [step : {"idle", "save", "truncate"}, seq : Nat]
    /\ pc \in [Writers -> {"idle", "drawn", "rotate", "append", "insert",
                           "flush", "flushing"}]
    /\ pending \in [Writers -> SUBSET Entries]
    /\ \A w \in Writers : pending[w] = {} <=> pc[w] = "idle"
    /\ \A w \in Writers : flusher = w <=> pc[w] = "flushing"
    /\ written \in 0..MaxWrites
    /\ acked \subseteq Records
    /\ cut \subseteq Records

\* The storage implements the durable log: a record is acknowledged only when
\* it is in a WAL file, and only the truncation of a checkpoint removes it,
\* whatever rotates, fails, flushes, merges, crashes or restarts.
Log == INSTANCE DurableLog WITH log <- InWal
ImplementsDurableLog == Log!Spec

\* No two records share a sequence number, also over restarts, as long as no
\* checkpoint has removed a file: the MemTable key and recover_from_checkpoint
\* tell records apart by it.
SequencesUnique ==
    cut = {} => \A e, f \in OnDisk : e.seq = f.seq => e.rec = f.rec

\* What range_query reads: the MemTable and the SSTables the storage holds.
Visible == memtable \cup UNION {sst_files[n].recs : n \in sstables}

\* A failing flush may have cleared the MemTable and not opened its file; what
\* it held is then read again after a restart only.
Unread == UNION {sst_files[n].recs : n \in orphans}

\* Every acknowledged record can be read, also while others flush, after a flush
\* that failed and after a restart, or is in a whole SSTable of this process
\* whose flush returned an error; unless a checkpoint or a compaction has
\* removed files.
AckedVisible ==
    up /\ cut = {} /\ compactions = 0 => acked \subseteq Visible \cup Unread

\* Every whole file the process has flushed is registered for compaction until
\* it is merged, also when it is flushed during a merge; the others are
\* those whose flush returned an error.
FlushedRegistered ==
    \A n \in 1..sstable_counter :
        sst_files[n].state = "whole" => n \in level0 \cup level1 \cup orphans

\* A write returns: no writer waits for a lock for ever.
WriteReturns == \A w \in Writers : pc[w] # "idle" ~> pc[w] = "idle"
------------------------------------------------------------------------------
(* What is claimed and does not hold. *)

\* PerInstrumentWalManager::checkpoint: the data below the given sequence are
\* removed, and no other.
TruncatesOnlyOlder ==
    checkpoints > 0 /\ ckpt.step = "idle" /\ checkpoint.seq > 0 =>
        \A r \in acked : r \in InWal \/ r < checkpoint.seq

\* PerInstrumentWalManager::append: WalManager serialises the writes of one
\* instrument.  So without a fault the log can always be replayed.
AlwaysReplays == faults = 0 => Replays
==============================================================================
