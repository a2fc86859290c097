------------------------------ MODULE Conversion ------------------------------
(***************************************************************************)
(* Conversion of one instrument's SSTables into Parquet files: the         *)
(* ConversionScheduler, the ConversionWorkers and the ConversionMetadata   *)
(* of src/src/storage/conversion.                                          *)
(*                                                                         *)
(* A record's id is its position; a Parquet file is named by the second in *)
(* which its task was made and holds the SSTables it was written from.     *)
(* The metadata file is written under the metadata lock, so that memory    *)
(* and disk do not differ.  Assumed: a pass of the scheduler takes less    *)
(* than a second, a conversion less than zombie_timeout_secs (an hour).    *)
(* The scan reads oltp/*.rkyv of an instrument; the storage writes its     *)
(* SSTables to sstables/*.sst (src/src/storage/hybrid/oltp.rs), so what    *)
(* the scan finds was put there from outside of src/.                      *)
(***************************************************************************)
EXTENDS Integers, FiniteSets, Sequences

CONSTANTS
    SSTables,      \* numbers, in the order of the file names
    ConversionWorkers,
    BatchMin, BatchMax,   \* min_ and max_sstables_per_batch
    MaxRetries,
    Records,       \* bound on conversion records
    Crashes        \* bound on crashes of the process

ASSUME ConversionAssumption ==
    /\ SSTables \subseteq Nat /\ IsFiniteSet(SSTables)
    /\ IsFiniteSet(ConversionWorkers)
    /\ {BatchMin, BatchMax, Records} \subseteq Nat \ {0}
    /\ {MaxRetries, Crashes} \subseteq Nat

VARIABLES
    sstable,     \* sstable[f]: "none", "live" or "archived"
    records,     \* sequence of [sstables, parquet, status, retry_count]
    tasks,       \* queue of [id, record]
    scheduler,   \* [pc, batches, clones]
    worker,      \* worker[w]: [pc, id, record]
    tmp, parquet,   \* by name: the SSTables in the file; parquet {} if absent
    clock,       \* seconds, those in which no task is made left out
    crashes

scheduleVars == <<scheduler, clock>>
fileVars == <<sstable, tmp, parquet>>
convVars == <<records, tasks, scheduleVars, worker, fileVars, crashes>>

Names == 1..(Records + 1)
Absent == {-1}
IdleWorker == [pc |-> "idle"]
Scanning == [pc |-> "scan", batches |-> <<>>, clones |-> {}]
Ids == DOMAIN records
Status(s) == {i \in Ids : records[i].status = s}

ConvInit ==
    /\ sstable = [f \in SSTables |-> "none"]
    /\ records = <<>> /\ tasks = <<>>
    /\ scheduler = Scanning
    /\ worker = [w \in ConversionWorkers |-> IdleWorker]
    /\ tmp = [n \in Names |-> Absent]
    /\ parquet = [n \in Names |-> {}]
    /\ clock = 1 /\ crashes = 0

\* A file the scan takes has come into the directory, old enough to be
\* converted.
NewSSTable(f) ==
    /\ sstable[f] = "none"
    /\ sstable' = [sstable EXCEPT ![f] = "live"]
    /\ UNCHANGED <<records, tasks, scheduleVars, worker, tmp, parquet, crashes>>
------------------------------------------------------------------------------
(* ConversionScheduler::run. *)

\* The live files by name, cut into batches; nothing below the minimum.
Batches(live) ==
    LET Rank(f) == Cardinality({g \in live : g <= f})
        count == (Cardinality(live) + BatchMax - 1) \div BatchMax
    IN  IF Cardinality(live) < BatchMin THEN <<>>
        ELSE [b \in 1..count |-> {f \in live : (Rank(f) - 1) \div BatchMax = b - 1}]

ScanSSTables ==
    /\ scheduler.pc = "scan"
    /\ scheduler' = [scheduler EXCEPT !.pc = "create",
         !.batches = Batches({f \in SSTables : sstable[f] = "live"})]
    /\ UNCHANGED <<records, tasks, clock, worker, fileVars, crashes>>

\* Mutant of ParquetName: the name has the day only.
ParquetNameOfDay == 1
ParquetName == clock

\* create_conversion_task: only a pending record of the same files stops it.
CreateConversionTask ==
    LET files == Head(scheduler.batches)
        record == [sstables |-> files, parquet |-> ParquetName, status |-> "Pending",
                   retry_count |-> 0]
    IN  /\ scheduler.pc = "create" /\ scheduler.batches # <<>>
        /\ scheduler' = [scheduler EXCEPT !.batches = Tail(@)]
        /\ IF Len(records) = Records \/ \E i \in Status("Pending") : records[i].sstables = files
           THEN UNCHANGED <<records, tasks>>
           ELSE /\ records' = Append(records, record)
                /\ tasks' = Append(tasks, [id |-> Len(records) + 1, record |-> record])
        /\ UNCHANGED <<clock, worker, fileVars, crashes>>

CanRetry(record) == record.status = "Failed" /\ record.retry_count < MaxRetries

\* schedule_retries, under the lock: copies of the records whose delay is over.
CollectRetries ==
    /\ scheduler.pc = "create" /\ scheduler.batches = <<>>
    /\ \E due \in SUBSET {i \in Ids : CanRetry(records[i])} :
         scheduler' = [scheduler EXCEPT !.pc = "retry",
           !.clones = {[id |-> i, record |-> [records[i] EXCEPT !.status = "Pending"]] : i \in due}]
    /\ UNCHANGED <<records, tasks, clock, worker, fileVars, crashes>>

UpdateRecord(id, record) == records' = [records EXCEPT ![id] = record]

Reschedule ==
    /\ scheduler.pc = "retry"
    /\ \E task \in scheduler.clones :
         /\ UpdateRecord(task.id, task.record)
         /\ tasks' = Append(tasks, task)
         /\ scheduler' = [scheduler EXCEPT !.clones = @ \ {task}]
    /\ UNCHANGED <<clock, worker, fileVars, crashes>>

NextSecond == clock' = IF \E i \in Ids : records[i].parquet = clock THEN clock + 1 ELSE clock

MarkFailed(record) ==
    [record EXCEPT !.status = "Failed", !.retry_count = @ + 1]

\* Records whose worker died with the process; by the assumption on the hour
\* no others are zombies.
\* Mutant of ZombieIds: only those of retried tasks.
ZombieIdsOfRetries ==
    {i \in Status("Converting") : records[i].retry_count > 0
        /\ \A w \in ConversionWorkers : worker[w] = IdleWorker \/ worker[w].id # i}
ZombieIds ==
    {i \in Status("Converting") :
        \A w \in ConversionWorkers : worker[w] = IdleWorker \/ worker[w].id # i}

\* recover_zombie_tasks, under the lock: copies of the records older than the
\* timeout.
CollectZombies(old) ==
    /\ scheduler.pc = "retry" /\ scheduler.clones = {}
    /\ scheduler' = [scheduler EXCEPT !.pc = "zombies",
         !.clones = {[id |-> i, record |-> MarkFailed(records[i])] : i \in old}]
    /\ UNCHANGED <<records, tasks, clock, worker, fileVars, crashes>>

FailZombie ==
    /\ scheduler.pc = "zombies"
    /\ \E task \in scheduler.clones :
         /\ UpdateRecord(task.id, task.record)
         /\ scheduler' = [scheduler EXCEPT !.clones = @ \ {task}]
    /\ UNCHANGED <<tasks, clock, worker, fileVars, crashes>>

\* cleanup_temp_files, and the sleep until the next pass.
CleanupTempFiles ==
    /\ scheduler.pc = "zombies" /\ scheduler.clones = {}
    /\ tmp' = [n \in Names |->
                 IF \E i \in Status("Failed") : records[i].parquet = n THEN Absent ELSE tmp[n]]
    /\ scheduler' = Scanning
    /\ NextSecond
    /\ UNCHANGED <<records, tasks, worker, sstable, parquet, crashes>>
------------------------------------------------------------------------------
(* ConversionWorker::process_task. *)

At(w, pc) == worker[w] # IdleWorker /\ worker[w].pc = pc
Goto(w, pc) == worker' = [worker EXCEPT ![w].pc = pc]

\* The task's copy of the record becomes the record.
MarkConverting(w) ==
    LET task == Head(tasks)
        record == [task.record EXCEPT !.status = "Converting"]
    IN  /\ worker[w] = IdleWorker /\ tasks # <<>>
        /\ tasks' = Tail(tasks)
        /\ UpdateRecord(task.id, record)
        /\ worker' = [worker EXCEPT ![w] = [pc |-> "read", id |-> task.id, record |-> record]]
        /\ UNCHANGED <<scheduleVars, fileVars, crashes>>

\* read_all_sstables fails when a file is gone, and may fail anyway.
ReadAllSSTables(w) ==
    /\ At(w, "read")
    /\ \/ /\ \A f \in worker[w].record.sstables : sstable[f] = "live"
          /\ Goto(w, "write")
       \/ Goto(w, "failed")
    /\ UNCHANGED <<records, tasks, scheduleVars, fileVars, crashes>>

WriteParquet(w) ==
    /\ At(w, "write")
    /\ tmp' = [tmp EXCEPT ![worker[w].record.parquet] = worker[w].record.sstables]
    /\ Goto(w, "rename")
    /\ UNCHANGED <<records, tasks, scheduleVars, sstable, parquet, crashes>>

\* The rename replaces a file of that name.
RenameTemp(w) ==
    LET n == worker[w].record.parquet IN
    /\ At(w, "rename")
    /\ IF tmp[n] = Absent
       THEN Goto(w, "failed") /\ UNCHANGED <<tmp, parquet>>
       ELSE /\ parquet' = [parquet EXCEPT ![n] = tmp[n]]
            /\ tmp' = [tmp EXCEPT ![n] = Absent]
            /\ Goto(w, "renamed")
    /\ UNCHANGED <<records, tasks, scheduleVars, sstable, crashes>>

MarkSuccess(w) ==
    /\ At(w, "renamed")
    /\ UpdateRecord(worker[w].id, [worker[w].record EXCEPT !.status = "Success"])
    /\ Goto(w, "archive")
    /\ UNCHANGED <<tasks, scheduleVars, fileVars, crashes>>

\* archive_source_files, one file at a time; a file that is gone is skipped.
ArchiveSource(w) ==
    LET left == {f \in worker[w].record.sstables : sstable[f] = "live"} IN
    /\ At(w, "archive")
    /\ \/ \E f \in left :
            /\ \A g \in left : f <= g
            /\ sstable' = [sstable EXCEPT ![f] = "archived"]
            /\ UNCHANGED worker
       \/ /\ left = {}
          /\ worker' = [worker EXCEPT ![w] = IdleWorker]
          /\ UNCHANGED sstable
    /\ UNCHANGED <<records, tasks, scheduleVars, tmp, parquet, crashes>>

\* The failure is recorded and the temporary file removed under one lock.
FailTask(w) ==
    /\ At(w, "failed")
    /\ UpdateRecord(worker[w].id, MarkFailed(worker[w].record))
    /\ tmp' = [tmp EXCEPT ![worker[w].record.parquet] = Absent]
    /\ worker' = [worker EXCEPT ![w] = IdleWorker]
    /\ UNCHANGED <<tasks, scheduleVars, sstable, parquet, crashes>>

\* The process dies: files and records stay, queue and threads do not.
CrashConversion ==
    /\ crashes < Crashes
    /\ crashes' = crashes + 1
    /\ tasks' = <<>>
    /\ scheduler' = Scanning
    /\ worker' = [w \in ConversionWorkers |-> IdleWorker]
    /\ NextSecond
    /\ UNCHANGED <<records, fileVars>>

ScheduleStep ==
    \/ ScanSSTables \/ CreateConversionTask \/ CollectRetries \/ Reschedule
    \/ \E old \in SUBSET ZombieIds : CollectZombies(old)
    \/ FailZombie \/ CleanupTempFiles
WorkerStep(w) ==
    \/ MarkConverting(w) \/ ReadAllSSTables(w) \/ WriteParquet(w) \/ RenameTemp(w)
    \/ MarkSuccess(w) \/ ArchiveSource(w) \/ FailTask(w)

ConvNext ==
    \/ \E f \in SSTables : NewSSTable(f)
    \/ ScheduleStep
    \/ \E w \in ConversionWorkers : WorkerStep(w)
    \/ CrashConversion

\* The threads run on, and the hour after which a record is a zombie passes.
CollectAllZombies == ZombieIds # {} /\ CollectZombies(ZombieIds)
ConvFairness ==
    /\ WF_convVars(ScheduleStep)
    /\ SF_convVars(CollectAllZombies)
    /\ \A w \in ConversionWorkers : WF_convVars(WorkerStep(w))

ConvSpec == ConvInit /\ [][ConvNext]_convVars /\ ConvFairness
------------------------------------------------------------------------------
(* Properties. *)

ConvTypeOK ==
    /\ \A i \in Ids :
         /\ records[i].status \in {"Pending", "Converting", "Success", "Failed"}
         /\ records[i].sstables # {} /\ records[i].sstables \subseteq SSTables
         /\ records[i].retry_count \in 0..(MaxRetries + 1)
    /\ \A i \in DOMAIN tasks : tasks[i].id \in Ids

\* A source file is out of the way only when a Parquet file has its records,
\* whatever failed, was made twice, or was cut short by a crash.
SourceProtected ==
    \A f \in SSTables : sstable[f] = "archived" =>
        \E n \in Names : f \in parquet[n]

\* No record stays Converting for ever, though its worker may have died with
\* the process.
ConvertingEnds ==
    \A i \in 1..Records :
        (i \in Status("Converting")) ~> (i \notin Status("Converting"))
=============================================================================
