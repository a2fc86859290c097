------------------------- MODULE HybridStorageProofs -------------------------
(***************************************************************************)
(* What HybridStorage keeps, for any number of writers and records, sizes  *)
(* of batches, files and MemTables, and bounds on crashes, faults,         *)
(* checkpoints and compactions.                                            *)
(*                                                                         *)
(* The inductive invariant says where a record is: in the hands of one     *)
(* writer, in the buffer, or in one WAL file.  From that follow that the   *)
(* storage implements the durable log, that sequence numbers are unique    *)
(* and that what was acknowledged can be read.  One lemma per part of the  *)
(* invariant, in it one step per action that can disturb the part.         *)
(*                                                                         *)
(* At the end: what becomes of ticks on their way there (TickFlush).       *)
(***************************************************************************)
EXTENDS HybridStorage, TickFlush, TLAPS, FiniteSetTheorems, SequenceTheorems

(* The inductive invariant. *)

\* The steps before a call has written its entries, and those after.
Unwritten == {"drawn", "rotate", "append"}
Stored == {"insert", "flush", "flushing"}

\* An entry of any file, the buffer, or a writer's call.
InFile(e) == \E s \in Sequences : e \in wal_files[s].entries
InHand(e) == \E w \in Writers : e \in pending[w]
Somewhere(e) == InFile(e) \/ e \in unflushed \/ InHand(e)

\* A file that does not exist has no entries.
AbsentEmpty == \A s \in Sequences : wal_files[s].state = "absent" => wal_files[s].entries = {}

\* Records are numbered as they are drawn.
RecsDrawn == \A e \in Entries : Somewhere(e) => e.rec <= written

\* A record is in one file, in the buffer, or in the hands of one writer who has
\* not written it yet.
OnePlace ==
    \A e, f \in Entries : e.rec = f.rec =>
        /\ \A s, t \in Sequences :
             e \in wal_files[s].entries /\ f \in wal_files[t].entries => s = t
        /\ e \in unflushed => ~InFile(f)
        /\ \A w \in Writers : e \in pending[w] =>
             /\ pc[w] \in Unwritten => ~InFile(f) /\ f \notin unflushed
             /\ \A v \in Writers : f \in pending[v] => v = w

\* What a call has written is in the log, or was cut off it, and so is what was
\* acknowledged.
StoredKept ==
    /\ \A w \in Writers : pc[w] \in Stored => Recs(pending[w]) \subseteq InWal \cup cut
    /\ acked \subseteq InWal \cup cut

\* Without a process there are no calls and no buffer.
DownIdle == ~up => unflushed = {} /\ pending = [w \in Writers |-> {}]

\* Sequence numbers are drawn in order, and continue those on the disk.
SeqsDrawn ==
    cut = {} =>
        /\ \A e, f \in Entries : Somewhere(e) /\ Somewhere(f) /\ e.seq = f.seq => e = f
        /\ up => \A e \in Entries : Somewhere(e) => e.seq < current_sequence

\* Every flush is of a call of its own, with a record of its own.
InCall == {w \in Writers : pc[w] \in {"drawn", "rotate", "append", "insert", "flush"}}
FlushesCounted == sstable_counter + Cardinality(InCall) <= written

CompactionsCounted == compactions \in Nat /\ (compacting # {} => compactions > 0)

\* The flush under way has a number, and its file holds the MemTable.
FlushNumbered == flusher # NoWriter => sstable_counter \in 1..sstable_counter
FlushHeld ==
    compactions = 0 /\ flusher # NoWriter => sst_files[sstable_counter].recs = memtable

\* What the process has in the MemTable and has flushed itself, whether the flush
\* returned or failed once its file was whole: all that was acknowledged, and what calls are about to be acknowledged for.
Held == memtable \cup UNION {sst_files[n].recs :
                               n \in (sstables \cup orphans) \cap 1..sstable_counter}
HeldKept ==
    up /\ cut = {} /\ compactions = 0 =>
        /\ acked \subseteq Held
        /\ \A w \in Writers : pc[w] \in {"flush", "flushing"} => Recs(pending[w]) \subseteq Held

IInv ==
    /\ TypeOK /\ FlushesCounted
    /\ AbsentEmpty /\ RecsDrawn /\ OnePlace /\ StoredKept /\ DownIdle
    /\ SeqsDrawn
    /\ FlushedRegistered /\ CompactionsCounted /\ FlushNumbered
    /\ FlushHeld /\ HeldKept
------------------------------------------------------------------------------
(* Sets of numbers, and sizes. *)

\* A set of numbers has a smallest one.
LEMMA Smallest ==
    ASSUME NEW T, T \subseteq Nat, T # {}
    PROVE  \E x \in T : \A y \in T : x <= y
<1> DEFINE Below == {0..x : x \in T}
<1>1. Below \subseteq FiniteSubsetsOf(Nat)
  <2>1. \A x \in T : IsFiniteSet(0..x)
    BY FS_Interval
  <2>2. \A x \in T : 0..x \in SUBSET Nat
    OBVIOUS
  <2> QED
    BY <2>1, <2>2, Zenon DEF FiniteSubsetsOf
<1>2. PICK A \in Below : \A B \in Below : <<B, A>> \notin StrictSubsetOrdering(Nat)
  <2> HIDE DEF Below
  <2>1. Below # {}
    BY DEF Below
  <2> QED
    BY <1>1, <2>1, FS_StrictSubsetOrderingWellFounded, WFMin, Zenon
<1>3. PICK x \in T : A = 0..x
  BY <1>2
<1>4. ASSUME NEW y \in T, y < x PROVE FALSE
  <2>1. 0..y \in Below /\ 0..y \subseteq 0..x /\ 0..y # 0..x
    BY <1>3, <1>4
  <2>2. <<0..y, 0..x>> \in StrictSubsetOrdering(Nat)
    BY <2>1 DEF StrictSubsetOrdering
  <2> QED
    BY <2>1, <2>2, <1>2, <1>3
<1> QED
  BY <1>3, <1>4

\* A bounded set of numbers has a largest one.
LEMMA LargestIsBound ==
    ASSUME NEW k \in Nat, NEW S, S \subseteq 0..k, S # {}
    PROVE  Largest(S) \in S /\ \A m \in S : m <= Largest(S)
<1> DEFINE Bounds == {n \in Nat : \A m \in S : m <= n}
<1>1. k \in Bounds
  OBVIOUS
<1>2. PICK n \in Bounds : \A y \in Bounds : n <= y
  BY <1>1, Smallest
<1>3. n \in S
  <2> SUFFICES ASSUME n \notin S PROVE FALSE
    OBVIOUS
  <2>1. PICK m \in S : TRUE
    OBVIOUS
  <2>2. n - 1 \in Bounds
    BY <1>2, <2>1
  <2> QED
    BY <2>2, <1>2
<1> QED
  BY <1>2, <1>3 DEF Largest

\* The bounds are numbers.
LEMMA Constants ==
    /\ MaxWrites \in Nat \ {0} /\ MaxBatch \in Nat \ {0} /\ MaxFileSize \in Nat \ {0}
    /\ MemTableSize \in Nat \ {0} /\ Level0Files \in Nat \ {0}
    /\ MaxCrashes \in Nat /\ MaxFaults \in Nat /\ MaxCheckpoints \in Nat
    /\ MaxCompactions \in Nat
    /\ IsFiniteSet(Writers) /\ NoWriter \notin Writers
BY StorageAssumption DEF StorageAssumption

LEMMA EntriesFinite == IsFiniteSet(Entries)
<1>1. IsFiniteSet(Sequences) /\ IsFiniteSet(Records)
  BY FS_Interval, Constants DEF Sequences, Records
<1>2. IsFiniteSet(Sequences \X Records)
  BY <1>1, FS_Product
<1> DEFINE Made == [p \in Sequences \X Records |-> [seq |-> p[1], rec |-> p[2]]]
<1>3. Made \in Surjection(Sequences \X Records, Entries)
  <2>1. Made \in [Sequences \X Records -> Entries]
    BY DEF Entries
  <2>2. ASSUME NEW e \in Entries PROVE \E p \in Sequences \X Records : Made[p] = e
    <3>1. Made[<<e.seq, e.rec>>] = e
      BY DEF Entries
    <3> QED
      BY <3>1 DEF Entries
  <2> QED
    BY <2>1, <2>2 DEF Surjection
<1> QED
  BY <1>2, <1>3, FS_Surjection

LEMMA SizeOfEntries ==
    ASSUME NEW E, E \subseteq Entries
    PROVE  Cardinality(E) \in Nat
BY EntriesFinite, FS_Subset, FS_CardinalityType
------------------------------------------------------------------------------
(* Types, and the number of flushes. *)

\* Entries that become records of the disk are entries.
LEMMA RecsOfEntries ==
    ASSUME NEW E, E \subseteq Entries
    PROVE  Recs(E) \subseteq Records
BY DEF Recs, Entries

LEMMA FilesTyped ==
    ASSUME TypeOK
    PROVE  /\ OnDisk \subseteq Entries /\ InWal \subseteq Records
           /\ Existing \subseteq 0..(MaxWrites + 2)
<1>1. \A s \in Sequences : wal_files[s].entries \subseteq Entries
  BY DEF TypeOK, WalFile
<1>2. Existing \subseteq Sequences
  BY DEF Existing
<1>3. OnDisk \subseteq Entries
  BY <1>1, <1>2 DEF OnDisk
<1>4. InWal \subseteq Records
  BY <1>3 DEF InWal, Entries
<1> QED
  BY <1>2, <1>3, <1>4, Constants DEF Sequences

\* The sequence that open_existing continues with is new, and not too large.
LEMMA NextSequenceFresh ==
    ASSUME TypeOK
    PROVE  /\ NextSequence(Existing) \in 2..(MaxWrites + 3)
           /\ \A e \in OnDisk : e.seq < NextSequence(Existing)
<1> DEFINE Seqs == {1} \cup {e.seq : e \in UNION {wal_files[s].entries : s \in Existing}}
<1>1. Seqs \subseteq 0..(MaxWrites + 2) /\ 1 \in Seqs
  <2>1. \A e \in OnDisk : e.seq \in 1..(MaxWrites + 2)
    BY FilesTyped DEF Entries, Sequences
  <2> QED
    BY <2>1, Constants DEF OnDisk
<1>2. Largest(Seqs) \in Seqs /\ \A m \in Seqs : m <= Largest(Seqs)
  <2> HIDE DEF Seqs
  <2>1. MaxWrites + 2 \in Nat /\ Seqs # {}
    BY <1>1, Constants
  <2> QED
    BY <1>1, <2>1, LargestIsBound
<1>3. NextSequence(Existing) = 1 + Largest(Seqs)
  BY DEF NextSequence
<1>4. \A e \in OnDisk : e.seq \in Seqs
  BY DEF OnDisk
<1> HIDE DEF Seqs
<1>5. Largest(Seqs) \in 1..(MaxWrites + 2)
  <2>1. Largest(Seqs) \in 0..(MaxWrites + 2)
    BY <1>1, <1>2
  <2>2. 1 <= Largest(Seqs)
    BY <1>1, <1>2
  <2> QED
    BY <2>1, <2>2, Constants
<1>6. ASSUME NEW e \in OnDisk PROVE e.seq < 1 + Largest(Seqs)
  <2>1. e.seq \in 0..(MaxWrites + 2) /\ e.seq <= Largest(Seqs)
    BY <1>1, <1>2, <1>4
  <2> QED
    BY <2>1, <1>5, Constants
<1> QED
  BY <1>3, <1>5, <1>6, Constants

LEMMA CurrentFileExists ==
    ASSUME TypeOK, Existing # {}
    PROVE  Largest(Existing) \in Existing
BY FilesTyped, LargestIsBound, Constants

LEMMA TypeInit == Init => TypeOK
<1> SUFFICES ASSUME Init PROVE TypeOK
  OBVIOUS
<1>1. /\ wal_files \in [Sequences -> WalFile] /\ sst_files \in [SstNames -> SstFile]
      /\ checkpoint \in [seq : Nat, files : SUBSET SstNames]
      /\ ckpt \in [step : {"idle", "save", "truncate"}, seq : Nat]
  BY Constants DEF Init, WalFile, SstFile, NoFile, NoSst, NoCheckpoint, IdleCkpt
<1>2. /\ current_sequence \in 1..(MaxWrites + 3) /\ current_file \in Sequences
      /\ sstable_counter \in SstNames /\ written \in 0..MaxWrites
  BY Constants DEF Init, Sequences, SstNames
<1>3. /\ pc \in [Writers -> {"idle", "drawn", "rotate", "append", "insert",
                            "flush", "flushing"}]
      /\ pending \in [Writers -> SUBSET Entries]
      /\ \A w \in Writers : pending[w] = {} <=> pc[w] = "idle"
      /\ \A w \in Writers : flusher = w <=> pc[w] = "flushing"
  BY Constants DEF Init
<1> QED
  BY <1>1, <1>2, <1>3 DEF Init, TypeOK

\* Added entries make a file of a file.
LEMMA AddedTyped ==
    ASSUME NEW file \in WalFile, NEW E \in SUBSET Entries
    PROVE  /\ Added(file, E) \in WalFile
           /\ Added(file, E).entries = file.entries \cup E
           /\ Added(file, E).state = "absent" <=> file.state = "absent"
BY DEF Added, WalFile

LEMMA WithHeaderTyped ==
    ASSUME NEW file \in WalFile, file.state = "absent" => file.entries = {}
    PROVE  /\ WithHeader(file) \in WalFile
           /\ WithHeader(file).entries = file.entries
           /\ WithHeader(file).state # "absent"
BY DEF WithHeader, WalFile, NoFile
------------------------------------------------------------------------------
(* What the steps do to the files of the WAL. *)

\* Entries E are added to the file that is being written, and nothing else.
AddsToFile(E) ==
    /\ wal_files' \in [Sequences -> WalFile]
    /\ AbsentEmpty'
    /\ \A s \in Sequences : wal_files'[s].entries =
         IF s = current_file THEN wal_files[s].entries \cup E ELSE wal_files[s].entries

\* A rotation writes what is in the buffer, unless the file is gone.
LEMMA RotateFiles ==
    ASSUME TypeOK, AbsentEmpty, NEW w \in Writers, RotateFile(w)
    PROVE  \/ AddsToFile(unflushed) /\ cut' = cut
           \/ AddsToFile({}) /\ cut' = cut \cup Recs(unflushed)
<1> DEFINE here == wal_files[current_file]
           old == IF here.state = "absent" THEN wal_files
                  ELSE [wal_files EXCEPT ![current_file] = Added(here, unflushed)]
<1> USE DEF TypeOK, AbsentEmpty
<1>1. current_file \in Sequences /\ current_sequence \in Sequences
      /\ wal_files \in [Sequences -> WalFile] /\ here \in WalFile
      /\ unflushed \in SUBSET Entries
  BY DEF RotateFile
<1>2. wal_files' = [old EXCEPT ![current_sequence] = WithHeader(old[current_sequence])]
  BY DEF RotateFile
<1>3. /\ old \in [Sequences -> WalFile]
      /\ \A s \in Sequences : old[s].state = "absent" => old[s].entries = {}
      /\ \A s \in Sequences : old[s].entries =
           IF s = current_file /\ here.state # "absent" THEN wal_files[s].entries \cup unflushed
           ELSE wal_files[s].entries
  <2>1. CASE here.state = "absent"
    BY <1>1, <2>1
  <2>2. CASE here.state # "absent"
    <3>1. Added(here, unflushed) \in WalFile
          /\ Added(here, unflushed).entries = here.entries \cup unflushed
          /\ Added(here, unflushed).state # "absent"
      BY <1>1, <2>2, AddedTyped
    <3>2. PICK new : new = Added(here, unflushed)
      OBVIOUS
    <3>3. old = [wal_files EXCEPT ![current_file] = new]
      BY <2>2, <3>2
    <3>4. /\ old \in [Sequences -> WalFile] /\ old[current_file] = new
          /\ \A s \in Sequences : s # current_file => old[s] = wal_files[s]
      BY ONLY <1>1, <3>1, <3>2, <3>3
    <3> QED
      BY <2>2, <3>1, <3>2, <3>4
  <2> QED
    BY <2>1, <2>2
<1> HIDE DEF old
<1>4. /\ wal_files' \in [Sequences -> WalFile]
      /\ \A s \in Sequences : wal_files'[s].entries = old[s].entries
      /\ \A s \in Sequences : wal_files'[s].state = "absent" => old[s].state = "absent"
  BY <1>1, <1>2, <1>3, WithHeaderTyped
<1>5. AbsentEmpty'
  BY <1>3, <1>4
<1>6. CASE here.state = "absent"
  BY <1>3, <1>4, <1>5, <1>6 DEF RotateFile, AddsToFile
<1>7. CASE here.state # "absent"
  BY <1>3, <1>4, <1>5, <1>7 DEF RotateFile, AddsToFile
<1> QED
  BY <1>6, <1>7

\* A failed rotation leaves a file without entries, or spoils one that is there.
LEMMA RotateFailsFiles ==
    ASSUME TypeOK, AbsentEmpty, NEW w \in Writers, RotateFails(w)
    PROVE  AddsToFile({})
<1> DEFINE new == wal_files[current_sequence]
<1>1. /\ current_sequence \in Sequences /\ wal_files \in [Sequences -> WalFile]
      /\ new \in WalFile /\ (new.state = "absent" => new.entries = {})
  BY DEF RotateFails, TypeOK, AbsentEmpty
<1>2. PICK file \in {new, WithHeader(new), [new EXCEPT !.state = "broken"]} :
        wal_files' = [wal_files EXCEPT ![current_sequence] = file]
  BY DEF RotateFails
<1>3. /\ file \in WalFile /\ file.entries = new.entries
      /\ file.state = "absent" => new.state = "absent"
  <2>1. CASE file = WithHeader(new)
    BY <1>1, <2>1, WithHeaderTyped
  <2>2. CASE file # WithHeader(new)
    BY <1>1, <1>2, <2>2 DEF WalFile
  <2> QED
    BY <2>1, <2>2
<1> QED
  BY <1>1, <1>2, <1>3 DEF AddsToFile, AbsentEmpty

\* An append writes what is in the buffer and the entries of the call.
LEMMA AppendFiles ==
    ASSUME TypeOK, AbsentEmpty, NEW w \in Writers, AppendEntries(w)
    PROVE  \/ AddsToFile(unflushed \cup pending[w]) /\ cut' = cut
           \/ AddsToFile({}) /\ cut' = cut \cup Recs(unflushed \cup pending[w])
<1> DEFINE here == wal_files[current_file]
           E == unflushed \cup pending[w]
<1>1. /\ wal_files \in [Sequences -> WalFile] /\ current_file \in Sequences
      /\ here \in WalFile /\ E \in SUBSET Entries
  BY DEF TypeOK
<1>2. CASE here.state = "absent"
  <2>1. wal_files' = wal_files /\ cut' = cut \cup Recs(E)
    BY <1>2 DEF AppendEntries
  <2> QED
    BY <1>1, <2>1 DEF AbsentEmpty, AddsToFile
<1>3. CASE here.state # "absent"
  <2>1. wal_files' = [wal_files EXCEPT ![current_file] = Added(here, E)] /\ cut' = cut
    BY <1>3 DEF AppendEntries
  <2>2. /\ Added(here, E) \in WalFile /\ Added(here, E).state # "absent"
        /\ Added(here, E).entries = here.entries \cup E
    BY <1>1, <1>3, AddedTyped
  <2> HIDE DEF E
  <2>3. AddsToFile(E)
    BY <1>1, <2>1, <2>2 DEF AbsentEmpty, AddsToFile
  <2> QED
    BY <2>1, <2>3 DEF E
<1> QED
  BY <1>2, <1>3

\* A crash leaves some of what a writer was appending.
LEMMA CrashFiles ==
    ASSUME TypeOK, AbsentEmpty, Crash
    PROVE  \/ AddsToFile({})
           \/ \E w \in Writers, E \in SUBSET Entries :
                AddsToFile(E) /\ pc[w] = "append" /\ E \subseteq unflushed \cup pending[w]
<1>0. wal_files \in [Sequences -> WalFile] /\ current_file \in Sequences
  BY DEF TypeOK
<1>1. ASSUME UNCHANGED wal_files PROVE AddsToFile({})
  BY <1>0, <1>1 DEF AddsToFile, AbsentEmpty
<1>2. ASSUME NEW w \in Writers, TornHeader(w) PROVE AddsToFile({})
  BY <1>0, <1>2 DEF TornHeader, AddsToFile, AbsentEmpty, WalFile
<1>3. ASSUME NEW w \in Writers, TornTail(w)
      PROVE  \E E \in SUBSET Entries :
                AddsToFile(E) /\ pc[w] = "append" /\ E \subseteq unflushed \cup pending[w]
  <2>0. PICK n \in Sequences \cup {0}, tail \in {"none", "stray", "broken"} :
          \E E \in {{e \in unflushed : e.seq =< n},
                   unflushed \cup {e \in pending[w] : e.seq =< n}} :
            wal_files' = [wal_files EXCEPT ![current_file] =
              [Added(wal_files[current_file], E) EXCEPT !.state =
                 IF tail = "none" THEN @ ELSE IF @ = "whole" THEN tail ELSE "broken"]]
    BY <1>3 DEF TornTail
  <2>1. PICK E \in {{e \in unflushed : e.seq =< n},
                   unflushed \cup {e \in pending[w] : e.seq =< n}} :
          wal_files' = [wal_files EXCEPT ![current_file] =
            [Added(wal_files[current_file], E) EXCEPT !.state =
               IF tail = "none" THEN @ ELSE IF @ = "whole" THEN tail ELSE "broken"]]
    BY <2>0
  <2>2. E \in SUBSET Entries /\ E \subseteq unflushed \cup pending[w]
        /\ wal_files[current_file].state # "absent" /\ pc[w] = "append"
    BY <1>3 DEF TypeOK, TornTail
  <2>3. Added(wal_files[current_file], E) \in WalFile
        /\ Added(wal_files[current_file], E).entries = wal_files[current_file].entries \cup E
        /\ Added(wal_files[current_file], E).state # "absent"
    BY <1>0, <2>2, AddedTyped
  <2>4. AddsToFile(E)
    BY <1>0, <2>1, <2>2, <2>3 DEF AddsToFile, AbsentEmpty, WalFile
  <2> QED
    BY <2>2, <2>4
<1> QED
  BY <1>1, <1>2, <1>3 DEF Crash

\* open creates the first file when there is none, and adds no entry.
LEMMA OpenFiles ==
    ASSUME TypeOK, AbsentEmpty, Open
    PROVE  AddsToFile({})
<1>1. wal_files \in [Sequences -> WalFile] /\ 1 \in Sequences
  BY Constants DEF TypeOK, Sequences
<1>2. CASE Existing = {}
  <2>1. \A s \in Sequences : wal_files[s].state = "absent" /\ wal_files[s].entries = {}
    BY <1>2 DEF Existing, AbsentEmpty
  <2>2. wal_files' = [wal_files EXCEPT ![1].state = "whole"]
    BY <1>2 DEF Open
  <2> QED
    BY <1>1, <2>1, <2>2 DEF AbsentEmpty, AddsToFile, WalFile
<1>3. CASE Existing # {}
  <2>1. wal_files' = wal_files
    BY <1>3 DEF Open
  <2> QED
    BY <1>1, <2>1 DEF AbsentEmpty, AddsToFile
<1> QED
  BY <1>2, <1>3

\* A truncation removes whole files.
LEMMA TruncateFiles ==
    ASSUME TypeOK, AbsentEmpty, CheckpointTruncate
    PROVE  /\ wal_files' \in [Sequences -> WalFile]
           /\ AbsentEmpty'
           /\ \E old \in SUBSET Sequences :
                /\ \A s \in Sequences : wal_files'[s].entries =
                     IF s \in old THEN {} ELSE wal_files[s].entries
                /\ cut' = cut \cup Recs(UNION {wal_files[s].entries : s \in old})
<1> DEFINE old == {s \in Existing : s < ckpt.seq}
<1>1. /\ wal_files' = [s \in Sequences |-> IF s \in old THEN NoFile ELSE wal_files[s]]
      /\ cut' = cut \cup Recs(UNION {wal_files[s].entries : s \in old})
  BY DEF CheckpointTruncate
<1>2. old \in SUBSET Sequences
  BY DEF Existing
<1> HIDE DEF old
<1> QED
  BY <1>1, <1>2 DEF TypeOK, AbsentEmpty, NoFile, WalFile

\* All but the number of flushes, which FlushesCounted bounds.
LEMMA TypeNext ==
    ASSUME TypeOK, AbsentEmpty, FlushesCounted, [Next]_vars
    PROVE  TypeOK'
<1> USE Constants DEF diskVars, walVars, memVars, compVars, ckptVars, writerVars, historyVars
<1>1. ASSUME NEW w \in Writers, DrawSequence(w) PROVE TypeOK'
  <2>1. [seq |-> current_sequence, rec |-> written + 1] \in Entries
    BY <1>1 DEF TypeOK, DrawSequence, Entries, Records
  <2>2. /\ current_sequence' \in 1..(MaxWrites + 3) /\ written' \in 0..MaxWrites
    BY <1>1 DEF TypeOK, DrawSequence, Sequences
  <2>3. /\ pending' \in [Writers -> SUBSET Entries]
        /\ pc' \in [Writers -> {"idle", "drawn", "rotate", "append", "insert",
                               "flush", "flushing"}]
        /\ \A v \in Writers : pending'[v] = {} <=> pc'[v] = "idle"
        /\ \A v \in Writers : flusher' = v <=> pc'[v] = "flushing"
    BY <1>1, <2>1 DEF TypeOK, DrawSequence, Goto
  <2> QED
    BY <1>1, <2>2, <2>3 DEF TypeOK, DrawSequence
<1>2. ASSUME NEW w \in Writers, CheckSize(w) PROVE TypeOK'
  BY <1>2 DEF TypeOK, CheckSize, Goto
<1>3. ASSUME NEW w \in Writers, RotateFile(w) PROVE TypeOK'
  <2>1. wal_files' \in [Sequences -> WalFile] /\ cut' \subseteq Records
    BY <1>3, RotateFiles, RecsOfEntries DEF TypeOK, AddsToFile
  <2> QED
    BY <1>3, <2>1 DEF TypeOK, RotateFile, Goto
<1>21. ASSUME NEW w \in Writers, RotateFails(w) PROVE TypeOK'
  <2>1. wal_files' \in [Sequences -> WalFile]
    BY <1>21, RotateFailsFiles DEF AddsToFile
  <2> QED
    BY <1>21, <2>1 DEF TypeOK, RotateFails, Return
<1>4. ASSUME NEW w \in Writers, AppendEntries(w) PROVE TypeOK'
  <2>1. wal_files' \in [Sequences -> WalFile] /\ cut' \subseteq Records
    <3>1. Recs(unflushed \cup pending[w]) \subseteq Records
      BY RecsOfEntries DEF TypeOK
    <3>2. /\ wal_files' \in [Sequences -> WalFile]
          /\ cut' = cut \/ cut' = cut \cup Recs(unflushed \cup pending[w])
      BY <1>4, AppendFiles DEF AddsToFile
    <3> QED
      BY <3>1, <3>2 DEF TypeOK
  <2>2. file_size' \in Nat
    BY <1>4, SizeOfEntries DEF TypeOK, AppendEntries
  <2> QED
    BY <1>4, <2>1, <2>2 DEF TypeOK, AppendEntries, Goto
<1>5. ASSUME NEW w \in Writers, AppendFails(w) PROVE TypeOK'
  <2>1. file_size' \in Nat
    BY <1>5, SizeOfEntries DEF TypeOK, AppendFails
  <2> QED
    BY <1>5, <2>1 DEF TypeOK, AppendFails, Return
<1>6. ASSUME NEW w \in Writers, InsertMem(w) PROVE TypeOK'
  BY <1>6, RecsOfEntries DEF TypeOK, InsertMem, Goto, Return
<1>7. ASSUME NEW w \in Writers, FlushNotNeeded(w) PROVE TypeOK'
  BY <1>7, RecsOfEntries DEF TypeOK, FlushNotNeeded, Return
<1>8. ASSUME NEW w \in Writers, FlushBegin(w) PROVE TypeOK'
  <2>1. Cardinality(InCall) \in Nat /\ Cardinality(InCall) # 0
    <3>1. IsFiniteSet(InCall) /\ w \in InCall
      BY <1>8, FS_Subset DEF InCall, FlushBegin
    <3> QED
      BY <3>1, FS_CardinalityType, FS_EmptySet
  <2>2. sstable_counter' \in SstNames
    BY <1>8, <2>1 DEF TypeOK, FlushesCounted, FlushBegin, SstNames
  <2>3. sst_files' \in [SstNames -> SstFile]
    BY <1>8, <2>2 DEF TypeOK, FlushBegin, SstFile
  <2> QED
    BY <1>8, <2>2, <2>3 DEF TypeOK, FlushBegin, Goto
<1>9. ASSUME NEW w \in Writers, FlushEnd(w) PROVE TypeOK'
  BY <1>9, RecsOfEntries DEF TypeOK, FlushEnd, Return, SstFile
<1>10. ASSUME NEW w \in Writers, FlushFails(w) PROVE TypeOK'
  BY <1>10 DEF TypeOK, FlushFails, Return, SstFile
<1>11. CASE CompactBegin
  BY <1>11 DEF TypeOK, CompactBegin, SstFile, SstNames
<1>12. CASE CompactEnd
  <2>1. 0 \in SstNames /\ NoSst \in SstFile
    BY DEF SstNames, SstFile, NoSst
  <2>2. sst_files' \in [SstNames -> SstFile]
    BY <1>12, <2>1 DEF TypeOK, CompactEnd, SstFile
  <2> QED
    BY <1>12, <2>1, <2>2 DEF TypeOK, CompactEnd
<1>13. CASE CheckpointBegin
  BY <1>13 DEF TypeOK, CheckpointBegin
<1>14. CASE CheckpointSave
  BY <1>14 DEF TypeOK, CheckpointSave
<1>15. CASE CheckpointTruncate
  <2>1. PICK old \in SUBSET Sequences :
          cut' = cut \cup Recs(UNION {wal_files[s].entries : s \in old})
    BY <1>15, TruncateFiles
  <2>2. \A s \in old : wal_files[s].entries \subseteq Entries
    BY DEF TypeOK, WalFile
  <2>3. cut' \subseteq Records
    BY <2>1, <2>2, RecsOfEntries DEF TypeOK
  <2> QED
    BY <1>15, <2>3, TruncateFiles DEF TypeOK, CheckpointTruncate, IdleCkpt
<1>16. CASE Crash
  <2>1. wal_files' \in [Sequences -> WalFile]
    BY <1>16, CrashFiles DEF AddsToFile
  <2>2. /\ current_sequence' \in 1..(MaxWrites + 3) /\ current_file' \in Sequences
        /\ sstable_counter' \in SstNames /\ file_size' \in Nat
        /\ ckpt' \in [step : {"idle", "save", "truncate"}, seq : Nat]
    BY <1>16 DEF Crash, IdleCkpt, Sequences, SstNames
  <2>3. /\ pending' \in [Writers -> SUBSET Entries]
        /\ pc' \in [Writers -> {"idle", "drawn", "rotate", "append", "insert",
                               "flush", "flushing"}]
        /\ \A v \in Writers : pending'[v] = {} <=> pc'[v] = "idle"
        /\ \A v \in Writers : flusher' = v <=> pc'[v] = "flushing"
    BY <1>16 DEF Crash
  <2>4. /\ up' = FALSE /\ unflushed' = {} /\ memtable' = {} /\ flusher' = NoWriter
        /\ orphans' = {}
        /\ sstables' = {} /\ level0' = {} /\ level1' = {} /\ compacting' = {}
        /\ UNCHANGED <<sst_files, checkpoint, written, acked, cut>>
    BY <1>16 DEF Crash
  <2> QED
    BY <2>1, <2>2, <2>3, <2>4 DEF TypeOK
<1>17. CASE Open
  <2>1. wal_files' \in [Sequences -> WalFile]
    BY <1>17, OpenFiles DEF AddsToFile
  <2>2. /\ current_sequence' \in 1..(MaxWrites + 3) /\ current_file' \in Sequences
        /\ file_size' \in Nat
    <3>1. CASE Existing = {}
      BY <1>17, <3>1 DEF Open, Sequences
    <3>2. CASE Existing # {}
      <4>1. Largest(Existing) \in Sequences
        BY <3>2, CurrentFileExists DEF Existing
      <4>2. Cardinality(wal_files[Largest(Existing)].entries) \in Nat
        BY <4>1, SizeOfEntries DEF TypeOK, WalFile
      <4> QED
        BY <1>17, <3>2, <4>1, <4>2, NextSequenceFresh DEF Open
    <3> QED
      BY <3>1, <3>2
  <2> QED
    BY <1>17, <2>1, <2>2, FilesTyped DEF TypeOK, Open
<1>18. CASE Recover
  BY <1>18 DEF TypeOK, Recover
<1>19. CASE RecoverFromCheckpoint
  BY <1>19 DEF TypeOK, RecoverFromCheckpoint
<1>20. CASE UNCHANGED vars
  BY <1>20 DEF TypeOK, vars
<1> QED
  BY <1>1, <1>2, <1>3, <1>4, <1>5, <1>6, <1>7, <1>8, <1>9, <1>10, <1>11, <1>12, <1>13,
     <1>14, <1>15, <1>16, <1>17, <1>18, <1>19, <1>20, <1>21 DEF Next, Write

\* A flush takes its writer out of InCall, a draw puts one in.
LEMMA FlushesCountedNext ==
    ASSUME TypeOK, FlushesCounted, [Next]_vars
    PROVE  FlushesCounted'
<1> USE Constants DEF diskVars, walVars, memVars, compVars, ckptVars, writerVars, historyVars
<1>1. /\ IsFiniteSet(InCall) /\ Cardinality(InCall) \in Nat
      /\ sstable_counter \in Nat /\ written \in Nat
  BY FS_Subset, FS_CardinalityType DEF InCall, TypeOK, SstNames
<1>2. ASSUME InCall' \subseteq InCall, sstable_counter' = sstable_counter, written' = written
      PROVE  FlushesCounted'
  <2>1. Cardinality(InCall') \in Nat /\ Cardinality(InCall') <= Cardinality(InCall)
    BY <1>1, <1>2, FS_Subset, FS_CardinalityType
  <2> QED
    BY <1>1, <1>2, <2>1 DEF FlushesCounted
<1>3. ASSUME NEW w \in Writers, DrawSequence(w) PROVE FlushesCounted'
  <2>1. InCall' \subseteq InCall \cup {w} /\ sstable_counter' = sstable_counter
        /\ written' = written + 1
    BY <1>3 DEF DrawSequence, Goto, TypeOK, InCall
  <2>2. IsFiniteSet(InCall \cup {w}) /\ Cardinality(InCall \cup {w}) <= Cardinality(InCall) + 1
    <3>1. /\ IsFiniteSet(InCall \cup {w})
          /\ Cardinality(InCall \cup {w})
               = IF w \in InCall THEN Cardinality(InCall) ELSE Cardinality(InCall) + 1
      BY ONLY <1>1, FS_AddElement
    <3> QED
      BY ONLY <1>1, <3>1
  <2>3. /\ Cardinality(InCall') \in Nat /\ Cardinality(InCall \cup {w}) \in Nat
        /\ Cardinality(InCall') <= Cardinality(InCall \cup {w})
    BY ONLY <2>1, <2>2, FS_Subset, FS_CardinalityType
  <2> QED
    BY <1>1, <2>1, <2>2, <2>3 DEF FlushesCounted
<1>4. ASSUME NEW w \in Writers, FlushBegin(w) PROVE FlushesCounted'
  <2>1. /\ w \in InCall /\ InCall' \subseteq InCall \ {w}
        /\ sstable_counter' = sstable_counter + 1 /\ written' = written
    BY <1>4 DEF FlushBegin, Goto, TypeOK, InCall
  <2>2. IsFiniteSet(InCall \ {w}) /\ Cardinality(InCall \ {w}) = Cardinality(InCall) - 1
    BY <1>1, <2>1, FS_RemoveElement
  <2>3. Cardinality(InCall') \in Nat /\ Cardinality(InCall') <= Cardinality(InCall \ {w})
    BY <2>1, <2>2, FS_Subset, FS_CardinalityType
  <2> QED
    BY <1>1, <2>1, <2>2, <2>3 DEF FlushesCounted
<1>5. CASE Crash
  <2>1. InCall' = {} /\ sstable_counter' = 0 /\ written' = written
    BY <1>5 DEF Crash, InCall
  <2> QED
    BY <1>1, <2>1, FS_EmptySet DEF FlushesCounted
<1>6. ASSUME NEW w \in Writers,
             \/ CheckSize(w) \/ RotateFile(w) \/ RotateFails(w) \/ AppendEntries(w)
             \/ AppendFails(w) \/ InsertMem(w) \/ FlushNotNeeded(w) \/ FlushEnd(w)
             \/ FlushFails(w)
      PROVE  FlushesCounted'
  <2>1. InCall' \subseteq InCall
    BY <1>6 DEF CheckSize, RotateFile, RotateFails, AppendEntries, AppendFails, InsertMem,
         FlushNotNeeded, FlushEnd, FlushFails, Goto, Return, TypeOK, InCall
  <2>2. sstable_counter' = sstable_counter /\ written' = written
    BY <1>6 DEF CheckSize, RotateFile, RotateFails, AppendEntries, AppendFails, InsertMem,
         FlushNotNeeded, FlushEnd, FlushFails
  <2> QED
    BY <1>2, <2>1, <2>2
<1>7. ASSUME \/ CompactBegin \/ CompactEnd
             \/ CheckpointBegin \/ CheckpointSave \/ CheckpointTruncate
             \/ Open \/ Recover \/ RecoverFromCheckpoint \/ UNCHANGED vars
      PROVE  FlushesCounted'
  <2>1. pc' = pc /\ sstable_counter' = sstable_counter /\ written' = written
    BY <1>7 DEF CompactBegin, CompactEnd, CheckpointBegin, CheckpointSave,
         CheckpointTruncate, Open, Recover, RecoverFromCheckpoint, vars
  <2>2. InCall' \subseteq InCall
    BY <2>1 DEF InCall
  <2> QED
    BY <1>2, <2>1, <2>2
<1> QED
  BY <1>3, <1>4, <1>5, <1>6, <1>7 DEF Next, Write
------------------------------------------------------------------------------
(* Where the records are. *)

\* The records of files, absent ones without entries included.
LEMMA RecsOfFiles ==
    ASSUME NEW files, files \in [Sequences -> WalFile],
           \A s \in Sequences : files[s].state = "absent" => files[s].entries = {}
    PROVE  Recs(UNION {files[s].entries : s \in {t \in Sequences : files[t].state # "absent"}})
             = UNION {Recs(files[s].entries) : s \in Sequences}
BY DEF Recs

LEMMA WalRecs ==
    ASSUME TypeOK, AbsentEmpty
    PROVE  InWal = UNION {Recs(wal_files[s].entries) : s \in Sequences}
BY RecsOfFiles DEF TypeOK, AbsentEmpty, InWal, OnDisk, Existing, Recs

LEMMA AddedToWal ==
    ASSUME TypeOK, AbsentEmpty, NEW E \in SUBSET Entries, AddsToFile(E)
    PROVE  /\ InWal' = InWal \cup Recs(E)
           /\ \A e \in Entries : InFile(e)' <=> InFile(e) \/ e \in E
<1>1. current_file \in Sequences
  BY DEF TypeOK
<1>2. InWal' = UNION {Recs(wal_files'[s].entries) : s \in Sequences}
  BY RecsOfFiles DEF AddsToFile, AbsentEmpty, InWal, OnDisk, Existing, Recs
<1>3. \A s \in Sequences : Recs(wal_files'[s].entries) =
        IF s = current_file THEN Recs(wal_files[s].entries) \cup Recs(E)
        ELSE Recs(wal_files[s].entries)
  BY DEF AddsToFile, Recs
<1>4. InWal' = InWal \cup Recs(E)
  <2>1. PICK f : f = [s \in Sequences |-> Recs(wal_files[s].entries)]
    OBVIOUS
  <2>2. PICK g : g = [s \in Sequences |-> Recs(wal_files'[s].entries)]
    OBVIOUS
  <2>3. \A r : r \in InWal <=> \E s \in Sequences : r \in f[s]
    <3>1. InWal = UNION {f[s] : s \in Sequences}
      BY <2>1, WalRecs
    <3> QED
      BY ONLY <3>1
  <2>4. \A r : r \in InWal' <=> \E s \in Sequences : r \in g[s]
    <3>1. InWal' = UNION {g[s] : s \in Sequences}
      BY ONLY <1>2, <2>2
    <3> QED
      BY ONLY <3>1
  <2>5. \A s \in Sequences : g[s] = IF s = current_file THEN f[s] \cup Recs(E) ELSE f[s]
    BY ONLY <1>3, <2>1, <2>2
  <2>6. \A r : \A s \in Sequences :
          r \in g[s] <=> r \in f[s] \/ (s = current_file /\ r \in Recs(E))
    BY ONLY <2>5
  <2>7. \A r : r \in InWal' <=> r \in InWal \/ r \in Recs(E)
    BY ONLY <1>1, <2>3, <2>4, <2>6
  <2> QED
    BY ONLY <2>7
<1>5. \A e \in Entries : InFile(e)' <=> InFile(e) \/ e \in E
  BY <1>1 DEF AddsToFile, InFile
<1> QED
  BY <1>4, <1>5

\* The log does not change: calls go on, return, or acknowledge what they wrote.
Quiet ==
    /\ AddsToFile({})
    /\ UNCHANGED <<unflushed, written, cut, current_sequence, up>>
    /\ \A w \in Writers :
         /\ pending'[w] \subseteq pending[w]
         /\ pc'[w] \in Unwritten => pc[w] \in Unwritten
         /\ pc'[w] \in Stored => pc[w] \in Stored
    /\ \/ acked' = acked
       \/ \E w \in Writers : pc[w] \in Stored /\ acked' = acked \cup Recs(pending[w])

LEMMA QuietSteps ==
    ASSUME TypeOK, AbsentEmpty,
           \/ \E w \in Writers :
                \/ CheckSize(w) \/ RotateFails(w) \/ InsertMem(w) \/ FlushNotNeeded(w)
                \/ FlushBegin(w) \/ FlushEnd(w) \/ FlushFails(w)
           \/ CompactBegin \/ CompactEnd \/ CheckpointBegin \/ CheckpointSave
           \/ Recover \/ RecoverFromCheckpoint \/ UNCHANGED vars
    PROVE  Quiet
<1> USE DEF diskVars, walVars, memVars, compVars, ckptVars, writerVars, historyVars
<1>3. ASSUME UNCHANGED wal_files PROVE AddsToFile({})
  BY <1>3 DEF AddsToFile, AbsentEmpty, TypeOK
<1>1. ASSUME NEW w \in Writers,
             \/ CheckSize(w) \/ InsertMem(w) \/ FlushNotNeeded(w) \/ FlushBegin(w)
             \/ FlushEnd(w) \/ FlushFails(w)
      PROVE  Quiet
  <2>1. UNCHANGED <<wal_files, unflushed, written, cut, current_sequence, up>>
    BY <1>1 DEF CheckSize, InsertMem, FlushNotNeeded, FlushBegin, FlushEnd, FlushFails
  <2>2. ASSUME NEW v \in Writers
        PROVE  /\ pending'[v] \subseteq pending[v]
               /\ pc'[v] \in Unwritten => pc[v] \in Unwritten
               /\ pc'[v] \in Stored => pc[v] \in Stored
    BY <1>1 DEF CheckSize, InsertMem, FlushNotNeeded, FlushBegin, FlushEnd, FlushFails,
         Goto, Return, TypeOK, Unwritten, Stored
  <2>3. \/ acked' = acked
        \/ pc[w] \in Stored /\ acked' = acked \cup Recs(pending[w])
    BY <1>1 DEF CheckSize, InsertMem, FlushNotNeeded, FlushBegin, FlushEnd, FlushFails,
         Stored
  <2> QED
    BY <1>3, <2>1, <2>2, <2>3 DEF Quiet
<1>2. ASSUME \/ CompactBegin \/ CompactEnd \/ CheckpointBegin \/ CheckpointSave
             \/ Recover \/ RecoverFromCheckpoint \/ UNCHANGED vars
      PROVE  Quiet
  BY <1>2, <1>3 DEF Quiet, CompactBegin, CompactEnd, CheckpointBegin, CheckpointSave,
       Recover, RecoverFromCheckpoint, vars
<1>4. ASSUME NEW w \in Writers, RotateFails(w) PROVE Quiet
  <2>1. /\ UNCHANGED <<unflushed, written, cut, current_sequence, up, acked>>
        /\ \A v \in Writers : pending'[v] = IF v = w THEN {} ELSE pending[v]
        /\ \A v \in Writers : pc'[v] = IF v = w THEN "idle" ELSE pc[v]
    BY <1>4 DEF RotateFails, Return, TypeOK
  <2> QED
    BY <1>4, <2>1, RotateFailsFiles DEF Quiet, Unwritten, Stored
<1> QED
  BY <1>1, <1>2, <1>4

\* What the invariant says of the places of records.
Placed == AbsentEmpty /\ RecsDrawn /\ OnePlace /\ StoredKept /\ DownIdle /\ SeqsDrawn

LEMMA QuietWal ==
    ASSUME TypeOK, AbsentEmpty, Quiet
    PROVE  InWal' = InWal
<1>1. InWal' = InWal \cup Recs({})
  BY AddedToWal DEF Quiet
<1> QED
  BY <1>1 DEF Recs

LEMMA QuietPlaced ==
    ASSUME TypeOK, TypeOK', Placed, Quiet
    PROVE  Placed'
<1>1. AbsentEmpty'
  BY DEF Quiet, AddsToFile
<1>0. \A s \in Sequences : wal_files'[s].entries = wal_files[s].entries
  BY DEF Quiet, AddsToFile
<1>2. \A e : InFile(e)' <=> InFile(e)
  BY <1>0 DEF InFile
<1>3. \A e : InHand(e)' => InHand(e)
  BY DEF Quiet, InHand
<1>4. \A e : Somewhere(e)' => Somewhere(e)
  BY <1>2, <1>3 DEF Quiet, Somewhere
<1>5. RecsDrawn'
  BY <1>4 DEF Placed, Quiet, RecsDrawn
<1>6. OnePlace'
  <2>1. ASSUME NEW e \in Entries, NEW f \in Entries, e.rec = f.rec
        PROVE  /\ \A s, t \in Sequences :
                    e \in wal_files'[s].entries /\ f \in wal_files'[t].entries => s = t
               /\ e \in unflushed' => ~InFile(f)'
    BY <1>0, <1>2, <2>1 DEF Placed, OnePlace, Quiet
  <2>2. ASSUME NEW e \in Entries, NEW f \in Entries, e.rec = f.rec,
               NEW w \in Writers, e \in pending'[w]
        PROVE  /\ pc'[w] \in Unwritten => ~InFile(f)' /\ f \notin unflushed'
               /\ \A v \in Writers : f \in pending'[v] => v = w
    BY <1>2, <2>2 DEF Placed, OnePlace, Quiet
  <2> QED
    BY <2>1, <2>2 DEF OnePlace
<1>7. StoredKept'
  <2>1. InWal' = InWal
    BY QuietWal DEF Placed
  <2>2. \A w \in Writers : Recs(pending[w])' \subseteq Recs(pending[w])
    BY DEF Quiet, Recs
  <2>3. \A w \in Writers : pc'[w] \in Stored => Recs(pending[w])' \subseteq InWal \cup cut
    BY <2>2 DEF Placed, Quiet, StoredKept
  <2>4. acked' \subseteq InWal \cup cut
    BY DEF Placed, Quiet, StoredKept
  <2> QED
    BY <2>1, <2>3, <2>4 DEF Quiet, StoredKept
<1>8. DownIdle'
  BY DEF Placed, Quiet, DownIdle, TypeOK
<1>9. SeqsDrawn'
  BY <1>4 DEF Placed, Quiet, SeqsDrawn
<1> QED
  BY <1>1, <1>5, <1>6, <1>7, <1>8, <1>9 DEF Placed

\* A drawn entry is new: its record and, while nothing was cut, its sequence.
LEMMA DrawPlaced ==
    ASSUME TypeOK, TypeOK', Placed, NEW w \in Writers, DrawSequence(w)
    PROVE  Placed'
<1> DEFINE new == [seq |-> current_sequence, rec |-> written + 1]
<1>1. /\ UNCHANGED <<wal_files, unflushed, cut, acked, up>>
      /\ up /\ written' = written + 1 /\ current_sequence' = current_sequence + 1
      /\ pc[w] \in {"idle", "drawn"} /\ pc' = [pc EXCEPT ![w] = "drawn"]
      /\ pending' = [pending EXCEPT ![w] = @ \cup {new}]
      /\ new.seq = current_sequence /\ new.rec = written + 1 /\ new \in Entries
  BY DEF DrawSequence, Goto, diskVars, TypeOK, Entries, Records
<1> HIDE DEF new
<1>2. /\ \A v \in Writers : pending'[v] = IF v = w THEN pending[w] \cup {new} ELSE pending[v]
      /\ \A v \in Writers : pc'[v] = IF v = w THEN "drawn" ELSE pc[v]
      /\ pc[w] = "idle" => pending[w] = {}
  BY <1>1 DEF TypeOK
<1>3. /\ \A e : InFile(e)' <=> InFile(e)
      /\ \A e : InHand(e)' <=> InHand(e) \/ e = new
      /\ \A e : Somewhere(e)' <=> Somewhere(e) \/ e = new
  BY <1>1, <1>2 DEF InFile, InHand, Somewhere
<1>4. \A e \in Entries : Somewhere(e) => e.rec # new.rec
  BY <1>1 DEF Placed, RecsDrawn, TypeOK, Entries, Records
<1>5. AbsentEmpty' /\ DownIdle'
  BY <1>1 DEF Placed, AbsentEmpty, DownIdle
<1>6. RecsDrawn'
  BY <1>1, <1>3 DEF Placed, RecsDrawn, TypeOK, Entries, Records
<1>7. OnePlace'
  <2>1. ASSUME NEW e \in Entries, NEW f \in Entries, e.rec = f.rec
        PROVE  /\ \A s, t \in Sequences :
                    e \in wal_files'[s].entries /\ f \in wal_files'[t].entries => s = t
               /\ e \in unflushed' => ~InFile(f)'
    BY <1>1, <1>3, <2>1 DEF Placed, OnePlace
  <2>2. ASSUME NEW e \in Entries, NEW f \in Entries, e.rec = f.rec,
               NEW v \in Writers, e \in pending'[v]
        PROVE  /\ pc'[v] \in Unwritten => ~InFile(f)' /\ f \notin unflushed'
               /\ \A u \in Writers : f \in pending'[u] => u = v
    <3>1. CASE e = new \/ f = new
      <4>1. e.rec = new.rec /\ f.rec = new.rec
        BY <2>2, <3>1
      <4>2. ~Somewhere(e) /\ ~Somewhere(f)
        BY <1>4, <4>1
      <4> QED
        BY <1>1, <1>2, <1>3, <2>2, <4>2 DEF Somewhere, InHand
    <3>2. CASE e # new /\ f # new
      <4>1. e \in pending[v] /\ (pc'[v] \in Unwritten => pc[v] \in Unwritten)
        BY <1>1, <1>2, <2>2, <3>2 DEF Unwritten
      <4> QED
        BY <1>1, <1>2, <1>3, <2>2, <3>2, <4>1 DEF Placed, OnePlace
    <3> QED
      BY <3>1, <3>2
  <2> QED
    BY <2>1, <2>2 DEF OnePlace
<1>8. StoredKept'
  <2>1. InWal' = InWal
    BY <1>1 DEF InWal, OnDisk, Existing
  <2>2. ASSUME NEW v \in Writers, pc'[v] \in Stored
        PROVE  Recs(pending[v])' \subseteq InWal \cup cut
    BY <1>2, <2>2 DEF Placed, StoredKept, Stored, Recs
  <2> QED
    BY <1>1, <2>1, <2>2 DEF Placed, StoredKept
<1>9. SeqsDrawn'
  <2> SUFFICES ASSUME cut = {} PROVE SeqsDrawn'
    BY <1>1 DEF SeqsDrawn
  <2>1. /\ \A e, f \in Entries : Somewhere(e) /\ Somewhere(f) /\ e.seq = f.seq => e = f
        /\ \A e \in Entries : Somewhere(e) => e.seq < current_sequence
    BY <1>1 DEF Placed, SeqsDrawn
  <2>2. current_sequence \in Int /\ \A e \in Entries : e.seq \in Int
    BY DEF TypeOK, Entries, Sequences
  <2>3. \A e \in Entries : Somewhere(e) => e.seq # new.seq
    BY ONLY <1>1, <2>1, <2>2
  <2>4. \A e, f \in Entries : Somewhere(e)' /\ Somewhere(f)' /\ e.seq = f.seq => e = f
    BY ONLY <1>3, <2>1, <2>3
  <2>5. \A e \in Entries : Somewhere(e)' => e.seq < current_sequence'
    BY ONLY <1>1, <1>3, <2>1, <2>2
  <2> QED
    BY ONLY <2>4, <2>5 DEF SeqsDrawn
<1> QED
  BY <1>5, <1>6, <1>7, <1>8, <1>9 DEF Placed

\* Entries that were in the buffer, or in the hands of a writer that now has
\* written them, go to the file that is written.
LEMMA AddPlaced ==
    ASSUME TypeOK, TypeOK', Placed, NEW E \in SUBSET Entries, AddsToFile(E),
           cut \subseteq cut', UNCHANGED <<written, acked, current_sequence, up>>,
           unflushed' = {}, pending' = pending,
           \A w \in Writers : pc'[w] \in Unwritten => pc[w] \in Unwritten,
           \A w \in Writers : pc'[w] \in Stored =>
              pc[w] \in Stored \/ Recs(pending[w]) \subseteq Recs(E) \cup cut',
           \A e \in E : e \in unflushed \/
              \E w \in Writers : e \in pending[w] /\ pc[w] \in Unwritten
                                 /\ pc'[w] \notin Unwritten
    PROVE  Placed'
<1>1. /\ InWal' = InWal \cup Recs(E)
      /\ \A e \in Entries : InFile(e)' <=> InFile(e) \/ e \in E
      /\ \A e : InHand(e)' <=> InHand(e)
  BY AddedToWal DEF Placed, InHand
<1>2. \A e \in Entries : Somewhere(e)' => Somewhere(e)
  BY <1>1 DEF Somewhere, InHand
<1>3. AbsentEmpty' /\ DownIdle'
  BY DEF Placed, AddsToFile, DownIdle
<1>4. RecsDrawn'
  BY <1>2 DEF Placed, RecsDrawn
<1>5. OnePlace'
  <2>1. ASSUME NEW e \in Entries, NEW f \in Entries, e.rec = f.rec, e \in E
        PROVE  ~InFile(f)
    BY <2>1 DEF Placed, OnePlace
  <2>2. ASSUME NEW e \in Entries, NEW f \in Entries, e.rec = f.rec,
               NEW s \in Sequences, NEW t \in Sequences,
               e \in wal_files'[s].entries, f \in wal_files'[t].entries
        PROVE  s = t
    <3>1. /\ e \in wal_files[s].entries \/ (e \in E /\ s = current_file)
          /\ f \in wal_files[t].entries \/ (f \in E /\ t = current_file)
      BY <2>2 DEF AddsToFile
    <3> QED
      BY <2>1, <2>2, <3>1 DEF Placed, OnePlace, InFile
  <2>3. ASSUME NEW e \in Entries, NEW f \in Entries, e.rec = f.rec,
               NEW w \in Writers, e \in pending'[w]
        PROVE  /\ pc'[w] \in Unwritten => ~InFile(f)' /\ f \notin unflushed'
               /\ \A v \in Writers : f \in pending'[v] => v = w
    <3>1. \A v \in Writers : f \in pending'[v] => v = w
      BY <2>3 DEF Placed, OnePlace
    <3>2. ASSUME pc'[w] \in Unwritten PROVE ~InFile(f)'
      <4>1. pc[w] \in Unwritten /\ ~InFile(f) /\ f \notin unflushed
        BY <2>3, <3>2 DEF Placed, OnePlace
      <4>2. f \notin E
        BY <2>3, <3>1, <3>2, <4>1
      <4> QED
        BY <1>1, <4>1, <4>2
    <3> QED
      BY <3>1, <3>2
  <2> QED
    BY <2>2, <2>3 DEF OnePlace
<1>6. StoredKept'
  BY <1>1 DEF Placed, StoredKept, Recs
<1>7. SeqsDrawn'
  BY <1>2 DEF Placed, SeqsDrawn
<1> QED
  BY <1>3, <1>4, <1>5, <1>6, <1>7 DEF Placed

LEMMA RotatePlaced ==
    ASSUME TypeOK, TypeOK', Placed, NEW w \in Writers, RotateFile(w)
    PROVE  Placed'
<1>1. /\ UNCHANGED <<written, acked, current_sequence, up>>
      /\ unflushed' = {} /\ pending' = pending /\ unflushed \in SUBSET Entries
      /\ pc[w] = "rotate" /\ \A v \in Writers : pc'[v] = IF v = w THEN "append" ELSE pc[v]
  BY DEF RotateFile, Goto, TypeOK
<1>2. \A v \in Writers : /\ pc'[v] \in Unwritten => pc[v] \in Unwritten
                         /\ pc'[v] \in Stored => pc[v] \in Stored
  BY <1>1 DEF Unwritten, Stored
<1>3. CASE AddsToFile(unflushed) /\ cut' = cut
  BY <1>1, <1>2, <1>3, AddPlaced
<1>4. CASE AddsToFile({}) /\ cut' = cut \cup Recs(unflushed)
  BY <1>1, <1>2, <1>4, AddPlaced
<1> QED
  BY <1>3, <1>4, RotateFiles DEF Placed

LEMMA AppendPlaced ==
    ASSUME TypeOK, TypeOK', Placed, NEW w \in Writers, AppendEntries(w)
    PROVE  Placed'
<1> DEFINE E == unflushed \cup pending[w]
<1>1. /\ UNCHANGED <<written, acked, current_sequence, up>>
      /\ unflushed' = {} /\ pending' = pending /\ E \in SUBSET Entries
      /\ pc[w] = "append" /\ \A v \in Writers : pc'[v] = IF v = w THEN "insert" ELSE pc[v]
  BY DEF AppendEntries, Goto, TypeOK
<1>2. \A v \in Writers : /\ pc'[v] \in Unwritten => pc[v] \in Unwritten
                         /\ pc'[v] \in Stored => pc[v] \in Stored \/ v = w
  BY <1>1 DEF Unwritten, Stored
<1>3. Recs(pending[w]) \subseteq Recs(E) /\ pc[w] \in Unwritten /\ pc'[w] \notin Unwritten
  BY <1>1 DEF Recs, Unwritten
<1>4. \A e \in E : e \in unflushed \/ e \in pending[w]
  OBVIOUS
<1> HIDE DEF E
<1>5. CASE AddsToFile(E) /\ cut' = cut
  BY <1>1, <1>2, <1>3, <1>4, <1>5, AddPlaced
<1>6. CASE AddsToFile({}) /\ cut' = cut \cup Recs(E)
  BY <1>1, <1>2, <1>3, <1>6, AddPlaced
<1> QED
  BY <1>5, <1>6, AppendFiles DEF Placed, E

\* The entries of a call that failed stay in the buffer.
LEMMA AppendFailsPlaced ==
    ASSUME TypeOK, TypeOK', Placed, NEW w \in Writers, AppendFails(w)
    PROVE  Placed'
<1>1. /\ UNCHANGED <<wal_files, written, acked, cut, current_sequence, up>>
      /\ unflushed' = unflushed \cup pending[w]
      /\ \A v \in Writers : pending'[v] = IF v = w THEN {} ELSE pending[v]
      /\ \A v \in Writers : pc'[v] = IF v = w THEN "idle" ELSE pc[v]
      /\ pc[w] \in Unwritten
  BY DEF AppendFails, Return, TypeOK, diskVars, historyVars, Unwritten
<1>2. /\ InWal' = InWal
      /\ \A e : InFile(e)' <=> InFile(e)
      /\ \A e : Somewhere(e)' => Somewhere(e)
  BY <1>1 DEF InWal, OnDisk, Existing, InFile, InHand, Somewhere
<1>3. AbsentEmpty' /\ RecsDrawn' /\ SeqsDrawn'
  BY <1>1, <1>2 DEF Placed, AbsentEmpty, RecsDrawn, SeqsDrawn
<1>4. DownIdle'
  <2>1. up
    BY <1>1 DEF Placed, DownIdle, TypeOK, Unwritten
  <2> QED
    BY <1>1, <2>1 DEF DownIdle
<1>5. OnePlace'
  <2>1. ASSUME NEW e \in Entries, NEW f \in Entries, e.rec = f.rec
        PROVE  /\ \A s, t \in Sequences :
                    e \in wal_files'[s].entries /\ f \in wal_files'[t].entries => s = t
               /\ e \in unflushed' => ~InFile(f)'
    BY <1>1, <1>2, <2>1 DEF Placed, OnePlace
  <2>2. ASSUME NEW e \in Entries, NEW f \in Entries, e.rec = f.rec,
               NEW v \in Writers, e \in pending'[v]
        PROVE  /\ pc'[v] \in Unwritten => ~InFile(f)' /\ f \notin unflushed'
               /\ \A u \in Writers : f \in pending'[u] => u = v
    <3>1. v # w /\ e \in pending[v]
      BY <1>1, <2>2
    <3>2. f \notin pending[w]
      BY <2>2, <3>1 DEF Placed, OnePlace
    <3> QED
      BY <1>1, <1>2, <2>2, <3>1, <3>2 DEF Placed, OnePlace
  <2> QED
    BY <2>1, <2>2 DEF OnePlace
<1>6. StoredKept'
  <2>1. \A v \in Writers : pc'[v] \in Stored => pc[v] \in Stored /\ pending'[v] = pending[v]
    BY <1>1 DEF Stored
  <2> QED
    BY <1>1, <1>2, <2>1 DEF Placed, StoredKept, Recs
<1> QED
  BY <1>3, <1>4, <1>5, <1>6 DEF Placed

\* What a truncation takes out of the log was cut off it.
LEMMA TruncatePlaced ==
    ASSUME TypeOK, TypeOK', Placed, CheckpointTruncate
    PROVE  Placed' /\ \E S \in SUBSET InWal : InWal' = InWal \ S /\ cut' = cut \cup S
<1>1. PICK old \in SUBSET Sequences :
        /\ \A s \in Sequences : wal_files'[s].entries =
             IF s \in old THEN {} ELSE wal_files[s].entries
        /\ cut' = cut \cup Recs(UNION {wal_files[s].entries : s \in old})
  BY TruncateFiles DEF Placed
<1>2. wal_files' \in [Sequences -> WalFile] /\ AbsentEmpty'
  BY TruncateFiles DEF Placed
<1>3. UNCHANGED <<unflushed, pending, pc, written, acked, current_sequence, up>>
  BY DEF CheckpointTruncate, walVars, writerVars
<1> DEFINE S == Recs(UNION {wal_files[s].entries : s \in old})
<1>4. S = UNION {Recs(wal_files[s].entries) : s \in old}
  BY DEF Recs
<1>5. InWal' = UNION {Recs(wal_files'[s].entries) : s \in Sequences}
  BY <1>2, RecsOfFiles DEF AbsentEmpty, InWal, OnDisk, Existing, Recs
<1>6. \A s \in Sequences :
        Recs(wal_files'[s].entries) = IF s \in old THEN {} ELSE Recs(wal_files[s].entries)
  BY <1>1 DEF Recs
<1>7. InWal = UNION {Recs(wal_files[s].entries) : s \in Sequences}
  BY WalRecs DEF Placed
<1>8. ASSUME NEW s \in Sequences, NEW t \in Sequences, s # t
      PROVE  Recs(wal_files[s].entries) \cap Recs(wal_files[t].entries) = {}
  <2>1. wal_files[s].entries \subseteq Entries /\ wal_files[t].entries \subseteq Entries
    BY DEF TypeOK, WalFile
  <2> QED
    BY <1>8, <2>1 DEF Placed, OnePlace, Recs
<1> HIDE DEF S
<1>9. S \subseteq InWal /\ InWal' = InWal \ S
  BY <1>4, <1>5, <1>6, <1>7, <1>8, SMTT(60)
<1>10. cut' = cut \cup S
  BY <1>1 DEF S
<1>11. /\ \A e : InFile(e)' => InFile(e)
       /\ \A e : Somewhere(e)' => Somewhere(e)
  BY <1>1, <1>3 DEF InFile, InHand, Somewhere
<1>12. RecsDrawn' /\ DownIdle'
  BY <1>3, <1>11 DEF Placed, RecsDrawn, DownIdle
<1>13. OnePlace'
  <2>1. ASSUME NEW e \in Entries, NEW f \in Entries, e.rec = f.rec
        PROVE  /\ \A s, t \in Sequences :
                    e \in wal_files'[s].entries /\ f \in wal_files'[t].entries => s = t
               /\ e \in unflushed' => ~InFile(f)'
    BY <1>1, <1>3, <1>11, <2>1 DEF Placed, OnePlace
  <2>2. ASSUME NEW e \in Entries, NEW f \in Entries, e.rec = f.rec,
               NEW w \in Writers, e \in pending'[w]
        PROVE  /\ pc'[w] \in Unwritten => ~InFile(f)' /\ f \notin unflushed'
               /\ \A v \in Writers : f \in pending'[v] => v = w
    BY <1>3, <1>11, <2>2 DEF Placed, OnePlace
  <2> QED
    BY <2>1, <2>2 DEF OnePlace
<1>14. StoredKept'
  BY <1>3, <1>9, <1>10 DEF Placed, StoredKept, Recs
<1>15. SeqsDrawn'
  <2>1. cut' = {} => cut = {}
    BY <1>10
  <2> QED
    BY <1>3, <1>11, <2>1 DEF Placed, SeqsDrawn
<1> QED
  BY <1>2, <1>9, <1>10, <1>12, <1>13, <1>14, <1>15 DEF Placed

LEMMA CrashPlaced ==
    ASSUME TypeOK, TypeOK', Placed, Crash
    PROVE  Placed' /\ InWal \subseteq InWal'
<1>1. /\ UNCHANGED <<written, acked, cut>> /\ up' = FALSE /\ unflushed' = {}
      /\ \A w \in Writers : pc'[w] = "idle" /\ pending'[w] = {}
      /\ pending' = [w \in Writers |-> {}]
  BY DEF Crash, historyVars
<1>2. PICK E \in SUBSET Entries :
        /\ AddsToFile(E)
        /\ E = {} \/ \E w \in Writers : pc[w] = "append" /\ E \subseteq unflushed \cup pending[w]
  BY CrashFiles DEF Placed
<1>3. /\ InWal' = InWal \cup Recs(E)
      /\ \A e \in Entries : InFile(e)' <=> InFile(e) \/ e \in E
  BY <1>2, AddedToWal DEF Placed
<1>4. \A e \in E : e \in unflushed \/ \E w \in Writers : pc[w] \in Unwritten /\ e \in pending[w]
  BY <1>2 DEF Unwritten
<1>5. \A e \in Entries : Somewhere(e)' => Somewhere(e)
  BY <1>1, <1>3, <1>4 DEF Somewhere, InHand
<1>6. AbsentEmpty' /\ DownIdle'
  BY <1>1, <1>2 DEF AddsToFile, DownIdle
<1>7. RecsDrawn'
  BY <1>1, <1>5 DEF Placed, RecsDrawn
<1>8. OnePlace'
  <2>1. ASSUME NEW e \in Entries, NEW f \in Entries, e.rec = f.rec, e \in E
        PROVE  ~InFile(f)
    BY <1>4, <2>1 DEF Placed, OnePlace
  <2>2. ASSUME NEW e \in Entries, NEW f \in Entries, e.rec = f.rec,
               NEW s \in Sequences, NEW t \in Sequences,
               e \in wal_files'[s].entries, f \in wal_files'[t].entries
        PROVE  s = t
    <3>1. /\ e \in wal_files[s].entries \/ (e \in E /\ s = current_file)
          /\ f \in wal_files[t].entries \/ (f \in E /\ t = current_file)
      BY <1>2, <2>2 DEF AddsToFile
    <3> QED
      BY <2>1, <2>2, <3>1 DEF Placed, OnePlace, InFile
  <2> QED
    BY <1>1, <2>2 DEF OnePlace
<1>9. StoredKept'
  BY <1>1, <1>3 DEF Placed, StoredKept, Stored
<1>10. SeqsDrawn'
  BY <1>1, <1>5 DEF Placed, SeqsDrawn
<1> QED
  BY <1>3, <1>6, <1>7, <1>8, <1>9, <1>10 DEF Placed

\* The sequence that the log is continued with is new.
LEMMA OpenPlaced ==
    ASSUME TypeOK, TypeOK', Placed, Open
    PROVE  Placed' /\ InWal' = InWal
<1>1. /\ UNCHANGED <<written, acked, cut, unflushed, pc, pending>>
      /\ unflushed = {} /\ \A w \in Writers : pending[w] = {} /\ pc[w] = "idle"
  BY DEF Open, historyVars, writerVars, Placed, DownIdle, TypeOK
<1>2. AddsToFile({})
  BY OpenFiles DEF Placed
<1>3. /\ InWal' = InWal
      /\ \A e \in Entries : InFile(e)' <=> InFile(e)
  BY <1>2, AddedToWal DEF Placed, Recs
<1>4. \A e \in Entries : /\ Somewhere(e)' => Somewhere(e)
                         /\ Somewhere(e) => InFile(e)
  BY <1>1, <1>3 DEF Somewhere, InHand
<1>5. AbsentEmpty' /\ DownIdle'
  BY <1>1, <1>2 DEF AddsToFile, DownIdle, TypeOK
<1>6. RecsDrawn'
  BY <1>1, <1>4 DEF Placed, RecsDrawn
<1>7. OnePlace'
  <2>1. \A s \in Sequences : wal_files'[s].entries = wal_files[s].entries
    BY <1>2 DEF AddsToFile
  <2> QED
    BY <1>1, <1>3, <2>1 DEF Placed, OnePlace
<1>8. StoredKept'
  BY <1>1, <1>3 DEF Placed, StoredKept, Stored
<1>9. ASSUME NEW e \in Entries, InFile(e) PROVE e.seq < current_sequence'
  <2>1. Existing # {} /\ e \in OnDisk
    BY <1>9 DEF InFile, OnDisk, Existing, Placed, AbsentEmpty
  <2>2. current_sequence' = NextSequence(Existing)
    BY <2>1 DEF Open
  <2> QED
    BY <2>1, <2>2, NextSequenceFresh
<1>10. SeqsDrawn'
  BY <1>1, <1>4, <1>9 DEF Placed, SeqsDrawn
<1> QED
  BY <1>3, <1>5, <1>6, <1>7, <1>8, <1>10 DEF Placed

LEMMA PlacedNext ==
    ASSUME TypeOK, TypeOK', Placed, [Next]_vars
    PROVE  Placed'
<1>1. ASSUME NEW w \in Writers, DrawSequence(w) PROVE Placed'
  BY <1>1, DrawPlaced
<1>2. ASSUME NEW w \in Writers, RotateFile(w) PROVE Placed'
  BY <1>2, RotatePlaced
<1>3. ASSUME NEW w \in Writers, AppendEntries(w) PROVE Placed'
  BY <1>3, AppendPlaced
<1>4. ASSUME NEW w \in Writers, AppendFails(w) PROVE Placed'
  BY <1>4, AppendFailsPlaced
<1>5. ASSUME Quiet PROVE Placed'
  BY <1>5, QuietPlaced
<1>6. AbsentEmpty
  BY DEF Placed
<1> QED
  BY <1>1, <1>2, <1>3, <1>4, <1>5, <1>6, QuietSteps, TruncatePlaced, CrashPlaced, OpenPlaced
     DEF Next, Write

LEMMA PlacedInit == ASSUME TypeOK, Init PROVE Placed
<1>1. \A s \in Sequences : wal_files[s].entries = {}
  BY DEF Init, NoFile
<1>2. \A e : ~Somewhere(e)
  BY <1>1 DEF Init, Somewhere, InFile, InHand
<1> QED
  BY <1>1, <1>2 DEF Init, Placed, AbsentEmpty, RecsDrawn, OnePlace, InFile, StoredKept, Stored,
     DownIdle, SeqsDrawn
------------------------------------------------------------------------------
(* SSTables: registered for compaction, and holding what was acknowledged. *)

\* Steps that neither write SSTables nor register them.
LEMMA TablesUntouched ==
    ASSUME \/ \E w \in Writers :
                \/ DrawSequence(w) \/ CheckSize(w) \/ RotateFile(w) \/ RotateFails(w)
                \/ AppendEntries(w) \/ AppendFails(w) \/ InsertMem(w) \/ FlushNotNeeded(w)
           \/ CheckpointBegin \/ CheckpointSave \/ CheckpointTruncate \/ Open
           \/ UNCHANGED vars
    PROVE  UNCHANGED <<sst_files, sstables, sstable_counter, orphans, level0, level1,
                       compacting, compactions>>
BY DEF DrawSequence, CheckSize, RotateFile, RotateFails, AppendEntries, AppendFails,
   InsertMem, FlushNotNeeded, CheckpointBegin, CheckpointSave, CheckpointTruncate, Open,
   vars, diskVars, memVars, compVars

LEMMA RegisteredNext ==
    ASSUME TypeOK, TypeOK', FlushedRegistered, [Next]_vars
    PROVE  FlushedRegistered'
<1>1. ASSUME UNCHANGED <<sst_files, sstable_counter, orphans, level0, level1>>
      PROVE  FlushedRegistered'
  BY <1>1 DEF FlushedRegistered
<1>2. ASSUME NEW w \in Writers, FlushBegin(w) PROVE FlushedRegistered'
  <2>1. /\ sstable_counter' = sstable_counter + 1 /\ level0' = level0 /\ level1' = level1
        /\ orphans' = orphans
        /\ sst_files' = [sst_files EXCEPT ![sstable_counter + 1] =
                           [state |-> "partial", recs |-> memtable]]
    BY <1>2 DEF FlushBegin, compVars
  <2>2. ASSUME NEW n \in 1..sstable_counter', sst_files'[n].state = "whole"
        PROVE  n \in level0 \cup level1 \cup orphans
    <3>1. sstable_counter \in Nat /\ (n = sstable_counter + 1 \/ n \in 1..sstable_counter)
      BY <2>1, <2>2, Constants DEF TypeOK, SstNames
    <3>2. sstable_counter' \in SstNames
      BY DEF TypeOK
    <3>3. n \in 1..sstable_counter /\ sst_files[n].state = "whole"
      BY <2>1, <2>2, <3>1, <3>2, Constants, SMTT(60) DEF TypeOK, SstNames
    <3> QED
      BY <3>3 DEF FlushedRegistered
  <2> QED
    BY <2>1, <2>2 DEF FlushedRegistered
<1>3. ASSUME NEW w \in Writers, FlushEnd(w) PROVE FlushedRegistered'
  BY <1>3 DEF FlushEnd, FlushedRegistered, TypeOK
<1>4. CASE CompactBegin
  <2>1. /\ UNCHANGED <<sstable_counter, orphans, level0, level1>>
        /\ \E f : sst_files' = [sst_files EXCEPT ![0] = f]
    BY <1>4 DEF CompactBegin, memVars
  <2>2. \A n \in 1..sstable_counter : sst_files'[n] = sst_files[n]
    BY <2>1, Constants DEF TypeOK, SstNames
  <2> QED
    BY <2>1, <2>2 DEF FlushedRegistered
<1>5. CASE CompactEnd
  <2>1. /\ UNCHANGED <<sstable_counter, orphans>>
        /\ level0' = level0 \ compacting /\ level1' = level1 \cup {0}
        /\ sst_files' = [n \in SstNames |->
                           IF n \in compacting THEN NoSst
                           ELSE IF n = 0 THEN [sst_files[0] EXCEPT !.state = "whole"]
                           ELSE sst_files[n]]
    BY <1>5 DEF CompactEnd, memVars
  <2>2. ASSUME NEW n \in 1..sstable_counter, sst_files'[n].state = "whole"
        PROVE  n \notin compacting /\ sst_files[n].state = "whole"
    <3>1. n \in SstNames /\ n # 0
      BY Constants DEF TypeOK, SstNames
    <3> QED
      BY <2>1, <2>2, <3>1 DEF NoSst
  <2> QED
    BY <2>1, <2>2 DEF FlushedRegistered
<1>6. CASE Crash
  BY <1>6 DEF Crash, FlushedRegistered
<1>7. CASE Recover \/ RecoverFromCheckpoint
  BY <1>7 DEF Recover, RecoverFromCheckpoint, FlushedRegistered
<1>8. ASSUME NEW w \in Writers, FlushFails(w) PROVE FlushedRegistered'
  <2>1. UNCHANGED <<sstable_counter, level0, level1>>
    BY <1>8 DEF FlushFails, compVars
  <2>2. CASE UNCHANGED <<sst_files, orphans>>
    BY <1>1, <2>1, <2>2
  <2>3. CASE /\ sst_files' = [sst_files EXCEPT ![sstable_counter].state = "whole"]
             /\ orphans' = orphans \cup {sstable_counter}
    <3>1. \A n \in SstNames \ {sstable_counter} : sst_files'[n] = sst_files[n]
      BY <2>3 DEF TypeOK
    <3>2. 1..sstable_counter \subseteq SstNames
      BY Constants DEF TypeOK, SstNames
    <3> QED
      BY <2>1, <2>3, <3>1, <3>2 DEF FlushedRegistered
  <2> QED
    BY <1>8, <2>2, <2>3 DEF FlushFails
<1> QED
  BY <1>1, <1>2, <1>3, <1>4, <1>5, <1>6, <1>7, <1>8, TablesUntouched DEF Next, Write

LEMMA CompactionsNext ==
    ASSUME CompactionsCounted, [Next]_vars
    PROVE  CompactionsCounted'
<1>1. CASE CompactBegin
  BY <1>1 DEF CompactBegin, CompactionsCounted
<1>2. CASE CompactEnd
  BY <1>2 DEF CompactEnd, CompactionsCounted
<1>3. CASE Crash
  BY <1>3 DEF Crash, CompactionsCounted
<1>4. ASSUME \/ \E w \in Writers : FlushBegin(w) \/ FlushEnd(w) \/ FlushFails(w)
             \/ Recover \/ RecoverFromCheckpoint
      PROVE  CompactionsCounted'
  BY <1>4 DEF FlushBegin, FlushEnd, FlushFails, Recover, RecoverFromCheckpoint, compVars,
     CompactionsCounted
<1>5. ASSUME UNCHANGED <<compacting, compactions>> PROVE CompactionsCounted'
  BY <1>5 DEF CompactionsCounted
<1> QED
  BY <1>1, <1>2, <1>3, <1>4, <1>5, TablesUntouched DEF Next, Write

LEMMA FlushHeldNext ==
    ASSUME TypeOK, TypeOK', DownIdle, CompactionsCounted, FlushHeld, [Next]_vars
    PROVE  FlushHeld'
<1> USE DEF diskVars, walVars, memVars, compVars, ckptVars, writerVars, historyVars
<1>1. ASSUME UNCHANGED <<compactions, flusher, sst_files, sstable_counter, memtable>>
      PROVE  FlushHeld'
  BY <1>1 DEF FlushHeld
<1>2. ASSUME flusher' = NoWriter PROVE FlushHeld'
  BY <1>2 DEF FlushHeld
<1>3. ASSUME NEW w \in Writers,
             \/ DrawSequence(w) \/ CheckSize(w) \/ RotateFile(w) \/ RotateFails(w)
             \/ AppendEntries(w) \/ AppendFails(w) \/ FlushNotNeeded(w)
      PROVE  FlushHeld'
  BY <1>1, <1>3 DEF DrawSequence, CheckSize, RotateFile, RotateFails, AppendEntries,
     AppendFails, FlushNotNeeded
<1>4. ASSUME NEW w \in Writers, InsertMem(w) \/ FlushEnd(w) \/ FlushFails(w)
      PROVE  FlushHeld'
  BY <1>2, <1>4 DEF InsertMem, FlushEnd, FlushFails
<1>5. ASSUME NEW w \in Writers, FlushBegin(w) PROVE FlushHeld'
  BY <1>5 DEF FlushBegin, FlushHeld, TypeOK
<1>6. CASE CompactBegin \/ CompactEnd
  BY <1>6 DEF CompactBegin, CompactEnd, CompactionsCounted, FlushHeld
<1>7. CASE CheckpointBegin \/ CheckpointSave \/ CheckpointTruncate \/ Recover
           \/ RecoverFromCheckpoint \/ UNCHANGED vars
  BY <1>1, <1>7 DEF CheckpointBegin, CheckpointSave, CheckpointTruncate, Recover,
     RecoverFromCheckpoint, vars
<1>8. CASE Crash
  BY <1>2, <1>8 DEF Crash
<1>9. CASE Open
  <2>1. flusher = NoWriter
    BY <1>9 DEF Open, DownIdle, TypeOK
  <2> QED
    BY <1>2, <1>9, <2>1 DEF Open
<1> QED
  BY <1>3, <1>4, <1>5, <1>6, <1>7, <1>8, <1>9 DEF Next, Write

LEMMA FlushNumberedNext ==
    ASSUME TypeOK, TypeOK', FlushNumbered, [Next]_vars
    PROVE  FlushNumbered'
<1> USE DEF diskVars, walVars, memVars, compVars
<1>1. ASSUME flusher' = NoWriter \/ UNCHANGED <<flusher, sstable_counter>>
      PROVE  FlushNumbered'
  BY <1>1 DEF FlushNumbered
<1>2. ASSUME NEW w \in Writers, FlushBegin(w) PROVE FlushNumbered'
  <2>1. sstable_counter' = sstable_counter + 1 /\ sstable_counter \in Nat
    BY <1>2, Constants DEF FlushBegin, TypeOK, SstNames
  <2> QED
    BY <2>1 DEF FlushNumbered
<1>3. ASSUME NEW w \in Writers, Write(w), ~FlushBegin(w) PROVE FlushNumbered'
  BY <1>1, <1>3 DEF Write, CheckSize, RotateFile, RotateFails, AppendEntries, AppendFails,
     InsertMem, FlushNotNeeded, FlushEnd, FlushFails
<1>4. ASSUME NEW w \in Writers, DrawSequence(w) PROVE FlushNumbered'
  BY <1>1, <1>4 DEF DrawSequence
<1>5. CASE Open \/ Crash \/ CheckpointBegin \/ CheckpointSave \/ CheckpointTruncate
  BY <1>1, <1>5 DEF Open, Crash, CheckpointBegin, CheckpointSave, CheckpointTruncate
<1>6. CASE CompactBegin \/ CompactEnd \/ Recover \/ RecoverFromCheckpoint \/ UNCHANGED vars
  BY <1>1, <1>6 DEF CompactBegin, CompactEnd, Recover, RecoverFromCheckpoint, vars
<1> QED
  BY <1>2, <1>3, <1>4, <1>5, <1>6 DEF Next

\* A flush moves the MemTable into a file of its own, the number of which the
\* process has not used.
LEMMA HeldNext ==
    ASSUME TypeOK, TypeOK', Placed, CompactionsCounted, FlushNumbered, FlushHeld,
           HeldKept, [Next]_vars
    PROVE  HeldKept'
<1> USE DEF diskVars, walVars, memVars, compVars, ckptVars, writerVars, historyVars
<1>1. ASSUME compactions' = compactions, up' = up, cut' = {} => cut = {},
             cut = {} /\ compactions = 0 => Held \subseteq Held',
             acked' = acked,
             \A w \in Writers : pc'[w] \in {"flush", "flushing"} =>
                pc[w] \in {"flush", "flushing"} /\ pending'[w] = pending[w]
      PROVE  HeldKept'
  BY <1>1 DEF HeldKept, Recs
<1>2. ASSUME NEW w \in Writers,
             \/ DrawSequence(w) \/ CheckSize(w) \/ RotateFile(w) \/ RotateFails(w)
             \/ AppendEntries(w) \/ AppendFails(w)
      PROVE  HeldKept'
  <2>1. /\ UNCHANGED <<memtable, sst_files, sstables, sstable_counter, orphans, compactions,
                       up, acked>>
        /\ cut \subseteq cut'
    BY <1>2 DEF DrawSequence, CheckSize, RotateFile, RotateFails, AppendEntries, AppendFails
  <2>2. Held' = Held
    BY <2>1 DEF Held
  <2>3. \A v \in Writers : pc'[v] \in {"flush", "flushing"} =>
          pc[v] \in {"flush", "flushing"} /\ pending'[v] = pending[v]
    BY <1>2 DEF DrawSequence, CheckSize, RotateFile, RotateFails, AppendEntries,
       AppendFails, Goto, Return, TypeOK
  <2> QED
    BY <1>1, <2>1, <2>2, <2>3
<1>3. ASSUME NEW w \in Writers, InsertMem(w) PROVE HeldKept'
  <2>1. /\ UNCHANGED <<sst_files, sstables, sstable_counter, orphans, compactions, up, cut>>
        /\ memtable' = memtable \cup Recs(pending[w])
    BY <1>3 DEF InsertMem
  <2>2. Held' = Held \cup Recs(pending[w])
    BY <2>1 DEF Held
  <2>3. /\ acked' \subseteq acked \cup Recs(pending[w])
        /\ \A v \in Writers : pc'[v] \in {"flush", "flushing"} =>
             (pc[v] \in {"flush", "flushing"} \/ v = w) /\ pending'[v] = pending[v]
    BY <1>3 DEF InsertMem, Goto, Return, TypeOK
  <2> QED
    BY <2>1, <2>2, <2>3 DEF HeldKept, Recs
<1>4. ASSUME NEW w \in Writers, FlushNotNeeded(w) PROVE HeldKept'
  <2>1. /\ UNCHANGED <<memtable, sst_files, sstables, sstable_counter, orphans, compactions,
                       up, cut>>
        /\ pc[w] = "flush" /\ acked' = acked \cup Recs(pending[w])
        /\ \A v \in Writers : pc'[v] \in {"flush", "flushing"} =>
             pc[v] \in {"flush", "flushing"} /\ pending'[v] = pending[v]
    BY <1>4 DEF FlushNotNeeded, Return, TypeOK
  <2>2. Held' = Held
    BY <2>1 DEF Held
  <2> QED
    BY <2>1, <2>2 DEF HeldKept, Recs
<1>5. ASSUME NEW w \in Writers, FlushBegin(w) PROVE HeldKept'
  <2>1. /\ UNCHANGED <<memtable, sstables, orphans, compactions, up, cut, acked>>
        /\ sstable_counter' = sstable_counter + 1
        /\ sst_files' = [sst_files EXCEPT ![sstable_counter + 1] =
                           [state |-> "partial", recs |-> memtable]]
        /\ \A v \in Writers : pc'[v] \in {"flush", "flushing"} =>
             pc[v] \in {"flush", "flushing"} /\ pending'[v] = pending[v]
    BY <1>5 DEF FlushBegin, Goto, TypeOK
  <2>2. /\ sstable_counter \in Nat /\ 1..sstable_counter \subseteq 1..(sstable_counter + 1)
        /\ \A n \in (sstables \cup orphans) \cap 1..sstable_counter :
             sst_files'[n] = sst_files[n]
    BY <2>1, Constants DEF TypeOK, SstNames
  <2>3. Held \subseteq Held'
    BY <2>1, <2>2 DEF Held
  <2> QED
    BY <1>1, <2>1, <2>3
<1>6. ASSUME NEW w \in Writers, FlushEnd(w) PROVE HeldKept'
  <2> SUFFICES ASSUME up, cut = {}, compactions = 0, compactions' = compactions,
                      cut' = cut
               PROVE  HeldKept'
    BY <1>6 DEF FlushEnd, HeldKept
  <2>1. /\ UNCHANGED <<sstable_counter, orphans, up>> /\ pc[w] = "flushing" /\ flusher = w
        /\ memtable' = {} /\ sstables' = sstables \cup {sstable_counter}
        /\ sst_files' = [sst_files EXCEPT ![sstable_counter].state = "whole"]
        /\ acked' = acked \cup Recs(pending[w])
        /\ \A v \in Writers : pc'[v] \in {"flush", "flushing"} =>
             pc[v] \in {"flush", "flushing"} /\ pending'[v] = pending[v]
    BY <1>6 DEF FlushEnd, Return, TypeOK
  <2>2. \A n \in SstNames : sst_files'[n].recs = sst_files[n].recs
    BY <2>1 DEF TypeOK, SstFile
  <2>3. sst_files[sstable_counter].recs = memtable
    <3>1. flusher # NoWriter
      BY <2>1, Constants
    <3> QED
      BY <3>1 DEF FlushHeld
  <2>4. sstable_counter \in 1..sstable_counter
    BY <2>1, Constants DEF FlushNumbered
  <2>5. Held \subseteq Held'
    BY <2>1, <2>2, <2>3, <2>4 DEF Held, TypeOK
  <2> QED
    BY <2>1, <2>5 DEF HeldKept, Recs
<1>7. ASSUME NEW w \in Writers, FlushFails(w) PROVE HeldKept'
  <2>1. /\ UNCHANGED <<sstables, sstable_counter, compactions, up, cut, acked>>
        /\ pc[w] = "flushing" /\ flusher = w
        /\ \A v \in Writers : pc'[v] \in {"flush", "flushing"} =>
             pc[v] \in {"flush", "flushing"} /\ pending'[v] = pending[v]
    BY <1>7 DEF FlushFails, Return, TypeOK
  <2>2. CASE UNCHANGED <<sst_files, memtable, orphans>>
    <3>1. Held' = Held
      BY <2>1, <2>2 DEF Held
    <3> QED
      BY <1>1, <2>1, <3>1
  <2>3. CASE /\ sst_files' = [sst_files EXCEPT ![sstable_counter].state = "whole"]
             /\ orphans' = orphans \cup {sstable_counter}
    <3>1. \A n \in SstNames : sst_files'[n].recs = sst_files[n].recs
      BY <2>3 DEF TypeOK, SstFile
    <3>2. /\ sstable_counter \in 1..sstable_counter
          /\ compactions = 0 => sst_files[sstable_counter].recs = memtable
      BY <2>1, Constants DEF FlushNumbered, FlushHeld
    <3>3. compactions = 0 => Held \subseteq Held'
      BY <2>1, <2>3, <3>1, <3>2 DEF Held, TypeOK
    <3> QED
      BY <1>1, <2>1, <3>3
  <2> QED
    BY <1>7, <2>2, <2>3 DEF FlushFails
<1>8. CASE CompactBegin \/ CompactEnd
  <2>1. compactions' # 0
    BY <1>8 DEF CompactBegin, CompactEnd, CompactionsCounted
  <2> QED
    BY <2>1 DEF HeldKept
<1>9. CASE CheckpointBegin \/ CheckpointSave \/ CheckpointTruncate \/ UNCHANGED vars
  <2>1. /\ UNCHANGED <<memtable, sst_files, sstables, sstable_counter, orphans, compactions,
                       up, pc, pending, acked>>
        /\ cut \subseteq cut'
    BY <1>9 DEF CheckpointBegin, CheckpointSave, CheckpointTruncate, vars
  <2>2. Held' = Held
    BY <2>1 DEF Held
  <2> QED
    BY <1>1, <2>1, <2>2
<1>10. CASE Crash
  BY <1>10 DEF Crash, HeldKept
<1>11. CASE Open
  <2>1. /\ acked' = acked /\ memtable' = InWal /\ UNCHANGED <<cut, pc, pending>>
        /\ \A w \in Writers : pc[w] = "idle"
    BY <1>11 DEF Open, Placed, DownIdle, TypeOK
  <2>2. cut = {} => acked \subseteq InWal
    BY DEF Placed, StoredKept
  <2> QED
    BY <2>1, <2>2 DEF HeldKept, Held
<1>12. CASE Recover \/ RecoverFromCheckpoint
  <2>1. /\ UNCHANGED <<memtable, sst_files, sstable_counter, orphans, compactions, up, cut,
                       acked, pc, pending>>
        /\ sstables = {}
    BY <1>12 DEF Recover, RecoverFromCheckpoint
  <2>2. Held \subseteq Held'
    BY <2>1 DEF Held
  <2> QED
    BY <1>1, <2>1, <2>2
<1> QED
  BY <1>2, <1>3, <1>4, <1>5, <1>6, <1>7, <1>8, <1>9, <1>10, <1>11, <1>12 DEF Next, Write
------------------------------------------------------------------------------
(* The invariant, and what follows from it. *)

LEMMA InitIInv == Init => IInv
<1> SUFFICES ASSUME Init PROVE IInv
  OBVIOUS
<1>1. TypeOK
  BY TypeInit
<1>2. Placed
  BY <1>1, PlacedInit
<1>3. FlushesCounted
  <2>1. InCall = {}
    BY DEF Init, InCall
  <2>2. Cardinality(InCall) = 0
    BY <2>1, FS_EmptySet
  <2> QED
    BY <2>2 DEF Init, FlushesCounted
<1>4. FlushedRegistered /\ CompactionsCounted /\ FlushNumbered /\ FlushHeld
  BY DEF Init, FlushedRegistered, CompactionsCounted, FlushNumbered, FlushHeld
<1>5. HeldKept
  BY DEF Init, HeldKept
<1> QED
  BY <1>1, <1>2, <1>3, <1>4, <1>5 DEF IInv, Placed

LEMMA NextIInv == IInv /\ [Next]_vars => IInv'
<1> SUFFICES ASSUME IInv, [Next]_vars PROVE IInv'
  OBVIOUS
<1>1. TypeOK /\ Placed
  BY DEF IInv, Placed
<1>2. TypeOK'
  BY TypeNext DEF IInv
<1>3. Placed'
  BY <1>1, <1>2, PlacedNext
<1>4. FlushesCounted'
  BY FlushesCountedNext DEF IInv
<1>5. FlushedRegistered' /\ CompactionsCounted'
  BY <1>2, RegisteredNext, CompactionsNext DEF IInv
<1>6. FlushNumbered' /\ FlushHeld'
  BY <1>2, FlushNumberedNext, FlushHeldNext DEF IInv
<1>7. HeldKept'
  BY <1>1, <1>2, HeldNext DEF IInv
<1> QED
  BY <1>2, <1>3, <1>4, <1>5, <1>6, <1>7 DEF IInv, Placed

\* In every state of every behaviour, a record is where the inductive invariant
\* says it is.
THEOREM Invariance == Spec => []IInv
BY InitIInv, NextIInv, PTL DEF Spec

\* Every variable of the storage keeps its type, a writer has entries in hand
\* exactly during a call, and the flush lock is held by the writer that flushes.
THEOREM TypeCorrect == Spec => []TypeOK
BY Invariance, PTL DEF IInv

\* As long as no checkpoint has removed a file, no two records on disk share a
\* sequence number: drawing, failing writes, torn tails and the renumbering of
\* open_existing never give a number twice.
THEOREM SequenceNumbersUnique == Spec => []SequencesUnique
<1>1. IInv => SequencesUnique
  <2> SUFFICES ASSUME IInv, cut = {}, NEW e \in OnDisk, NEW f \in OnDisk, e.seq = f.seq
               PROVE  e.rec = f.rec
    BY DEF SequencesUnique
  <2>1. e \in Entries /\ f \in Entries
    BY FilesTyped DEF IInv
  <2>2. Somewhere(e) /\ Somewhere(f)
    BY DEF OnDisk, Existing, Somewhere, InFile
  <2> QED
    BY <2>1, <2>2 DEF IInv, SeqsDrawn
<1> QED
  BY <1>1, Invariance, PTL

\* A record whose write returned Ok is in the MemTable or in an SSTable the
\* storage holds, also while others flush, after a flush that failed before its
\* file was whole, and after a restart; or it is in a whole SSTable whose flush
\* returned an error, which only a restart reads again.  This as long as no
\* checkpoint and no compaction has removed files.
THEOREM AcknowledgedVisible == Spec => []AckedVisible
<1>1. IInv => AckedVisible
  <2>1. Held \subseteq Visible \cup Unread
    BY DEF Held, Visible, Unread
  <2> QED
    BY <2>1 DEF IInv, HeldKept, AckedVisible
<1> QED
  BY <1>1, Invariance, PTL

\* No whole file of the process is lost to the compaction scheduler, also when
\* it is flushed while a merge runs, but for those whose flush returned an error.
THEOREM FlushedAreRegistered == Spec => []FlushedRegistered
BY Invariance, PTL DEF IInv

\* Every step of the storage is a step of the durable log or changes nothing
\* of it.
LEMMA StepsOfTheLog == IInv /\ IInv' /\ [Next]_vars => [Log!Next]_Log!logVars
<1> SUFFICES ASSUME IInv, IInv', [Next]_vars PROVE [Log!Next]_Log!logVars
  OBVIOUS
<1> USE DEF Log!Next, Log!logVars
<1>1. TypeOK /\ TypeOK' /\ Placed /\ Placed' /\ AbsentEmpty
  BY DEF IInv, Placed
<1>2. ASSUME NEW S \in SUBSET Records, InWal' = InWal \cup S, UNCHANGED <<acked, cut>>
      PROVE  Log!Next
  BY <1>2 DEF Log!Append
<1>3. ASSUME NEW S \in SUBSET Records, cut' = cut \cup S, InWal' = InWal, acked' = acked
      PROVE  Log!Next
  BY <1>3 DEF Log!AppendToUnlinked
<1>4. ASSUME NEW S \in SUBSET Records, S \subseteq InWal \cup cut, acked' = acked \cup S,
             InWal' = InWal, cut' = cut
      PROVE  Log!Next
  BY <1>4 DEF Log!Acknowledge
<1>5. ASSUME wal_files' = wal_files PROVE InWal' = InWal
  BY <1>5 DEF InWal, OnDisk, Existing
<1>6. ASSUME Quiet PROVE [Log!Next]_Log!logVars
  <2>1. InWal' = InWal /\ cut' = cut
    BY <1>1, <1>6, QuietWal DEF Quiet
  <2>2. ASSUME NEW w \in Writers, pc[w] \in Stored, acked' = acked \cup Recs(pending[w])
        PROVE  Log!Next
    <3>1. Recs(pending[w]) \in SUBSET Records
      BY <1>1, RecsOfEntries DEF TypeOK
    <3>2. Recs(pending[w]) \subseteq InWal \cup cut
      BY <1>1, <2>2 DEF Placed, StoredKept
    <3> QED
      BY <1>4, <2>1, <2>2, <3>1, <3>2
  <2> QED
    BY <1>6, <2>1, <2>2 DEF Quiet
<1>7. ASSUME NEW w \in Writers, DrawSequence(w) \/ AppendFails(w)
      PROVE  UNCHANGED Log!logVars
  BY <1>5, <1>7 DEF DrawSequence, AppendFails, diskVars, historyVars
<1>8. ASSUME NEW E \in SUBSET Entries, acked' = acked,
             \/ AddsToFile(E) /\ cut' = cut
             \/ AddsToFile({}) /\ cut' = cut \cup Recs(E)
      PROVE  Log!Next
  <2>1. Recs(E) \in SUBSET Records
    BY RecsOfEntries
  <2>2. CASE AddsToFile(E) /\ cut' = cut
    BY <1>1, <1>2, <1>8, <2>1, <2>2, AddedToWal
  <2>3. CASE AddsToFile({}) /\ cut' = cut \cup Recs(E)
    <3>1. InWal' = InWal \cup Recs({}) /\ Recs({}) = {}
      BY <1>1, <2>3, AddedToWal DEF Recs
    <3> QED
      BY <1>3, <1>8, <2>1, <2>3, <3>1
  <2> QED
    BY <1>8, <2>2, <2>3
<1>9. ASSUME NEW w \in Writers, RotateFile(w) PROVE Log!Next
  <2>1. acked' = acked /\ unflushed \in SUBSET Entries
    BY <1>1, <1>9 DEF RotateFile, TypeOK
  <2> QED
    BY <1>1, <1>8, <1>9, <2>1, RotateFiles
<1>10. ASSUME NEW w \in Writers, AppendEntries(w) PROVE Log!Next
  <2>1. acked' = acked /\ unflushed \cup pending[w] \in SUBSET Entries
    BY <1>1, <1>10 DEF AppendEntries, TypeOK
  <2> QED
    BY <1>1, <1>8, <1>10, <2>1, AppendFiles
<1>11. CASE CheckpointTruncate
  <2>1. PICK S \in SUBSET InWal : InWal' = InWal \ S /\ cut' = cut \cup S
    BY <1>1, <1>11, TruncatePlaced
  <2>2. acked' = acked
    BY <1>11 DEF CheckpointTruncate
  <2> QED
    BY <2>1, <2>2 DEF Log!Truncate
<1>12. CASE Crash
  <2>1. InWal \subseteq InWal'
    BY <1>1, <1>12, CrashPlaced
  <2>2. \A s \in Sequences : wal_files'[s].entries \subseteq Entries
    BY <1>1 DEF TypeOK, WalFile
  <2>3. InWal' \in SUBSET Records
    BY <2>2 DEF InWal, OnDisk, Existing, Entries
  <2>4. UNCHANGED <<acked, cut>>
    BY <1>12 DEF Crash, historyVars
  <2> QED
    BY <1>2, <2>1, <2>3, <2>4
<1>13. CASE Open
  BY <1>1, <1>13, OpenPlaced DEF Open, historyVars
<1> QED
  BY <1>1, <1>6, <1>7, <1>9, <1>10, <1>11, <1>12, <1>13, QuietSteps DEF Next, Write

\* The storage implements the durable log: only records that are in a WAL file,
\* or were cut off it by a checkpoint, are acknowledged, and nothing else takes a
\* record out of the log, whatever rotates, fails, flushes, merges, crashes or
\* restarts.
THEOREM ImplementsLog == Spec => ImplementsDurableLog
<1>1. Init => Log!Init
  <2> SUFFICES ASSUME Init PROVE InWal = {}
    BY DEF Init, Log!Init
  <2>1. \A s \in Sequences : wal_files[s].entries = {}
    BY DEF Init, NoFile
  <2> QED
    BY <2>1 DEF InWal, OnDisk, Existing
<1> QED
  BY <1>1, Invariance, StepsOfTheLog, PTL DEF Spec, ImplementsDurableLog, Log!Spec
------------------------------------------------------------------------------
(* Ticks on their way to the storage. *)

FlushPCs == {"none", "loop", "asleep", "stopping", "write asleep", "write stopping", "gone"}
Writing == {"write asleep", "write stopping"}

TickTyped ==
    /\ pushed \in Nat
    /\ tick_buffer \in Seq(1..pushed) /\ tick_wal \in Seq(1..pushed)
    /\ DOMAIN flush_worker = FlushWorkers
    /\ \A w \in FlushWorkers :
         /\ flush_worker[w] \in [pc : FlushPCs, batch : Seq(1..pushed)]
         /\ flush_worker[w].pc \notin Writing => flush_worker[w].batch = <<>>
    /\ dropped \subseteq 1..pushed

\* No number is in s before a smaller one, but for the gaps.
Ordered(s, gaps) ==
    \A i \in 1..Len(s) : \A x \in 1..s[i] : x \in gaps \/ \E j \in 1..i : s[j] = x

\* As long as workers do not overlap, the ticks that wait are the last ones that
\* came, in order: those of the batch first, then those of the buffer.
OneWorker ==
    /\ \A v, w \in FlushWorkers : v \in Running /\ w \in Running => v = w
    /\ \A i \in 1..Len(tick_buffer) : tick_buffer[i] = pushed - Len(tick_buffer) + i
    /\ \A w \in FlushWorkers : \A i \in 1..Len(flush_worker[w].batch) :
         flush_worker[w].batch[i]
           = pushed - Len(tick_buffer) - Len(flush_worker[w].batch) + i
    /\ Ordered(tick_wal, dropped)

\* Every tick that came is somewhere.
EveryTick == 1..pushed = ToSet(tick_wal) \cup ToSet(tick_buffer) \cup InBatches \cup dropped

TickInv == TickTyped /\ EveryTick /\ (~overlapped => OneWorker)

\* The members of two sequences in one, and of one that has grown.
LEMMA SetOfBoth ==
    ASSUME NEW S, NEW a \in Seq(S), NEW b \in Seq(S)
    PROVE  a \o b \in Seq(S) /\ ToSet(a \o b) = ToSet(a) \cup ToSet(b)
<1>1. /\ a \o b \in Seq(S) /\ Len(a \o b) = Len(a) + Len(b)
      /\ \A i \in 1..Len(a) + Len(b) :
           (a \o b)[i] = IF i <= Len(a) THEN a[i] ELSE b[i - Len(a)]
  OBVIOUS
<1>2. PICK c : c = a \o b
  OBVIOUS
<1>3. /\ Len(a) \in Nat /\ DOMAIN a = 1..Len(a) /\ Len(b) \in Nat /\ DOMAIN b = 1..Len(b)
      /\ DOMAIN c = 1..(Len(a) + Len(b))
  BY <1>1, <1>2
<1>4. ASSUME NEW i \in 1..Len(a) PROVE i \in DOMAIN c /\ c[i] = a[i]
  BY <1>1, <1>2, <1>3
<1>5. ASSUME NEW i \in 1..Len(b) PROVE Len(a) + i \in DOMAIN c /\ c[Len(a) + i] = b[i]
  BY <1>1, <1>2, <1>3
<1>6. ASSUME NEW i \in DOMAIN c PROVE c[i] \in ToSet(a) \cup ToSet(b)
  <2>1. CASE i <= Len(a)
    BY <1>1, <1>2, <1>3, <2>1 DEF ToSet
  <2>2. CASE i > Len(a)
    <3>1. i - Len(a) \in 1..Len(b) /\ c[i] = b[i - Len(a)]
      BY <1>1, <1>2, <1>3, <2>2
    <3> QED
      BY <1>3, <3>1 DEF ToSet
  <2> QED
    BY <1>3, <2>1, <2>2
<1>7. ToSet(c) = ToSet(a) \cup ToSet(b)
  <2>1. ToSet(c) \subseteq ToSet(a) \cup ToSet(b)
    BY <1>6 DEF ToSet
  <2>2. ToSet(a) \subseteq ToSet(c)
    BY <1>3, <1>4 DEF ToSet
  <2>3. ToSet(b) \subseteq ToSet(c)
    BY <1>3, <1>5 DEF ToSet
  <2> QED
    BY <2>1, <2>2, <2>3
<1> QED
  BY <1>1, <1>2, <1>7

LEMMA SetOfAppend ==
    ASSUME NEW S, NEW s \in Seq(S), NEW e \in S
    PROVE  /\ Append(s, e) \in Seq(S) /\ ToSet(Append(s, e)) = ToSet(s) \cup {e}
           /\ Len(Append(s, e)) = Len(s) + 1
           /\ \A i \in 1..Len(s) + 1 : Append(s, e)[i] = IF i <= Len(s) THEN s[i] ELSE e
<1>1. /\ Append(s, e) \in Seq(S) /\ Len(Append(s, e)) = Len(s) + 1
      /\ \A i \in 1..Len(s) + 1 : Append(s, e)[i] = IF i <= Len(s) THEN s[i] ELSE e
  OBVIOUS
<1>2. PICK c : c = Append(s, e)
  OBVIOUS
<1>3. Len(s) \in Nat /\ DOMAIN s = 1..Len(s) /\ DOMAIN c = 1..Len(s) + 1
  BY <1>1, <1>2
<1>4. \A i \in 1..Len(s) : c[i] = s[i]
  BY <1>1, <1>2, <1>3
<1>5. c[Len(s) + 1] = e /\ Len(s) + 1 \in DOMAIN c
  BY <1>1, <1>2, <1>3
<1>6. DOMAIN c = DOMAIN s \cup {Len(s) + 1}
  BY <1>3
<1>7. ToSet(c) = ToSet(s) \cup {e}
  BY <1>3, <1>4, <1>5, <1>6 DEF ToSet
<1> QED
  BY <1>1, <1>2, <1>7

FirstOf(s, n) == SubSeq(s, 1, n)
RestOf(s, n) == SubSeq(s, n + 1, Len(s))

\* A sequence cut in two.
LEMMA CutInTwo ==
    ASSUME NEW S, NEW s \in Seq(S), NEW n \in 0..Len(s)
    PROVE  /\ FirstOf(s, n) \in Seq(S) /\ Len(FirstOf(s, n)) = n
           /\ \A i \in 1..n : FirstOf(s, n)[i] = s[i]
           /\ RestOf(s, n) \in Seq(S) /\ Len(RestOf(s, n)) = Len(s) - n
           /\ \A i \in 1..Len(s) - n : RestOf(s, n)[i] = s[n + i]
           /\ ToSet(s) = ToSet(FirstOf(s, n)) \cup ToSet(RestOf(s, n))
<1> PICK a, b : a = FirstOf(s, n) /\ b = RestOf(s, n)
  OBVIOUS
<1>2. n \in Nat /\ Len(s) \in Nat /\ n <= Len(s) /\ DOMAIN s = 1..Len(s)
  OBVIOUS
<1>3. a \in Seq(S) /\ Len(a) = n /\ \A i \in 1..n : a[i] = s[i]
  <2>1. a = SubSeq(s, 1, n)
    BY DEF FirstOf
  <2> QED
    BY ONLY <1>2, <2>1, s \in Seq(S), SubSeqProperties
<1>4. b \in Seq(S) /\ Len(b) = Len(s) - n /\ \A i \in 1..Len(s) - n : b[i] = s[n + i]
  <2>1. PICK m, l : m = n + 1 /\ l = Len(s)
    OBVIOUS
  <2>2. m \in Int /\ l \in Int /\ \A i \in m..l : s[i] \in S
    BY <1>2, <2>1
  <2>3. /\ b \in Seq(S) /\ Len(b) = IF m <= l THEN l - m + 1 ELSE 0
        /\ \A i \in 1..l - m + 1 : b[i] = s[m + i - 1]
    <3>1. b = SubSeq(s, m, l)
      BY <2>1 DEF RestOf
    <3> QED
      BY ONLY <2>2, <3>1, SubSeqProperties
  <2>4. Len(b) = Len(s) - n
    <3>1. Len(b) = IF m <= l THEN l - m + 1 ELSE 0
      BY <2>3
    <3>2. m = n + 1 /\ l \in Nat /\ n \in Nat /\ n <= l
      BY <1>2, <2>1
    <3>3. Len(b) = l - n
      BY ONLY <3>1, <3>2
    <3> QED
      BY <2>1, <3>3
  <2>5. ASSUME NEW i \in 1..Len(s) - n PROVE b[i] = s[n + i]
    <3>1. i \in 1..l - m + 1 /\ m + i - 1 = n + i
      BY <1>2, <2>1
    <3>2. b[i] = s[m + i - 1]
      BY <2>3, <3>1
    <3> QED
      BY <3>1, <3>2
  <2> QED
    BY <2>3, <2>4, <2>5
<1>5. DOMAIN a = 1..n /\ DOMAIN b = 1..Len(s) - n
  BY <1>3, <1>4
<1>6. ASSUME NEW i \in DOMAIN s PROVE s[i] \in ToSet(a) \cup ToSet(b)
  <2>1. CASE i <= n
    BY <1>2, <1>3, <1>5, <2>1 DEF ToSet
  <2>2. CASE i > n
    <3>0. i - n \in 1..Len(s) - n /\ n + (i - n) = i
      BY ONLY <1>2, <2>2, i \in DOMAIN s
    <3>1. i - n \in 1..Len(s) - n /\ b[i - n] = s[i]
      BY <1>4, <3>0
    <3> QED
      BY <1>5, <3>1 DEF ToSet
  <2> QED
    BY <1>2, <2>1, <2>2
<1>7. ASSUME NEW i \in 1..n PROVE i \in DOMAIN s /\ a[i] = s[i]
  BY <1>2, <1>3
<1>8. ASSUME NEW i \in 1..Len(s) - n PROVE n + i \in DOMAIN s /\ b[i] = s[n + i]
  <2>1. n + i \in DOMAIN s
    BY ONLY <1>2, i \in 1..Len(s) - n
  <2>2. b[i] = s[n + i]
    BY ONLY <1>4, i \in 1..Len(s) - n
  <2> QED
    BY ONLY <2>1, <2>2
<1>9. ToSet(s) = ToSet(a) \cup ToSet(b)
  <2>1. ToSet(s) \subseteq ToSet(a) \cup ToSet(b)
    BY <1>6 DEF ToSet
  <2>2. ToSet(a) \subseteq ToSet(s)
    BY <1>5, <1>7 DEF ToSet
  <2>3. ToSet(b) \subseteq ToSet(s)
    BY <1>5, <1>8 DEF ToSet
  <2> QED
    BY <2>1, <2>2, <2>3
<1> QED
  BY <1>3, <1>4, <1>9

\* Its elements.
LEMMA CutElements ==
    ASSUME NEW S, NEW s \in Seq(S), NEW n \in 0..Len(s)
    PROVE  /\ \A i \in 1..n : FirstOf(s, n)[i] = s[i]
           /\ \A i \in 1..Len(s) - n : RestOf(s, n)[i] = s[n + i]
BY CutInTwo

\* More ticks in order behind the ones in order.
LEMMA OrderGoesOn ==
    ASSUME NEW s \in Seq(Nat), NEW more \in Seq(Nat), NEW gaps, NEW k \in Nat,
           Ordered(s, gaps), \A x \in 1..k : x \in gaps \/ x \in ToSet(s),
           \A i \in 1..Len(more) : more[i] = k + i
    PROVE  Ordered(s \o more, gaps)
<1>1. PICK c : c = s \o more
  OBVIOUS
<1>2. Len(s) \in Nat /\ Len(more) \in Nat /\ DOMAIN s = 1..Len(s) /\ Len(c) = Len(s) + Len(more)
  BY <1>1
<1>3. \A i \in 1..Len(s) : c[i] = s[i]
  BY <1>1, <1>2
<1>4. \A i \in 1..Len(more) : c[Len(s) + i] = more[i]
  BY <1>1, <1>2
<1>5. ASSUME NEW i \in 1..Len(c), NEW x \in 1..c[i], x \notin gaps
      PROVE  \E j \in 1..i : c[j] = x
  <2>1. CASE i <= Len(s)
    <3>1. i \in 1..Len(s) /\ c[i] = s[i]
      BY <1>2, <1>3, <2>1
    <3>2. PICK j \in 1..i : s[j] = x
      BY <1>5, <3>1 DEF Ordered
    <3>3. j \in 1..Len(s)
      BY <3>1
    <3> QED
      BY <1>3, <3>2, <3>3
  <2>2. CASE i > Len(s)
    <3>1. PICK n \in 1..Len(more) : i = Len(s) + n
      <4>1. i - Len(s) \in 1..Len(more) /\ i = Len(s) + (i - Len(s))
        BY <1>2, <2>2
      <4> QED
        BY <4>1
    <3>2. c[i] = k + n /\ n \in Nat
      BY <1>4, <3>1
    <3>3. CASE x <= k
      <4>1. x \in ToSet(s)
        BY <1>5, <3>3
      <4>2. PICK j \in 1..Len(s) : s[j] = x
        BY <1>2, <4>1 DEF ToSet
      <4>3. j \in 1..i /\ c[j] = x
        BY <1>2, <1>3, <2>2, <4>2
      <4> QED
        BY <4>3
    <3>4. CASE x > k
      <4>1. x - k \in 1..n /\ k + (x - k) = x /\ x - k \in 1..Len(more)
        BY <3>1, <3>2, <3>4, <1>2
      <4>2. c[Len(s) + (x - k)] = x
        BY <1>4, <4>1
      <4>3. Len(s) + (x - k) \in 1..i
        BY <1>2, <3>1, <4>1
      <4> QED
        BY <4>2, <4>3
    <3> QED
      BY <3>2, <3>3, <3>4
  <2> QED
    BY <1>2, <2>1, <2>2
<1> QED
  BY <1>1, <1>5 DEF Ordered

Others(w) == UNION {ToSet(flush_worker[v].batch) : v \in FlushWorkers \ {w}}
TypedWorker(f) == /\ f \in [pc : FlushPCs, batch : Seq(1..pushed)]
                  /\ f.pc \notin Writing => f.batch = <<>>

LEMMA EmptyBatch == <<>> \in Seq(1..pushed) /\ Len(<<>>) = 0 /\ ToSet(<<>>) = {}
BY DEF ToSet

\* What a step of one worker leaves to show.
LEMMA WorkerMoves ==
    ASSUME TickTyped, NEW w \in FlushWorkers, NEW f, TypedWorker(f),
           flush_worker' = [flush_worker EXCEPT ![w] = f], pushed' = pushed,
           tick_buffer' \in Seq(1..pushed), tick_wal' \in Seq(1..pushed),
           dropped' \subseteq 1..pushed
    PROVE  /\ TickTyped'
           /\ InBatches = Others(w) \cup ToSet(flush_worker[w].batch)
           /\ InBatches' = Others(w) \cup ToSet(f.batch)
<1>1. flush_worker'[w] = f /\ \A v \in FlushWorkers \ {w} : flush_worker'[v] = flush_worker[v]
  BY DEF TickTyped
<1>2. TickTyped'
  BY <1>1 DEF TickTyped, TypedWorker
<1>3. FlushWorkers = (FlushWorkers \ {w}) \cup {w}
  OBVIOUS
<1>4. InBatches = Others(w) \cup ToSet(flush_worker[w].batch)
  BY <1>3 DEF InBatches, Others
<1>5. ASSUME NEW x PROVE x \in InBatches' <=> x \in Others(w) \/ x \in ToSet(f.batch)
  <2>1. x \in InBatches' <=> \E v \in FlushWorkers : x \in ToSet(flush_worker'[v].batch)
    BY DEF InBatches
  <2>2. x \in Others(w) <=> \E v \in FlushWorkers \ {w} : x \in ToSet(flush_worker[v].batch)
    BY DEF Others
  <2>3. \A v \in FlushWorkers \ {w} :
          x \in ToSet(flush_worker'[v].batch) <=> x \in ToSet(flush_worker[v].batch)
    BY <1>1
  <2>4. x \in ToSet(flush_worker'[w].batch) <=> x \in ToSet(f.batch)
    BY <1>1
  <2> QED
    BY <2>1, <2>2, <2>3, <2>4
<1>6. InBatches' = Others(w) \cup ToSet(f.batch)
  BY <1>5
<1> QED
  BY <1>2, <1>4, <1>6

\* The same for the order, when the worker is the one that runs.
LEMMA TheWorkerMoves ==
    ASSUME TickTyped, OneWorker, NEW w \in Running, NEW f, TypedWorker(f),
           flush_worker' = [flush_worker EXCEPT ![w] = f], pushed' = pushed,
           \A i \in 1..Len(tick_buffer') : tick_buffer'[i] = pushed - Len(tick_buffer') + i,
           \A i \in 1..Len(f.batch) :
              f.batch[i] = pushed - Len(tick_buffer') - Len(f.batch) + i,
           Ordered(tick_wal', dropped')
    PROVE  OneWorker'
<1>1. w \in FlushWorkers
  BY DEF Running
<1>2. flush_worker'[w] = f /\ \A v \in FlushWorkers \ {w} : flush_worker'[v] = flush_worker[v]
  BY <1>1 DEF TickTyped
<1>3. \A v \in FlushWorkers \ {w} : v \notin Running /\ flush_worker[v].batch = <<>>
  BY DEF OneWorker, Running, TickTyped, Writing
<1>4. \A v \in Running' : v = w
  BY <1>2, <1>3 DEF Running
<1>5. \A v \in FlushWorkers \ {w} : flush_worker'[v].batch = <<>>
  BY <1>2, <1>3
<1>6. ASSUME NEW v \in FlushWorkers, NEW i \in 1..Len(flush_worker'[v].batch)
      PROVE  flush_worker'[v].batch[i]
               = pushed - Len(tick_buffer') - Len(flush_worker'[v].batch) + i
  <2>1. CASE v = w
    BY <1>2, <2>1
  <2>2. CASE v # w
    BY <1>5, <2>2, EmptyBatch
  <2> QED
    BY <2>1, <2>2
<1> QED
  BY <1>4, <1>6 DEF OneWorker

\* What comes before the batch of the only worker is stored or given up.
LEMMA BeforeTheBatch ==
    ASSUME TickInv, OneWorker, NEW w \in Running, flush_worker[w].batch # <<>>
    PROVE  LET k == pushed - Len(tick_buffer) - Len(flush_worker[w].batch)
           IN  k \in Nat /\ \A x \in 1..k : x \in dropped \/ x \in ToSet(tick_wal)
<1>1. PICK k, n, m : /\ k = pushed - Len(tick_buffer) - Len(flush_worker[w].batch)
                     /\ n = Len(flush_worker[w].batch) /\ m = Len(tick_buffer)
  OBVIOUS
<1>2. w \in FlushWorkers /\ TickTyped
  BY DEF Running, TickInv
<1>3. /\ pushed \in Nat /\ m \in Nat /\ n \in Nat \ {0} /\ DOMAIN tick_buffer = 1..m
      /\ DOMAIN flush_worker[w].batch = 1..n /\ flush_worker[w].batch \in Seq(1..pushed)
  BY <1>1, <1>2 DEF TickTyped
<1>4. /\ \A i \in 1..m : tick_buffer[i] = pushed - m + i
      /\ \A i \in 1..n : flush_worker[w].batch[i] = k + i
  BY <1>1, <1>2 DEF OneWorker
<1>5. k \in Nat
  <2>1. 1 \in 1..n /\ flush_worker[w].batch[1] \in 1..pushed
    BY <1>3
  <2>2. flush_worker[w].batch[1] = k + 1
    BY <1>4, <2>1
  <2>3. k \in Int
    BY ONLY <1>1, <1>3
  <2>4. k + 1 \in 1..pushed
    BY ONLY <2>1, <2>2
  <2> QED
    BY ONLY <1>3, <2>3, <2>4
<1>6. ASSUME NEW x \in 1..k PROVE x \in dropped \/ x \in ToSet(tick_wal)
  <2>1. x \in 1..pushed /\ x \in Nat
    BY <1>1, <1>3, <1>5
  <2>2. x \notin ToSet(tick_buffer)
    <3>1. \A i \in 1..m : tick_buffer[i] # x
      BY <1>1, <1>3, <1>4, <1>5
    <3> QED
      BY <1>3, <3>1 DEF ToSet
  <2>3. x \notin InBatches
    <3>1. \A i \in 1..n : flush_worker[w].batch[i] # x
      BY <1>3, <1>4, <1>5
    <3>2. x \notin ToSet(flush_worker[w].batch)
      BY <1>3, <3>1 DEF ToSet
    <3>3. \A v \in FlushWorkers \ {w} : flush_worker[v].batch = <<>>
      BY <1>2 DEF OneWorker, Running, TickTyped, Writing
    <3>4. \A v \in FlushWorkers : x \notin ToSet(flush_worker[v].batch)
      BY <3>2, <3>3, EmptyBatch
    <3> QED
      BY <3>4 DEF InBatches
  <2> QED
    BY <2>1, <2>2, <2>3 DEF TickInv, EveryTick
<1> QED
  BY <1>1, <1>5, <1>6

\* What a worker has stored of its batch.
LEMMA Stores ==
    ASSUME TickInv, OneWorker, NEW w \in Running,
           NEW n \in 0..Len(flush_worker[w].batch),
           tick_wal' = tick_wal \o SubSeq(flush_worker[w].batch, 1, n),
           dropped \subseteq dropped'
    PROVE  Ordered(tick_wal', dropped')
<1>1. PICK some : some = SubSeq(flush_worker[w].batch, 1, n)
  OBVIOUS
<1>2. /\ w \in FlushWorkers /\ flush_worker[w].batch \in Seq(1..pushed) /\ pushed \in Nat
      /\ tick_wal \in Seq(1..pushed)
  BY DEF Running, TickInv, TickTyped
<1>3. some \in Seq(1..pushed) /\ Len(some) = n /\ \A i \in 1..n : some[i] = flush_worker[w].batch[i]
  <2>1. PICK S : S = 1..pushed
    OBVIOUS
  <2>2. flush_worker[w].batch \in Seq(S)
    BY <1>2, <2>1
  <2>3. some \in Seq(S) /\ Len(some) = n /\ \A i \in 1..n : some[i] = flush_worker[w].batch[i]
    <3>1. some = FirstOf(flush_worker[w].batch, n)
      BY <1>1 DEF FirstOf
    <3> QED
      BY ONLY <2>2, <3>1, n \in 0..Len(flush_worker[w].batch), CutInTwo
  <2> QED
    BY <2>1, <2>3
<1>4. some \in Seq(Nat) /\ tick_wal \in Seq(Nat)
  BY <1>2, <1>3
<1>5. Ordered(tick_wal, dropped)
  BY DEF OneWorker
<1>6. Ordered(tick_wal \o some, dropped)
  <2>1. CASE flush_worker[w].batch = <<>>
    <3>1. Len(some) = 0
      BY <1>3, <2>1, EmptyBatch
    <3>2. tick_wal \o some = tick_wal
      BY <1>4, <3>1
    <3> QED
      BY <1>5, <3>2
  <2>2. CASE flush_worker[w].batch # <<>>
    <3>1. PICK k : k = pushed - Len(tick_buffer) - Len(flush_worker[w].batch)
      OBVIOUS
    <3>2. k \in Nat /\ \A x \in 1..k : x \in dropped \/ x \in ToSet(tick_wal)
      BY <2>2, <3>1, BeforeTheBatch
    <3>3. \A i \in 1..Len(flush_worker[w].batch) : flush_worker[w].batch[i] = k + i
      BY <1>2, <3>1 DEF OneWorker
    <3>4. ASSUME NEW i \in 1..Len(some) PROVE some[i] = k + i
      <4>1. i \in 1..n /\ i \in 1..Len(flush_worker[w].batch)
        BY <1>2, <1>3
      <4> QED
        BY <1>3, <3>3, <4>1
    <3> QED
      BY <1>4, <1>5, <3>2, <3>4, OrderGoesOn
  <2> QED
    BY <2>1, <2>2
<1>7. Ordered(tick_wal', dropped)
  BY <1>1, <1>6
<1> QED
  BY <1>7 DEF Ordered

LEMMA LargerSet == ASSUME NEW S, NEW T, S \subseteq T, NEW s \in Seq(S) PROVE s \in Seq(T)
OBVIOUS

\* A tick is pushed to the end of the buffer.
LEMMA TickComes == ASSUME TickInv, PushTick PROVE TickInv'
<1>1. PICK p, b : p = pushed + 1 /\ b = Append(tick_buffer, p)
  OBVIOUS
<1>2. /\ pushed' = p /\ tick_buffer' = b
      /\ UNCHANGED <<flush_worker, flush_stop_signal, tick_wal, flush_faults, dropped, overlapped>>
  BY <1>1 DEF PushTick
<1>3. TickTyped /\ pushed \in Nat /\ p \in Nat /\ 1..p = 1..pushed \cup {p}
  BY <1>1 DEF TickInv, TickTyped
<1>4. \A s \in Seq(1..pushed) : s \in Seq(1..p)
  <2>1. 1..pushed \subseteq 1..p
    BY <1>3
  <2> QED
    BY <2>1, LargerSet
<1>5. tick_buffer \in Seq(1..p) /\ p \in 1..p
  BY <1>3, <1>4 DEF TickTyped
<1>6. /\ b \in Seq(1..p) /\ ToSet(b) = ToSet(tick_buffer) \cup {p} /\ Len(b) = Len(tick_buffer) + 1
      /\ \A i \in 1..Len(tick_buffer) + 1 : b[i] = IF i <= Len(tick_buffer) THEN tick_buffer[i] ELSE p
  BY <1>1, <1>5, SetOfAppend
<1>7. TickTyped'
  BY <1>2, <1>3, <1>4, <1>6 DEF TickTyped
<1>8. EveryTick'
  <2>1. InBatches' = InBatches
    BY <1>2 DEF InBatches
  <2> QED
    BY <1>2, <1>3, <1>6, <2>1 DEF EveryTick, TickInv
<1>9. ASSUME ~overlapped PROVE OneWorker'
  <2>1. OneWorker
    BY <1>9 DEF TickInv
  <2>2. Len(tick_buffer) \in Nat
    BY <1>5
  <2>3. p - Len(b) = pushed - Len(tick_buffer)
    BY <1>1, <1>3, <1>6, <2>2
  <2>4. ASSUME NEW i \in 1..Len(b) PROVE b[i] = p - Len(b) + i
    <3>1. i \in 1..Len(tick_buffer) + 1 /\ i \in Nat
      BY <1>6, <2>2
    <3>2. CASE i <= Len(tick_buffer)
      <4>1. i \in 1..Len(tick_buffer)
        BY <2>2, <3>1, <3>2
      <4>2. b[i] = tick_buffer[i]
        BY <1>6, <3>1, <3>2
      <4> QED
        BY <2>1, <2>3, <4>1, <4>2 DEF OneWorker
    <3>3. CASE i > Len(tick_buffer)
      <4>1. i = Len(b)
        BY <1>6, <2>2, <3>1, <3>3
      <4>2. b[i] = p
        BY <1>6, <2>2, <3>1, <3>3
      <4> QED
        BY <1>3, <1>6, <2>2, <4>1, <4>2
    <3> QED
      BY <2>2, <3>1, <3>2, <3>3
  <2>5. Running' = Running
    BY <1>2 DEF Running
  <2>6. \A w \in FlushWorkers : \A i \in 1..Len(flush_worker[w].batch) :
          flush_worker[w].batch[i] = p - Len(b) - Len(flush_worker[w].batch) + i
    BY <2>1, <2>3 DEF OneWorker
  <2> QED
    BY <1>2, <2>1, <2>4, <2>5, <2>6 DEF OneWorker
<1> QED
  BY <1>2, <1>7, <1>8, <1>9 DEF TickInv

\* A worker that neither takes nor writes.
LEMMA WorkerGoesOn ==
    ASSUME TickInv, NEW w \in FlushWorkers, StartBatchFlushWorker(w) \/ Wake(w)
    PROVE  TickInv'
<1>1. PICK f : /\ flush_worker' = [flush_worker EXCEPT ![w] = f]
               /\ f \in [pc : {"loop", "stopping", "asleep"}, batch : {<<>>}]
  <2>1. CASE StartBatchFlushWorker(w)
    <3>1. PICK f : f = Worker("loop", <<>>)
      OBVIOUS
    <3>2. f \in [pc : {"loop", "stopping", "asleep"}, batch : {<<>>}]
      BY <3>1 DEF Worker
    <3> QED
      BY <2>1, <3>1, <3>2 DEF StartBatchFlushWorker
  <2>2. CASE Wake(w)
    <3>1. flush_worker[w].batch = <<>> /\ DOMAIN flush_worker[w] = {"pc", "batch"}
      BY <2>2 DEF Wake, TickInv, TickTyped, Writing
    <3>2. PICK f : f = [flush_worker[w] EXCEPT !.pc =
                          IF flush_stop_signal THEN "stopping" ELSE "asleep"]
      OBVIOUS
    <3>3. flush_worker[w] \in [pc : FlushPCs, batch : Seq(1..pushed)]
      BY DEF TickInv, TickTyped
    <3>4. f \in [pc : {"loop", "stopping", "asleep"}, batch : {<<>>}]
      BY <3>1, <3>2, <3>3
    <3> QED
      BY <2>2, <3>2, <3>4 DEF Wake
  <2> QED
    BY <2>1, <2>2
<1>2. TypedWorker(f) /\ f.batch = <<>>
  BY <1>1, EmptyBatch DEF TypedWorker, FlushPCs, Writing
<1>3. /\ UNCHANGED <<tick_buffer, tick_wal, pushed, dropped>> /\ TickTyped
      /\ flush_worker[w].batch = <<>>
  BY DEF StartBatchFlushWorker, Wake, TickInv, TickTyped, Writing
<1>4. TickTyped' /\ InBatches' = InBatches
  <2>1. /\ tick_buffer' \in Seq(1..pushed) /\ tick_wal' \in Seq(1..pushed)
        /\ dropped' \subseteq 1..pushed /\ pushed' = pushed
    BY <1>3 DEF TickTyped
  <2>2. /\ TickTyped' /\ InBatches = Others(w) \cup ToSet(flush_worker[w].batch)
        /\ InBatches' = Others(w) \cup ToSet(f.batch)
    BY ONLY <1>1, <1>2, <1>3, <2>1, w \in FlushWorkers, WorkerMoves
  <2> QED
    BY <1>2, <1>3, <2>2
<1>5. EveryTick'
  BY <1>3, <1>4 DEF TickInv, EveryTick
<1>6. ASSUME ~overlapped' PROVE OneWorker'
  <2>1. OneWorker
    BY <1>6 DEF TickInv, StartBatchFlushWorker, Wake
  <2>2. \A v \in Running : v = w
    <3>1. CASE StartBatchFlushWorker(w)
      BY <1>6, <3>1 DEF StartBatchFlushWorker
    <3>2. CASE Wake(w)
      BY <2>1, <3>2 DEF Wake, OneWorker, Running
    <3> QED
      BY <3>1, <3>2
  <2>3. /\ flush_worker'[w] = f
        /\ \A v \in FlushWorkers \ {w} : flush_worker'[v] = flush_worker[v]
    BY <1>1, <1>3 DEF TickTyped
  <2>4. \A v \in Running' : v = w
    BY <2>2, <2>3 DEF Running
  <2>5. ASSUME NEW v \in FlushWorkers PROVE flush_worker'[v].batch = flush_worker[v].batch
    BY <1>2, <1>3, <2>3
  <2> QED
    BY <1>3, <2>1, <2>4, <2>5 DEF OneWorker
<1> QED
  BY <1>4, <1>5, <1>6 DEF TickInv

\* A worker takes the head of the buffer, or all of it when it is stopped.
LEMMA BatchTaken ==
    ASSUME TickInv, NEW w \in FlushWorkers, TakeBatch(w) \/ TakeRemaining(w)
    PROVE  TickInv'
<1>1. PICK n, write, next :
        /\ n = BatchSize \/ n = Len(tick_buffer)
        /\ write \in Writing /\ next \in {"loop", "gone"}
        /\ flush_worker[w].pc \in {"asleep", "stopping"}
        /\ flush_worker' = [flush_worker EXCEPT ![w] =
              IF n = 0 THEN Worker(next, <<>>) ELSE Worker(write, SubSeq(tick_buffer, 1, n))]
        /\ tick_buffer' = SubSeq(tick_buffer, n + 1, Len(tick_buffer))
        /\ UNCHANGED <<flush_stop_signal, tick_wal, pushed, flush_faults, dropped, overlapped>>
  BY DEF TakeBatch, TakeRemaining, Take, Writing
<1>2. /\ TickTyped /\ tick_buffer \in Seq(1..pushed) /\ pushed \in Nat
      /\ flush_worker[w].batch = <<>> /\ w \in Running
  BY <1>1 DEF TickInv, TickTyped, Writing, Running
<1>3. n \in 0..Len(tick_buffer) /\ n \in Nat /\ Len(tick_buffer) \in Nat
  BY <1>1, <1>2, TickFlushAssumption DEF BatchSize, TickFlushAssumption
<1>4. PICK a, b : a = SubSeq(tick_buffer, 1, n) /\ b = SubSeq(tick_buffer, n + 1, Len(tick_buffer))
  OBVIOUS
<1>5. /\ a \in Seq(1..pushed) /\ Len(a) = n /\ \A i \in 1..n : a[i] = tick_buffer[i]
      /\ b \in Seq(1..pushed) /\ Len(b) = Len(tick_buffer) - n
      /\ \A i \in 1..Len(tick_buffer) - n : b[i] = tick_buffer[n + i]
      /\ ToSet(tick_buffer) = ToSet(a) \cup ToSet(b)
  <2>1. PICK S : S = 1..pushed
    OBVIOUS
  <2>2. tick_buffer \in Seq(S)
    BY <1>2, <2>1
  <2>3. n \in 0..Len(tick_buffer)
    BY <1>3
  <2>4. /\ a \in Seq(S) /\ Len(a) = n /\ \A i \in 1..n : a[i] = tick_buffer[i]
        /\ b \in Seq(S) /\ Len(b) = Len(tick_buffer) - n
        /\ \A i \in 1..Len(tick_buffer) - n : b[i] = tick_buffer[n + i]
        /\ ToSet(tick_buffer) = ToSet(a) \cup ToSet(b)
    <3>1. a = FirstOf(tick_buffer, n) /\ b = RestOf(tick_buffer, n)
      BY <1>4 DEF FirstOf, RestOf
    <3>2. /\ a \in Seq(S) /\ Len(a) = n /\ b \in Seq(S) /\ Len(b) = Len(tick_buffer) - n
          /\ ToSet(tick_buffer) = ToSet(a) \cup ToSet(b)
      BY ONLY <2>2, <2>3, <3>1, CutInTwo
    <3>3. ASSUME NEW i \in 1..n PROVE a[i] = tick_buffer[i]
      BY ONLY <2>2, <2>3, <3>1, i \in 1..n, CutElements
    <3>4. ASSUME NEW i \in 1..Len(tick_buffer) - n PROVE b[i] = tick_buffer[n + i]
      BY ONLY <2>2, <2>3, <3>1, i \in 1..Len(tick_buffer) - n, CutElements
    <3> QED
      BY <3>2, <3>3, <3>4
  <2> QED
    BY <2>1, <2>4
<1>6. PICK f : f = IF n = 0 THEN Worker(next, <<>>) ELSE Worker(write, a)
  OBVIOUS
<1>7. n = 0 => a = <<>>
  BY <1>5
<1>8. f.batch = a /\ TypedWorker(f)
  BY <1>1, <1>5, <1>6, <1>7 DEF TypedWorker, FlushPCs, Writing, Worker
<1>9. flush_worker' = [flush_worker EXCEPT ![w] = f] /\ tick_buffer' = b
  BY <1>1, <1>4, <1>6
<1>10. /\ TickTyped' /\ InBatches = Others(w) /\ InBatches' = Others(w) \cup ToSet(a)
  <2>1. /\ tick_buffer' \in Seq(1..pushed) /\ tick_wal' \in Seq(1..pushed)
        /\ dropped' \subseteq 1..pushed /\ pushed' = pushed
    BY <1>1, <1>2, <1>5, <1>9 DEF TickTyped
  <2>2. /\ TickTyped' /\ InBatches = Others(w) \cup ToSet(flush_worker[w].batch)
        /\ InBatches' = Others(w) \cup ToSet(f.batch)
    BY ONLY <1>2, <1>8, <1>9, <2>1, w \in FlushWorkers, WorkerMoves
  <2> QED
    BY <1>2, <1>8, <2>2, EmptyBatch
<1>11. EveryTick'
  BY <1>1, <1>5, <1>9, <1>10 DEF TickInv, EveryTick
<1>12. ASSUME ~overlapped' PROVE OneWorker'
  <2>1. OneWorker
    BY <1>1, <1>12 DEF TickInv
  <2>2. PICK m : m = Len(tick_buffer)
    OBVIOUS
  <2>3. \A i \in 1..m : tick_buffer[i] = pushed - m + i
    BY <2>1, <2>2 DEF OneWorker
  <2>4. ASSUME NEW i \in 1..Len(b) PROVE b[i] = pushed - Len(b) + i
    <3>1. i \in 1..m - n /\ n + i \in 1..m
      BY <1>3, <1>5, <2>2
    <3>2. b[i] = pushed - m + (n + i)
      BY <1>5, <2>2, <2>3, <3>1
    <3>3. Len(b) = m - n
      BY <1>5, <2>2
    <3> QED
      BY <1>2, <1>3, <2>2, <3>1, <3>2, <3>3
  <2>5. ASSUME NEW i \in 1..Len(a) PROVE a[i] = pushed - Len(b) - Len(a) + i
    <3>1. i \in 1..n /\ i \in 1..m
      BY <1>3, <1>5, <2>2
    <3>2. a[i] = pushed - m + i
      BY <1>5, <2>3, <3>1
    <3>3. Len(b) = m - n /\ Len(a) = n
      BY <1>5, <2>2
    <3> QED
      BY <1>2, <1>3, <2>2, <3>1, <3>2, <3>3
  <2>6. Ordered(tick_wal', dropped')
    BY <1>1, <2>1 DEF OneWorker
  <2>7. pushed' = pushed
    BY <1>1
  <2>8. /\ \A i \in 1..Len(tick_buffer') : tick_buffer'[i] = pushed - Len(tick_buffer') + i
        /\ \A i \in 1..Len(f.batch) :
             f.batch[i] = pushed - Len(tick_buffer') - Len(f.batch) + i
    BY <1>8, <1>9, <2>4, <2>5
  <2> QED
    BY ONLY <1>2, <1>8, <1>9, <2>1, <2>6, <2>7, <2>8, TheWorkerMoves
<1> QED
  BY <1>10, <1>11, <1>12 DEF TickInv

\* The end of a write: n ticks of the batch are stored, and the batch is stored
\* as a whole, back at the head of the buffer, or given up.
LEMMA WriteEnds ==
    ASSUME TickInv, NEW w \in FlushWorkers, flush_worker[w].pc \in Writing,
           NEW next \in {"loop", "gone"},
           flush_worker' = [flush_worker EXCEPT ![w] = Worker(next, <<>>)],
           NEW n \in 0..Len(flush_worker[w].batch),
           tick_wal' = tick_wal \o SubSeq(flush_worker[w].batch, 1, n),
           UNCHANGED <<pushed, overlapped>>,
           \/ n = Len(flush_worker[w].batch) /\ UNCHANGED <<tick_buffer, dropped>>
           \/ tick_buffer' = PutBack(flush_worker[w].batch, tick_buffer) /\ UNCHANGED dropped
           \/ dropped' = dropped \cup ToSet(flush_worker[w].batch) /\ UNCHANGED tick_buffer
    PROVE  TickInv'
<1>1. PICK f, batch, a, b : /\ f = Worker(next, <<>>) /\ batch = flush_worker[w].batch
                            /\ a = SubSeq(batch, 1, n) /\ b = SubSeq(batch, n + 1, Len(batch))
  OBVIOUS
<1>2. /\ TickTyped /\ tick_buffer \in Seq(1..pushed) /\ tick_wal \in Seq(1..pushed)
      /\ pushed \in Nat /\ batch \in Seq(1..pushed) /\ dropped \subseteq 1..pushed
      /\ w \in Running
  BY <1>1 DEF TickInv, TickTyped, Writing, Running
<1>3. f.batch = <<>> /\ TypedWorker(f) /\ flush_worker' = [flush_worker EXCEPT ![w] = f]
  BY <1>1, EmptyBatch DEF Worker, TypedWorker, FlushPCs
<1>4. n \in 0..Len(batch) /\ Len(batch) \in Nat
  BY <1>1, <1>2
<1>5. /\ a \in Seq(1..pushed) /\ b \in Seq(1..pushed)
      /\ ToSet(batch) = ToSet(a) \cup ToSet(b) /\ Len(b) = Len(batch) - n
  <2>1. a = SubSeq(batch, 1, n) /\ b = SubSeq(batch, n + 1, Len(batch))
    BY <1>1
  <2>2. PICK S : S = 1..pushed
    OBVIOUS
  <2>3. batch \in Seq(S) /\ n \in 0..Len(batch)
    BY <1>2, <1>4, <2>2
  <2>4. /\ a \in Seq(S) /\ b \in Seq(S)
        /\ ToSet(batch) = ToSet(a) \cup ToSet(b) /\ Len(b) = Len(batch) - n
    <3>1. a = FirstOf(batch, n) /\ b = RestOf(batch, n)
      BY <2>1 DEF FirstOf, RestOf
    <3> QED
      BY ONLY <2>3, <3>1, CutInTwo
  <2> QED
    BY <2>2, <2>4
<1>6. /\ tick_wal' \in Seq(1..pushed) /\ ToSet(tick_wal') = ToSet(tick_wal) \cup ToSet(a)
  <2>1. tick_wal' = tick_wal \o a
    BY <1>1
  <2>2. tick_wal \in Seq(1..pushed)
    BY <1>2
  <2> QED
    BY ONLY <1>5, <2>1, <2>2, SetOfBoth
<1>7. /\ batch \o tick_buffer \in Seq(1..pushed)
      /\ ToSet(batch \o tick_buffer) = ToSet(batch) \cup ToSet(tick_buffer)
  BY <1>2, SetOfBoth
<1>8. ToSet(batch) \subseteq 1..pushed
  BY <1>2 DEF ToSet
<1>9. \/ n = Len(batch) /\ tick_buffer' = tick_buffer /\ dropped' = dropped
      \/ tick_buffer' = batch \o tick_buffer /\ dropped' = dropped
      \/ dropped' = dropped \cup ToSet(batch) /\ tick_buffer' = tick_buffer
  BY <1>1 DEF PutBack
<1>10. tick_buffer' \in Seq(1..pushed) /\ dropped' \subseteq 1..pushed /\ dropped \subseteq dropped'
  BY <1>2, <1>7, <1>8, <1>9
<1>11. /\ TickTyped' /\ InBatches = Others(w) \cup ToSet(batch)
       /\ InBatches' = Others(w) \cup ToSet(f.batch)
  <2>1. pushed' = pushed
    OBVIOUS
  <2>2. /\ TickTyped' /\ InBatches = Others(w) \cup ToSet(flush_worker[w].batch)
        /\ InBatches' = Others(w) \cup ToSet(f.batch)
    BY ONLY <1>2, <1>3, <1>6, <1>10, <2>1, w \in FlushWorkers, WorkerMoves
  <2> QED
    BY <1>1, <2>2
<1>12. EveryTick'
  <2>1. InBatches' = Others(w)
    BY <1>3, <1>11, EmptyBatch
  <2>2. 1..pushed = ToSet(tick_wal) \cup ToSet(tick_buffer) \cup Others(w) \cup ToSet(batch) \cup dropped
    BY <1>11 DEF TickInv, EveryTick
  <2>3. ToSet(a) \subseteq 1..pushed
    BY <1>5, <1>8
  <2>4. n = Len(batch) => ToSet(batch) = ToSet(a)
    <3>1. n = Len(batch) => Len(b) = 0
      BY <1>4, <1>5
    <3>2. b \in Seq(1..pushed)
      BY <1>5
    <3>3. Len(b) = 0 => ToSet(b) = {}
      BY <3>2 DEF ToSet
    <3> QED
      BY <1>5, <3>1, <3>3
  <2>5. 1..pushed = ToSet(tick_wal') \cup ToSet(tick_buffer') \cup Others(w) \cup dropped'
    <3>1. CASE n = Len(batch) /\ tick_buffer' = tick_buffer /\ dropped' = dropped
      BY <1>6, <2>2, <2>4, <3>1
    <3>2. CASE tick_buffer' = batch \o tick_buffer /\ dropped' = dropped
      BY <1>6, <1>7, <2>2, <2>3, <3>2
    <3>3. CASE dropped' = dropped \cup ToSet(batch) /\ tick_buffer' = tick_buffer
      BY <1>6, <2>2, <2>3, <3>3
    <3> QED
      BY <1>9, <3>1, <3>2, <3>3
  <2> QED
    BY <2>1, <2>5 DEF EveryTick
<1>13. ASSUME ~overlapped' PROVE OneWorker'
  <2>1. OneWorker
    BY <1>13 DEF TickInv
  <2>2. Ordered(tick_wal', dropped')
    BY <1>2, <1>10, <2>1, Stores
  <2>3. \A i \in 1..Len(tick_buffer') : tick_buffer'[i] = pushed - Len(tick_buffer') + i
    <3>1. CASE tick_buffer' = tick_buffer
      BY <2>1, <3>1 DEF OneWorker
    <3>2. CASE tick_buffer' = batch \o tick_buffer
      <4>1. PICK c, l, m : c = batch \o tick_buffer /\ l = Len(batch) /\ m = Len(tick_buffer)
        OBVIOUS
      <4>2. /\ l \in Nat /\ m \in Nat /\ Len(c) = l + m
            /\ \A i \in 1..l + m : c[i] = IF i <= l THEN batch[i] ELSE tick_buffer[i - l]
        BY <1>2, <4>1, ConcatProperties
      <4>3. \A i \in 1..m : tick_buffer[i] = pushed - m + i
        BY <2>1, <4>1 DEF OneWorker
      <4>4. \A i \in 1..l : batch[i] = pushed - m - l + i
        BY <1>1, <2>1, <4>1 DEF OneWorker
      <4>5. ASSUME NEW i \in 1..l + m PROVE c[i] = pushed - (l + m) + i
        <5>1. CASE i <= l
          <6>1. i \in 1..l /\ pushed - m - l + i = pushed - (l + m) + i
            BY <1>2, <4>2, <5>1
          <6> QED
            BY <4>2, <4>4, <5>1, <6>1
        <5>2. CASE i > l
          <6>1. l \in Nat /\ m \in Nat /\ pushed \in Nat /\ i \in 1..l + m /\ i > l
            BY <1>2, <4>2, <5>2
          <6>2. i - l \in 1..m /\ ~(i <= l)
            BY ONLY <6>1
          <6>3. pushed - m + (i - l) = pushed - (l + m) + i
            BY ONLY <6>1
          <6> QED
            BY <4>2, <4>3, <6>2, <6>3
        <5> QED
          BY <4>2, <5>1, <5>2
      <4> QED
        BY <3>2, <4>1, <4>2, <4>5
    <3> QED
      BY <1>9, <3>1, <3>2
  <2>4. \A i \in 1..Len(f.batch) : f.batch[i] = pushed - Len(tick_buffer') - Len(f.batch) + i
    BY <1>3, EmptyBatch
  <2>5. pushed' = pushed
    OBVIOUS
  <2> QED
    BY ONLY <1>2, <1>3, <2>1, <2>2, <2>3, <2>4, <2>5, TheWorkerMoves
<1> QED
  BY <1>11, <1>12, <1>13 DEF TickInv

\* write_batch returns, with Ok or with Err.
LEMMA BatchEnds ==
    ASSUME TickInv, NEW w \in FlushWorkers, BatchWritten(w) \/ BatchFails(w) \/ RemainingFails(w)
    PROVE  TickInv'
<1>1. CASE BatchWritten(w)
  <2>1. PICK n : n = Len(flush_worker[w].batch)
    OBVIOUS
  <2>2. flush_worker[w].batch \in Seq(1..pushed)
    BY DEF TickInv, TickTyped
  <2>3. n \in 0..Len(flush_worker[w].batch) /\ SubSeq(flush_worker[w].batch, 1, n) = flush_worker[w].batch
    BY <2>1, <2>2
  <2>4. PICK next \in {"loop", "gone"} : flush_worker' = [flush_worker EXCEPT ![w] = Worker(next, <<>>)]
    BY <1>1 DEF BatchWritten
  <2> QED
    BY <1>1, <2>1, <2>3, <2>4, WriteEnds DEF BatchWritten, Writing
<1>2. CASE BatchFails(w)
  BY <1>2, WriteEnds DEF BatchFails, WriteFails, Writing
<1>3. CASE RemainingFails(w)
  BY <1>3, WriteEnds DEF RemainingFails, WriteFails, Writing
<1> QED
  BY <1>1, <1>2, <1>3

\* No tick that persist_tick_data has put into the buffer is lost but those of a
\* last write that failed (start_batch_flush_worker when it is stopped), and they
\* are stored in order as long as workers do not overlap.
THEOREM TicksAreKept == TickSpec => []TicksKept
<1>1. TickInit => TickInv
  <2> SUFFICES ASSUME TickInit PROVE TickInv
    OBVIOUS
  <2>1. /\ DOMAIN flush_worker = FlushWorkers
        /\ \A w \in FlushWorkers : flush_worker[w] = Worker("none", <<>>)
    BY DEF TickInit
  <2>2. pushed = 0 /\ 1..pushed = {}
    BY DEF TickInit
  <2>3. TickTyped
    BY <2>1, <2>2, EmptyBatch DEF TickInit, TickTyped, Worker, FlushPCs
  <2>4. InBatches = {}
    BY <2>1, EmptyBatch DEF InBatches, Worker
  <2>5. EveryTick
    BY <2>2, <2>4, EmptyBatch DEF TickInit, EveryTick
  <2>6. OneWorker
    BY <2>1, EmptyBatch DEF TickInit, OneWorker, Running, Worker, Ordered
  <2> QED
    BY <2>3, <2>5, <2>6 DEF TickInv
<1>2. TickInv /\ [TickNext]_tickVars => TickInv'
  <2> SUFFICES ASSUME TickInv, [TickNext]_tickVars PROVE TickInv'
    OBVIOUS
  <2>1. CASE PushTick
    BY <2>1, TickComes
  <2>2. CASE StopBatchFlushWorker \/ UNCHANGED tickVars
    <3>1. UNCHANGED <<tick_buffer, flush_worker, tick_wal, pushed, dropped, overlapped>>
      BY <2>2 DEF StopBatchFlushWorker, tickVars
    <3>2. TickTyped' /\ EveryTick'
      BY <3>1 DEF TickInv, TickTyped, EveryTick, InBatches
    <3>3. OneWorker => OneWorker'
      BY <3>1 DEF OneWorker, Running
    <3> QED
      BY <3>1, <3>2, <3>3 DEF TickInv
  <2>3. ASSUME NEW w \in FlushWorkers, StartBatchFlushWorker(w) \/ Wake(w) PROVE TickInv'
    BY <2>3, WorkerGoesOn
  <2>4. ASSUME NEW w \in FlushWorkers, TakeBatch(w) \/ TakeRemaining(w) PROVE TickInv'
    BY <2>4, BatchTaken
  <2>5. ASSUME NEW w \in FlushWorkers, BatchWritten(w) \/ BatchFails(w) \/ RemainingFails(w)
        PROVE  TickInv'
    BY <2>5, BatchEnds
  <2> QED
    BY <2>1, <2>2, <2>3, <2>4, <2>5 DEF TickNext
<1>3. TickInv => TicksKept
  <2> SUFFICES ASSUME TickInv PROVE TicksKept
    OBVIOUS
  <2>1. ASSUME ~overlapped, NEW i \in DOMAIN tick_wal
        PROVE  1..tick_wal[i] \subseteq {tick_wal[j] : j \in 1..i} \cup dropped
    <3>1. i \in 1..Len(tick_wal) /\ Ordered(tick_wal, dropped)
      BY <2>1 DEF TickInv, TickTyped, OneWorker
    <3> QED
      BY <3>1 DEF Ordered
  <2> QED
    BY <2>1 DEF TickInv, EveryTick, TicksKept
<1> QED
  BY <1>1, <1>2, <1>3, PTL DEF TickSpec
=============================================================================
