------------------------------ MODULE TickFlush ------------------------------
(***************************************************************************)
(* Ticks on their way to the storage: threads of the order router put them *)
(* into tick_buffer (persist_tick_data, persist_orderbook_tick), and the   *)
(* worker of start_batch_flush_worker writes them in batches               *)
(* (src/src/exchange/order_router.rs).  Ticks are numbered in the order of *)
(* the buffer.                                                             *)
(*                                                                         *)
(* A worker that is asked to stop may still be writing when another one is *)
(* started: stop_batch_flush_worker waits for 100 ms, not for the thread.  *)
(***************************************************************************)
EXTENDS Integers, FiniteSets, SequencesExt

CONSTANTS
    FlushWorkers,    \* threads, each started at most once
    BatchLimit,      \* most records of a batch
    TickLimit,       \* bound on the ticks
    FlushFaults      \* bound on failing writes

ASSUME TickFlushAssumption ==
    /\ IsFiniteSet(FlushWorkers)
    /\ BatchLimit \in Nat \ {0} /\ {TickLimit, FlushFaults} \subseteq Nat

VARIABLES
    tick_buffer,     \* ticks not yet taken
    flush_worker,    \* flush_worker[w]: [pc, batch]
    flush_stop_signal,
    tick_wal,        \* ticks in the storage
    pushed,          \* ticks put into the buffer so far
    flush_faults,
    dropped,         \* history: ticks of a failed write at the end of a worker
    overlapped       \* history: two workers have run at a time

tickVars == <<tick_buffer, flush_worker, flush_stop_signal, tick_wal, pushed, flush_faults,
              dropped, overlapped>>

Worker(pc, batch) == [pc |-> pc, batch |-> batch]
Running == {w \in FlushWorkers : flush_worker[w].pc \notin {"none", "gone"}}

TickInit ==
    /\ tick_buffer = <<>> /\ tick_wal = <<>>
    /\ flush_worker = [w \in FlushWorkers |-> Worker("none", <<>>)]
    /\ flush_stop_signal = FALSE
    /\ pushed = 0 /\ flush_faults = 0
    /\ dropped = {} /\ overlapped = FALSE

PushTick ==
    /\ pushed < TickLimit
    /\ pushed' = pushed + 1
    /\ tick_buffer' = Append(tick_buffer, pushed + 1)
    /\ UNCHANGED <<flush_worker, flush_stop_signal, tick_wal, flush_faults, dropped, overlapped>>

StartBatchFlushWorker(w) ==
    /\ flush_worker[w].pc = "none"
    /\ Running = {} \/ flush_stop_signal
    /\ flush_worker' = [flush_worker EXCEPT ![w] = Worker("loop", <<>>)]
    /\ flush_stop_signal' = FALSE
    /\ overlapped' = (overlapped \/ Running # {})
    /\ UNCHANGED <<tick_buffer, tick_wal, pushed, flush_faults, dropped>>

StopBatchFlushWorker ==
    /\ Running # {} /\ ~flush_stop_signal
    /\ flush_stop_signal' = TRUE
    /\ UNCHANGED <<tick_buffer, flush_worker, tick_wal, pushed, flush_faults, dropped, overlapped>>

\* The stop signal is looked at before the sleep of 10 ms.
Wake(w) ==
    /\ flush_worker[w].pc = "loop"
    /\ flush_worker' = [flush_worker EXCEPT ![w].pc =
                          IF flush_stop_signal THEN "stopping" ELSE "asleep"]
    /\ UNCHANGED <<tick_buffer, flush_stop_signal, tick_wal, pushed, flush_faults, dropped,
                   overlapped>>

Take(w, pc, n, write, next) ==
    /\ flush_worker[w].pc = pc
    /\ flush_worker' = [flush_worker EXCEPT ![w] =
         IF n = 0 THEN Worker(next, <<>>)
         ELSE Worker(write, SubSeq(tick_buffer, 1, n))]
    /\ tick_buffer' = SubSeq(tick_buffer, n + 1, Len(tick_buffer))
    /\ UNCHANGED <<flush_stop_signal, tick_wal, pushed, flush_faults, dropped, overlapped>>

BatchSize == IF Len(tick_buffer) < BatchLimit THEN Len(tick_buffer) ELSE BatchLimit
TakeBatch(w) == Take(w, "asleep", BatchSize, "write asleep", "loop")
TakeRemaining(w) == Take(w, "stopping", Len(tick_buffer), "write stopping", "gone")

\* write_batch returns Ok.
BatchWritten(w) ==
    /\ flush_worker[w].pc \in {"write asleep", "write stopping"}
    /\ tick_wal' = tick_wal \o flush_worker[w].batch
    /\ flush_worker' = [flush_worker EXCEPT ![w] =
         Worker(IF @.pc = "write asleep" THEN "loop" ELSE "gone", <<>>)]
    /\ UNCHANGED <<tick_buffer, flush_stop_signal, pushed, flush_faults, dropped, overlapped>>

\* write_batch returns Err.  What it has written stays: nothing, a part, or
\* all when only the flush of the MemTable has failed.
WriteFails(w) ==
    /\ flush_faults < FlushFaults /\ flush_faults' = flush_faults + 1
    /\ \E n \in 0..Len(flush_worker[w].batch) :
         tick_wal' = tick_wal \o SubSeq(flush_worker[w].batch, 1, n)
    /\ UNCHANGED <<flush_stop_signal, pushed, overlapped>>

\* Mutant of PutBack: the batch is put behind what has come meanwhile.
PutBackBehind(batch, buffer) == buffer \o batch
PutBack(batch, buffer) == batch \o buffer

BatchFails(w) ==
    /\ flush_worker[w].pc = "write asleep"
    /\ WriteFails(w)
    /\ tick_buffer' = PutBack(flush_worker[w].batch, tick_buffer)
    /\ flush_worker' = [flush_worker EXCEPT ![w] = Worker("loop", <<>>)]
    /\ UNCHANGED dropped

\* The last write of a worker is not tried again.
RemainingFails(w) ==
    /\ flush_worker[w].pc = "write stopping"
    /\ WriteFails(w)
    /\ dropped' = dropped \cup ToSet(flush_worker[w].batch)
    /\ flush_worker' = [flush_worker EXCEPT ![w] = Worker("gone", <<>>)]
    /\ UNCHANGED tick_buffer

TickNext ==
    \/ PushTick \/ StopBatchFlushWorker
    \/ \E w \in FlushWorkers :
         \/ StartBatchFlushWorker(w) \/ Wake(w) \/ TakeBatch(w) \/ TakeRemaining(w)
         \/ BatchWritten(w) \/ BatchFails(w) \/ RemainingFails(w)

TickSpec == TickInit /\ [][TickNext]_tickVars
------------------------------------------------------------------------------
(* Properties. *)

InBatches == UNION {ToSet(flush_worker[w].batch) : w \in FlushWorkers}

TickTypeOK ==
    /\ tick_buffer \in Seq(1..pushed) /\ tick_wal \in Seq(1..pushed)
    /\ \A w \in FlushWorkers : flush_worker[w].batch \in Seq(1..pushed)

\* A tick is stored, in the buffer or in a batch, whatever writes fail, except
\* for those of a last write that failed; and as long as workers have not
\* overlapped, no tick is stored before an earlier one, so that the storage
\* holds the ticks in order with repetitions of batches tried again.
TicksKept ==
    /\ 1..pushed = ToSet(tick_wal) \cup ToSet(tick_buffer) \cup InBatches \cup dropped
    /\ ~overlapped =>
         \A i \in DOMAIN tick_wal :
             1..tick_wal[i] \subseteq {tick_wal[j] : j \in 1..i} \cup dropped
=============================================================================
