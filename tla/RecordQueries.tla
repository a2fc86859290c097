---------------------------- MODULE RecordQueries ----------------------------
(***************************************************************************)
(* How stored records are found again.  First the secondary indexes by     *)
(* time, instrument and record type (CompositeIndexManager of              *)
(* src/src/storage/index/) and the sparse index over the blocks of an      *)
(* SSTable (src/src/storage/sstable/block_index.rs): a record is known by  *)
(* its offset, the order in which it was added; times need not come in     *)
(* order.                                                                  *)
(*                                                                         *)
(* Then a query over time, which asks up to three holders of the same      *)
(* records: the stream buffer for the last moments                         *)
(* (src/src/query/hybrid.rs), the storage for what is recent and the       *)
(* Parquet files for what is old (src/src/storage/hybrid/batch_source.rs). *)
(* UnifiedQueryEngine (src/src/query/unified.rs) holds two copies of the   *)
(* adapter that knows the files: one answers queries, the other            *)
(* aggregates.  There records are numbered as they are written, and their  *)
(* time is that moment.                                                    *)
(***************************************************************************)
EXTENDS Integers, FiniteSetsExt, SequencesExt

CONSTANTS
    IndexedTimes,   \* time stamps
    Indexed,        \* instruments
    NoIndexed,      \* of a record without an instrument, of a query for any
    RecordTypes,
    IndexEntries,   \* bound on the records added
    BlockEntries    \* entries of a block

ASSUME IndexAssumption ==
    IndexedTimes \subseteq Int /\ BlockEntries \in Nat \ {0} /\ NoIndexed \notin Indexed

VARIABLES entries, time_index, instrument_index, type_index
indexVars == <<entries, time_index, instrument_index, type_index>>

\* One series: the offsets of each time stamp, and the range of all of them.
EmptySeries == [offsets |-> [t \in {} |-> <<>>], range |-> <<>>]

AddTo(series, t, offset) ==
    LET known == DOMAIN series.offsets
        at == IF t \in known THEN series.offsets[t] ELSE <<>>
    IN  [offsets |-> [u \in known \cup {t} |->
                        IF u = t THEN Append(at, offset) ELSE series.offsets[u]],
         range |-> IF series.range = <<>> THEN <<t, t>>
                   ELSE <<Min({series.range[1], t}), Max({series.range[2], t})>>]

Outside(range, first, last) == range # <<>> /\ (last < range[1] \/ first > range[2])

QueryRange(series, first, last) ==
    IF Outside(series.range, first, last) THEN <<>>
    ELSE FlattenSeq([k \in 1..last - first + 1 |->
             IF first + k - 1 \in DOMAIN series.offsets
             THEN series.offsets[first + k - 1] ELSE <<>>])

IndexInit ==
    /\ entries = <<>> /\ time_index = EmptySeries
    /\ instrument_index = [i \in Indexed |-> EmptySeries]
    /\ type_index = [r \in RecordTypes |-> EmptySeries]

\* add_entry: a record without an instrument is in two of the three indexes.
AddEntry(t, i, r) ==
    LET offset == Len(entries) + 1
    IN  /\ Len(entries) < IndexEntries
        /\ entries' = Append(entries, [time |-> t, instrument |-> i, type |-> r])
        /\ time_index' = AddTo(time_index, t, offset)
        /\ instrument_index' = IF i = NoIndexed THEN instrument_index
                               ELSE [instrument_index EXCEPT ![i] = AddTo(@, t, offset)]
        /\ type_index' = [type_index EXCEPT ![r] = AddTo(@, t, offset)]

IndexClear ==
    /\ entries # <<>> /\ entries' = <<>> /\ time_index' = EmptySeries
    /\ instrument_index' = [i \in Indexed |-> EmptySeries]
    /\ type_index' = [r \in RecordTypes |-> EmptySeries]

IndexNext ==
    \/ \E t \in IndexedTimes, i \in Indexed \cup {NoIndexed}, r \in RecordTypes : AddEntry(t, i, r)
    \/ IndexClear
------------------------------------------------------------------------------
ContainsOffset(series, offset) ==
    \E t \in DOMAIN series.offsets : offset \in Range(series.offsets[t])

\* query_range_for_types: the types one after the other, then by offset.
QueryRangeForTypes(first, last, types) ==
    SetToSortSeq(UNION {Range(QueryRange(type_index[r], first, last)) : r \in types}, <)

\* query_offsets: NoIndexed asks for any instrument, for any type.
QueryOffsets(first, last, i, types) ==
    IF i # NoIndexed
    THEN SelectSeq(QueryRange(instrument_index[i], first, last),
                   LAMBDA o : types # NoIndexed =>
                       \E r \in types : ContainsOffset(type_index[r], o))
    ELSE IF types # NoIndexed
    THEN QueryRangeForTypes(first, last, types)
    ELSE QueryRange(time_index, first, last)
------------------------------------------------------------------------------
\* An SSTable holds its entries by time and then by sequence number.
Before(k, m) == k.time < m.time \/ (k.time = m.time /\ k.sequence < m.sequence)
SortedKeys ==
    SortSeq([o \in DOMAIN entries |-> [time |-> entries[o].time, sequence |-> o]], Before)

\* The keys of block b, BlockEntries of them; the last block may have fewer.
Blocks(keys) == (Len(keys) + BlockEntries - 1) \div BlockEntries
BlockKeys(keys, b) ==
    SubSeq(keys, (b - 1) * BlockEntries + 1, Min({b * BlockEntries, Len(keys)}))

\* finish_block: a block is recorded when enough entries came since the last
\* one that was, and the first always.
FinishBlock(built, block, interval) ==
    LET since == built.since + Len(block)
    IN  IF since >= interval \/ built.index = <<>>
        THEN [index |-> Append(built.index, [first |-> block[1], last |-> block[Len(block)]]),
              since |-> 0]
        ELSE [built EXCEPT !.since = since]

BlockIndex(keys, interval) ==
    FoldLeft(LAMBDA built, b : FinishBlock(built, BlockKeys(keys, b), interval),
             [index |-> <<>>, since |-> 0], [b \in 1..Blocks(keys) |-> b]).index

\* Mutant of EndsBefore: the sequence numbers are left out.
EndsBeforeInTime(block, key) == block.last.time < key.time
\* partition_point: how many blocks come before the first that does not end
\* before the key.
EndsBefore(block, key) == Before(block.last, key)
FindBlock(index, key) ==
    LET rest == SelectSeq(index, LAMBDA b : ~EndsBefore(b, key))
    IN  IF rest = <<>> \/ key.time < rest[1].first.time \/ key.time > rest[1].last.time
        THEN <<>> ELSE <<rest[1]>>

FindBlocksInRange(index, first, last) ==
    LET late == {k \in DOMAIN index : index[k].last.time >= first}
        stop == {k \in late : index[k].first.time > last}
    IN  {index[k] : k \in {k \in late : \A s \in stop : k < s}}
------------------------------------------------------------------------------
Spans == {<<first, last>> \in IndexedTimes \X IndexedTimes : first <= last}

Wanted(first, last, i, types) ==
    {o \in DOMAIN entries : /\ entries[o].time \in first..last
                            /\ types # NoIndexed => entries[o].type \in types
                            /\ i # NoIndexed => entries[o].instrument = i}

\* Whichever index query_offsets takes, it finds the records asked for, each
\* once: by time and arrival, of any instrument but given types by arrival.
AllPathsAgree ==
    \A s \in Spans, i \in Indexed \cup {NoIndexed}, types \in SUBSET RecordTypes \cup {NoIndexed} :
        LET found == QueryOffsets(s[1], s[2], i, types)
        IN  /\ Range(found) = Wanted(s[1], s[2], i, types)
            /\ \A k \in 1..Len(found) - 1 :
                 IF i = NoIndexed /\ types # NoIndexed
                 THEN found[k] < found[k + 1]
                 ELSE Before([time |-> entries[found[k]].time, sequence |-> found[k]],
                             [time |-> entries[found[k + 1]].time, sequence |-> found[k + 1]])

\* A key of a recorded block is found in that block, whatever other blocks
\* start or end at the same time; a range finds the recorded blocks that have
\* a key in it or around it; with an interval of one no block is skipped.
BlocksFound ==
    LET keys == SortedKeys IN
    \A interval \in 1..BlockEntries + 1 :
        LET index == BlockIndex(keys, interval)
            Holds(block, key) == ~Before(key, block.first) /\ ~Before(block.last, key)
        IN  /\ \A b \in Range(index), key \in Range(keys) :
                 Holds(b, key) => FindBlock(index, key) = <<b>>
            /\ \A s \in Spans : FindBlocksInRange(index, s[1], s[2]) =
                 {b \in Range(index) : b.first.time <= s[2] /\ b.last.time >= s[1]}
            /\ interval <= 1 => \A key \in Range(keys) : FindBlock(index, key) # <<>>

IndexesAgree == AllPathsAgree /\ BlocksFound
------------------------------------------------------------------------------
(* Queries over the stream, the storage and the files. *)

CONSTANTS
    QueryTypes,      \* record types
    LastMoment,      \* bound on time
    StoredRecords,   \* bound on the records written
    StreamWindow,    \* moments that the stream answers for
    StreamLimit      \* records that the stream buffer keeps

ASSUME QueryAssumption == LastMoment \in Nat /\ StreamWindow \in Nat /\ StreamLimit \in Nat \ {0}

VARIABLES
    now,
    stored,            \* sequence of [time, type]: MemTable and SSTables
    converted,         \* records that Parquet files hold
    olap,              \* the files the storage has loaded, and its cutoff
    query_source,      \* the copies of both in the two adapters
    aggregate_source,
    stream, pushed     \* the buffer; records that were ever put into it
queryVars == <<now, stored, converted, olap, query_source, aggregate_source, stream, pushed>>

Moment == 1..LastMoment
TimeOf(n) == stored[n].time
\* calculate_olap_cutoff: the latest time in any file.
Loaded(files) == [files |-> files, cutoff |-> IF files = {} THEN 0 ELSE Max({TimeOf(n) : n \in files})]
Unloaded == [files |-> {}, cutoff |-> 0]

QueryInit ==
    /\ now = 1 /\ stored = <<>> /\ converted = {} /\ olap = Unloaded
    /\ query_source = Unloaded /\ aggregate_source = Unloaded /\ stream = <<>> /\ pushed = {}

ClockTicks ==
    /\ now < LastMoment /\ now' = now + 1
    /\ UNCHANGED <<stored, converted, olap, query_source, aggregate_source, stream, pushed>>

StoreRecord(r) ==
    /\ Len(stored) < StoredRecords /\ stored' = Append(stored, [time |-> now, type |-> r])
    /\ UNCHANGED <<now, converted, olap, query_source, aggregate_source, stream, pushed>>

\* The SSTables of records first..last, all of them old, become a file; the
\* conversion of those before may have failed.
Convert(first, last) ==
    /\ first..last \cap converted = {} /\ TimeOf(last) < now
    /\ converted' = converted \cup first..last
    /\ UNCHANGED <<now, stored, olap, query_source, aggregate_source, stream, pushed>>

RefreshOlapFiles ==
    /\ olap' = Loaded(converted)
    /\ UNCHANGED <<now, stored, converted, query_source, aggregate_source, stream, pushed>>

\* with_storage: the adapter is copied; a new engine has an empty buffer.
WithStorage ==
    /\ query_source' = olap /\ aggregate_source' = olap /\ stream' = <<>> /\ pushed' = {}
    /\ UNCHANGED <<now, stored, converted, olap>>

\* refresh_olap reaches one of the copies.
RefreshOlap ==
    /\ aggregate_source' = olap
    /\ UNCHANGED <<now, stored, converted, olap, query_source, stream, pushed>>

\* push_stream, of several producers: not always in the order of the records.
PushStream(n) ==
    /\ n \notin pushed /\ pushed' = pushed \cup {n}
    /\ LET longer == Append(stream, n)
       IN  stream' = SubSeq(longer, Len(longer) - Min({Len(longer), StreamLimit}) + 1, Len(longer))
    /\ UNCHANGED <<now, stored, converted, olap, query_source, aggregate_source>>

Cleanup(from) ==
    /\ stream' = SelectSeq(stream, LAMBDA n : TimeOf(n) >= from)
    /\ UNCHANGED <<now, stored, converted, olap, query_source, aggregate_source, pushed>>

QueryNext ==
    \/ ClockTicks
    \/ \E r \in QueryTypes : StoreRecord(r)
    \/ \E first, last \in DOMAIN stored : first <= last /\ Convert(first, last)
    \/ RefreshOlapFiles
    \/ WithStorage
    \/ RefreshOlap
    \/ \E n \in DOMAIN stored : PushStream(n)
    \/ \E from \in Moment : Cleanup(from)
------------------------------------------------------------------------------
Within(n, start, end) == TimeOf(n) >= start /\ TimeOf(n) <= end
\* sort_by_key is stable.
Sorted(found, Earlier(_, _)) ==
    LET order == SortSeq([k \in DOMAIN found |-> k], LAMBDA j, k :
                     \/ Earlier(TimeOf(found[j]), TimeOf(found[k]))
                     \/ (TimeOf(found[j]) = TimeOf(found[k]) /\ j < k))
    IN  [k \in DOMAIN found |-> found[order[k]]]
ByTime(found) == Sorted(found, <)
ByTimeReversed(found) == Sorted(found, >)

\* range_query of the storage and of every file, by time and sequence number.
QueryOltp(start, end) ==
    SelectSeq([n \in DOMAIN stored |-> n], LAMBDA n : Within(n, start, end))
QueryOlap(source, start, end) ==
    SelectSeq(QueryOltp(start, end), LAMBDA n : n \in source.files)

\* Mutant of AsksOltp: records at the cutoff are left to the files.
AsksOltpAfter(source, end) == end > source.cutoff
AsksOltp(source, end) == end >= source.cutoff
AsksOlap(source, start) == start < source.cutoff /\ source.files # {}

\* OltpBatchAdapter::query: both sides have the records at the cutoff.
BatchQuery(source, start, end) ==
    ByTime((IF AsksOlap(source, start)
            THEN QueryOlap(source, start, Min({end, source.cutoff})) ELSE <<>>)
        \o (IF AsksOltp(source, end)
            THEN QueryOltp(Max({start, source.cutoff}), end) ELSE <<>>))

\* query_filtered: a filter names types and a page.
Matching(found, types) == SelectSeq(found, LAMBDA n : stored[n].type \in types)
Page(found, offset, limit) == SubSeq(found, offset + 1, Min({offset + limit, Len(found)}))
QueryFiltered(source, start, end, types, offset, limit) ==
    Page(Matching(BatchQuery(source, start, end), types), offset, limit)

\* dedup_by drops the later of two neighbours with the same time.
Dedup(found) ==
    FoldLeft(LAMBDA kept, n : IF kept # <<>> /\ TimeOf(kept[Len(kept)]) = TimeOf(n)
                              THEN kept ELSE Append(kept, n), <<>>, found)

Strategies == {"StreamFirst", "BatchFirst", "ByTimestamp", "Latest"}
MergeResults(strategy, streamed, batch) ==
    CASE strategy = "StreamFirst" -> ByTime(streamed \o SelectSeq(batch, LAMBDA n :
                \A m \in Range(streamed) : TimeOf(n) < TimeOf(m)))
      [] strategy = "BatchFirst" -> ByTime(batch \o SelectSeq(streamed, LAMBDA n :
                \A m \in Range(batch) : TimeOf(n) > TimeOf(m)))
      [] strategy = "ByTimestamp" -> Dedup(ByTime(batch \o streamed))
      [] strategy = "Latest" -> ByTimeReversed(batch \o streamed)

StreamCutoff == now - StreamWindow
\* HybridQueryEngine::query, when the batch source does not fail.
HybridAnswer(strategy, start, end) ==
    LET stream_start == Max({start, StreamCutoff})
        batch_end == Min({end, StreamCutoff})
    IN  MergeResults(strategy,
            IF stream_start < end
            THEN SelectSeq(stream, LAMBDA n : Within(n, stream_start, end)) ELSE <<>>,
            IF start < batch_end THEN BatchQuery(query_source, start, batch_end) ELSE <<>>)
------------------------------------------------------------------------------
Asked == 0..LastMoment
Times(records) == {TimeOf(n) : n \in records}
Count(found, n) == Cardinality({k \in DOMAIN found : found[k] = n})

\* A record that a source does not give: it is older than the files it knows,
\* and was not converted.
Skipped(source) ==
    {n \in DOMAIN stored \ source.files : \E m \in source.files : TimeOf(m) > TimeOf(n)}

\* Across the border of files and storage every record is found that the
\* conversions did not skip, and once, except that one at the cutoff may come
\* twice; nothing else is found, and by time.
BatchExact ==
    \A source \in {query_source, aggregate_source}, start, end \in Asked : start <= end =>
        LET found == BatchQuery(source, start, end)
            skipped == Skipped(source)
        IN  /\ \A n \in DOMAIN stored :
                 Count(found, n) \in IF ~Within(n, start, end) \/ n \in skipped THEN {0}
                                     ELSE IF TimeOf(n) = source.cutoff THEN {1, 2} ELSE {1}
            /\ \A k \in 1..Len(found) - 1 : TimeOf(found[k]) <= TimeOf(found[k + 1])

\* The pages of a filtered query, whatever their size, are the whole of it.
PagesExact ==
    \A types \in SUBSET QueryTypes, limit \in 1..2 :
        LET PageAt(k) == QueryFiltered(query_source, 0, LastMoment, types, (k - 1) * limit, limit)
        IN  FlattenSeq([k \in 1..(2 * StoredRecords) \div limit |-> PageAt(k)])
              = Matching(BatchQuery(query_source, 0, LastMoment), types)

\* Across the border of stream and storage no moment is lost at which there is
\* a record that the buffer still has or that is older than the window, and
\* that the conversions did not skip; every strategy has its order.
StreamExact ==
    \A strategy \in Strategies, start, end \in Asked : start < end =>
        LET answer == HybridAnswer(strategy, start, end)
            owed == {n \in DOMAIN stored \ Skipped(query_source) :
                       Within(n, start, end) /\ (n \in Range(stream) \/ TimeOf(n) < StreamCutoff)}
        IN  /\ Times(owed) \subseteq Times(Range(answer))
            /\ \A n \in Range(answer) : Within(n, start, end)
            /\ \A k \in 1..Len(answer) - 1 :
                 LET t == TimeOf(answer[k])
                     u == TimeOf(answer[k + 1])
                 IN  CASE strategy = "ByTimestamp" -> t < u
                       [] strategy = "Latest" -> t >= u
                       [] OTHER -> t <= u

QueriesExact == BatchExact /\ PagesExact /\ StreamExact
==============================================================================
