--------------------------- MODULE GatewayJournal ---------------------------
(***************************************************************************)
(* The journals of the trade gateway (exchange/trade_gateway.rs): what     *)
(* happens to an order is written to the WAL of its instrument, then the   *)
(* answer and the order's new status to the WAL of its account, by         *)
(* concurrent handlers.  A WAL manager (storage/wal/manager.rs) is opened  *)
(* by whoever writes first; looking it up and putting it into the map are  *)
(* two steps.                                                              *)
(*                                                                         *)
(* A file is a sequence of headers and of entries [seq, event, status].    *)
(***************************************************************************)
EXTENDS Integers, FiniteSets, SequencesExt, FiniteSetsExt

CONSTANTS
    Handlers,        \* threads that handle events
    Events,          \* bound on the events of one run of the program
    AppendFailures,  \* bound on flushes that fail
    GatewayCrashes

ASSUME JournalAssumption ==
    IsFiniteSet(Handlers) /\ {Events, AppendFailures, GatewayCrashes} \subseteq Nat

Dirs == {"instrument", "account"}
Header == [seq |-> 0, event |-> <<0, 0>>, status |-> FALSE]
NoManager == 0

VARIABLES
    created,         \* directories with a file
    wal_file,        \* wal_file[d]: what is in wal_00000000000000000001.log
    wal_managers,    \* wal_managers[d]: the manager in the map, or NoManager
    manager,         \* manager[m]: [dir, next, buffer]; next = 0 while not open
    handler,         \* handler[h]: [pc, todo, event, m, entry]
    event_sequence,  \* next_sequence of the instrument
    process,         \* the runs of the program so far
    spoiled,         \* directories that two managers were opened for in one run,
                     \* or that a crash left with an empty file
    appended,        \* appended[d]: entries whose append returned Ok
    append_failures

journalVars == <<created, wal_file, wal_managers, manager, handler, event_sequence, process,
                 spoiled, appended, append_failures>>
diskVars == <<created, wal_file, appended>>
runVars == <<event_sequence, process, append_failures>>

IdleHandler == [pc |-> "idle", todo |-> <<>>, event |-> <<0, 0>>, m |-> NoManager, entry |-> Header]
JournalInit ==
    /\ created = {} /\ wal_file = [d \in Dirs |-> <<>>]
    /\ wal_managers = [d \in Dirs |-> NoManager]
    /\ manager = <<>>
    /\ handler = [h \in Handlers |-> IdleHandler]
    /\ event_sequence = 0 /\ process = 1 /\ append_failures = 0
    /\ spoiled = {} /\ appended = [d \in Dirs |-> {}]
------------------------------------------------------------------------------
(* The handlers.  An event is named by the run and its number in it.         *)

\* handle_order_accepted_new and handle_trade_new write three records.
WriteAll == <<[dir |-> "instrument", status |-> FALSE], [dir |-> "account", status |-> FALSE],
              [dir |-> "account", status |-> TRUE]>>
\* handle_order_rejected_new and handle_cancel_accepted_new write the status.
WriteStatus == <<[dir |-> "account", status |-> TRUE]>>

BeginEvent(h) ==
    /\ handler[h] = IdleHandler /\ event_sequence < Events
    /\ event_sequence' = event_sequence + 1
    /\ \E todo \in {WriteAll, WriteStatus} :
         handler' = [handler EXCEPT ![h] =
            [IdleHandler EXCEPT !.pc = "lookup", !.todo = todo,
                                !.event = <<process, event_sequence + 1>>]]
    /\ UNCHANGED <<diskVars, wal_managers, manager, process, spoiled, append_failures>>

Dir(h) == Head(handler[h].todo).dir

\* get_or_create_instrument_wal and get_or_create_account_wal.
LookUp(h) ==
    /\ handler[h].pc = "lookup"
    /\ handler' = [handler EXCEPT ![h].m = wal_managers[Dir(h)],
                                  ![h].pc = IF wal_managers[Dir(h)] = NoManager
                                            THEN "open" ELSE "number"]
    /\ UNCHANGED <<diskVars, wal_managers, manager, runVars, spoiled>>

\* WalManager::new: the directory has a file, or it is created and then gets a
\* header.
Headed(file) == file # <<>> /\ file[1] = Header
OpenManager(h) ==
    LET d == Dir(h)
        fresh == d \notin created
        \* A file that does not begin with a header is not looked into.
        seen == IF Headed(wal_file[d]) THEN {wal_file[d][n].seq : n \in DOMAIN wal_file[d]} ELSE {}
    IN  /\ handler[h].pc = "open"
        /\ manager' = Append(manager, [dir |-> d, buffer |-> <<>>,
                                       next |-> IF fresh THEN 1 ELSE Max({1} \cup seen) + 1])
        /\ handler' = [handler EXCEPT ![h].m = Len(manager) + 1,
                                      ![h].pc = IF fresh THEN "header" ELSE "insert"]
        /\ spoiled' = IF \E n \in DOMAIN manager : manager[n].dir = d
                      THEN spoiled \cup {d} ELSE spoiled
        /\ created' = created \cup {d}
        /\ UNCHANGED <<wal_file, appended, wal_managers, runVars>>

WriteHeader(h) ==
    /\ handler[h].pc = "header"
    /\ wal_file' = [wal_file EXCEPT ![Dir(h)] = Append(@, Header)]
    /\ handler' = [handler EXCEPT ![h].pc = "insert"]
    /\ UNCHANGED <<created, appended, wal_managers, manager, runVars, spoiled>>

\* A manager that is there already is replaced, and used on by those who have it.
InsertManager(h) ==
    /\ handler[h].pc = "insert"
    /\ wal_managers' = [wal_managers EXCEPT ![Dir(h)] = handler[h].m]
    /\ handler' = [handler EXCEPT ![h].pc = "number"]
    /\ UNCHANGED <<diskVars, manager, runVars, spoiled>>

\* append takes its number before it takes the file.
NumberRecord(h) ==
    LET m == handler[h].m IN
    /\ handler[h].pc = "number"
    /\ handler' = [handler EXCEPT ![h].pc = "flush",
         ![h].entry = [seq |-> manager[m].next, event |-> handler[h].event,
                       status |-> Head(handler[h].todo).status]]
    /\ manager' = [manager EXCEPT ![m].next = @ + 1]
    /\ UNCHANGED <<diskVars, wal_managers, runVars, spoiled>>

\* After a record comes the next one, until all are written.
NextRecord(h) == IF Len(handler[h].todo) = 1 THEN IdleHandler
           ELSE [handler[h] EXCEPT !.pc = "lookup", !.todo = Tail(@), !.m = NoManager,
                                   !.entry = Header]

FlushRecord(h) ==
    LET m == handler[h].m IN
    /\ handler[h].pc = "flush"
    /\ wal_file' = [wal_file EXCEPT ![Dir(h)] = @ \o Append(manager[m].buffer, handler[h].entry)]
    /\ manager' = [manager EXCEPT ![m].buffer = <<>>]
    /\ appended' = [appended EXCEPT ![Dir(h)] = @ \cup {handler[h].entry}]
    /\ handler' = [handler EXCEPT ![h] = NextRecord(h)]
    /\ UNCHANGED <<created, wal_managers, runVars, spoiled>>

\* What a failed flush has not written stays in the buffer of the file.  A status
\* that is not written is logged; without any of the others the handler ends.
FlushFails(h) ==
    LET m == handler[h].m IN
    /\ append_failures < AppendFailures /\ append_failures' = append_failures + 1
    /\ handler[h].pc = "flush"
    /\ manager' = [manager EXCEPT ![m].buffer = Append(@, handler[h].entry)]
    /\ handler' = [handler EXCEPT ![h] = IdleHandler]
    /\ UNCHANGED <<diskVars, wal_managers, event_sequence, process, spoiled>>

\* Managers, handlers and the numbers of events are gone.
CrashGateway ==
    /\ process <= GatewayCrashes
    /\ process' = process + 1 /\ event_sequence' = 0
    /\ wal_managers' = [d \in Dirs |-> NoManager] /\ manager' = <<>>
    /\ handler' = [h \in Handlers |-> IdleHandler]
    /\ spoiled' = spoiled \cup {d \in created : wal_file[d] = <<>>}
    /\ UNCHANGED <<diskVars, append_failures>>

JournalNext ==
    \/ CrashGateway
    \/ \E h \in Handlers :
         \/ BeginEvent(h) \/ LookUp(h) \/ OpenManager(h) \/ WriteHeader(h)
         \/ InsertManager(h) \/ NumberRecord(h) \/ FlushRecord(h) \/ FlushFails(h)
JournalSpec == JournalInit /\ [][JournalNext]_journalVars
------------------------------------------------------------------------------
(* Properties. *)

\* replay gives the entries behind the header, or an error when something else
\* comes first or a second header in between.
Replayable(d) == wal_file[d] # <<>> => /\ Headed(wal_file[d])
                                       /\ \A n \in 2..Len(wal_file[d]) : wal_file[d][n] # Header
ReplayOf(d) == {wal_file[d][n] : n \in 2..Len(wal_file[d])}

\* A directory that was not opened twice in one run, nor left by a crash before
\* its file had a header, has a journal that can be replayed after every crash:
\* it has all that append has taken, under different numbers, and no account has
\* an answer to an event that its instrument does not know.
JournalKept ==
    /\ \A d \in Dirs \ spoiled :
         /\ Replayable(d) /\ appended[d] \subseteq ReplayOf(d)
         /\ \A n, k \in 2..Len(wal_file[d]) : wal_file[d][n].seq = wal_file[d][k].seq => n = k
    /\ spoiled = {} =>
         \A e \in ReplayOf("account") :
             ~e.status => \E x \in ReplayOf("instrument") : x.event = e.event
=============================================================================
