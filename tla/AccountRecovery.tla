--------------------------- MODULE AccountRecovery ---------------------------
(***************************************************************************)
(* Accounts and resting orders across a restart: the account snapshots and *)
(* their restoration (src/src/exchange/account_mgr.rs), the account WAL    *)
(* (src/src/storage/recovery.rs), the orders put back into the book        *)
(* (restore_orders_from_accounts, src/src/exchange/order_router.rs) and    *)
(* the order main.rs runs them in.                                         *)
(*                                                                         *)
(* Calls of the order router are summarised in the steps a snapshot can    *)
(* come between (module OrderRouter has all of them); money is left out.   *)
(* The subscriber's AccountOpen records lie in another directory than the  *)
(* one recovery reads, so that a start has accounts from snapshots only.   *)
(***************************************************************************)
EXTENDS OrderBook, FiniteSets

CONSTANTS
    Holdings,        \* accounts
    Lots,            \* orders; every one is sent once
    LotRequest,      \* LotRequest[o]: [acct, side, vol, price]
    WriteFaults,     \* bound on snapshot files and records that cannot be written
    Saves,           \* bound on snapshots
    Starts           \* bound on starts after the first

ASSUME AccountRecoveryAssumption ==
    /\ IsFiniteSet(Holdings) /\ IsFiniteSet(Lots)
    /\ \A o \in Lots : LotRequest[o].acct \in Holdings
    /\ {WriteFaults, Saves, Starts} \subseteq Nat

VARIABLES
    accounts,       \* accounts in the AccountManager
    dailyorders,    \* dailyorders[o]: [status, volume_left] in its account
    rest,           \* rest[o]: volume of o resting in the book
    arrival,        \* arrival[o]: engine id of o, 0 before
    routed,         \* orders in the router's map
    deals,          \* matches not yet applied to the account of .order
    doing,          \* steps of calls under way: <<"route" | "release", order>>
    saving,         \* accounts whose file is being written, under their lock
    files,          \* files[a]: Missing, Torn or the orders of a
    opening,        \* AccountOpen notifications not yet stored
    account_wal,    \* account_wal[dir]: accounts with an AccountOpen in dir
    phase,          \* "up", or the step of the start that is next
    write_faults, saves, starts,
    opened,         \* history: accounts ever opened
    fresh           \* history: every crash so far found all files up to date

lotVars == <<dailyorders, rest, arrival, routed, deals, doing>>
fileVars == <<saving, files>>
openVars == <<accounts, opening, account_wal, opened>>
faultVars == <<write_faults, saves, starts>>
recVars == <<lotVars, fileVars, openVars, faultVars, phase, fresh>>

Missing == [file |-> "missing"]
Torn == [file |-> "torn"]
NoOrder == [status |-> "none", volume_left |-> 0]
Owner(o) == LotRequest[o].acct
OrdersOf(a) == {o \in Lots : Owner(o) = a}
Snapshot(a) == [file |-> "whole", orders |-> [o \in OrdersOf(a) |-> dailyorders[o]]]
Pending(o) == dailyorders[o].status \in {"SUBMITTED", "ALIVE"}
Up == phase = "up"

\* The lock of the account is free.
Unlocked(a) == Up /\ a \notin saving

\* Where a storage named __ACCOUNT__ keeps its log, and where recovery looks,
\* both below the storage path.
StorageDir == "__ACCOUNT__/wal"
RecoveryDir == "wal/__ACCOUNT__"

RecInit ==
    /\ accounts = {} /\ opening = {} /\ opened = {}
    /\ account_wal = [dir \in {StorageDir, RecoveryDir} |-> {}]
    /\ dailyorders = [o \in Lots |-> NoOrder]
    /\ rest = [o \in Lots |-> 0] /\ arrival = [o \in Lots |-> 0]
    /\ routed = {} /\ deals = {} /\ doing = {}
    /\ saving = {} /\ files = [a \in Holdings |-> Missing]
    /\ phase = "up"
    /\ write_faults = 0 /\ saves = 0 /\ starts = 0
    /\ fresh = TRUE
------------------------------------------------------------------------------
(* Accounts and their AccountOpen records. *)

OpenAccount(a) ==
    /\ Up /\ a \notin accounts
    /\ accounts' = accounts \cup {a}
    /\ opening' = opening \cup {a} /\ opened' = opened \cup {a}
    /\ UNCHANGED <<lotVars, fileVars, account_wal, faultVars, phase, fresh>>

\* The subscriber stores the record; a batch that cannot be written is lost.
StoreOpen(a) ==
    /\ Up /\ a \in opening
    /\ opening' = opening \ {a}
    /\ \/ /\ account_wal' = [account_wal EXCEPT ![StorageDir] = @ \cup {a}]
          /\ UNCHANGED write_faults
       \/ /\ write_faults < WriteFaults /\ write_faults' = write_faults + 1
          /\ UNCHANGED account_wal
    /\ UNCHANGED <<lotVars, fileVars, accounts, opened, saves, starts, phase, fresh>>
------------------------------------------------------------------------------
(* Orders, as far as the accounts and the book are concerned. *)

FreezeLot(o) ==
    /\ Unlocked(Owner(o)) /\ Owner(o) \in accounts
    /\ arrival[o] = 0 /\ o \notin routed /\ dailyorders[o] = NoOrder
    /\ dailyorders' = [dailyorders EXCEPT ![o] =
         [status |-> "SUBMITTED", volume_left |-> LotRequest[o].vol]]
    /\ routed' = routed \cup {o}
    /\ doing' = doing \cup {<<"route", o>>}
    /\ UNCHANGED <<rest, arrival, deals, fileVars, openVars, faultVars, phase, fresh>>

\* process_order with `vol` of o: take[m] from resting order m, the remainder
\* rests.
ProcessOrder(o, vol, take) ==
    /\ \E left \in 0..vol :
         /\ IsMatch(LotRequest, rest, arrival, [LotRequest[o] EXCEPT !.vol = vol], take, left)
         /\ rest' = [m \in Lots |-> IF m = o THEN left ELSE rest[m] - take[m]]
    /\ arrival' = [arrival EXCEPT ![o] = 1 + Cardinality({m \in Lots : arrival[m] > 0})]

RouteLot(o) ==
    /\ Up /\ <<"route", o>> \in doing
    /\ \E take \in [Lots -> 0..LotRequest[o].vol] :
         /\ ProcessOrder(o, LotRequest[o].vol, take)
         /\ deals' = deals \cup
              UNION {{[order |-> o, with |-> m, vol |-> take[m]],
                      [order |-> m, with |-> o, vol |-> take[m]]}
                       : m \in {n \in Lots : take[n] > 0}}
    /\ doing' = doing \ {<<"route", o>>}
    /\ UNCHANGED <<dailyorders, routed, fileVars, openVars, faultVars, phase, fresh>>

\* A deal of an order that was cancelled meanwhile does not bring it back.
ApplyDeal(d) ==
    /\ Unlocked(Owner(d.order))
    /\ deals' = deals \ {d}
    /\ LET left == dailyorders[d.order].volume_left - d.vol
       IN  dailyorders' = IF Pending(d.order)
             THEN [dailyorders EXCEPT ![d.order] =
                     [status |-> IF left = 0 THEN "FINISHED" ELSE "ALIVE", volume_left |-> left]]
             ELSE dailyorders
    /\ UNCHANGED <<rest, arrival, routed, doing, fileVars, openVars, faultVars, phase, fresh>>

CancelLot(o) ==
    /\ Up /\ o \in routed /\ rest[o] > 0
    /\ rest' = [rest EXCEPT ![o] = 0]
    /\ doing' = doing \cup {<<"release", o>>}
    /\ UNCHANGED <<dailyorders, arrival, routed, deals, fileVars, openVars, faultVars,
                   phase, fresh>>

ReleaseLot(o) ==
    /\ Unlocked(Owner(o)) /\ <<"release", o>> \in doing
    /\ dailyorders' = [dailyorders EXCEPT ![o] = [status |-> "CANCELED", volume_left |-> 0]]
    /\ doing' = doing \ {<<"release", o>>}
    /\ UNCHANGED <<rest, arrival, routed, deals, fileVars, openVars, faultVars, phase, fresh>>
------------------------------------------------------------------------------
(* save_snapshots: one account after the other, every file overwritten in  *)
(* place under the lock of its account.                                    *)

BeginSave(a) ==
    /\ Unlocked(a) /\ a \in accounts /\ saving = {}
    /\ saves < Saves /\ saves' = saves + 1
    /\ saving' = {a}
    /\ files' = [files EXCEPT ![a] = Torn]
    /\ UNCHANGED <<lotVars, openVars, write_faults, starts, phase, fresh>>

EndSave(a) ==
    /\ Up /\ a \in saving
    /\ saving' = {}
    /\ \/ files' = [files EXCEPT ![a] = Snapshot(a)] /\ UNCHANGED write_faults
       \/ /\ write_faults < WriteFaults /\ write_faults' = write_faults + 1
          /\ UNCHANGED files
    /\ UNCHANGED <<lotVars, openVars, saves, starts, phase, fresh>>
------------------------------------------------------------------------------
(* The process dies, and main.rs starts it again. *)

FilesUpToDate ==
    deals = {} /\ doing = {} /\ \A a \in accounts : files[a] = Snapshot(a)

Crash ==
    /\ starts < Starts /\ starts' = starts + 1
    /\ fresh' = (fresh /\ FilesUpToDate)
    /\ accounts' = {} /\ opening' = {} /\ saving' = {}
    /\ dailyorders' = [o \in Lots |-> NoOrder]
    /\ rest' = [o \in Lots |-> 0] /\ arrival' = [o \in Lots |-> 0]
    /\ routed' = {} /\ deals' = {} /\ doing' = {}
    /\ phase' = "snapshots"
    /\ UNCHANGED <<files, account_wal, opened, write_faults, saves>>

\* restore_from_snapshots reads the files in the order of the directory and
\* returns at the first that cannot be parsed.
RestoreFromSnapshots ==
    /\ phase = "snapshots"
    /\ \E restored \in SUBSET {a \in Holdings : files[a].file = "whole"} :
         /\ restored # {a \in Holdings : files[a].file = "whole"} => Torn \in Range(files)
         /\ accounts' = restored
         /\ dailyorders' = [o \in Lots |->
              IF Owner(o) \in restored THEN files[Owner(o)].orders[o] ELSE NoOrder]
    /\ phase' = "wal"
    /\ UNCHANGED <<rest, arrival, routed, deals, doing, fileVars, opening, account_wal,
                   opened, faultVars, fresh>>

\* A record names the user of the account in 32 bytes; the id of a user is a
\* UUID of 36 characters.
UserIdLength == 36
UserIdField == 32
UserFound == UserIdLength <= UserIdField

\* restore_accounts opens the accounts of the records again; one that exists or
\* whose user is not found is an error that is logged.
OpenedFromWal == {a \in account_wal[RecoveryDir] : UserFound}

RecoverFromWal ==
    /\ phase = "wal"
    /\ accounts' = accounts \cup OpenedFromWal
    /\ phase' = "orders"
    /\ UNCHANGED <<lotVars, fileVars, opening, account_wal, opened, faultVars, fresh>>

\* Mutant of RestoredVolume: the volume first ordered.
RestoredVolumeOriginal(o) == LotRequest[o].vol
RestoredVolume(o) == dailyorders[o].volume_left

\* One order of restore_orders_from_accounts, in the order of hash maps.  Only
\* the Accepted event is looked at: what the order matches is lost.
RestoreOrder(o) ==
    /\ phase = "orders"
    /\ Pending(o) /\ o \notin routed
    /\ \E take \in [Lots -> 0..RestoredVolume(o)] : ProcessOrder(o, RestoredVolume(o), take)
    /\ routed' = routed \cup {o}
    /\ UNCHANGED <<dailyorders, deals, doing, fileVars, openVars, faultVars, phase, fresh>>

FinishStart ==
    /\ phase = "orders"
    /\ \A o \in Lots : Pending(o) => o \in routed
    /\ phase' = "up"
    /\ UNCHANGED <<lotVars, fileVars, openVars, faultVars, fresh>>

RecNext ==
    \/ \E a \in Holdings : OpenAccount(a) \/ StoreOpen(a) \/ BeginSave(a) \/ EndSave(a)
    \/ \E o \in Lots :
         FreezeLot(o) \/ RouteLot(o) \/ CancelLot(o) \/ ReleaseLot(o) \/ RestoreOrder(o)
    \/ \E d \in deals : ApplyDeal(d)
    \/ Crash
    \/ RestoreFromSnapshots \/ RecoverFromWal \/ FinishStart

RecSpec == RecInit /\ [][RecNext]_recVars
------------------------------------------------------------------------------
(* Properties. *)

Due(o) ==
    LET ds == {d \in deals : d.order = o}
    IN  SumFunction([d \in ds |-> d.vol])

RecTypeOK ==
    /\ opened \subseteq Holdings /\ accounts \subseteq opened
    /\ opening \subseteq accounts
    /\ \A o \in Lots :
         /\ dailyorders[o].status \in {"none", "SUBMITTED", "ALIVE", "FINISHED", "CANCELED"}
         /\ dailyorders[o].volume_left \in 0..LotRequest[o].vol
         /\ rest[o] \in 0..LotRequest[o].vol
    /\ phase \in {"up", "snapshots", "wal", "orders"}
    /\ saving \subseteq Holdings /\ routed \subseteq Lots

\* When every crash found the snapshot files up to date, each account that was
\* ever opened is there after every start.
AccountsSurvive == Up /\ fresh => accounts = opened

\* "Recover accounts from the WAL (plan B: what the snapshots miss)", step 3.5 of
\* the start in src/src/main.rs: an account with a stored AccountOpen is there
\* after a start.
AccountsFromWal == Up => account_wal[StorageDir] \subseteq accounts

\* What rests in the book is never more than the order has left in its
\* account, fills on their way included, after any crash and any mixture of old
\* snapshots.  When every crash found the snapshots up to date it is exactly
\* that much: no pending order is missing, and none can fill twice.
OrdersRestored ==
    Up => \A o \in Lots :
        /\ rest[o] > 0 /\ <<"release", o>> \notin doing => Pending(o)
        /\ Pending(o) => rest[o] + Due(o) <= dailyorders[o].volume_left
        /\ fresh /\ Pending(o) /\ <<"route", o>> \notin doing /\ <<"release", o>> \notin doing =>
             rest[o] + Due(o) = dailyorders[o].volume_left

\* The accounts and their orders after a start.
AccountsRestored == AccountsSurvive /\ OrdersRestored
=============================================================================
