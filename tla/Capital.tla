------------------------------- MODULE Capital -------------------------------
(***************************************************************************)
(* Opening and closing accounts (AccountManager, exchange/account_mgr.rs)  *)
(* and moving money in and out of them, through CapitalManager             *)
(* (exchange/capital_mgr.rs) and through the handlers of the HTTP service  *)
(* (service/http/handlers.rs, transfer.rs), which keep records of their    *)
(* own in a TransferStore, by concurrent calls.                            *)
(*                                                                         *)
(* An account's id is made by open_account and never used again, so that   *)
(* the id stands for the account behind the Arc too: a call that has found *)
(* an account keeps it when the manager drops it.  Positions are left out: *)
(* money is all there is.                                                  *)
(***************************************************************************)
EXTENDS Integers, FiniteSets, SequencesExt

CONSTANTS
    CapitalAccounts, Holders, HolderOf,
    Callers,       \* threads
    InitCash, Amounts,
    PageSize,      \* transfers that get_records gives when no page is asked for
    CapitalCalls   \* bound on calls

ASSUME CapitalAssumption ==
    /\ IsFiniteSet(CapitalAccounts) /\ IsFiniteSet(Callers)
    /\ HolderOf \in [CapitalAccounts -> Holders]
    /\ InitCash \in Nat /\ Amounts \subseteq Nat \ {0} /\ {PageSize, CapitalCalls} \subseteq Nat

VARIABLES
    accounts,       \* ids in AccountManager.accounts
    metadata,       \* ids in AccountManager.metadata
    user_accounts,  \* user_accounts[u]: sequence of ids
    money,          \* money[a]
    transactions,   \* transactions[a]: sequence of amounts, withdrawals below 0
    caller,         \* caller[t]: [pc, account, amount]
    transfers,      \* transfers[a]: sequence of [amount, done], TransferStore.records
    unrecorded,     \* history: sum of old-style deposits and withdrawals
    opened,         \* history: ids opened
    calls
moneyVars == <<money, transactions, transfers, unrecorded>>
accountVars == <<accounts, metadata, user_accounts, opened>>
capVars == <<accountVars, moneyVars, caller, calls>>

NoCall == [pc |-> "idle"]
In(t, pc) == caller[t] # NoCall /\ caller[t].pc = pc
OnAccount(t) == caller[t].account
ThenGo(t, pc) == caller' = [caller EXCEPT ![t].pc = pc]
Return(t) == caller' = [caller EXCEPT ![t] = NoCall]
Call(t, pc, a, amount) ==
    /\ caller[t] = NoCall /\ calls < CapitalCalls
    /\ calls' = calls + 1
    /\ caller' = [caller EXCEPT ![t] = [pc |-> pc, account |-> a, amount |-> amount]]

CapInit ==
    /\ accounts = {} /\ metadata = {} /\ opened = {}
    /\ user_accounts = [u \in Holders |-> <<>>]
    /\ money = [a \in CapitalAccounts |-> 0]
    /\ transactions = [a \in CapitalAccounts |-> <<>>]
    /\ transfers = [a \in CapitalAccounts |-> <<>>]
    /\ unrecorded = [a \in CapitalAccounts |-> 0]
    /\ caller = [t \in Callers |-> NoCall]
    /\ calls = 0
------------------------------------------------------------------------------
(* open_account and close_account: three maps, one after the other. *)

OpenAccount(t, a) ==
    /\ a \notin opened
    /\ Call(t, "metadata", a, 0)
    /\ opened' = opened \cup {a}
    /\ accounts' = accounts \cup {a}
    /\ money' = [money EXCEPT ![a] = InitCash]
    /\ UNCHANGED <<metadata, user_accounts, transactions, transfers, unrecorded>>

OpenMetadata(t) ==
    /\ In(t, "metadata")
    /\ metadata' = metadata \cup {OnAccount(t)}
    /\ ThenGo(t, "index")
    /\ UNCHANGED <<accounts, user_accounts, opened, moneyVars, calls>>

OpenIndex(t) ==
    /\ In(t, "index")
    /\ user_accounts' = [user_accounts EXCEPT ![HolderOf[OnAccount(t)]] = Append(@, OnAccount(t))]
    /\ Return(t)
    /\ UNCHANGED <<accounts, metadata, opened, moneyVars, calls>>

\* Whether there is metadata is read first.
CloseAccount(t, a) ==
    /\ Call(t, IF a \in metadata THEN "remove" ELSE "remove-only", a, 0)
    /\ UNCHANGED <<accountVars, moneyVars>>

\* The account is out of the map before its balance is looked at: a refused
\* close has removed it too.
CloseRemove(t) ==
    /\ In(t, "remove") \/ In(t, "remove-only")
    /\ accounts' = accounts \ {OnAccount(t)}
    /\ IF OnAccount(t) \notin accounts \/ money[OnAccount(t)] > 0 THEN Return(t)
       ELSE ThenGo(t, IF In(t, "remove") THEN "unindex" ELSE "forget")
    /\ UNCHANGED <<metadata, user_accounts, opened, moneyVars, calls>>

CloseUnindex(t) ==
    /\ In(t, "unindex")
    /\ user_accounts' = [user_accounts EXCEPT ![HolderOf[OnAccount(t)]] =
                           SelectSeq(@, LAMBDA a : a # OnAccount(t))]
    /\ ThenGo(t, "forget")
    /\ UNCHANGED <<accounts, metadata, opened, moneyVars, calls>>

CloseMetadata(t) ==
    /\ In(t, "forget")
    /\ metadata' = metadata \ {OnAccount(t)}
    /\ Return(t)
    /\ UNCHANGED <<accounts, user_accounts, opened, moneyVars, calls>>
------------------------------------------------------------------------------
(* CapitalManager. *)

\* deposit and withdraw, without a record: the user's first account, found and
\* then changed under its lock.
DefaultAccount(u) == Head(user_accounts[u])
MoveUnrecorded(u, amount) ==
    LET a == DefaultAccount(u) IN
    /\ calls < CapitalCalls /\ calls' = calls + 1
    /\ user_accounts[u] # <<>> /\ a \in accounts
    /\ amount < 0 => money[a] >= -amount
    /\ money' = [money EXCEPT ![a] = @ + amount]
    /\ unrecorded' = [unrecorded EXCEPT ![a] = @ + amount]
    /\ UNCHANGED <<accountVars, transactions, transfers, caller>>

DepositWithRecord(t, a, amount) ==
    /\ a \in accounts
    /\ Call(t, "move", a, amount)
    /\ UNCHANGED <<accountVars, moneyVars>>

\* The available money is read here and not again when it is taken.
WithdrawWithRecord(t, a, amount) ==
    /\ a \in accounts /\ money[a] >= amount
    /\ Call(t, "move", a, -amount)
    /\ UNCHANGED <<accountVars, moneyVars>>

\* get_account, then deposit or withdraw under the account's lock.
\* Mutant of Moved: what is not there is not taken.
MovedDownToZero(balance, amount) == IF balance + amount < 0 THEN 0 ELSE balance + amount
Moved(balance, amount) == balance + amount
MoveMoney(t) ==
    /\ In(t, "move")
    /\ IF OnAccount(t) \notin accounts
       THEN Return(t) /\ UNCHANGED money
       ELSE /\ money' = [money EXCEPT ![OnAccount(t)] = Moved(@, caller[t].amount)]
            /\ ThenGo(t, "record")
    /\ UNCHANGED <<accountVars, transactions, transfers, unrecorded, calls>>

\* The balance is read once more before the record is kept: no record when
\* the account is gone by then.
RecordTransaction(t) ==
    /\ In(t, "record")
    /\ IF OnAccount(t) \in accounts
       THEN transactions' = [transactions EXCEPT ![OnAccount(t)] = Append(@, caller[t].amount)]
       ELSE UNCHANGED transactions
    /\ Return(t)
    /\ UNCHANGED <<accountVars, money, transfers, unrecorded, calls>>

------------------------------------------------------------------------------
(* The handlers of the HTTP service: deposit, withdraw and do_transfer. *)

\* The account, named by its own id or by the id of a user who has no other,
\* is found here and locked later: it may have been closed by then.
FindAccount(t, a, amount) ==
    /\ a \in accounts
    /\ \E pc \in {"teller", "bank"} : Call(t, pc, a, amount)
    /\ UNCHANGED <<accountVars, moneyVars>>

Covered(balance, amount) == amount > 0 \/ balance >= -amount
Transfer(amount, done) == [amount |-> amount, done |-> done]
AddRecord(a, record) == transfers' = [transfers EXCEPT ![a] = Append(@, record)]
MoveLocked(t, done) ==
    /\ money' = [money EXCEPT ![OnAccount(t)] = IF done THEN @ + caller[t].amount ELSE @]
    /\ Return(t)
    /\ UNCHANGED <<accountVars, transactions, unrecorded, calls>>

\* deposit and withdraw, under the account's write lock, which is held until
\* the record is kept.  A withdrawal that is not covered leaves no record.
TellerMove(t) ==
    LET a == OnAccount(t)
        done == Covered(money[a], caller[t].amount)
    IN  /\ In(t, "teller")
        /\ MoveLocked(t, done)
        /\ IF done THEN AddRecord(a, Transfer(caller[t].amount, TRUE)) ELSE UNCHANGED transfers

\* do_transfer, under the same lock: a transfer that is not covered is recorded
\* as failed.
BankTransfer(t) ==
    LET a == OnAccount(t)
        done == Covered(money[a], caller[t].amount)
    IN  /\ In(t, "bank")
        /\ MoveLocked(t, done)
        /\ AddRecord(a, Transfer(caller[t].amount, done))

\* The capital manager's records, kept under the account's id.
Recorded(a) == [i \in DOMAIN transactions[a] |-> Transfer(transactions[a][i], TRUE)]

\* get_records without a page: the first PageSize transfers, the oldest.
Shown(records) == SubSeq(records, 1, IF Len(records) < PageSize THEN Len(records) ELSE PageSize)

\* What the pages of get_all_transactions tell of an account, failed transfers
\* marked.  (get_transactions asks the capital manager for the user's id, under
\* which there is no record: it tells of the transfers alone.)
AllTransactions(a) == Recorded(a) \o Shown(transfers[a])

CapNext ==
    \/ \E t \in Callers, a \in CapitalAccounts :
         \/ OpenAccount(t, a) \/ CloseAccount(t, a)
         \/ \E amount \in Amounts :
              \/ DepositWithRecord(t, a, amount) \/ WithdrawWithRecord(t, a, amount)
              \/ FindAccount(t, a, amount) \/ FindAccount(t, a, -amount)
    \/ \E t \in Callers :
         \/ OpenMetadata(t) \/ OpenIndex(t)
         \/ CloseRemove(t) \/ CloseUnindex(t) \/ CloseMetadata(t)
         \/ MoveMoney(t) \/ RecordTransaction(t) \/ TellerMove(t) \/ BankTransfer(t)
    \/ \E u \in Holders, amount \in Amounts :
         MoveUnrecorded(u, amount) \/ MoveUnrecorded(u, -amount)

CapSpec == CapInit /\ [][CapNext]_capVars
------------------------------------------------------------------------------
(* Properties. *)

CapTypeOK ==
    /\ accounts \subseteq opened /\ metadata \subseteq opened
    /\ \A u \in Holders : ToSet(user_accounts[u]) \subseteq opened /\ IsInjective(user_accounts[u])
    /\ \A a \in CapitalAccounts : a \notin opened => transactions[a] = <<>> /\ transfers[a] = <<>>

\* The completed records that are kept of an open account add up to its money,
\* apart from calls under way and from the old calls that keep none, even when
\* two withdrawals that were both covered have taken it below zero; and so does
\* what get_all_transactions tells, as long as the transfers fill one page: of
\* more of them it tells the oldest.
Counted(record) == IF record.done THEN record.amount ELSE 0
Unwritten(t, a) == IF In(t, "record") /\ OnAccount(t) = a THEN caller[t].amount ELSE 0
Explain(records, a) ==
    money[a] = InitCash + unrecorded[a]
        + SumFunction([i \in DOMAIN records |-> Counted(records[i])])
        + SumFunction([t \in Callers |-> Unwritten(t, a)])
RecordsExplainMoney ==
    \A a \in accounts :
        /\ Explain(Recorded(a) \o transfers[a], a)
        /\ Len(transfers[a]) <= PageSize => Explain(AllTransactions(a), a)
=============================================================================
