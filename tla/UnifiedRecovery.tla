--------------------------- MODULE UnifiedRecovery ---------------------------
(***************************************************************************)
(* Recovery of accounts, users, orders and positions from one journal      *)
(* (UnifiedRecoveryManager, storage/unified_recovery.rs), beside the       *)
(* writers of that journal.                                                *)
(*                                                                         *)
(* A writer takes its sequence number before it has the file, so the       *)
(* entries of concurrent writers may be in another order than their        *)
(* numbers.  An entry is [seq, time, type, key, value]: the key names the  *)
(* account, the user, or a user with an order or an instrument; the value  *)
(* is all the rest.                                                        *)
(***************************************************************************)
EXTENDS Integers, FiniteSets, SequencesExt, FiniteSetsExt

CONSTANTS
    Journalists,    \* threads that write to the journal
    KnownAccounts, KnownUsers,
    LongIds,        \* accounts whose ids are longer than 32 bytes
    BookKeys,       \* keys of orders and of positions
    JournalValues,  \* values of accounts, orders and positions
    JournalLimit,   \* bound on the entries
    JournalCrashes

ASSUME UnifiedAssumption ==
    /\ IsFiniteSet(Journalists) /\ IsFiniteSet(KnownAccounts) /\ IsFiniteSet(KnownUsers)
    /\ IsFiniteSet(BookKeys) /\ IsFiniteSet(JournalValues) /\ LongIds \subseteq KnownAccounts
    /\ {JournalLimit, JournalCrashes} \subseteq Nat

VARIABLES
    journal,        \* the entries, in the order of the file
    next_entry,     \* current_sequence
    writing,        \* writing[w]: the entry a thread has numbered, or NoEntry
    journal_crashes
uniVars == <<journal, next_entry, writing, journal_crashes>>

NoEntry == [seq |-> 0, time |-> 0, type |-> "none", key |-> <<>>, value |-> 0]
UniInit ==
    /\ journal = <<>> /\ next_entry = 1 /\ journal_crashes = 0
    /\ writing = [w \in Journalists |-> NoEntry]
------------------------------------------------------------------------------
(* The records. *)

Entries(log, types, key) == {n \in DOMAIN log : log[n].type \in types /\ log[n].key = key}
IsWritten(type, key) == Entries(journal, {type}, key) # {}

\* An update has 32 bytes for the id of its account, in its field user_id: of a
\* longer id it has only the beginning, which is the id of no account.
UpdateKey(a) == IF a \in LongIds THEN <<"cut", a>> ELSE a

\* What may be written is what the program has reached: an account is opened
\* and a user registered once and first, and bound when both are there.
Writable ==
    {<<"open", a, 0>> : a \in {a \in KnownAccounts :
        ~IsWritten("open", a) /\ \A w \in Journalists : writing[w].key # a}}
    \cup UNION {{<<"update", UpdateKey(a), v>>, <<"snapshot", a, v>>} : v \in JournalValues,
                 a \in {a \in KnownAccounts : IsWritten("open", a)}}
    \cup {<<"register", u, 0>> : u \in {u \in KnownUsers :
        ~IsWritten("register", u) /\ \A w \in Journalists : writing[w].key # u}}
    \cup {<<"bind", u, a>> : u \in {u \in KnownUsers : IsWritten("register", u)},
                             a \in {a \in KnownAccounts : IsWritten("open", a)}}
    \cup {<<t, k, v>> : t \in {"order", "position"}, k \in BookKeys, v \in JournalValues}

\* append numbers and dates its record, and then waits for the file.
NumberEntry(w, r) ==
    /\ writing[w] = NoEntry /\ next_entry <= JournalLimit
    /\ writing' = [writing EXCEPT ![w] =
         [seq |-> next_entry, time |-> next_entry, type |-> r[1], key |-> r[2], value |-> r[3]]]
    /\ next_entry' = next_entry + 1
    /\ UNCHANGED <<journal, journal_crashes>>

WriteEntry(w) ==
    /\ writing[w] # NoEntry
    /\ journal' = Append(journal, writing[w])
    /\ writing' = [writing EXCEPT ![w] = NoEntry]
    /\ UNCHANGED <<next_entry, journal_crashes>>

\* A process that starts again goes on after the largest number in the file.
RestartJournal ==
    /\ journal_crashes < JournalCrashes /\ journal_crashes' = journal_crashes + 1
    /\ writing' = [w \in Journalists |-> NoEntry]
    /\ next_entry' = Max({1} \cup {journal[n].seq : n \in DOMAIN journal}) + 1
    /\ UNCHANGED journal

UniNext ==
    \/ RestartJournal
    \/ \E w \in Journalists : WriteEntry(w) \/ \E r \in Writable : NumberEntry(w, r)
UniSpec == UniInit /\ [][UniNext]_uniVars
------------------------------------------------------------------------------
(* Recovery.  A configuration is [from, until, kinds]; a time of 0 is no bound *)
(* and kinds is the set of what is recovered.                                  *)

InTime(e, config) == (config.from = 0 \/ e.time >= config.from)
                     /\ (config.until = 0 \/ e.time <= config.until)

\* What is recovered: account and book entries by key, the accounts of users,
\* and the largest number seen.
NothingRecovered == [accounts |-> <<>>, users |-> <<>>, book |-> <<>>, last |-> 0]
Put(f, k, v) == [x \in DOMAIN f \cup {k} |-> IF x = k THEN v ELSE f[x]]
NewerThan(f, k, e) == k \notin DOMAIN f \/ e.seq > f[k].seq

\* The records of an account: it is opened whatever was there, brought up to date
\* by later entries if one of its id is there, and made by a snapshot if not.
AccountTold(accounts, e) ==
    IF \/ e.type = "open"
       \/ e.type = "update" /\ e.key \in DOMAIN accounts /\ NewerThan(accounts, e.key, e)
       \/ e.type = "snapshot" /\ NewerThan(accounts, e.key, e)
    THEN Put(accounts, e.key, e) ELSE accounts

UserTold(users, e) ==
    CASE e.type = "register" -> Put(users, e.key, {})
      [] e.type = "bind" /\ e.key \in DOMAIN users -> [users EXCEPT ![e.key] = @ \cup {e.value}]
      [] OTHER -> users

\* Orders and positions: only the newest is kept.
BookTold(book, e) ==
    LET k == <<e.type, e.key>>
    IN  IF e.type \in {"order", "position"} /\ NewerThan(book, k, e) THEN Put(book, k, e) ELSE book

\* process_record: what is not to be recovered stays as it is.
Processed(result, e, kinds) ==
    LET If(kind, told, old) == IF kind \in kinds THEN told ELSE old
    IN  [result EXCEPT !.accounts = If("accounts", AccountTold(@, e), @),
                       !.users = If("users", UserTold(@, e), @),
                       !.book = If("orders", BookTold(@, e), @)]

Recover(log, config) ==
    FoldLeft(LAMBDA result, e :
                 IF ~InTime(e, config) THEN result
                 ELSE [Processed(result, e, config.kinds) EXCEPT !.last = Max({@, e.seq})],
             NothingRecovered, log)
------------------------------------------------------------------------------
(* Properties. *)

RecoveryKinds == {"accounts", "users", "orders"}
Configurations == [from : {0, 2}, until : {0, JournalLimit - 1},
                   kinds : {{"accounts"}, {"users", "orders"}, RecoveryKinds}]

NewestOf(log, S) == log[CHOOSE n \in S : \A k \in S : log[k].seq <= log[n].seq]

\* Whatever the order in the file and the time looked at, each account, order
\* and position is as the entry with the largest number says, of those that come
\* after the first that tells the account and have its id, and a user has the
\* accounts bound after the registration.
RecoversNewest ==
    \A config \in Configurations :
        LET result == Recover(journal, config)
            Seen(types, key) == {n \in Entries(journal, types, key) : InTime(journal[n], config)}
            After(S, T) == {n \in S : \E k \in T : k <= n}
            told(a) == Seen({"open", "snapshot"}, a)
        IN  /\ "accounts" \in config.kinds =>
                 /\ DOMAIN result.accounts = {a \in KnownAccounts : told(a) # {}}
                 /\ \A a \in DOMAIN result.accounts : result.accounts[a] =
                      NewestOf(journal, After(Seen({"open", "update", "snapshot"}, a), told(a)))
            /\ "users" \in config.kinds =>
                 /\ DOMAIN result.users = {u \in KnownUsers : Seen({"register"}, u) # {}}
                 /\ \A u \in DOMAIN result.users : result.users[u] =
                      {journal[n].value : n \in After(Seen({"bind"}, u), Seen({"register"}, u))}
            /\ "orders" \in config.kinds =>
                 \A t \in {"order", "position"}, k \in BookKeys :
                     Seen({t}, k) # {} => result.book[<<t, k>>] = NewestOf(journal, Seen({t}, k))
=============================================================================
