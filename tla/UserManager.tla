----------------------------- MODULE UserManager -----------------------------
(***************************************************************************)
(* Users and their roles: UserManager (src/src/user/user_manager.rs), by   *)
(* concurrent calls, and what UserRecovery (src/src/user/recovery.rs)      *)
(* makes of the user storage after a crash.                                *)
(*                                                                         *)
(* A registration is a model value and becomes the fresh id of its user.   *)
(* Phone and email are checked and indexed as the name is.  The storage is *)
(* the log of its records, with the position for the sequence; a write     *)
(* fails or is durable (HybridStorage says when).  Records are stamped in  *)
(* seconds.                                                                *)
(***************************************************************************)
EXTENDS Integers, FiniteSets, SequencesExt

CONSTANTS
    Registrations, Usernames, UserAccounts,
    RoleSets,      \* sets of roles an administrator gives
    Seconds,       \* bound on the clock
    RoleChanges,   \* bound on changes of roles and bindings
    WalFaults, Restarts

ASSUME UserManagerAssumption ==
    /\ IsFiniteSet(Registrations) /\ IsFiniteSet(Usernames)
    /\ RoleSets \subseteq SUBSET {"Trader", "Admin"}
    /\ {Seconds, RoleChanges, WalFaults, Restarts} \subseteq Nat

VARIABLES
    user_roles,       \* roles by user id, for the users in the map
    account_ids,      \* account_ids[u]: accounts bound to u
    username_index,   \* user id by name, for the names taken
    registering,      \* registering[u]: [pc, username, roles, created_at]
    user_wal,         \* sequence of [type, user, roles, account, username, at]
    now,
    role_changes, wal_faults, restarts,
    wanted,           \* history: wanted[u]: roles last given to u
    bound,            \* history: bound[u]: bindings stored and not taken back
    unsure            \* history: users with a record not stored, or stored late

callVars == <<registering, now>>
userVars == <<user_roles, account_ids, username_index, callVars, user_wal, role_changes,
              wal_faults, restarts, wanted, bound, unsure>>

UserRoles == {"Trader", "Admin"}
NotRegistering == [pc |-> "none"]
Done == [pc |-> "done"]
NoUsers == [u \in {} |-> {}]
Known == DOMAIN user_roles
Registering(u, pc) == registering[u].pc = pc
With(f, x, y) == [z \in DOMAIN f \cup {x} |-> IF z = x THEN y ELSE f[z]]

UserInit ==
    /\ user_roles = NoUsers /\ username_index = NoUsers
    /\ account_ids = [u \in Registrations |-> {}]
    /\ registering = [u \in Registrations |-> NotRegistering]
    /\ user_wal = <<>> /\ now = 0
    /\ role_changes = 0 /\ wal_faults = 0 /\ restarts = 0
    /\ wanted = [u \in Registrations |-> {}]
    /\ bound = [u \in Registrations |-> {}]
    /\ unsure = {}

\* storage.write: the record is stored, or the failure is only logged.
Store(u, record) ==
    \/ user_wal' = Append(user_wal, record) /\ UNCHANGED wal_faults
    \/ wal_faults < WalFaults /\ wal_faults' = wal_faults + 1 /\ UNCHANGED user_wal
Stored == user_wal' # user_wal
------------------------------------------------------------------------------
(* register. *)

\* The name is free; the password is hashed.
CheckUsername(u, name) ==
    /\ registering[u] = NotRegistering
    /\ name \notin DOMAIN username_index
    /\ registering' = [registering EXCEPT ![u] = [pc |-> "checked", username |-> name]]
    /\ UNCHANGED <<user_roles, account_ids, username_index, user_wal, now, role_changes,
                   wal_faults, restarts, wanted, bound, unsure>>

\* The first user becomes the administrator.
FirstRoles == IF Known = {} THEN {"Admin"} ELSE {"Trader"}
CreateUser(u) ==
    /\ Registering(u, "checked")
    /\ registering' = [registering EXCEPT ![u] =
         [pc |-> "created", username |-> @.username, roles |-> FirstRoles, created_at |-> now]]
    /\ UNCHANGED <<user_roles, account_ids, username_index, user_wal, now, role_changes,
                   wal_faults, restarts, wanted, bound, unsure>>

InsertUser(u) ==
    /\ Registering(u, "created")
    /\ user_roles' = With(user_roles, u, registering[u].roles)
    /\ wanted' = [wanted EXCEPT ![u] = registering[u].roles]
    /\ registering' = [registering EXCEPT ![u].pc = "index"]
    /\ UNCHANGED <<account_ids, username_index, user_wal, now, role_changes, wal_faults,
                   restarts, bound, unsure>>

IndexUsername(u) ==
    /\ Registering(u, "index")
    /\ username_index' = With(username_index, registering[u].username, u)
    /\ registering' = [registering EXCEPT ![u].pc = "persist"]
    /\ UNCHANGED <<user_roles, account_ids, user_wal, now, role_changes, wal_faults,
                   restarts, wanted, bound, unsure>>

\* The record has the roles the user was made with.
PersistUser(u) ==
    /\ Registering(u, "persist")
    /\ Store(u, [type |-> "UserRegister", user |-> u, username |-> registering[u].username,
                 roles |-> registering[u].roles, at |-> registering[u].created_at])
    /\ unsure' = IF Stored THEN unsure ELSE unsure \cup {u}
    /\ registering' = [registering EXCEPT ![u] = Done]
    /\ UNCHANGED <<user_roles, account_ids, username_index, now, role_changes, restarts,
                   wanted, bound>>
------------------------------------------------------------------------------
(* Roles and bindings, each under the lock of the user from the change to  *)
(* the end of the write.                                                   *)

Changing(u) ==
    /\ u \in Known
    /\ role_changes < RoleChanges /\ role_changes' = role_changes + 1

\* add_user_role, remove_user_role, set_user_roles.
SetUserRoles(u, roles) ==
    /\ Changing(u)
    /\ user_roles' = [user_roles EXCEPT ![u] = roles]
    /\ wanted' = [wanted EXCEPT ![u] = roles]
    /\ Store(u, [type |-> "UserRoleUpdate", user |-> u, roles |-> roles, at |-> now])
    /\ unsure' = IF Stored /\ registering[u] = Done THEN unsure ELSE unsure \cup {u}
    /\ UNCHANGED <<account_ids, username_index, callVars, restarts, bound>>

BindAccount(u, a) ==
    /\ Changing(u)
    /\ account_ids' = [account_ids EXCEPT ![u] = @ \cup {a}]
    /\ Store(u, [type |-> "AccountBind", user |-> u, account |-> a])
    /\ bound' = IF Stored THEN [bound EXCEPT ![u] = @ \cup {a}] ELSE bound
    /\ UNCHANGED <<user_roles, username_index, callVars, restarts, wanted, unsure>>

\* No record is written of it.
UnbindAccount(u, a) ==
    /\ Changing(u)
    /\ account_ids' = [account_ids EXCEPT ![u] = @ \ {a}]
    /\ bound' = [bound EXCEPT ![u] = @ \ {a}]
    /\ UNCHANGED <<user_roles, username_index, callVars, user_wal, wal_faults, restarts,
                   wanted, unsure>>

NextUserSecond ==
    /\ now < Seconds /\ now' = now + 1
    /\ UNCHANGED <<user_roles, account_ids, username_index, registering, user_wal,
                   role_changes, wal_faults, restarts, wanted, bound, unsure>>
------------------------------------------------------------------------------
(* UserRecovery::recover_users. *)

\* range_query gives the records by time and sequence; bindings are stamped in
\* nanoseconds and come after all others.
Earlier(i, j) ==
    \/ user_wal[i].at < user_wal[j].at
    \/ user_wal[i].at = user_wal[j].at /\ i < j
UserRecords ==
    SetToSortSeq({i \in DOMAIN user_wal : user_wal[i].type # "AccountBind"}, Earlier)

UpToDate(at, updated_at) == at >= updated_at

\* An empty bitmask is read as the role of a trader.
RolesOfRecord(r) == IF r.roles = {} THEN {"Trader"} ELSE r.roles

\* One record; us[u] is what is known of u so far.  A user has one record of
\* its registration.
ApplyUserRecord(us, i) ==
    LET r == user_wal[i]
        known == r.user \in DOMAIN us
        new == [roles |-> RolesOfRecord(r), updated_at |-> r.at]
    IN  IF \/ r.type = "UserRegister" /\ ~known
           \/ r.type = "UserRoleUpdate" /\ known /\ UpToDate(r.at, us[r.user].updated_at)
        THEN With(us, r.user, new)
        ELSE us

RecoveredUsers == FoldLeft(ApplyUserRecord, [u \in {} |-> <<>>], UserRecords)
NameOfRecord(u) ==
    user_wal[CHOOSE i \in DOMAIN user_wal :
               user_wal[i].type = "UserRegister" /\ user_wal[i].user = u].username

\* The process dies and starts again.  Users are put into the index in the
\* order of a hash map: of two with one name either may stay.
RestartUsers ==
    /\ restarts < Restarts /\ restarts' = restarts + 1
    /\ LET us == RecoveredUsers IN
       /\ user_roles' = [u \in DOMAIN us |-> us[u].roles]
       /\ account_ids' = [u \in Registrations |->
            {a \in UserAccounts : \E i \in DOMAIN user_wal :
               u \in DOMAIN us /\ user_wal[i].type = "AccountBind"
               /\ user_wal[i].user = u /\ user_wal[i].account = a}]
       /\ \E index \in [{NameOfRecord(u) : u \in DOMAIN us} -> DOMAIN us] :
            /\ \A n \in DOMAIN index : NameOfRecord(index[n]) = n
            /\ username_index' = index
    /\ registering' = [u \in Registrations |->
                         IF Registering(u, "none") THEN NotRegistering ELSE Done]
    /\ UNCHANGED <<user_wal, now, role_changes, wal_faults, wanted, bound, unsure>>

UserNext ==
    \/ \E u \in Registrations :
         \/ \E name \in Usernames : CheckUsername(u, name)
         \/ CreateUser(u) \/ InsertUser(u) \/ IndexUsername(u) \/ PersistUser(u)
         \/ \E roles \in RoleSets : SetUserRoles(u, roles)
         \/ \E a \in UserAccounts : BindAccount(u, a) \/ UnbindAccount(u, a)
    \/ NextUserSecond
    \/ RestartUsers

UserSpec == UserInit /\ [][UserNext]_userVars
------------------------------------------------------------------------------
(* Properties. *)

UserTypeOK ==
    /\ Known \subseteq Registrations
    /\ \A u \in Known : user_roles[u] \subseteq UserRoles
    /\ DOMAIN username_index \subseteq Usernames
    /\ \A n \in DOMAIN username_index : username_index[n] \in Known

\* A user whose records were all stored is there after any number of restarts,
\* with the roles last given and the accounts last bound, although records of
\* several seconds and several calls are put in order by their stamps.  A role
\* changed before the registration was written is not promised: in the same
\* second its record sorts first and recovery drops it.  Nor is the loss of the
\* last role: such a user comes back as a trader.
UsersSurvive ==
    \A u \in {user_wal[i].user : i \in {j \in DOMAIN user_wal : user_wal[j].type = "UserRegister"}} :
        u \notin unsure =>
            /\ u \in Known
            /\ wanted[u] # {} => user_roles[u] = wanted[u]
            /\ bound[u] \subseteq account_ids[u]
=============================================================================
