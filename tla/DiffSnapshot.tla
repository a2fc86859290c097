---------------------------- MODULE DiffSnapshot ----------------------------
(***************************************************************************)
(* The patches of one user: UserSnapshotState and SnapshotManager of       *)
(* src/src/protocol/diff/snapshot.rs, pushed by the tasks of the gateways  *)
(* and taken by the tasks that serve peek_message.                         *)
(*                                                                         *)
(* The manager maps the user to a state, made anew after remove_user; a    *)
(* task keeps the state it has found even when the manager has dropped it. *)
(* One action is one section under one lock.                               *)
(***************************************************************************)
EXTENDS Naturals, FiniteSets, Sequences

CONSTANTS
    Pushers,      \* tasks that push; each pushes one patch, its own name
    Peekers,      \* sessions of the user, each with at most one peek
    SnapshotStates  \* bound: 1..n, the states the user may be given in turn

ASSUME DiffSnapshotAssumption ==
    /\ IsFiniteSet(Pushers) /\ IsFiniteSet(Peekers)
    /\ SnapshotStates \subseteq Nat \ {0} /\ IsFiniteSet(SnapshotStates)

VARIABLES
    user_snapshot,    \* the user's entry of user_snapshots, 0 if absent
    made,             \* states made so far
    pending_patches,  \* pending_patches[k]
    merged,           \* merged[k]: patches merged into the snapshot, in order
    pusher,           \* pusher[p]: [pc, state]
    peeker,           \* peeker[c]: [pc, state]
    taken             \* history: patches taken from state k, in order

peekVars == <<peeker, taken>>
diffVars == <<user_snapshot, made, pending_patches, merged, pusher, peekVars>>

PeekerIdle == [pc |-> "idle", state |-> 0]

DiffInit ==
    /\ user_snapshot = 0 /\ made = 0
    /\ pending_patches = [k \in SnapshotStates |-> <<>>]
    /\ merged = [k \in SnapshotStates |-> <<>>]
    /\ pusher = [p \in Pushers |-> [pc |-> "ready", state |-> 0]]
    /\ peeker = [c \in Peekers |-> PeekerIdle]
    /\ taken = [k \in SnapshotStates |-> <<>>]

\* entry().or_insert_with(): the user's state, a new one if there is none.
OrInsert ==
    IF user_snapshot # 0
    THEN UNCHANGED <<user_snapshot, made>>
    ELSE /\ made + 1 \in SnapshotStates
         /\ made' = made + 1
         /\ user_snapshot' = made + 1

InitializeUser ==
    /\ user_snapshot = 0 /\ OrInsert
    /\ UNCHANGED <<pending_patches, merged, pusher, peekVars>>

\* The session has stopped.  Tasks that hold the state keep it.
RemoveUser ==
    /\ user_snapshot # 0
    /\ user_snapshot' = 0
    /\ UNCHANGED <<made, pending_patches, merged, pusher, peekVars>>
------------------------------------------------------------------------------
(* push_patch. *)

PusherStep(p, from, to) == pusher[p].pc = from /\ pusher' = [pusher EXCEPT ![p].pc = to]

FindState(p) ==
    /\ pusher[p].pc = "ready"
    /\ OrInsert
    /\ pusher' = [pusher EXCEPT ![p] = [pc |-> "push", state |-> user_snapshot']]
    /\ UNCHANGED <<pending_patches, merged, peekVars>>

PushPatch(p) ==
    /\ PusherStep(p, "push", "merge")
    /\ pending_patches' = [pending_patches EXCEPT ![pusher[p].state] = Append(@, p)]
    /\ UNCHANGED <<user_snapshot, made, merged, peekVars>>

MergeSnapshot(p) ==
    /\ PusherStep(p, "merge", "notify")
    /\ merged' = [merged EXCEPT ![pusher[p].state] = Append(@, p)]
    /\ UNCHANGED <<user_snapshot, made, pending_patches, peekVars>>

\* notify_waiters wakes those that listen now and leaves no permit behind.
NotifyWaiters(p) ==
    /\ PusherStep(p, "notify", "done")
    /\ peeker' = [c \in Peekers |->
                    IF peeker[c].pc = "listening" /\ peeker[c].state = pusher[p].state
                    THEN [peeker[c] EXCEPT !.pc = "woken"] ELSE peeker[c]]
    /\ UNCHANGED <<user_snapshot, made, pending_patches, merged, taken>>
------------------------------------------------------------------------------
(* peek.  A peek of a user without a state returns None at once. *)

PeekerStep(c, from, to) == peeker[c].pc = from /\ peeker' = [peeker EXCEPT ![c].pc = to]

\* take_pending_patches, and the answer to the session.
TakePending(c, k) ==
    /\ pending_patches' = [pending_patches EXCEPT ![k] = <<>>]
    /\ taken' = [taken EXCEPT ![k] = @ \o pending_patches[k]]
    /\ peeker' = [peeker EXCEPT ![c] = PeekerIdle]

StartPeek(c) ==
    /\ peeker[c].pc = "idle" /\ user_snapshot # 0
    /\ peeker' = [peeker EXCEPT ![c] = [pc |-> "check", state |-> user_snapshot]]
    /\ UNCHANGED <<user_snapshot, made, pending_patches, merged, pusher, taken>>

HasPending(c) ==
    /\ PeekerStep(c, "check",
                  IF pending_patches[peeker[c].state] # <<>> THEN "take" ELSE "listen")
    /\ UNCHANGED <<user_snapshot, made, pending_patches, merged, pusher, taken>>

\* Another peek may have taken them: this one answers with no patch.
TakeFast(c) ==
    /\ peeker[c].pc = "take"
    /\ TakePending(c, peeker[c].state)
    /\ UNCHANGED <<user_snapshot, made, merged, pusher>>

\* notified() is made after the check: what is pushed in between wakes nobody.
Listen(c) ==
    /\ PeekerStep(c, "listen", "listening")
    /\ UNCHANGED <<user_snapshot, made, pending_patches, merged, pusher, taken>>

\* The woken task looks the user up again: it takes from the state of now.
TakeWoken(c) ==
    /\ peeker[c].pc = "woken"
    /\ IF user_snapshot = 0
       THEN peeker' = [peeker EXCEPT ![c] = PeekerIdle] /\ UNCHANGED <<pending_patches, taken>>
       ELSE TakePending(c, user_snapshot)
    /\ UNCHANGED <<user_snapshot, made, merged, pusher>>

\* Mutant of TimesOut: a peek waits until it is woken.
NeverTimesOut(c) == FALSE
TimesOut(c) == peeker[c].pc = "listening"
PeekTimeout(c) ==
    /\ TimesOut(c)
    /\ peeker' = [peeker EXCEPT ![c] = PeekerIdle]
    /\ UNCHANGED <<user_snapshot, made, pending_patches, merged, pusher, taken>>

PushStep(p) == FindState(p) \/ PushPatch(p) \/ MergeSnapshot(p) \/ NotifyWaiters(p)
PeekStep(c) ==
    StartPeek(c) \/ HasPending(c) \/ TakeFast(c) \/ Listen(c) \/ TakeWoken(c) \/ PeekTimeout(c)

DiffNext ==
    \/ InitializeUser \/ RemoveUser
    \/ \E p \in Pushers : PushStep(p)
    \/ \E c \in Peekers : PeekStep(c)

\* A session whose peek has ended peeks again; its tasks run on.
DiffFairness == \A c \in Peekers : WF_diffVars(PeekStep(c))

DiffSpec == DiffInit /\ [][DiffNext]_diffVars /\ DiffFairness
------------------------------------------------------------------------------
(* Properties. *)

DiffTypeOK ==
    /\ user_snapshot \in {0, made}
    /\ \A k \in SnapshotStates :
         /\ pending_patches[k] \in Seq(Pushers)
         /\ k > made => pending_patches[k] = <<>> /\ merged[k] = <<>>

PatchLogOf == INSTANCE PatchLog WITH
    Patches <- Pushers, States <- SnapshotStates,
    live <- user_snapshot, queue <- pending_patches, taken <- taken

\* Peeks hand out every patch once and in the order pushed, and hand it out at
\* last though notify_waiters may come before the peek listens, unless the
\* user is removed first.
ImplementsPatchLog == PatchLogOf!Spec
=============================================================================
