---------------------------- MODULE ServicesProofs ----------------------------
(***************************************************************************)
(* Four services that nothing in the core waits for.                       *)
(*                                                                         *)
(* A conditional order is submitted at most once, for any number of        *)
(* orders, of threads that bring prices, and of prices.  What makes it so  *)
(* is the entry a checker holds during submit_order: an order that has     *)
(* been given to the router stays Pending only while one checker holds it, *)
(* and nobody else looks at a held order.                                  *)
(*                                                                         *)
(* DIFF snapshots implement the log of patches.  The invariant says that a *)
(* task that has found a state found one that was made, and that a state   *)
(* holds only patches pushed.                                              *)
(*                                                                         *)
(* Conversion loses no record while a pass makes one batch.  The invariant *)
(* ties every copy of a conversion record, in the metadata, in the queue   *)
(* and in the hands of a worker, to the one file it is about.              *)
(*                                                                         *)
(* Capital keeps a record of all the money it moves.  The invariant adds   *)
(* up what an account was opened with, what its records tell and what      *)
(* calls under way have still to write; the facts about sums are in Sums.  *)
(***************************************************************************)
EXTENDS ConditionalOrders, DiffSnapshot, Conversion, Capital, Sums, SequenceTheorems

(* Conditional orders. *)

CondStatuses == {"None", "Pending", "Triggered", "Cancelled", "Expired", "Failed"}

CondTyped ==
    /\ by_instrument \in Seq(Conditionals)
    /\ creating \subseteq Conditionals
    /\ conditional \in [Conditionals -> CondStatuses]
    /\ checker \in [Checkers -> [at : Nat, last_price : Int]]
    /\ submitting \in [Checkers -> Conditionals \cup {Nothing}]
    /\ submitted \in Seq(Conditionals)
    /\ \A t \in Checkers : checker[t].at \in 0..Len(by_instrument)

Indexed(o) == \E i \in DOMAIN by_instrument : by_instrument[i] = o

\* An order is indexed before it is inserted.
IndexedFirst ==
    /\ \A o \in creating : conditional[o] = "None" /\ Indexed(o)
    /\ \A o \in Conditionals : conditional[o] # "None" => Indexed(o)

\* A held order is pending, and one checker holds it, in its loop.
HeldPending ==
    \A t \in Checkers : submitting[t] # Nothing =>
        /\ Checking(t)
        /\ conditional[submitting[t]] = "Pending"
        /\ \A u \in Checkers : submitting[u] = submitting[t] => u = t

\* What has been submitted is held, or is finished.
SubmittedHeld ==
    \A i \in DOMAIN submitted :
        \/ conditional[submitted[i]] \in {"Triggered", "Failed"}
        \/ conditional[submitted[i]] = "Pending" /\ Locked(submitted[i])

OnceSubmitted == \A i, j \in DOMAIN submitted : submitted[i] = submitted[j] => i = j

CondInv == CondTyped /\ IndexedFirst /\ HeldPending /\ SubmittedHeld /\ OnceSubmitted
------------------------------------------------------------------------------
LEMMA CondConstants ==
    /\ Nothing \notin Conditionals /\ Expires \subseteq Conditionals
    /\ LastPrices \subseteq Int /\ Ticks \in Nat
BY ConditionalOrdersAssumption DEF ConditionalOrdersAssumption

LEMMA AppendIndexed ==
    ASSUME NEW s \in Seq(Conditionals), NEW o \in Conditionals
    PROVE  /\ Append(s, o) \in Seq(Conditionals)
           /\ Len(Append(s, o)) = Len(s) + 1
           /\ DOMAIN Append(s, o) = (DOMAIN s) \cup {Len(s) + 1}
           /\ \A i \in DOMAIN s : Append(s, o)[i] = s[i]
           /\ Append(s, o)[Len(s) + 1] = o
           /\ Len(s) + 1 \notin DOMAIN s
OBVIOUS

LEMMA InitKeepsCond == CondInit => CondInv
BY CondConstants DEF CondInit, CondInv, CondTyped, IndexedFirst, HeldPending, SubmittedHeld,
   OnceSubmitted, CondStatuses

\* What the last step of a checker leaves: its place in the index moves on.
LEMMA AdvanceTyped ==
    ASSUME CondTyped, NEW t \in Checkers, Checking(t), Advance(t),
           UNCHANGED by_instrument
    PROVE  /\ checker' \in [Checkers -> [at : Nat, last_price : Int]]
           /\ \A u \in Checkers : checker'[u].at \in 0..Len(by_instrument')
           /\ \A u \in Checkers : u # t => checker'[u] = checker[u]
<1>1. Len(by_instrument) \in Nat /\ checker[t].at \in 1..Len(by_instrument)
  BY DEF CondTyped, Checking
<1> DEFINE next == IF checker[t].at = Len(by_instrument) THEN 0 ELSE checker[t].at + 1
<1>2. next \in 0..Len(by_instrument) /\ next \in Nat
  BY <1>1
<1>3. checker' = [checker EXCEPT ![t].at = next]
  BY DEF Advance
<1>4. checker \in [Checkers -> [at : Nat, last_price : Int]]
  BY DEF CondTyped
<1> HIDE DEF next
<1>5. checker'[t] = [checker[t] EXCEPT !.at = next]
  BY <1>3, <1>4
<1>6. checker'[t].at = next /\ checker'[t] \in [at : Nat, last_price : Int]
  BY <1>2, <1>4, <1>5
<1>7. /\ checker' \in [Checkers -> [at : Nat, last_price : Int]]
      /\ \A u \in Checkers : u # t => checker'[u] = checker[u]
  BY <1>3, <1>4, <1>6
<1> QED
  BY <1>2, <1>6, <1>7 DEF CondTyped

LEMMA IndexOrderStep ==
    ASSUME CondInv, NEW o \in Conditionals, IndexOrder(o)
    PROVE  CondInv'
<1>1. /\ by_instrument' = Append(by_instrument, o) /\ by_instrument \in Seq(Conditionals)
      /\ creating' = creating \cup {o} /\ conditional[o] = "None"
      /\ UNCHANGED <<conditional, checker, submitting, submitted>>
  BY DEF IndexOrder, CondInv, CondTyped
<1>2. CondTyped'
  BY <1>1, AppendIndexed DEF CondInv, CondTyped
<1>3. Indexed(o)' /\ \A p \in Conditionals : Indexed(p) => Indexed(p)'
  BY <1>1, AppendIndexed DEF Indexed
<1>4. IndexedFirst'
  BY <1>1, <1>3 DEF CondInv, IndexedFirst, CondTyped
<1> QED
  BY <1>1, <1>2, <1>4
     DEF CondInv, HeldPending, SubmittedHeld, OnceSubmitted, Locked, Checking

LEMMA InsertOrderStep ==
    ASSUME CondInv, NEW o \in Conditionals, InsertOrder(o)
    PROVE  CondInv'
<1>1. /\ o \in creating /\ creating' = creating \ {o} /\ conditional[o] = "None"
      /\ conditional' = [conditional EXCEPT ![o] = "Pending"]
      /\ UNCHANGED <<by_instrument, checker, submitting, submitted>>
  BY DEF InsertOrder, CondInv, IndexedFirst
<1>2. CondTyped'
  BY <1>1 DEF CondInv, CondTyped, CondStatuses
<1>3. IndexedFirst'
  BY <1>1 DEF CondInv, IndexedFirst, CondTyped, Indexed
<1>4. HeldPending' /\ SubmittedHeld'
  BY <1>1 DEF CondInv, CondTyped, HeldPending, SubmittedHeld, Locked, Checking
<1> QED
  BY <1>1, <1>2, <1>3, <1>4 DEF CondInv, OnceSubmitted

\* A pending order that no checker holds gets a final status.
LEMMA FinishStep ==
    ASSUME CondInv, NEW o \in Conditionals, ~Locked(o), IsPending(o),
           NEW final \in CondStatuses \ {"None"},
           conditional' = [conditional EXCEPT ![o] = final],
           UNCHANGED <<by_instrument, creating, submitting, submitted>>,
           checker' \in [Checkers -> [at : Nat, last_price : Int]],
           \A u \in Checkers : checker'[u].at \in 0..Len(by_instrument'),
           \A u \in Checkers : submitting[u] # Nothing => checker'[u] = checker[u]
    PROVE  CondInv'
<1>1. CondTyped'
  BY DEF CondInv, CondTyped
<1>2. IndexedFirst'
  BY DEF CondInv, IndexedFirst, CondTyped, Indexed, IsPending
<1>3. ASSUME NEW i \in DOMAIN submitted
      PROVE  submitted[i] # o /\ submitted[i] \in Conditionals
  <2>1. submitted[i] \in Conditionals
    BY DEF CondInv, CondTyped
  <2>2. submitted[i] = o => FALSE
    BY DEF CondInv, SubmittedHeld, IsPending
  <2> QED
    BY <2>1, <2>2
<1>4. HeldPending'
  BY DEF CondInv, HeldPending, CondTyped, Checking, Locked
<1>5. SubmittedHeld'
  BY <1>3 DEF CondInv, SubmittedHeld, CondTyped, Locked
<1> QED
  BY <1>1, <1>2, <1>4, <1>5 DEF CondInv, OnceSubmitted

LEMMA CancelStep ==
    ASSUME CondInv, NEW o \in Conditionals, CancelConditional(o)
    PROVE  CondInv'
<1>1. /\ ~Locked(o) /\ IsPending(o)
      /\ conditional' = [conditional EXCEPT ![o] = "Cancelled"]
      /\ UNCHANGED <<by_instrument, creating, checker, submitting, submitted>>
  BY DEF CancelConditional
<1>2. /\ checker' \in [Checkers -> [at : Nat, last_price : Int]]
      /\ \A u \in Checkers : checker'[u].at \in 0..Len(by_instrument')
      /\ "Cancelled" \in CondStatuses \ {"None"}
  BY <1>1 DEF CondInv, CondTyped, CondStatuses
<1> QED
  BY <1>1, <1>2, FinishStep

LEMMA CheckTriggersStep ==
    ASSUME CondInv, NEW t \in Checkers, CheckTriggers(t)
    PROVE  CondInv'
<1>1. /\ ~Checking(t) /\ by_instrument # <<>>
      /\ UNCHANGED <<by_instrument, creating, conditional, submitting, submitted>>
      /\ \E p \in LastPrices : checker' = [checker EXCEPT ![t] = [at |-> 1, last_price |-> p]]
  BY DEF CheckTriggers
<1>2. Len(by_instrument) \in Nat \ {0}
  BY <1>1 DEF CondInv, CondTyped
<1>3. CondTyped'
  BY <1>1, <1>2, CondConstants DEF CondInv, CondTyped
<1>4. HeldPending'
  BY <1>1 DEF CondInv, CondTyped, HeldPending, Checking
<1> QED
  BY <1>1, <1>3, <1>4 DEF CondInv, IndexedFirst, Indexed, SubmittedHeld, OnceSubmitted, Locked

\* A checker that passes an order by.
LEMMA SkipStep ==
    ASSUME CondInv, NEW t \in Checkers, Checking(t), submitting[t] = Nothing, Advance(t),
           UNCHANGED <<by_instrument, creating, conditional, submitting, submitted>>
    PROVE  CondInv'
<1>1. CondTyped'
  BY AdvanceTyped DEF CondInv, CondTyped
<1>2. HeldPending'
  BY AdvanceTyped DEF CondInv, HeldPending, Checking
<1> QED
  BY <1>1, <1>2 DEF CondInv, IndexedFirst, Indexed, SubmittedHeld, OnceSubmitted, Locked

LEMMA CheckOrderStep ==
    ASSUME CondInv, NEW t \in Checkers, CheckOrder(t)
    PROVE  CondInv'
<1>1. /\ Checking(t) /\ submitting[t] = Nothing /\ ~Locked(by_instrument[checker[t].at])
      /\ UNCHANGED <<by_instrument, creating>>
  BY DEF CheckOrder
<1>2. by_instrument[checker[t].at] \in Conditionals
  BY <1>1 DEF CondInv, CondTyped, Checking
<1>3. PICK o \in Conditionals : o = by_instrument[checker[t].at]
  BY <1>2
<1>4. CASE Advance(t) /\ UNCHANGED <<conditional, submitting, submitted>>
  BY <1>1, <1>4, SkipStep
<1>5. CASE /\ IsPending(o) /\ Advance(t)
           /\ conditional' = [conditional EXCEPT ![o] = "Expired"]
           /\ UNCHANGED <<submitting, submitted>>
  <2>1. /\ checker' \in [Checkers -> [at : Nat, last_price : Int]]
        /\ \A u \in Checkers : checker'[u].at \in 0..Len(by_instrument')
        /\ \A u \in Checkers : u # t => checker'[u] = checker[u]
    BY <1>1, <1>5, AdvanceTyped DEF CondInv
  <2>2. "Expired" \in CondStatuses \ {"None"}
    BY DEF CondStatuses
  <2> QED
    BY <1>1, <1>5, <1>3, <2>1, <2>2, FinishStep
<1>6. CASE /\ IsPending(o) /\ submitting' = [submitting EXCEPT ![t] = o]
           /\ submitted' = Append(submitted, o)
           /\ UNCHANGED <<conditional, checker>>
  <2>1. submitted \in Seq(Conditionals) /\ submitting \in [Checkers -> Conditionals \cup {Nothing}]
    BY DEF CondInv, CondTyped
  <2>2. CondTyped'
    BY <1>1, <1>6, <1>3, <2>1, AppendIndexed DEF CondInv, CondTyped
  <2>3. \A i \in DOMAIN submitted : submitted[i] # o
    BY <1>1, <1>6, <1>3 DEF CondInv, SubmittedHeld, IsPending
  <2>4. OnceSubmitted'
    BY <1>6, <1>3, <2>1, <2>3, AppendIndexed DEF CondInv, OnceSubmitted
  <2>5. HeldPending'
    BY <1>1, <1>6, <1>3, <2>1, CondConstants DEF CondInv, HeldPending, Checking, Locked, IsPending
  <2>6. \A p \in Conditionals : Locked(p) => Locked(p)'
    BY <1>1, <1>6, <2>1, CondConstants DEF Locked
  <2>7. Locked(o)'
    BY <1>6, <2>1 DEF Locked
  <2>8. SubmittedHeld'
    <3> SUFFICES ASSUME NEW i \in DOMAIN submitted'
                 PROVE  \/ conditional[submitted'[i]] \in {"Triggered", "Failed"}
                        \/ conditional[submitted'[i]] = "Pending" /\ Locked(submitted[i])'
      BY <1>6 DEF SubmittedHeld
    <3>1. CASE i \in DOMAIN submitted
      <4>1. submitted'[i] = submitted[i] /\ submitted[i] \in Conditionals
        BY <1>6, <1>3, <2>1, <3>1, AppendIndexed
      <4> QED
        BY <2>6, <3>1, <4>1 DEF CondInv, SubmittedHeld
    <3>2. CASE i = Len(submitted) + 1
      <4>1. submitted'[i] = o
        BY <1>6, <1>3, <2>1, <3>2, AppendIndexed
      <4> QED
        BY <1>6, <1>3, <2>7, <4>1 DEF IsPending
    <3> QED
      BY <1>6, <1>3, <2>1, <3>1, <3>2, AppendIndexed
  <2> QED
    BY <1>1, <1>6, <2>2, <2>4, <2>5, <2>8 DEF CondInv, IndexedFirst, Indexed
<1> QED
  BY <1>4, <1>5, <1>6, <1>3 DEF CheckOrder

LEMMA SubmittedStep ==
    ASSUME CondInv, NEW t \in Checkers, Submitted(t)
    PROVE  CondInv'
<1> DEFINE o == submitting[t]
<1>1. PICK outcome \in {"Triggered", "Failed"} :
        conditional' = [conditional EXCEPT ![o] = outcome]
  BY DEF Submitted
<1>2. /\ o # Nothing /\ submitting' = [submitting EXCEPT ![t] = Nothing]
      /\ Advance(t) /\ UNCHANGED <<by_instrument, creating, submitted>>
  BY DEF Submitted
<1>3. /\ Checking(t) /\ o \in Conditionals /\ conditional[o] = "Pending"
      /\ \A u \in Checkers : submitting[u] = o => u = t
  BY <1>2 DEF CondInv, HeldPending, CondTyped
<1>4. /\ checker' \in [Checkers -> [at : Nat, last_price : Int]]
      /\ \A u \in Checkers : checker'[u].at \in 0..Len(by_instrument')
      /\ \A u \in Checkers : u # t => checker'[u] = checker[u]
  BY <1>2, <1>3, AdvanceTyped DEF CondInv
<1> HIDE DEF o
<1>5. CondTyped'
  BY <1>1, <1>2, <1>3, <1>4 DEF CondInv, CondTyped, CondStatuses
<1>6. IndexedFirst'
  BY <1>1, <1>2, <1>3 DEF CondInv, IndexedFirst, CondTyped, Indexed
<1>7. HeldPending'
  <2> SUFFICES ASSUME NEW u \in Checkers, submitting'[u] # Nothing
               PROVE  /\ Checking(u)' /\ conditional'[submitting'[u]] = "Pending"
                      /\ \A v \in Checkers : submitting'[v] = submitting'[u] => v = u
    BY DEF HeldPending
  <2>1. u # t /\ submitting'[u] = submitting[u] /\ submitting[u] # o
    BY <1>2, <1>3 DEF CondInv, CondTyped
  <2> QED
    BY <1>1, <1>2, <1>3, <1>4, <2>1 DEF CondInv, HeldPending, CondTyped, Checking
<1>8. SubmittedHeld'
  <2> SUFFICES ASSUME NEW i \in DOMAIN submitted, submitted[i] # o
               PROVE  \/ conditional'[submitted[i]] \in {"Triggered", "Failed"}
                      \/ conditional'[submitted[i]] = "Pending" /\ Locked(submitted[i])'
    BY <1>1, <1>2, <1>3 DEF SubmittedHeld, CondInv, CondTyped
  <2>1. submitted[i] \in Conditionals
    BY DEF CondInv, CondTyped
  <2>2. Locked(submitted[i]) => Locked(submitted[i])'
    BY <1>2, <2>1 DEF Locked, CondInv, CondTyped, o
  <2> QED
    BY <1>1, <2>1, <2>2 DEF CondInv, SubmittedHeld, CondTyped
<1> QED
  BY <1>2, <1>5, <1>6, <1>7, <1>8 DEF CondInv, OnceSubmitted

LEMMA NextKeepsCond == CondInv /\ [CondNext]_condVars => CondInv'
<1> SUFFICES ASSUME CondInv, [CondNext]_condVars PROVE CondInv'
  OBVIOUS
<1>1. CASE UNCHANGED condVars
  BY <1>1 DEF condVars, CondInv, CondTyped, IndexedFirst, Indexed, HeldPending, SubmittedHeld,
     OnceSubmitted, Locked, Checking
<1> QED
  BY <1>1, IndexOrderStep, InsertOrderStep, CancelStep, CheckTriggersStep, CheckOrderStep,
     SubmittedStep DEF CondNext

\* The invariant of the engine holds in every state of every behaviour.
THEOREM CondInvariance == CondSpec => []CondInv
BY InitKeepsCond, NextKeepsCond, PTL DEF CondSpec

\* CondStatuses, places in the index and the order of indexing and inserting are
\* what check_triggers relies on: the index has every order that was inserted.
THEOREM CondTypeCorrect == CondSpec => []CondTypeOK
<1>1. CondInv => CondTypeOK
  BY DEF CondInv, CondTyped, IndexedFirst, Indexed, CondStatuses, CondTypeOK
<1> QED
  BY <1>1, CondInvariance, PTL

\* However many threads bring prices while orders are created and cancelled
\* and the router answers late, an order is submitted at most once, and not
\* once it is cancelled or expired.
THEOREM SubmittedOnce == CondSpec => []TriggersOnce
<1>1. CondInv => TriggersOnce
  BY DEF CondInv, SubmittedHeld, OnceSubmitted, TriggersOnce
<1> QED
  BY <1>1, CondInvariance, PTL
------------------------------------------------------------------------------
(* DIFF snapshots. *)

PusherSteps == {"ready", "push", "merge", "notify", "done"}
PeekerSteps == {"idle", "check", "take", "listen", "listening", "woken"}

DiffTyped ==
    /\ made \in Nat /\ user_snapshot \in {0, made} /\ (made # 0 => made \in SnapshotStates)
    /\ pending_patches \in [SnapshotStates -> Seq(Pushers)]
    /\ merged \in [SnapshotStates -> Seq(Pushers)]
    /\ taken \in [SnapshotStates -> Seq(Pushers)]
    /\ pusher \in [Pushers -> [pc : PusherSteps, state : Nat]]
    /\ peeker \in [Peekers -> [pc : PeekerSteps, state : Nat]]

\* A task that pushes and a peek under way have found one of the states made.
FoundState(task) == task.state \in SnapshotStates /\ task.state <= made
StatesFound ==
    /\ \A p \in Pushers : pusher[p].pc # "ready" => FoundState(pusher[p])
    /\ \A c \in Peekers : peeker[c].pc # "idle" => FoundState(peeker[c])

\* A state that has not been made holds nothing.
FreshIsEmpty ==
    \A k \in SnapshotStates : k > made =>
        pending_patches[k] = <<>> /\ merged[k] = <<>> /\ taken[k] = <<>>

\* A patch that waits or was handed out has been pushed by its task.
Pushed == {p \in Pushers : pusher[p].pc \notin {"ready", "push"}}
OnlyPushed ==
    \A k \in SnapshotStates : pending_patches[k] \in Seq(Pushed) /\ taken[k] \in Seq(Pushed)

DiffInv == DiffTyped /\ StatesFound /\ FreshIsEmpty /\ OnlyPushed
------------------------------------------------------------------------------
LEMMA StatesAreNumbers == SnapshotStates \subseteq Nat \ {0}
BY DiffSnapshotAssumption DEF DiffSnapshotAssumption

LEMMA MorePushed ==
    ASSUME NEW S, NEW T, S \subseteq T, NEW s \in Seq(S)
    PROVE  s \in Seq(T)
<1>1. \A i \in 1..Len(s) : s[i] \in T
  OBVIOUS
<1> QED
  BY <1>1

LEMMA InitKeepsDiff == DiffInit => DiffInv
<1> SUFFICES ASSUME DiffInit PROVE DiffInv
  OBVIOUS
<1> USE DEF DiffInit
<1>1. DiffTyped
  BY DEF DiffTyped, PusherSteps, PeekerSteps, PeekerIdle
<1>2. StatesFound
  BY DEF StatesFound, PeekerIdle
<1>3. FreshIsEmpty /\ OnlyPushed
  BY DEF FreshIsEmpty, OnlyPushed
<1> QED
  BY <1>1, <1>2, <1>3 DEF DiffInv

\* entry().or_insert_with() gives one of the states made.
LEMMA InsertedState ==
    ASSUME DiffTyped, OrInsert
    PROVE  /\ made' \in Nat /\ made <= made' /\ user_snapshot' = made' /\ made' # 0
           /\ made' \in SnapshotStates
BY StatesAreNumbers DEF DiffTyped, OrInsert

\* Only push_patch and the takers touch the patches.
LEMMA QuietKeepsDiff ==
    ASSUME DiffInv, made' \in Nat, made <= made', user_snapshot' \in {0, made'},
           made' # 0 => made' \in SnapshotStates,
           pusher' \in [Pushers -> [pc : PusherSteps, state : Nat]],
           peeker' \in [Peekers -> [pc : PeekerSteps, state : Nat]],
           Pushed \subseteq Pushed',
           \A p \in Pushers : pusher'[p].pc # "ready" => FoundState(pusher[p])',
           \A c \in Peekers : peeker'[c].pc # "idle" => FoundState(peeker[c])',
           UNCHANGED <<pending_patches, merged, taken>>
    PROVE  DiffInv'
<1>1. DiffTyped'
  BY DEF DiffInv, DiffTyped
<1>2. StatesFound'
  BY DEF StatesFound
<1>3. FreshIsEmpty'
  BY StatesAreNumbers DEF DiffInv, DiffTyped, FreshIsEmpty
<1>4. OnlyPushed'
  BY MorePushed DEF DiffInv, OnlyPushed
<1> QED
  BY <1>1, <1>2, <1>3, <1>4 DEF DiffInv

LEMMA NextKeepsDiff == DiffInv /\ [DiffNext]_diffVars => DiffInv'
<1> SUFFICES ASSUME DiffInv, [DiffNext]_diffVars PROVE DiffInv'
  OBVIOUS
<1> USE StatesAreNumbers
<1>typed. DiffTyped /\ StatesFound
  BY DEF DiffInv
<1>1. CASE UNCHANGED diffVars
  BY <1>1 DEF diffVars, peekVars, DiffInv, DiffTyped, StatesFound, FoundState, FreshIsEmpty,
              OnlyPushed, Pushed
<1>2. CASE InitializeUser \/ RemoveUser
  <2>1. CASE InitializeUser
    <3>1. /\ made' \in Nat /\ made <= made' /\ user_snapshot' = made' /\ made' # 0
          /\ made' \in SnapshotStates
      BY <2>1, <1>typed, InsertedState DEF InitializeUser
    <3> QED
      BY <1>typed, <2>1, <3>1, QuietKeepsDiff
         DEF InitializeUser, peekVars, DiffTyped, StatesFound, FoundState, Pushed
  <2>2. CASE RemoveUser
    BY <1>typed, <2>2, QuietKeepsDiff
       DEF RemoveUser, peekVars, DiffTyped, StatesFound, FoundState, Pushed
  <2> QED
    BY <1>2, <2>1, <2>2
<1>3. ASSUME NEW p \in Pushers, FindState(p) PROVE DiffInv'
  <2>1. /\ made' \in Nat /\ made <= made' /\ user_snapshot' = made' /\ made' # 0
        /\ made' \in SnapshotStates
    BY <1>3, <1>typed, InsertedState DEF FindState
  <2>2. /\ pusher' = [pusher EXCEPT ![p] = [pc |-> "push", state |-> made']]
        /\ pusher[p].pc = "ready" /\ UNCHANGED <<pending_patches, merged, taken, peeker>>
    BY <1>3, <2>1 DEF FindState, peekVars
  <2>3. pusher' \in [Pushers -> [pc : PusherSteps, state : Nat]]
    BY <1>typed, <2>1, <2>2 DEF DiffTyped, PusherSteps
  <2> QED
    BY <1>typed, <2>1, <2>2, <2>3, QuietKeepsDiff DEF DiffTyped, StatesFound, FoundState, Pushed
<1>4. ASSUME NEW p \in Pushers, PushPatch(p) PROVE DiffInv'
  <2> DEFINE k == pusher[p].state
  <2>1. /\ pusher[p].pc = "push" /\ pusher' = [pusher EXCEPT ![p].pc = "merge"]
        /\ pending_patches' = [pending_patches EXCEPT ![k] = Append(@, p)]
        /\ UNCHANGED <<user_snapshot, made, merged, peeker, taken>>
    BY <1>4 DEF PushPatch, PusherStep, peekVars
  <2>2. k \in SnapshotStates /\ k <= made
    BY <1>typed, <2>1 DEF StatesFound, FoundState
  <2>3. pending_patches[k] \in Seq(Pushers)
    BY <1>typed, <2>2 DEF DiffTyped
  <2>4. /\ pusher' \in [Pushers -> [pc : PusherSteps, state : Nat]]
        /\ \A q \in Pushers : pusher'[q].state = pusher[q].state
        /\ \A q \in Pushers : q # p => pusher'[q].pc = pusher[q].pc
        /\ pusher'[p].pc = "merge"
    BY <1>typed, <2>1 DEF DiffTyped, PusherSteps
  <2>5. /\ pending_patches' \in [SnapshotStates -> Seq(Pushers)]
        /\ pending_patches'[k] = Append(pending_patches[k], p)
        /\ \A n \in SnapshotStates : n # k => pending_patches'[n] = pending_patches[n]
    BY <1>typed, <2>1, <2>2 DEF DiffTyped
  <2> HIDE DEF k
  <2>6. DiffTyped'
    BY <1>typed, <2>1, <2>4, <2>5 DEF DiffTyped
  <2>7. StatesFound'
    BY <1>typed, <2>1, <2>4 DEF StatesFound, FoundState
  <2>8. FreshIsEmpty'
    BY <2>1, <2>2, <2>5, <1>typed DEF DiffInv, FreshIsEmpty, DiffTyped
  <2>9. OnlyPushed'
    <3>1. Pushed \subseteq Pushed' /\ p \in Pushed'
      BY <2>1, <2>4 DEF Pushed
    <3>2. pending_patches[k] \in Seq(Pushed')
      BY <2>2, <3>1, MorePushed DEF DiffInv, OnlyPushed
    <3>3. Append(pending_patches[k], p) \in Seq(Pushed')
      BY <3>1, <3>2
    <3> QED
      BY <2>1, <2>2, <2>5, <3>1, <3>3, MorePushed DEF DiffInv, OnlyPushed
  <2> QED
    BY <2>6, <2>7, <2>8, <2>9 DEF DiffInv
<1>5. ASSUME NEW p \in Pushers, MergeSnapshot(p) PROVE DiffInv'
  <2> DEFINE k == pusher[p].state
  <2>1. /\ pusher[p].pc = "merge" /\ pusher' = [pusher EXCEPT ![p].pc = "notify"]
        /\ merged' = [merged EXCEPT ![k] = Append(@, p)]
        /\ UNCHANGED <<user_snapshot, made, pending_patches, peeker, taken>>
    BY <1>5 DEF MergeSnapshot, PusherStep, peekVars
  <2>2. k \in SnapshotStates /\ k <= made
    BY <1>typed, <2>1 DEF StatesFound, FoundState
  <2>3. /\ merged' \in [SnapshotStates -> Seq(Pushers)]
        /\ \A n \in SnapshotStates : n # k => merged'[n] = merged[n]
    BY <1>typed, <2>1, <2>2 DEF DiffTyped
  <2>4. /\ pusher' \in [Pushers -> [pc : PusherSteps, state : Nat]]
        /\ \A q \in Pushers : pusher'[q].state = pusher[q].state
        /\ \A q \in Pushers : q # p => pusher'[q].pc = pusher[q].pc
        /\ pusher'[p].pc = "notify"
    BY <1>typed, <2>1 DEF DiffTyped, PusherSteps
  <2> HIDE DEF k
  <2>5. DiffTyped'
    BY <1>typed, <2>1, <2>3, <2>4 DEF DiffTyped
  <2>6. StatesFound'
    BY <1>typed, <2>1, <2>4 DEF StatesFound, FoundState
  <2>7. FreshIsEmpty'
    BY <2>1, <2>2, <2>3, <1>typed DEF DiffInv, FreshIsEmpty, DiffTyped
  <2>8. OnlyPushed'
    <3>1. Pushed \subseteq Pushed'
      BY <2>1, <2>4 DEF Pushed
    <3> QED
      BY <2>1, <3>1, MorePushed DEF DiffInv, OnlyPushed
  <2> QED
    BY <2>5, <2>6, <2>7, <2>8 DEF DiffInv
<1>6. ASSUME NEW p \in Pushers, NotifyWaiters(p) PROVE DiffInv'
  <2>1. /\ pusher[p].pc = "notify" /\ pusher' = [pusher EXCEPT ![p].pc = "done"]
        /\ peeker' = [c \in Peekers |->
                    IF peeker[c].pc = "listening" /\ peeker[c].state = pusher[p].state
                    THEN [peeker[c] EXCEPT !.pc = "woken"] ELSE peeker[c]]
        /\ UNCHANGED <<user_snapshot, made, pending_patches, merged, taken>>
    BY <1>6 DEF NotifyWaiters, PusherStep
  <2>2. /\ pusher' \in [Pushers -> [pc : PusherSteps, state : Nat]]
        /\ \A q \in Pushers : pusher'[q].state = pusher[q].state
        /\ \A q \in Pushers : q # p => pusher'[q].pc = pusher[q].pc
        /\ pusher'[p].pc = "done"
    BY <1>typed, <2>1 DEF DiffTyped, PusherSteps
  <2>3. /\ peeker' \in [Peekers -> [pc : PeekerSteps, state : Nat]]
        /\ \A c \in Peekers : peeker'[c].state = peeker[c].state
        /\ \A c \in Peekers : peeker'[c].pc # "idle" => peeker[c].pc # "idle"
    <3> SUFFICES ASSUME NEW c \in Peekers
                 PROVE  /\ peeker'[c] \in [pc : PeekerSteps, state : Nat]
                        /\ peeker'[c].state = peeker[c].state
                        /\ peeker'[c].pc # "idle" => peeker[c].pc # "idle"
      BY <2>1
    <3>1. peeker[c] \in [pc : PeekerSteps, state : Nat]
      BY <1>typed DEF DiffTyped
    <3> QED
      BY <2>1, <3>1 DEF PeekerSteps
  <2> QED
    BY <1>typed, <2>1, <2>2, <2>3, QuietKeepsDiff DEF DiffTyped, StatesFound, FoundState, Pushed
\* A peek that takes nothing goes from step to step.
<1>7. ASSUME NEW c \in Peekers, NEW to \in PeekerSteps, peeker[c].pc # "idle",
             peeker' = [peeker EXCEPT ![c].pc = to] \/ peeker' = [peeker EXCEPT ![c] = PeekerIdle],
             UNCHANGED <<user_snapshot, made, pending_patches, merged, pusher, taken>>
      PROVE  DiffInv'
  <2>1. CASE peeker' = [peeker EXCEPT ![c].pc = to]
    BY <1>7, <1>typed, <2>1, QuietKeepsDiff
       DEF DiffTyped, StatesFound, FoundState, Pushed, PeekerSteps
  <2>2. CASE peeker' = [peeker EXCEPT ![c] = PeekerIdle]
    BY <1>7, <1>typed, <2>2, QuietKeepsDiff
       DEF DiffTyped, StatesFound, FoundState, Pushed, PeekerSteps, PeekerIdle
  <2> QED
    BY <1>7, <2>1, <2>2
<1>8. ASSUME NEW c \in Peekers, StartPeek(c) PROVE DiffInv'
  <2>1. /\ peeker' = [peeker EXCEPT ![c] = [pc |-> "check", state |-> made]]
        /\ made \in SnapshotStates
        /\ UNCHANGED <<user_snapshot, made, pending_patches, merged, pusher, taken>>
    BY <1>typed, <1>8 DEF StartPeek, DiffTyped
  <2>2. /\ peeker' \in [Peekers -> [pc : PeekerSteps, state : Nat]]
        /\ \A d \in Peekers : d # c => peeker'[d] = peeker[d]
        /\ peeker'[c].state = made
    BY <1>typed, <2>1 DEF DiffTyped, PeekerSteps
  <2> QED
    BY <1>typed, <2>1, <2>2, QuietKeepsDiff DEF DiffTyped, StatesFound, FoundState, Pushed
<1>9. ASSUME NEW c \in Peekers, NEW k \in SnapshotStates, TakePending(c, k), k <= made,
             UNCHANGED <<user_snapshot, made, merged, pusher>>
      PROVE  DiffInv'
  <2>1. /\ pending_patches \in [SnapshotStates -> Seq(Pushers)]
        /\ taken \in [SnapshotStates -> Seq(Pushers)]
    BY <1>typed DEF DiffTyped
  <2>2. /\ pending_patches' = [pending_patches EXCEPT ![k] = <<>>]
        /\ taken' = [taken EXCEPT ![k] = taken[k] \o pending_patches[k]]
        /\ peeker' = [peeker EXCEPT ![c] = PeekerIdle]
    BY <1>9 DEF TakePending
  <2>3. taken[k] \o pending_patches[k] \in Seq(Pushers)
    BY <2>1
  <2>4. /\ pending_patches' \in [SnapshotStates -> Seq(Pushers)]
        /\ taken' \in [SnapshotStates -> Seq(Pushers)]
    BY <2>1, <2>2, <2>3
  <2>5. /\ peeker' \in [Peekers -> [pc : PeekerSteps, state : Nat]]
        /\ \A d \in Peekers : peeker'[d].pc # "idle" =>
             peeker'[d].state = peeker[d].state /\ peeker[d].pc # "idle"
    BY <2>2, <1>typed DEF DiffTyped, PeekerSteps, PeekerIdle
  <2>6. DiffTyped'
    BY <1>typed, <1>9, <2>4, <2>5 DEF DiffTyped
  <2>7. StatesFound'
    BY <1>typed, <1>9, <2>5 DEF StatesFound, FoundState
  <2>8. FreshIsEmpty'
    <3> SUFFICES ASSUME NEW n \in SnapshotStates, n > made
                 PROVE  pending_patches'[n] = <<>> /\ merged[n] = <<>> /\ taken'[n] = <<>>
      BY <1>9 DEF FreshIsEmpty
    <3>1. n # k
      BY <1>9, <1>typed DEF DiffTyped
    <3> QED
      BY <2>1, <2>2, <3>1 DEF DiffInv, FreshIsEmpty
  <2>9. OnlyPushed'
    <3>1. Pushed' = Pushed
      BY <1>9 DEF Pushed
    <3>2. taken[k] \o pending_patches[k] \in Seq(Pushed) /\ <<>> \in Seq(Pushed)
      BY DEF DiffInv, OnlyPushed
    <3> QED
      BY <2>1, <2>2, <3>1, <3>2 DEF DiffInv, OnlyPushed
  <2> QED
    BY <2>6, <2>7, <2>8, <2>9 DEF DiffInv
<1>10. ASSUME NEW c \in Peekers, PeekStep(c) PROVE DiffInv'
  <2>1. CASE StartPeek(c)
    BY <1>8, <2>1
  <2>2. CASE HasPending(c)
    BY <1>7, <2>2 DEF HasPending, PeekerStep, PeekerSteps
  <2>3. CASE TakeFast(c)
    BY <1>typed, <1>9, <2>3 DEF TakeFast, StatesFound, FoundState
  <2>4. CASE Listen(c)
    BY <1>7, <2>4 DEF Listen, PeekerStep, PeekerSteps
  <2>5. CASE TakeWoken(c)
    <3>1. CASE user_snapshot = 0
      BY <1>7, <2>5, <3>1 DEF TakeWoken, PeekerSteps
    <3>2. CASE user_snapshot # 0
      BY <1>9, <1>typed, <2>5, <3>2 DEF TakeWoken, DiffTyped
    <3> QED
      BY <3>1, <3>2
  <2>6. CASE PeekTimeout(c)
    BY <1>7, <2>6 DEF PeekTimeout, TimesOut, PeekerSteps
  <2> QED
    BY <1>10, <2>1, <2>2, <2>3, <2>4, <2>5, <2>6 DEF PeekStep
<1> QED
  BY <1>1, <1>2, <1>3, <1>4, <1>5, <1>6, <1>10 DEF DiffNext, PushStep

\* The invariant of the manager holds, for any number of tasks, peeks and states.
THEOREM DiffInvariance == DiffSpec => []DiffInv
<1> QED
  BY InitKeepsDiff, NextKeepsDiff, PTL DEF DiffSpec

\* Type correctness of the manager of user snapshots.
THEOREM DiffTypeCorrect == DiffSpec => []DiffTypeOK
<1>1. DiffInv => DiffTypeOK
  BY StatesAreNumbers DEF DiffInv, DiffTyped, FreshIsEmpty, DiffTypeOK
<1> QED
  BY <1>1, DiffInvariance, PTL
------------------------------------------------------------------------------
(* Every step of the manager is one of the log, or none. *)

\* Finding the user's state is Replace when it makes one.
LEMMA InsertReplaces ==
    ASSUME DiffInv, OrInsert, UNCHANGED <<pending_patches, taken>>
    PROVE  PatchLogOf!Replace \/ UNCHANGED PatchLogOf!logVars
<1>1. CASE user_snapshot # 0
  BY <1>1 DEF OrInsert, PatchLogOf!logVars
<1>2. CASE user_snapshot = 0
  <2>1. /\ user_snapshot' = made + 1 /\ made + 1 \in SnapshotStates /\ made \in Nat
    BY <1>2 DEF OrInsert, DiffInv, DiffTyped
  <2>2. pending_patches[made + 1] = <<>> /\ taken[made + 1] = <<>>
    BY <2>1 DEF DiffInv, FreshIsEmpty
  <2> QED
    BY <1>2, <2>1, <2>2 DEF PatchLogOf!Replace
<1> QED
  BY <1>1, <1>2

\* Taking from a state that has nothing changes nothing of the log.
LEMMA TakingTakes ==
    ASSUME DiffInv, NEW c \in Peekers, NEW k \in SnapshotStates, TakePending(c, k),
           UNCHANGED user_snapshot
    PROVE  PatchLogOf!Take(k) \/ UNCHANGED PatchLogOf!logVars
<1>1. /\ pending_patches \in [SnapshotStates -> Seq(Pushers)]
      /\ taken \in [SnapshotStates -> Seq(Pushers)]
  BY DEF DiffInv, DiffTyped
<1>2. CASE pending_patches[k] # <<>>
  BY <1>2 DEF TakePending, PatchLogOf!Take
<1>3. CASE pending_patches[k] = <<>>
  <2>1. taken[k] \o pending_patches[k] = taken[k]
    BY <1>1, <1>3
  <2>2. pending_patches' = pending_patches
    BY <1>1, <1>3 DEF TakePending
  <2>3. taken' = taken
    BY <1>1, <2>1 DEF TakePending
  <2> QED
    BY <2>2, <2>3 DEF PatchLogOf!logVars
<1> QED
  BY <1>2, <1>3

LEMMA StepsOfPatchLog == DiffInv /\ [DiffNext]_diffVars => [PatchLogOf!Next]_PatchLogOf!logVars
<1> SUFFICES ASSUME DiffInv, [DiffNext]_diffVars
             PROVE  PatchLogOf!Next \/ UNCHANGED PatchLogOf!logVars
  OBVIOUS
<1>1. CASE UNCHANGED diffVars
  BY <1>1 DEF diffVars, peekVars, PatchLogOf!logVars
<1>2. CASE InitializeUser
  BY <1>2, InsertReplaces DEF InitializeUser, peekVars, PatchLogOf!Next
<1>3. CASE RemoveUser
  BY <1>3 DEF RemoveUser, peekVars, PatchLogOf!Next, PatchLogOf!Replace
<1>4. ASSUME NEW p \in Pushers, FindState(p)
      PROVE  PatchLogOf!Next \/ UNCHANGED PatchLogOf!logVars
  BY <1>4, InsertReplaces DEF FindState, peekVars, PatchLogOf!Next
<1>5. ASSUME NEW p \in Pushers, PushPatch(p) PROVE PatchLogOf!Next
  <2> DEFINE k == pusher[p].state
  <2>1. /\ pusher[p].pc = "push" /\ pending_patches' = [pending_patches EXCEPT ![k] = Append(@, p)]
        /\ UNCHANGED <<user_snapshot, taken>>
    BY <1>5 DEF PushPatch, PusherStep, peekVars
  <2>2. k \in SnapshotStates
    BY <2>1 DEF DiffInv, StatesFound, FoundState
  <2>3. p \notin Pushed /\ pending_patches[k] \in Seq(Pushed) /\ taken[k] \in Seq(Pushed)
    BY <2>1, <2>2 DEF DiffInv, OnlyPushed, Pushed
  <2>4. /\ \A i \in DOMAIN pending_patches[k] : pending_patches[k][i] # p
        /\ \A i \in DOMAIN taken[k] : taken[k][i] # p
    BY <2>3
  <2> QED
    BY <2>1, <2>2, <2>4 DEF PatchLogOf!Next, PatchLogOf!Push
<1>6. ASSUME NEW p \in Pushers, MergeSnapshot(p) \/ NotifyWaiters(p)
      PROVE  UNCHANGED PatchLogOf!logVars
  BY <1>6 DEF MergeSnapshot, NotifyWaiters, peekVars, PatchLogOf!logVars
<1>7. ASSUME NEW c \in Peekers, PeekStep(c)
      PROVE  PatchLogOf!Next \/ UNCHANGED PatchLogOf!logVars
  <2>1. CASE StartPeek(c) \/ HasPending(c) \/ Listen(c) \/ PeekTimeout(c)
    BY <2>1 DEF StartPeek, HasPending, Listen, PeekTimeout, PatchLogOf!logVars
  <2>2. CASE TakeFast(c)
    <3>1. peeker[c].state \in SnapshotStates
      BY <2>2 DEF TakeFast, DiffInv, StatesFound, FoundState
    <3> QED
      BY <2>2, <3>1, TakingTakes DEF TakeFast, PatchLogOf!Next
  <2>3. CASE TakeWoken(c)
    <3>1. CASE user_snapshot = 0
      BY <2>3, <3>1 DEF TakeWoken, PatchLogOf!logVars
    <3>2. CASE user_snapshot # 0
      <4>1. user_snapshot \in SnapshotStates
        BY <3>2 DEF DiffInv, DiffTyped
      <4> QED
        BY <2>3, <3>2, <4>1, TakingTakes DEF TakeWoken, PatchLogOf!Next
    <3> QED
      BY <3>1, <3>2
  <2> QED
    BY <1>7, <2>1, <2>2, <2>3 DEF PeekStep
<1> QED
  BY <1>1, <1>2, <1>3, <1>4, <1>5, <1>6, <1>7 DEF DiffNext, PushStep

\* peek_message hands out every patch at most once, to one peek, after those
\* pushed before it, and from a state that is thrown away nothing new: the safety
\* of ImplementsPatchLog.  That it hands them out is liveness.
THEOREM DiffRefinesPatchLog ==
    DiffSpec => PatchLogOf!Init /\ [][PatchLogOf!Next]_PatchLogOf!logVars
<1>1. DiffInit => PatchLogOf!Init
  BY DEF DiffInit, PatchLogOf!Init
<1> QED
  BY <1>1, StepsOfPatchLog, DiffInvariance, PTL DEF DiffSpec
------------------------------------------------------------------------------
(* Conversion. *)

\* One batch takes all the files there are, so that a pass of the scheduler makes
\* one task.
OneBatch == Cardinality(SSTables) <= BatchMax

RecordStatuses == {"Pending", "Converting", "Success", "Failed"}
ConversionRecord ==
    [sstables : SUBSET SSTables, parquet : Nat, status : RecordStatuses, retry_count : Nat]
Task == [id : Nat, record : ConversionRecord]
SchedulerSteps == {"scan", "create", "retry", "zombies"}
WorkerSteps == {"read", "write", "rename", "renamed", "archive", "failed"}
BusyWorker == [pc : WorkerSteps, id : Nat, record : ConversionRecord]

ConvTyped ==
    /\ records \in Seq(ConversionRecord) /\ tasks \in Seq(Task)
    /\ scheduler \in [pc : SchedulerSteps, batches : Seq(SUBSET SSTables), clones : SUBSET Task]
    /\ worker \in [ConversionWorkers -> {IdleWorker} \cup BusyWorker]
    /\ sstable \in [SSTables -> {"none", "live", "archived"}]
    /\ tmp \in [Names -> (SUBSET SSTables) \cup {Absent}]
    /\ parquet \in [Names -> SUBSET SSTables]
    /\ clock \in Nat \ {0}

\* The file of a record is named by the record's number, since no second has two.
NamedInOrder ==
    /\ Len(records) <= Records /\ clock \in {Len(records), Len(records) + 1}
    /\ \A i \in Ids : records[i].parquet = i
    /\ Len(scheduler.batches) <= 1
    /\ scheduler.pc = "scan" \/ scheduler.batches # <<>> => clock = Len(records) + 1

\* What queue, scheduler and workers have copied of a record is about its files.
CopyOf(task, recs) ==
    /\ task.id \in DOMAIN recs
    /\ task.record.sstables = recs[task.id].sstables
    /\ task.record.parquet = task.id
QueueAgrees == \A i \in DOMAIN tasks : CopyOf(tasks[i], records)
ClonesAgree == \A task \in scheduler.clones : CopyOf(task, records)
WorkersAgree ==
    \A w \in ConversionWorkers : worker[w] # IdleWorker => CopyOf(worker[w], records)
CopiesAgree == QueueAgrees /\ ClonesAgree /\ WorkersAgree

\* A file of a name has what the record of that name converts.
FilesAgree ==
    \A n \in Names :
        /\ tmp[n] # Absent => n \in Ids /\ tmp[n] = records[n].sstables
        /\ parquet[n] # {} => n \in Ids /\ parquet[n] = records[n].sstables

\* Past the rename the file is there.
RenamedIsThere ==
    \A w \in ConversionWorkers :
        worker[w] # IdleWorker /\ worker[w].pc \in {"renamed", "archive"} =>
            parquet[worker[w].id] = worker[w].record.sstables

ConvInv ==
    ConvTyped /\ NamedInOrder /\ CopiesAgree /\ FilesAgree /\ RenamedIsThere /\ SourceProtected
------------------------------------------------------------------------------
LEMMA ConversionNumbers ==
    /\ SSTables \subseteq Nat /\ IsFiniteSet(SSTables) /\ BatchMin \in Nat \ {0}
    /\ BatchMax \in Nat \ {0} /\ Records \in Nat \ {0} /\ Names = 1..(Records + 1)
BY ConversionAssumption DEF ConversionAssumption, Names

\* A worker that works is not idle, a file that is there is not absent.
LEMMA BusyIsNotIdle ==
    /\ \A x \in BusyWorker : x # IdleWorker
    /\ \A files \in SUBSET SSTables : files # Absent
BY ConversionNumbers DEF BusyWorker, WorkerSteps, IdleWorker, Absent

\* MarkFailed leaves the files of a record.
LEMMA FailedRecord ==
    ASSUME NEW r \in ConversionRecord
    PROVE  /\ MarkFailed(r) \in ConversionRecord
           /\ MarkFailed(r).sstables = r.sstables /\ MarkFailed(r).parquet = r.parquet
<1>1. r.retry_count + 1 \in Nat
  BY DEF ConversionRecord
<1> DEFINE failed == [r EXCEPT !.status = "Failed"]
<1>2. failed \in ConversionRecord /\ failed.retry_count = r.retry_count
      /\ failed.sstables = r.sstables /\ failed.parquet = r.parquet
  BY DEF ConversionRecord, RecordStatuses
<1>3. MarkFailed(r) = [failed EXCEPT !.retry_count = r.retry_count + 1]
  BY <1>2 DEF MarkFailed
<1> HIDE DEF failed
<1> QED
  BY <1>1, <1>2, <1>3 DEF ConversionRecord

LEMMA OneQuotient ==
    ASSUME NEW b \in Nat \ {0}, NEW c \in Nat, c <= b
    PROVE  (c + b - 1) \div b \in {0, 1}
OBVIOUS

LEMMA OneBatchAtMost ==
    ASSUME OneBatch, NEW live \in SUBSET SSTables
    PROVE  Batches(live) \in Seq(SUBSET SSTables) /\ Len(Batches(live)) <= 1
<1>1. Cardinality(live) \in Nat /\ Cardinality(live) <= BatchMax
  <2>1. IsFiniteSet(live) /\ Cardinality(live) <= Cardinality(SSTables)
    BY ConversionNumbers, FS_Subset
  <2>2. Cardinality(live) \in Nat /\ Cardinality(SSTables) \in Nat
    BY <2>1, ConversionNumbers, FS_CardinalityType
  <2> QED
    BY <2>1, <2>2, ConversionNumbers DEF OneBatch
<1>2. (Cardinality(live) + BatchMax - 1) \div BatchMax \in {0, 1}
  BY <1>1, ConversionNumbers, OneQuotient
<1> DEFINE count == (Cardinality(live) + BatchMax - 1) \div BatchMax
           Rank(f) == Cardinality({g \in live : g <= f})
           Batch(b) == {f \in live : (Rank(f) - 1) \div BatchMax = b - 1}
<1>3. Batches(live) = IF Cardinality(live) < BatchMin THEN <<>> ELSE [b \in 1..count |-> Batch(b)]
  BY DEF Batches
<1>4. \A b \in Nat : Batch(b) \in SUBSET SSTables
  OBVIOUS
<1>5. count \in {0, 1}
  BY <1>2
<1> HIDE DEF count, Batch
<1> QED
  BY <1>3, <1>4, <1>5

LEMMA AppendedMembers ==
    ASSUME NEW S, NEW s \in Seq(S), NEW x \in S
    PROVE  \A i \in DOMAIN Append(s, x) :
             Append(s, x)[i] = x \/ (i \in DOMAIN s /\ Append(s, x)[i] = s[i])
OBVIOUS

LEMMA OnlyOne ==
    ASSUME NEW S, NEW s \in Seq(S), s # <<>>, Len(s) <= 1
    PROVE  Tail(s) = <<>> /\ Head(s) \in S
<1>1. Len(s) # 0 /\ Len(s) \in Nat
  BY EmptySeq
<1>2. Len(s) = 1
  BY <1>1
<1>3. Len(Tail(s)) = 0 /\ Tail(s) \in Seq(S) /\ Head(s) \in S
  BY <1>2
<1>4. Tail(s) = <<>>
  BY <1>3, EmptySeq
<1> QED
  BY <1>3, <1>4

\* The clock after the next pass begins.
LEMMA NextSecondIsFree ==
    ASSUME ConvTyped, NamedInOrder, NextSecond
    PROVE  clock' = Len(records) + 1
<1>1. Len(records) \in Nat /\ Ids = 1..Len(records)
  BY DEF ConvTyped, Ids
<1>2. CASE clock = Len(records) + 1
  BY <1>1, <1>2 DEF NextSecond, NamedInOrder
<1>3. CASE clock = Len(records)
  <2>1. Len(records) # 0 => Len(records) \in Ids /\ records[Len(records)].parquet = clock
    BY <1>1, <1>3 DEF NamedInOrder
  <2>2. Len(records) # 0
    BY <1>3 DEF ConvTyped
  <2> QED
    BY <1>1, <1>3, <2>1, <2>2 DEF NextSecond
<1> QED
  BY <1>2, <1>3 DEF NamedInOrder

\* Records are added and changed; which files one converts stays.
RecordsKept ==
    /\ DOMAIN records \subseteq DOMAIN records'
    /\ \A i \in DOMAIN records : records'[i].sstables = records[i].sstables

LEMMA CopiesKept ==
    ASSUME RecordsKept, NEW task, CopyOf(task, records)
    PROVE  CopyOf(task, records')
BY DEF RecordsKept, CopyOf

LEMMA FilesKept ==
    ASSUME RecordsKept, FilesAgree, UNCHANGED <<tmp, parquet>>
    PROVE  FilesAgree'
BY DEF RecordsKept, FilesAgree, Ids

\* What becomes of a record by a copy of it.
LEMMA UpdatedRecord ==
    ASSUME ConvTyped, NamedInOrder, NEW task \in Task \cup BusyWorker, CopyOf(task, records),
           NEW record \in ConversionRecord, UpdateRecord(task.id, record),
           record.sstables = task.record.sstables, record.parquet = task.record.parquet
    PROVE  /\ RecordsKept /\ records' \in Seq(ConversionRecord)
           /\ Len(records') = Len(records) /\ DOMAIN records' = DOMAIN records
           /\ \A i \in DOMAIN records' : records'[i].parquet = i
<1>1. /\ records \in Seq(ConversionRecord) /\ task.id \in 1..Len(records)
      /\ records' = [records EXCEPT ![task.id] = record]
  BY DEF ConvTyped, CopyOf, UpdateRecord
<1>2. records' \in Seq(ConversionRecord) /\ Len(records') = Len(records)
  BY <1>1
<1>3. ASSUME NEW i \in DOMAIN records
      PROVE  records'[i].sstables = records[i].sstables /\ records'[i].parquet = i
  <2>1. CASE i = task.id
    BY <1>1, <2>1 DEF CopyOf
  <2>2. CASE i # task.id
    BY <1>1, <2>2 DEF NamedInOrder, Ids
  <2> QED
    BY <2>1, <2>2
<1> QED
  BY <1>1, <1>2, <1>3 DEF RecordsKept

LEMMA InitKeepsConv == ConvInit => ConvInv
<1> SUFFICES ASSUME ConvInit PROVE ConvInv
  OBVIOUS
<1> USE ConversionNumbers DEF ConvInit
<1>1. ConvTyped
  <2>1. <<>> \in Seq(ConversionRecord) /\ <<>> \in Seq(Task) /\ <<>> \in Seq(SUBSET SSTables)
    OBVIOUS
  <2>2. scheduler \in [pc : SchedulerSteps, batches : Seq(SUBSET SSTables), clones : SUBSET Task]
    BY <2>1 DEF Scanning, SchedulerSteps
  <2>3. /\ worker \in [ConversionWorkers -> {IdleWorker} \cup BusyWorker]
        /\ sstable \in [SSTables -> {"none", "live", "archived"}]
        /\ parquet \in [Names -> SUBSET SSTables]
    OBVIOUS
  <2>4. tmp \in [Names -> (SUBSET SSTables) \cup {Absent}]
    OBVIOUS
  <2> QED
    BY <2>1, <2>2, <2>3, <2>4 DEF ConvTyped
<1>2. NamedInOrder
  BY DEF NamedInOrder, Scanning, Ids
<1>3. CopiesAgree
  BY DEF CopiesAgree, QueueAgrees, ClonesAgree, WorkersAgree, Scanning
<1>4. FilesAgree
  BY DEF FilesAgree
<1>5. RenamedIsThere /\ SourceProtected
  BY DEF RenamedIsThere, SourceProtected
<1> QED
  BY <1>1, <1>2, <1>3, <1>4, <1>5 DEF ConvInv

\* The scheduler goes on and no record or file changes.
LEMMA SchedulerKeepsConv ==
    ASSUME ConvInv,
           scheduler' \in [pc : SchedulerSteps, batches : Seq(SUBSET SSTables), clones : SUBSET Task],
           Len(scheduler'.batches) <= 1, clock' \in Nat \ {0},
           clock' \in {Len(records), Len(records) + 1},
           scheduler'.pc = "scan" \/ scheduler'.batches # <<>> => clock' = Len(records) + 1,
           \A task \in scheduler'.clones : CopyOf(task, records),
           tmp' \in [Names -> (SUBSET SSTables) \cup {Absent}],
           \A n \in Names : tmp'[n] # Absent => tmp'[n] = tmp[n],
           UNCHANGED <<records, tasks, worker, sstable, parquet>>
    PROVE  ConvInv'
<1>1. ConvTyped'
  BY DEF ConvInv, ConvTyped
<1>2. NamedInOrder'
  BY DEF ConvInv, NamedInOrder, Ids
<1>3. CopiesAgree'
  BY DEF ConvInv, CopiesAgree, QueueAgrees, ClonesAgree, WorkersAgree
<1>4. FilesAgree' /\ RenamedIsThere' /\ SourceProtected'
  BY DEF ConvInv, FilesAgree, RenamedIsThere, SourceProtected, Ids
<1> QED
  BY <1>1, <1>2, <1>3, <1>4 DEF ConvInv

LEMMA ScheduleKeepsConv == ASSUME OneBatch, ConvInv, ScheduleStep PROVE ConvInv'
<1> USE ConversionNumbers
<1>typed. /\ ConvTyped /\ NamedInOrder /\ CopiesAgree
          /\ records \in Seq(ConversionRecord) /\ tasks \in Seq(Task)
          /\ scheduler \in [pc : SchedulerSteps, batches : Seq(SUBSET SSTables), clones : SUBSET Task]
          /\ clock \in Nat \ {0} /\ Len(records) \in Nat /\ tmp \in [Names -> (SUBSET SSTables) \cup {Absent}]
  BY DEF ConvInv, ConvTyped
<1>1. CASE ScanSSTables
  <2> DEFINE live == {f \in SSTables : sstable[f] = "live"}
  <2>1. /\ scheduler' = [scheduler EXCEPT !.pc = "create", !.batches = Batches(live)]
        /\ scheduler.pc = "scan"
        /\ UNCHANGED <<records, tasks, clock, worker, sstable, tmp, parquet>>
    BY <1>1 DEF ScanSSTables, fileVars
  <2>2. Batches(live) \in Seq(SUBSET SSTables) /\ Len(Batches(live)) <= 1
    BY OneBatchAtMost
  <2> HIDE DEF live
  <2>3. scheduler' \in [pc : SchedulerSteps, batches : Seq(SUBSET SSTables), clones : SUBSET Task]
    BY <1>typed, <2>1, <2>2 DEF SchedulerSteps
  <2>4. clock = Len(records) + 1 /\ scheduler'.clones = scheduler.clones
    BY <1>typed, <2>1 DEF NamedInOrder
  <2> QED
    BY <1>typed, <2>1, <2>2, <2>3, <2>4, SchedulerKeepsConv DEF CopiesAgree, ClonesAgree
<1>2. CASE CreateConversionTask
  <2> DEFINE files == Head(scheduler.batches)
             record == [sstables |-> files, parquet |-> ParquetName, status |-> "Pending",
                        retry_count |-> 0]
             task == [id |-> Len(records) + 1, record |-> record]
  <2>1. /\ scheduler.batches # <<>> /\ scheduler' = [scheduler EXCEPT !.batches = Tail(@)]
        /\ UNCHANGED <<clock, worker, sstable, tmp, parquet>>
        /\ \/ UNCHANGED <<records, tasks>>
           \/ /\ Len(records) # Records
              /\ records' = Append(records, record) /\ tasks' = Append(tasks, task)
    BY <1>2 DEF CreateConversionTask, fileVars
  <2>2. Tail(scheduler.batches) = <<>> /\ files \in SUBSET SSTables
    <3>1. scheduler.batches \in Seq(SUBSET SSTables) /\ Len(scheduler.batches) <= 1
      BY <1>typed DEF NamedInOrder
    <3> QED
      BY <2>1, <3>1, OnlyOne
  <2>3. /\ scheduler' \in [pc : SchedulerSteps, batches : Seq(SUBSET SSTables), clones : SUBSET Task]
        /\ scheduler'.batches = <<>> /\ scheduler'.pc = scheduler.pc
        /\ scheduler'.clones = scheduler.clones
    <3>1. scheduler' = [scheduler EXCEPT !.batches = <<>>] /\ <<>> \in Seq(SUBSET SSTables)
      BY <2>1, <2>2
    <3> HIDE DEF files, record, task
    <3> QED
      BY <1>typed, <3>1
  <2>4. clock = Len(records) + 1 /\ scheduler.pc = "create"
    BY <1>typed, <1>2, <2>1 DEF NamedInOrder, CreateConversionTask
  <2>5. CASE UNCHANGED <<records, tasks>>
    <3> HIDE DEF files, record, task
    <3>1. Len(scheduler'.batches) <= 1 /\ scheduler'.pc # "scan"
      BY <2>3, <2>4
    <3> QED
      BY <1>typed, <3>1, <2>1, <2>3, <2>4, <2>5, SchedulerKeepsConv DEF CopiesAgree, ClonesAgree
  <2>6. CASE /\ Len(records) # Records
             /\ records' = Append(records, record) /\ tasks' = Append(tasks, task)
    <3>1. record \in ConversionRecord /\ task \in Task /\ record.parquet = Len(records) + 1
      BY <1>typed, <2>2, <2>4 DEF ConversionRecord, RecordStatuses, Task, ParquetName
    <3>2. task.id = Len(records) + 1 /\ task.record = record /\ record.sstables = files
      OBVIOUS
    <3> HIDE DEF files, record, task
    <3>3. /\ records' \in Seq(ConversionRecord) /\ Len(records') = Len(records) + 1
          /\ DOMAIN records' = 1..(Len(records) + 1) /\ DOMAIN records = 1..Len(records)
          /\ records'[Len(records) + 1] = record
          /\ \A i \in DOMAIN records : records'[i] = records[i]
      BY <1>typed, <2>6, <3>1
    <3>4. RecordsKept
      BY <1>typed, <3>3 DEF RecordsKept
    <3>5. CopyOf(task, records')
      BY <1>typed, <3>1, <3>2, <3>3 DEF CopyOf
    <3>6. ConvTyped'
      <4>1. tasks' \in Seq(Task)
        BY <1>typed, <2>6, <3>1
      <4> QED
        BY <1>typed, <2>1, <2>3, <3>3, <4>1 DEF ConvTyped
    <3>7. NamedInOrder'
      <4>1. Len(records') <= Records
        <5>1. Len(records) <= Records /\ Records \in Nat
          BY <1>typed DEF NamedInOrder
        <5>2. Len(records') = Len(records) + 1 /\ Len(records) # Records /\ Len(records) \in Nat
          BY <1>typed, <2>6, <3>3, ZenonT(60)
        <5> QED
          BY ONLY <5>1, <5>2
      <4>2. ASSUME NEW i \in DOMAIN records' PROVE records'[i].parquet = i
        <5>1. i \in DOMAIN records \/ i = Len(records) + 1
          BY <1>typed, <3>3
        <5> QED
          BY <1>typed, <3>1, <3>3, <5>1 DEF NamedInOrder, Ids
      <4>3. Len(scheduler'.batches) <= 1 /\ scheduler'.pc # "scan"
        BY <2>3, <2>4
      <4>4. clock' = Len(records')
        BY <2>1, <2>4, <3>3
      <4> QED
        BY <2>3, <4>1, <4>2, <4>3, <4>4 DEF NamedInOrder, Ids
    <3>8. QueueAgrees'
      <4>1. \A i \in DOMAIN tasks' : tasks'[i] = task \/ (i \in DOMAIN tasks /\ tasks'[i] = tasks[i])
        BY <1>typed, <2>6, <3>1, AppendedMembers, SMTT(60)
      <4> QED
        BY <1>typed, <3>4, <3>5, <4>1, CopiesKept DEF CopiesAgree, QueueAgrees
    <3>9. ClonesAgree' /\ WorkersAgree'
      BY <1>typed, <2>1, <2>3, <3>4, CopiesKept DEF CopiesAgree, ClonesAgree, WorkersAgree
    <3>10. FilesAgree'
      BY <2>1, <3>4, FilesKept DEF ConvInv
    <3>11. RenamedIsThere' /\ SourceProtected'
      BY <2>1 DEF ConvInv, RenamedIsThere, SourceProtected
    <3> QED
      BY <3>6, <3>7, <3>8, <3>9, <3>10, <3>11 DEF ConvInv, CopiesAgree
  <2> QED
    BY <2>1, <2>5, <2>6
\* Copies of records, with another status and count of retries.
<1>3. ASSUME NEW ids \in SUBSET Ids, NEW pc \in SchedulerSteps \ {"scan"},
             NEW copy \in [ids -> ConversionRecord],
             \A i \in ids : copy[i].sstables = records[i].sstables /\ copy[i].parquet = i,
             scheduler' = [scheduler EXCEPT !.pc = pc,
                             !.clones = {[id |-> i, record |-> copy[i]] : i \in ids}],
             UNCHANGED <<records, tasks, clock, worker, sstable, tmp, parquet>>
      PROVE  ConvInv'
  <2>1. ids \subseteq 1..Len(records)
    BY <1>typed, <1>3 DEF Ids
  <2>2. {[id |-> i, record |-> copy[i]] : i \in ids} \in SUBSET Task
    BY <1>3, <2>1 DEF Task
  <2> DEFINE clones == {[id |-> i, record |-> copy[i]] : i \in ids}
  <2>3. \A task \in clones : CopyOf(task, records)
    BY <1>3, <2>1, <1>typed DEF CopyOf
  <2> HIDE DEF clones
  <2>4. scheduler' = [scheduler EXCEPT !.pc = pc, !.clones = clones] /\ clones \in SUBSET Task
    BY <1>3, <2>2 DEF clones
  <2>5. /\ scheduler' \in [pc : SchedulerSteps, batches : Seq(SUBSET SSTables), clones : SUBSET Task]
        /\ scheduler'.batches = scheduler.batches /\ scheduler'.pc # "scan"
        /\ scheduler'.clones = clones
    BY <1>typed, <1>3, <2>4, ZenonT(60)
  <2> QED
    BY <1>typed, <1>3, <2>3, <2>5, SchedulerKeepsConv DEF NamedInOrder
<1>4. CASE CollectRetries
  <2>1. PICK due \in SUBSET {i \in Ids : CanRetry(records[i])} :
          scheduler' = [scheduler EXCEPT !.pc = "retry",
           !.clones = {[id |-> i, record |-> [records[i] EXCEPT !.status = "Pending"]] : i \in due}]
    BY <1>4 DEF CollectRetries
  <2> DEFINE copy == [i \in due |-> [records[i] EXCEPT !.status = "Pending"]]
  <2>2. \A i \in Ids : records[i] \in ConversionRecord /\ records[i].parquet = i
    BY <1>typed DEF NamedInOrder, Ids
  <2>3. /\ copy \in [due -> ConversionRecord] /\ due \in SUBSET Ids
        /\ \A i \in due : copy[i].sstables = records[i].sstables /\ copy[i].parquet = i
    BY <2>2 DEF ConversionRecord, RecordStatuses
  <2>4. scheduler' = [scheduler EXCEPT !.pc = "retry",
                        !.clones = {[id |-> i, record |-> copy[i]] : i \in due}]
    BY <2>1
  <2>5. UNCHANGED <<records, tasks, clock, worker, sstable, tmp, parquet>>
    BY <1>4 DEF CollectRetries, fileVars
  <2> HIDE DEF copy
  <2> QED
    BY <1>3, <2>3, <2>4, <2>5, ZenonT(60) DEF SchedulerSteps
<1>5. ASSUME NEW old \in SUBSET ZombieIds, CollectZombies(old) PROVE ConvInv'
  <2> DEFINE copy == [i \in old |-> MarkFailed(records[i])]
  <2>1. old \in SUBSET Ids
    BY DEF ZombieIds, Status
  <2>2. \A i \in Ids : records[i] \in ConversionRecord /\ records[i].parquet = i
    BY <1>typed DEF NamedInOrder, Ids
  <2>3. /\ copy \in [old -> ConversionRecord]
        /\ \A i \in old : copy[i].sstables = records[i].sstables /\ copy[i].parquet = i
    <3> QED
      BY <2>1, <2>2, FailedRecord
  <2>4. scheduler' = [scheduler EXCEPT !.pc = "zombies",
                        !.clones = {[id |-> i, record |-> copy[i]] : i \in old}]
    BY <1>5 DEF CollectZombies
  <2>5. UNCHANGED <<records, tasks, clock, worker, sstable, tmp, parquet>>
    BY <1>5 DEF CollectZombies, fileVars
  <2> HIDE DEF copy
  <2> QED
    BY <1>3, <2>1, <2>3, <2>4, <2>5 DEF SchedulerSteps
\* A copy goes back into the records: Reschedule and FailZombie.
<1>6. ASSUME NEW task \in scheduler.clones, UpdateRecord(task.id, task.record),
             scheduler' = [scheduler EXCEPT !.clones = @ \ {task}],
             tasks' = tasks \/ tasks' = Append(tasks, task), scheduler.pc # "scan",
             UNCHANGED <<clock, worker, sstable, tmp, parquet>>
      PROVE  ConvInv'
  <2>1. task \in Task /\ CopyOf(task, records)
    BY <1>typed DEF CopiesAgree, ClonesAgree
  <2>2. task.record \in ConversionRecord
    BY <2>1 DEF Task
  <2>3. /\ RecordsKept /\ records' \in Seq(ConversionRecord)
        /\ Len(records') = Len(records) /\ DOMAIN records' = DOMAIN records
        /\ \A i \in DOMAIN records' : records'[i].parquet = i
    BY <1>typed, <1>6, <2>1, <2>2, UpdatedRecord
  <2>4. /\ scheduler' \in [pc : SchedulerSteps, batches : Seq(SUBSET SSTables), clones : SUBSET Task]
        /\ scheduler'.batches = scheduler.batches /\ scheduler'.pc = scheduler.pc
        /\ scheduler'.clones \subseteq scheduler.clones
    BY <1>typed, <1>6
  <2>5. tasks' \in Seq(Task)
    <3>1. CASE tasks' = tasks
      BY <1>typed, <3>1
    <3>2. CASE tasks' = Append(tasks, task)
      BY <1>typed, <2>1, <3>2
    <3> QED
      BY <1>6, <3>1, <3>2
  <2>6. ConvTyped'
    BY <1>typed, <1>6, <2>3, <2>4, <2>5 DEF ConvTyped
  <2>7. NamedInOrder'
    BY <1>typed, <1>6, <2>3, <2>4 DEF NamedInOrder, Ids
  <2>8. QueueAgrees'
    <3>1. \A i \in DOMAIN tasks' : tasks'[i] = task \/ (i \in DOMAIN tasks /\ tasks'[i] = tasks[i])
      BY <1>typed, <1>6, <2>1, AppendedMembers, SMTT(60)
    <3> QED
      BY <1>typed, <2>1, <2>3, <3>1, CopiesKept DEF CopiesAgree, QueueAgrees
  <2>9. ClonesAgree' /\ WorkersAgree'
    BY <1>typed, <1>6, <2>3, <2>4, CopiesKept DEF CopiesAgree, ClonesAgree, WorkersAgree
  <2>10. FilesAgree'
    BY <1>6, <2>3, FilesKept DEF ConvInv
  <2>11. RenamedIsThere' /\ SourceProtected'
    BY <1>6 DEF ConvInv, RenamedIsThere, SourceProtected
  <2> QED
    BY <2>6, <2>7, <2>8, <2>9, <2>10, <2>11 DEF ConvInv, CopiesAgree
<1>7. CASE Reschedule
  BY <1>6, <1>7 DEF Reschedule, fileVars
<1>8. CASE FailZombie
  BY <1>6, <1>8 DEF FailZombie, fileVars
<1>9. CASE CleanupTempFiles
  <2>1. /\ scheduler' = Scanning /\ NextSecond /\ UNCHANGED <<records, tasks, worker, sstable, parquet>>
        /\ tmp' = [n \in Names |->
              IF \E i \in Status("Failed") : records[i].parquet = n THEN Absent ELSE tmp[n]]
    BY <1>9 DEF CleanupTempFiles
  <2>2. clock' = Len(records) + 1
    BY <1>typed, <2>1, NextSecondIsFree
  <2>3. /\ tmp' \in [Names -> (SUBSET SSTables) \cup {Absent}]
        /\ \A n \in Names : tmp'[n] # Absent => tmp'[n] = tmp[n]
    BY <1>typed, <2>1
  <2>4. /\ scheduler' \in [pc : SchedulerSteps, batches : Seq(SUBSET SSTables), clones : SUBSET Task]
        /\ scheduler'.clones = {} /\ Len(scheduler'.batches) = 0
    BY <2>1 DEF Scanning, SchedulerSteps
  <2> QED
    BY <1>typed, <2>1, <2>2, <2>3, <2>4, SchedulerKeepsConv
<1> QED
  BY <1>1, <1>2, <1>5, <1>4, <1>7, <1>8, <1>9 DEF ScheduleStep

\* A worker goes on, or ends, and what it leaves of the files is as it should be.
LEMMA WorkerKeepsFiles ==
    ASSUME ConvInv, NEW w \in ConversionWorkers, worker[w] \in BusyWorker,
           NEW x \in {IdleWorker} \cup BusyWorker, worker' = [worker EXCEPT ![w] = x],
           x # IdleWorker => x.id = worker[w].id /\ x.record = worker[w].record,
           records' \in Seq(ConversionRecord), Len(records') = Len(records), RecordsKept,
           DOMAIN records' = DOMAIN records, \A i \in DOMAIN records' : records'[i].parquet = i,
           UNCHANGED <<tasks, scheduler, clock>>
    PROVE  /\ worker' \in [ConversionWorkers -> {IdleWorker} \cup BusyWorker]
           /\ NamedInOrder' /\ CopiesAgree'
<1>typed. /\ worker \in [ConversionWorkers -> {IdleWorker} \cup BusyWorker]
          /\ worker[w] # IdleWorker /\ CopyOf(worker[w], records)
  BY BusyIsNotIdle DEF ConvInv, ConvTyped, CopiesAgree, WorkersAgree
<1>1. worker' \in [ConversionWorkers -> {IdleWorker} \cup BusyWorker]
  BY <1>typed
<1>2. NamedInOrder'
  BY DEF ConvInv, NamedInOrder, Ids
<1>3. QueueAgrees' /\ ClonesAgree'
  BY CopiesKept DEF ConvInv, CopiesAgree, QueueAgrees, ClonesAgree
<1>4. WorkersAgree'
  <2> SUFFICES ASSUME NEW v \in ConversionWorkers, worker'[v] # IdleWorker
               PROVE  CopyOf(worker'[v], records')
    BY DEF WorkersAgree
  <2>1. CASE v = w
    <3>1. CopyOf(worker[w], records')
      BY <1>typed, CopiesKept
    <3> QED
      BY <1>typed, <2>1, <3>1 DEF CopyOf
  <2>2. CASE v # w
    <3>1. worker'[v] = worker[v] /\ CopyOf(worker[v], records)
      BY <1>typed, <2>2 DEF ConvInv, CopiesAgree, WorkersAgree
    <3> QED
      BY <3>1, CopiesKept
  <2> QED
    BY <2>1, <2>2
<1> QED
  BY <1>1, <1>2, <1>3, <1>4 DEF CopiesAgree

LEMMA WorkersKeepConv ==
    ASSUME ConvInv, NEW w \in ConversionWorkers, WorkerStep(w) PROVE ConvInv'
<1> USE ConversionNumbers, BusyIsNotIdle
<1>typed. /\ ConvTyped /\ NamedInOrder /\ CopiesAgree /\ FilesAgree
          /\ records \in Seq(ConversionRecord) /\ tasks \in Seq(Task)
          /\ worker \in [ConversionWorkers -> {IdleWorker} \cup BusyWorker]
          /\ tmp \in [Names -> (SUBSET SSTables) \cup {Absent}]
          /\ parquet \in [Names -> SUBSET SSTables] /\ Len(records) \in Nat
  BY DEF ConvInv, ConvTyped
<1>same. ASSUME UNCHANGED records
         PROVE  /\ records' \in Seq(ConversionRecord) /\ Len(records') = Len(records) /\ RecordsKept
                /\ DOMAIN records' = DOMAIN records /\ \A i \in DOMAIN records' : records'[i].parquet = i
  BY <1>typed, <1>same DEF RecordsKept, NamedInOrder, Ids
<1>busy. ASSUME NEW pc, At(w, pc)
         PROVE  /\ worker[w] \in BusyWorker /\ worker[w].pc = pc /\ worker[w] # IdleWorker
                /\ worker[w].record \in ConversionRecord
                /\ CopyOf(worker[w], records) /\ worker[w].id \in Names
  <2>1. worker[w] \in BusyWorker /\ worker[w].pc = pc /\ worker[w] # IdleWorker
    BY <1>typed, <1>busy DEF At
  <2>2. CopyOf(worker[w], records)
    BY <1>typed, <2>1 DEF CopiesAgree, WorkersAgree
  <2>3. worker[w].id \in Names
    BY <1>typed, <2>2 DEF CopyOf, NamedInOrder
  <2> QED
    BY <2>1, <2>2, <2>3 DEF BusyWorker
\* A worker goes to its next step.
<1>goto. ASSUME NEW pc \in WorkerSteps, worker[w] \in BusyWorker, Goto(w, pc)
         PROVE  \E x \in BusyWorker :
                  /\ worker' = [worker EXCEPT ![w] = x] /\ x.pc = pc
                  /\ x.id = worker[w].id /\ x.record = worker[w].record
  <2>1. [worker[w] EXCEPT !.pc = pc] \in BusyWorker
    BY <1>goto DEF BusyWorker
  <2>2. worker' = [worker EXCEPT ![w] = [worker[w] EXCEPT !.pc = pc]]
    BY <1>goto, <1>typed DEF Goto
  <2> QED
    BY <2>1, <2>2, <1>goto DEF BusyWorker
<1>1. CASE MarkConverting(w)
  <2> DEFINE task == Head(tasks)
             record == [task.record EXCEPT !.status = "Converting"]
             x == [pc |-> "read", id |-> task.id, record |-> record]
  <2>1. /\ worker[w] = IdleWorker /\ tasks # <<>> /\ tasks' = Tail(tasks)
        /\ UpdateRecord(task.id, record) /\ worker' = [worker EXCEPT ![w] = x]
        /\ UNCHANGED <<scheduler, clock, sstable, tmp, parquet>>
    BY <1>1 DEF MarkConverting, scheduleVars, fileVars
  <2>2. /\ task \in Task /\ CopyOf(task, records) /\ tasks' \in Seq(Task)
        /\ \A i \in DOMAIN tasks' : i + 1 \in DOMAIN tasks /\ tasks'[i] = tasks[i + 1]
    <3>1. Len(tasks) # 0 /\ Len(tasks) \in Nat
      BY <1>typed, <2>1, EmptySeq
    <3>2. task = tasks[1] /\ 1 \in DOMAIN tasks
      BY <1>typed, <3>1
    <3>3. task \in Task /\ CopyOf(task, records)
      BY <1>typed, <3>2 DEF CopiesAgree, QueueAgrees
    <3> QED
      BY <1>typed, <2>1, <3>1, <3>3
  <2>3. record \in ConversionRecord /\ record.sstables = task.record.sstables
        /\ record.parquet = task.record.parquet
    BY <2>2 DEF Task, ConversionRecord, RecordStatuses
  <2>4. x \in BusyWorker /\ x.id = task.id /\ x.record = record /\ x.pc = "read"
    BY <2>2, <2>3 DEF Task, BusyWorker, WorkerSteps
  <2> HIDE DEF task, record, x
  <2>5. /\ RecordsKept /\ records' \in Seq(ConversionRecord)
        /\ Len(records') = Len(records) /\ DOMAIN records' = DOMAIN records
        /\ \A i \in DOMAIN records' : records'[i].parquet = i
    BY <1>typed, <2>1, <2>2, <2>3, UpdatedRecord
  <2>6. worker' \in [ConversionWorkers -> {IdleWorker} \cup BusyWorker]
    BY <1>typed, <2>1, <2>4
  <2>7. ConvTyped'
    BY <1>typed, <2>1, <2>2, <2>5, <2>6 DEF ConvTyped
  <2>8. NamedInOrder'
    BY <1>typed, <2>1, <2>5 DEF NamedInOrder, Ids
  <2>9. CopyOf(x, records')
    BY <2>2, <2>3, <2>4, <2>5, CopiesKept DEF CopyOf
  <2>10. QueueAgrees' /\ ClonesAgree'
    BY <1>typed, <2>1, <2>2, <2>5, CopiesKept DEF CopiesAgree, QueueAgrees, ClonesAgree
  <2>11. WorkersAgree'
    BY <1>typed, <2>1, <2>5, <2>9, CopiesKept DEF CopiesAgree, WorkersAgree
  <2>12. FilesAgree'
    BY <1>typed, <2>1, <2>5, FilesKept
  <2>13. RenamedIsThere' /\ SourceProtected'
    BY <1>typed, <2>1, <2>4 DEF ConvInv, RenamedIsThere, SourceProtected
  <2> QED
    BY <2>7, <2>8, <2>10, <2>11, <2>12, <2>13 DEF ConvInv, CopiesAgree
<1>2. CASE ReadAllSSTables(w)
  <2>1. /\ At(w, "read") /\ UNCHANGED <<records, tasks, scheduler, clock, sstable, tmp, parquet>>
        /\ \E pc \in {"write", "failed"} : Goto(w, pc)
    BY <1>2 DEF ReadAllSSTables, scheduleVars, fileVars
  <2>2. PICK x \in BusyWorker : /\ worker' = [worker EXCEPT ![w] = x] /\ x.pc \in {"write", "failed"}
                                /\ x.id = worker[w].id /\ x.record = worker[w].record
    BY <1>busy, <1>goto, <2>1 DEF WorkerSteps
  <2>3. /\ worker' \in [ConversionWorkers -> {IdleWorker} \cup BusyWorker]
        /\ NamedInOrder' /\ CopiesAgree'
    BY <1>same, <1>busy, <2>1, <2>2, WorkerKeepsFiles
  <2>4. ConvTyped'
    BY <1>typed, <2>1, <2>3 DEF ConvTyped
  <2>5. FilesAgree'
    BY <1>typed, <1>same, <2>1, FilesKept
  <2>6. RenamedIsThere' /\ SourceProtected'
    BY <1>typed, <2>1, <2>2 DEF ConvInv, RenamedIsThere, SourceProtected
  <2> QED
    BY <2>3, <2>4, <2>5, <2>6 DEF ConvInv
<1>3. CASE WriteParquet(w)
  <2> DEFINE n == worker[w].record.parquet
             files == worker[w].record.sstables
  <2>1. /\ At(w, "write") /\ Goto(w, "rename")
        /\ tmp' = [tmp EXCEPT ![n] = files]
        /\ UNCHANGED <<records, tasks, scheduler, clock, sstable, parquet>>
    BY <1>3 DEF WriteParquet, scheduleVars
  <2>2. PICK x \in BusyWorker : /\ worker' = [worker EXCEPT ![w] = x] /\ x.pc = "rename"
                                /\ x.id = worker[w].id /\ x.record = worker[w].record
    BY <1>busy, <1>goto, <2>1 DEF WorkerSteps
  <2>3. /\ n \in Ids /\ n \in Names /\ files = records[n].sstables /\ files \in SUBSET SSTables
    BY <1>busy, <2>1 DEF CopyOf, Ids, ConversionRecord
  <2>4. /\ worker' \in [ConversionWorkers -> {IdleWorker} \cup BusyWorker]
        /\ NamedInOrder' /\ CopiesAgree'
    BY <1>same, <1>busy, <2>1, <2>2, WorkerKeepsFiles
  <2> HIDE DEF n, files
  <2>5. ConvTyped'
    BY <1>typed, <2>1, <2>3, <2>4 DEF ConvTyped
  <2>6. FilesAgree'
    BY <1>typed, <2>1, <2>3 DEF FilesAgree, Ids
  <2>7. RenamedIsThere' /\ SourceProtected'
    BY <1>typed, <2>1, <2>2 DEF ConvInv, RenamedIsThere, SourceProtected
  <2> QED
    BY <2>4, <2>5, <2>6, <2>7 DEF ConvInv
<1>4. CASE RenameTemp(w)
  <2> DEFINE n == worker[w].record.parquet
  <2>1. /\ At(w, "rename") /\ UNCHANGED <<records, tasks, scheduler, clock, sstable>>
        /\ IF tmp[n] = Absent
           THEN Goto(w, "failed") /\ UNCHANGED <<tmp, parquet>>
           ELSE /\ parquet' = [parquet EXCEPT ![n] = tmp[n]]
                /\ tmp' = [tmp EXCEPT ![n] = Absent]
                /\ Goto(w, "renamed")
    BY <1>4 DEF RenameTemp, scheduleVars
  <2>2. PICK x \in BusyWorker : /\ worker' = [worker EXCEPT ![w] = x]
                                /\ x.pc = IF tmp[n] = Absent THEN "failed" ELSE "renamed"
                                /\ x.id = worker[w].id /\ x.record = worker[w].record
    BY <1>busy, <1>goto, <2>1 DEF WorkerSteps
  <2>3. /\ n \in Ids /\ n \in Names /\ n = worker[w].id
        /\ worker[w].record.sstables = records[n].sstables
    BY <1>busy, <2>1 DEF CopyOf, Ids
  <2>4. /\ worker' \in [ConversionWorkers -> {IdleWorker} \cup BusyWorker]
        /\ NamedInOrder' /\ CopiesAgree'
    BY <1>same, <1>busy, <2>1, <2>2, WorkerKeepsFiles
  <2> HIDE DEF n
  <2>5. CASE tmp[n] = Absent
    <3>1. ConvTyped'
      BY <1>typed, <2>1, <2>4, <2>5 DEF ConvTyped
    <3>2. FilesAgree'
      BY <1>typed, <1>same, <2>1, <2>5, FilesKept
    <3>3. RenamedIsThere' /\ SourceProtected'
      BY <1>typed, <2>1, <2>2, <2>5 DEF ConvInv, RenamedIsThere, SourceProtected
    <3> QED
      BY <2>4, <3>1, <3>2, <3>3 DEF ConvInv
  <2>6. CASE tmp[n] # Absent
    <3>1. /\ tmp[n] = records[n].sstables /\ tmp[n] \in SUBSET SSTables
          /\ parquet[n] = {} \/ parquet[n] = records[n].sstables
      BY <1>typed, <2>3, <2>6 DEF FilesAgree
    <3>2. /\ parquet'[n] = records[n].sstables
          /\ \A k \in Names : parquet[k] # {} => parquet'[k] = parquet[k]
      BY <1>typed, <2>1, <2>3, <2>6, <3>1
    <3>3. ConvTyped'
      BY <1>typed, <2>1, <2>3, <2>4, <2>6, <3>1, ZenonT(60) DEF ConvTyped
    <3>4. FilesAgree'
      BY <1>typed, <2>1, <2>3, <2>6, <3>1, SMTT(60) DEF FilesAgree, Ids
    <3>5. RenamedIsThere'
      <4> SUFFICES ASSUME NEW v \in ConversionWorkers, worker'[v] # IdleWorker,
                          worker'[v].pc \in {"renamed", "archive"}
                   PROVE  parquet'[worker'[v].id] = worker'[v].record.sstables
        BY DEF RenamedIsThere
      <4>1. CASE v = w
        BY <1>typed, <2>2, <2>3, <3>2, <4>1
      <4>2. CASE v # w
        <5>1. worker'[v] = worker[v] /\ worker[v] # IdleWorker
          BY <1>typed, <2>2, <4>2
        <5>2. /\ CopyOf(worker[v], records) /\ worker[v].id \in Names
              /\ parquet[worker[v].id] = worker[v].record.sstables
          BY <1>typed, <5>1 DEF ConvInv, RenamedIsThere, CopiesAgree, WorkersAgree, CopyOf,
                                NamedInOrder
        <5>3. CASE worker[v].id = n
          BY <3>2, <5>1, <5>2, <5>3 DEF CopyOf
        <5>4. CASE worker[v].id # n
          BY <1>typed, <2>1, <2>6, <5>1, <5>2, <5>4
        <5> QED
          BY <5>3, <5>4
      <4> QED
        BY <4>1, <4>2
    <3>6. SourceProtected'
      BY <2>1, <3>2 DEF ConvInv, SourceProtected
    <3> QED
      BY <2>4, <3>3, <3>4, <3>5, <3>6 DEF ConvInv
  <2> QED
    BY <2>5, <2>6
<1>5. CASE MarkSuccess(w)
  <2> DEFINE record == [worker[w].record EXCEPT !.status = "Success"]
  <2>1. /\ At(w, "renamed") /\ UpdateRecord(worker[w].id, record) /\ Goto(w, "archive")
        /\ UNCHANGED <<tasks, scheduler, clock, sstable, tmp, parquet>>
    BY <1>5 DEF MarkSuccess, scheduleVars, fileVars
  <2>2. PICK x \in BusyWorker : /\ worker' = [worker EXCEPT ![w] = x] /\ x.pc = "archive"
                                /\ x.id = worker[w].id /\ x.record = worker[w].record
    BY <1>busy, <1>goto, <2>1 DEF WorkerSteps
  <2>3. record \in ConversionRecord /\ record.sstables = worker[w].record.sstables
        /\ record.parquet = worker[w].record.parquet
    BY <1>busy, <2>1 DEF ConversionRecord, RecordStatuses
  <2> HIDE DEF record
  <2>4. /\ RecordsKept /\ records' \in Seq(ConversionRecord)
        /\ Len(records') = Len(records) /\ DOMAIN records' = DOMAIN records
        /\ \A i \in DOMAIN records' : records'[i].parquet = i
    BY <1>typed, <1>busy, <2>1, <2>3, UpdatedRecord
  <2>5. /\ worker' \in [ConversionWorkers -> {IdleWorker} \cup BusyWorker]
        /\ NamedInOrder' /\ CopiesAgree'
    BY <1>busy, <2>1, <2>2, <2>4, WorkerKeepsFiles
  <2>6. ConvTyped'
    BY <1>typed, <2>1, <2>4, <2>5 DEF ConvTyped
  <2>7. FilesAgree'
    BY <1>typed, <2>1, <2>4, FilesKept
  <2>8. parquet[worker[w].id] = worker[w].record.sstables
    BY <1>busy, <2>1 DEF ConvInv, RenamedIsThere
  <2>9. RenamedIsThere' /\ SourceProtected'
    BY <1>typed, <2>1, <2>2, <2>8 DEF ConvInv, RenamedIsThere, SourceProtected
  <2> QED
    BY <2>5, <2>6, <2>7, <2>9 DEF ConvInv
<1>6. CASE ArchiveSource(w)
  <2>1. At(w, "archive") /\ UNCHANGED <<records, tasks, scheduler, clock, tmp, parquet>>
    BY <1>6 DEF ArchiveSource, scheduleVars
  <2>2. CASE UNCHANGED worker
    <3>1. PICK f \in worker[w].record.sstables : sstable' = [sstable EXCEPT ![f] = "archived"]
      BY <1>6, <2>2, <1>typed, <1>busy, <2>1 DEF ArchiveSource
    <3>2. /\ f \in SSTables /\ f \in parquet[worker[w].id] /\ worker[w].id \in Names
      BY <1>busy, <2>1, <3>1 DEF ConvInv, RenamedIsThere, ConversionRecord
    <3>3. ConvTyped'
      BY <1>typed, <2>1, <2>2, <3>1, <3>2 DEF ConvTyped
    <3>4. NamedInOrder' /\ CopiesAgree'
      BY <1>typed, <2>1, <2>2 DEF NamedInOrder, Ids, CopiesAgree, QueueAgrees, ClonesAgree, WorkersAgree
    <3>5. FilesAgree' /\ RenamedIsThere'
      BY <2>1, <2>2 DEF ConvInv, FilesAgree, Ids, RenamedIsThere
    <3>6. SourceProtected'
      BY <1>typed, <2>1, <3>1, <3>2, SMTT(60) DEF ConvInv, ConvTyped, SourceProtected
    <3> QED
      BY <3>3, <3>4, <3>5, <3>6 DEF ConvInv
  <2>3. CASE worker' = [worker EXCEPT ![w] = IdleWorker] /\ UNCHANGED sstable
    <3>1. /\ worker' \in [ConversionWorkers -> {IdleWorker} \cup BusyWorker]
          /\ NamedInOrder' /\ CopiesAgree'
      BY <1>same, <1>busy, <2>1, <2>3, WorkerKeepsFiles
    <3>2. ConvTyped'
      BY <1>typed, <2>1, <2>3, <3>1 DEF ConvTyped
    <3>3. FilesAgree'
      BY <1>typed, <1>same, <2>1, FilesKept
    <3>4. RenamedIsThere' /\ SourceProtected'
      BY <1>typed, <2>1, <2>3 DEF ConvInv, RenamedIsThere, SourceProtected
    <3> QED
      BY <3>1, <3>2, <3>3, <3>4 DEF ConvInv
  <2> QED
    BY <1>6, <2>2, <2>3 DEF ArchiveSource
<1>7. CASE FailTask(w)
  <2> DEFINE record == MarkFailed(worker[w].record)
             n == worker[w].record.parquet
  <2>1. /\ At(w, "failed") /\ UpdateRecord(worker[w].id, record)
        /\ worker' = [worker EXCEPT ![w] = IdleWorker]
        /\ tmp' = [tmp EXCEPT ![n] = Absent]
        /\ UNCHANGED <<tasks, scheduler, clock, sstable, parquet>>
    BY <1>7 DEF FailTask, scheduleVars
  <2>2. record \in ConversionRecord /\ record.sstables = worker[w].record.sstables
        /\ record.parquet = worker[w].record.parquet
    BY <1>busy, <2>1, FailedRecord
  <2> HIDE DEF record, n
  <2>3. /\ RecordsKept /\ records' \in Seq(ConversionRecord)
        /\ Len(records') = Len(records) /\ DOMAIN records' = DOMAIN records
        /\ \A i \in DOMAIN records' : records'[i].parquet = i
    BY <1>typed, <1>busy, <2>1, <2>2, UpdatedRecord
  <2>4. /\ worker' \in [ConversionWorkers -> {IdleWorker} \cup BusyWorker]
        /\ NamedInOrder' /\ CopiesAgree'
    BY <1>busy, <2>1, <2>3, WorkerKeepsFiles
  <2>5. /\ tmp' \in [Names -> (SUBSET SSTables) \cup {Absent}]
        /\ \A k \in Names : tmp'[k] # Absent => tmp'[k] = tmp[k]
    BY <1>typed, <2>1
  <2>6. ConvTyped'
    BY <1>typed, <2>1, <2>3, <2>4, <2>5 DEF ConvTyped
  <2>7. FilesAgree'
    BY <1>typed, <2>1, <2>3, <2>5 DEF FilesAgree, Ids, RecordsKept
  <2>8. RenamedIsThere' /\ SourceProtected'
    BY <1>typed, <2>1 DEF ConvInv, RenamedIsThere, SourceProtected
  <2> QED
    BY <2>4, <2>6, <2>7, <2>8 DEF ConvInv
<1> QED
  BY <1>1, <1>2, <1>3, <1>4, <1>5, <1>6, <1>7 DEF WorkerStep

LEMMA NextKeepsConv == ASSUME OneBatch PROVE ConvInv /\ [ConvNext]_convVars => ConvInv'
<1> SUFFICES ASSUME ConvInv, [ConvNext]_convVars PROVE ConvInv'
  OBVIOUS
<1>typed. ConvTyped /\ NamedInOrder
  BY DEF ConvInv
<1>1. CASE UNCHANGED convVars
  BY <1>1 DEF convVars, scheduleVars, fileVars, ConvInv, ConvTyped, NamedInOrder, CopiesAgree,
              QueueAgrees, ClonesAgree, WorkersAgree, FilesAgree, RenamedIsThere, SourceProtected, Ids
<1>2. ASSUME NEW f \in SSTables, NewSSTable(f) PROVE ConvInv'
  <2>1. /\ sstable[f] = "none" /\ sstable' = [sstable EXCEPT ![f] = "live"]
        /\ UNCHANGED <<records, tasks, scheduler, clock, worker, tmp, parquet>>
    BY <1>2 DEF NewSSTable, scheduleVars
  <2>2. ConvTyped'
    BY <1>typed, <2>1 DEF ConvTyped
  <2>3. /\ NamedInOrder' /\ CopiesAgree' /\ FilesAgree' /\ RenamedIsThere'
    BY <2>1 DEF ConvInv, NamedInOrder, CopiesAgree, QueueAgrees, ClonesAgree, WorkersAgree,
                FilesAgree, RenamedIsThere, Ids
  <2>4. SourceProtected'
    BY <1>typed, <2>1 DEF ConvInv, ConvTyped, SourceProtected
  <2> QED
    BY <2>2, <2>3, <2>4 DEF ConvInv
<1>3. CASE CrashConversion
  <2>1. /\ tasks' = <<>> /\ scheduler' = Scanning /\ NextSecond
        /\ worker' = [w \in ConversionWorkers |-> IdleWorker]
        /\ UNCHANGED <<records, sstable, tmp, parquet>>
    BY <1>3 DEF CrashConversion, fileVars
  <2>2. clock' = Len(records) + 1 /\ Len(records) \in Nat
    BY <1>typed, <2>1, NextSecondIsFree DEF ConvTyped
  <2>3. /\ scheduler' \in [pc : SchedulerSteps, batches : Seq(SUBSET SSTables), clones : SUBSET Task]
        /\ scheduler'.clones = {} /\ Len(scheduler'.batches) = 0
    BY <2>1 DEF Scanning, SchedulerSteps
  <2>4. ConvTyped'
    BY <1>typed, <2>1, <2>2, <2>3 DEF ConvTyped
  <2>5. NamedInOrder'
    BY <1>typed, <2>1, <2>2, <2>3 DEF NamedInOrder, Ids
  <2>6. CopiesAgree' /\ RenamedIsThere'
    BY <2>1, <2>3 DEF CopiesAgree, QueueAgrees, ClonesAgree, WorkersAgree, RenamedIsThere
  <2>7. FilesAgree' /\ SourceProtected'
    BY <2>1 DEF ConvInv, FilesAgree, SourceProtected, Ids
  <2> QED
    BY <2>4, <2>5, <2>6, <2>7 DEF ConvInv
<1> QED
  BY <1>1, <1>2, <1>3, ScheduleKeepsConv, WorkersKeepConv DEF ConvNext

\* The inductive invariant holds in every reachable state: what queue, scheduler and
\* workers hold of a record is about its files, and a file of its name has their data.
THEOREM ConvInvariance == ASSUME OneBatch PROVE ConvSpec => []ConvInv
BY InitKeepsConv, NextKeepsConv, PTL DEF ConvSpec

\* archive_source_files takes a file out of the way only when a Parquet file has its
\* records, whatever fails, is retried, or is cut short by a crash: as long as one
\* task takes all the files of a pass.  With more, two files get one name.
THEOREM SourcesAreProtected == ASSUME OneBatch PROVE ConvSpec => []SourceProtected
<1>1. ConvInv => SourceProtected
  BY DEF ConvInv
<1> QED
  BY <1>1, ConvInvariance, PTL
------------------------------------------------------------------------------
(* Capital: the records of an account explain its money. *)

CapPCs == {"metadata", "index", "remove", "remove-only", "unindex", "forget",
           "move", "record", "teller", "bank"}
Transfers == [amount : Int, done : BOOLEAN]
CapCalls == [pc : CapPCs, account : CapitalAccounts, amount : Int]

CapTyped ==
    /\ accounts \subseteq opened /\ opened \subseteq CapitalAccounts
    /\ money \in [CapitalAccounts -> Int]
    /\ unrecorded \in [CapitalAccounts -> Int]
    /\ transactions \in [CapitalAccounts -> Seq(Int)]
    /\ transfers \in [CapitalAccounts -> Seq(Transfers)]
    /\ caller \in [Callers -> CapCalls \cup {NoCall}]

\* An account that was never opened has no history, and no call moves its money.
NoHistory ==
    \A a \in CapitalAccounts \ opened :
        /\ transactions[a] = <<>> /\ transfers[a] = <<>> /\ unrecorded[a] = 0
        /\ \A t \in Callers :
             OnAccount(t) = a =>
                 ~(In(t, "move") \/ In(t, "record") \/ In(t, "teller") \/ In(t, "bank"))

\* What sequences of transactions and of transfers add up to.
Kept(tr) == SumFunctionOnSet(tr, DOMAIN tr)
RecordAmounts(tf) == [i \in DOMAIN tf |-> Counted(tf[i])]
Completed(tf) == SumFunctionOnSet(RecordAmounts(tf), DOMAIN tf)
Underway(a) == SumFunctionOnSet([t \in Callers |-> Unwritten(t, a)], Callers)
Explained(a) ==
    money[a] = InitCash + unrecorded[a] + (Kept(transactions[a]) + Completed(transfers[a]))
                 + Underway(a)

CapInv == CapTyped /\ NoHistory /\ \A a \in accounts : Explained(a)

LEMMA KeptNothing == Kept(<<>>) = 0 /\ Completed(<<>>) = 0
<1>1. DOMAIN <<>> = {}
  OBVIOUS
<1> QED
  BY <1>1, SumEmpty DEF Kept, Completed

LEMMA KeptAppends ==
    ASSUME NEW tr \in Seq(Int), NEW x \in Int
    PROVE  Kept(Append(tr, x)) = Kept(tr) + x
<1> PICK n \in Nat : n = Len(tr)
  OBVIOUS
<1>1. DOMAIN tr = 1..n /\ DOMAIN Append(tr, x) = 1..(n + 1)
  OBVIOUS
<1> PICK longer : longer = Append(tr, x)
  OBVIOUS
<1>2. Numbers(tr, 1..n) /\ (\A i \in 1..n : longer[i] = tr[i]) /\ longer[n + 1] = x
  BY DEF Numbers
<1>3. SumFunctionOnSet(longer, 1..(n + 1)) = SumFunctionOnSet(tr, 1..n) + longer[n + 1]
  BY <1>2, SumLonger
<1> QED
  BY <1>1, <1>2, <1>3 DEF Kept

LEMMA CountedNumber == ASSUME NEW r \in Transfers PROVE Counted(r) \in Int
BY DEF Counted, Transfers

LEMMA CompletedAppends ==
    ASSUME NEW tf \in Seq(Transfers), NEW r \in Transfers
    PROVE  Completed(Append(tf, r)) = Completed(tf) + Counted(r)
<1> PICK n \in Nat : n = Len(tf)
  OBVIOUS
<1> PICK longer : longer = Append(tf, r)
  OBVIOUS
<1>1. DOMAIN tf = 1..n /\ DOMAIN longer = 1..(n + 1)
  OBVIOUS
<1>2. PICK f : f = RecordAmounts(tf)
  OBVIOUS
<1>3. PICK g : g = RecordAmounts(longer)
  OBVIOUS
<1>4. Numbers(f, 1..n)
  <2>1. \A i \in 1..n : f[i] = Counted(tf[i]) /\ tf[i] \in Transfers
    BY <1>1, <1>2 DEF RecordAmounts
  <2> QED
    BY <2>1, CountedNumber DEF Numbers
<1>5. (\A i \in 1..n : longer[i] = tf[i]) /\ longer[n + 1] = r
  OBVIOUS
<1>6. (\A i \in 1..n : g[i] = f[i]) /\ g[n + 1] = Counted(r)
  <2>1. \A i \in 1..n : f[i] = Counted(tf[i])
    BY <1>1, <1>2 DEF RecordAmounts
  <2>2. \A i \in 1..(n + 1) : g[i] = Counted(longer[i])
    BY <1>1, <1>3 DEF RecordAmounts
  <2>3. n + 1 \in 1..(n + 1) /\ \A i \in 1..n : i \in 1..(n + 1)
    OBVIOUS
  <2> QED
    BY <1>5, <2>1, <2>2, <2>3
<1>7. SumFunctionOnSet(g, 1..(n + 1)) = SumFunctionOnSet(f, 1..n) + g[n + 1]
  BY <1>4, <1>6, CountedNumber, SumLonger
<1> QED
  BY <1>1, <1>2, <1>3, <1>6, <1>7 DEF Completed

LEMMA KeptNumbers ==
    ASSUME NEW tr \in Seq(Int), NEW tf \in Seq(Transfers)
    PROVE  Kept(tr) \in Int /\ Completed(tf) \in Int
<1>1. IsFiniteSet(DOMAIN tr) /\ IsFiniteSet(DOMAIN tf)
  <2>1. DOMAIN tr = 1..Len(tr) /\ DOMAIN tf = 1..Len(tf) /\ Len(tr) \in Int /\ Len(tf) \in Int
    OBVIOUS
  <2>2. IsFiniteSet(1..Len(tr)) /\ IsFiniteSet(1..Len(tf))
    BY <2>1, FS_Interval
  <2> QED
    BY <2>1, <2>2
<1>2. Numbers(tr, DOMAIN tr)
  BY DEF Numbers
<1>3. Numbers(RecordAmounts(tf), DOMAIN tf)
  <2>1. \A i \in DOMAIN tf : tf[i] \in Transfers
    OBVIOUS
  <2> QED
    BY <2>1, CountedNumber DEF Numbers, RecordAmounts
<1> QED
  BY <1>1, <1>2, <1>3, SumInt DEF Kept, Completed

\* A function on 1..n is a sequence of length n.
LEMMA FunctionIsSeq ==
    ASSUME NEW S, NEW n \in Nat, NEW f \in [1..n -> S]
    PROVE  f \in Seq(S) /\ Len(f) = n
<1>1. f \in Seq(S)
  BY SeqDef
<1>2. PICK k \in Nat : k = Len(f) /\ 1..k = 1..n
  <2>1. DOMAIN f = 1..n
    OBVIOUS
  <2> QED
    BY <1>1, <2>1, LenProperties
<1>3. k = n
  <2>1. k \in 1..k \/ k = 0
    OBVIOUS
  <2>2. n \in 1..n \/ n = 0
    OBVIOUS
  <2>3. k \in 1..n \/ k = 0
    BY <1>2, <2>1
  <2>4. n \in 1..k \/ n = 0
    BY <1>2, <2>2
  <2> QED
    BY <2>3, <2>4
<1> QED
  BY <1>1, <1>2, <1>3

\* The transactions and the transfers, one after the other, add up to both.
LEMMA RecordsTogether ==
    ASSUME NEW tr \in Seq(Int), NEW tf \in Seq(Transfers), NEW statement,
           statement = [i \in DOMAIN tr |-> Transfer(tr[i], TRUE)] \o tf
    PROVE  SumFunction([i \in DOMAIN statement |-> Counted(statement[i])])
             = Kept(tr) + Completed(tf)
<1> PICK m \in Nat : m = Len(tr)
  OBVIOUS
<1> PICK n \in Nat : n = Len(tf)
  OBVIOUS
<1> PICK recorded : recorded = [i \in 1..m |-> Transfer(tr[i], TRUE)]
  OBVIOUS
<1>1. DOMAIN tr = 1..m /\ DOMAIN tf = 1..n
  OBVIOUS
<1>2. recorded \in Seq(Transfers) /\ Len(recorded) = m
  <2>1. \A i \in 1..m : Transfer(tr[i], TRUE) \in Transfers
    BY <1>1 DEF Transfer, Transfers
  <2>2. recorded \in [1..m -> Transfers] /\ DOMAIN recorded = 1..m
    BY <2>1
  <2> QED
    BY ONLY <2>2, FunctionIsSeq, m \in Nat, SMTT(60)
<1>3. statement = recorded \o tf
  BY <1>1
<1>4. /\ DOMAIN statement = 1..(m + n)
      /\ \A i \in 1..m : statement[i] = recorded[i]
      /\ \A j \in 1..n : statement[m + j] = tf[j]
  <2>1. /\ recorded \o tf \in Seq(Transfers)
        /\ Len(recorded \o tf) = Len(recorded) + Len(tf)
        /\ \A k \in 1..(Len(recorded) + Len(tf)) :
             (recorded \o tf)[k] = IF k <= Len(recorded) THEN recorded[k] ELSE tf[k - Len(recorded)]
    BY ONLY <1>2, tf \in Seq(Transfers), ConcatProperties
  <2>2. /\ statement \in Seq(Transfers) /\ Len(statement) = m + n
        /\ \A k \in 1..(m + n) : statement[k] = IF k <= m THEN recorded[k] ELSE tf[k - m]
    BY <1>2, <1>3, <2>1
  <2>5. DOMAIN statement = 1..(m + n)
    BY <2>2, LenProperties
  <2>3. \A i \in 1..m : i \in 1..(m + n) /\ i <= m
    OBVIOUS
  <2>4. \A j \in 1..n : m + j \in 1..(m + n) /\ ~(m + j <= m) /\ (m + j) - m = j
    OBVIOUS
  <2>6. \A i \in 1..m : statement[i] = recorded[i]
    BY <2>2, <2>3
  <2>7. ASSUME NEW j \in 1..n PROVE statement[m + j] = tf[j]
    <3>1. PICK k : k = m + j /\ k \in 1..(m + n) /\ ~(k <= m) /\ k - m = j
      BY <2>4
    <3> QED
      BY <2>2, <3>1
  <2> QED
    BY <2>5, <2>6, <2>7
<1>5. PICK h : h = [i \in DOMAIN statement |-> Counted(statement[i])]
  OBVIOUS
<1>6. PICK g : g = RecordAmounts(tf)
  OBVIOUS
<1>7. \A i \in 1..m : h[i] = tr[i] /\ tr[i] \in Int
  <2>1. ASSUME NEW i \in 1..m PROVE h[i] = tr[i] /\ tr[i] \in Int
    <3>1. i \in 1..(m + n) /\ statement[i] = Transfer(tr[i], TRUE)
      <4>1. i \in 1..(m + n)
        OBVIOUS
      <4>2. recorded[i] = Transfer(tr[i], TRUE)
        OBVIOUS
      <4> QED
        BY <1>4, <4>1, <4>2
    <3>2. h[i] = Counted(Transfer(tr[i], TRUE))
      BY <1>4, <1>5, <3>1
    <3> QED
      BY <1>1, <3>2 DEF Counted, Transfer
  <2> QED
    BY <2>1
<1>8. \A j \in 1..n : h[m + j] = g[j] /\ g[j] \in Int
  <2>1. ASSUME NEW j \in 1..n PROVE h[m + j] = g[j] /\ g[j] \in Int
    <3>1. m + j \in 1..(m + n) /\ statement[m + j] = tf[j] /\ tf[j] \in Transfers
      <4>1. m + j \in 1..(m + n)
        OBVIOUS
      <4>2. tf[j] \in Transfers
        BY <1>1
      <4> QED
        BY <1>4, <4>1, <4>2
    <3>2. h[m + j] = Counted(tf[j])
      BY <1>4, <1>5, <3>1
    <3>3. g[j] = Counted(tf[j])
      BY <1>1, <1>6 DEF RecordAmounts
    <3> QED
      BY <3>1, <3>2, <3>3, CountedNumber
  <2> QED
    BY <2>1
<1>9. SumFunctionOnSet(h, 1..(m + n)) = SumFunctionOnSet(tr, 1..m) + SumFunctionOnSet(g, 1..n)
  <2>1. Numbers(tr, 1..m) /\ Numbers(g, 1..n)
    BY <1>7, <1>8 DEF Numbers
  <2>2. \A i \in 1..m : h[i] = tr[i]
    BY <1>7
  <2>3. \A j \in 1..n : h[m + j] = g[j]
    BY <1>8
  <2>4. PICK I, J, K : I = 1..m /\ J = 1..n /\ K = 1..(m + n)
    OBVIOUS
  <2>5. /\ Numbers(tr, I) /\ Numbers(g, J)
        /\ (\A i \in I : h[i] = tr[i]) /\ (\A j \in J : h[m + j] = g[j])
    BY <2>1, <2>2, <2>3, <2>4
  <2>6. SumFunctionOnSet(h, K) = SumFunctionOnSet(tr, I) + SumFunctionOnSet(g, J)
    BY ONLY <2>4, <2>5, SumInTwoParts, m \in Nat, n \in Nat, SMTT(60)
  <2> QED
    BY <2>4, <2>6
<1>10. SumFunction(h) = SumFunctionOnSet(h, 1..(m + n))
  <2>1. DOMAIN h = 1..(m + n)
    BY <1>4, <1>5
  <2> QED
    BY <2>1 DEF SumFunction
<1> QED
  BY <1>1, <1>5, <1>6, <1>9, <1>10 DEF Kept, Completed

LEMMA CallersFinite == IsFiniteSet(Callers) /\ InitCash \in Int
BY CapitalAssumption DEF CapitalAssumption

\* A call that goes on changes what is under way by what it has still to write.
LEMMA UnderwayChanges ==
    ASSUME CapTyped, CapTyped', NEW a, NEW d \in Int, NEW t \in Callers,
           \A s \in Callers \ {t} : caller'[s] = caller[s],
           Unwritten(t, a)' = Unwritten(t, a) + d
    PROVE  /\ Underway(a)' = Underway(a) + d
           /\ Underway(a) \in Int
<1>1. PICK f : f = [s \in Callers |-> Unwritten(s, a)]
  OBVIOUS
<1>2. PICK g : g = [s \in Callers |-> Unwritten(s, a)']
  OBVIOUS
<1>3. \A s \in Callers : f[s] \in Int
  <2> SUFFICES ASSUME NEW s \in Callers PROVE Unwritten(s, a) \in Int
    BY <1>1
  <2>1. caller[s] \in CapCalls \/ caller[s] = NoCall
    BY DEF CapTyped
  <2>2. In(s, "record") => caller[s].amount \in Int
    BY <2>1 DEF In, CapCalls
  <2> QED
    BY <2>2 DEF Unwritten
<1>4. \A s \in Callers \ {t} : g[s] = f[s]
  <2> SUFFICES ASSUME NEW s \in Callers \ {t} PROVE Unwritten(s, a)' = Unwritten(s, a)
    BY <1>1, <1>2
  <2>1. caller'[s] = caller[s]
    OBVIOUS
  <2> QED
    BY <2>1 DEF Unwritten, In, OnAccount
<1>5. g[t] = f[t] + d
  BY <1>1, <1>2
<1>6. SumFunctionOnSet(g, Callers) = SumFunctionOnSet(f, Callers) + g[t] - f[t]
  BY <1>3, <1>4, <1>5, CallersFinite, SumUpdate DEF Numbers
<1>7. SumFunctionOnSet(f, Callers) \in Int
  BY <1>3, CallersFinite, SumInt DEF Numbers
<1>8. Underway(a) = SumFunctionOnSet(f, Callers) /\ Underway(a)' = SumFunctionOnSet(g, Callers)
  BY <1>1, <1>2 DEF Underway
<1> QED
  BY <1>3, <1>5, <1>6, <1>7, <1>8

LEMMA UnderwayKept ==
    ASSUME CapTyped, CapTyped', NEW a, NEW t \in Callers,
           \A s \in Callers \ {t} : caller'[s] = caller[s],
           Unwritten(t, a)' = Unwritten(t, a)
    PROVE  /\ Underway(a)' = Underway(a)
           /\ Underway(a) \in Int
<1>1. Unwritten(t, a) \in Int
  <2>1. caller[t] \in CapCalls \/ caller[t] = NoCall
    BY DEF CapTyped
  <2>2. In(t, "record") => caller[t].amount \in Int
    BY <2>1 DEF In, CapCalls
  <2> QED
    BY <2>2 DEF Unwritten
<1>2. PICK d \in Int : d = 0
  OBVIOUS
<1>3. Unwritten(t, a)' = Unwritten(t, a) + d
  BY <1>1, <1>2
<1>4. Underway(a)' = Underway(a) + d /\ Underway(a) \in Int
  BY <1>3, UnderwayChanges
<1> QED
  BY <1>2, <1>4

\* What is under way stays when no call changes.
LEMMA UnderwayStays ==
    ASSUME CapTyped, NEW a, caller' = caller
    PROVE  Underway(a)' = Underway(a) /\ Underway(a) \in Int
<1>1. PICK f : f = [s \in Callers |-> Unwritten(s, a)]
  OBVIOUS
<1>2. ASSUME NEW s \in Callers PROVE f[s] \in Int
  <2>1. caller[s] \in CapCalls \/ caller[s] = NoCall
    BY DEF CapTyped
  <2>2. In(s, "record") => caller[s].amount \in Int
    BY <2>1 DEF In, CapCalls
  <2> QED
    BY <1>1, <2>2 DEF Unwritten
<1>3. Underway(a) \in Int
  BY <1>1, <1>2, CallersFinite, SumInt DEF Underway, Numbers
<1>4. Underway(a)' = Underway(a)
  BY DEF Underway, Unwritten, In, OnAccount
<1> QED
  BY <1>3, <1>4

\* When nothing is under way for an account.
LEMMA NothingUnderway ==
    ASSUME NEW a, \A t \in Callers : ~(In(t, "record") /\ OnAccount(t) = a)
    PROVE  Underway(a) = 0
<1>1. PICK f : f = [s \in Callers |-> Unwritten(s, a)]
  OBVIOUS
<1>2. \A s \in Callers : f[s] = 0
  BY <1>1 DEF Unwritten
<1>3. SumFunctionOnSet(f, Callers) = SumFunctionOnSet(f, {})
  BY <1>2, CallersFinite, SumOfPart DEF Numbers
<1> QED
  BY <1>1, <1>3, SumEmpty DEF Underway

LEMMA CapInvInit == CapInit => CapInv
<1> SUFFICES ASSUME CapInit PROVE CapInv
  OBVIOUS
<1>1. CapTyped
  BY DEF CapInit, CapTyped
<1>2. NoHistory
  BY DEF CapInit, NoHistory, In
<1> QED
  BY <1>1, <1>2 DEF CapInit, CapInv

\* Transfers that fill one page are all shown.
LEMMA ShownAll ==
    ASSUME NEW tf \in Seq(Transfers), Len(tf) <= PageSize
    PROVE  Shown(tf) = tf
<1>1. Len(tf) \in Nat /\ PageSize \in Nat
  BY CapitalAssumption DEF CapitalAssumption
<1>2. (IF Len(tf) < PageSize THEN Len(tf) ELSE PageSize) = Len(tf)
  BY <1>1
<1>3. SubSeq(tf, 1, Len(tf)) = tf
  OBVIOUS
<1> QED
  BY <1>2, <1>3 DEF Shown

\* The records of an account add up to its money.
LEMMA CapInvExplains == ASSUME CapInv PROVE RecordsExplainMoney
<1> SUFFICES ASSUME NEW a \in accounts
             PROVE  /\ Explain(Recorded(a) \o transfers[a], a)
                    /\ Len(transfers[a]) <= PageSize => Explain(AllTransactions(a), a)
  BY DEF RecordsExplainMoney
<1>1. transactions[a] \in Seq(Int) /\ transfers[a] \in Seq(Transfers)
  BY DEF CapInv, CapTyped
<1>2. PICK both : both = Recorded(a) \o transfers[a]
  OBVIOUS
<1>3. SumFunction([i \in DOMAIN both |-> Counted(both[i])])
        = Kept(transactions[a]) + Completed(transfers[a])
  BY <1>1, <1>2, RecordsTogether DEF Recorded
<1>4. SumFunction([t \in Callers |-> Unwritten(t, a)]) = Underway(a)
  BY DEF SumFunction, Underway
<1>5. Explained(a)
  BY DEF CapInv
<1>6. Explain(both, a)
  BY <1>3, <1>4, <1>5 DEF Explained, Explain
<1>7. Len(transfers[a]) <= PageSize => AllTransactions(a) = both
  BY <1>1, <1>2, ShownAll DEF AllTransactions
<1> QED
  BY <1>2, <1>6, <1>7

\* Making, continuing and ending a call keeps the calls typed.
LEMMA CallsTyped ==
    ASSUME CapTyped, NEW t \in Callers, NEW c \in CapCalls \cup {NoCall},
           caller' = [caller EXCEPT ![t] = c]
    PROVE  /\ caller' \in [Callers -> CapCalls \cup {NoCall}]
           /\ caller'[t] = c /\ \A s \in Callers \ {t} : caller'[s] = caller[s]
BY DEF CapTyped

\* What is known of a call that is at pc.
LEMMA CallIn ==
    ASSUME CapTyped, NEW t \in Callers, NEW pc, In(t, pc)
    PROVE  /\ caller[t] \in CapCalls /\ caller[t].pc = pc
           /\ OnAccount(t) \in CapitalAccounts /\ caller[t].amount \in Int
           /\ \A x : In(t, x) => x = pc
BY DEF CapTyped, CapCalls, In, OnAccount

\* Steps that move and write nothing: they keep what is explained as long as no
\* call gets to its record, and none gets to move money of an unopened account.
LEMMA QuietSteps ==
    ASSUME CapInv, UNCHANGED <<moneyVars, opened>>, accounts' \subseteq accounts,
           NEW t \in Callers, NEW c \in CapCalls \cup {NoCall},
           caller' = [caller EXCEPT ![t] = c], ~In(t, "record"),
           c # NoCall => /\ c.pc # "record"
                         /\ c.pc \in {"move", "teller", "bank"} => c.account \in opened
    PROVE  CapInv'
<1>1. CapTyped'
  BY CallsTyped DEF CapInv, CapTyped, CapCalls, moneyVars
<1>2. caller'[t] = c /\ \A s \in Callers \ {t} : caller'[s] = caller[s]
  BY CallsTyped DEF CapInv
<1>3. NoHistory'
  <2> SUFFICES ASSUME NEW a \in CapitalAccounts \ opened, NEW s \in Callers, (OnAccount(s) = a)'
               PROVE  ~(In(s, "move") \/ In(s, "record") \/ In(s, "teller") \/ In(s, "bank"))'
    BY DEF CapInv, NoHistory, moneyVars
  <2>1. CASE s = t
    BY <1>2, <2>1 DEF In, OnAccount
  <2>2. CASE s # t
    BY <1>2, <2>2 DEF CapInv, NoHistory, In, OnAccount
  <2> QED
    BY <2>1, <2>2
<1>4. ASSUME NEW a \in accounts' PROVE Explained(a)'
  <2>1. Unwritten(t, a)' = Unwritten(t, a)
    BY <1>2 DEF Unwritten, In
  <2>2. Underway(a)' = Underway(a) /\ Underway(a) \in Int
    BY <1>1, <1>2, <2>1, UnderwayKept DEF CapInv
  <2>3. Explained(a)
    BY DEF CapInv
  <2> QED
    BY <2>2, <2>3 DEF Explained, moneyVars
<1> QED
  BY <1>1, <1>3, <1>4 DEF CapInv

LEMMA GoesOn ==
    ASSUME CapTyped, NEW t \in Callers, NEW at, In(t, at), NEW pc \in CapPCs, ThenGo(t, pc)
    PROVE  \E c \in CapCalls : /\ c.pc = pc /\ c.account = OnAccount(t)
                              /\ c.amount = caller[t].amount
                              /\ caller' = [caller EXCEPT ![t] = c]
<1> PICK c : c = [caller[t] EXCEPT !.pc = pc]
  OBVIOUS
<1>1. caller[t] \in CapCalls
  BY CallIn
<1>2. c \in CapCalls /\ c.pc = pc /\ c.account = OnAccount(t) /\ c.amount = caller[t].amount
  BY <1>1 DEF CapCalls, OnAccount
<1>3. caller' = [caller EXCEPT ![t] = c]
  BY <1>1 DEF ThenGo
<1> QED
  BY <1>2, <1>3

LEMMA Calling ==
    ASSUME CapTyped, NEW t \in Callers, NEW pc \in CapPCs, NEW a \in CapitalAccounts,
           NEW x \in Int, Call(t, pc, a, x)
    PROVE  /\ caller[t] = NoCall
           /\ \E c \in CapCalls : /\ c.pc = pc /\ c.account = a /\ c.amount = x
                                 /\ caller' = [caller EXCEPT ![t] = c]
<1>1. [pc |-> pc, account |-> a, amount |-> x] \in CapCalls
  BY DEF CapCalls
<1> QED
  BY <1>1 DEF Call

\* The steps of opening and closing that move no money.
LEMMA OpeningAndClosing ==
    ASSUME CapInv, NEW t \in Callers, NEW a \in CapitalAccounts,
           \/ OpenMetadata(t) \/ OpenIndex(t) \/ CloseAccount(t, a)
           \/ CloseRemove(t) \/ CloseUnindex(t) \/ CloseMetadata(t)
    PROVE  CapInv'
<1>0. CapTyped
  BY DEF CapInv
<1>1. UNCHANGED <<moneyVars, opened>> /\ accounts' \subseteq accounts
  BY DEF OpenMetadata, OpenIndex, CloseAccount, CloseRemove, CloseUnindex, CloseMetadata,
         accountVars
<1>2. ~In(t, "record")
  BY <1>0, CallIn DEF OpenMetadata, OpenIndex, CloseAccount, CloseRemove, CloseUnindex,
                      CloseMetadata, Call, In
<1>3. \/ Return(t)
      \/ \E pc \in {"index", "unindex", "forget"}, at \in CapPCs : In(t, at) /\ ThenGo(t, pc)
      \/ \E pc \in {"remove", "remove-only"} : Call(t, pc, a, 0)
  BY DEF OpenMetadata, OpenIndex, CloseAccount, CloseRemove, CloseUnindex, CloseMetadata, CapPCs
<1>4. CASE Return(t)
  BY <1>1, <1>2, <1>4, QuietSteps DEF Return
<1>5. CASE \E pc \in {"index", "unindex", "forget"}, at \in CapPCs : In(t, at) /\ ThenGo(t, pc)
  <2>1. PICK pc \in {"index", "unindex", "forget"}, at \in CapPCs : In(t, at) /\ ThenGo(t, pc)
    BY <1>5
  <2>2. PICK c \in CapCalls : c.pc = pc /\ caller' = [caller EXCEPT ![t] = c]
    BY <1>0, <2>1, GoesOn DEF CapPCs
  <2> QED
    BY <1>1, <1>2, <2>2, QuietSteps
<1>6. CASE \E pc \in {"remove", "remove-only"} : Call(t, pc, a, 0)
  <2>1. PICK pc \in {"remove", "remove-only"} : Call(t, pc, a, 0)
    BY <1>6
  <2>2. PICK c \in CapCalls : c.pc = pc /\ caller' = [caller EXCEPT ![t] = c]
    BY <1>0, <2>1, Calling DEF CapPCs
  <2> QED
    BY <1>1, <1>2, <2>2, QuietSteps
<1> QED
  BY <1>3, <1>4, <1>5, <1>6

\* Calls that have found their account, and will move its money later.
LEMMA AccountFound ==
    ASSUME CapInv, NEW t \in Callers, NEW a \in CapitalAccounts, NEW amount \in Int,
           \/ DepositWithRecord(t, a, amount) \/ WithdrawWithRecord(t, a, amount)
           \/ FindAccount(t, a, amount)
    PROVE  CapInv'
<1>0. CapTyped
  BY DEF CapInv
<1>1. UNCHANGED <<moneyVars, opened>> /\ accounts' \subseteq accounts /\ a \in opened
  BY <1>0 DEF DepositWithRecord, WithdrawWithRecord, FindAccount, accountVars, CapTyped
<1>2. -amount \in Int
  OBVIOUS
<1>3. PICK pc \in {"move", "teller", "bank"}, x \in Int : Call(t, pc, a, x)
  BY <1>2 DEF DepositWithRecord, WithdrawWithRecord, FindAccount
<1>4. PICK c \in CapCalls : c.pc = pc /\ c.account = a /\ caller' = [caller EXCEPT ![t] = c]
  BY <1>0, <1>3, Calling DEF CapPCs
<1>5. ~In(t, "record")
  BY <1>3 DEF Call, In
<1> QED
  BY <1>1, <1>4, <1>5, QuietSteps

\* Steps that move or write something of one account: the others stay explained.
LEMMA OneAccountSteps ==
    ASSUME CapInv, CapTyped', UNCHANGED <<opened, accounts>>,
           NEW t \in Callers, NEW b \in opened,
           \A a \in CapitalAccounts \ {b} :
              /\ money'[a] = money[a] /\ unrecorded'[a] = unrecorded[a]
              /\ transactions'[a] = transactions[a] /\ transfers'[a] = transfers[a],
           \A s \in Callers \ {t} : caller'[s] = caller[s],
           In(t, "record") => OnAccount(t) = b,
           caller'[t] = NoCall \/ caller'[t].account = b \/ caller'[t] = caller[t],
           b \in accounts => Explained(b)'
    PROVE  CapInv'
<1>1. NoHistory'
  <2> SUFFICES ASSUME NEW a \in CapitalAccounts \ opened
               PROVE  /\ transactions'[a] = <<>> /\ transfers'[a] = <<>> /\ unrecorded'[a] = 0
                      /\ \A s \in Callers :
                           (OnAccount(s) = a)' =>
                             ~(In(s, "move") \/ In(s, "record") \/ In(s, "teller") \/ In(s, "bank"))'
    BY DEF NoHistory
  <2>1. transactions'[a] = <<>> /\ transfers'[a] = <<>> /\ unrecorded'[a] = 0
    BY DEF CapInv, NoHistory
  <2>2. ASSUME NEW s \in Callers, (OnAccount(s) = a)'
        PROVE  ~(In(s, "move") \/ In(s, "record") \/ In(s, "teller") \/ In(s, "bank"))'
    <3>1. caller'[s] = NoCall \/ caller'[s] = caller[s]
      BY <2>2 DEF OnAccount
    <3> QED
      BY <2>2, <3>1 DEF CapInv, NoHistory, In, OnAccount
  <2> QED
    BY <2>1, <2>2
<1>2. ASSUME NEW a \in accounts, a # b PROVE Explained(a)'
  <2>1. Unwritten(t, a) = 0 \/ Unwritten(t, a)' = Unwritten(t, a)
    BY <1>2 DEF Unwritten, In, OnAccount
  <2>2. Unwritten(t, a)' = 0 \/ Unwritten(t, a)' = Unwritten(t, a)
    BY <1>2 DEF Unwritten, In, OnAccount
  <2>3. Unwritten(t, a) = 0
    BY <1>2 DEF Unwritten
  <2>4. Unwritten(t, a)' = Unwritten(t, a)
    BY <2>2, <2>3
  <2>5. Underway(a)' = Underway(a) /\ Underway(a) \in Int
    BY <2>4, UnderwayKept DEF CapInv
  <2>6. Explained(a) /\ a \in CapitalAccounts \ {b}
    BY <1>2 DEF CapInv, CapTyped
  <2> QED
    BY <2>5, <2>6 DEF Explained
<1> QED
  BY <1>1, <1>2 DEF CapInv

\* An account begins with its initial money and no history.
LEMMA Opening ==
    ASSUME CapInv, NEW t \in Callers, NEW b \in CapitalAccounts, OpenAccount(t, b)
    PROVE  CapInv'
<1>0. CapTyped /\ b \notin opened /\ InitCash \in Int
  BY CallersFinite DEF CapInv, OpenAccount
<1>1. /\ opened' = opened \cup {b} /\ accounts' = accounts \cup {b}
      /\ money' = [money EXCEPT ![b] = InitCash]
      /\ UNCHANGED <<transactions, transfers, unrecorded>>
  BY DEF OpenAccount
<1>2. PICK c \in CapCalls : c.pc = "metadata" /\ caller' = [caller EXCEPT ![t] = c]
  BY <1>0, Calling DEF OpenAccount, CapPCs
<1>3. caller[t] = NoCall
  BY DEF OpenAccount, Call
<1>4. CapTyped'
  BY <1>0, <1>1, <1>2, CallsTyped DEF CapTyped
<1>5. caller'[t] = c /\ \A s \in Callers \ {t} : caller'[s] = caller[s]
  BY <1>0, <1>2, CallsTyped
<1>6. NoHistory'
  <2> SUFFICES ASSUME NEW a \in CapitalAccounts \ opened'
               PROVE  /\ transactions'[a] = <<>> /\ transfers'[a] = <<>> /\ unrecorded'[a] = 0
                      /\ \A s \in Callers :
                           (OnAccount(s) = a)' =>
                             ~(In(s, "move") \/ In(s, "record") \/ In(s, "teller") \/ In(s, "bank"))'
    BY DEF NoHistory
  <2>1. a \in CapitalAccounts \ opened
    BY <1>1
  <2>2. transactions'[a] = <<>> /\ transfers'[a] = <<>> /\ unrecorded'[a] = 0
    BY <1>1, <2>1 DEF CapInv, NoHistory
  <2>3. ASSUME NEW s \in Callers, (OnAccount(s) = a)'
        PROVE  ~(In(s, "move") \/ In(s, "record") \/ In(s, "teller") \/ In(s, "bank"))'
    <3>1. CASE s = t
      BY <1>2, <1>5, <3>1 DEF In
    <3>2. CASE s # t
      BY <1>5, <2>1, <2>3, <3>2 DEF CapInv, NoHistory, In, OnAccount
    <3> QED
      BY <3>1, <3>2
  <2> QED
    BY <2>2, <2>3
<1>7. ASSUME NEW a \in accounts, a # b PROVE Explained(a)'
  <2>1. Unwritten(t, a)' = Unwritten(t, a)
    BY <1>2, <1>3, <1>5 DEF Unwritten, In
  <2>2. Underway(a)' = Underway(a) /\ Underway(a) \in Int
    BY <1>0, <1>4, <1>5, <2>1, UnderwayKept
  <2>3. Explained(a) /\ a \in CapitalAccounts
    BY <1>7 DEF CapInv, CapTyped
  <2>4. money'[a] = money[a]
    BY <1>0, <1>1, <1>7, <2>3 DEF CapTyped
  <2> QED
    BY <1>1, <2>2, <2>3, <2>4 DEF Explained
<1>8. Explained(b)'
  <2>1. \A s \in Callers : ~(In(s, "record") /\ OnAccount(s) = b)
    BY <1>0 DEF CapInv, NoHistory
  <2>2. Underway(b) = 0
    BY <2>1, NothingUnderway
  <2>3. Unwritten(t, b)' = Unwritten(t, b)
    BY <1>2, <1>3, <1>5 DEF Unwritten, In
  <2>4. Underway(b)' = Underway(b)
    BY <1>0, <1>4, <1>5, <2>3, UnderwayKept
  <2>5. money'[b] = InitCash
    BY <1>0, <1>1 DEF CapTyped
  <2>6. transactions'[b] = <<>> /\ transfers'[b] = <<>> /\ unrecorded'[b] = 0
    BY <1>0, <1>1 DEF CapInv, NoHistory
  <2> QED
    BY <1>0, <2>2, <2>4, <2>5, <2>6, KeptNothing DEF Explained
<1> QED
  BY <1>1, <1>4, <1>6, <1>7, <1>8 DEF CapInv

\* deposit and withdraw without a record: unrecorded counts them.
LEMMA MovingUnrecorded ==
    ASSUME CapInv, NEW u \in Holders, NEW amount \in Int,
           MoveUnrecorded(u, amount)
    PROVE  CapInv'
<1>0. CapTyped
  BY DEF CapInv
<1>1. PICK b : b = DefaultAccount(u)
  OBVIOUS
<1>2. /\ b \in accounts /\ UNCHANGED <<accounts, opened, transactions, transfers, caller>>
      /\ money' = [money EXCEPT ![b] = @ + amount]
      /\ unrecorded' = [unrecorded EXCEPT ![b] = @ + amount]
  BY <1>1 DEF MoveUnrecorded, accountVars
<1>3. b \in opened /\ b \in CapitalAccounts
  BY <1>0, <1>2 DEF CapTyped
<1>4. money[b] \in Int /\ unrecorded[b] \in Int
  BY <1>0, <1>3 DEF CapTyped
<1>5. money'[b] = money[b] + amount /\ unrecorded'[b] = unrecorded[b] + amount
  BY <1>0, <1>2, <1>3 DEF CapTyped
<1>6. \A a \in CapitalAccounts \ {b} : money'[a] = money[a] /\ unrecorded'[a] = unrecorded[a]
  BY <1>0, <1>2 DEF CapTyped
<1>7. CapTyped'
  BY <1>0, <1>2, <1>3, <1>4 DEF CapTyped, CapCalls
<1>8. Explained(b)'
  <2>1. Underway(b)' = Underway(b) /\ Underway(b) \in Int
    BY <1>0, <1>2, UnderwayStays
  <2>2. Kept(transactions[b]) \in Int /\ Completed(transfers[b]) \in Int
    BY <1>0, <1>3, KeptNumbers DEF CapTyped
  <2>3. Explained(b)
    BY <1>2 DEF CapInv
  <2> QED
    BY <1>2, <1>4, <1>5, <2>1, <2>2, <2>3, CallersFinite DEF Explained
<1> DEFINE Same(a) == /\ money'[a] = money[a] /\ unrecorded'[a] = unrecorded[a]
                      /\ transactions'[a] = transactions[a] /\ transfers'[a] = transfers[a]
<1>9. \A a \in CapitalAccounts \ {b} : Same(a)
  BY <1>2, <1>6
<1>10. NoHistory'
  BY <1>2, <1>3, <1>9 DEF CapInv, NoHistory, In, OnAccount
<1>11. ASSUME NEW a \in accounts, a # b PROVE Explained(a)'
  <2>1. Explained(a) /\ Same(a)
    BY <1>0, <1>9, <1>11 DEF CapInv, CapTyped
  <2>2. Underway(a)' = Underway(a)
    BY <1>0, <1>2, UnderwayStays
  <2> QED
    BY <2>1, <2>2 DEF Explained
<1> QED
  BY <1>2, <1>7, <1>8, <1>10, <1>11 DEF CapInv

\* What deposit_with_record and withdraw_with_record take or give is under way
\* until their record is kept.
LEMMA Moving ==
    ASSUME CapInv, NEW t \in Callers, MoveMoney(t)
    PROVE  CapInv'
<1>0. CapTyped /\ In(t, "move")
  BY DEF CapInv, MoveMoney
<1>1. PICK b \in CapitalAccounts, x \in Int : b = OnAccount(t) /\ x = caller[t].amount
  BY <1>0, CallIn
<1>2. ~In(t, "record")
  BY <1>0, CallIn
<1>3. UNCHANGED <<accounts, opened, transactions, transfers, unrecorded>>
  BY DEF MoveMoney, accountVars
<1>4. CASE b \notin accounts
  <2>1. Return(t) /\ UNCHANGED money
    BY <1>1, <1>4 DEF MoveMoney
  <2> QED
    BY <1>2, <1>3, <2>1, QuietSteps DEF Return, moneyVars
<1>5. CASE b \in accounts
  <2>1. money' = [money EXCEPT ![b] = @ + x] /\ ThenGo(t, "record")
    BY <1>1, <1>5 DEF MoveMoney, Moved
  <2>2. PICK c \in CapCalls : c.pc = "record" /\ c.account = b /\ c.amount = x
                              /\ caller' = [caller EXCEPT ![t] = c]
    BY <1>0, <1>1, <2>1, GoesOn DEF CapPCs
  <2>3. caller'[t] = c /\ \A s \in Callers \ {t} : caller'[s] = caller[s]
    BY <1>0, <2>2, CallsTyped
  <2>4. money[b] \in Int /\ unrecorded[b] \in Int /\ b \in opened
    BY <1>0, <1>5 DEF CapTyped
  <2>5. CapTyped'
    BY <1>0, <1>3, <2>1, <2>2, <2>4, CallsTyped DEF CapTyped, CapCalls
  <2>6. money'[b] = money[b] + x /\ \A a \in CapitalAccounts \ {b} : money'[a] = money[a]
    BY <1>0, <2>1 DEF CapTyped
  <2>7. Explained(b)'
    <3>1. c # NoCall
      BY <2>2 DEF CapCalls, NoCall
    <3>2. Unwritten(t, b) = 0 /\ Unwritten(t, b)' = x
      BY <1>2, <2>2, <2>3, <3>1 DEF Unwritten, In, OnAccount
    <3>3. Underway(b)' = Underway(b) + x /\ Underway(b) \in Int
      BY <1>0, <2>3, <2>5, <3>2, UnderwayChanges
    <3>4. Kept(transactions[b]) \in Int /\ Completed(transfers[b]) \in Int
      BY <1>0, KeptNumbers DEF CapTyped
    <3>5. Explained(b)
      BY <1>5 DEF CapInv
    <3> QED
      BY <1>3, <2>4, <2>6, <3>3, <3>4, <3>5, CallersFinite DEF Explained
  <2> QED
    BY <1>2, <1>3, <2>2, <2>3, <2>4, <2>5, <2>6, <2>7, OneAccountSteps
<1> QED
  BY <1>4, <1>5

\* The record of what was moved takes its place.
LEMMA Recording ==
    ASSUME CapInv, NEW t \in Callers, RecordTransaction(t)
    PROVE  CapInv'
<1>0. CapTyped /\ In(t, "record")
  BY DEF CapInv, RecordTransaction
<1>1. PICK b \in CapitalAccounts, x \in Int : b = OnAccount(t) /\ x = caller[t].amount
  BY <1>0, CallIn
<1>2. b \in opened
  BY <1>0, <1>1 DEF CapInv, NoHistory
<1>3. /\ UNCHANGED <<accounts, opened, money, transfers, unrecorded>>
      /\ caller' = [caller EXCEPT ![t] = NoCall]
  BY DEF RecordTransaction, accountVars, Return
<1>4. caller'[t] = NoCall /\ \A s \in Callers \ {t} : caller'[s] = caller[s]
  BY <1>0, <1>3, CallsTyped
<1>5. /\ b \in accounts => transactions' = [transactions EXCEPT ![b] = Append(@, x)]
      /\ b \notin accounts => transactions' = transactions
  BY <1>1 DEF RecordTransaction
<1>6. transactions[b] \in Seq(Int) /\ Append(transactions[b], x) \in Seq(Int)
  BY <1>0 DEF CapTyped
<1>7. CapTyped'
  <2>1. transactions' \in [CapitalAccounts -> Seq(Int)]
    BY <1>0, <1>5, <1>6 DEF CapTyped
  <2>2. caller' \in [Callers -> CapCalls \cup {NoCall}]
    BY <1>0, <1>3, CallsTyped
  <2> QED
    BY <1>0, <1>3, <2>1, <2>2 DEF CapTyped, CapCalls
<1>8. ASSUME b \in accounts PROVE Explained(b)'
  <2>1. transactions'[b] = Append(transactions[b], x)
    BY <1>0, <1>5, <1>8 DEF CapTyped
  <2>2. Kept(transactions[b])' = Kept(transactions[b]) + x
    BY <1>6, <2>1, KeptAppends DEF Kept
  <2>3. Unwritten(t, b) = x /\ Unwritten(t, b)' = 0
    BY <1>0, <1>1, <1>4 DEF Unwritten, In
  <2>4. Unwritten(t, b)' = Unwritten(t, b) + (-x) /\ -x \in Int
    BY <2>3
  <2>5. Underway(b)' = Underway(b) + (-x) /\ Underway(b) \in Int
    BY <1>0, <1>4, <1>7, <2>4, UnderwayChanges
  <2>6. /\ Kept(transactions[b]) \in Int /\ Completed(transfers[b]) \in Int
        /\ money[b] \in Int /\ unrecorded[b] \in Int
    BY <1>0, KeptNumbers DEF CapTyped
  <2>7. Explained(b)
    BY <1>8 DEF CapInv
  <2> QED
    BY <1>3, <2>2, <2>5, <2>6, <2>7, CallersFinite DEF Explained
<1>9. \A a \in CapitalAccounts \ {b} : transactions'[a] = transactions[a]
  BY <1>0, <1>5 DEF CapTyped
<1> QED
  BY <1>1, <1>2, <1>3, <1>4, <1>7, <1>8, <1>9, OneAccountSteps

\* A teller and the bank move money and keep its record under one lock.
LEMMA MovingLocked ==
    ASSUME CapInv, NEW t \in Callers, NEW done \in BOOLEAN,
           In(t, "teller") \/ In(t, "bank"), MoveLocked(t, done),
           \/ AddRecord(OnAccount(t), Transfer(caller[t].amount, done))
           \/ ~done /\ UNCHANGED transfers
    PROVE  CapInv'
<1>0. CapTyped
  BY DEF CapInv
<1>1. PICK b \in CapitalAccounts, x \in Int : b = OnAccount(t) /\ x = caller[t].amount
  BY <1>0, CallIn
<1>2. b \in opened /\ ~In(t, "record")
  <2>1. b \in opened
    BY <1>0, <1>1 DEF CapInv, NoHistory
  <2>2. ~In(t, "record")
    BY <1>0, CallIn
  <2> QED
    BY <2>1, <2>2
<1>3. /\ UNCHANGED <<accounts, opened, transactions, unrecorded>>
      /\ caller' = [caller EXCEPT ![t] = NoCall]
  BY DEF MoveLocked, accountVars, Return
<1>4. caller'[t] = NoCall /\ \A s \in Callers \ {t} : caller'[s] = caller[s]
  BY <1>0, <1>3, CallsTyped
<1>5. PICK r \in Transfers : r = Transfer(x, done) /\ Counted(r) = IF done THEN x ELSE 0
  <2>1. PICK r : r = [amount |-> x, done |-> done]
    OBVIOUS
  <2>2. r \in Transfers /\ r.done = done /\ r.amount = x
    BY <2>1 DEF Transfers
  <2>3. Counted(r) = IF done THEN x ELSE 0
    BY <2>2 DEF Counted
  <2> QED
    BY <2>1, <2>2, <2>3 DEF Transfer
<1>6. money[b] \in Int /\ unrecorded[b] \in Int /\ transfers[b] \in Seq(Transfers)
  BY <1>0 DEF CapTyped
<1>7. money' = [money EXCEPT ![b] = IF done THEN @ + x ELSE @]
  BY <1>1 DEF MoveLocked
<1>8. /\ money'[b] = money[b] + Counted(r)
      /\ \A a \in CapitalAccounts \ {b} : money'[a] = money[a]
      /\ money' \in [CapitalAccounts -> Int]
  BY <1>0, <1>5, <1>6, <1>7 DEF CapTyped
<1>9. /\ transfers' \in [CapitalAccounts -> Seq(Transfers)]
      /\ \A a \in CapitalAccounts \ {b} : transfers'[a] = transfers[a]
      /\ Completed(transfers[b])' = Completed(transfers[b]) + Counted(r)
      /\ Completed(transfers[b]) \in Int /\ Counted(r) \in Int
  <2>1. Completed(transfers[b]) \in Int /\ Counted(r) \in Int
    BY <1>0, <1>6, KeptNumbers, CountedNumber DEF CapTyped
  <2>2. CASE transfers' = [transfers EXCEPT ![b] = Append(@, r)]
    <3>1. Append(transfers[b], r) \in Seq(Transfers)
      BY <1>6
    <3>2. /\ transfers' \in [CapitalAccounts -> Seq(Transfers)]
          /\ transfers'[b] = Append(transfers[b], r)
          /\ \A a \in CapitalAccounts \ {b} : transfers'[a] = transfers[a]
      BY <1>0, <2>2, <3>1 DEF CapTyped
    <3>3. Completed(transfers'[b]) = Completed(transfers[b]) + Counted(r)
      BY <1>6, <3>2, CompletedAppends
    <3> QED
      BY <2>1, <3>2, <3>3 DEF Completed
  <2>3. CASE ~done /\ transfers' = transfers
    <3>1. Completed(transfers[b])' = Completed(transfers[b]) /\ Counted(r) = 0
      BY <1>5, <2>3 DEF Completed
    <3> QED
      BY <1>0, <2>1, <2>3, <3>1 DEF CapTyped
  <2> QED
    BY <1>1, <1>5, <2>2, <2>3 DEF AddRecord
<1>10. CapTyped'
  BY <1>0, <1>3, <1>8, <1>9, CallsTyped DEF CapTyped, CapCalls
<1>11. ASSUME b \in accounts PROVE Explained(b)'
  <2>1. Unwritten(t, b)' = Unwritten(t, b)
    BY <1>2, <1>4 DEF Unwritten, In
  <2>2. Underway(b)' = Underway(b) /\ Underway(b) \in Int
    BY <1>0, <1>4, <1>10, <2>1, UnderwayKept
  <2>3. Kept(transactions[b]) \in Int
    BY <1>0, <1>6, KeptNumbers DEF CapTyped
  <2>4. Explained(b)
    BY <1>11 DEF CapInv
  <2>5. Kept(transactions[b])' = Kept(transactions[b])
    BY <1>3 DEF Kept
  <2>6. money[b] = InitCash + unrecorded[b]
                     + (Kept(transactions[b]) + Completed(transfers[b])) + Underway(b)
    BY <2>4 DEF Explained
  <2>7. money[b] + Counted(r)
          = InitCash + unrecorded[b]
              + (Kept(transactions[b]) + (Completed(transfers[b]) + Counted(r))) + Underway(b)
    <3>1. PICK m \in Int, u \in Int : m = money[b] /\ u = unrecorded[b]
      BY <1>6
    <3>2. PICK k \in Int : k = Kept(transactions[b])
      BY <2>3
    <3>3. PICK c \in Int, d \in Int : c = Completed(transfers[b]) /\ d = Counted(r)
      BY <1>9
    <3>4. PICK w \in Int : w = Underway(b)
      BY <2>2
    <3>5. m = InitCash + u + (k + c) + w
      BY ONLY <2>6, <3>1, <3>2, <3>3, <3>4
    <3>6. m + d = InitCash + u + (k + (c + d)) + w
      BY ONLY <3>5, CallersFinite, m \in Int, u \in Int, k \in Int, c \in Int, d \in Int, w \in Int
    <3> QED
      BY ONLY <3>1, <3>2, <3>3, <3>4, <3>6
  <2>8. unrecorded'[b] = unrecorded[b] /\ Underway(b)' = Underway(b)
    BY <1>3, <2>2
  <2> QED
    BY <1>8, <1>9, <2>5, <2>7, <2>8 DEF Explained
<1> QED
  BY <1>2, <1>3, <1>4, <1>8, <1>9, <1>10, <1>11, OneAccountSteps

LEMMA CapInvStutters == ASSUME CapInv, UNCHANGED capVars PROVE CapInv'
<1>0. UNCHANGED <<accounts, opened, money, transactions, transfers, unrecorded, caller>>
  BY DEF capVars, accountVars, moneyVars
<1>1. CapTyped' /\ NoHistory'
  BY <1>0 DEF CapInv, CapTyped, CapCalls, NoHistory, In, OnAccount
<1>2. ASSUME NEW a \in accounts PROVE Explained(a)'
  <2>1. Underway(a)' = Underway(a)
    BY <1>0, UnderwayStays DEF CapInv
  <2> QED
    BY <1>0, <2>1 DEF CapInv, Explained
<1> QED
  BY <1>0, <1>1, <1>2 DEF CapInv

LEMMA CapInvStep == ASSUME CapInv, [CapNext]_capVars PROVE CapInv'
<1>1. CASE UNCHANGED capVars
  BY <1>1, CapInvStutters
<1>2. ASSUME NEW t \in Callers, NEW a \in CapitalAccounts, OpenAccount(t, a) PROVE CapInv'
  BY <1>2, Opening
<1>3. ASSUME NEW t \in Callers, NEW a \in CapitalAccounts, CloseAccount(t, a) PROVE CapInv'
  BY <1>3, OpeningAndClosing
<1>4. ASSUME NEW t \in Callers, NEW a \in CapitalAccounts, NEW amount \in Amounts,
             \/ DepositWithRecord(t, a, amount) \/ WithdrawWithRecord(t, a, amount)
             \/ FindAccount(t, a, amount) \/ FindAccount(t, a, -amount)
      PROVE  CapInv'
  <2>1. amount \in Int /\ -amount \in Int
    BY CapitalAssumption DEF CapitalAssumption
  <2> QED
    BY <1>4, <2>1, AccountFound
<1>5. ASSUME NEW t \in Callers,
             \/ OpenMetadata(t) \/ OpenIndex(t)
             \/ CloseRemove(t) \/ CloseUnindex(t) \/ CloseMetadata(t)
      PROVE  CapInv'
  <2>1. PICK a : a \in CapitalAccounts
    <3>1. \E at \in CapPCs : In(t, at)
      BY <1>5 DEF OpenMetadata, OpenIndex, CloseRemove, CloseUnindex, CloseMetadata, CapPCs
    <3> QED
      BY <3>1, CallIn DEF CapInv
  <2> QED
    BY <1>5, <2>1, OpeningAndClosing
<1>6. ASSUME NEW t \in Callers, MoveMoney(t) PROVE CapInv'
  BY <1>6, Moving
<1>7. ASSUME NEW t \in Callers, RecordTransaction(t) PROVE CapInv'
  BY <1>7, Recording
<1>8. ASSUME NEW t \in Callers, TellerMove(t) PROVE CapInv'
  <2>1. PICK done : done = Covered(money[OnAccount(t)], caller[t].amount)
    OBVIOUS
  <2>2. done \in BOOLEAN
    BY <2>1 DEF Covered
  <2>3. /\ In(t, "teller") /\ MoveLocked(t, done)
        /\ IF done THEN AddRecord(OnAccount(t), Transfer(caller[t].amount, TRUE))
           ELSE UNCHANGED transfers
    BY <1>8, <2>1 DEF TellerMove
  <2>4. CASE done = TRUE
    BY <2>2, <2>3, <2>4, MovingLocked
  <2>5. CASE done = FALSE
    BY <2>2, <2>3, <2>5, MovingLocked
  <2> QED
    BY <2>2, <2>4, <2>5
<1>9. ASSUME NEW t \in Callers, BankTransfer(t) PROVE CapInv'
  <2>1. PICK done : done = Covered(money[OnAccount(t)], caller[t].amount)
    OBVIOUS
  <2>2. done \in BOOLEAN
    BY <2>1 DEF Covered
  <2>3. /\ In(t, "bank") /\ MoveLocked(t, done)
        /\ AddRecord(OnAccount(t), Transfer(caller[t].amount, done))
    BY <1>9, <2>1 DEF BankTransfer
  <2> QED
    BY <2>2, <2>3, MovingLocked
<1>10. ASSUME NEW u \in Holders, NEW amount \in Amounts,
              MoveUnrecorded(u, amount) \/ MoveUnrecorded(u, -amount)
       PROVE  CapInv'
  <2>1. amount \in Int /\ -amount \in Int
    BY CapitalAssumption DEF CapitalAssumption
  <2> QED
    BY <1>10, <2>1, MovingUnrecorded
<1> QED
  BY <1>1, <1>2, <1>3, <1>4, <1>5, <1>6, <1>7, <1>8, <1>9, <1>10 DEF CapNext

\* In every reachable state the calls are typed, what was never opened has no
\* history, and every open account's money is explained.
THEOREM CapInvariance == CapSpec => []CapInv
<1>1. CapInit => CapInv
  BY CapInvInit
<1>2. CapInv /\ [CapNext]_capVars => CapInv'
  BY CapInvStep
<1> QED
  BY <1>1, <1>2, PTL DEF CapSpec

\* The records that are kept of an open account, with what is under way and what
\* the old calls moved without a record, explain its money, and what
\* get_all_transactions tells explains it while the transfers fill one page: for
\* any accounts, users, threads, amounts and page size and any number of calls.
THEOREM RecordsAddUp == CapSpec => []RecordsExplainMoney
<1>1. CapInv => RecordsExplainMoney
  BY CapInvExplains
<1> QED
  BY <1>1, CapInvariance, PTL
=============================================================================
