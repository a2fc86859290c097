-------------------------- MODULE ConditionalOrders --------------------------
(***************************************************************************)
(* Conditional orders of one instrument: ConditionalOrderEngine of         *)
(* src/src/exchange/conditional_order.rs, called by creators, cancellers   *)
(* and the threads that bring a last price.                                *)
(*                                                                         *)
(* check_triggers holds the instrument's index from its first order to its *)
(* last one, and an order's entry while the router submits it.             *)
(***************************************************************************)
EXTENDS Integers, FiniteSets, Sequences

CONSTANTS
    Conditionals,    \* ids of conditional orders
    Checkers,        \* threads in check_triggers
    LastPrices,
    TriggerPrice, Rising,   \* Rising[o]: GreaterOrEqual, else LessOrEqual
    Expires,         \* orders with a valid_until
    Ticks            \* bound on calls of check_triggers

Nothing == "nothing"

ASSUME ConditionalOrdersAssumption ==
    /\ Nothing \notin Conditionals
    /\ IsFiniteSet(Conditionals) /\ Expires \subseteq Conditionals
    /\ LastPrices \subseteq Int /\ Ticks \in Nat
    /\ TriggerPrice \in [Conditionals -> Int] /\ Rising \in [Conditionals -> BOOLEAN]

VARIABLES
    by_instrument,    \* sequence of ids
    creating,         \* ids indexed, their order not yet inserted
    conditional,      \* conditional[o]: status, "None" before it is inserted
    checker,          \* checker[t]: [at, last_price, ticking], at: next position
    submitting,       \* orders whose entry a checker holds during submit_order
    submitted,        \* history: orders given to the router, in order
    ticks
condVars == <<by_instrument, creating, conditional, checker, submitting, submitted, ticks>>

Checking(t) == checker[t].at # 0
Locked(o) == \E t \in Checkers : submitting[t] = o

CondInit ==
    /\ by_instrument = <<>> /\ creating = {}
    /\ conditional = [o \in Conditionals |-> "None"]
    /\ checker = [t \in Checkers |-> [at |-> 0, last_price |-> 0]]
    /\ submitting = [t \in Checkers |-> Nothing]
    /\ submitted = <<>> /\ ticks = 0
------------------------------------------------------------------------------
(* create_order: the index first, then the order.  Pushing to the index    *)
(* waits for the threads that read it.                                     *)

IndexOrder(o) ==
    /\ conditional[o] = "None" /\ o \notin creating
    /\ \A t \in Checkers : ~Checking(t)
    /\ by_instrument' = Append(by_instrument, o)
    /\ creating' = creating \cup {o}
    /\ UNCHANGED <<conditional, checker, submitting, submitted, ticks>>

InsertOrder(o) ==
    /\ o \in creating
    /\ creating' = creating \ {o}
    /\ conditional' = [conditional EXCEPT ![o] = "Pending"]
    /\ UNCHANGED <<by_instrument, checker, submitting, submitted, ticks>>

\* Mutant of IsPending: an order that failed may be tried again.
IsPendingOrFailed(o) == conditional[o] \in {"Pending", "Failed"}
IsPending(o) == conditional[o] = "Pending"

\* cancel_order: refused unless the order is pending.
CancelConditional(o) ==
    /\ ~Locked(o)
    /\ IsPending(o)
    /\ conditional' = [conditional EXCEPT ![o] = "Cancelled"]
    /\ UNCHANGED <<by_instrument, creating, checker, submitting, submitted, ticks>>
------------------------------------------------------------------------------
(* check_triggers. *)

CheckTriggers(t) ==
    /\ ~Checking(t) /\ ticks < Ticks /\ by_instrument # <<>>
    /\ ticks' = ticks + 1
    /\ \E p \in LastPrices :
         checker' = [checker EXCEPT ![t] = [at |-> 1, last_price |-> p]]
    /\ UNCHANGED <<by_instrument, creating, conditional, submitting, submitted>>

Advance(t) ==
    checker' = [checker EXCEPT ![t].at = IF @ = Len(by_instrument) THEN 0 ELSE @ + 1]

CheckTrigger(o, price) ==
    IF Rising[o] THEN price >= TriggerPrice[o] ELSE price <= TriggerPrice[o]

\* The next order of the index: skipped, expired, or held and submitted.
CheckOrder(t) ==
    LET o == by_instrument[checker[t].at] IN
    /\ Checking(t) /\ submitting[t] = Nothing /\ ~Locked(o)
    /\ \/ /\ ~IsPending(o)
          /\ Advance(t)
          /\ UNCHANGED <<conditional, submitting, submitted>>
       \/ /\ IsPending(o) /\ o \in Expires
          /\ conditional' = [conditional EXCEPT ![o] = "Expired"]
          /\ Advance(t)
          /\ UNCHANGED <<submitting, submitted>>
       \/ /\ IsPending(o) /\ ~CheckTrigger(o, checker[t].last_price)
          /\ Advance(t)
          /\ UNCHANGED <<conditional, submitting, submitted>>
       \/ /\ IsPending(o) /\ CheckTrigger(o, checker[t].last_price)
          /\ submitting' = [submitting EXCEPT ![t] = o]
          /\ submitted' = Append(submitted, o)
          /\ UNCHANGED <<conditional, checker>>
    /\ UNCHANGED <<by_instrument, creating, ticks>>

\* submit_order has answered.
Submitted(t) ==
    /\ submitting[t] # Nothing
    /\ \E outcome \in {"Triggered", "Failed"} :
         conditional' = [conditional EXCEPT ![submitting[t]] = outcome]
    /\ submitting' = [submitting EXCEPT ![t] = Nothing]
    /\ Advance(t)
    /\ UNCHANGED <<by_instrument, creating, submitted, ticks>>

CondNext ==
    \/ \E o \in Conditionals : IndexOrder(o) \/ InsertOrder(o) \/ CancelConditional(o)
    \/ \E t \in Checkers : CheckTriggers(t) \/ CheckOrder(t) \/ Submitted(t)

CondSpec == CondInit /\ [][CondNext]_condVars
------------------------------------------------------------------------------
(* Properties. *)

CondTypeOK ==
    /\ \A o \in Conditionals :
         conditional[o] \in {"None", "Pending", "Triggered", "Cancelled", "Expired", "Failed"}
    /\ \A t \in Checkers : checker[t].at \in 0..Len(by_instrument)
    /\ \A o \in Conditionals : conditional[o] # "None" =>
         \E i \in DOMAIN by_instrument : by_instrument[i] = o

\* A conditional order is submitted at most once, and not at all once it is
\* cancelled or expired, though prices arrive by several threads and the
\* router answers late.
TriggersOnce ==
    /\ \A i, j \in DOMAIN submitted : submitted[i] = submitted[j] => i = j
    /\ \A i \in DOMAIN submitted :
         conditional[submitted[i]] \in {"Pending", "Triggered", "Failed"}
=============================================================================
