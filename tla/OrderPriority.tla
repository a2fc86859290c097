--------------------------- MODULE OrderPriority ---------------------------
(***************************************************************************)
(* PriorityOrderQueue (src/src/exchange/priority_queue.rs): three queues,  *)
(* each behind a lock of its own, to which threads add orders and from     *)
(* which other threads take them, one (dequeue) or several (dequeue_batch) *)
(* at a time.  A call looks at one queue after the other.                  *)
(***************************************************************************)
EXTENDS Integers, FiniteSets, Sequences

CONSTANTS
    PriorityOrders,  \* orders, each enqueued once
    AmountClass,     \* AmountClass[o]: the priority its amount gives an order
    VipOrders,       \* orders of accounts that become VIP at some time
    Servers,         \* threads that take orders
    LowLimit,        \* low_queue_limit
    TakeSize,        \* batch_size
    Takes            \* bound on the calls of the servers

Critical == 2
Normal == 1
Low == 0

ASSUME OrderPriorityAssumption ==
    /\ IsFiniteSet(PriorityOrders) /\ IsFiniteSet(Servers)
    /\ AmountClass \in [PriorityOrders -> {Critical, Normal, Low}]
    /\ VipOrders \subseteq PriorityOrders
    /\ LowLimit \in Nat \ {0} /\ TakeSize \in Nat \ {0} /\ Takes \in Nat

VARIABLES
    priority_queue,  \* priority_queue[p]: the waiting orders
    entering,        \* entering[o]: "new", the priority of a call that is running,
                     \* "queued" or "rejected"
    vip,             \* the accounts of VipOrders are in vip_users
    server,          \* server[d]: [pc, taken, before]: the step of a call, what it has,
                     \* history: what was waiting when it began
    served,          \* orders that calls have returned
    takes,
    overtaken        \* history: see UrgentFirst

priorityVars == <<priority_queue, entering, vip, server, served, takes, overtaken>>

NoTake == [pc |-> "idle", taken |-> <<>>, before |-> {}]
Waiting(p) == {priority_queue[p][i] : i \in DOMAIN priority_queue[p]}
AllWaiting == Waiting(Critical) \cup Waiting(Normal) \cup Waiting(Low)

PriorityInit ==
    /\ priority_queue = [p \in {Critical, Normal, Low} |-> <<>>]
    /\ entering = [o \in PriorityOrders |-> "new"]
    /\ vip = FALSE
    /\ server = [d \in Servers |-> NoTake]
    /\ served = {} /\ takes = 0 /\ overtaken = {}

AddVipUser ==
    /\ VipOrders # {} /\ ~vip /\ vip' = TRUE
    /\ UNCHANGED <<priority_queue, entering, server, served, takes, overtaken>>

\* enqueue calculates the priority before it takes the lock of a queue.
CalculatePriority(o) ==
    /\ entering[o] = "new"
    /\ entering' = [entering EXCEPT ![o] =
         IF vip /\ o \in VipOrders THEN "to 2"
         ELSE CASE AmountClass[o] = Critical -> "to 2"
                [] AmountClass[o] = Normal -> "to 1"
                [] AmountClass[o] = Low -> "to 0"]
    /\ UNCHANGED <<priority_queue, vip, server, served, takes, overtaken>>

Target(o) == CASE entering[o] = "to 2" -> Critical [] entering[o] = "to 1" -> Normal
               [] OTHER -> Low

EnqueueOrder(o) ==
    /\ entering[o] \in {"to 0", "to 1", "to 2"}
    /\ IF Target(o) = Low /\ Len(priority_queue[Low]) >= LowLimit
       THEN entering' = [entering EXCEPT ![o] = "rejected"] /\ UNCHANGED priority_queue
       ELSE /\ entering' = [entering EXCEPT ![o] = "queued"]
            /\ priority_queue' = [priority_queue EXCEPT ![Target(o)] = Append(@, o)]
    /\ UNCHANGED <<vip, server, served, takes, overtaken>>

Begin(d, pc) ==
    /\ server[d].pc = "idle" /\ takes < Takes
    /\ takes' = takes + 1
    /\ server' = [server EXCEPT ![d] = [pc |-> pc, taken |-> <<>>, before |-> AllWaiting]]
    /\ UNCHANGED <<priority_queue, entering, vip, served, overtaken>>

ReturnOrders(d, taken) ==
    /\ server' = [server EXCEPT ![d] = NoTake]
    /\ served' = served \cup {taken[i] : i \in DOMAIN taken}

\* The first n orders leave queue p.
Pop(p, n) ==
    priority_queue' = [priority_queue EXCEPT ![p] = SubSeq(@, n + 1, Len(@))]

\* Those that were waiting in a more urgent queue all the time since the call
\* of d began.
Overtake(d, p) ==
    overtaken' = overtaken \cup
      {o \in server[d].before : \E q \in {Critical, Normal} : q > p /\ o \in Waiting(q)}

\* Mutant of NextQueue: the queue of normal orders comes first.
NextQueueNormal(pc) == CASE pc = "start" -> Normal [] pc = "second" -> Critical [] OTHER -> Low
\* The queue that dequeue looks at.
NextQueue(pc) == CASE pc = "start" -> Critical [] pc = "second" -> Normal [] OTHER -> Low

\* dequeue: the queues of critical and normal orders.
DequeueUrgent(d) ==
    /\ server[d].pc \in {"start", "second"}
    /\ LET p == NextQueue(server[d].pc)
       IN  IF priority_queue[p] # <<>>
           THEN /\ Pop(p, 1) /\ Overtake(d, p)
                /\ ReturnOrders(d, SubSeq(priority_queue[p], 1, 1))
           ELSE /\ server' = [server EXCEPT ![d].pc =
                                IF @ = "start" THEN "second" ELSE "low length"]
                /\ UNCHANGED <<priority_queue, served, overtaken>>
    /\ UNCHANGED <<entering, vip, takes>>

\* A full queue of low orders is not served.
LowLength(d) ==
    /\ server[d].pc = "low length"
    /\ LET n == Len(priority_queue[Low])
       IN  server' = [server EXCEPT ![d] =
             IF n > 0 /\ n < LowLimit THEN [@ EXCEPT !.pc = "low"] ELSE NoTake]
    /\ UNCHANGED <<priority_queue, entering, vip, served, takes, overtaken>>

DequeueLow(d) ==
    /\ server[d].pc = "low"
    /\ IF priority_queue[Low] # <<>>
       THEN /\ Pop(Low, 1) /\ Overtake(d, Low)
            /\ ReturnOrders(d, SubSeq(priority_queue[Low], 1, 1))
       ELSE ReturnOrders(d, <<>>) /\ UNCHANGED <<priority_queue, overtaken>>
    /\ UNCHANGED <<entering, vip, takes>>

Smallest(a, b) == IF a < b THEN a ELSE b
LowShare == IF TakeSize \div 10 = 0 THEN 1 ELSE TakeSize \div 10

\* dequeue_batch: each queue under its own lock, the low one up to its share.
BatchStep(d, pc, p, share) ==
    /\ server[d].pc = pc
    /\ LET n == Smallest(Smallest(Len(priority_queue[p]), TakeSize - Len(server[d].taken)), share)
           taken == server[d].taken \o SubSeq(priority_queue[p], 1, n)
       IN  /\ Pop(p, n)
           /\ IF n = 0 THEN UNCHANGED overtaken ELSE Overtake(d, p)
           /\ IF p = Low THEN ReturnOrders(d, taken)
              ELSE /\ server' = [server EXCEPT ![d].taken = taken,
                                  ![d].pc = IF p = Critical THEN "batch normal" ELSE "batch low"]
                   /\ UNCHANGED served
    /\ UNCHANGED <<entering, vip, takes>>

PriorityNext ==
    \/ AddVipUser
    \/ \E o \in PriorityOrders : CalculatePriority(o) \/ EnqueueOrder(o)
    \/ \E d \in Servers :
         \/ Begin(d, "start") \/ Begin(d, "batch critical")
         \/ DequeueUrgent(d) \/ LowLength(d) \/ DequeueLow(d)
         \/ BatchStep(d, "batch critical", Critical, TakeSize)
         \/ BatchStep(d, "batch normal", Normal, TakeSize)
         \/ BatchStep(d, "batch low", Low, LowShare)

PrioritySpec == PriorityInit /\ [][PriorityNext]_priorityVars
------------------------------------------------------------------------------
(* Properties. *)

Taken == UNION {{server[d].taken[i] : i \in DOMAIN server[d].taken} : d \in Servers}

PriorityTypeOK ==
    /\ AllWaiting \cup Taken \cup served \subseteq {o \in PriorityOrders : entering[o] = "queued"}
    /\ Len(priority_queue[Low]) <= LowLimit
    /\ \A d \in Servers : Len(server[d].taken) <= TakeSize

\* However calls that take orders and calls that add them interleave, nobody gets
\* an order while a more urgent one waits that was there before the call began
\* (batches included); and an accepted order is waiting or has been given to one
\* server, never lost and never given twice.
UrgentFirst ==
    /\ overtaken = {}
    /\ AllWaiting \cup Taken \cup served = {o \in PriorityOrders : entering[o] = "queued"}
    /\ AllWaiting \cap (Taken \cup served) = {} /\ Taken \cap served = {}
    /\ \A p, q \in {Critical, Normal, Low} :
         \A i \in DOMAIN priority_queue[p], j \in DOMAIN priority_queue[q] :
             priority_queue[p][i] = priority_queue[q][j] => p = q /\ i = j
=============================================================================
