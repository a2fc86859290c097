---------------------------- MODULE Notifications ----------------------------
(***************************************************************************)
(* From a published notification to WebSocket sessions and to the disk:    *)
(* NotificationBroker (notification/broker.rs), NotificationGateway        *)
(* (notification/gateway.rs) and StorageSubscriber (storage/subscriber.rs) *)
(* of src/src.                                                             *)
(*                                                                         *)
(* A notification is a model value; its user, priority, channel and        *)
(* instrument are functions of it.  Channels between tasks are unbounded   *)
(* sequences.  A write of the storage may fail.                            *)
(***************************************************************************)
EXTENDS Integers, FiniteSets, Sequences

CONSTANTS
    Notes, Users, Gateways, Sessions, Channels, Instruments, NoInstrument,
    UserOf, PriorityOf, ChannelOf,
    InstrumentOf,   \* NoInstrument: convert_notification returns None
    SessionUser, SessionGateway,  \* whom and where a session registers
    QueueCapacity,  \* capacity of each priority queue
    Quota,          \* entries of a priority taken per tick; -1: all of them
    CacheLimit,     \* ids the duplicate cache keeps (10000)
    GatewayBatch, StorageBatch,
    Attempts,       \* bound on calls of publish per notification
    Changes         \* bound on registrations and subscriptions

Priorities == 0..3

ASSUME NotificationsAssumption ==
    /\ IsFiniteSet(Notes) /\ NoInstrument \notin Instruments
    /\ UserOf \in [Notes -> Users]
    /\ PriorityOf \in [Notes -> Priorities]
    /\ ChannelOf \in [Notes -> Channels]
    /\ InstrumentOf \in [Notes -> Instruments \cup {NoInstrument}]
    /\ SessionUser \in [Sessions -> Users]
    /\ SessionGateway \in [Sessions -> Gateways]
    /\ QueueCapacity \in [Priorities -> Nat \ {0}]
    /\ Quota \in [Priorities -> {-1} \cup (Nat \ {0})]
    /\ {CacheLimit, GatewayBatch, StorageBatch, Attempts, Changes}
         \subseteq Nat \ {0}

VARIABLES
    published,        \* calls of publish so far, per notification
    dedup_cache, priority_queues,
    user_gateways,    \* user_gateways[u]: sequence of gateway ids
    gateway_senders,  \* gateways that are registered
    processor,        \* the priority served and what is left of its quota
    gateway_channel, gateway_batch,
    sessions,         \* registered sessions
    user_sessions,    \* user_sessions[u]: sequence of session ids
    subscriptions,    \* channels a session has asked for
    received,         \* received[s]: what a session has been sent
    storage_channel, batch_buffer,
    stored,           \* stored[i]: written to the storage of instrument i
    write_errors,     \* notifications of batches whose write failed
    accepted,         \* history: notifications queued, in order
    changes           \* registrations and subscriptions so far

brokerVars == <<published, dedup_cache, priority_queues, accepted>>
routeVars == <<user_gateways, gateway_senders>>
gatewayVars == <<gateway_channel, gateway_batch, received>>
sessionVars == <<sessions, user_sessions, subscriptions>>
storageVars == <<storage_channel, batch_buffer, stored, write_errors>>
noteVars == <<brokerVars, routeVars, processor, gatewayVars, sessionVars, storageVars,
              changes>>
Change == changes < Changes /\ changes' = changes + 1

Members(q) == {q[i] : i \in DOMAIN q}
Without(q, x) == SelectSeq(q, LAMBDA y : y # x)

NotesInit ==
    /\ published = [m \in Notes |-> 0]
    /\ dedup_cache = {}
    /\ priority_queues = [p \in Priorities |-> <<>>]
    /\ user_gateways = [u \in Users |-> <<>>]
    /\ gateway_senders = {}
    /\ processor = [level |-> 0, left |-> Quota[0]]
    /\ gateway_channel = [g \in Gateways |-> <<>>]
    /\ gateway_batch = [g \in Gateways |-> <<>>]
    /\ sessions = {}
    /\ user_sessions = [u \in Users |-> <<>>]
    /\ subscriptions = [s \in Sessions |-> {}]
    /\ received = [s \in Sessions |-> <<>>]
    /\ storage_channel = <<>>
    /\ batch_buffer = <<>>
    /\ stored = [i \in Instruments |-> <<>>]
    /\ write_errors = {}
    /\ accepted = <<>>
    /\ changes = 0
------------------------------------------------------------------------------
(* NotificationBroker. *)

\* is_duplicate: a new id goes into the cache; a cache over its limit drops
\* half of its ids, whichever the hash order gives, perhaps the new one.
\* Mutant of CacheAfter: there is no limit.
CacheUnlimited(m) == {dedup_cache \cup {m}}
CacheAfter(m) ==
    LET cache == dedup_cache \cup {m} IN
    IF Cardinality(cache) <= CacheLimit THEN {cache}
    ELSE {cache \ drop : drop \in
            {d \in SUBSET cache : Cardinality(d) = (CacheLimit + 1) \div 2}}

\* publish, the outcomes duplicate, queue full and queued.  The id is in the
\* cache even when the queue is full.
Publish(m) ==
    LET p == PriorityOf[m] IN
    /\ published[m] < Attempts
    /\ published' = [published EXCEPT ![m] = @ + 1]
    /\ \/ /\ m \in dedup_cache
          /\ UNCHANGED <<dedup_cache, priority_queues, accepted>>
       \/ /\ m \notin dedup_cache
          /\ dedup_cache' \in CacheAfter(m)
          /\ IF Len(priority_queues[p]) < QueueCapacity[p]
             THEN /\ priority_queues' = [priority_queues EXCEPT ![p] = Append(@, m)]
                  /\ accepted' = Append(accepted, m)
             ELSE UNCHANGED <<priority_queues, accepted>>
    /\ UNCHANGED <<routeVars, processor, gatewayVars, sessionVars, storageVars, changes>>

\* A message goes to the gateway once for every time the user was subscribed.
\* Mutant of Copies: the channel gets the message in front.
CopiesInFront(g, m) ==
    [i \in 1..Cardinality({j \in DOMAIN user_gateways[UserOf[m]] :
                             user_gateways[UserOf[m]][j] = g}) |-> m] \o gateway_channel[g]
Copies(g, m) ==
    gateway_channel[g] \o
        [i \in 1..Cardinality({j \in DOMAIN user_gateways[UserOf[m]] :
                                 user_gateways[UserOf[m]][j] = g}) |-> m]

\* route_notification: the user's gateways, then the global subscriber, which
\* is the storage.
RouteNotification(m) ==
    /\ gateway_channel' = [g \in Gateways |->
                             IF g \in gateway_senders THEN Copies(g, m)
                             ELSE gateway_channel[g]]
    /\ storage_channel' = Append(storage_channel, m)

\* start_priority_processor: one entry of the priority being served.
ProcessEntry ==
    LET p == processor.level IN
    /\ priority_queues[p] # <<>> /\ processor.left # 0
    /\ priority_queues' = [priority_queues EXCEPT ![p] = Tail(@)]
    /\ processor' = [processor EXCEPT !.left = IF @ < 0 THEN @ ELSE @ - 1]
    /\ RouteNotification(Head(priority_queues[p]))
    /\ UNCHANGED <<published, dedup_cache, accepted, routeVars, gateway_batch, received,
                   sessionVars, batch_buffer, stored, write_errors, changes>>

\* The next priority; after the last one the next tick.
\* Mutant of NextLevel: the last priority is not served.
NextLevelSkipping(p) == IF p >= 2 THEN 0 ELSE p + 1
NextLevel(p) == IF p = 3 THEN 0 ELSE p + 1
ProcessNextPriority ==
    /\ priority_queues[processor.level] = <<>> \/ processor.left = 0
    /\ processor' = [level |-> NextLevel(processor.level),
                     left |-> Quota[NextLevel(processor.level)]]
    /\ UNCHANGED <<brokerVars, routeVars, gatewayVars, sessionVars, storageVars, changes>>

RegisterGateway(g) ==
    /\ Change
    /\ g \notin gateway_senders
    /\ gateway_channel[g] = <<>> /\ gateway_batch[g] = <<>>
    /\ gateway_senders' = gateway_senders \cup {g}
    /\ UNCHANGED <<brokerVars, user_gateways, processor, gatewayVars, sessionVars,
                   storageVars>>

\* The sender is dropped and with it the gateway's subscriptions.  The pusher
\* empties the channel and stops: what its batch holds is not pushed.
UnregisterGateway(g) ==
    /\ Change
    /\ g \in gateway_senders
    /\ gateway_senders' = gateway_senders \ {g}
    /\ user_gateways' = [u \in Users |-> Without(user_gateways[u], g)]
    /\ UNCHANGED <<brokerVars, processor, gatewayVars, sessionVars, storageVars>>

\* subscribe does not look whether the gateway is there already.
Subscribe(u, g) ==
    /\ Change
    /\ Len(user_gateways[u]) < 2
    /\ user_gateways' = [user_gateways EXCEPT ![u] = Append(@, g)]
    /\ UNCHANGED <<brokerVars, gateway_senders, processor, gatewayVars, sessionVars,
                   storageVars>>

Unsubscribe(u, g) ==
    /\ Change
    /\ user_gateways' = [user_gateways EXCEPT ![u] = Without(@, g)]
    /\ UNCHANGED <<brokerVars, gateway_senders, processor, gatewayVars, sessionVars,
                   storageVars>>
------------------------------------------------------------------------------
(* NotificationGateway. *)

\* A session id registered again is put into the user's index again.
RegisterSession(s) ==
    /\ Change
    /\ Len(user_sessions[SessionUser[s]]) < 2
    /\ sessions' = sessions \cup {s}
    /\ subscriptions' = [subscriptions EXCEPT ![s] = {}]
    /\ user_sessions' = [user_sessions EXCEPT ![SessionUser[s]] = Append(@, s)]
    /\ UNCHANGED <<brokerVars, routeVars, processor, gatewayVars, storageVars>>

\* unregister_session, by the connection or by the heartbeat checker.
UnregisterSession(s) ==
    /\ Change
    /\ s \in sessions
    /\ sessions' = sessions \ {s}
    /\ user_sessions' = [user_sessions EXCEPT ![SessionUser[s]] = Without(@, s)]
    /\ UNCHANGED <<brokerVars, routeVars, processor, gatewayVars, subscriptions,
                   storageVars>>

\* subscribe_channels, unsubscribe_channel and unsubscribe_all.
ChangeSubscriptions(s) ==
    /\ Change
    /\ s \in sessions
    /\ \E channels \in SUBSET Channels :
         subscriptions' = [subscriptions EXCEPT ![s] = channels]
    /\ UNCHANGED <<brokerVars, routeVars, processor, gatewayVars, sessions, user_sessions,
                   storageVars>>

Wants(s, m) == subscriptions[s] = {} \/ ChannelOf[m] \in subscriptions[s]

\* push_notification of a sequence of messages: every session of the user that
\* wants a message is sent it, once for every time it is in the index.
Push(g, notes) ==
    received' = [s \in Sessions |->
        IF s \notin sessions \/ SessionGateway[s] # g THEN received[s]
        ELSE LET u == SessionUser[s]
                 times == Cardinality({j \in DOMAIN user_sessions[u] :
                                         user_sessions[u][j] = s})
                 mine == SelectSeq(notes, LAMBDA m : UserOf[m] = u /\ Wants(s, m))
             IN  received[s] \o
                   [k \in 1..(Len(mine) * times) |-> mine[1 + ((k - 1) \div times)]]]

\* start_notification_pusher: a P0 message at once, the others by batches.
PusherReceive(g) ==
    LET m == Head(gateway_channel[g])
        batch == Append(gateway_batch[g], m)
    IN  /\ gateway_channel[g] # <<>>
        /\ gateway_channel' = [gateway_channel EXCEPT ![g] = Tail(@)]
        /\ IF PriorityOf[m] = 0
           THEN Push(g, <<m>>) /\ UNCHANGED gateway_batch
           ELSE IF Len(batch) >= GatewayBatch
           THEN Push(g, batch) /\ gateway_batch' = [gateway_batch EXCEPT ![g] = <<>>]
           ELSE /\ gateway_batch' = [gateway_batch EXCEPT ![g] = batch]
                /\ UNCHANGED received
        /\ UNCHANGED <<brokerVars, routeVars, processor, sessionVars, storageVars, changes>>

PusherTick(g) ==
    /\ g \in gateway_senders \/ gateway_channel[g] # <<>>
    /\ gateway_batch[g] # <<>>
    /\ Push(g, gateway_batch[g])
    /\ gateway_batch' = [gateway_batch EXCEPT ![g] = <<>>]
    /\ UNCHANGED <<brokerVars, routeVars, processor, gateway_channel, sessionVars,
                   storageVars, changes>>

\* The channel is closed and empty: the pusher ends with its batch unsent.
PusherStop(g) ==
    /\ g \notin gateway_senders
    /\ gateway_channel[g] = <<>> /\ gateway_batch[g] # <<>>
    /\ gateway_batch' = [gateway_batch EXCEPT ![g] = <<>>]
    /\ UNCHANGED <<brokerVars, routeVars, processor, gateway_channel, received,
                   sessionVars, storageVars, changes>>
------------------------------------------------------------------------------
(* StorageSubscriber. *)

\* flush_batch: grouped by instrument, each group written or lost as a whole.
FlushBatch(batch) ==
    LET Group(i) == SelectSeq(batch, LAMBDA m : InstrumentOf[m] = i) IN
    \E failing \in SUBSET {i \in Instruments : Group(i) # <<>>} :
        /\ stored' = [i \in Instruments |->
                        IF i \in failing THEN stored[i] ELSE stored[i] \o Group(i)]
        /\ write_errors' = write_errors \cup
             UNION {Members(Group(i)) : i \in failing}

SubscriberReceive ==
    LET batch == Append(batch_buffer, Head(storage_channel)) IN
    /\ storage_channel # <<>>
    /\ storage_channel' = Tail(storage_channel)
    /\ IF Len(batch) >= StorageBatch
       THEN FlushBatch(batch) /\ batch_buffer' = <<>>
       ELSE batch_buffer' = batch /\ UNCHANGED <<stored, write_errors>>
    /\ UNCHANGED <<brokerVars, routeVars, processor, gatewayVars, sessionVars, changes>>

TimerFlush ==
    /\ batch_buffer # <<>>
    /\ FlushBatch(batch_buffer)
    /\ batch_buffer' = <<>>
    /\ UNCHANGED <<brokerVars, routeVars, processor, gatewayVars, sessionVars,
                   storage_channel, changes>>

ProcessorStep == ProcessEntry \/ ProcessNextPriority
NotesNext ==
    \/ \E m \in Notes : Publish(m)
    \/ ProcessorStep
    \/ \E g \in Gateways : RegisterGateway(g) \/ UnregisterGateway(g)
    \/ \E u \in Users, g \in Gateways : Subscribe(u, g) \/ Unsubscribe(u, g)
    \/ \E s \in Sessions :
         RegisterSession(s) \/ UnregisterSession(s) \/ ChangeSubscriptions(s)
    \/ \E g \in Gateways : PusherReceive(g) \/ PusherTick(g) \/ PusherStop(g)
    \/ SubscriberReceive \/ TimerFlush

\* The processor and the storage subscriber are tasks of their own; each runs
\* again after every step of another.
NotesFairness ==
    /\ WF_noteVars(ProcessorStep)
    /\ WF_noteVars(SubscriberReceive)
    /\ WF_noteVars(TimerFlush)

NotesSpec == NotesInit /\ [][NotesNext]_noteVars /\ NotesFairness
------------------------------------------------------------------------------
(* Properties. *)

NotesTypeOK ==
    /\ dedup_cache \subseteq Notes
    /\ \A p \in Priorities :
         /\ priority_queues[p] \in Seq(Notes)
         /\ Len(priority_queues[p]) <= QueueCapacity[p]
         /\ \A m \in Members(priority_queues[p]) : PriorityOf[m] = p
    /\ Cardinality(dedup_cache) <= CacheLimit
    /\ processor.left <= Quota[processor.level]

\* Position of the first acceptance of a message.
FirstAccepted(m) == CHOOSE i \in DOMAIN accepted :
    accepted[i] = m /\ \A j \in 1..(i - 1) : accepted[j] # m
AcceptedTwice == \E i, j \in DOMAIN accepted : i < j /\ accepted[i] = accepted[j]
InAcceptedOrder(q) ==
    \A i, j \in DOMAIN q :
        (i < j /\ PriorityOf[q[i]] = PriorityOf[q[j]]) =>
            FirstAccepted(q[i]) <= FirstAccepted(q[j])

\* Of one priority, a session is sent and an instrument's storage is written
\* older messages before newer ones, whatever batches, double subscriptions
\* and re-registrations do, unless the duplicate cache let one in twice.
SameOrderEverywhere ==
    ~AcceptedTwice =>
        /\ \A s \in Sessions : InAcceptedOrder(received[s])
        /\ \A i \in Instruments : InAcceptedOrder(stored[i])

\* A message that publish has taken is written to its instrument's storage or
\* its batch is counted as an error: no queue, quota or half-full batch keeps
\* it for ever.
AcceptedIsStored ==
    \A m \in {n \in Notes : InstrumentOf[n] # NoInstrument} :
        m \in Members(accepted)
            ~> m \in write_errors \cup Members(stored[InstrumentOf[m]])
=============================================================================
