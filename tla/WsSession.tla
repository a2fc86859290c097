----------------------------- MODULE WsSession ------------------------------
(***************************************************************************)
(* The sessions of the older WebSocket protocol (service/websocket:        *)
(* session.rs, handler.rs) with the broadcaster that feeds them            *)
(* (market/broadcaster.rs): subscriptions that replace each other, bounded *)
(* channels, listeners on timers that throw away what has piled up, and    *)
(* one handler thread that answers the requests of all sessions.           *)
(*                                                                         *)
(* Events are numbered as they are broadcast.  Channels of the protocol    *)
(* ("tick", "orderbook") are not told apart: a session names instruments,  *)
(* none of them meaning all.                                               *)
(***************************************************************************)
EXTENDS Integers, FiniteSets, SequencesExt

CONSTANTS
    WsSessions, Quoted,        \* sessions, instruments
    ChannelCapacity,           \* of the channel of a subscriber (10000)
    Backlog,                   \* from which a listener drops one half (500)
    PollBatch,                 \* events a listener takes at a time (100)
    SlowLimit,                 \* failures in a row that mark a subscriber (5)
    EventLimit, SubscribeLimit, RequestLimit

ASSUME WsAssumption ==
    /\ IsFiniteSet(WsSessions) /\ IsFiniteSet(Quoted)
    /\ {ChannelCapacity, Backlog, PollBatch, SlowLimit} \subseteq Nat \ {0}
    /\ {EventLimit, SubscribeLimit, RequestLimit} \subseteq Nat

VARIABLES
    connection,         \* connection[s]: "new", "open" or "stopped"; the map of
                        \* sessions has those that are open
    authenticated,
    listed,             \* listed[s]: subscribed_instruments of the session
    subscriber,         \* subscriber[s]: what the broadcaster has of it
    channels,           \* channels[s]: what waits, one channel per Subscribe
    turn,               \* turn[s]: the channels in the order of their timers
    pending_cleanup, disconnected,
    event_count, due,   \* due[s]: events that were meant for it
    dropped, shown,     \* those counted as dropped, those sent to the client
    crowded,            \* sessions that subscribed again with much left to read
    inbox, handling,    \* messages <<s, n>> for the handler, and the one in hand
    asked, answered     \* per session: number of requests, answers in order

wsVars == <<connection, authenticated, listed, subscriber, channels, turn, pending_cleanup,
            disconnected, event_count, due, dropped, shown, crowded, inbox, handling, asked,
            answered>>
feed == <<event_count, due, dropped, shown>>
requestVars == <<inbox, handling, asked, answered>>

NoSubscriber == [on |-> FALSE, instruments |-> {}, failures |-> 0]
Each(x) == [s \in WsSessions |-> x]
WsInit ==
    /\ connection = Each("new") /\ authenticated = {} /\ listed = Each({})
    /\ subscriber = Each(NoSubscriber) /\ channels = Each(<<>>) /\ turn = Each(<<>>)
    /\ pending_cleanup = {} /\ disconnected = {} /\ crowded = {}
    /\ event_count = 0 /\ due = Each({}) /\ dropped = Each({}) /\ shown = Each(<<>>)
    /\ inbox = <<>> /\ handling = <<>> /\ asked = Each(0) /\ answered = Each(<<>>)
------------------------------------------------------------------------------
(* The session. *)

StartSession(s) ==
    /\ connection[s] = "new" /\ connection' = [connection EXCEPT ![s] = "open"]
    /\ UNCHANGED <<authenticated, listed, subscriber, channels, turn, pending_cleanup,
                   disconnected, crowded, feed, requestVars>>

\* By the client, or because it was not heard of for too long.  The broadcaster
\* is not told; what the listeners held is gone with them.
StopSession(s) ==
    /\ connection[s] = "open" /\ connection' = [connection EXCEPT ![s] = "stopped"]
    /\ channels' = [channels EXCEPT ![s] = [k \in DOMAIN @ |-> <<>>]]
    /\ UNCHANGED <<authenticated, listed, subscriber, turn, pending_cleanup, disconnected,
                   crowded, feed, requestVars>>

Authenticate(s) ==
    /\ connection[s] = "open" /\ s \notin authenticated
    /\ authenticated' = authenticated \cup {s}
    /\ UNCHANGED <<connection, listed, subscriber, channels, turn, pending_cleanup,
                   disconnected, crowded, feed, requestVars>>

\* The session adds to its list; the broadcaster gets a new subscriber for what
\* this message names.  Older listeners go on with what is left for them.
HandleSubscribe(s) ==
    /\ connection[s] = "open" /\ Len(channels[s]) < SubscribeLimit
    /\ \E instruments \in SUBSET Quoted :
         /\ listed' = [listed EXCEPT ![s] = @ \cup instruments]
         /\ subscriber' = [subscriber EXCEPT ![s] =
               [on |-> TRUE, instruments |-> instruments, failures |-> 0]]
    /\ channels' = [channels EXCEPT ![s] = Append(@, <<>>)]
    /\ turn' = [turn EXCEPT ![s] = Append(@, Len(channels[s]) + 1)]
    /\ crowded' = crowded \cup {x \in {s} : \E k \in DOMAIN channels[s] :
                                              Len(channels[s][k]) > PollBatch}
    /\ UNCHANGED <<connection, authenticated, pending_cleanup, disconnected, feed, requestVars>>

\* The broadcaster hears of it when nothing is left.
HandleUnsubscribe(s) ==
    /\ connection[s] = "open"
    /\ \E instruments \in SUBSET Quoted :
         LET left == listed[s] \ instruments IN
         /\ listed' = [listed EXCEPT ![s] = left]
         /\ subscriber' = IF left = {} THEN [subscriber EXCEPT ![s] = NoSubscriber]
                          ELSE subscriber
         /\ pending_cleanup' = pending_cleanup \ {x \in {s} : left = {}}
    /\ UNCHANGED <<connection, authenticated, channels, turn, disconnected, crowded, feed,
                   requestVars>>

\* The timers of a session go off in turn.  A listener drops one half of a
\* backlog, and sends what it takes of the rest in one message.
Poll(s) ==
    LET k      == Head(turn[s])
        queue  == channels[s][k]
        cut    == IF Len(queue) > Backlog THEN Len(queue) \div 2 ELSE 0
        taken  == IF Len(queue) - cut < PollBatch THEN Len(queue) ELSE cut + PollBatch
    IN  /\ connection[s] = "open" /\ turn[s] # <<>>
        /\ dropped' = [dropped EXCEPT ![s] = @ \cup ToSet(SubSeq(queue, 1, cut))]
        /\ shown' = [shown EXCEPT ![s] = @ \o SubSeq(queue, cut + 1, taken)]
        /\ channels' = [channels EXCEPT ![s][k] = SubSeq(queue, taken + 1, Len(queue))]
        /\ turn' = [turn EXCEPT ![s] = Append(Tail(@), k)]
        /\ UNCHANGED <<connection, authenticated, listed, subscriber, pending_cleanup,
                       disconnected, crowded, event_count, due, requestVars>>
------------------------------------------------------------------------------
(* The broadcaster.  What one subscriber is sent does not depend on others,  *)
(* so that a broadcast, which visits them one by one, is one step.           *)

HasAskedFor(s, i) ==
    subscriber[s].on /\ (subscriber[s].instruments = {} \/ i \in subscriber[s].instruments)
IsFull(s) == Len(Last(channels[s])) >= ChannelCapacity

Broadcast ==
    /\ event_count < EventLimit /\ event_count' = event_count + 1
    /\ \E i \in Quoted :
         LET to    == {s \in WsSessions : HasAskedFor(s, i)}
             gone  == {s \in to : connection[s] = "stopped"}
             full  == {s \in to \ gone : IsFull(s)}
             slow  == {s \in full : subscriber[s].failures + 1 >= SlowLimit}
             taken == to \ (gone \cup full)
         IN  /\ channels' = [s \in WsSessions |->
                   IF s \in taken
                   THEN [channels[s] EXCEPT ![Len(channels[s])] = Append(@, event_count + 1)]
                   ELSE channels[s]]
             /\ subscriber' = [s \in WsSessions |->
                   IF s \in taken THEN [subscriber[s] EXCEPT !.failures = 0]
                   ELSE IF s \in full THEN [subscriber[s] EXCEPT !.failures = @ + 1]
                   ELSE subscriber[s]]
             /\ pending_cleanup' = pending_cleanup \cup gone \cup slow
             /\ due' = [s \in WsSessions |->
                   due[s] \cup {n \in {event_count + 1} : s \in to \ gone}]
             /\ dropped' = [s \in WsSessions |->
                   dropped[s] \cup {n \in {event_count + 1} : s \in full}]
    /\ UNCHANGED <<connection, authenticated, listed, turn, disconnected, shown, crowded,
                   requestVars>>

\* Called by whoever keeps the broadcaster; in src/ only a test does.  A session
\* that has subscribed again since it was marked is removed as well.
CleanupSlowSubscribers ==
    /\ pending_cleanup # {} /\ pending_cleanup' = {}
    /\ subscriber' = [s \in WsSessions |-> IF s \in pending_cleanup THEN NoSubscriber
                                           ELSE subscriber[s]]
    /\ disconnected' = disconnected \cup pending_cleanup
    /\ UNCHANGED <<connection, authenticated, listed, channels, turn, crowded, feed,
                   requestVars>>
------------------------------------------------------------------------------
(* Requests: orders, cancellations and queries. *)

\* Without authentication the session answers with an error itself.
Request(s) ==
    /\ connection[s] = "open" /\ s \in authenticated /\ asked[s] < RequestLimit
    /\ asked' = [asked EXCEPT ![s] = @ + 1]
    /\ inbox' = Append(inbox, <<s, asked[s] + 1>>)
    /\ UNCHANGED <<connection, authenticated, listed, subscriber, channels, turn,
                   pending_cleanup, disconnected, crowded, feed, handling, answered>>

\* A request of a session that has stopped is dropped before the router sees it.
TakeMessage ==
    /\ inbox # <<>> /\ handling = <<>>
    /\ inbox' = Tail(inbox)
    /\ handling' = IF connection[Head(inbox)[1]] = "open" THEN Head(inbox) ELSE <<>>
    /\ UNCHANGED <<connection, authenticated, listed, subscriber, channels, turn,
                   pending_cleanup, disconnected, crowded, feed, asked, answered>>

\* The router has been called; every way through it sends one answer.
AnswerMessage ==
    /\ handling # <<>> /\ handling' = <<>>
    /\ answered' = IF connection[handling[1]] = "open"
                   THEN [answered EXCEPT ![handling[1]] = Append(@, handling[2])]
                   ELSE answered
    /\ UNCHANGED <<connection, authenticated, listed, subscriber, channels, turn,
                   pending_cleanup, disconnected, crowded, feed, inbox, asked>>

WsNext ==
    \/ Broadcast \/ CleanupSlowSubscribers \/ TakeMessage \/ AnswerMessage
    \/ \E s \in WsSessions :
         \/ StartSession(s) \/ StopSession(s) \/ Authenticate(s) \/ HandleSubscribe(s)
         \/ HandleUnsubscribe(s) \/ Poll(s) \/ Request(s)
WsSpec == WsInit /\ [][WsNext]_wsVars
------------------------------------------------------------------------------
(* Properties. *)

\* A subscriber of the broadcaster has a channel, and every channel a timer.
WsTypeOK ==
    \A s \in WsSessions :
      /\ subscriber[s].on => channels[s] # <<>>
      /\ ToSet(turn[s]) = DOMAIN channels[s] /\ Len(turn[s]) = Len(channels[s])
      /\ \A k \in DOMAIN channels[s] : Len(channels[s][k]) <= ChannelCapacity

Increasing(q) == \A j, k \in DOMAIN q : j < k => q[j] < q[k]

\* A client sees events in the order of their broadcast and none twice, across
\* its subscriptions, unless one came while more waited than a listener takes at
\* a time.  What it was to see it has seen, it waits or it is counted.
MarketInOrder ==
    \A s \in WsSessions :
      /\ s \notin crowded => Increasing(shown[s])
      /\ connection[s] = "open" =>
           due[s] = ToSet(shown[s]) \cup dropped[s]
                    \cup UNION {ToSet(channels[s][k]) : k \in DOMAIN channels[s]}

\* Whatever it has unsubscribed from, the broadcaster still sends an open session
\* what it lists: not claimed once it has subscribed a second time, which
\* replaces the first, or was disconnected as slow.
ListedAreSent ==
    \A s \in WsSessions :
      (connection[s] = "open" /\ Len(channels[s]) <= 1 /\ s \notin disconnected) =>
        \A i \in listed[s] : HasAskedFor(s, i)

\* The answers to a session come in the order of its requests, and none of an
\* open session is lost.
AnswersInOrder ==
    \A s \in WsSessions :
      /\ Increasing(answered[s])
      /\ connection[s] = "open" =>
           1..asked[s] = ToSet(answered[s])
                         \cup {m[2] : m \in {m \in ToSet(inbox) \cup {handling} :
                                               m # <<>> /\ m[1] = s}}
=============================================================================
