----------------------------- MODULE DiffSession -----------------------------
(***************************************************************************)
(* WebSocket sessions of one user of the DIFF protocol                     *)
(* (src/src/service/websocket/diff_handler.rs), with the snapshot manager  *)
(* as PatchLog promises it and the broadcaster's channels that quotes come *)
(* through.  Only quotes, numbered, are told apart; a notice is a patch    *)
(* that does not matter, but its push makes a state as any push does.      *)
(*                                                                         *)
(* The handler of a request is a future of the session's actor and ends    *)
(* with it; peeks, the streams of quotes and the removal of the user are   *)
(* tasks of their own and go on.                                           *)
(***************************************************************************)
EXTENDS Integers, FiniteSets, SequencesExt

CONSTANTS
    DiffSessions,    \* sessions, each opened at most once
    Streams,         \* streams of the user; one that has ended is used again
    LogStates,       \* bound: 1..n, the snapshot states the user is given
    StreamCapacity,  \* channel_capacity
    Quotes           \* bound on the quotes

ASSUME DiffSessionAssumption ==
    /\ IsFiniteSet(DiffSessions) /\ IsFiniteSet(Streams)
    /\ LogStates \subseteq Nat \ {0} /\ IsFiniteSet(LogStates)
    /\ {StreamCapacity, Quotes} \subseteq Nat

VARIABLES
    session,       \* session[s]: [pc, user], user: user_id is set
    mailbox,       \* mailbox[s]: messages of the actor not yet handled
    request,       \* request[s]: step of the handler under way
    peeking,       \* peeking[s]: [pc, state] of the session's peek
    removing,      \* stopped sessions whose remove_user has not run
    log_state,     \* the user's entry of user_snapshots, 0 if absent
    log_states,    \* states made so far
    pending_quotes,\* pending_quotes[k]
    subscription,  \* streams that the broadcaster has under the user's id
    stream,        \* stream[r]: [channel, hand, state]
    quotes,        \* quotes broadcast so far
    client,        \* client[s]: quotes received
    lost,          \* history: quotes that nobody can receive any more
    crossed        \* history: a stream began while another had quotes

sessVars == <<session, mailbox, request, peeking, removing, log_state, log_states,
              pending_quotes, subscription, stream, quotes, client, lost, crossed>>

NoStream == [channel |-> <<>>, hand |-> 0, state |-> 0]
NoPeek == [pc |-> "none", state |-> 0]
SetUserId == <<0>>           \* any other message is the quotes of an answer

SessInit ==
    /\ session = [s \in DiffSessions |-> [pc |-> "new", user |-> FALSE]]
    /\ mailbox = [s \in DiffSessions |-> <<>>]
    /\ request = [s \in DiffSessions |-> "none"]
    /\ peeking = [s \in DiffSessions |-> NoPeek] /\ removing = {}
    /\ log_state = 0 /\ log_states = 0
    /\ pending_quotes = [k \in LogStates |-> <<>>]
    /\ subscription = {} /\ stream = [r \in Streams |-> NoStream]
    /\ quotes = 0
    /\ client = [s \in DiffSessions |-> <<>>]
    /\ lost = {} /\ crossed = FALSE

FindOrInsert ==
    IF log_state # 0
    THEN UNCHANGED <<log_state, log_states>>
    ELSE /\ log_states + 1 \in LogStates
         /\ log_states' = log_states + 1 /\ log_state' = log_states + 1

Open(s) == session[s].pc = "open"
------------------------------------------------------------------------------
(* The actor: its start, its messages, its end. *)

StartSession(s) ==
    /\ session[s].pc = "new"
    /\ session' = [session EXCEPT ![s].pc = "open"]
    /\ UNCHANGED <<mailbox, request, peeking, removing, log_state, log_states, pending_quotes,
                   subscription, stream, quotes, client, lost, crossed>>

HandleMessage(s) ==
    /\ Open(s) /\ mailbox[s] # <<>>
    /\ mailbox' = [mailbox EXCEPT ![s] = Tail(@)]
    /\ LET m == Head(mailbox[s])
       IN  IF m = SetUserId
           THEN session' = [session EXCEPT ![s].user = TRUE] /\ UNCHANGED client
           ELSE client' = [client EXCEPT ![s] = @ \o m] /\ UNCHANGED session
    /\ UNCHANGED <<request, peeking, removing, log_state, log_states, pending_quotes,
                   subscription, stream, quotes, lost, crossed>>

\* The client closes or does not answer pings: what the actor has not handled
\* and the handler under way are dropped; a user is removed by a task.
StopSession(s) ==
    /\ Open(s)
    /\ session' = [session EXCEPT ![s].pc = "stopped"]
    /\ mailbox' = [mailbox EXCEPT ![s] = <<>>]
    /\ request' = [request EXCEPT ![s] = "none"]
    /\ removing' = IF session[s].user THEN removing \cup {s} ELSE removing
    /\ lost' = lost \cup UNION {ToSet(mailbox[s][i]) \ {0} : i \in DOMAIN mailbox[s]}
    /\ UNCHANGED <<peeking, log_state, log_states, pending_quotes, subscription, stream, quotes,
                   client, crossed>>

\* Whatever state the user has by now goes, another session's too; a task that
\* has found it before keeps it.
RemoveUserTask(s) ==
    /\ s \in removing /\ removing' = removing \ {s}
    /\ log_state' = 0
    /\ UNCHANGED <<session, mailbox, request, peeking, log_states, pending_quotes, subscription,
                   stream, quotes, client, lost, crossed>>
------------------------------------------------------------------------------
(* Requests; without a user only a login is handled.  Bound: the client of *)
(* a session sends one after the other, not several at once.               *)

Request(s, from, to) ==
    /\ Open(s) /\ request[s] = from
    /\ request' = [request EXCEPT ![s] = to]

\* handle_login of a right password: the state, the message to the actor, and
\* later the notice.
Login(s) ==
    /\ Request(s, "none", "login")
    /\ ~session[s].user /\ mailbox[s] = <<>>
    /\ FindOrInsert
    /\ mailbox' = [mailbox EXCEPT ![s] = Append(@, SetUserId)]
    /\ UNCHANGED <<session, peeking, removing, pending_quotes, subscription, stream, quotes,
                   client, lost, crossed>>

LoginNotice(s) ==
    /\ Request(s, "login", "none")
    /\ FindOrInsert
    /\ UNCHANGED <<session, mailbox, peeking, removing, pending_quotes, subscription, stream,
                   quotes, client, lost, crossed>>

\* handle_subscribe_quote: two notices, then the subscription.
SubscribeQuote(s) ==
    /\ session[s].user /\ Request(s, "none", "subscribe")
    /\ FindOrInsert
    /\ UNCHANGED <<session, mailbox, peeking, removing, pending_quotes, subscription, stream,
                   quotes, client, lost, crossed>>

\* Mutant of Subscribed: the entry of the user's last stream stays.
SubscribedToo(r) == subscription \cup {r}
\* The user's id is the subscriber: a later stream replaces the entry.
Subscribed(r) == {r}

Busy(r) == stream[r].channel # <<>> \/ stream[r].hand # 0

StartStream(s, r) ==
    /\ \A q \in Streams : q \in subscription \/ Busy(q) => q # r
    /\ Request(s, "subscribe", "none")
    /\ FindOrInsert
    /\ subscription' = Subscribed(r)
    /\ crossed' = (crossed \/ \E q \in Streams : Busy(q))
    /\ UNCHANGED <<session, mailbox, peeking, removing, pending_quotes, stream, quotes, client,
                   lost>>

\* peek_message: the client waits for the answer before it peeks again.  A
\* user without a state is answered None at once.
PeekMessage(s) ==
    /\ Open(s) /\ session[s].user /\ peeking[s] = NoPeek /\ mailbox[s] = <<>>
    /\ log_state # 0
    /\ peeking' = [peeking EXCEPT ![s] =
         [pc |-> IF pending_quotes[log_state] # <<>> THEN "take" ELSE "wait", state |-> log_state]]
    /\ UNCHANGED <<session, mailbox, request, removing, log_state, log_states, pending_quotes,
                   subscription, stream, quotes, client, lost, crossed>>

\* The answer goes to the actor's mailbox, or nowhere if the actor is gone.
Answer(s, k) ==
    /\ peeking' = [peeking EXCEPT ![s] = NoPeek]
    /\ pending_quotes' = [pending_quotes EXCEPT ![k] = <<>>]
    /\ IF Open(s)
       THEN /\ mailbox' = [mailbox EXCEPT ![s] = Append(@, pending_quotes[k])]
            /\ UNCHANGED lost
       ELSE /\ lost' = lost \cup ToSet(pending_quotes[k])
            /\ UNCHANGED mailbox
    /\ UNCHANGED <<session, request, removing, log_state, log_states, subscription, stream,
                   quotes, client, crossed>>

\* Another peek may have been first: then the answer has no patch.
PeekTakes(s) == peeking[s].pc = "take" /\ Answer(s, peeking[s].state)

\* Woken by a push, the task looks the user up again.
PeekWoken(s) ==
    /\ peeking[s].pc = "wait"
    /\ log_state # 0 /\ pending_quotes[log_state] # <<>>
    /\ Answer(s, log_state)

\* After peek_timeout the client hears nothing; nor of quotes when there are
\* notices only, or when the user is gone at the waking.
PeekEnds(s) ==
    /\ peeking[s].pc = "wait"
    /\ peeking' = [peeking EXCEPT ![s] = NoPeek]
    /\ UNCHANGED <<session, mailbox, request, removing, log_state, log_states, pending_quotes,
                   subscription, stream, quotes, client, lost, crossed>>
------------------------------------------------------------------------------
(* Quotes: the broadcaster, and a task for every stream. *)

BroadcastQuote ==
    /\ quotes < Quotes /\ quotes' = quotes + 1
    /\ LET full == {r \in subscription : Len(stream[r].channel) >= StreamCapacity}
       IN  /\ stream' = [r \in Streams |->
                 IF r \in subscription \ full
                 THEN [stream[r] EXCEPT !.channel = Append(@, quotes + 1)] ELSE stream[r]]
           /\ lost' = IF subscription \subseteq full THEN lost \cup {quotes + 1} ELSE lost
    /\ UNCHANGED <<session, mailbox, request, peeking, removing, log_state, log_states,
                   pending_quotes, subscription, client, crossed>>

\* recv, and push_patch up to the state it finds.
StreamReceive(r) ==
    /\ stream[r].hand = 0 /\ stream[r].channel # <<>>
    /\ FindOrInsert
    /\ stream' = [stream EXCEPT ![r] = [channel |-> Tail(@.channel), hand |-> Head(@.channel),
                                        state |-> log_state']]
    /\ UNCHANGED <<session, mailbox, request, peeking, removing, pending_quotes, subscription,
                   quotes, client, lost, crossed>>

StreamPush(r) ==
    /\ stream[r].hand # 0
    /\ pending_quotes' = [pending_quotes EXCEPT ![stream[r].state] = Append(@, stream[r].hand)]
    /\ stream' = [stream EXCEPT ![r].hand = 0, ![r].state = 0]
    /\ UNCHANGED <<session, mailbox, request, peeking, removing, log_state, log_states,
                   subscription, quotes, client, lost, crossed>>

SessNext ==
    \/ \E s \in DiffSessions :
         \/ StartSession(s) \/ HandleMessage(s) \/ StopSession(s) \/ RemoveUserTask(s)
         \/ Login(s) \/ LoginNotice(s) \/ SubscribeQuote(s)
         \/ PeekMessage(s) \/ PeekTakes(s) \/ PeekWoken(s) \/ PeekEnds(s)
         \/ \E r \in Streams : StartStream(s, r)
    \/ BroadcastQuote
    \/ \E r \in Streams : StreamReceive(r) \/ StreamPush(r)

SessSpec == SessInit /\ [][SessNext]_sessVars
------------------------------------------------------------------------------
(* Properties. *)

SessTypeOK ==
    /\ log_state \in {0, log_states}
    /\ \A s \in DiffSessions : request[s] # "none" => Open(s)
    /\ \A r \in Streams : Len(stream[r].channel) <= StreamCapacity

\* What session s has received, and what is on its way through the mailbox.
Delivered(s) == client[s] \o SelectSeq(FlattenSeq(mailbox[s]), LAMBDA q : q # 0)
Waiting(r) == ToSet(stream[r].channel) \cup ({stream[r].hand} \ {0})
Places(n) ==
    Cardinality({s \in DiffSessions : n \in ToSet(Delivered(s))})
    + Cardinality({r \in Streams : n \in Waiting(r)})
    + Cardinality({k \in LogStates : n \in ToSet(pending_quotes[k])})
    + (IF n \in lost THEN 1 ELSE 0)

\* A quote is in one place: on its way in one stream, waiting for one peek,
\* delivered to one session, or lost; it never reaches two sessions or comes
\* twice, whoever logs in, subscribes again, stops or is removed meanwhile.
\* And a session gets its quotes in order, unless a stream was replaced before
\* it was empty.
QuotesDelivered ==
    /\ \A n \in 1..quotes : Places(n) = 1
    /\ \A s \in DiffSessions :
         LET d == Delivered(s)
         IN  /\ Cardinality(ToSet(d)) = Len(d)
             /\ ~crossed => \A i \in 2..Len(d) : d[i - 1] < d[i]
=============================================================================
