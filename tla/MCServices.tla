----------------------------- MODULE MCServices -----------------------------
(***************************************************************************)
(* Instances for TLC of the services around the order router.  They share  *)
(* no state: a behaviour is one of one part, chosen at the start, and the  *)
(* other parts rest in a state where they have nothing to do.              *)
(***************************************************************************)
EXTENDS Notifications, DiffSnapshot, JsonMerge, CallAuction, ConditionalOrders,
        Conversion, Capital, Settlement, RiskMonitor, WsSession, TLC

CONSTANTS Parts, m0, m1, m2, m3, m4, u1, g1, s1, c1, c2, i1, o1, o2, a1, a2

VARIABLE part
vars == <<part, noteVars, diffVars, jsonVars, auctionVars, condVars, convVars, capVars,
          settleVars, riskVars, wsVars>>

\* One user with one session at one gateway.  m0 is urgent and m3 and m4 are
\* about no instrument; m1 and m2 share a queue of one place.
MCNotes == {m0, m1, m2, m3, m4}
MCUserOf == [m \in MCNotes |-> u1]
MCPriorityOf == [m \in MCNotes |-> IF m = m0 THEN 0 ELSE 3]
MCChannelOf == [m \in MCNotes |-> IF m \in {m0, m3} THEN c1 ELSE c2]
MCInstrumentOf == [m \in MCNotes |-> IF m \in {m1, m2} THEN i1 ELSE NoInstrument]
MCSessionUser == s1 :> u1
MCSessionGateway == s1 :> g1
MCQueueCapacity == [p \in 0..3 |-> 1]
MCQuota == [p \in 0..3 |-> IF p < 2 THEN -1 ELSE 1]

\* o1 triggers above its price or expires, o2 triggers below.
MCTriggerPrice == o1 :> 2 @@ o2 :> 1
MCRising == o1 :> TRUE @@ o2 :> FALSE

MCHolderOf == [a \in {a1, a2} |-> u1]

\* Small books for the auction, with prices in the order they arrive in.
Books(n) == UNION {[1..k -> [price : 1..3, volume : 1..2]] : k \in 0..n}
Later == {Leaf(1), EmptyObject, Object("a" :> Leaf(1)),
          Object("a" :> Object("a" :> Leaf(2)) @@ "b" :> Leaf(1))}

Pick(name, set, other) == IF part = name THEN set ELSE {other}

Init ==
    /\ part \in Parts
    /\ NotesInit /\ DiffInit /\ CondInit /\ ConvInit /\ CapInit /\ SettleInit /\ RiskInit
    /\ WsInit
    /\ part # "settlement" => \A a \in SettleAccounts : hold[a] = {}
    /\ original \in Pick("json", JsonValues({"a", "b"}, {"a"}, {1, 2}), Null)
    /\ updated \in Pick("json", JsonValues({"a", "b"}, {"a"}, {1, 2}), Null)
    /\ later \in Pick("json", Later, Null)
    /\ buy_orders \in Pick("auction", Books(2), <<>>)
    /\ sell_orders \in Pick("auction", Books(2), <<>>)
    /\ reference_price \in Pick("auction", {NoReference, 2}, NoReference)

\* The notifications are two parts, because the storage and the gateways get
\* their messages apart: one without changes of gateways and sessions, one of
\* messages that no storage keeps, after the gateway has started and the user
\* has logged in.
StorageNext ==
    /\ NotesNext
    /\ changes' = changes
    /\ \A m \in {m2, m3} : published'[m] <= 1
    /\ published'[m0] = 0 /\ published'[m4] = 0
GatewayNext ==
    /\ NotesNext
    /\ changes = 0 => gateway_senders' = {g1}
    /\ changes = 1 => user_gateways'[u1] = <<g1>>
    /\ changes = 2 => sessions' = {s1}
    /\ published'[m1] = 0 /\ published'[m2] = 0
    /\ published'[m0] + published'[m3] + published'[m4] <= 2
    /\ batch_buffer' = batch_buffer
    /\ Len(storage_channel') >= Len(storage_channel)

\* A session either makes requests or listens to the market.
SocketsNext == WsNext /\ (authenticated' = {} \/ channels' = Each(<<>>))

Next ==
    /\ UNCHANGED <<part, jsonVars, auctionVars>>
    /\ \/ part = "storage" /\ StorageNext
          /\ UNCHANGED <<diffVars, condVars, convVars, capVars, settleVars, riskVars, wsVars>>
       \/ part = "gateway" /\ GatewayNext
          /\ UNCHANGED <<diffVars, condVars, convVars, capVars, settleVars, riskVars, wsVars>>
       \/ part = "diff" /\ DiffNext
          /\ UNCHANGED <<noteVars, condVars, convVars, capVars, settleVars, riskVars, wsVars>>
       \/ part = "conditional" /\ CondNext
          /\ UNCHANGED <<noteVars, diffVars, convVars, capVars, settleVars, riskVars, wsVars>>
       \/ part = "conversion" /\ ConvNext
          /\ UNCHANGED <<noteVars, diffVars, condVars, capVars, settleVars, riskVars, wsVars>>
       \/ part = "capital" /\ CapNext
          /\ UNCHANGED <<noteVars, diffVars, condVars, convVars, settleVars, riskVars, wsVars>>
       \/ part = "settlement" /\ SettleNext
          /\ UNCHANGED <<noteVars, diffVars, condVars, convVars, capVars, riskVars, wsVars>>
       \/ part = "monitor" /\ RiskNext
          /\ UNCHANGED <<noteVars, diffVars, condVars, convVars, capVars, settleVars, wsVars>>
       \/ part = "sockets" /\ SocketsNext
          /\ UNCHANGED <<noteVars, diffVars, condVars, convVars, capVars, settleVars, riskVars>>

\* NotesFairness, DiffFairness, ConvFairness, SettleFairness and RiskFairness,
\* each in its own part only.
Fairness ==
    /\ WF_noteVars(part = "storage" /\ ProcessorStep)
    /\ WF_noteVars(part = "storage" /\ SubscriberReceive)
    /\ WF_noteVars(part = "storage" /\ TimerFlush)
    /\ \A c \in Peekers : WF_diffVars(part = "diff" /\ PeekStep(c))
    /\ WF_convVars(part = "conversion" /\ ScheduleStep)
    /\ SF_convVars(part = "conversion" /\ CollectAllZombies)
    /\ \A w \in ConversionWorkers : WF_convVars(part = "conversion" /\ WorkerStep(w))
    /\ \A s \in Settlers : WF_settleVars(part = "settlement" /\ SettlerStep(s))
    /\ WF_settleVars(part = "settlement" /\ ForceWorkerStep)
    /\ \A l \in Loops : WF_riskVars(part = "monitor" /\ LoopStep(l))

Spec == Init /\ [][Next]_vars /\ Fairness

\* What a property says of a part is asked for in that part only: in the others
\* its state does not change.
AskedOf(names, property) == part \in names => property

\* The algorithms give what their definition promises: merge_patch and
\* create_patch of DIFF snapshots, calculate_auction_price of the call auction.
AlgorithmsAgree == AskedOf({"json"}, MergeRestores) /\ AskedOf({"auction"}, AuctionMaximal)

\* What has been begun comes to an end, conversions and settlements, and an
\* account over its threshold is noticed.
ServicesFinish == ConvertingEnds /\ SettlementCompletes /\ OverIsNoticed

\* What has an order is passed on in it: notifications to all that hear of
\* them, market data and answers to the sessions of the older protocol.
OrderKept ==
    /\ AskedOf({"storage", "gateway"}, SameOrderEverywhere)
    /\ AskedOf({"sockets"}, MarketInOrder /\ ListedAreSent /\ AnswersInOrder)

\* Every part is in one of its states.
ServicesTypeOK ==
    CASE part \in {"storage", "gateway"} -> NotesTypeOK
      [] part = "diff" -> DiffTypeOK
      [] part = "conditional" -> CondTypeOK
      [] part = "conversion" -> ConvTypeOK
      [] part = "capital" -> CapTypeOK
      [] part = "settlement" -> SettleTypeOK
      [] part = "monitor" -> RiskTypeOK
      [] part = "sockets" -> WsTypeOK
      [] OTHER -> TRUE
=============================================================================
