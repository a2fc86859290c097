------------------------------ MODULE MCShared ------------------------------
(***************************************************************************)
(* Instances for TLC of what several nodes or threads share: the log that  *)
(* a master replicates, the queue of orders by priority, the state machine *)
(* of trading sessions.  The parts share no state: a behaviour is one of   *)
(* one part, chosen at the start.                                          *)
(***************************************************************************)
EXTENDS LogReplication, OrderPriority, TradingSessions, TLC

CONSTANTS Parts, n1, n2, n3, o1, o2, o3, o4, i1, i2, i3, i4

VARIABLE part
sharedVars == <<part, logVars, priorityVars, sessionsVars>>

MCNodes == {n1, n2, n3}

\* o3 is small, but its account becomes a VIP.
MCAmountClass == o1 :> Critical @@ o2 :> Normal @@ o3 :> Low @@ o4 :> Low

MCExchangeOf == i1 :> "CFFEX" @@ i2 :> "SHFE" @@ i3 :> "SIM" @@ i4 :> NoExchange
MCMoments == {At(9, 29), At(10, 15), At(15, 0), At(15, 15), At(23, 0), 86399}

\* The hour matters to one part.
SharedInit ==
    /\ part \in Parts /\ LogInit /\ PriorityInit /\ SessionsInit
    /\ part # "sessions" => clock = At(9, 29)

\* A loop matters only to questions about i4, and then between its passes; the
\* second loop comes in the first moment of a day.
CalendarNext ==
    /\ SessionsNext
    /\ (\E l \in LoopThreads : loop'[l].pc # "none") =>
         /\ \A i \in Contracts : instrument_states[i] = "" /\ instrument_states'[i] = ""
         /\ \A t \in Traders : question'[t].pc # "idle" =>
              question'[t].instrument = i4 /\ question'[t].asked = clock' /\ loop'[1].pc = "check"
         /\ loop'[2].pc # "none" => clock' = At(9, 29) /\ loop'[1].time \in {0, clock'}

\* Requests that can overtake each other go to one node, of others one is
\* under way.
LogPartNext == LogNext /\ \A r1, r2 \in requests' : r1.to = r2.to

SharedNext ==
    /\ part' = part
    /\ \/ part = "log" /\ LogPartNext /\ UNCHANGED <<priorityVars, sessionsVars>>
       \/ part = "priority" /\ PriorityNext /\ UNCHANGED <<logVars, sessionsVars>>
       \/ part = "sessions" /\ CalendarNext /\ UNCHANGED <<logVars, priorityVars>>

SharedSpec == SharedInit /\ [][SharedNext]_sharedVars

\* Nodes are only compared.
NodeSymmetry == Permutations(MCNodes)

\* Every part is in one of its states.
SharedTypeOK == LogTypeOK /\ PriorityTypeOK /\ SessionsTypeOK
=============================================================================
