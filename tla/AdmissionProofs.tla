--------------------------- MODULE AdmissionProofs ---------------------------
(***************************************************************************)
(* What an order meets on its way to the book: the session its instrument  *)
(* is in, and the queue of its priority.                                   *)
(*                                                                         *)
(* What validate_order and validate_cancel answer follows the calendar,    *)
(* for any instruments, threads, loops, moments and states set by hand.    *)
(* First what is used of the calendars: their sessions do not overlap, and *)
(* the state of a session says the same of what is allowed as its set of   *)
(* kinds of orders.  Then the invariant: a question under way has the      *)
(* state the calendar had when it was asked, unless one was set by hand,   *)
(* and unless states were mixed one loop alone writes global_state.        *)
(*                                                                         *)
(* The urgent go first and no order is lost or given twice, for any number *)
(* of orders, of servers and of calls, and any limits.  A call looks at    *)
(* one queue after the other without a common lock: the invariant says     *)
(* what it knows of the queues it has passed: nothing is left there that   *)
(* was waiting when it began, or it has all it wanted.                     *)
(***************************************************************************)
EXTENDS TradingSessions, OrderPriority,
        WellFoundedInduction, FiniteSetTheorems, SequenceTheorems, TLAPS

(* Trading sessions. *)

Asks == {"order", "cancel"}

\* What makes a calendar unambiguous: its sessions do not meet, and what one allows
\* follows from its state.
WellFormed(sessions) ==
    /\ DOMAIN sessions \subseteq Nat
    /\ \A i \in DOMAIN sessions :
         /\ sessions[i].from \in Nat /\ sessions[i].to \in Nat
         /\ sessions[i].from <= sessions[i].to /\ sessions[i].state \in States
         /\ \A about \in Asks :
              about \in sessions[i].allows <=> sessions[i].state \in Permits(about)
    /\ \A i, j \in DOMAIN sessions : i < j => sessions[i].to <= sessions[j].from

LEMMA StockIndexWellFormed == WellFormed(StockIndex)
<1>1. DOMAIN StockIndex = 1..6
  BY DEF StockIndex
<1>2. /\ StockIndex[1] = Period(33900, 34140, "AuctionOrder", {"order"})
      /\ StockIndex[2] = Period(34140, 34200, "AuctionMatch", {"match"})
      /\ StockIndex[3] = Period(34200, 41400, "Continuous", Trading)
      /\ StockIndex[4] = Period(41400, 46800, "Closed", {})
      /\ StockIndex[5] = Period(46800, 54000, "Continuous", Trading)
      /\ StockIndex[6] = Period(54000, 54900, "AuctionOrder", {"order"})
  BY DEF StockIndex, At
<1>3. \A i \in DOMAIN StockIndex :
         /\ StockIndex[i].from \in Nat /\ StockIndex[i].to \in Nat
         /\ StockIndex[i].from <= StockIndex[i].to /\ StockIndex[i].state \in States
  BY <1>1, <1>2 DEF Period, States
<1>4. \A i \in DOMAIN StockIndex, about \in Asks :
        about \in StockIndex[i].allows <=> StockIndex[i].state \in Permits(about)
  BY <1>1, <1>2 DEF Period, Asks, Permits, Trading
<1>5. \A i, j \in DOMAIN StockIndex : i < j => StockIndex[i].to <= StockIndex[j].from
  BY <1>1, <1>2 DEF Period
<1> QED
  BY <1>1, <1>3, <1>4, <1>5 DEF WellFormed

LEMMA CommodityWellFormed == WellFormed(Commodity)
<1>1. DOMAIN Commodity = 1..7
  BY DEF Commodity
<1>2. /\ Commodity[1] = Period(32100, 32400, "AuctionOrder", {"order"})
      /\ Commodity[2] = Period(32400, 36900, "Continuous", Trading)
      /\ Commodity[3] = Period(36900, 37800, "Closed", {})
      /\ Commodity[4] = Period(37800, 41400, "Continuous", Trading)
      /\ Commodity[5] = Period(41400, 48600, "Closed", {})
      /\ Commodity[6] = Period(48600, 54000, "Continuous", Trading)
      /\ Commodity[7] = Period(75600, 82800, "Continuous", Trading)
  BY DEF Commodity, At
<1>3. \A i \in DOMAIN Commodity :
         /\ Commodity[i].from \in Nat /\ Commodity[i].to \in Nat
         /\ Commodity[i].from <= Commodity[i].to /\ Commodity[i].state \in States
  BY <1>1, <1>2 DEF Period, States
<1>4. \A i \in DOMAIN Commodity, about \in Asks :
        about \in Commodity[i].allows <=> Commodity[i].state \in Permits(about)
  BY <1>1, <1>2 DEF Period, Asks, Permits, Trading
<1>5. \A i, j \in DOMAIN Commodity : i < j => Commodity[i].to <= Commodity[j].from
  BY <1>1, <1>2 DEF Period
<1> QED
  BY <1>1, <1>3, <1>4, <1>5 DEF WellFormed

LEMMA CalendarsWellFormed == \A exchange : WellFormed(Calendar(exchange))
<1>1. WellFormed(Simulated)
  BY DEF Simulated, WellFormed, Period, States, Asks, Permits, Trading
<1> QED
  BY <1>1, StockIndexWellFormed, CommodityWellFormed DEF Calendar

\* The session of a time is the one there is, if there is one.
LEMMA TheSession ==
    ASSUME NEW exchange, NEW time \in Nat
    PROVE  \/ /\ CurrentSession(exchange, time) = <<>>
              /\ \A n \in DOMAIN Calendar(exchange) :
                   ~(Calendar(exchange)[n].from <= time /\ time < Calendar(exchange)[n].to)
           \/ \E i \in DOMAIN Calendar(exchange) :
                /\ CurrentSession(exchange, time) = <<Calendar(exchange)[i]>>
                /\ Calendar(exchange)[i].from <= time /\ time < Calendar(exchange)[i].to
                /\ \A n \in DOMAIN Calendar(exchange) :
                     Calendar(exchange)[n].from <= time /\ time < Calendar(exchange)[n].to => n = i
<1> DEFINE sessions == Calendar(exchange)
           found == {i \in DOMAIN sessions : Contains(sessions[i], time)}
<1>1. WellFormed(sessions)
  BY CalendarsWellFormed
<1>2. CurrentSession(exchange, time) =
        IF found = {} THEN <<>> ELSE <<sessions[CHOOSE i \in found : \A j \in found : i <= j]>>
  BY DEF CurrentSession
<1> HIDE DEF sessions
<1>3. \A i \in DOMAIN sessions :
        Contains(sessions[i], time) <=> sessions[i].from <= time /\ time < sessions[i].to
  BY <1>1 DEF WellFormed, Contains
<1>4. \A i, j \in found : i = j
  BY <1>1, <1>3 DEF WellFormed
<1>5. CASE found = {}
  BY <1>2, <1>3, <1>5 DEF sessions
<1>6. CASE found # {}
  <2>1. PICK i \in found : TRUE
    BY <1>6
  <2>2. i \in Nat /\ found = {i}
    BY <1>1, <1>4, <2>1 DEF WellFormed
  <2>3. (CHOOSE k \in found : \A j \in found : k <= j) = i
    BY <2>2
  <2> QED
    BY <1>2, <1>3, <1>6, <2>1, <2>2, <2>3 DEF sessions
<1> QED
  BY <1>5, <1>6

\* The state of a time and the session of a time say the same of what is allowed.
OpenAt(about, exchange, time) ==
    \E n \in DOMAIN Calendar(exchange) :
        /\ Calendar(exchange)[n].from <= time /\ time < Calendar(exchange)[n].to
        /\ about \in Calendar(exchange)[n].allows

LEMMA OpenIs ==
    ASSUME NEW i \in Contracts, NEW about, NEW time
    PROVE  Open(about, i, time) <=> OpenAt(about, ExchangeOf[i], time)
BY DEF Open, OpenAt

LEMMA OpenBySession ==
    ASSUME NEW exchange, NEW time \in Nat, NEW about \in Asks
    PROVE  /\ OpenAt(about, exchange, time) <=>
                /\ CurrentSession(exchange, time) # <<>>
                /\ about \in CurrentSession(exchange, time)[1].allows
           /\ OpenAt(about, exchange, time) <=> CurrentState(exchange, time) \in Permits(about)
           /\ CurrentState(exchange, time) \in States
<1>1. CASE /\ CurrentSession(exchange, time) = <<>>
           /\ \A n \in DOMAIN Calendar(exchange) :
                ~(Calendar(exchange)[n].from <= time /\ time < Calendar(exchange)[n].to)
  <2>1. CurrentState(exchange, time) = "Closed"
    BY <1>1 DEF CurrentState
  <2> QED
    BY <1>1, <2>1 DEF OpenAt, Permits, States
<1>2. ASSUME NEW i \in DOMAIN Calendar(exchange),
             CurrentSession(exchange, time) = <<Calendar(exchange)[i]>>,
             Calendar(exchange)[i].from <= time, time < Calendar(exchange)[i].to,
             \A n \in DOMAIN Calendar(exchange) :
               Calendar(exchange)[n].from <= time /\ time < Calendar(exchange)[n].to => n = i
      PROVE  /\ OpenAt(about, exchange, time) <=>
                  /\ CurrentSession(exchange, time) # <<>>
                  /\ about \in CurrentSession(exchange, time)[1].allows
             /\ OpenAt(about, exchange, time) <=> CurrentState(exchange, time) \in Permits(about)
             /\ CurrentState(exchange, time) \in States
  <2>1. /\ CurrentSession(exchange, time) # <<>>
        /\ CurrentSession(exchange, time)[1] = Calendar(exchange)[i]
    BY <1>2
  <2>2. CurrentState(exchange, time) = Calendar(exchange)[i].state
    BY <2>1 DEF CurrentState
  <2>3. OpenAt(about, exchange, time) <=> about \in Calendar(exchange)[i].allows
    BY <1>2 DEF OpenAt
  <2> QED
    BY <2>1, <2>2, <2>3, CalendarsWellFormed DEF WellFormed
<1> QED
  BY <1>1, <1>2, TheSession
------------------------------------------------------------------------------
LoopSteps == {"none", "check", "read", "write"}
SessionsTyped ==
    /\ clock \in Moments /\ global_state \in States
    /\ running \in BOOLEAN /\ auto_transition_enabled \in BOOLEAN
    /\ loop \in [LoopThreads -> [pc : LoopSteps, exchange : 1..5, time : Nat, old : States]]
    /\ \A l \in LoopThreads : loop[l].time \in Moments \cup {0}
    /\ DOMAIN instrument_states = Contracts
    /\ DOMAIN question = Traders

\* A question under way is about a contract, and unless its state was set by hand
\* it has the state that the calendar had when it was asked.
Pending(q) ==
    /\ q.instrument \in Contracts /\ q.about \in Asks /\ q.asked \in Moments
    /\ instrument_states[q.instrument] = "" /\ ExchangeOf[q.instrument] # NoExchange =>
         q.state = CurrentState(ExchangeOf[q.instrument], q.asked)
PendingByCalendar == \A t \in Traders : question[t].pc = "decide" => Pending(question[t])

\* The first part of SessionsRespected, of one question.
Respected(q) ==
    q.pc = "answered" /\ ~q.by_hand /\ ExchangeOf[q.instrument] # NoExchange =>
        IF q.allowed
        THEN /\ Open(q.about, q.instrument, q.asked)
             /\ Open(q.about, q.instrument, q.answered)
                \/ CurrentSession(ExchangeOf[q.instrument], q.answered) = <<>>
        ELSE ~Open(q.about, q.instrument, q.asked) \/ ~Open(q.about, q.instrument, q.answered)
AnswersRespected == \A t \in Traders : Respected(question[t])

\* Unless states were mixed there is one loop, and nobody else writes global_state
\* between its read and its write.
OneLoop ==
    /\ \A l \in LoopThreads : loop[l].pc = "none" => loop[l].exchange = 1
    /\ ~mixed =>
         /\ \A l, m \in LoopThreads : loop[l].pc # "none" /\ loop[m].pc # "none" => l = m
         /\ \A l \in LoopThreads :
              /\ loop[l].pc = "write" => loop[l].old = global_state
              /\ loop[l].pc = "check" /\ loop[l].exchange # 1 =>
                   global_state = CurrentState("INE", loop[l].time)

SessionsInv == SessionsTyped /\ PendingByCalendar /\ AnswersRespected /\ OneLoop
------------------------------------------------------------------------------
LEMMA MomentsAreTimes == Moments \subseteq Nat /\ Moments # {}
<1>1. Moments # {} /\ Moments \subseteq Times
  BY TradingSessionsAssumption DEF TradingSessionsAssumption
<1>2. Times \subseteq Nat
  BY DEF Times
<1> QED
  BY <1>1, <1>2

\* A set of numbers has a least one.
LEMMA LeastNumber ==
    ASSUME NEW S \in SUBSET Nat, S # {}
    PROVE  \E m \in S : \A k \in S : m <= k
<1>1. PICK R : R = OpToRel(<, Nat)
  OBVIOUS
<1>2. IsWellFoundedOn(R, Nat)
  BY <1>1, NatLessThanWellFounded
<1>3. PICK m \in S : \A k \in S : <<k, m>> \notin R
  BY <1>2, WFMin, Zenon
<1>4. \A k \in Nat : k < m => <<k, m>> \in R
  BY <1>1 DEF OpToRel
<1>5. ASSUME NEW k \in S PROVE m <= k
  <2>1. m \in Nat /\ k \in Nat
    BY <1>3
  <2>2. ~(k < m)
    BY <1>3, <1>4, <2>1
  <2> QED
    BY <2>1, <2>2
<1> QED
  BY <1>3, <1>5

LEMMA TheEarliestIsOne ==
    ASSUME NEW times \in SUBSET Moments, times # {}
    PROVE  Earliest(times) \in times
<1>1. times \in SUBSET Nat
  BY MomentsAreTimes
<1>2. \E m \in times : \A n \in times : m <= n
  BY <1>1, LeastNumber
<1> QED
  BY <1>2 DEF Earliest

LEMMA StatesOfCalendars ==
    \A exchange, time : time \in Nat => CurrentState(exchange, time) \in States
BY OpenBySession DEF Asks

LEMMA InitKeepsSessions == SessionsInit => SessionsInv
<1> SUFFICES ASSUME SessionsInit PROVE SessionsInv
  OBVIOUS
<1>1. SessionsTyped
  <2>1. NoLoop \in [pc : LoopSteps, exchange : 1..5, time : Nat, old : States] /\ NoLoop.time = 0
    BY DEF NoLoop, LoopSteps, States
  <2>2. /\ loop \in [LoopThreads -> [pc : LoopSteps, exchange : 1..5, time : Nat, old : States]]
        /\ \A l \in LoopThreads : loop[l].time \in Moments \cup {0}
    BY <2>1 DEF SessionsInit
  <2>3. clock \in Moments /\ global_state \in States
    BY DEF SessionsInit, States
  <2> QED
    BY <2>2, <2>3 DEF SessionsInit, SessionsTyped
<1>2. PendingByCalendar /\ AnswersRespected
  BY DEF SessionsInit, PendingByCalendar, AnswersRespected, Respected, NoQuestion
<1>3. OneLoop
  BY DEF SessionsInit, OneLoop, NoLoop
<1> QED
  BY <1>1, <1>2, <1>3 DEF SessionsInv

\* A step that leaves the questions alone, and the states set by hand.
LEMMA QuestionsKept ==
    SessionsInv /\ UNCHANGED <<question, instrument_states>>
      => PendingByCalendar' /\ AnswersRespected'
BY DEF SessionsInv, PendingByCalendar, AnswersRespected, Pending, Respected

LEMMA LoopsKept ==
    SessionsInv /\ UNCHANGED <<loop, global_state, mixed>> => OneLoop'
BY DEF SessionsInv, OneLoop

LEMMA TimePassesKeepsSessions == SessionsInv /\ TimePasses => SessionsInv'
<1> SUFFICES ASSUME SessionsInv, TimePasses PROVE SessionsInv'
  OBVIOUS
<1>1. clock' \in Moments
  <2> DEFINE later == {m \in Moments : m > clock}
             times == IF \E m \in Moments : m > clock THEN later ELSE Moments
  <2>1. times \in SUBSET Moments /\ times # {}
    BY MomentsAreTimes
  <2>2. clock' = Earliest(times)
    BY DEF TimePasses
  <2> HIDE DEF times
  <2> QED
    BY <2>1, <2>2, TheEarliestIsOne
<1>2. SessionsTyped'
  BY <1>1 DEF SessionsInv, SessionsTyped, TimePasses, switchVars, handVars
<1> QED
  BY <1>2, QuestionsKept, LoopsKept DEF SessionsInv, TimePasses, switchVars, handVars

\* A loop that starts has the first exchange before it, and another that is there
\* makes the states mixed.
LEMMA StartKeepsSessions ==
    ASSUME NEW l \in LoopThreads, SessionsInv, StartAutoTransition(l) PROVE SessionsInv'
<1>1. /\ loop' = [loop EXCEPT ![l].pc = "check"] /\ loop[l].pc = "none"
      /\ mixed' = (mixed \/ \E other \in LoopThreads : loop[other].pc # "none")
      /\ UNCHANGED <<clock, global_state, question, instrument_states, overrides>>
  BY DEF StartAutoTransition, handVars
<1>2. /\ loop' \in [LoopThreads -> [pc : LoopSteps, exchange : 1..5, time : Nat, old : States]]
      /\ loop'[l].pc = "check" /\ loop'[l].exchange = loop[l].exchange
      /\ loop'[l].time = loop[l].time
      /\ \A m \in LoopThreads \ {l} : loop'[m] = loop[m]
  BY <1>1 DEF SessionsInv, SessionsTyped, LoopSteps
<1>3. SessionsTyped'
  BY <1>1, <1>2 DEF SessionsInv, SessionsTyped, StartAutoTransition
<1>4. loop'[l].exchange = 1
  BY <1>1, <1>2 DEF SessionsInv, OneLoop
<1>5. ~mixed' => ~mixed /\ \A m \in LoopThreads : loop[m].pc = "none"
  BY <1>1
<1>6. OneLoop'
  BY <1>1, <1>2, <1>4, <1>5 DEF SessionsInv, OneLoop
<1> QED
  BY <1>1, <1>3, <1>6, QuestionsKept DEF SessionsInv

LEMMA StopKeepsSessions == SessionsInv /\ StopAutoTransition => SessionsInv'
<1> SUFFICES ASSUME SessionsInv, StopAutoTransition PROVE SessionsInv'
  OBVIOUS
<1>1. SessionsTyped'
  BY DEF SessionsInv, SessionsTyped, StopAutoTransition, handVars
<1> QED
  BY <1>1, QuestionsKept, LoopsKept DEF SessionsInv, StopAutoTransition, handVars

LEMMA CheckKeepsSessions ==
    ASSUME NEW l \in LoopThreads, SessionsInv, LoopCheck(l) PROVE SessionsInv'
<1>1. /\ loop[l].pc = "check" /\ clock \in Moments /\ clock \in Nat
      /\ loop' = [loop EXCEPT ![l] = IF running THEN [@ EXCEPT !.pc = "read", !.exchange = 1, !.time = clock]
                                     ELSE NoLoop]
      /\ UNCHANGED <<clock, global_state, running, auto_transition_enabled, question, mixed,
                     instrument_states, overrides>>
  BY MomentsAreTimes DEF LoopCheck, handVars, switchVars, SessionsInv, SessionsTyped
<1>2. NoLoop \in [pc : LoopSteps, exchange : 1..5, time : Nat, old : States]
      /\ NoLoop.time = 0 /\ NoLoop.pc = "none" /\ NoLoop.exchange = 1
  BY DEF NoLoop, LoopSteps, States
<1>3. /\ loop' \in [LoopThreads -> [pc : LoopSteps, exchange : 1..5, time : Nat, old : States]]
      /\ loop'[l].pc \in {"read", "none"} /\ loop'[l].exchange = 1
      /\ loop'[l].time \in Moments \cup {0}
      /\ \A m \in LoopThreads \ {l} : loop'[m] = loop[m]
  BY <1>1, <1>2, ZenonT(60) DEF SessionsInv, SessionsTyped, LoopSteps
<1>4. SessionsTyped'
  BY <1>1, <1>3 DEF SessionsInv, SessionsTyped
<1>5. OneLoop'
  BY <1>1, <1>3 DEF SessionsInv, OneLoop
<1> QED
  BY <1>1, <1>4, <1>5, QuestionsKept DEF SessionsInv

LEMMA ReadKeepsSessions ==
    ASSUME NEW l \in LoopThreads, SessionsInv, LoopRead(l) PROVE SessionsInv'
<1>1. /\ loop[l].pc = "read" /\ global_state \in States
      /\ loop' = [loop EXCEPT ![l].pc = "write", ![l].old = global_state]
      /\ UNCHANGED <<clock, global_state, running, auto_transition_enabled, question, mixed,
                     instrument_states, overrides>>
  BY DEF LoopRead, handVars, switchVars, SessionsInv, SessionsTyped
<1>2. /\ loop' \in [LoopThreads -> [pc : LoopSteps, exchange : 1..5, time : Nat, old : States]]
      /\ loop'[l].pc = "write" /\ loop'[l].old = global_state
      /\ loop'[l].time = loop[l].time
      /\ \A m \in LoopThreads \ {l} : loop'[m] = loop[m]
  BY <1>1, ZenonT(60) DEF SessionsInv, SessionsTyped, LoopSteps
<1>3. SessionsTyped'
  BY <1>1, <1>2 DEF SessionsInv, SessionsTyped
<1>4. OneLoop'
  BY <1>1, <1>2 DEF SessionsInv, OneLoop
<1> QED
  BY <1>1, <1>3, <1>4, QuestionsKept DEF SessionsInv

\* Nobody wrote since the loop read, so what it finds is what it leaves.
LEMMA WriteKeepsSessions ==
    ASSUME NEW l \in LoopThreads, SessionsInv, LoopWrite(l) PROVE SessionsInv'
<1> DEFINE new == CurrentState(Exchanges[loop[l].exchange], loop[l].time)
<1>1. /\ loop[l].pc = "write" /\ loop[l].exchange \in 1..5
      /\ global_state' = (IF loop[l].old # new THEN new ELSE global_state)
      /\ UNCHANGED <<clock, running, auto_transition_enabled, question, mixed,
                     instrument_states, overrides>>
  BY DEF LoopWrite, handVars, switchVars, SessionsInv, SessionsTyped
<1>2. new \in States
  BY StatesOfCalendars DEF SessionsInv, SessionsTyped
<1>3. /\ loop[l].exchange = 5 =>
           new = CurrentState("INE", loop[l].time) /\ loop' = [loop EXCEPT ![l].pc = "check"]
      /\ loop[l].exchange # 5 =>
           loop' = [loop EXCEPT ![l].pc = "read", ![l].exchange = @ + 1]
  <2>1. Len(Exchanges) = 5 /\ Exchanges[5] = "INE"
    BY DEF Exchanges
  <2> QED
    BY <2>1 DEF LoopWrite
<1> HIDE DEF new
<1>4. /\ loop' \in [LoopThreads -> [pc : LoopSteps, exchange : 1..5, time : Nat, old : States]]
      /\ loop'[l].pc \in {"check", "read"} /\ loop'[l].time = loop[l].time
      /\ loop'[l].pc = "check" => new = CurrentState("INE", loop[l].time)
      /\ \A m \in LoopThreads \ {l} : loop'[m] = loop[m]
  <2>1. CASE loop[l].exchange = 5
    BY <1>1, <1>3, <2>1 DEF SessionsInv, SessionsTyped, LoopSteps
  <2>2. CASE loop[l].exchange # 5
    <3>1. loop[l].exchange + 1 \in 1..5
      BY <1>1, <2>2
    <3> QED
      BY <1>1, <1>3, <2>2, <3>1 DEF SessionsInv, SessionsTyped, LoopSteps
  <2> QED
    BY <2>1, <2>2
<1>5. SessionsTyped'
  BY <1>1, <1>2, <1>4 DEF SessionsInv, SessionsTyped
<1>6. ~mixed => global_state' = new
  BY <1>1 DEF SessionsInv, OneLoop
<1>7. ~mixed => \A m \in LoopThreads \ {l} : loop[m].pc = "none"
  BY <1>1 DEF SessionsInv, OneLoop
<1>8. OneLoop'
  <2>1. \A m \in LoopThreads : loop'[m].pc = "none" => loop'[m].exchange = 1
    BY <1>4 DEF SessionsInv, OneLoop
  <2> QED
    BY <1>1, <1>4, <1>6, <1>7, <2>1 DEF OneLoop
<1> QED
  BY <1>1, <1>5, <1>8, QuestionsKept DEF SessionsInv

LEMMA GlobalKeepsSessions ==
    ASSUME NEW state \in {"Closed", "AuctionCancel"}, SessionsInv, SetGlobalState(state)
    PROVE  SessionsInv'
<1>1. /\ global_state' = state /\ state \in States /\ mixed'
      /\ UNCHANGED <<clock, instrument_states, running, auto_transition_enabled, loop, question>>
  BY DEF SetGlobalState, switchVars, States
<1>2. SessionsTyped'
  BY <1>1 DEF SessionsInv, SessionsTyped
<1>3. OneLoop'
  BY <1>1 DEF SessionsInv, OneLoop
<1> QED
  BY <1>1, <1>2, <1>3, QuestionsKept DEF SessionsInv

\* A state set by hand is never taken back: an instrument without one had none.
LEMMA InstrumentKeepsSessions ==
    ASSUME NEW state \in {"Closed", "AuctionCancel"}, NEW i \in Contracts,
           SessionsInv, SetInstrumentState(i, state)
    PROVE  SessionsInv'
<1>1. /\ instrument_states' = [instrument_states EXCEPT ![i] = state] /\ state # ""
      /\ UNCHANGED <<clock, global_state, running, auto_transition_enabled, loop, question, mixed>>
  BY DEF SetInstrumentState, switchVars
<1>2. SessionsTyped'
  BY <1>1 DEF SessionsInv, SessionsTyped
<1>3. \A c \in Contracts : instrument_states'[c] = "" => instrument_states[c] = ""
  BY <1>1 DEF SessionsInv, SessionsTyped
<1>4. PendingByCalendar' /\ AnswersRespected'
  BY <1>1, <1>3 DEF SessionsInv, PendingByCalendar, AnswersRespected, Pending, Respected
<1> QED
  BY <1>1, <1>2, <1>4, LoopsKept DEF SessionsInv

LEMMA AskKeepsSessions ==
    ASSUME NEW t \in Traders, NEW i \in Contracts, NEW about \in Asks, SessionsInv, Ask(t, about, i)
    PROVE  SessionsInv'
<1> DEFINE state == IF instrument_states[i] # "" THEN instrument_states[i]
                    ELSE IF ExchangeOf[i] # NoExchange THEN CurrentState(ExchangeOf[i], clock)
                    ELSE global_state
           q == [pc |-> "decide", about |-> about, instrument |-> i, asked |-> clock, state |-> state]
<1>1. /\ question' = [question EXCEPT ![t] = q]
      /\ UNCHANGED <<clock, global_state, instrument_states, running, auto_transition_enabled, loop, mixed>>
  BY DEF Ask, switchVars, handVars
<1>2. q.pc = "decide" /\ q.instrument = i /\ q.about = about /\ q.asked = clock /\ q.state = state
  OBVIOUS
<1>3. /\ q.instrument \in Contracts /\ q.about \in Asks /\ q.asked \in Moments
      /\ instrument_states'[q.instrument] = "" /\ ExchangeOf[q.instrument] # NoExchange =>
           q.state = CurrentState(ExchangeOf[q.instrument], q.asked)
  BY <1>1, <1>2 DEF SessionsInv, SessionsTyped
<1> HIDE DEF q
<1>4. SessionsTyped'
  BY <1>1 DEF SessionsInv, SessionsTyped
<1>5. question'[t] = q /\ \A u \in Traders \ {t} : question'[u] = question[u]
  BY <1>1 DEF SessionsInv, SessionsTyped
<1>6. PendingByCalendar'
  <2> SUFFICES ASSUME NEW u \in Traders, question'[u].pc = "decide" PROVE Pending(question[u])'
    BY DEF PendingByCalendar
  <2>1. CASE u = t
    <3>1. question'[u] = q
      BY <1>5, <2>1
    <3> QED
      BY <1>3, <3>1 DEF Pending
  <2>2. CASE u # t
    <3>1. question'[u] = question[u] /\ Pending(question[u])
      BY <1>5, <2>2 DEF SessionsInv, PendingByCalendar
    <3> QED
      BY <1>1, <3>1 DEF Pending
  <2> QED
    BY <2>1, <2>2
<1>7. AnswersRespected'
  BY <1>1, <1>2, <1>5, ZenonT(60) DEF SessionsInv, AnswersRespected, Respected
<1> QED
  BY <1>1, <1>4, <1>6, <1>7, LoopsKept DEF SessionsInv

\* The state that was read and the session that is found say the same of what is
\* open, each at its time.
LEMMA DecideKeepsSessions ==
    ASSUME NEW t \in Traders, SessionsInv, Decide(t)
    PROVE  SessionsInv'
<1> DEFINE q == question[t]
           session == IF ExchangeOf[q.instrument] = NoExchange THEN <<>>
                      ELSE CurrentSession(ExchangeOf[q.instrument], clock)
           allowed == /\ session # <<>> => q.about \in session[1].allows
                      /\ q.state \in Permits(q.about)
           answer == [pc |-> "answered", about |-> q.about, instrument |-> q.instrument,
                      asked |-> q.asked, answered |-> clock, allowed |-> allowed,
                      by_hand |-> instrument_states[q.instrument] # ""]
<1>1. /\ question' = [question EXCEPT ![t] = answer]
      /\ UNCHANGED <<clock, global_state, instrument_states, running, auto_transition_enabled, loop, mixed>>
  BY DEF Decide, switchVars, handVars
<1>2. /\ answer.pc = "answered" /\ answer.about = q.about /\ answer.instrument = q.instrument
      /\ answer.asked = q.asked /\ answer.answered = clock
      /\ answer.allowed = allowed /\ answer.by_hand = (instrument_states[q.instrument] # "")
  BY Zenon
<1>3. Pending(q)
  BY DEF Decide, SessionsInv, PendingByCalendar
<1>4. q.instrument \in Contracts /\ q.about \in Asks /\ q.asked \in Nat /\ clock \in Nat
  BY <1>3, MomentsAreTimes DEF Pending, SessionsInv, SessionsTyped
<1> HIDE DEF answer
<1>5. Respected(answer)
  <2> SUFFICES ASSUME instrument_states[q.instrument] = "", ExchangeOf[q.instrument] # NoExchange
               PROVE  Respected(answer)
    BY <1>2 DEF Respected
  <2> DEFINE exchange == ExchangeOf[q.instrument]
  <2>1. q.state = CurrentState(exchange, q.asked)
    BY <1>3 DEF Pending
  <2>2. session = CurrentSession(exchange, clock)
    OBVIOUS
  <2>3. /\ Open(q.about, q.instrument, q.asked) <=> q.state \in Permits(q.about)
        /\ Open(q.about, q.instrument, clock) <=> session # <<>> /\ q.about \in session[1].allows
    BY <1>4, <2>1, <2>2, OpenIs, OpenBySession
  <2> HIDE DEF session
  <2>4. CASE allowed
    <3>1. /\ Open(q.about, q.instrument, q.asked)
          /\ Open(q.about, q.instrument, clock) \/ session = <<>>
      BY <2>3, <2>4
    <3> QED
      BY <1>2, <2>2, <2>4, <3>1 DEF Respected
  <2>5. CASE ~allowed
    <3>1. ~Open(q.about, q.instrument, q.asked) \/ ~Open(q.about, q.instrument, clock)
      BY <2>3, <2>5
    <3> QED
      BY <1>2, <2>5, <3>1 DEF Respected
  <2> QED
    BY <2>4, <2>5
<1> HIDE DEF q, session, allowed
<1>6. SessionsTyped'
  BY <1>1 DEF SessionsInv, SessionsTyped
<1>7. question'[t] = answer /\ \A u \in Traders \ {t} : question'[u] = question[u]
  BY <1>1 DEF SessionsInv, SessionsTyped
<1>8. PendingByCalendar'
  BY <1>1, <1>2, <1>7, ZenonT(60) DEF SessionsInv, PendingByCalendar, Pending
<1>9. AnswersRespected'
  BY <1>1, <1>5, <1>7 DEF SessionsInv, AnswersRespected, Respected
<1> QED
  BY <1>1, <1>6, <1>8, <1>9, LoopsKept DEF SessionsInv
------------------------------------------------------------------------------
LEMMA StutterKeepsSessions == SessionsInv /\ UNCHANGED sessionsVars => SessionsInv'
<1> SUFFICES ASSUME SessionsInv, UNCHANGED sessionsVars PROVE SessionsInv'
  OBVIOUS
<1>1. SessionsTyped'
  BY DEF SessionsInv, SessionsTyped, sessionsVars
<1> QED
  BY <1>1, QuestionsKept, LoopsKept DEF SessionsInv, sessionsVars

LEMMA NextKeepsSessions == SessionsInv /\ [SessionsNext]_sessionsVars => SessionsInv'
<1> SUFFICES ASSUME SessionsInv, SessionsNext PROVE SessionsInv'
  BY StutterKeepsSessions
<1>1. CASE TimePasses
  BY <1>1, TimePassesKeepsSessions
<1>2. CASE StopAutoTransition
  BY <1>2, StopKeepsSessions
<1>3. CASE \E l \in LoopThreads : StartAutoTransition(l) \/ LoopCheck(l) \/ LoopRead(l) \/ LoopWrite(l)
  BY <1>3, StartKeepsSessions, CheckKeepsSessions, ReadKeepsSessions, WriteKeepsSessions
<1>4. CASE \E state \in {"Closed", "AuctionCancel"} :
             SetGlobalState(state) \/ \E i \in Contracts : SetInstrumentState(i, state)
  BY <1>4, GlobalKeepsSessions, InstrumentKeepsSessions
<1>5. CASE \E t \in Traders :
             \/ \E i \in Contracts, about \in {"order", "cancel"} : Ask(t, about, i)
             \/ Decide(t)
  BY <1>5, AskKeepsSessions, DecideKeepsSessions DEF Asks
<1> QED
  BY <1>1, <1>2, <1>3, <1>4, <1>5 DEF SessionsNext

SessionsSpec == SessionsInit /\ [][SessionsNext]_sessionsVars

\* The inductive invariant of the trading state machine.
THEOREM SessionsInvariance == SessionsSpec => []SessionsInv
BY InitKeepsSessions, NextKeepsSessions, PTL DEF SessionsSpec

\* The variables of the trading state machine keep their types: the loop of
\* start_auto_transition never leaves the list of the exchanges.
THEOREM SessionsTypeCorrect == SessionsSpec => []SessionsTypeOK
<1>1. SessionsInv => SessionsTypeOK
  <2>1. DOMAIN Exchanges = 1..5
    BY DEF Exchanges
  <2> QED
    BY <2>1 DEF SessionsInv, SessionsTyped, SessionsTypeOK
<1> QED
  BY <1>1, SessionsInvariance, PTL

\* What validate_order and validate_cancel answer is what the calendar says at the two
\* readings of the clock they take, whatever goes on between them, unless a state was
\* set by hand; and update_exchange_state leaves the state of the last exchange.
THEOREM AnswersFollowTheCalendar == SessionsSpec => []SessionsRespected
<1>1. SessionsInv => SessionsRespected
  BY DEF SessionsInv, SessionsRespected, AnswersRespected, Respected, OneLoop
<1> QED
  BY <1>1, SessionsInvariance, PTL
------------------------------------------------------------------------------
(* The priority queue. *)

Queues == {Critical, Normal, Low}
Accepted == {o \in PriorityOrders : entering[o] = "queued"}
TakenBy(d) == {server[d].taken[i] : i \in DOMAIN server[d].taken}
InBatch == {"batch normal", "batch low"}

Call == [pc : {"idle", "start", "second", "low length", "low", "batch critical"} \cup InBatch,
         taken : Seq(PriorityOrders),
         before : SUBSET PriorityOrders]

PriorityTyped ==
    /\ priority_queue \in [Queues -> Seq(PriorityOrders)]
    /\ entering \in [PriorityOrders ->
                       {"new", "to 0", "to 1", "to 2", "queued", "rejected"}]
    /\ server \in [Servers -> Call]
    /\ served \subseteq PriorityOrders
    /\ Len(priority_queue[Low]) <= LowLimit
    /\ \A d \in Servers : Len(server[d].taken) <= TakeSize
    /\ \A d \in Servers : server[d].pc \notin InBatch => server[d].taken = <<>>

\* An order has one place in the queues.
OncePlaced ==
    \A p, q \in Queues :
        \A i \in DOMAIN priority_queue[p], j \in DOMAIN priority_queue[q] :
            priority_queue[p][i] = priority_queue[q][j] => p = q /\ i = j

\* Every accepted order is waiting, taken by one server, or served.
Accounted ==
    /\ \A o \in PriorityOrders :
         entering[o] = "queued" <=>
            o \in AllWaiting \/ o \in served \/ \E d \in Servers : o \in TakenBy(d)
    /\ AllWaiting \cap served = {}
    /\ \A d \in Servers : TakenBy(d) \cap (AllWaiting \cup served) = {}
    /\ \A d, e \in Servers : d # e => TakenBy(d) \cap TakenBy(e) = {}

\* Nothing that was waiting when the call of d began is left in queue p.
Passed(d, p) == Waiting(p) \cap server[d].before = {}
Full(d) == Len(server[d].taken) = TakeSize

MoreUrgentPassed(d) ==
    /\ server[d].before \subseteq Accepted
    /\ server[d].pc \in {"second", "low length", "low"} => Passed(d, Critical)
    /\ server[d].pc \in {"low length", "low"} => Passed(d, Normal)
    /\ server[d].pc \in InBatch => Full(d) \/ Passed(d, Critical)
    /\ server[d].pc = "batch low" => Full(d) \/ Passed(d, Normal)

PriorityInv ==
    /\ PriorityTyped /\ OncePlaced /\ Accounted
    /\ \A d \in Servers : MoreUrgentPassed(d)
    /\ overtaken = {}
------------------------------------------------------------------------------
LEMMA Constants ==
    /\ LowLimit \in Nat \ {0} /\ TakeSize \in Nat \ {0} /\ LowShare \in Nat \ {0}
    /\ VipOrders \subseteq PriorityOrders /\ IsFiniteSet(PriorityOrders)
    /\ AmountClass \in [PriorityOrders -> Queues]
BY OrderPriorityAssumption DEF OrderPriorityAssumption, LowShare, Queues

LEMMA InitIInv == PriorityInit => PriorityInv
<1> SUFFICES ASSUME PriorityInit PROVE PriorityInv
  OBVIOUS
<1>1. /\ priority_queue = [p \in Queues |-> <<>>] /\ served = {} /\ overtaken = {}
      /\ server = [d \in Servers |-> [pc |-> "idle", taken |-> <<>>, before |-> {}]]
      /\ entering = [o \in PriorityOrders |-> "new"]
  BY DEF PriorityInit, Queues, NoTake
<1>2. <<>> \in Seq(PriorityOrders) /\ Len(<<>>) = 0 /\ DOMAIN <<>> = {}
  OBVIOUS
<1>3. Low \in Queues /\ Normal \in Queues /\ Critical \in Queues
  BY DEF Queues
<1>4. PriorityTyped
  <2>1. \A d \in Servers : Len(server[d].taken) = 0 /\ server[d].taken = <<>>
    BY <1>1, <1>2
  <2>2. Len(priority_queue[Low]) = 0
    BY <1>1, <1>2, <1>3
  <2>3. priority_queue \in [Queues -> Seq(PriorityOrders)]
    BY <1>1, <1>2
  <2>4. server \in [Servers -> Call]
    BY <1>1, <1>2 DEF Call
  <2>5. entering \in [PriorityOrders ->
                       {"new", "to 0", "to 1", "to 2", "queued", "rejected"}]
    BY <1>1
  <2> QED
    BY <1>1, <2>1, <2>2, <2>3, <2>4, <2>5, Constants DEF PriorityTyped
<1>5. AllWaiting = {} /\ \A d \in Servers : TakenBy(d) = {}
  BY <1>1, <1>2, <1>3 DEF AllWaiting, Waiting, TakenBy
<1>6. OncePlaced
  BY <1>1, <1>2 DEF OncePlaced
<1>7. Accounted
  BY <1>1, <1>5 DEF Accounted
<1>8. \A d \in Servers : MoreUrgentPassed(d)
  BY <1>1 DEF MoreUrgentPassed, InBatch
<1> QED
  BY <1>1, <1>4, <1>6, <1>7, <1>8 DEF PriorityInv

LEMMA QueueLengths ==
    ASSUME PriorityTyped
    PROVE  \A p \in Queues : priority_queue[p] \in Seq(PriorityOrders) /\ Len(priority_queue[p]) \in Nat
<1>1. \A p \in Queues : priority_queue[p] \in Seq(PriorityOrders)
  BY DEF PriorityTyped
<1> QED
  BY <1>1

\* Where an order is when it is waiting.
LEMMA WhereWaiting ==
    ASSUME PriorityTyped
    PROVE  /\ AllWaiting = UNION {Waiting(p) : p \in Queues}
           /\ AllWaiting \subseteq PriorityOrders
           /\ \A p \in Queues : Waiting(p) \subseteq PriorityOrders
<1>1. AllWaiting = UNION {Waiting(p) : p \in Queues}
  BY DEF AllWaiting, Queues
<1>2. ASSUME NEW p \in Queues PROVE Waiting(p) \subseteq PriorityOrders
  <2>1. priority_queue[p] \in Seq(PriorityOrders)
    BY DEF PriorityTyped
  <2> QED
    BY <2>1 DEF Waiting
<1> QED
  BY <1>1, <1>2

\* What a call knows of the queues it passed stays true: only new orders enter.
LEMMA PassedKept ==
    ASSUME NEW d \in Servers, MoreUrgentPassed(d), server'[d] = server[d],
           Accepted \subseteq Accepted',
           \A p \in Queues : Waiting(p)' \cap Accepted \subseteq Waiting(p)
    PROVE  MoreUrgentPassed(d)'
BY DEF MoreUrgentPassed, Passed, Full, Queues

LEMMA CallGoesOn ==
    ASSUME NEW c \in Call, NEW taken \in Seq(PriorityOrders), NEW pc \in InBatch,
           NEW next, next = [[c EXCEPT !.taken = taken] EXCEPT !.pc = pc]
    PROVE  next \in Call /\ next.pc = pc /\ next.taken = taken /\ next.before = c.before
BY DEF Call, InBatch

------------------------------------------------------------------------------
(* enqueue. *)

LEMMA EnterStep ==
    ASSUME PriorityInv, NEW o \in PriorityOrders, NEW s,
           entering[o] # "queued", s \in {"to 0", "to 1", "to 2", "rejected"},
           entering' = [entering EXCEPT ![o] = s],
           UNCHANGED <<priority_queue, server, served, overtaken>>
    PROVE  PriorityInv'
<1>1. PriorityTyped'
  BY DEF PriorityInv, PriorityTyped
<1>2. Accepted' = Accepted /\ \A p \in PriorityOrders :
                                entering'[p] = "queued" <=> entering[p] = "queued"
  BY DEF Accepted, PriorityInv, PriorityTyped
<1>3. OncePlaced'
  <2>1. priority_queue' = priority_queue
    OBVIOUS
  <2> QED
    BY <2>1, ZenonT(60) DEF PriorityInv, OncePlaced
<1>4. /\ AllWaiting' = AllWaiting /\ \A d \in Servers : TakenBy(d)' = TakenBy(d)
      /\ \A p \in Queues : Waiting(p)' = Waiting(p)
  BY DEF AllWaiting, Waiting, TakenBy
<1>5. Accounted'
  <2>1. served' = served /\ Accounted
    BY DEF PriorityInv
  <2>2. \A p \in PriorityOrders :
          (\E d \in Servers : p \in TakenBy(d)') <=> \E d \in Servers : p \in TakenBy(d)
    BY <1>4
  <2>3. ASSUME NEW p \in PriorityOrders
        PROVE  entering'[p] = "queued" <=>
                 p \in AllWaiting' \/ p \in served' \/ \E d \in Servers : p \in TakenBy(d)'
    BY <1>2, <1>4, <2>1, <2>2 DEF Accounted
  <2>4. /\ AllWaiting' \cap served' = {}
        /\ \A d \in Servers : TakenBy(d)' \cap (AllWaiting' \cup served') = {}
        /\ \A d, e \in Servers : d # e => TakenBy(d)' \cap TakenBy(e)' = {}
    BY <1>4, <2>1 DEF Accounted
  <2> QED
    BY <2>3, <2>4 DEF Accounted
<1>6. \A d \in Servers : MoreUrgentPassed(d)'
  BY <1>2, <1>4, PassedKept DEF PriorityInv
<1> QED
  BY <1>1, <1>3, <1>5, <1>6 DEF PriorityInv

LEMMA AppendOnce ==
    ASSUME PriorityInv, NEW o \in PriorityOrders, NEW t \in Queues, entering[o] # "queued",
           priority_queue' = [priority_queue EXCEPT ![t] = Append(@, o)]
    PROVE  /\ priority_queue' \in [Queues -> Seq(PriorityOrders)]
           /\ OncePlaced'
           /\ Waiting(t)' = Waiting(t) \cup {o}
           /\ \A p \in Queues : p # t => Waiting(p)' = Waiting(p)
           /\ AllWaiting' = AllWaiting \cup {o}
           /\ Len(priority_queue'[t]) = Len(priority_queue[t]) + 1
           /\ \A p \in Queues : p # t => priority_queue'[p] = priority_queue[p]
<1>1. /\ priority_queue \in [Queues -> Seq(PriorityOrders)]
      /\ priority_queue[t] \in Seq(PriorityOrders)
      /\ \A p \in Queues : p # t => priority_queue'[p] = priority_queue[p]
      /\ priority_queue'[t] = Append(priority_queue[t], o)
  BY DEF PriorityInv, PriorityTyped
<1> DEFINE n == Len(priority_queue[t])
<1>2. /\ n \in Nat /\ Append(priority_queue[t], o) \in Seq(PriorityOrders)
      /\ Len(priority_queue'[t]) = n + 1
      /\ DOMAIN priority_queue[t] = 1..n /\ DOMAIN priority_queue'[t] = 1..(n + 1)
      /\ \A i \in 1..n : priority_queue'[t][i] = priority_queue[t][i]
      /\ priority_queue'[t][n + 1] = o
  BY <1>1
<1> HIDE DEF n
<1>3. Waiting(t)' = Waiting(t) \cup {o}
  <2>1. 1..(n + 1) = (1..n) \cup {n + 1}
    BY <1>2
  <2> QED
    BY <1>2, <2>1 DEF Waiting
<1>4. \A p \in Queues : p # t => Waiting(p)' = Waiting(p)
  BY <1>1 DEF Waiting
<1>5. AllWaiting' = AllWaiting \cup {o}
  BY <1>3, <1>4 DEF AllWaiting, Queues
<1>6. o \notin AllWaiting /\ \A p \in Queues : o \notin Waiting(p)
  BY WhereWaiting DEF PriorityInv, Accounted
<1>7. OncePlaced'
  <2> SUFFICES ASSUME NEW p \in Queues, NEW q \in Queues,
                      NEW i \in DOMAIN priority_queue'[p], NEW j \in DOMAIN priority_queue'[q],
                      priority_queue'[p][i] = priority_queue'[q][j]
               PROVE  p = q /\ i = j
    BY DEF OncePlaced
  <2>1. ASSUME NEW r \in Queues, NEW k \in DOMAIN priority_queue'[r]
        PROVE  \/ k \in DOMAIN priority_queue[r] /\ priority_queue'[r][k] = priority_queue[r][k]
                  /\ priority_queue'[r][k] # o
               \/ r = t /\ k = n + 1 /\ priority_queue'[r][k] = o
    <3>1. CASE r # t
      BY <1>1, <1>6, <3>1, <2>1 DEF Waiting
    <3>2. CASE r = t /\ k \in 1..n
      BY <1>2, <1>6, <3>2, <2>1 DEF Waiting
    <3>3. CASE r = t /\ k = n + 1
      BY <1>2, <3>3
    <3> QED
      BY <1>2, <2>1, <3>1, <3>2, <3>3
  <2> QED
    BY <2>1 DEF PriorityInv, OncePlaced
<1> QED
  BY <1>1, <1>2, <1>3, <1>4, <1>5, <1>7 DEF n

LEMMA EnqueueStep ==
    ASSUME PriorityInv, NEW o \in PriorityOrders, EnqueueOrder(o)
    PROVE  PriorityInv'
<1>1. /\ entering[o] \in {"to 0", "to 1", "to 2"} /\ entering[o] # "queued"
      /\ UNCHANGED <<server, served, overtaken>>
  BY DEF EnqueueOrder
<1>2. PICK t \in Queues : t = Target(o)
  BY DEF Target, Queues
<1>3. CASE entering' = [entering EXCEPT ![o] = "rejected"] /\ UNCHANGED priority_queue
  BY <1>1, <1>3, EnterStep
<1>4. CASE /\ ~(t = Low /\ Len(priority_queue[Low]) >= LowLimit)
           /\ entering' = [entering EXCEPT ![o] = "queued"]
           /\ priority_queue' = [priority_queue EXCEPT ![t] = Append(@, o)]
  <2>1. /\ priority_queue' \in [Queues -> Seq(PriorityOrders)] /\ OncePlaced'
        /\ Waiting(t)' = Waiting(t) \cup {o}
        /\ \A p \in Queues : p # t => Waiting(p)' = Waiting(p)
        /\ AllWaiting' = AllWaiting \cup {o}
        /\ Len(priority_queue'[t]) = Len(priority_queue[t]) + 1
        /\ \A p \in Queues : p # t => priority_queue'[p] = priority_queue[p]
    BY <1>1, <1>4, AppendOnce
  <2>2. /\ \A p \in PriorityOrders : entering'[p] = "queued" <=> entering[p] = "queued" \/ p = o
        /\ Accepted' = Accepted \cup {o} /\ o \notin Accepted
    BY <1>1, <1>4 DEF Accepted, PriorityInv, PriorityTyped
  <2>3. PriorityTyped'
    <3>1. Len(priority_queue'[Low]) <= LowLimit
      <4>1. Low \in Queues /\ priority_queue[Low] \in Seq(PriorityOrders)
        BY DEF Queues, PriorityInv, PriorityTyped
      <4>2. Len(priority_queue[Low]) <= LowLimit
        BY DEF PriorityInv, PriorityTyped
      <4>3. Len(priority_queue[Low]) \in Nat
        BY <4>1
      <4> QED
        BY <1>4, <2>1, <4>1, <4>2, <4>3, Constants
    <3> QED
      BY <1>1, <1>4, <2>1, <3>1 DEF PriorityInv, PriorityTyped
  <2>4. \A d \in Servers : TakenBy(d)' = TakenBy(d)
    BY <1>1 DEF TakenBy
  <2>5. Accounted'
    <3>1. served' = served /\ Accounted
      BY <1>1 DEF PriorityInv
    <3>2. o \notin AllWaiting /\ o \notin served /\ \A d \in Servers : o \notin TakenBy(d)
      BY <1>1, <3>1 DEF Accounted
    <3> QED
      BY <2>1, <2>2, <2>4, <3>1, <3>2 DEF Accounted
  <2>6. \A p \in Queues : Waiting(p)' \cap Accepted \subseteq Waiting(p)
    BY <2>1, <2>2
  <2>7. \A d \in Servers : MoreUrgentPassed(d)'
    BY <1>1, <2>2, <2>6, PassedKept DEF PriorityInv
  <2> QED
    BY <1>1, <2>1, <2>3, <2>5, <2>7 DEF PriorityInv
<1> QED
  BY <1>2, <1>3, <1>4 DEF EnqueueOrder
------------------------------------------------------------------------------
(* dequeue and dequeue_batch. *)

\* The orders that leave queue p when n of them are taken.
First(p, n) == {priority_queue[p][i] : i \in 1..n}

\* Taking the first n orders of a queue.
LEMMA PopQueue ==
    ASSUME PriorityInv, NEW p \in Queues, NEW n \in Nat, n <= Len(priority_queue[p]), Pop(p, n)
    PROVE  /\ priority_queue' \in [Queues -> Seq(PriorityOrders)]
           /\ OncePlaced'
           /\ Len(priority_queue'[Low]) <= LowLimit
           /\ \A q \in Queues : q # p => priority_queue'[q] = priority_queue[q]
           /\ First(p, n) \subseteq Waiting(p)
           /\ Waiting(p)' = Waiting(p) \ First(p, n)
           /\ \A q \in Queues : q # p => Waiting(q)' = Waiting(q)
           /\ AllWaiting' = AllWaiting \ First(p, n)
<1> DEFINE s == priority_queue[p]
           rest == SubSeq(s, n + 1, Len(s))
<1>1. /\ priority_queue \in [Queues -> Seq(PriorityOrders)] /\ s \in Seq(PriorityOrders)
      /\ Len(s) \in Nat /\ DOMAIN s = 1..Len(s)
  <2>1. priority_queue \in [Queues -> Seq(PriorityOrders)]
    BY DEF PriorityInv, PriorityTyped
  <2>2. s \in Seq(PriorityOrders)
    BY <2>1
  <2> QED
    BY <2>1, <2>2
<1>2. priority_queue' = [priority_queue EXCEPT ![p] = rest]
  BY DEF Pop
<1>3. /\ rest \in Seq(PriorityOrders) /\ Len(rest) = Len(s) - n
      /\ \A i \in 1..(Len(s) - n) : rest[i] = s[n + i]
  <2>1. \A i \in (n + 1)..Len(s) : s[i] \in PriorityOrders
    BY <1>1
  <2>2. /\ rest \in Seq(PriorityOrders)
        /\ Len(rest) = IF n + 1 <= Len(s) THEN Len(s) - (n + 1) + 1 ELSE 0
        /\ \A i \in 1..(Len(s) - (n + 1) + 1) : rest[i] = s[(n + 1) + i - 1]
    BY <1>1, <2>1, SubSeqProperties
  <2>3. Len(s) \in Nat /\ n <= Len(s)
    BY <1>1
  <2> HIDE DEF rest, s
  <2>4. Len(rest) = Len(s) - n /\ Len(s) - (n + 1) + 1 = Len(s) - n
    BY <2>2, <2>3
  <2>5. \A i \in 1..(Len(s) - n) : (n + 1) + i - 1 = n + i
    BY <1>1
  <2> QED
    BY <2>2, <2>4, <2>5
<1> HIDE DEF s, rest
<1>4. /\ priority_queue' \in [Queues -> Seq(PriorityOrders)]
      /\ priority_queue'[p] = rest
      /\ \A q \in Queues : q # p => priority_queue'[q] = priority_queue[q]
  BY <1>1, <1>2, <1>3
<1>5. DOMAIN rest = 1..(Len(s) - n)
  BY <1>3
<1>6. \A i, j \in DOMAIN s : s[i] = s[j] => i = j
  BY DEF PriorityInv, OncePlaced, s
<1>7. Waiting(p) = {s[i] : i \in 1..Len(s)} /\ First(p, n) = {s[i] : i \in 1..n}
  BY <1>1 DEF Waiting, First, s
<1>8. Waiting(p)' = {rest[i] : i \in 1..(Len(s) - n)}
  BY <1>4, <1>5 DEF Waiting
<1>9. First(p, n) \subseteq Waiting(p)
  BY <1>1, <1>7 DEF s
<1>10. Waiting(p)' = Waiting(p) \ First(p, n)
  <2>1. ASSUME NEW x \in Waiting(p)' PROVE x \in Waiting(p) \ First(p, n)
    <3>1. PICK i \in 1..(Len(s) - n) : x = s[n + i]
      BY <1>3, <1>8
    <3>2. n + i \in 1..Len(s) /\ \A j \in 1..n : j \in 1..Len(s) /\ j # n + i
      BY <1>1 DEF s
    <3> QED
      BY <1>1, <1>6, <1>7, <3>1, <3>2
  <2>2. ASSUME NEW x \in Waiting(p) \ First(p, n) PROVE x \in Waiting(p)'
    <3>1. PICK i \in 1..Len(s) : x = s[i]
      BY <1>7
    <3>2. i \notin 1..n
      BY <1>7, <3>1
    <3>3. i - n \in 1..(Len(s) - n) /\ n + (i - n) = i
      BY <1>1, <3>2
    <3> QED
      BY <1>3, <1>8, <3>1, <3>3
  <2> QED
    BY <2>1, <2>2
<1>11. \A q \in Queues : q # p => Waiting(q)' = Waiting(q)
  BY <1>4 DEF Waiting
<1>12. \A q \in Queues : q # p => Waiting(q) \cap First(p, n) = {}
  <2> SUFFICES ASSUME NEW q \in Queues, NEW x \in Waiting(q), x \in Waiting(p) PROVE q = p
    BY <1>9
  <2> QED
    BY DEF PriorityInv, OncePlaced, Waiting
<1>13. AllWaiting' = AllWaiting \ First(p, n)
  BY <1>10, <1>11, <1>12 DEF AllWaiting, Queues
<1>14. OncePlaced'
  <2>1. ASSUME NEW q \in Queues, NEW i \in DOMAIN priority_queue'[q]
        PROVE  LET k == IF q = p THEN n + i ELSE i
               IN  k \in DOMAIN priority_queue[q] /\ priority_queue'[q][i] = priority_queue[q][k]
    <3>1. CASE q = p
      <4>1. i \in 1..(Len(s) - n) /\ n + i \in 1..Len(s)
        BY <1>1, <1>4, <1>5, <2>1, <3>1
      <4> QED
        BY <1>1, <1>3, <1>4, <3>1, <4>1 DEF s
    <3>2. CASE q # p
      BY <1>4, <2>1, <3>2
    <3> QED
      BY <3>1, <3>2
  <2> SUFFICES ASSUME NEW q \in Queues, NEW r \in Queues,
                      NEW i \in DOMAIN priority_queue'[q], NEW j \in DOMAIN priority_queue'[r],
                      priority_queue'[q][i] = priority_queue'[r][j]
               PROVE  q = r /\ i = j
    BY DEF OncePlaced
  <2> DEFINE k == IF q = p THEN n + i ELSE i
             l == IF r = p THEN n + j ELSE j
  <2>2. /\ k \in DOMAIN priority_queue[q] /\ l \in DOMAIN priority_queue[r]
        /\ priority_queue[q][k] = priority_queue[r][l]
    BY <2>1
  <2>3. q = r /\ k = l
    <3> HIDE DEF k, l
    <3> QED
      BY <2>2 DEF PriorityInv, OncePlaced
  <2>4. i \in Nat /\ j \in Nat
    BY <1>4
  <2> QED
    BY <2>3, <2>4
<1>15. Len(priority_queue'[Low]) <= LowLimit
  <2>1. Len(priority_queue[Low]) <= LowLimit /\ Low \in Queues
    BY DEF PriorityInv, PriorityTyped, Queues
  <2>2. Len(priority_queue[Low]) \in Nat
    BY <2>1, QueueLengths DEF PriorityInv
  <2>3. CASE p = Low
    <3>1. Len(priority_queue'[Low]) = Len(priority_queue[Low]) - n
      BY <1>3, <1>4, <2>3 DEF s
    <3> QED
      BY <2>1, <2>2, <3>1, Constants
  <2>4. CASE p # Low
    BY <1>4, <2>1, <2>4
  <2> QED
    BY <2>3, <2>4
<1> QED
  BY <1>4, <1>9, <1>10, <1>11, <1>13, <1>14, <1>15

\* What a call adds to what it has.
LEMMA FirstTaken ==
    ASSUME NEW s \in Seq(PriorityOrders), NEW had \in Seq(PriorityOrders), NEW n \in Nat, n <= Len(s),
           NEW taken, taken = had \o SubSeq(s, 1, n)
    PROVE  /\ taken \in Seq(PriorityOrders)
           /\ Len(taken) = Len(had) + n
           /\ \A i \in 1..Len(had) : taken[i] = had[i]
           /\ \A j \in 1..n : taken[Len(had) + j] = s[j]
<1> DEFINE new == SubSeq(s, 1, n)
<1>1. Len(s) \in Nat /\ \A i \in 1..n : s[i] \in PriorityOrders
  OBVIOUS
<1>2. /\ new \in Seq(PriorityOrders)
      /\ Len(new) = IF 1 <= n THEN n - 1 + 1 ELSE 0
      /\ \A i \in 1..(n - 1 + 1) : new[i] = s[1 + i - 1]
  BY <1>1, SubSeqProperties
<1> HIDE DEF new
<1>3. Len(new) = n /\ \A i \in 1..n : new[i] = s[i]
  <2>1. n - 1 + 1 = n /\ \A i \in 1..n : 1 + i - 1 = i
    OBVIOUS
  <2> QED
    BY <1>2, <2>1
<1>4. taken = had \o new
  BY DEF new
<1>5. /\ taken \in Seq(PriorityOrders) /\ Len(taken) = Len(had) + n
      /\ \A i \in 1..(Len(had) + n) :
           taken[i] = IF i <= Len(had) THEN had[i] ELSE new[i - Len(had)]
  BY <1>2, <1>3, <1>4, ConcatProperties
<1>6. Len(had) \in Nat /\ DOMAIN had = 1..Len(had) /\ DOMAIN taken = 1..(Len(had) + n)
  BY <1>5
<1>7. \A i \in 1..Len(had) : taken[i] = had[i]
  BY <1>5, <1>6
<1>8. ASSUME NEW j \in 1..n PROVE taken[Len(had) + j] = s[j]
  <2>1. Len(had) + j \in 1..(Len(had) + n) /\ (Len(had) + j) - Len(had) = j
        /\ ~(Len(had) + j <= Len(had))
    BY <1>6
  <2> QED
    BY <1>3, <1>5, <1>6, <2>1
<1> QED
  BY <1>5, <1>7, <1>8

Taking(had, s, n) == had \o SubSeq(s, 1, n)

LEMMA TakenValues ==
    ASSUME NEW s \in Seq(PriorityOrders), NEW had \in Seq(PriorityOrders), NEW n \in Nat,
           n <= Len(s)
    PROVE  /\ Taking(had, s, n) \in Seq(PriorityOrders)
           /\ Len(Taking(had, s, n)) = Len(had) + n
           /\ {Taking(had, s, n)[i] : i \in DOMAIN Taking(had, s, n)}
                = {had[i] : i \in DOMAIN had} \cup {s[j] : j \in 1..n}
<1> DEFINE taken == Taking(had, s, n)
<1> HIDE DEF taken
<1>1. /\ taken \in Seq(PriorityOrders) /\ Len(taken) = Len(had) + n
      /\ \A i \in 1..Len(had) : taken[i] = had[i]
      /\ \A j \in 1..n : taken[Len(had) + j] = s[j]
  <2>1. taken = had \o SubSeq(s, 1, n)
    BY DEF taken, Taking
  <2> QED
    BY <2>1, FirstTaken
<1>2. /\ Len(had) \in Nat /\ DOMAIN had = 1..Len(had)
      /\ DOMAIN taken = 1..(Len(had) + n)
  BY <1>1
<1>3. \A o : /\ o \in {s[j] : j \in 1..n} <=> \E j \in 1..n : o = s[j]
            /\ o \in {had[i] : i \in DOMAIN had} <=> \E i \in 1..Len(had) : o = had[i]
  BY <1>2
<1>4. ASSUME NEW k \in 1..(Len(had) + n)
      PROVE  taken[k] \in {s[j] : j \in 1..n} \/ taken[k] \in {had[i] : i \in DOMAIN had}
  <2>1. CASE k <= Len(had)
    <3>1. k \in 1..Len(had) /\ taken[k] = had[k]
      BY <1>1, <1>2, <2>1
    <3> QED
      BY <1>3, <3>1
  <2>2. CASE k > Len(had)
    <3>1. PICK j \in 1..n : k = Len(had) + j
      <4>1. k - Len(had) \in 1..n /\ k = Len(had) + (k - Len(had))
        BY <1>2, <2>2
      <4> QED
        BY <4>1
    <3> QED
      BY <1>1, <1>3, <3>1
  <2> QED
    BY <1>2, <2>1, <2>2
<1>5. ASSUME NEW o, o \in {s[j] : j \in 1..n}
      PROVE  \E k \in 1..(Len(had) + n) : taken[k] = o
  <2>1. PICK j \in 1..n : o = s[j]
    BY <1>3, <1>5
  <2>2. Len(had) + j \in 1..(Len(had) + n) /\ taken[Len(had) + j] = o
    BY <1>1, <1>2, <2>1
  <2> QED
    BY <2>2
<1>6. ASSUME NEW o, o \in {had[i] : i \in DOMAIN had}
      PROVE  \E k \in 1..(Len(had) + n) : taken[k] = o
  <2>1. PICK i \in 1..Len(had) : o = had[i]
    BY <1>3, <1>6
  <2>2. i \in 1..(Len(had) + n) /\ taken[i] = o
    BY <1>1, <1>2, <2>1
  <2> QED
    BY <2>2
<1>7. {taken[i] : i \in DOMAIN taken} \subseteq {had[i] : i \in DOMAIN had} \cup {s[j] : j \in 1..n}
  BY <1>2, <1>4
<1>8. {had[i] : i \in DOMAIN had} \cup {s[j] : j \in 1..n} \subseteq {taken[i] : i \in DOMAIN taken}
  BY <1>2, <1>5, <1>6
<1> QED
  BY <1>1, <1>7, <1>8 DEF taken

LEMMA TakenPlaces ==
    ASSUME PriorityTyped, NEW d \in Servers, NEW p \in Queues, NEW n \in Nat,
           n <= Len(priority_queue[p])
    PROVE  LET taken == server[d].taken \o SubSeq(priority_queue[p], 1, n)
           IN  /\ taken \in Seq(PriorityOrders) /\ Len(taken) = Len(server[d].taken) + n
               /\ {taken[i] : i \in DOMAIN taken} = TakenBy(d) \cup First(p, n)
<1> DEFINE taken == Taking(server[d].taken, priority_queue[p], n)
<1>1. server[d].taken \in Seq(PriorityOrders) /\ priority_queue[p] \in Seq(PriorityOrders)
  BY QueueLengths DEF PriorityTyped, Call
<1>2. /\ taken \in Seq(PriorityOrders) /\ Len(taken) = Len(server[d].taken) + n
      /\ {taken[i] : i \in DOMAIN taken}
           = {server[d].taken[i] : i \in DOMAIN server[d].taken}
               \cup {priority_queue[p][j] : j \in 1..n}
  BY <1>1, TakenValues, Zenon
<1> QED
  BY <1>2, Zenon DEF TakenBy, First, Taking

\* Orders move from the queues to a server, and from a server to those served.
LEMMA MoveOrders ==
    ASSUME Accounted, NEW d \in Servers, NEW F, F \subseteq AllWaiting,
           AllWaiting' = AllWaiting \ F, entering' = entering,
           \/ served' = served \cup TakenBy(d) \cup F /\ TakenBy(d)' = {}
           \/ served' = served /\ TakenBy(d)' = TakenBy(d) \cup F,
           \A e \in Servers : e # d => TakenBy(e)' = TakenBy(e)
    PROVE  Accounted'
<1>1. served' \cup TakenBy(d)' = served \cup TakenBy(d) \cup F
  OBVIOUS
<1>2. ASSUME NEW o
      PROVE  (o \in served' \/ \E e \in Servers : o \in TakenBy(e)')
                <=> o \in served \/ o \in F \/ \E e \in Servers : o \in TakenBy(e)
  <2>1. (\E e \in Servers : o \in TakenBy(e)')
           <=> o \in TakenBy(d)' \/ \E e \in Servers \ {d} : o \in TakenBy(e)
    OBVIOUS
  <2>2. (\E e \in Servers : o \in TakenBy(e))
           <=> o \in TakenBy(d) \/ \E e \in Servers \ {d} : o \in TakenBy(e)
    OBVIOUS
  <2> QED
    BY <1>1, <2>1, <2>2
<1>3. ASSUME NEW o \in PriorityOrders
      PROVE  entering'[o] = "queued" <=>
               o \in AllWaiting' \/ o \in served' \/ \E e \in Servers : o \in TakenBy(e)'
  <2>1. entering'[o] = "queued" <=>
          o \in AllWaiting \/ o \in served \/ \E e \in Servers : o \in TakenBy(e)
    BY DEF Accounted
  <2>2. o \in AllWaiting <=> o \in AllWaiting' \/ o \in F
    OBVIOUS
  <2> QED
    BY <1>2, <2>1, <2>2
<1>4. /\ AllWaiting \cap served = {}
      /\ \A e \in Servers : TakenBy(e) \cap (AllWaiting \cup served) = {}
      /\ \A e \in Servers : e # d => TakenBy(d) \cap TakenBy(e) = {}
  BY DEF Accounted
<1>5. AllWaiting' \cap served' = {}
  BY <1>4
<1>6. ASSUME NEW e \in Servers PROVE TakenBy(e)' \cap (AllWaiting' \cup served') = {}
  <2>1. CASE e = d
    BY <1>4, <2>1
  <2>2. CASE e # d
    <3>1. TakenBy(e)' = TakenBy(e) /\ served' \subseteq served \cup TakenBy(d) \cup F
      BY <1>1, <2>2
    <3> QED
      BY <1>4, <2>2, <3>1
  <2> QED
    BY <2>1, <2>2
<1>7. ASSUME NEW e \in Servers, NEW f \in Servers, e # f
      PROVE  TakenBy(e)' \cap TakenBy(f)' = {}
  <2>1. ASSUME NEW g \in Servers, g # d PROVE TakenBy(d)' \cap TakenBy(g)' = {}
    <3>1. TakenBy(g)' = TakenBy(g) /\ TakenBy(d)' \subseteq TakenBy(d) \cup F
      BY <2>1
    <3> QED
      BY <1>4, <2>1, <3>1
  <2>2. CASE e = d
    BY <1>7, <2>1, <2>2
  <2>3. CASE f = d
    BY <1>7, <2>1, <2>3
  <2>4. CASE e # d /\ f # d
    BY <1>7, <2>4 DEF Accounted
  <2> QED
    BY <2>2, <2>3, <2>4
<1> QED
  BY <1>3, <1>5, <1>6, <1>7 DEF Accounted

\* The orders a server has taken and then returns.
LEMMA ReturnStep ==
    ASSUME PriorityInv, NEW d \in Servers, NEW p \in Queues, NEW n \in Nat,
           n <= Len(priority_queue[p]), Pop(p, n),
           server' = [server EXCEPT ![d] = NoTake],
           served' = served \cup TakenBy(d) \cup First(p, n),
           entering' = entering, overtaken' = {}
    PROVE  PriorityInv'
<1>1. /\ priority_queue' \in [Queues -> Seq(PriorityOrders)]
      /\ OncePlaced'
      /\ Len(priority_queue'[Low]) <= LowLimit
      /\ \A q \in Queues : q # p => priority_queue'[q] = priority_queue[q]
      /\ First(p, n) \subseteq Waiting(p)
      /\ Waiting(p)' = Waiting(p) \ First(p, n)
      /\ \A q \in Queues : q # p => Waiting(q)' = Waiting(q)
      /\ AllWaiting' = AllWaiting \ First(p, n)
  BY PopQueue
<1>2. /\ server'[d] = NoTake /\ \A e \in Servers : e # d => server'[e] = server[e]
      /\ NoTake.taken = <<>> /\ NoTake.before = {} /\ NoTake.pc = "idle"
  BY DEF PriorityInv, PriorityTyped, NoTake
<1>3. TakenBy(d)' = {} /\ \A e \in Servers : e # d => TakenBy(e)' = TakenBy(e)
  BY <1>2 DEF TakenBy
<1>4. First(p, n) \subseteq AllWaiting /\ AllWaiting \subseteq PriorityOrders
      /\ TakenBy(d) \subseteq PriorityOrders
  <2>1. server[d].taken \in Seq(PriorityOrders)
    BY DEF PriorityInv, PriorityTyped, Call
  <2> QED
    BY <1>1, <2>1, WhereWaiting DEF PriorityInv, TakenBy
<1>6. PriorityTyped'
  <2>1. server' \in [Servers -> Call]
    <3>1. NoTake \in Call
      BY DEF NoTake, Call
    <3> QED
      BY <3>1 DEF PriorityInv, PriorityTyped
  <2>2. Len(NoTake.taken) = 0
    BY <1>2
  <2>3. ASSUME NEW e \in Servers
        PROVE  /\ Len(server'[e].taken) <= TakeSize
               /\ server'[e].pc \notin InBatch => server'[e].taken = <<>>
    <3>1. CASE e = d
      BY <1>2, <2>2, <3>1, Constants
    <3>2. CASE e # d
      BY <1>2, <3>2 DEF PriorityInv, PriorityTyped
    <3> QED
      BY <3>1, <3>2
  <2>4. served' \subseteq PriorityOrders /\ entering' \in [PriorityOrders ->
                       {"new", "to 0", "to 1", "to 2", "queued", "rejected"}]
    BY <1>4 DEF PriorityInv, PriorityTyped
  <2> QED
    BY <1>1, <2>1, <2>3, <2>4 DEF PriorityTyped
<1>7. Accounted'
  BY <1>1, <1>3, <1>4, MoveOrders DEF PriorityInv
<1>8. ASSUME NEW e \in Servers PROVE MoreUrgentPassed(e)'
  <2>1. CASE e = d
    BY <1>2, <2>1 DEF MoreUrgentPassed, InBatch
  <2>2. CASE e # d
    <3>1. Accepted' = Accepted /\ \A q \in Queues : Waiting(q)' \subseteq Waiting(q)
      BY <1>1 DEF Accepted
    <3> QED
      BY <1>2, <2>2, <3>1, PassedKept DEF PriorityInv
  <2> QED
    BY <2>1, <2>2
<1> QED
  BY <1>1, <1>6, <1>7, <1>8 DEF PriorityInv

\* The orders a batch has taken so far.
LEMMA KeepStep ==
    ASSUME PriorityInv, NEW d \in Servers, NEW p \in Queues, NEW n \in Nat,
           n <= Len(priority_queue[p]), Pop(p, n),
           NEW pc \in InBatch, NEW taken \in Seq(PriorityOrders),
           {taken[i] : i \in DOMAIN taken} = TakenBy(d) \cup First(p, n),
           Len(taken) <= TakeSize,
           server' = [server EXCEPT ![d].taken = taken, ![d].pc = pc],
           Len(taken) = TakeSize \/ Passed(d, Critical) \/ (p = Critical /\ Waiting(p)' = {}),
           pc = "batch low" =>
             Len(taken) = TakeSize \/ Passed(d, Normal) \/ (p = Normal /\ Waiting(p)' = {}),
           served' = served, entering' = entering, overtaken' = {}
    PROVE  PriorityInv'
<1>1. /\ priority_queue' \in [Queues -> Seq(PriorityOrders)]
      /\ OncePlaced'
      /\ Len(priority_queue'[Low]) <= LowLimit
      /\ \A q \in Queues : q # p => priority_queue'[q] = priority_queue[q]
      /\ First(p, n) \subseteq Waiting(p)
      /\ Waiting(p)' = Waiting(p) \ First(p, n)
      /\ \A q \in Queues : q # p => Waiting(q)' = Waiting(q)
      /\ AllWaiting' = AllWaiting \ First(p, n)
  BY PopQueue
<1>2. /\ server'[d].pc = pc /\ server'[d].taken = taken
      /\ server'[d].before = server[d].before
      /\ \A e \in Servers : e # d => server'[e] = server[e]
      /\ server' \in [Servers -> Call]
  <2>1. server \in [Servers -> Call]
    BY DEF PriorityInv, PriorityTyped
  <2>2. /\ server'[d] = [[server[d] EXCEPT !.taken = taken] EXCEPT !.pc = pc]
        /\ \A e \in Servers : e # d => server'[e] = server[e]
        /\ server' = [e \in Servers |-> server'[e]]
    BY <2>1
  <2>3. server[d] \in Call
    BY <2>1
  <2>4. server'[d].pc = pc /\ server'[d].taken = taken /\ server'[d].before = server[d].before
    BY <2>2, <2>3 DEF Call
  <2>5. server'[d] \in Call
    BY <2>2, <2>3 DEF Call
  <2> QED
    BY <2>1, <2>2, <2>4, <2>5
<1>3. /\ TakenBy(d)' = TakenBy(d) \cup First(p, n)
      /\ \A e \in Servers : e # d => TakenBy(e)' = TakenBy(e)
  <2>1. server'[d].taken = taken
    BY <1>2
  <2>2. TakenBy(d)' = TakenBy(d) \cup First(p, n)
    BY <2>1 DEF TakenBy
  <2>3. ASSUME NEW e \in Servers, e # d PROVE TakenBy(e)' = TakenBy(e)
    <3>1. server'[e] = server[e]
      BY <1>2, <2>3
    <3> QED
      BY <3>1 DEF TakenBy
  <2> QED
    BY <2>2, <2>3
<1>4. First(p, n) \subseteq AllWaiting /\ AllWaiting \subseteq PriorityOrders
  BY <1>1, WhereWaiting DEF PriorityInv
<1>6. PriorityTyped'
  <2>1. ASSUME NEW e \in Servers
        PROVE  /\ Len(server'[e].taken) <= TakeSize
               /\ server'[e].pc \notin InBatch => server'[e].taken = <<>>
    <3>1. CASE e = d
      BY <1>2, <3>1
    <3>2. CASE e # d
      BY <1>2, <3>2 DEF PriorityInv, PriorityTyped
    <3> QED
      BY <3>1, <3>2
  <2>2. served' \subseteq PriorityOrders /\ entering' \in [PriorityOrders ->
                       {"new", "to 0", "to 1", "to 2", "queued", "rejected"}]
    BY DEF PriorityInv, PriorityTyped
  <2> QED
    BY <1>1, <1>2, <2>1, <2>2 DEF PriorityTyped
<1>7. Accounted'
  BY <1>1, <1>3, <1>4, MoveOrders DEF PriorityInv
<1>8. Accepted' = Accepted /\ \A q \in Queues : Waiting(q)' \subseteq Waiting(q)
  BY <1>1 DEF Accepted
<1>9. ASSUME NEW e \in Servers PROVE MoreUrgentPassed(e)'
  <2>1. CASE e = d
    <3>1. /\ server'[d].pc = pc /\ server'[d].before = server[d].before
          /\ server'[d].taken = taken
      BY <1>2
    <3>2. Critical \in Queues /\ Normal \in Queues
      BY DEF Queues
    <3>3. Full(d)' \/ Passed(d, Critical)'
      BY <1>8, <3>1, <3>2 DEF Full, Passed
    <3>4. pc = "batch low" => Full(d)' \/ Passed(d, Normal)'
      BY <1>8, <3>1, <3>2 DEF Full, Passed
    <3>5. server'[d].before \subseteq Accepted'
      BY <1>8, <3>1 DEF PriorityInv, MoreUrgentPassed
    <3> QED
      BY <2>1, <3>1, <3>3, <3>4, <3>5 DEF MoreUrgentPassed, InBatch
  <2>2. CASE e # d
    BY <1>2, <1>8, <2>2, PassedKept DEF PriorityInv
  <2> QED
    BY <2>1, <2>2
<1> QED
  BY <1>1, <1>6, <1>7, <1>9 DEF PriorityInv

\* A call of dequeue has nothing before it returns.
LEMMA FirstOfQueue ==
    ASSUME PriorityTyped, NEW d \in Servers, server[d].pc \notin InBatch, NEW p \in Queues,
           priority_queue[p] # <<>>
    PROVE  /\ 1 <= Len(priority_queue[p])
           /\ TakenBy(d) = {}
           /\ {SubSeq(priority_queue[p], 1, 1)[i] : i \in DOMAIN SubSeq(priority_queue[p], 1, 1)}
                = First(p, 1)
<1>1. priority_queue[p] \in Seq(PriorityOrders)
  BY QueueLengths
<1>2. 1 <= Len(priority_queue[p])
  BY <1>1
<1>3. server[d].taken = <<>>
  BY DEF PriorityTyped
<1>4. TakenBy(d) = {}
  BY <1>3 DEF TakenBy
<1>5. ASSUME NEW s \in Seq(PriorityOrders), NEW f, f = SubSeq(s, 1, 1), 1 <= Len(s)
      PROVE  DOMAIN f = {1} /\ f[1] = s[1]
  <2>1. \A i \in 1..1 : s[i] \in PriorityOrders
    BY <1>5
  <2>2. /\ f \in Seq(PriorityOrders) /\ Len(f) = 1
        /\ \A i \in 1..1 : f[i] = s[i]
    BY <1>5, <2>1, SubSeqProperties
  <2> QED
    BY <2>2
<1>6. PICK f : f = SubSeq(priority_queue[p], 1, 1)
  OBVIOUS
<1>7. DOMAIN f = {1} /\ f[1] = priority_queue[p][1]
  BY <1>1, <1>2, <1>5, <1>6
<1>8. {f[i] : i \in DOMAIN f} = First(p, 1)
  BY <1>7 DEF First
<1> QED
  BY <1>2, <1>4, <1>6, <1>8

\* Nobody is overtaken by a call that has passed the more urgent queues.
LEMMA NobodyOvertaken ==
    ASSUME PriorityInv, NEW d \in Servers, NEW p \in Queues, Overtake(d, p),
           p # Critical => Passed(d, Critical),
           p = Low => Passed(d, Normal)
    PROVE  overtaken' = {}
<1>1. /\ overtaken = {}
      /\ overtaken' = overtaken \cup
           {o \in server[d].before : \E q \in {Critical, Normal} : q > p /\ o \in Waiting(q)}
  BY DEF PriorityInv, Overtake
<1>2. ASSUME NEW o \in server[d].before, NEW q \in {Critical, Normal}, q > p, o \in Waiting(q)
      PROVE  FALSE
  <2>1. (q = Critical => p # Critical) /\ (q = Normal => p = Low) /\ (q = Normal => p # Critical)
    BY <1>2 DEF Queues, Critical, Normal, Low
  <2> QED
    BY <1>2, <2>1 DEF Passed
<1> QED
  BY <1>1, <1>2

LEMMA DequeueStep ==
    ASSUME PriorityInv, NEW d \in Servers, NEW p \in Queues, server[d].pc \notin InBatch,
           priority_queue[p] # <<>>, Pop(p, 1), Overtake(d, p),
           ReturnOrders(d, SubSeq(priority_queue[p], 1, 1)), entering' = entering,
           p # Critical => Passed(d, Critical),
           p = Low => Passed(d, Normal)
    PROVE  PriorityInv'
<1>1. /\ 1 <= Len(priority_queue[p]) /\ TakenBy(d) = {}
      /\ {SubSeq(priority_queue[p], 1, 1)[i] : i \in DOMAIN SubSeq(priority_queue[p], 1, 1)}
           = First(p, 1)
  BY FirstOfQueue DEF PriorityInv
<1>2. overtaken' = {}
  BY NobodyOvertaken
<1>3. /\ server' = [server EXCEPT ![d] = NoTake]
      /\ served' = served \cup TakenBy(d) \cup First(p, 1)
  BY <1>1 DEF ReturnOrders
<1> QED
  BY <1>1, <1>2, <1>3, ReturnStep

\* A call that looks at a queue and goes on, or returns, without taking orders.
LEMMA LookStep ==
    ASSUME PriorityInv, NEW d \in Servers, NEW c \in Call, server' = [server EXCEPT ![d] = c],
           c.taken = <<>>, server[d].taken = <<>>, c.pc \notin InBatch,
           c.before \subseteq Accepted,
           c.pc \in {"second", "low length", "low"} => Waiting(Critical) \cap c.before = {},
           c.pc \in {"low length", "low"} => Waiting(Normal) \cap c.before = {},
           UNCHANGED <<priority_queue, entering, served, overtaken>>
    PROVE  PriorityInv'
<1>1. /\ server'[d] = c /\ \A e \in Servers : e # d => server'[e] = server[e]
      /\ server' \in [Servers -> Call]
  BY DEF PriorityInv, PriorityTyped
<1>2. /\ AllWaiting' = AllWaiting /\ Accepted' = Accepted
      /\ \A p \in Queues : Waiting(p)' = Waiting(p)
  BY DEF AllWaiting, Waiting, Accepted
<1>3. \A e \in Servers : server'[e].taken = server[e].taken
  BY <1>1
<1>4. \A e \in Servers : TakenBy(e)' = TakenBy(e)
  BY <1>3, ZenonT(60) DEF TakenBy
<1>5. PriorityTyped'
  <2>1. ASSUME NEW e \in Servers
        PROVE  /\ Len(server'[e].taken) <= TakeSize
               /\ server'[e].pc \notin InBatch => server'[e].taken = <<>>
    <3>1. CASE e = d
      BY <1>1, <1>3, <3>1 DEF PriorityInv, PriorityTyped
    <3>2. CASE e # d
      BY <1>1, <3>2 DEF PriorityInv, PriorityTyped
    <3> QED
      BY <3>1, <3>2
  <2> QED
    BY <1>1, <2>1 DEF PriorityInv, PriorityTyped
<1>6. OncePlaced'
  <2>1. priority_queue' = priority_queue
    OBVIOUS
  <2> QED
    BY <2>1, ZenonT(60) DEF PriorityInv, OncePlaced
<1>7. Accounted'
  <2>1. {} \subseteq AllWaiting /\ AllWaiting' = AllWaiting \ {}
        /\ served' = served /\ TakenBy(d)' = TakenBy(d) \cup {}
    BY <1>2, <1>4
  <2> QED
    BY <1>4, <2>1, MoveOrders DEF PriorityInv
<1>8. ASSUME NEW e \in Servers PROVE MoreUrgentPassed(e)'
  <2>1. CASE e = d
    <3>1. Critical \in Queues /\ Normal \in Queues
      BY DEF Queues
    <3> QED
      BY <1>1, <1>2, <2>1, <3>1 DEF MoreUrgentPassed, Passed, InBatch
  <2>2. CASE e # d
    BY <1>1, <1>2, <2>2, PassedKept DEF PriorityInv
  <2> QED
    BY <2>1, <2>2
<1>9. overtaken' = {}
  BY DEF PriorityInv
<1> QED
  BY <1>5, <1>6, <1>7, <1>8, <1>9 DEF PriorityInv

LEMMA OrderSequences ==
    <<>> \in Seq(PriorityOrders) /\ \A s \in Seq(PriorityOrders) : Len(s) \in Nat
OBVIOUS

LEMMA Between == \A n, t \in Nat : t <= n /\ n <= t => n = t
OBVIOUS

LEMMA DistinctQueues ==
    /\ Critical \in Queues /\ Normal \in Queues /\ Low \in Queues
    /\ Critical # Normal /\ Normal # Low /\ Critical # Low
BY DEF Queues, Critical, Normal, Low

\* What one step of a batch takes: all there is, all it still wants, or its share.
LEMMA BatchTakes ==
    ASSUME PriorityInv, NEW d \in Servers, NEW p \in Queues, NEW pc, NEW share \in Nat \ {0},
           BatchStep(d, pc, p, share)
    PROVE  \E n \in Nat, taken \in Seq(PriorityOrders) :
             /\ n <= Len(priority_queue[p]) /\ Pop(p, n)
             /\ {taken[i] : i \in DOMAIN taken} = TakenBy(d) \cup First(p, n)
             /\ n <= Len(taken) /\ Len(taken) <= TakeSize
             /\ n = Len(priority_queue[p]) \/ Len(taken) = TakeSize \/ n = share
             /\ (n = 0 /\ overtaken' = overtaken) \/ (~Full(d) /\ Overtake(d, p))
             /\ Full(d) => Len(taken) = TakeSize
             /\ IF p = Low THEN ReturnOrders(d, taken)
                ELSE /\ server' = [server EXCEPT ![d].taken = taken,
                                    ![d].pc = IF p = Critical THEN "batch normal" ELSE "batch low"]
                     /\ served' = served
             /\ entering' = entering
<1> DEFINE n == Smallest(Smallest(Len(priority_queue[p]), TakeSize - Len(server[d].taken)), share)
           taken == server[d].taken \o SubSeq(priority_queue[p], 1, n)
<1>1. /\ Pop(p, n) /\ IF n = 0 THEN UNCHANGED overtaken ELSE Overtake(d, p)
      /\ IF p = Low THEN ReturnOrders(d, taken)
         ELSE /\ server' = [server EXCEPT ![d].taken = taken,
                             ![d].pc = IF p = Critical THEN "batch normal" ELSE "batch low"]
              /\ served' = served
      /\ entering' = entering
  BY DEF BatchStep
<1>2. Len(priority_queue[p]) \in Nat /\ Len(server[d].taken) \in Nat /\ Len(server[d].taken) <= TakeSize
  <2>1. server[d].taken \in Seq(PriorityOrders) /\ Len(server[d].taken) <= TakeSize
    BY DEF PriorityInv, PriorityTyped, Call
  <2> QED
    BY <2>1, QueueLengths DEF PriorityInv
<1>3. n = Smallest(Smallest(Len(priority_queue[p]), TakeSize - Len(server[d].taken)), share)
  OBVIOUS
<1> HIDE DEF n
<1>4. /\ n \in Nat /\ n <= Len(priority_queue[p]) /\ Len(server[d].taken) + n <= TakeSize
      /\ n = Len(priority_queue[p]) \/ Len(server[d].taken) + n = TakeSize \/ n = share
      /\ Len(server[d].taken) = TakeSize => n = 0
  <2>1. TakeSize \in Nat /\ share \in Nat /\ share # 0
    BY Constants
  <2>2. PICK a \in Nat, b \in Nat : a = Len(priority_queue[p]) /\ b = Len(server[d].taken)
    BY <1>2
  <2>3. /\ a \in Nat /\ b \in Nat /\ b <= TakeSize
        /\ n = Smallest(Smallest(a, TakeSize - b), share)
    BY <1>2, <1>3, <2>2, Zenon
  <2>4. ASSUME NEW m, m = Smallest(Smallest(a, TakeSize - b), share)
        PROVE  /\ m \in Nat /\ m <= a /\ b + m <= TakeSize
               /\ m = a \/ b + m = TakeSize \/ m = share
               /\ b = TakeSize => m = 0
    <3>1. a \in Nat /\ b \in Nat /\ b <= TakeSize
      BY <2>3, Zenon
    <3> HIDE DEF taken
    <3> QED
      BY ONLY <2>1, <2>4, <3>1 DEF Smallest
  <2> QED
    BY <2>2, <2>3, <2>4, Zenon
<1>5. /\ taken \in Seq(PriorityOrders) /\ Len(taken) = Len(server[d].taken) + n
      /\ {taken[i] : i \in DOMAIN taken} = TakenBy(d) \cup First(p, n)
  BY <1>4, TakenPlaces DEF PriorityInv
<1> HIDE DEF taken
<1>6. Full(d) => Len(taken) = TakeSize
  BY <1>2, <1>4, <1>5 DEF Full
<1>7. (n = 0 /\ overtaken' = overtaken) \/ (~Full(d) /\ Overtake(d, p))
  BY <1>1, <1>4 DEF Full
<1>8. /\ n <= Len(taken) /\ Len(taken) <= TakeSize
      /\ n = Len(priority_queue[p]) \/ Len(taken) = TakeSize \/ n = share
  BY <1>2, <1>4, <1>5
<1> QED
  BY <1>1, <1>4, <1>5, <1>6, <1>7, <1>8

\* A queue that has been taken whole is empty.
LEMMA AllTaken ==
    ASSUME PriorityInv, NEW p \in Queues, NEW n \in Nat, n = Len(priority_queue[p]), Pop(p, n)
    PROVE  Waiting(p)' = {}
<1>1. Waiting(p)' = Waiting(p) \ First(p, n)
  BY PopQueue, QueueLengths DEF PriorityInv
<1>2. priority_queue[p] \in Seq(PriorityOrders)
  BY QueueLengths DEF PriorityInv
<1>3. DOMAIN priority_queue[p] = 1..n
  BY <1>2
<1> QED
  BY <1>1, <1>3 DEF Waiting, First

LEMMA BatchUrgentStep ==
    ASSUME PriorityInv, NEW d \in Servers, NEW p \in {Critical, Normal}, NEW pc,
           BatchStep(d, pc, p, TakeSize), p = Normal => pc = "batch normal"
    PROVE  PriorityInv'
<1>1. p \in Queues /\ p # Low /\ (p = Normal => p # Critical)
  BY DistinctQueues
<1>2. PICK n \in Nat, taken \in Seq(PriorityOrders) :
             /\ n <= Len(priority_queue[p]) /\ Pop(p, n)
             /\ {taken[i] : i \in DOMAIN taken} = TakenBy(d) \cup First(p, n)
             /\ n <= Len(taken) /\ Len(taken) <= TakeSize
             /\ n = Len(priority_queue[p]) \/ Len(taken) = TakeSize \/ n = TakeSize
             /\ (n = 0 /\ overtaken' = overtaken) \/ (~Full(d) /\ Overtake(d, p))
             /\ Full(d) => Len(taken) = TakeSize
             /\ server' = [server EXCEPT ![d].taken = taken,
                                    ![d].pc = IF p = Critical THEN "batch normal" ELSE "batch low"]
             /\ served' = served
             /\ entering' = entering
  BY <1>1, BatchTakes, Constants, ZenonT(60)
<1>3. p # Critical => Full(d) \/ Passed(d, Critical)
  <2>1. server[d].pc = pc
    BY DEF BatchStep
  <2> QED
    BY <1>1, <2>1 DEF PriorityInv, MoreUrgentPassed, InBatch
<1>4. overtaken' = {}
  BY <1>1, <1>2, <1>3, NobodyOvertaken DEF PriorityInv
<1>5. Len(taken) = TakeSize \/ Waiting(p)' = {}
  <2>1. CASE n = Len(priority_queue[p])
    BY <1>1, <1>2, <2>1, AllTaken
  <2>2. CASE n = TakeSize
    <3>1. n <= Len(taken) /\ Len(taken) <= TakeSize
      BY <1>2
    <3>2. Len(taken) \in Nat /\ TakeSize \in Nat
      BY <1>2, OrderSequences, Constants, Zenon
    <3> QED
      BY <2>2, <3>1, <3>2, Between, Zenon
  <2> QED
    BY <1>2, <2>1, <2>2
<1>6. CASE p = Critical
  <2>1. server' = [server EXCEPT ![d].taken = taken, ![d].pc = "batch normal"]
    BY <1>2, <1>6
  <2>2. "batch normal" \in InBatch /\ "batch normal" # "batch low"
    BY DEF InBatch
  <2> QED
    BY <1>1, <1>2, <1>4, <1>5, <1>6, <2>1, <2>2, KeepStep
<1>7. CASE p = Normal
  <2>1. server' = [server EXCEPT ![d].taken = taken, ![d].pc = "batch low"]
    BY <1>1, <1>2, <1>7
  <2>2. "batch low" \in InBatch
    BY DEF InBatch
  <2>3. Len(taken) = TakeSize \/ Passed(d, Critical)
    BY <1>1, <1>2, <1>3, <1>7
  <2> QED
    BY <1>1, <1>2, <1>4, <1>5, <1>7, <2>1, <2>2, <2>3, KeepStep
<1> QED
  BY <1>6, <1>7

LEMMA BatchLowStep ==
    ASSUME PriorityInv, NEW d \in Servers, BatchStep(d, "batch low", Low, LowShare)
    PROVE  PriorityInv'
<1>1. Low \in Queues /\ Low # Critical
  BY DistinctQueues
<1>2. PICK n \in Nat, taken \in Seq(PriorityOrders) :
             /\ n <= Len(priority_queue[Low]) /\ Pop(Low, n)
             /\ {taken[i] : i \in DOMAIN taken} = TakenBy(d) \cup First(Low, n)
             /\ (n = 0 /\ overtaken' = overtaken) \/ (~Full(d) /\ Overtake(d, Low))
             /\ ReturnOrders(d, taken)
             /\ entering' = entering
  BY <1>1, BatchTakes, Constants, ZenonT(60)
<1>3. /\ Full(d) \/ Passed(d, Critical)
      /\ Full(d) \/ Passed(d, Normal)
  <2>1. server[d].pc = "batch low"
    BY DEF BatchStep
  <2> QED
    BY <2>1 DEF PriorityInv, MoreUrgentPassed, InBatch
<1>4. overtaken' = {}
  BY <1>1, <1>2, <1>3, NobodyOvertaken DEF PriorityInv
<1>5. /\ server' = [server EXCEPT ![d] = NoTake]
      /\ served' = served \cup TakenBy(d) \cup First(Low, n)
  BY <1>2 DEF ReturnOrders
<1> QED
  BY <1>1, <1>2, <1>4, <1>5, ReturnStep

\* A call begins with what is waiting then.
LEMMA BeginStep ==
    ASSUME PriorityInv, NEW d \in Servers, NEW pc \in {"start", "batch critical"}, Begin(d, pc)
    PROVE  PriorityInv'
<1>2. AllWaiting \subseteq Accepted /\ AllWaiting \subseteq PriorityOrders
  <2>1. AllWaiting \subseteq PriorityOrders
    BY WhereWaiting DEF PriorityInv
  <2> QED
    BY <2>1 DEF PriorityInv, Accounted, Accepted
<1>3. <<>> \in Seq(PriorityOrders)
  BY OrderSequences, Zenon
<1>1. PICK c : c = [pc |-> pc, taken |-> <<>>, before |-> AllWaiting]
  OBVIOUS
<1>4. c \in Call /\ c.pc = pc /\ c.taken = <<>> /\ c.before = AllWaiting
  BY <1>1, <1>2, <1>3 DEF Call
<1>5. /\ server[d].taken = <<>> /\ server' = [server EXCEPT ![d] = c]
      /\ UNCHANGED <<priority_queue, entering, served, overtaken>>
  BY <1>1 DEF Begin, PriorityInv, PriorityTyped, InBatch
<1> QED
  BY <1>2, <1>4, <1>5, LookStep DEF InBatch

\* A call of dequeue goes on to the next queue, or returns without an order.
LEMMA GoOn ==
    ASSUME PriorityInv, NEW d \in Servers, NEW pc \in {"second", "low length", "low"},
           server[d].pc \notin InBatch,
           server' = [server EXCEPT ![d].pc = pc],
           Passed(d, Critical), pc # "second" => Passed(d, Normal),
           UNCHANGED <<priority_queue, entering, served, overtaken>>
    PROVE  PriorityInv'
<1>1. PICK c : c = [server[d] EXCEPT !.pc = pc]
  OBVIOUS
<1>2. server[d] \in Call /\ server[d].taken = <<>> /\ server[d].before \subseteq Accepted
  BY DEF PriorityInv, PriorityTyped, MoreUrgentPassed
<1>3. c \in Call /\ c.pc = pc /\ c.taken = <<>> /\ c.before = server[d].before
  BY <1>1, <1>2 DEF Call
<1>4. server' = [server EXCEPT ![d] = c]
  BY <1>1
<1> QED
  BY <1>2, <1>3, <1>4, LookStep, ZenonT(60) DEF InBatch, Passed

LEMMA GiveUp ==
    ASSUME PriorityInv, NEW d \in Servers, server[d].pc \notin InBatch,
           server' = [server EXCEPT ![d] = NoTake],
           UNCHANGED <<priority_queue, entering, served, overtaken>>
    PROVE  PriorityInv'
<1>1. NoTake \in Call /\ NoTake.pc = "idle" /\ NoTake.taken = <<>> /\ NoTake.before = {}
  BY DEF NoTake, Call
<1>2. server[d].taken = <<>>
  BY DEF PriorityInv, PriorityTyped
<1> QED
  BY <1>1, <1>2, LookStep DEF InBatch

LEMMA DequeueUrgentStep ==
    ASSUME PriorityInv, NEW d \in Servers, DequeueUrgent(d)
    PROVE  PriorityInv'
<1>1. /\ server[d].pc \in {"start", "second"} /\ server[d].pc \notin InBatch
      /\ entering' = entering
  BY DEF DequeueUrgent, InBatch
<1>2. PICK p \in Queues : p = NextQueue(server[d].pc)
  BY DEF NextQueue, Queues
<1>3. /\ p = IF server[d].pc = "start" THEN Critical ELSE Normal
      /\ p # Low /\ (p # Critical => server[d].pc = "second")
  BY <1>1, <1>2 DEF NextQueue, Low, Normal, Critical
<1>4. p # Critical => Passed(d, Critical)
  BY <1>3 DEF PriorityInv, MoreUrgentPassed
<1>5. CASE priority_queue[p] # <<>>
  <2>1. /\ Pop(p, 1) /\ Overtake(d, p)
        /\ ReturnOrders(d, SubSeq(priority_queue[p], 1, 1))
    BY <1>2, <1>5 DEF DequeueUrgent
  <2> QED
    BY <1>1, <1>3, <1>4, <1>5, <2>1, DequeueStep
<1>6. CASE priority_queue[p] = <<>>
  <2>1. /\ server' = [server EXCEPT ![d].pc = IF @ = "start" THEN "second" ELSE "low length"]
        /\ UNCHANGED <<priority_queue, served, overtaken>>
    BY <1>2, <1>6 DEF DequeueUrgent
  <2>2. Passed(d, p)
    BY <1>6 DEF Passed, Waiting
  <2>3. CASE server[d].pc = "start"
    <3>1. server' = [server EXCEPT ![d].pc = "second"]
      BY <2>1, <2>3
    <3> QED
      BY <1>1, <1>3, <2>1, <2>2, <2>3, <3>1, GoOn
  <2>4. CASE server[d].pc = "second"
    <3>1. server' = [server EXCEPT ![d].pc = "low length"]
      BY <2>1, <2>4
    <3>2. Passed(d, Critical) /\ Passed(d, Normal)
      BY <1>3, <2>2, <2>4 DEF PriorityInv, MoreUrgentPassed
    <3> QED
      BY <1>1, <2>1, <3>1, <3>2, GoOn
  <2> QED
    BY <1>1, <2>3, <2>4
<1> QED
  BY <1>5, <1>6

LEMMA LowLengthStep ==
    ASSUME PriorityInv, NEW d \in Servers, LowLength(d)
    PROVE  PriorityInv'
<1>1. /\ server[d].pc = "low length" /\ server[d].pc \notin InBatch
      /\ UNCHANGED <<priority_queue, entering, served, overtaken>>
      /\ \/ server' = [server EXCEPT ![d] = [@ EXCEPT !.pc = "low"]]
         \/ server' = [server EXCEPT ![d] = NoTake]
  BY DEF LowLength, InBatch
<1>2. Passed(d, Critical) /\ Passed(d, Normal)
  BY <1>1 DEF PriorityInv, MoreUrgentPassed
<1>3. CASE server' = [server EXCEPT ![d] = [@ EXCEPT !.pc = "low"]]
  <2>1. server' = [server EXCEPT ![d].pc = "low"]
    BY <1>3
  <2> QED
    BY <1>1, <1>2, <2>1, GoOn
<1>4. CASE server' = [server EXCEPT ![d] = NoTake]
  BY <1>1, <1>4, GiveUp
<1> QED
  BY <1>1, <1>3, <1>4

LEMMA DequeueLowStep ==
    ASSUME PriorityInv, NEW d \in Servers, DequeueLow(d)
    PROVE  PriorityInv'
<1>1. server[d].pc = "low" /\ server[d].pc \notin InBatch /\ entering' = entering
  BY DEF DequeueLow, InBatch
<1>2. Passed(d, Critical) /\ Passed(d, Normal)
  BY <1>1 DEF PriorityInv, MoreUrgentPassed
<1>3. CASE priority_queue[Low] # <<>>
  BY <1>1, <1>2, <1>3, DequeueStep DEF DequeueLow, Queues
<1>4. CASE priority_queue[Low] = <<>>
  <2>1. ReturnOrders(d, <<>>) /\ UNCHANGED <<priority_queue, overtaken>>
    BY <1>4 DEF DequeueLow
  <2>2. DOMAIN <<>> = {}
    OBVIOUS
  <2>3. served' = served /\ server' = [server EXCEPT ![d] = NoTake]
    BY <2>1, <2>2 DEF ReturnOrders
  <2> QED
    BY <1>1, <2>1, <2>3, GiveUp
<1> QED
  BY <1>3, <1>4
------------------------------------------------------------------------------
LEMMA NextIInv == PriorityInv /\ [PriorityNext]_priorityVars => PriorityInv'
<1> SUFFICES ASSUME PriorityInv, [PriorityNext]_priorityVars PROVE PriorityInv'
  OBVIOUS
<1>1. ASSUME UNCHANGED <<priority_queue, entering, server, served, overtaken>> PROVE PriorityInv'
  <2>1. /\ AllWaiting' = AllWaiting /\ Accepted' = Accepted
        /\ \A p \in Queues : Waiting(p)' = Waiting(p)
        /\ \A d \in Servers : TakenBy(d)' = TakenBy(d)
    BY <1>1 DEF AllWaiting, Waiting, Accepted, TakenBy
  <2>2. PriorityTyped' /\ OncePlaced'
    BY <1>1, ZenonT(60) DEF PriorityInv, PriorityTyped, OncePlaced
  <2>3. Accounted'
    BY <1>1, <2>1 DEF PriorityInv, Accounted
  <2>4. ASSUME NEW d \in Servers PROVE MoreUrgentPassed(d)'
    BY <1>1, <2>1, PassedKept DEF PriorityInv
  <2> QED
    BY <1>1, <2>2, <2>3, <2>4 DEF PriorityInv
<1>2. CASE UNCHANGED priorityVars
  BY <1>1, <1>2 DEF priorityVars
<1>3. CASE AddVipUser
  BY <1>1, <1>3 DEF AddVipUser
<1>4. ASSUME NEW o \in PriorityOrders, CalculatePriority(o) PROVE PriorityInv'
  <2>1. /\ entering[o] = "new"
        /\ UNCHANGED <<priority_queue, server, served, overtaken>>
    BY <1>4 DEF CalculatePriority
  <2>2. AmountClass[o] \in Queues
    BY Constants
  <2>3. \/ entering' = [entering EXCEPT ![o] = "to 2"]
        \/ entering' = [entering EXCEPT ![o] = "to 1"]
        \/ entering' = [entering EXCEPT ![o] = "to 0"]
    <3>1. CASE vip /\ o \in VipOrders
      BY <1>4, <3>1 DEF CalculatePriority
    <3>2. CASE ~(vip /\ o \in VipOrders) /\ AmountClass[o] = Critical
      BY <1>4, <3>2, DistinctQueues DEF CalculatePriority
    <3>3. CASE ~(vip /\ o \in VipOrders) /\ AmountClass[o] = Normal
      BY <1>4, <3>3, DistinctQueues DEF CalculatePriority
    <3>4. CASE ~(vip /\ o \in VipOrders) /\ AmountClass[o] = Low
      BY <1>4, <3>4, DistinctQueues DEF CalculatePriority
    <3> QED
      BY <2>2, <3>1, <3>2, <3>3, <3>4 DEF Queues
  <2> QED
    BY <2>1, <2>3, EnterStep
<1>5. ASSUME NEW o \in PriorityOrders, EnqueueOrder(o) PROVE PriorityInv'
  BY <1>5, EnqueueStep
<1>6. ASSUME NEW d \in Servers, Begin(d, "start") \/ Begin(d, "batch critical") PROVE PriorityInv'
  BY <1>6, BeginStep
<1>7. ASSUME NEW d \in Servers, DequeueUrgent(d) PROVE PriorityInv'
  BY <1>7, DequeueUrgentStep
<1>8. ASSUME NEW d \in Servers, LowLength(d) PROVE PriorityInv'
  BY <1>8, LowLengthStep
<1>9. ASSUME NEW d \in Servers, DequeueLow(d) PROVE PriorityInv'
  BY <1>9, DequeueLowStep
<1>10. ASSUME NEW d \in Servers, BatchStep(d, "batch critical", Critical, TakeSize) PROVE PriorityInv'
  BY <1>10, BatchUrgentStep, DistinctQueues
<1>11. ASSUME NEW d \in Servers, BatchStep(d, "batch normal", Normal, TakeSize) PROVE PriorityInv'
  BY <1>11, BatchUrgentStep
<1>12. ASSUME NEW d \in Servers, BatchStep(d, "batch low", Low, LowShare) PROVE PriorityInv'
  BY <1>12, BatchLowStep
<1> QED
  BY <1>2, <1>3, <1>4, <1>5, <1>6, <1>7, <1>8, <1>9, <1>10, <1>11, <1>12 DEF PriorityNext

\* The invariant of the three queues and of the calls that take orders from them,
\* of which the theorems below are consequences.
THEOREM PriorityInvariance == PrioritySpec => []PriorityInv
<1>1. PriorityInit => PriorityInv
  BY InitIInv
<1>2. PriorityInv /\ [PriorityNext]_priorityVars => PriorityInv'
  BY NextIInv
<1> QED
  BY <1>1, <1>2, PTL DEF PrioritySpec

LEMMA TakenOrders == Taken = UNION {TakenBy(d) : d \in Servers}
BY DEF Taken, TakenBy

\* What is waiting, taken or served was accepted, and neither the low queue nor a
\* batch grows beyond its limit.
THEOREM PriorityTypeCorrect == PrioritySpec => []PriorityTypeOK
<1>1. PriorityInv => PriorityTypeOK
  <2> SUFFICES ASSUME PriorityInv PROVE PriorityTypeOK
    OBVIOUS
  <2>1. ASSUME NEW o \in AllWaiting \cup Taken \cup served
        PROVE  o \in PriorityOrders /\ entering[o] = "queued"
    <3>1. o \in AllWaiting \/ o \in served \/ \E d \in Servers : o \in TakenBy(d)
      BY <2>1, TakenOrders
    <3>2. ASSUME NEW d \in Servers PROVE TakenBy(d) \subseteq PriorityOrders
      <4>1. server[d].taken \in Seq(PriorityOrders)
        BY DEF PriorityInv, PriorityTyped, Call
      <4> QED
        BY <4>1 DEF TakenBy
    <3>3. o \in PriorityOrders
      BY <3>1, <3>2, WhereWaiting DEF PriorityInv, PriorityTyped
    <3> QED
      BY <3>1, <3>3 DEF PriorityInv, Accounted
  <2> QED
    BY <2>1 DEF PriorityTypeOK, PriorityInv, PriorityTyped
<1> QED
  BY <1>1, PriorityInvariance, PTL

\* enqueue, dequeue and dequeue_batch, each under one lock at a time: nobody gets an
\* order while a more urgent one has been waiting since before the call began, and
\* an accepted order is at one place, never lost and never given twice.
THEOREM UrgentGoFirst == PrioritySpec => []UrgentFirst
<1>1. PriorityInv => UrgentFirst
  <2> SUFFICES ASSUME PriorityInv PROVE UrgentFirst
    OBVIOUS
  <2>1. ASSUME NEW d \in Servers PROVE TakenBy(d) \subseteq PriorityOrders
    <3>1. server[d].taken \in Seq(PriorityOrders)
      BY DEF PriorityInv, PriorityTyped, Call
    <3> QED
      BY <3>1 DEF TakenBy
  <2>2. AllWaiting \cup Taken \cup served = Accepted
    <3>1. AllWaiting \cup Taken \cup served \subseteq PriorityOrders
      BY <2>1, TakenOrders, WhereWaiting, ZenonT(60) DEF PriorityInv, PriorityTyped
    <3>2. \A o \in PriorityOrders :
            o \in AllWaiting \cup Taken \cup served <=> entering[o] = "queued"
      BY TakenOrders DEF PriorityInv, Accounted
    <3> QED
      BY <3>1, <3>2 DEF Accepted
  <2>3. AllWaiting \cap (Taken \cup served) = {} /\ Taken \cap served = {}
    BY TakenOrders DEF PriorityInv, Accounted
  <2>4. overtaken = {} /\ OncePlaced
    BY DEF PriorityInv
  <2> QED
    BY <2>2, <2>3, <2>4 DEF UrgentFirst, Accepted, OncePlaced, Queues
<1> QED
  BY <1>1, PriorityInvariance, PTL
=============================================================================
