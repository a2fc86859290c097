--------------------------- MODULE TradingSessions ---------------------------
(***************************************************************************)
(* The trading state machine (src/src/exchange/trading_session.rs), which  *)
(* an order router asks whether an order or a cancellation may come in:    *)
(* the calendar of the exchanges, the thread that follows it, states set   *)
(* by hand, and calls that read the clock twice while it goes on.          *)
(* Times are seconds of the day.                                           *)
(***************************************************************************)
EXTENDS Integers, FiniteSets, Sequences

CONSTANTS
    Contracts,       \* instruments
    ExchangeOf,      \* the exchange of an instrument, or NoExchange
    NoExchange,
    Moments,         \* times of the day at which something happens
    Traders,         \* threads that ask
    LoopThreads,     \* bound on the loops that run
    Overrides        \* bound on the states set by hand

Exchanges == <<"CFFEX", "SHFE", "DCE", "CZCE", "INE">>
States == {"Continuous", "AuctionOrder", "AuctionCancel", "AuctionMatch", "PreAuction", "Closed"}
Times == 0..86399

ASSUME TradingSessionsAssumption ==
    /\ IsFiniteSet(Contracts) /\ IsFiniteSet(Moments) /\ Moments # {} /\ Moments \subseteq Times
    /\ ExchangeOf \in [Contracts -> {"CFFEX", "SHFE", "SIM", NoExchange}]
    /\ Overrides \in Nat
------------------------------------------------------------------------------
(* The calendar. *)

At(hour, minute) == 3600 * hour + 60 * minute
Trading == {"order", "cancel", "match"}
Period(from, to, state, allows) == [from |-> from, to |-> to, state |-> state, allows |-> allows]

\* Mutant of Contains: the end belongs to a session.
ContainsEnd(s, time) ==
    IF s.from <= s.to THEN s.from <= time /\ time <= s.to ELSE s.from <= time \/ time <= s.to
\* A session may pass midnight.
Contains(s, time) ==
    IF s.from <= s.to THEN s.from <= time /\ time < s.to ELSE s.from <= time \/ time < s.to

StockIndex ==
    <<Period(At(9, 25), At(9, 29), "AuctionOrder", {"order"}),
      Period(At(9, 29), At(9, 30), "AuctionMatch", {"match"}),
      Period(At(9, 30), At(11, 30), "Continuous", Trading),
      Period(At(11, 30), At(13, 0), "Closed", {}),
      Period(At(13, 0), At(15, 0), "Continuous", Trading),
      Period(At(15, 0), At(15, 15), "AuctionOrder", {"order"})>>
Commodity ==
    <<Period(At(8, 55), At(9, 0), "AuctionOrder", {"order"}),
      Period(At(9, 0), At(10, 15), "Continuous", Trading),
      Period(At(10, 15), At(10, 30), "Closed", {}),
      Period(At(10, 30), At(11, 30), "Continuous", Trading),
      Period(At(11, 30), At(13, 30), "Closed", {}),
      Period(At(13, 30), At(15, 0), "Continuous", Trading),
      Period(At(21, 0), At(23, 0), "Continuous", Trading)>>
Simulated == <<Period(0, 86399, "Continuous", Trading)>>
Calendar(exchange) ==
    CASE exchange = "CFFEX" -> StockIndex [] exchange = "SIM" -> Simulated [] OTHER -> Commodity

\* The first session that contains a time, in a sequence of at most one.
CurrentSession(exchange, time) ==
    LET sessions == Calendar(exchange)
        found == {i \in DOMAIN sessions : Contains(sessions[i], time)}
    IN  IF found = {} THEN <<>> ELSE <<sessions[CHOOSE i \in found : \A j \in found : i <= j]>>
CurrentState(exchange, time) ==
    LET session == CurrentSession(exchange, time)
    IN  IF session = <<>> THEN "Closed" ELSE session[1].state
------------------------------------------------------------------------------
VARIABLES
    clock,
    global_state,
    instrument_states, \* states set by hand, "" if there is none
    running,
    auto_transition_enabled,
    loop,            \* loop[l]: [pc, exchange, time, old]
    question,        \* question[t]: [pc, about, instrument, state], and history:
                     \* [asked, answered, allowed, by_hand]
    mixed,           \* history: global_state was set by hand or by two loops at once
    overrides

sessionsVars == <<clock, global_state, instrument_states, running, auto_transition_enabled,
                  loop, question, mixed, overrides>>
switchVars == <<running, auto_transition_enabled>>
handVars == <<instrument_states, overrides>>

NoLoop == [pc |-> "none", exchange |-> 1, time |-> 0, old |-> "Closed"]
NoQuestion == [pc |-> "idle"]

SessionsInit ==
    /\ clock \in Moments /\ global_state = "Closed"
    /\ instrument_states = [i \in Contracts |-> ""]
    /\ running = FALSE /\ auto_transition_enabled = FALSE
    /\ loop = [l \in LoopThreads |-> NoLoop]
    /\ question = [t \in Traders |-> NoQuestion] /\ mixed = FALSE
    /\ overrides = 0

Earliest(times) == CHOOSE m \in times : \A n \in times : m <= n

\* The next moment, after the last one the first of the next day.
TimePasses ==
    /\ clock' = Earliest(IF \E m \in Moments : m > clock
                         THEN {m \in Moments : m > clock} ELSE Moments)
    /\ UNCHANGED <<global_state, switchVars, loop, question, mixed, handVars>>

\* A loop that has not looked at running since stop_auto_transition goes on beside
\* the new one.
StartAutoTransition(l) ==
    /\ ~auto_transition_enabled /\ loop[l].pc = "none"
    /\ auto_transition_enabled' = TRUE /\ running' = TRUE
    /\ loop' = [loop EXCEPT ![l].pc = "check"]
    /\ mixed' = (mixed \/ \E other \in LoopThreads : loop[other].pc # "none")
    /\ UNCHANGED <<clock, global_state, question, handVars>>

StopAutoTransition ==
    /\ auto_transition_enabled
    /\ running' = FALSE /\ auto_transition_enabled' = FALSE
    /\ UNCHANGED <<clock, global_state, loop, question, mixed, handVars>>

LoopCheck(l) ==
    /\ loop[l].pc = "check"
    /\ loop' = [loop EXCEPT ![l] = IF running THEN [@ EXCEPT !.pc = "read", !.exchange = 1, !.time = clock]
                                   ELSE NoLoop]
    /\ UNCHANGED <<clock, global_state, switchVars, question, mixed, handVars>>

\* update_exchange_state reads the old state and writes the new one under a lock
\* each.  All exchanges share one global_state.
LoopRead(l) ==
    /\ loop[l].pc = "read"
    /\ loop' = [loop EXCEPT ![l].pc = "write", ![l].old = global_state]
    /\ UNCHANGED <<clock, global_state, switchVars, question, mixed, handVars>>

LoopWrite(l) ==
    /\ loop[l].pc = "write"
    /\ LET new == CurrentState(Exchanges[loop[l].exchange], loop[l].time)
       IN  global_state' = IF loop[l].old # new THEN new ELSE global_state
    /\ loop' = IF loop[l].exchange = Len(Exchanges) THEN [loop EXCEPT ![l].pc = "check"]
               ELSE [loop EXCEPT ![l].pc = "read", ![l].exchange = @ + 1]
    /\ UNCHANGED <<clock, switchVars, question, mixed, handVars>>

SetGlobalState(state) ==
    /\ overrides < Overrides /\ overrides' = overrides + 1
    /\ global_state' = state /\ mixed' = TRUE
    /\ UNCHANGED <<clock, instrument_states, switchVars, loop, question>>

SetInstrumentState(i, state) ==
    /\ overrides < Overrides /\ overrides' = overrides + 1
    /\ instrument_states' = [instrument_states EXCEPT ![i] = state]
    /\ UNCHANGED <<clock, global_state, switchVars, loop, question, mixed>>

\* validate_order ("order") and validate_cancel ("cancel"): get_instrument_state
\* with a clock reading of its own.
Ask(t, about, i) ==
    /\ question[t].pc # "decide"
    /\ question' = [question EXCEPT ![t] =
         [pc |-> "decide", about |-> about, instrument |-> i, asked |-> clock,
          state |-> IF instrument_states[i] # "" THEN instrument_states[i]
                    ELSE IF ExchangeOf[i] # NoExchange THEN CurrentState(ExchangeOf[i], clock)
                    ELSE global_state]]
    /\ UNCHANGED <<clock, global_state, switchVars, loop, mixed, handVars>>

\* The states in which an order or a cancellation is allowed.
Permits(about) ==
    IF about = "order" THEN {"Continuous", "AuctionOrder", "PreAuction"}
    ELSE {"Continuous", "PreAuction", "AuctionCancel"}

\* A second reading: a session that is there must allow it too.
Decide(t) ==
    /\ question[t].pc = "decide"
    /\ LET q == question[t]
           session == IF ExchangeOf[q.instrument] = NoExchange THEN <<>>
                      ELSE CurrentSession(ExchangeOf[q.instrument], clock)
           allowed == /\ session # <<>> => q.about \in session[1].allows
                      /\ q.state \in Permits(q.about)
       IN  question' = [question EXCEPT ![t] =
             [pc |-> "answered", about |-> q.about, instrument |-> q.instrument,
              asked |-> q.asked, answered |-> clock, allowed |-> allowed,
              by_hand |-> instrument_states[q.instrument] # ""]]
    /\ UNCHANGED <<clock, global_state, switchVars, loop, mixed, handVars>>

SessionsNext ==
    \/ TimePasses \/ StopAutoTransition
    \/ \E l \in LoopThreads : StartAutoTransition(l) \/ LoopCheck(l) \/ LoopRead(l) \/ LoopWrite(l)
    \/ \E state \in {"Closed", "AuctionCancel"} :
         SetGlobalState(state) \/ \E i \in Contracts : SetInstrumentState(i, state)
    \/ \E t \in Traders :
         \/ \E i \in Contracts, about \in {"order", "cancel"} : Ask(t, about, i)
         \/ Decide(t)
------------------------------------------------------------------------------
(* Properties. *)

SessionsTypeOK ==
    /\ clock \in Moments /\ global_state \in States
    /\ running \in BOOLEAN /\ auto_transition_enabled \in BOOLEAN
    /\ \A l \in LoopThreads : loop[l].exchange \in DOMAIN Exchanges /\ loop[l].time \in Moments \cup {0}

Open(about, i, time) ==
    \E n \in DOMAIN Calendar(ExchangeOf[i]) :
        LET s == Calendar(ExchangeOf[i])[n]
        IN  s.from <= time /\ time < s.to /\ about \in s.allows

\* An order or a cancellation that the calendar allows has come while a session
\* permitted it, and no session that forbids it had begun when it was decided; one
\* that is refused met a moment at which no session permitted it.  And the thread
\* of the calendar leaves in global_state what the last of its exchanges has.
SessionsRespected ==
    /\ \A t \in Traders :
         LET q == question[t]
         IN  q.pc = "answered" /\ ~q.by_hand /\ ExchangeOf[q.instrument] # NoExchange =>
               IF q.allowed
               THEN /\ Open(q.about, q.instrument, q.asked)
                    /\ Open(q.about, q.instrument, q.answered)
                       \/ CurrentSession(ExchangeOf[q.instrument], q.answered) = <<>>
               ELSE ~Open(q.about, q.instrument, q.asked) \/ ~Open(q.about, q.instrument, q.answered)
    /\ \A l \in LoopThreads :
         ~mixed /\ loop[l].pc = "check" /\ loop[l].exchange # 1 =>
           global_state = CurrentState("INE", loop[l].time)
=============================================================================
