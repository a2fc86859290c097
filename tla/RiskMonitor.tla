---------------------------- MODULE RiskMonitor ----------------------------
(***************************************************************************)
(* The intra-day risk monitor (RiskMonitor, risk/risk_monitor.rs): loops   *)
(* that look at every account once an interval, raise alerts and trigger   *)
(* liquidations, while monitoring is switched on and off, the              *)
(* configuration is changed and alerts are handled or cleared.             *)
(*                                                                         *)
(* Risk ratios are percentages.  A check of an account is one step: it     *)
(* holds the account's write lock, and nobody else uses last_risk_levels.  *)
(***************************************************************************)
EXTENDS Integers, FiniteSets, Sequences

CONSTANTS
    RiskAccounts,
    Loops,        \* threads that start_monitoring may spawn
    RiskRatios,   \* the risk ratios an account may have
    MaxAlerts,    \* max_alerts_per_account
    RiskMoves     \* bound on what others do

ASSUME RiskAssumption ==
    /\ IsFiniteSet(RiskAccounts) /\ IsFiniteSet(Loops)
    /\ RiskRatios \subseteq Nat /\ 0 \in RiskRatios
    /\ MaxAlerts \in Nat \ {0} /\ RiskMoves \in Nat

VARIABLES
    risk_ratio,         \* risk_ratio[a], get_riskratio of the account
    monitor_running,
    auto_liquidation,   \* config.auto_liquidation_enabled
    loops,              \* loops[l]: [pc, auto, left]
    last_risk_levels,   \* last_risk_levels[a]
    risk_alerts,        \* risk_alerts[a]: sequence of [type, handled]
    risk_moves

riskVars == <<risk_ratio, monitor_running, auto_liquidation, loops, last_risk_levels,
              risk_alerts, risk_moves>>

LiquidationThreshold == 100
Low == 0
Level(ratio) ==
    IF ratio < 60 THEN Low ELSE IF ratio < 80 THEN 1 ELSE IF ratio < 95 THEN 2 ELSE 3

NoLoop == [pc |-> "none", auto |-> FALSE, left |-> {}]
RiskInit ==
    /\ risk_ratio = [a \in RiskAccounts |-> 0]
    /\ monitor_running = FALSE /\ auto_liquidation = TRUE
    /\ loops = [l \in Loops |-> NoLoop]
    /\ last_risk_levels = [a \in RiskAccounts |-> Low]
    /\ risk_alerts = [a \in RiskAccounts |-> <<>>]
    /\ risk_moves = 0
------------------------------------------------------------------------------
(* What others do. *)

Moved1 == risk_moves < RiskMoves /\ risk_moves' = risk_moves + 1

\* Prices and orders change what an account risks.
RatioChanges(a, r) ==
    /\ Moved1 /\ risk_ratio' = [risk_ratio EXCEPT ![a] = r]
    /\ UNCHANGED <<monitor_running, auto_liquidation, loops,
                   last_risk_levels, risk_alerts>>

UpdateConfig ==
    /\ Moved1 /\ auto_liquidation' = ~auto_liquidation
    /\ UNCHANGED <<risk_ratio, monitor_running, loops,
                   last_risk_levels, risk_alerts>>

\* A stopped loop that still sleeps is not waited for: a second one is started
\* beside it, and when the first wakes up it goes on as well.
StartMonitoring(l) ==
    /\ Moved1
    /\ ~monitor_running /\ loops[l] = NoLoop
    /\ monitor_running' = TRUE
    /\ loops' = [loops EXCEPT ![l].pc = "test"]
    /\ UNCHANGED <<risk_ratio, auto_liquidation,
                   last_risk_levels, risk_alerts>>

StopMonitoring ==
    /\ Moved1 /\ monitor_running /\ monitor_running' = FALSE
    /\ UNCHANGED <<risk_ratio, auto_liquidation, loops,
                   last_risk_levels, risk_alerts>>

\* The first alert with the id is marked.
MarkAlertHandled(a, i) ==
    /\ i \in DOMAIN risk_alerts[a] /\ ~risk_alerts[a][i].handled
    /\ risk_alerts' = [risk_alerts EXCEPT ![a][i].handled = TRUE]
    /\ UNCHANGED <<risk_ratio, monitor_running, auto_liquidation, loops, last_risk_levels, risk_moves>>

ClearAlerts(a) ==
    /\ Moved1 /\ risk_alerts[a] # <<>>
    /\ risk_alerts' = [risk_alerts EXCEPT ![a] = <<>>]
    /\ UNCHANGED <<risk_ratio, monitor_running, auto_liquidation, loops, last_risk_levels>>
------------------------------------------------------------------------------
(* A loop. *)

\* The flag is tested; a check reads the configuration and the accounts once.
Test(l) ==
    /\ loops[l].pc = "test"
    /\ loops' = [loops EXCEPT ![l] =
                   IF monitor_running
                   THEN [pc |-> "check", auto |-> auto_liquidation, left |-> RiskAccounts]
                   ELSE NoLoop]
    /\ UNCHANGED <<risk_ratio, monitor_running, auto_liquidation,
                   last_risk_levels, risk_alerts, risk_moves>>

\* The alerts one look at an account raises, in order.  The available money is
\* below zero when more than everything is taken for margin.
Raised(auto, last, ratio) ==
    LET level == Level(ratio)
        When(holds, type) == IF holds THEN <<type>> ELSE <<>>
    IN  When(level > last, "escalation")
        \o When(ratio > 100, "negative")
        \o When(ratio >= 95 /\ ratio < LiquidationThreshold, "near")
        \o When(ratio >= LiquidationThreshold /\ auto, "liquidation")

\* create_alert for each: only the newest are kept, handled or not.
LastOf(q, n) == IF Len(q) <= n THEN q ELSE SubSeq(q, Len(q) - n + 1, Len(q))
WithAlerts(alerts, types) ==
    LastOf(alerts \o [i \in DOMAIN types |-> [type |-> types[i], handled |-> FALSE]], MaxAlerts)

CheckAccount(l, a) ==
    /\ loops[l].pc = "check" /\ a \in loops[l].left
    /\ risk_alerts' = [risk_alerts EXCEPT ![a] =
                         WithAlerts(@, Raised(loops[l].auto, last_risk_levels[a], risk_ratio[a]))]
    /\ last_risk_levels' = [last_risk_levels EXCEPT ![a] = Level(risk_ratio[a])]
    /\ loops' = [loops EXCEPT ![l].left = @ \ {a}]
    /\ UNCHANGED <<risk_ratio, monitor_running, auto_liquidation, risk_moves>>

\* The sleep after the last account ends by itself.
EndCheck(l) ==
    /\ loops[l].pc = "check" /\ loops[l].left = {}
    /\ loops' = [loops EXCEPT ![l] = [NoLoop EXCEPT !.pc = "test"]]
    /\ UNCHANGED <<risk_ratio, monitor_running, auto_liquidation,
                   last_risk_levels, risk_alerts, risk_moves>>

LoopStep(l) == Test(l) \/ EndCheck(l) \/ \E a \in RiskAccounts : CheckAccount(l, a)

RiskNext ==
    \/ UpdateConfig \/ StopMonitoring
    \/ \E l \in Loops : StartMonitoring(l) \/ LoopStep(l)
    \/ \E a \in RiskAccounts :
         \/ ClearAlerts(a)
         \/ \E r \in RiskRatios : RatioChanges(a, r)
         \/ \E i \in 1..MaxAlerts : MarkAlertHandled(a, i)

\* A loop is a thread: nothing keeps it from going on.
RiskFairness == \A l \in Loops : WF_riskVars(LoopStep(l))
RiskSpec == RiskInit /\ [][RiskNext]_riskVars /\ RiskFairness
------------------------------------------------------------------------------
(* Properties. *)

RiskTypeOK ==
    /\ risk_ratio \in [RiskAccounts -> RiskRatios]
    /\ last_risk_levels \in [RiskAccounts -> 0..3]
    /\ \A a \in RiskAccounts : Len(risk_alerts[a]) <= MaxAlerts
    /\ \A l \in Loops : loops[l].pc \in {"none", "test", "check"}

\* An account that stays over the liquidation threshold while monitoring and
\* automatic liquidation stay on is brought up again and again, whatever was
\* stopped, started, handled and cleared before.
OverIsNoticed ==
    \A a \in RiskAccounts :
        <>[](monitor_running /\ auto_liquidation /\ risk_ratio[a] >= LiquidationThreshold)
          => []<>(risk_alerts[a] # <<>> /\ risk_alerts[a][Len(risk_alerts[a])].type = "liquidation")
=============================================================================
