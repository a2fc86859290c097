------------------------------ MODULE MCFaults ------------------------------
(***************************************************************************)
(* Instances for TLC of what is there to survive faults: the elections of  *)
(* the cluster, what a node has answered over gRPC, the users, accounts    *)
(* and orders that a node finds when it starts again, the ticks, bars and  *)
(* snapshots of market data, the sessions that quotes go to, and what is   *)
(* kept of factors.  The parts share no state: a behaviour is one of one   *)
(* part, chosen at the start.                                              *)
(***************************************************************************)
EXTENDS Failover, UserManager, AccountRecovery, TickFlush, KLines,
        DiffSession, SnapshotGenerator, FactorStore,
        GatewayJournal, UnifiedRecovery, ReplicationRpc, TLC

CONSTANTS Parts, n1, n2, n3, i1, i2, r1, r2, a1, a2, o1, o2, o3, s1, s2, k1, k2

VARIABLE part
faultsVars == <<part, vars, userVars, recVars, tickVars, klineVars, sessVars, snapVars,
               factorVars, storeVars, journalVars, uniVars, rpcVars>>
Starting == <<userVars, recVars>>
Market == <<tickVars, klineVars, sessVars, snapVars>>
Factors == <<factorVars, storeVars>>
Others == <<journalVars, uniVars, rpcVars>>

\* Three nodes, two of which have committed a sequence the third has not logged.
MCNodes == {n1, n2, n3}
MCLastSequence == n1 :> 1 @@ n2 :> 1 @@ n3 :> 0
MCCommitIndex == n1 :> 1 @@ n2 :> 1 @@ n3 :> 0

\* Two sells of one account and a buy of another at one price.
Lot(a, s, v) == [acct |-> a, side |-> s, vol |-> v, price |-> 1]
MCLotRequest == o1 :> Lot(a1, "SELL", 2) @@ o2 :> Lot(a2, "BUY", 1) @@ o3 :> Lot(a1, "SELL", 1)

MCListed == <<i1, i2>>

\* The leader of term 2 has replaced an entry of the leader of term 1; one
\* candidate lacks its entry.
MCLeaderLog == <<<<1, 1>>, <<1, 2>>>>
MCLeaderCommit == <<1, 2>>
MCCandidateLast == k1 :> [seq |-> 1, term |-> 1] @@ k2 :> [seq |-> 2, term |-> 2]

FaultsInit == part \in Parts /\ Init /\ UserInit /\ RecInit /\ TickInit /\ KLineInit
              /\ SessInit /\ SnapInit /\ FactorInit /\ StoreInit
              /\ JournalInit /\ UniInit /\ RpcInit

\* r2 begins to register after r1.
UsersNext ==
    UserNext /\ (registering'[r1] = NotRegistering => registering'[r2] = NotRegistering)

\* Orders come when the AccountOpen records are stored or lost.
AccountsNext ==
    RecNext /\ (opening' # {} => \A o \in Lots : dailyorders'[o] = NoOrder)

\* s2 connects after s1.
SessionsNext == SessNext /\ (session'[s1].pc = "new" => session'[s2].pc = "new")

\* A spoiled directory is not followed further, and the second run of the
\* program has one event.
JournalsNext ==
    spoiled = {} /\ JournalNext /\ (process' > 1 => event_sequence' <= 1)

\* Handler 2 takes what comes while handler 1 is busy; after a mishap nothing is
\* followed further.
CallsNext ==
    mishaps = {} /\ RpcNext /\ (rpc[2] = NoCall /\ rpc'[2] # NoCall => rpc[1] # NoCall)

FaultsNext ==
    /\ part' = part
    /\ \/ part = "elections" /\ SerialNext /\ UNCHANGED <<Starting, Market, Factors, Others>>
       \/ part = "users" /\ UsersNext
          /\ UNCHANGED <<vars, recVars, Market, Factors, Others>>
       \/ part = "accounts" /\ AccountsNext
          /\ UNCHANGED <<vars, userVars, Market, Factors, Others>>
       \/ part = "ticks" /\ TickNext
          /\ UNCHANGED <<vars, Starting, klineVars, sessVars, snapVars, Factors, Others>>
       \/ part = "klines" /\ KLineNext
          /\ UNCHANGED <<vars, Starting, tickVars, sessVars, snapVars, Factors, Others>>
       \/ part = "sessions" /\ SessionsNext
          /\ UNCHANGED <<vars, Starting, tickVars, klineVars, snapVars, Factors, Others>>
       \/ part = "snapshots" /\ SnapNext
          /\ UNCHANGED <<vars, Starting, tickVars, klineVars, sessVars, Factors, Others>>
       \/ part = "factors" /\ FactorNext
          /\ UNCHANGED <<vars, Starting, Market, storeVars, Others>>
       \/ part = "states" /\ StoreNext
          /\ UNCHANGED <<vars, Starting, Market, factorVars, Others>>
       \/ part = "journals" /\ JournalsNext
          /\ UNCHANGED <<vars, Starting, Market, Factors, uniVars, rpcVars>>
       \/ part = "recovery" /\ UniNext
          /\ UNCHANGED <<vars, Starting, Market, Factors, journalVars, rpcVars>>
       \/ part = "rpc" /\ CallsNext
          /\ UNCHANGED <<vars, Starting, Market, Factors, journalVars, uniVars>>

FaultsSpec == FaultsInit /\ [][FaultsNext]_faultsVars

\* Elections alone, with the calls of a node's tasks interleaved.
TasksNext == part' = part /\ Next /\ UNCHANGED <<Starting, Market, Factors, Others>>
TasksSpec == FaultsInit /\ [][TasksNext]_faultsVars

\* What a property says of a part is asked for in that part only: in the others
\* its state does not change.
In(name, property) == part = name => property

\* Every part is in one of its states.
FaultsTypeOK ==
    CASE part = "elections" -> TypeOK
      [] part = "users" -> UserTypeOK
      [] part = "accounts" -> RecTypeOK
      [] part = "ticks" -> TickTypeOK
      [] part = "klines" -> KLineTypeOK
      [] part = "sessions" -> SessTypeOK
      [] part = "factors" -> FactorTypeOK
      [] part = "rpc" -> RpcTypeOK
      [] OTHER -> TRUE

\* What was answered is there after a fault: users with their roles, accounts
\* with their orders, the journals of the trade gateway and those of the unified
\* recovery, and the entries that a replica has answered for over gRPC.
RestartRestores ==
    /\ In("users", UsersSurvive) /\ In("accounts", AccountsRestored)
    /\ In("journals", JournalKept) /\ In("recovery", RecoversNewest)
    /\ In("rpc", AckedKept)

\* Market data survives its failures: the bars say of the ticks of their time
\* what the ticks say, across gaps of the feed and restarts of the process;
\* snapshots reach a subscriber in order, and quotes the sessions of a user.
MarketDataKept ==
    /\ In("klines", BarsExplainTicks) /\ In("snapshots", SnapshotsKept)
    /\ In("sessions", QuotesDelivered)
=============================================================================
