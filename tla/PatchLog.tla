------------------------------- MODULE PatchLog -------------------------------
(***************************************************************************)
(* What the snapshot manager promises about the patches of one user: a     *)
(* patch is handed out once, to one peek, after those pushed before it,    *)
(* and it is handed out unless the user's state is thrown away first.      *)
(***************************************************************************)
EXTENDS Naturals, Sequences

CONSTANT Patches, States
VARIABLES
    live,    \* the state that peeks and pushes find, 0 if there is none
    queue,   \* queue[k]: patches of state k not handed out yet
    taken    \* taken[k]: patches handed out, in order
logVars == <<live, queue, taken>>

Init ==
    /\ live = 0
    /\ queue = [k \in States |-> <<>>]
    /\ taken = [k \in States |-> <<>>]

Push(k, p) ==
    /\ \A i \in DOMAIN queue[k] : queue[k][i] # p
    /\ \A i \in DOMAIN taken[k] : taken[k][i] # p
    /\ queue' = [queue EXCEPT ![k] = Append(@, p)]
    /\ UNCHANGED <<live, taken>>

Take(k) ==
    /\ queue[k] # <<>>
    /\ taken' = [taken EXCEPT ![k] = @ \o queue[k]]
    /\ queue' = [queue EXCEPT ![k] = <<>>]
    /\ UNCHANGED live

Replace ==
    /\ live' \in {0} \cup States
    /\ live' # 0 => live = 0 /\ queue[live'] = <<>> /\ taken[live'] = <<>>
    /\ UNCHANGED <<queue, taken>>

Next ==
    \/ \E k \in States, p \in Patches : Push(k, p)
    \/ \E k \in States : Take(k)
    \/ Replace

Spec == Init /\ [][Next]_logVars /\ \A k \in States : WF_logVars(live = k /\ Take(k))
=============================================================================
