----------------------------- MODULE DurableLog -----------------------------
(***************************************************************************)
(* What the storage promises its writers: a log of records that survives   *)
(* crashes.  A record is acknowledged only when it is in the log, and only *)
(* truncation by a checkpoint takes records out of it.                     *)
(***************************************************************************)
CONSTANTS Records

VARIABLES
    log,    \* records that are on disk
    acked,  \* records whose write returned Ok
    cut     \* records that truncation took away

logVars == <<log, acked, cut>>

Init == log = {} /\ acked = {} /\ cut = {}

\* Records reach the disk together, or the file they go to is already gone.
Append(S) ==
    /\ log' = log \cup S
    /\ UNCHANGED <<acked, cut>>

AppendToUnlinked(S) ==
    /\ cut' = cut \cup S
    /\ UNCHANGED <<log, acked>>

Acknowledge(S) ==
    /\ S \subseteq log \cup cut
    /\ acked' = acked \cup S
    /\ UNCHANGED <<log, cut>>

Truncate(S) ==
    /\ log' = log \ S
    /\ cut' = cut \cup S
    /\ UNCHANGED acked

\* A crash and a restart are stuttering steps: they change nothing of the log.
Next ==
    \/ \E S \in SUBSET Records : Append(S) \/ AppendToUnlinked(S)
    \/ \E S \in SUBSET Records : Acknowledge(S)
    \/ \E S \in SUBSET log : Truncate(S)

Spec == Init /\ [][Next]_logVars
=============================================================================
