--------------------------- MODULE MCHybridStorage ---------------------------
(***************************************************************************)
(* Instances of HybridStorage for TLC.                                     *)
(***************************************************************************)
EXTENDS HybridStorage, TLC

WriterSymmetry == Permutations(Writers)

\* A behaviour has a checkpoint or a compaction: nothing is promised of SSTables
\* after both, and of the WAL they change apart.
MCNext == Next /\ (checkpoints' = 0 \/ compactions' = 0)

MCFairSpec == Init /\ [][MCNext]_vars /\ \A w \in Writers : WF_vars(Write(w))
==============================================================================
