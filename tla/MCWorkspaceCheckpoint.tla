----------------------- MODULE MCWorkspaceCheckpoint ------------------------
(* WorkspaceCheckpoint for TLC.                                              *)
EXTENDS WorkspaceCheckpoint

\* Every archive differs from every other.
DistinctPayloads == Ckpts
DistinctContent  == [c \in Ckpts |-> c]
=============================================================================
