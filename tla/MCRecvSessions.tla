--------------------------- MODULE MCRecvSessions ---------------------------
(* RecvSessions on small instances: two sessions, two upload requests.      *)
EXTENDS RecvSessions, TLC

\* Every file is announced under one name: the worst case for unique names.
SameDest == [f \in File |-> CHOOSE d \in Dest : TRUE]

Symmetry == Permutations(Session) \cup Permutations(Upload) \cup Permutations(File)

=============================================================================
