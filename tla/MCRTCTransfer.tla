--------------------------- MODULE MCRTCTransfer ---------------------------
(* RTCTransfer on small instances.                                         *)
EXTENDS RTCTransfer

CONSTANTS c1, c2, p1, p2, f1, f2, f3, f4, f5

\* Every connection from a device of its own.
OwnPeers == [c \in Conn |-> IF c = c1 THEN p1 ELSE p2]

\* Who offers which file: one each, or two and all the others.
OneEach == [f \in File |-> IF f = f2 THEN c2 ELSE c1]
TwoOfFirst == [f \in File |-> IF f \in {f1, f2} THEN c1 ELSE c2]

\* One data frame, or an empty file.
MixedSizes == [f \in File |-> IF f = f2 THEN 0 ELSE 1]

\* The sender with the empty file comes first: the other one neither offers nor gives up
\* before the first was answered or gave up.
InOrder == main[c2] = "waitAnswer" => accepting' # c1 /\ main'[c1] = "waitAnswer"

OrderedSpec == Init /\ [][Next /\ InOrder]_vars /\ WF_vars(Progress)
=============================================================================
