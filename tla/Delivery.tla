------------------------------ MODULE Delivery ------------------------------
(***************************************************************************)
(* What a receive session promises about the files it accepted, whatever   *)
(* the requests, timeouts, retries and clean-ups do to each other.         *)
(*                                                                         *)
(* A file is first open.  It is settled at most once, either stored (its   *)
(* whole, verified content is on disk, and stays there) or failed.  Only a *)
(* stored file is ever acknowledged to the sender with status 200.         *)
(***************************************************************************)

CONSTANT Key          \* the accepted files: pairs <<session, file>>

VARIABLES stored,     \* files whose verified content is on disk
          failed,     \* files given up for good
          acked       \* files for which a sender was told 200

deliveryVars == <<stored, failed, acked>>

Init ==
    /\ stored = {}
    /\ failed = {}
    /\ acked = {}

Store(k) ==
    /\ k \notin stored \cup failed
    /\ stored' = stored \cup {k}
    /\ UNCHANGED <<failed, acked>>

Fail(k) ==
    /\ k \notin stored \cup failed
    /\ failed' = failed \cup {k}
    /\ UNCHANGED <<stored, acked>>

Ack(k) ==
    /\ k \in stored
    /\ acked' = acked \cup {k}
    /\ UNCHANGED <<stored, failed>>

Next == \E k \in Key : Store(k) \/ Fail(k) \/ Ack(k)

Spec == Init /\ [][Next]_deliveryVars

=============================================================================
