---------------------------- MODULE MCFileReceiver ----------------------------
(***************************************************************************)
(* FileReceiver with some devices on one host, and each of the others on a  *)
(* host of its own.                                                        *)
(***************************************************************************)
EXTENDS FileReceiver

CONSTANT Together    \* the devices on one host

MCHostOf == [p \in Device |-> IF p \in Together THEN CHOOSE q \in Together : TRUE ELSE p]
=============================================================================
