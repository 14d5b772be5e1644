------------------------------ MODULE Sockets ------------------------------
(***************************************************************************)
(* The connections of both kinds of socket, PUB and RADIO, side by side.   *)
(***************************************************************************)
EXTENDS Connection

CONSTANTS
    GROUP_CAP, NAME_CAP     \* capacities of the group table

\* As in GroupTable.
ASSUME CapsAssumption == GROUP_CAP \in Nat /\ NAME_CAP \in Nat

Radio == INSTANCE RadioConnection
=============================================================================
