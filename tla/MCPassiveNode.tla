----------------------------- MODULE MCPassiveNode -----------------------------
(* Constants for the runs of PassiveNode.                                  *)
EXTENDS PassiveNode

\* An active node with two flows over one SCTP association and a UDP flow, and
\* another one with a TCP flow.
AllConn     == <<1, 1, 2, 3>>
AllStream   == <<0, 1, 0, 0>>
AllProtocol == <<"SCTP", "TCP", "UDP">>
AllControl  == <<1, 2, 1>>

\* One active node with a TCP and an SCTP flow.
OwnConn     == <<1, 2>>
OwnStream   == <<0, 0>>
OwnProtocol == <<"TCP", "SCTP">>
OwnControl  == <<1, 1>>
================================================================================
