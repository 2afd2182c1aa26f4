------------------------------ MODULE MCActiveNode ------------------------------
(* Constants for the runs of ActiveNode.                                   *)
EXTENDS ActiveNode

\* Two flows over one SCTP association, a TCP flow and a UDP flow.
AllConn     == <<1, 1, 2, 3>>
AllStream   == <<0, 1, 0, 0>>
AllProtocol == <<"SCTP", "TCP", "UDP">>
================================================================================
