-------------------------- MODULE MCControlProtocol --------------------------
(* Constants for the runs of ControlProtocol.                              *)
EXTENDS ControlProtocol

\* Of three flows the first uses TCP or SCTP, the others UDP or DCCP: a flow is
\* set up while a repeated Identify of an earlier one is still in flight.
MCUnreliable == {2, 3}

\* Everything that may go wrong but the error after which the active node waits
\* for ever (see RemoveWaitEnds).
MCFaults == FaultNames \ {"flowWrite"}
==============================================================================
