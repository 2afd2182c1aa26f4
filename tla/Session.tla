------------------------------- MODULE Session -------------------------------
(***************************************************************************)
(* What one measurement session promises, seen from outside: the phase the *)
(* active node is in and whether the passive node is measuring.  Nothing   *)
(* is said of messages, flows, trials or files; ControlProtocol says how   *)
(* the two nodes keep these promises over their control association.       *)
(***************************************************************************)
VARIABLES
  active,     \* phase of the active node
  passive     \* what the passive node does for this session

vars == <<active, passive>>

ActivePhases  == {"preparing", "running", "stopping", "collecting",
                  "finished", "failed"}
PassivePhases == {"idle", "measuring", "gone"}

Init == active = "preparing" /\ passive = "idle"

\* The passive node measures only for a session that is being prepared, or
\* for one whose active node died after it asked.
Begin == /\ active \in {"preparing", "failed"}
         /\ passive = "idle"
         /\ passive' = "measuring"
         /\ UNCHANGED active

\* The active node takes the measurement to be running on both nodes: it is,
\* unless the passive node has dropped out since.
Confirm == /\ active = "preparing"
           /\ passive # "idle"
           /\ active' = "running"
           /\ UNCHANGED passive

Leave == active = "running" /\ active' = "stopping" /\ UNCHANGED passive

End == /\ active \in {"stopping", "failed"}
       /\ passive = "measuring"
       /\ passive' = "idle"
       /\ UNCHANGED active

\* Results are collected from a node that no longer adds to them.
Collect == /\ active = "stopping"
           /\ passive # "measuring"
           /\ active' = "collecting"
           /\ UNCHANGED passive

Finish == /\ active = "collecting"
          /\ passive # "measuring"
          /\ active' = "finished"
          /\ UNCHANGED passive

Fail == /\ active \notin {"finished", "failed"}
        /\ active' = "failed"
        /\ UNCHANGED passive

\* The passive node forgets the session for good.
Vanish == passive # "gone" /\ passive' = "gone" /\ UNCHANGED active

Next == \/ Begin \/ Confirm \/ Leave \/ End
        \/ Collect \/ Finish \/ Fail \/ Vanish

Spec == Init /\ [][Next]_vars
==============================================================================
