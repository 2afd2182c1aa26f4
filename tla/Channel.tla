-------------------------------- MODULE Channel --------------------------------
(***************************************************************************)
(* What the MessageReaders of both ends of a connection promise: a node    *)
(* gets whole messages, each once and in the order they were sent.         *)
(***************************************************************************)
EXTENDS Naturals, Sequences

CONSTANTS
  Nodes

VARIABLES
  sent,       \* node |-> messages sent to it
  delivered   \* node |-> messages it got

Init == /\ sent \in [Nodes -> {<<>>}]
        /\ delivered = [n \in Nodes |-> <<>>]

Send == \E n \in Nodes :
  /\ Len(sent'[n]) = Len(sent[n]) + 1
  /\ SubSeq(sent'[n], 1, Len(sent[n])) = sent[n]
  /\ \A o \in Nodes \ {n} : sent'[o] = sent[o]
  /\ UNCHANGED delivered

Deliver == \E n \in Nodes :
  /\ Len(delivered[n]) < Len(sent[n])
  /\ delivered' = [delivered EXCEPT ![n] = Append(@, sent[n][Len(@) + 1])]
  /\ UNCHANGED sent

Spec == Init /\ [][Send \/ Deliver]_<<sent, delivered>>
================================================================================
