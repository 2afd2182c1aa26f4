--------------------------- MODULE MCLossAccounting ---------------------------
(* Constants for the run of LossAccounting, with MaxMsgSize = 2.           *)
EXTENDS LossAccounting

\* Frames of two packets, unless the second one fails; all delays are below
\* the timeout.
TwoPackets ==
  [frameSizes |-> {3}, timeout |-> 2, maxDelay |-> 1, repeating |-> FALSE,
   maxFrames |-> 3, maxTime |-> 4]

\* The same frames; a packet may come after its frame has been purged.
LatePackets ==
  [frameSizes |-> {3}, timeout |-> 1, maxDelay |-> 2, repeating |-> FALSE,
   maxFrames |-> 3, maxTime |-> 3]

\* Frames of one packet, full or short, and a network that repeats packets.
OnePacket ==
  [frameSizes |-> {1, 2}, timeout |-> 2, maxDelay |-> 1, repeating |-> TRUE,
   maxFrames |-> 3, maxTime |-> 5]

AllSettings == {TwoPackets, LatePackets, OnePacket}
===============================================================================
