------------------------------- MODULE MCTftp -------------------------------
(* An instance of Tftp: a file of up to six bytes in packets of two, three *)
(* or five, a window of four, and block numbers of two bits, so that the   *)
(* last block of the longest file has no number.                           *)
EXTENDS Tftp

MCServers ==
  {[kind |-> k, blksize |-> 2, tsize |-> FALSE] : k \in {"error", "plain", "noak", "odd"}}
  \cup {[kind |-> "oack", blksize |-> b, tsize |-> t] : b \in {3, 5}, t \in BOOLEAN}
=============================================================================
