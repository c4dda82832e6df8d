--------------------------- MODULE MCMeasuredFile ---------------------------
(* MeasuredFile on small files.                                            *)
EXTENDS MeasuredFile, FiniteSets

CONSTANTS MaxCloses, MaxCount  \* the bounds of MCNext

Plain(n)  == [name |-> "plain", raw |-> n, kind |-> "plain", block |-> FALSE,
              off |-> 0, used |-> 0, plain |-> 0]
Blocks(n) == [name |-> "blocks", raw |-> n, kind |-> "plain", block |-> TRUE,
              off |-> 0, used |-> 0, plain |-> 0]
Gz(n, o, u, p, b) == [name |-> "gz", raw |-> n, kind |-> "gzip", block |-> b,
                      off |-> o, used |-> u, plain |-> p]
Bad(n)    == [name |-> "bad", raw |-> n, kind |-> "badgzip", block |-> FALSE,
              off |-> 0, used |-> 0, plain |-> 0]

(* An empty and a plain file; a gzip file whose trailer is in the last     *)
(* buffer the decompressor reads and one whose trailer is beyond it; a     *)
(* file with a bad gzip header; a plain and a compressed blocklist.        *)
MCFiles == {Plain(0), Plain(2), Gz(6, 1, 5, 2, FALSE), Gz(6, 1, 4, 3, FALSE),
            Bad(1), Blocks(2), Gz(4, 1, 3, 1, TRUE)}

(* Bounds: files closed with measuring on, after which no other is opened,  *)
(* and bytes counted, which a caller that reads a file again and again      *)
(* would count without end.                                                 *)
MCNext == /\ Next
          /\ opened' /\ ~opened =>
               Len(pcr14) + Cardinality(accepted) < MaxCloses
          /\ sha1_byte_count' <= MaxCount

(* Without a file, only what a failed grub_open leaves behind is told apart;*)
(* once a read has failed the contents of the hash are not; a machine that  *)
(* has stopped is one state for each PCR 14.                                *)
MCView ==
  IF halted THEN <<pcr14>>
  ELSE <<flagVars, errnum, opened, staged, tpmVars, file, block_file, filemax,
         IF opened THEN <<compressed_file, trouble, sha1_byte_count,
                          sha1_has_to_measure, filepos>>
                   ELSE <<JustFailed>>,
         IF opened /\ ~trouble THEN <<rawpos, my_sha1, strayed>> ELSE <<>>>>

MCSpec == Init /\ [][MCNext]_fileVars
=============================================================================
