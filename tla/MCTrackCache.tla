---------------------------- MODULE MCTrackCache ----------------------------
(* An instance of TrackCache: a hard disk with LBA whose last track C/H/S   *)
(* does not reach, mapped by EZ-Drive; a floppy; and a drive that is not    *)
(* there.  A partition may be longer than its disk.                         *)
EXTENDS TrackCache, TLC

MCGeometry == 1 :> [sectors |-> 2, lba |-> 4, chs |-> 2]
           @@ 2 :> [sectors |-> 1, lba |-> 0, chs |-> 3]
MCEzd == 1 :> {0} @@ 2 :> {}
MCPartitions == {[drive |-> 1, start |-> 0, length |-> 0],
                 [drive |-> 1, start |-> 1, length |-> 4],
                 [drive |-> 2, start |-> 0, length |-> 0],
                 [drive |-> 3, start |-> 0, length |-> 0]}
=============================================================================
