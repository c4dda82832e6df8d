----------------------------- MODULE BlockDevice -----------------------------
(***************************************************************************)
(* What the file systems and the commands that write expect of a disk: a   *)
(* read gives what was last written, or fails.  A request that fails may   *)
(* leave the device unreliable until the next command drops its cache.     *)
(* On a disk of EZ-Drive, sector 0 is a name of sector 1.                  *)
(***************************************************************************)
EXTENDS Integers

CONSTANTS
  SectorSize,    \* bytes in a sector
  EzdSectors     \* EzdSectors[d]: the sectors of drive d that look like EZ-Drive's

VARIABLES
  phys,       \* phys[d][s]: the contents of sector s of drive d, as a version
  req,        \* the request under way
  answer,     \* what the last one gave
  reliable

devVars == <<phys, req, answer, reliable>>

NoRequest == [op |-> "none", drive |-> 0, sector |-> 0, off |-> 0, len |-> 0]
Failed == [ok |-> FALSE, data |-> <<>>]

Place(d, s) == IF s = 0 /\ 0 \in EzdSectors[d] THEN 1 ELSE s

(* Every sector of a request is a sector of the disk. *)
OnDisk(r) ==
  /\ r.drive \in DOMAIN phys
  /\ \A i \in 0..(r.len - 1) : r.sector + (r.off + i) \div SectorSize \in DOMAIN phys[r.drive]

(* Byte i of a request, counted from 0. *)
ByteAt(r, i) ==
  LET s == Place(r.drive, r.sector + (r.off + i) \div SectorSize)
  IN <<r.drive, s, phys[r.drive][s], (r.off + i) % SectorSize>>

Contents(r) == [ok |-> TRUE, data |-> [i \in 1..r.len |-> ByteAt(r, i - 1)]]

Init == /\ req = NoRequest /\ answer = Failed /\ reliable = TRUE

(* A request begins; what the last one gave is used up. *)
Ask == /\ req = NoRequest /\ req' # NoRequest
       /\ answer' = Failed
       /\ UNCHANGED <<phys, reliable>>

Fail == answer' = Failed /\ reliable' \in {reliable, FALSE} /\ UNCHANGED phys

Read == /\ req.op = "read" /\ req' = NoRequest
        /\ \/ OnDisk(req) /\ answer' = Contents(req) /\ UNCHANGED <<phys, reliable>>
           \/ ~reliable /\ UNCHANGED <<phys, reliable>>       \* any answer
           \/ Fail

Write == /\ req.op = "write" /\ req' = NoRequest
         /\ \/ /\ req.sector \in DOMAIN phys[req.drive]
               /\ phys' = [phys EXCEPT ![req.drive][Place(req.drive, req.sector)] = @ + 1]
               /\ answer' = [ok |-> TRUE, data |-> <<>>]
               /\ UNCHANGED reliable
            \/ Fail

(* Selecting a disk may fail too. *)
Select == /\ req = NoRequest /\ req' = NoRequest
          /\ reliable' \in {reliable, FALSE}
          /\ UNCHANGED <<phys, answer>>

(* A command begins; removable disks may have been exchanged. *)
Command == /\ req = NoRequest /\ req' = NoRequest
           /\ reliable' = TRUE
           /\ UNCHANGED answer

Next == Ask \/ Read \/ Write \/ Select \/ Command

Spec == Init /\ [][Next]_devVars
=============================================================================
