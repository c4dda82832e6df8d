----------------------------- MODULE TrackCache -----------------------------
(***************************************************************************)
(* Reading and writing sectors (stage2/disk_io.c, stage2/bios.c): rawread  *)
(* goes track by track through a buffer that holds one track of one drive, *)
(* rawwrite writes a sector and drops that track from the buffer, and      *)
(* buf_geom is the geometry of the drive whose track is buffered.          *)
(*                                                                         *)
(* The BIOS may fail at any call.  A sector's contents are a version; the  *)
(* buffer holds cells <<drive, sector, version>>.                          *)
(***************************************************************************)
EXTENDS Integers, Sequences

CONSTANTS
  Drives,        \* the drives that exist
  Absent,        \* drives that a command may name and that do not exist
  Geometry,      \* Geometry[d]: sectors of a track, totals by LBA and by C/H/S
  Partitions,    \* the partitions: drive, start, length; length 0 for a whole disk
  Removable,     \* the drives whose disk may be exchanged
  BUFFERLEN,     \* the buffer, in sectors: 63
  SectorSize,    \* bytes in a sector: 512
  EzdSectors,    \* EzdSectors[d]: the sectors that look like EZ-Drive's
  MaxRead,       \* bound: bytes of a read
  MaxWrites      \* bound: changes of the disks

ASSUME BoundsAssumption ==
  /\ SectorSize \in Nat \ {0} /\ BUFFERLEN \in Nat \ {0}
  /\ MaxRead \in Nat /\ SectorSize <= MaxRead /\ MaxWrites \in Nat

ASSUME DrivesAssumption ==
  /\ Drives \cup Absent \subseteq Nat /\ Drives \cap Absent = {} /\ Removable \subseteq Drives
  /\ Partitions \subseteq [drive: Drives \cup Absent, start: Nat, length: Nat]

(* The BIOS counts the sectors of a track in six bits, so a track fits.    *)
ASSUME GeometryAssumption ==
  \A d \in Drives : /\ Geometry[d].sectors \in 1..BUFFERLEN
                    /\ Geometry[d].chs \in Nat /\ Geometry[d].chs % Geometry[d].sectors = 0
                    /\ Geometry[d].lba \in Nat

(* EZ-Drive marks the first sector of a hard disk and keeps the partition  *)
(* table in the second one, of the same track.                             *)
ASSUME EzdAssumption ==
  \A d \in Drives : /\ EzdSectors[d] \subseteq {0}
                    /\ EzdSectors[d] # {} => Geometry[d].sectors > 1

VARIABLES
  phys,          \* the disks
  buf_drive,     \* -1, or the drive whose track is in the buffer
  buf_track,     \* -1, or the first sector of the track
  buf_geom,      \* sectors, total_sectors, the LBA flag, and whose geometry it is
  buffer,        \* BUFFERADDR
  current,       \* the open partition: current_drive, part_start, part_length
  req, io,       \* the request, and where rawread's loop is
  answer,
  failed,        \* history: a call failed since the command began
  halted,        \* a division by zero
  writes

cache == <<buf_drive, buf_track, buf_geom, buffer>>
vars == <<phys, cache, current, req, io, answer, failed, halted, writes>>

Slots == 0..(BUFFERLEN - 1)
NoDrive == -1
NoCell == <<NoDrive, 0, 0>>
NoRequest == [op |-> "none", drive |-> 0, sector |-> 0, off |-> 0, len |-> 0]
NoIO == [sector |-> 0, off |-> 0, len |-> 0, out |-> <<>>]
Failed == [ok |-> FALSE, data |-> <<>>]
Min(a, b) == IF a < b THEN a ELSE b
-----------------------------------------------------------------------------
(* bios.c *)

(* get_diskinfo, when it succeeds. *)
DiskInfo(d) == [sectors |-> Geometry[d].sectors, of |-> d,
                lba |-> Geometry[d].lba > 0,
                total |-> IF Geometry[d].lba > 0 THEN Geometry[d].lba ELSE Geometry[d].chs]

(* When it fails it has cleared the flags, and stored what the registers   *)
(* held: no disk has 0 sectors.  The total remains.                        *)
Clobbered(g) == {[g EXCEPT !.of = NoDrive, !.lba = FALSE, !.sectors = n] : n \in {0, 1}}

get_diskinfo(d) ==
  \/ /\ d \in Drives
     /\ buf_geom' = DiskInfo(d) /\ buf_drive' = d /\ buf_track' = -1
  \/ /\ d \in Absent
     /\ buf_geom' \in Clobbered(buf_geom)
     /\ UNCHANGED <<buf_drive, buf_track>>

(* biosdisk: how a transfer of n sectors from s may end.  If it fails by   *)
(* LBA, it is tried by C/H/S, for good, and the disk gets smaller.  With a *)
(* geometry that is not the drive's, C/H/S names some other sector.        *)
Outcome(r, g, s) == [res |-> r, geom |-> g, at |-> s]

ByCHS(g, d, s, n) ==
  IF g.of # d THEN {Outcome("ok", g, x) : x \in {y \in DOMAIN phys[d] : y + n - 1 \in DOMAIN phys[d]}}
                   \cup {Outcome("err", g, s)}
  ELSE IF s >= Geometry[d].chs THEN {Outcome("geom", g, s)}
  ELSE {Outcome("err", g, s)} \cup (IF s + n <= Geometry[d].chs THEN {Outcome("ok", g, s)} ELSE {})

biosdisk(g, d, s, n) ==
  IF g.lba THEN (IF s + n <= Geometry[d].lba THEN {Outcome("ok", g, s)} ELSE {})
                \cup ByCHS([g EXCEPT !.lba = FALSE, !.total = Geometry[d].chs], d, s, n)
  ELSE ByCHS(g, d, s, n)

(* What the buffer holds after n sectors from s were read: biosdisk does   *)
(* not know how long it is.                                                *)
Filled(b, d, s, n) == [i \in DOMAIN b \cup 0..(n - 1) |-> IF i < n THEN <<d, s + i, phys[d][s + i]>> ELSE b[i]]

LooksEzd(cell) == cell[1] # NoDrive /\ cell[2] \in EzdSectors[cell[1]]
-----------------------------------------------------------------------------
(* rawread *)

Busy == req.op # "none"

(* devread: the bounds of the partition, then the loop. *)
devread ==
  /\ ~Busy /\ ~halted /\ current.drive # NoDrive
  /\ \E s \in 0..(current.length - 1), off \in 0..SectorSize, n \in 1..MaxRead :
       /\ s + ((off + n - 1) \div SectorSize) < current.length
       /\ req' = [op |-> "read", drive |-> current.drive,
                  sector |-> current.start + s + off \div SectorSize, off |-> off % SectorSize, len |-> n]
       /\ io' = [sector |-> current.start + s + off \div SectorSize, off |-> off % SectorSize,
                 len |-> n, out |-> <<>>]
  /\ answer' = Failed
  /\ UNCHANGED <<phys, cache, current, failed, halted, writes>>

(* make_saved_active reads the first sector of the root's hard disk, of    *)
(* which its command has opened no partition; rootnoverify may have named  *)
(* a disk that is not there.                                               *)
ReadSavedMBR ==
  /\ ~Busy /\ ~halted /\ ~failed /\ current.drive = NoDrive /\ buf_drive = NoDrive
  /\ \E d \in (Drives \cup Absent) \ Removable :
       req' = [op |-> "read", drive |-> d, sector |-> 0, off |-> 0, len |-> SectorSize]
  /\ io' = [NoIO EXCEPT !.len = SectorSize]
  /\ answer' = Failed
  /\ UNCHANGED <<phys, cache, current, failed, halted, writes>>

Finish(a) == req' = NoRequest /\ io' = NoIO /\ answer' = a
Fail == Finish(Failed) /\ failed' = TRUE

(* The wrong drive is in the buffer. *)
ReadGeometry ==
  /\ req.op = "read" /\ buf_drive # req.drive /\ ~halted
  /\ get_diskinfo(req.drive)
  /\ IF req.drive \in Drives THEN UNCHANGED <<req, io, answer, failed>> ELSE Fail
  /\ UNCHANGED <<phys, buffer, current, halted, writes>>

Reading == req.op = "read" /\ buf_drive = req.drive /\ ~halted

OutOfDisk ==
  /\ Reading /\ io.sector >= buf_geom.total
  /\ Fail
  /\ UNCHANGED <<phys, cache, current, halted, writes>>

DivideError ==
  /\ Reading /\ io.sector < buf_geom.total /\ buf_geom.sectors = 0
  /\ halted' = TRUE
  /\ UNCHANGED <<phys, cache, current, req, io, answer, failed, writes>>

sectors_per_vtrack == Min(buf_geom.sectors, BUFFERLEN)
soff == io.sector % sectors_per_vtrack
track == io.sector - soff
num_sect == sectors_per_vtrack - soff
slen == (io.off + io.len + SectorSize - 1) \div SectorSize

(* The results of filling the buffer on a miss: the whole track, or, when  *)
(* the read goes on in the next track, only the sectors that are needed,   *)
(* at the buffer's beginning.  Where the BIOS cannot read the track, the   *)
(* needed sectors are tried.  base is the place of the data.               *)
Cached(b, t, g, base) == [ok |-> TRUE, buffer |-> b, track |-> t, geom |-> g, base |-> base]
NotRead(b, g) == [ok |-> FALSE, buffer |-> b, track |-> -1, geom |-> g, base |-> 0]

RetryNeeded(g, d) ==
  {IF r.res = "ok" THEN Cached(Filled(buffer, d, r.at, slen), -1, r.geom, io.off)
                   ELSE NotRead(buffer, r.geom) : r \in biosdisk(g, d, io.sector, slen)}

(* Mutant: the retry is not confined to a single track. *)
OnlyOnGeometry(r, partial) == r.res = "geom"

GivesUp(r, partial) == r.res = "geom" \/ partial

Fetch(d) ==
  LET partial == slen > num_sect
      from == IF partial THEN io.sector ELSE track
      n == IF partial THEN num_sect ELSE sectors_per_vtrack
      base == IF partial THEN io.off ELSE soff * SectorSize + io.off
  IN UNION {IF r.res = "ok" THEN {Cached(Filled(buffer, d, r.at, n), track, r.geom, base)}
            ELSE IF GivesUp(r, partial) THEN {NotRead(buffer, r.geom)}
            ELSE RetryNeeded(r.geom, d) : r \in biosdisk(buf_geom, d, from, n)}

(* EZ-Drive: the first sector is replaced by the second. *)
MapEzd(c, d) ==
  IF ~((c.track = 0 \/ io.sector = 0) /\ LooksEzd(c.buffer[0])) THEN {c}
  ELSE IF c.track = 0 \/ slen >= 2 THEN {[c EXCEPT !.buffer[0] = c.buffer[1]]}
  ELSE {IF r.res = "ok" THEN [c EXCEPT !.buffer = Filled(@, d, r.at, 1), !.geom = r.geom]
        ELSE [c EXCEPT !.ok = FALSE, !.geom = r.geom] : r \in biosdisk(c.geom, d, 1, 1)}

(* Mutant: the data are always where the track has them. *)
InPlace(c) == soff * SectorSize + io.off

DataAt(c) == c.base

(* What is copied to the caller, from place base of the buffer. *)
Copied(b, base, n) == [i \in 1..n |-> LET k == base + i - 1 IN Append(b[k \div SectorSize], k % SectorSize)]

ReadRound ==
  /\ Reading /\ io.sector < buf_geom.total /\ buf_geom.sectors > 0
  /\ \E c \in (IF track = buf_track
               THEN {Cached(buffer, buf_track, buf_geom, soff * SectorSize + io.off)}
               ELSE UNION {MapEzd(f, req.drive) : f \in Fetch(req.drive)}) :
       /\ buffer' = c.buffer /\ buf_track' = c.track /\ buf_geom' = c.geom
       /\ LET size == Min(io.len, num_sect * SectorSize - io.off)
              out == io.out \o Copied(c.buffer, DataAt(c), size)
          IN IF ~c.ok THEN Fail
             ELSE /\ UNCHANGED failed
                  /\ IF size = io.len THEN Finish([ok |-> TRUE, data |-> out])
                     ELSE /\ io' = [sector |-> io.sector + num_sect, off |-> 0,
                                    len |-> io.len - size, out |-> out]
                          /\ UNCHANGED <<req, answer>>
  /\ UNCHANGED <<phys, buf_drive, current, halted, writes>>
-----------------------------------------------------------------------------
(* rawwrite.  A command that writes has the partition open, and ends at    *)
(* its first error.                                                        *)

devwrite ==
  /\ ~Busy /\ ~halted /\ ~failed /\ current.drive # NoDrive
  /\ buf_drive = current.drive /\ writes < MaxWrites
  /\ \E s \in 0..(current.length - 1) :
       req' = [op |-> "write", drive |-> current.drive, sector |-> current.start + s, off |-> 0, len |-> 0]
  /\ answer' = Failed
  /\ UNCHANGED <<phys, cache, current, io, failed, halted, writes>>

(* ... and writes the sector back that it has read. *)
WriteSavedMBR ==
  /\ ~Busy /\ ~halted /\ ~failed /\ current.drive = NoDrive
  /\ buf_drive # NoDrive /\ writes < MaxWrites
  /\ req' = [op |-> "write", drive |-> buf_drive, sector |-> 0, off |-> 0, len |-> 0]
  /\ answer' = Failed
  /\ UNCHANGED <<phys, cache, current, io, failed, halted, writes>>

(* Sector 0 is read first, to see whether it is mapped. *)
Target(s, g, d) ==
  IF s # 0 THEN {Outcome("ok", g, s)}
  ELSE {IF r.res = "ok" /\ LooksEzd(<<d, r.at, 0>>) THEN [r EXCEPT !.at = 1] ELSE r :
          r \in biosdisk(g, d, 0, 1)}

(* Mutant: the cache is left alone. *)
KeepsTrack(s) == FALSE

InTrack(s) == s - (s % buf_geom.sectors) = buf_track

rawwrite ==
  /\ req.op = "write" /\ ~halted
  /\ \E t \in Target(req.sector, buf_geom, req.drive) :
       IF t.res # "ok" THEN Fail /\ buf_geom' = t.geom /\ UNCHANGED <<phys, buf_track, writes>>
       ELSE \E r \in biosdisk(t.geom, req.drive, t.at, 1) :
              /\ buf_geom' = r.geom
              /\ IF r.res # "ok" THEN Fail /\ UNCHANGED <<phys, buf_track, writes>>
                 ELSE /\ phys' = [phys EXCEPT ![req.drive][r.at] = @ + 1]
                      /\ writes' = writes + 1
                      /\ buf_track' = IF InTrack(r.at) THEN -1 ELSE buf_track
                      /\ Finish([ok |-> TRUE, data |-> <<>>])
                      /\ UNCHANGED failed
  /\ UNCHANGED <<buf_drive, buffer, current, halted>>
-----------------------------------------------------------------------------
(* real_open_partition: make sure that buf_geom is valid.  A whole disk    *)
(* has the length that the geometry says.                                  *)
open_partition ==
  /\ ~Busy /\ ~halted
  /\ \E p \in Partitions :
       /\ IF buf_drive # p.drive THEN get_diskinfo(p.drive)
          ELSE UNCHANGED <<buf_drive, buf_track, buf_geom>>
       /\ IF p.drive \in Drives
          THEN /\ current' = [p EXCEPT !.length = IF @ = 0 THEN buf_geom'.total ELSE @]
               /\ UNCHANGED failed
          ELSE /\ current' = [p EXCEPT !.drive = NoDrive]
               /\ failed' = TRUE
  /\ UNCHANGED <<phys, buffer, req, io, answer, halted, writes>>

(* A command begins: the user may have exchanged removable disks. *)
NewCommand ==
  /\ ~Busy /\ ~halted
  /\ buf_drive' = NoDrive
  /\ failed' = FALSE
  /\ \/ UNCHANGED <<phys, writes>>
     \/ /\ writes < MaxWrites /\ writes' = writes + 1
        /\ \E d \in Removable : phys' = [phys EXCEPT ![d] = [s \in DOMAIN phys[d] |-> phys[d][s] + 1]]
  /\ current' = [current EXCEPT !.drive = NoDrive]
  /\ UNCHANGED <<buf_track, buf_geom, buffer, req, io, answer, halted>>
-----------------------------------------------------------------------------
Size(d) == IF Geometry[d].lba > Geometry[d].chs THEN Geometry[d].lba ELSE Geometry[d].chs

Init ==
  /\ phys = [d \in Drives |-> [s \in 0..(Size(d) - 1) |-> 0]]
  /\ buf_drive = NoDrive /\ buf_track = 0
  /\ buf_geom = [sectors |-> 0, of |-> NoDrive, lba |-> FALSE, total |-> 0]
  /\ buffer = [i \in Slots |-> NoCell]
  /\ current = [drive |-> NoDrive, start |-> 0, length |-> 0]
  /\ req = NoRequest /\ io = NoIO /\ answer = Failed
  /\ failed = FALSE /\ halted = FALSE /\ writes = 0

Next == devread \/ ReadSavedMBR \/ ReadGeometry \/ OutOfDisk \/ DivideError \/ ReadRound
        \/ devwrite \/ WriteSavedMBR \/ rawwrite \/ open_partition \/ NewCommand

Spec == Init /\ [][Next]_vars
-----------------------------------------------------------------------------
(***************************************************************************)
(* PROPERTIES                                                              *)
(***************************************************************************)
(* The variables of disk_io.c keep their types; no transfer of biosdisk    *)
(* reaches beyond the buffer.                                              *)
TypeOK ==
  /\ buf_drive \in Drives \cup {NoDrive}
  /\ buf_track \in Nat \cup {-1} /\ buf_geom.sectors \in 0..BUFFERLEN
  /\ buf_geom.of \in Drives \cup {NoDrive}
  /\ DOMAIN buffer = Slots
  /\ \A i \in Slots : Len(buffer[i]) = 3
  /\ current.drive \in Drives \cup {NoDrive}
  /\ req.op \in {"none", "read", "write"} /\ io.len \in 0..MaxRead
  /\ answer.ok \in BOOLEAN /\ failed \in BOOLEAN /\ halted \in BOOLEAN
  /\ writes \in 0..MaxWrites

(* Between requests, and as long as no call failed in this command, the    *)
(* buffer holds the track that buf_track names as the disk has it, with    *)
(* sector 0 mapped: the partial reads of a long read, the writes and the   *)
(* exchanged disks leave nothing stale behind.                             *)
CacheIsTrack ==
  ~Busy /\ ~failed /\ buf_drive # NoDrive /\ buf_track # -1 =>
    /\ buf_geom.of = buf_drive
    /\ \A i \in 0..(buf_geom.sectors - 1) :
         LET s == IF buf_track + i = 0 /\ 0 \in EzdSectors[buf_drive] THEN 1 ELSE buf_track + i
         IN buffer[i] = <<buf_drive, s, phys[buf_drive][s]>>

BD == INSTANCE BlockDevice WITH reliable <- ~failed

(* The buffered disk is a block device: whatever the BIOS does, a read     *)
(* gives what was last written or fails, as long as no call of the same    *)
(* command failed before.                                                  *)
ImplementsBlockDevice == BD!Spec
=============================================================================
