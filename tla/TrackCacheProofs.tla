--------------------------- MODULE TrackCacheProofs ---------------------------
(***************************************************************************)
(* Proofs about TrackCache: the buffer holds the track it is said to hold, *)
(* and a disk read through it is a block device.  What makes this hard is  *)
(* that in the middle of a long read the buffer does not hold the track    *)
(* that buf_track names: it holds the end of the track, at its beginning.  *)
(***************************************************************************)
EXTENDS TrackCache, SequenceTheorems, TLAPS

Sectors(d) == Geometry[d].sectors

(* What the buffer has to hold of sector s, and where on the disk it is. *)
CellOf(disks, d, s) == <<d, BD!Place(d, s), disks[d][BD!Place(d, s)]>>

(* A track begins at s, and buffer b holds it. *)
IsTrack(d, s) == s \in Nat /\ s % Sectors(d) = 0 /\ s + Sectors(d) <= Size(d)
HoldsTrack(b, disks, d, s) == \A i \in 0 .. (Sectors(d) - 1) : b[i] = CellOf(disks, d, s + i)

GeomRecord == [sectors: 0 .. BUFFERLEN, of: Drives \cup {NoDrive}, lba: BOOLEAN, total: Nat]
Request == [op: {"none", "read", "write"}, drive: Drives \cup Absent, sector: Nat,
            off: 0 .. (SectorSize - 1), len: 0 .. MaxRead]

(* The types that TypeOK leaves open. *)
StateOK ==
  /\ DOMAIN phys = Drives /\ \A d \in Drives : DOMAIN phys[d] = 0 .. (Size(d) - 1)
  /\ \A i \in Slots : buffer[i][1] \in Drives \cup {NoDrive}
  /\ buf_geom \in GeomRecord
  /\ current.start \in Nat /\ current.length \in Nat
  /\ req = NoRequest \/ (req \in Request /\ req.op # "none")
  /\ io.sector \in Nat /\ io.off \in 0 .. (SectorSize - 1)

(* The geometry is that of a drive, or was lost. *)
GeometryKnown == buf_geom.of \in Drives => buf_geom.sectors = Sectors(buf_geom.of)

(* As long as nothing failed, the geometry is that of the drive whose      *)
(* track is buffered, and the buffer holds the track, or the read under    *)
(* way goes on behind it.                                                  *)
BufferKnown ==
  ~failed /\ buf_drive # NoDrive =>
    /\ buf_geom.of = buf_drive
    /\ buf_track # -1 =>
         /\ IsTrack(buf_drive, buf_track)
         /\ \/ HoldsTrack(buffer, phys, buf_drive, buf_track)
            \/ req.op = "read" /\ buf_drive = req.drive /\ io.sector = buf_track + Sectors(buf_drive)

(* A write is under way in a command that has not failed, on the drive     *)
(* that is buffered.                                                       *)
WriteReady == req.op = "write" => ~failed /\ buf_drive = req.drive /\ writes < MaxWrites

(* What a read has copied so far is what the disk has, and the rest is     *)
(* where the loop has got to.                                              *)
Done == req.len - io.len
ReadSoFar ==
  req.op = "read" /\ ~failed =>
    /\ Done \in Nat /\ req.sector <= io.sector
    /\ req.off + Done = (io.sector - req.sector) * SectorSize + io.off
    /\ io.out = [i \in 1 .. Done |-> BD!ByteAt(req, i - 1)]
    /\ \A i \in 0 .. (Done - 1) :
         /\ req.drive \in Drives
         /\ req.sector + (req.off + i) \div SectorSize < Size(req.drive)

DiskInv == TypeOK /\ StateOK /\ GeometryKnown /\ BufferKnown /\ WriteReady /\ ReadSoFar

-----------------------------------------------------------------------------
(* Division *)

LEMMA DivMod ==
  ASSUME NEW a \in Nat, NEW n \in Nat \ {0}
  PROVE  a \div n \in Nat /\ a % n \in 0 .. (n - 1) /\ a = n * (a \div n) + (a % n)
OBVIOUS

(* Whole sectors before a byte are whole sectors of its place. *)
LEMMA DivShift ==
  ASSUME NEW a \in Nat, NEW b \in Nat, NEW n \in Nat \ {0}
  PROVE  (a * n + b) \div n = a + (b \div n) /\ (a * n + b) % n = b % n
<1> DEFINE q == b \div n
           r == b % n
<1>1. q \in Nat /\ r \in 0 .. (n - 1) /\ b = n * q + r
  BY DivMod
<1> HIDE DEF q, r
<1>2. a * n + b = n * (a + q) + r /\ a + q \in Nat
  BY <1>1
<1>3. \A p \in Nat : (n * p + r) \div n = p /\ (n * p + r) % n = r
  BY <1>1
<1>4. (n * (a + q) + r) \div n = a + q /\ (n * (a + q) + r) % n = r
  BY <1>2, <1>3
<1>5. QED
  BY <1>2, <1>4 DEF q, r

LEMMA DivSmall ==
  ASSUME NEW n \in Nat \ {0}, NEW i \in 0 .. (n - 1)
  PROVE  i \div n = 0 /\ i % n = i
<1> DEFINE q == i \div n
           r == i % n
<1>0. i \in Nat
  OBVIOUS
<1>1. q \in Nat /\ r \in 0 .. (n - 1) /\ i = n * q + r
  BY <1>0, DivMod
<1> HIDE DEF q, r
<1>2. q = 0
  <2>1. SUFFICES ASSUME q # 0 PROVE FALSE
    OBVIOUS
  <2>2. n * q = n + n * (q - 1) /\ n * (q - 1) \in Nat
    BY <1>1, <2>1
  <2>3. QED
    BY <1>1, <2>2
<1>3. r = i
  BY <1>1, <1>2
<1>4. QED
  BY <1>2, <1>3 DEF q, r

LEMMA DivBelow ==
  ASSUME NEW a \in Nat, NEW n \in Nat \ {0}, NEW m \in Nat, a < m * n
  PROVE  a \div n < m
OBVIOUS

(* The sectors that hold a number of bytes. *)
LEMMA RoundUp ==
  ASSUME NEW a \in Nat, NEW n \in Nat \ {0}
  PROVE  /\ (a + n - 1) \div n \in Nat /\ a <= ((a + n - 1) \div n) * n
         /\ \A m \in Nat : m < (a + n - 1) \div n => m * n < a
<1> DEFINE q == (a + n - 1) \div n
           r == (a + n - 1) % n
<1>1. a + n - 1 \in Nat
  OBVIOUS
<1>2. q \in Nat /\ r \in 0 .. (n - 1) /\ a + n - 1 = n * q + r
  BY <1>1, DivMod
<1> HIDE DEF q, r
<1>3. a <= q * n
  BY <1>2
<1>4. ASSUME NEW m \in Nat, m < q PROVE m * n < a
  <2>1. PICK k \in Nat : q = m + 1 + k
    BY <1>2, <1>4, q - m - 1 \in Nat
  <2>2. n * q = m * n + n + n * k /\ n * k \in Nat /\ m * n \in Nat
    BY <2>1
  <2>3. QED
    BY <1>2, <2>2
<1>5. QED
  BY <1>2, <1>3, <1>4 DEF q

(* The track that a sector is in, and the sectors of a track. *)
LEMMA TrackOf ==
  ASSUME NEW s \in Nat, NEW n \in Nat \ {0}
  PROVE  s % n \in 0 .. (n - 1) /\ s - (s % n) \in Nat /\ (s - (s % n)) % n = 0
<1> DEFINE q == s \div n
           r == s % n
<1>1. q \in Nat /\ r \in 0 .. (n - 1) /\ s = n * q + r
  BY DivMod
<1> HIDE DEF q, r
<1>2. s - r = q * n /\ q * n \in Nat
  BY <1>1
<1>3. \A b \in Nat : (q * n + b) % n = b % n
  BY <1>1, DivShift
<1>4. (q * n + 0) % n = 0
  BY <1>3, DivSmall
<1>5. (s - r) % n = 0
  BY <1>2, <1>4
<1>6. s - r \in Nat
  BY <1>2
<1>7. QED
  BY <1>1, <1>5, <1>6 DEF r

LEMMA InOneTrack ==
  ASSUME NEW n \in Nat \ {0}, NEW t \in Nat, t % n = 0, NEW i \in 0 .. (n - 1)
  PROVE  (t + i) - ((t + i) % n) = t
<1> DEFINE q == t \div n
<1>1. q \in Nat /\ t = n * q + (t % n)
  BY DivMod
<1> HIDE DEF q
<1>2. t = q * n
  BY <1>1
<1>0. i \in Nat
  OBVIOUS
<1>3. (q * n + i) % n = i % n
  BY <1>0, <1>1, DivShift
<1>4. i % n = i
  BY DivSmall
<1>5. (t + i) % n = i
  BY <1>2, <1>3, <1>4
<1>6. QED
  BY <1>5

-----------------------------------------------------------------------------
(* The BIOS *)

LEMMA Disks ==
  ASSUME NEW d \in Drives
  PROVE  /\ Sectors(d) \in 1 .. BUFFERLEN /\ Sectors(d) \in Nat \ {0} /\ BUFFERLEN \in Nat
         /\ Geometry[d].lba \in Nat /\ Geometry[d].chs \in Nat /\ Size(d) \in Nat
         /\ Geometry[d].lba <= Size(d) /\ Geometry[d].chs <= Size(d)
         /\ d \in Nat /\ d # NoDrive
BY BoundsAssumption, DrivesAssumption, GeometryAssumption DEF Sectors, Size, NoDrive

(* biosdisk leaves the geometry's track length and owner alone; with the   *)
(* drive's own geometry it transfers the sectors it was asked for, or      *)
(* fails.                                                                  *)
LEMMA Transfer ==
  ASSUME NEW g \in GeomRecord, NEW d \in Drives, NEW s \in Nat, NEW n \in Nat,
         DOMAIN phys[d] = 0 .. (Size(d) - 1), NEW r \in biosdisk(g, d, s, n)
  PROVE  /\ r.geom \in GeomRecord /\ r.geom.sectors = g.sectors /\ r.geom.of = g.of
         /\ r.at \in Nat
         /\ g.of = d /\ r.res = "ok" => r.at = s /\ s + n <= Size(d)
<1> DEFINE h == [g EXCEPT !.lba = FALSE, !.total = Geometry[d].chs]
<1>1. h \in GeomRecord /\ h.sectors = g.sectors /\ h.of = g.of
  BY Disks DEF GeomRecord
<1>2. ASSUME NEW k \in GeomRecord, NEW x \in ByCHS(k, d, s, n)
      PROVE  /\ x.geom = k /\ x.at \in Nat
             /\ k.of = d /\ x.res = "ok" => x.at = s /\ s + n <= Size(d)
  BY <1>2, Disks, SMTT(30) DEF ByCHS, Outcome
<1> HIDE DEF h
<1>3. CASE r \in ByCHS(g, d, s, n)
  BY <1>2, <1>3
<1>4. CASE r \in ByCHS(h, d, s, n)
  BY <1>1, <1>2, <1>4
<1>5. CASE r = Outcome("ok", g, s) /\ s + n <= Geometry[d].lba
  BY <1>5, Disks DEF Outcome
<1>6. QED
  BY <1>3, <1>4, <1>5 DEF biosdisk, h

-----------------------------------------------------------------------------
(* Where the loop of rawread is *)

LEMMA Place ==
  ASSUME TypeOK, StateOK, buf_geom.sectors > 0
  PROVE  /\ sectors_per_vtrack = buf_geom.sectors /\ sectors_per_vtrack \in 1 .. BUFFERLEN
         /\ soff \in 0 .. (sectors_per_vtrack - 1) /\ num_sect \in 1 .. sectors_per_vtrack
         /\ track \in Nat /\ track % sectors_per_vtrack = 0 /\ io.sector = track + soff
         /\ io.sector + num_sect = track + sectors_per_vtrack
<1>1. sectors_per_vtrack = buf_geom.sectors /\ sectors_per_vtrack \in 1 .. BUFFERLEN
  BY BoundsAssumption DEF TypeOK, sectors_per_vtrack, Min
<1>2. sectors_per_vtrack \in Nat \ {0} /\ io.sector \in Nat
  BY <1>1 DEF StateOK
<1> HIDE DEF sectors_per_vtrack
<1>3. soff \in 0 .. (sectors_per_vtrack - 1) /\ track \in Nat /\ track % sectors_per_vtrack = 0
  BY <1>2, TrackOf DEF soff, track
<1>4. soff \in 0 .. (sectors_per_vtrack - 1)
  BY <1>3
<1>5. track = io.sector - soff /\ num_sect = sectors_per_vtrack - soff
  BY DEF track, num_sect
<1>6. num_sect \in 1 .. sectors_per_vtrack /\ io.sector = track + soff
      /\ io.sector + num_sect = track + sectors_per_vtrack
  BY <1>2, <1>4, <1>5
<1>7. QED
  BY <1>1, <1>3, <1>6

LEMMA Needed ==
  ASSUME TypeOK, StateOK
  PROVE  /\ slen \in Nat /\ io.off + io.len <= slen * SectorSize
         /\ \A m \in Nat : m < slen => m * SectorSize < io.off + io.len
<1> DEFINE a == io.off + io.len
           n == SectorSize
<1>1. a \in Nat /\ n \in Nat \ {0}
  BY BoundsAssumption DEF TypeOK, StateOK
<1>2. slen = (a + n - 1) \div n
  BY DEF slen
<1> HIDE DEF a, n
<1>3. /\ slen \in Nat /\ a <= slen * n
      /\ \A m \in Nat : m < slen => m * n < a
  BY <1>1, <1>2, RoundUp
<1>4. QED
  BY <1>3 DEF a, n

(* The buffer's cells keep their types. *)
CellsOK(b) ==
  /\ DOMAIN b = Slots
  /\ \A i \in Slots : Len(b[i]) = 3 /\ b[i][1] \in Drives \cup {NoDrive}

LEMMA FilledCells ==
  ASSUME NEW b, CellsOK(b), NEW d \in Drives, NEW s \in Nat, NEW n \in 0 .. BUFFERLEN
  PROVE  /\ CellsOK(Filled(b, d, s, n))
         /\ \A i \in 0 .. (n - 1) : Filled(b, d, s, n)[i] = <<d, s + i, phys[d][s + i]>>
<1> DEFINE f == Filled(b, d, s, n)
<1>1. DOMAIN b \cup 0 .. (n - 1) = Slots
  BY BoundsAssumption DEF CellsOK, Slots
<1>2. f = [i \in Slots |-> IF i < n THEN <<d, s + i, phys[d][s + i]>> ELSE b[i]]
  BY <1>1 DEF Filled
<1>3. \A i \in 0 .. (n - 1) : i \in Slots /\ i < n
  BY BoundsAssumption DEF Slots
<1> HIDE DEF f
<1>4. \A i \in 0 .. (n - 1) : f[i] = <<d, s + i, phys[d][s + i]>>
  BY <1>2, <1>3
<1>5. ASSUME NEW i \in Slots PROVE Len(f[i]) = 3 /\ f[i][1] \in Drives \cup {NoDrive}
  <2>1. CASE i < n
    <3>1. f[i] = <<d, s + i, phys[d][s + i]>>
      BY <1>2, <2>1
    <3>2. QED
      BY <3>1
  <2>2. CASE ~(i < n)
    BY <1>2, <2>2 DEF CellsOK
  <2>3. QED
    BY <2>1, <2>2
<1>6. CellsOK(f)
  BY <1>2, <1>5 DEF CellsOK
<1>7. QED
  BY <1>4, <1>6 DEF f

-----------------------------------------------------------------------------
(* A miss *)

(* What filling the buffer gives has its types and keeps the geometry. *)
CacheOK(c) ==
  /\ c = [ok |-> c.ok, buffer |-> c.buffer, track |-> c.track, geom |-> c.geom, base |-> c.base]
  /\ c.ok \in BOOLEAN /\ CellsOK(c.buffer) /\ c.track \in {-1, track}
  /\ c.geom \in GeomRecord /\ c.geom.sectors = buf_geom.sectors /\ c.geom.of = buf_geom.of

(* Buffer b begins with n sectors of the disk from s, as they are there. *)
Raw(b, d, s, n) ==
  s + n <= Size(d) /\ \A i \in 0 .. (n - 1) : b[i] = <<d, s + i, phys[d][s + i]>>

(* The three ways to have what is needed: the whole track; its end, when   *)
(* the read goes on behind it; only the sectors that are asked for.        *)
WholeTrack(c) == slen <= num_sect /\ c.track = track /\ c.base = soff * SectorSize + io.off
EndOfTrack(c) == slen > num_sect /\ c.track = track /\ c.base = io.off
OnlyNeeded(c) == slen <= num_sect /\ c.track = -1 /\ c.base = io.off

LEMMA CachedOK ==
  ASSUME TypeOK, StateOK, buf_geom.sectors > 0,
         NEW d \in Drives, NEW g \in GeomRecord, NEW s \in Nat, NEW n \in 0 .. BUFFERLEN,
         g.sectors = buf_geom.sectors, g.of = buf_geom.of,
         NEW r \in biosdisk(g, d, s, n), NEW t \in {-1, track}, NEW base
  PROVE  /\ r.res = "ok" =>
              LET c == Cached(Filled(buffer, d, r.at, n), t, r.geom, base)
              IN CacheOK(c) /\ (buf_geom.of = d => Raw(c.buffer, d, s, n))
         /\ CacheOK(NotRead(buffer, r.geom))
         /\ r.geom \in GeomRecord /\ r.geom.sectors = buf_geom.sectors /\ r.geom.of = buf_geom.of
<1>1. n \in Nat
  BY BoundsAssumption
<1>2. /\ r.geom \in GeomRecord /\ r.geom.sectors = buf_geom.sectors /\ r.geom.of = buf_geom.of
      /\ r.at \in Nat
      /\ buf_geom.of = d /\ r.res = "ok" => r.at = s /\ s + n <= Size(d)
  BY <1>1, Transfer DEF StateOK
<1>3. CellsOK(buffer)
  BY DEF TypeOK, StateOK, CellsOK
<1>4. CacheOK(NotRead(buffer, r.geom))
  BY <1>2, <1>3 DEF CacheOK, NotRead
<1>6. ASSUME r.res = "ok", NEW c, c = Cached(Filled(buffer, d, r.at, n), t, r.geom, base)
      PROVE  CacheOK(c) /\ (buf_geom.of = d => Raw(c.buffer, d, s, n))
  <2>1. /\ CellsOK(Filled(buffer, d, r.at, n))
        /\ \A i \in 0 .. (n - 1) :
             Filled(buffer, d, r.at, n)[i] = <<d, r.at + i, phys[d][r.at + i]>>
    BY <1>2, <1>3, FilledCells
  <2>2. CacheOK(c)
    BY <1>2, <1>6, <2>1 DEF CacheOK, Cached
  <2>3. ASSUME buf_geom.of = d PROVE Raw(c.buffer, d, s, n)
    <3>1. r.at = s /\ s + n <= Size(d) /\ c.buffer = Filled(buffer, d, r.at, n)
      BY <1>2, <1>6, <2>3 DEF Cached
    <3>2. QED
      BY <2>1, <3>1 DEF Raw
  <2>4. QED
    BY <2>2, <2>3
<1>7. QED
  BY <1>2, <1>4, <1>6

LEMMA FetchGives ==
  ASSUME TypeOK, StateOK, buf_geom.sectors > 0, NEW d \in Drives, NEW c \in Fetch(d)
  PROVE  /\ CacheOK(c)
         /\ ~c.ok => c.track = -1
         /\ buf_geom.of = d /\ c.ok =>
              \/ WholeTrack(c) /\ Raw(c.buffer, d, track, sectors_per_vtrack)
              \/ EndOfTrack(c) /\ Raw(c.buffer, d, io.sector, num_sect)
              \/ OnlyNeeded(c) /\ Raw(c.buffer, d, io.sector, slen)
<1> DEFINE partial == slen > num_sect
           from == IF partial THEN io.sector ELSE track
           n == IF partial THEN num_sect ELSE sectors_per_vtrack
           base == IF partial THEN io.off ELSE soff * SectorSize + io.off
<1>1. /\ num_sect \in 1 .. BUFFERLEN /\ sectors_per_vtrack \in 1 .. BUFFERLEN
      /\ track \in Nat /\ io.sector \in Nat /\ num_sect <= sectors_per_vtrack
      /\ BUFFERLEN \in Nat /\ slen \in Nat
  BY Place, Needed, BoundsAssumption DEF StateOK
<1>2. n \in 0 .. BUFFERLEN /\ from \in Nat /\ buf_geom \in GeomRecord
  BY <1>1 DEF StateOK
<1>3. PICK r \in biosdisk(buf_geom, d, from, n) :
        \/ r.res = "ok" /\ c = Cached(Filled(buffer, d, r.at, n), track, r.geom, base)
        \/ r.res # "ok" /\ GivesUp(r, partial) /\ c = NotRead(buffer, r.geom)
        \/ r.res # "ok" /\ ~GivesUp(r, partial) /\ c \in RetryNeeded(r.geom, d)
  BY DEF Fetch
<1> HIDE DEF from, n, base, partial
<1>4. CASE r.res = "ok" /\ c = Cached(Filled(buffer, d, r.at, n), track, r.geom, base)
  <2>1. CacheOK(c) /\ (buf_geom.of = d => Raw(c.buffer, d, from, n))
    BY <1>2, <1>4, CachedOK
  <2>2. c.ok /\ c.track = track /\ c.base = base
    BY <1>4 DEF Cached
  <2>3. CASE partial
    BY <2>1, <2>2, <2>3 DEF from, n, base, partial, EndOfTrack
  <2>4. CASE ~partial
    <3>1. slen <= num_sect
      BY <1>1, <2>4 DEF partial
    <3>2. QED
      BY <2>1, <2>2, <2>4, <3>1 DEF from, n, base, WholeTrack
  <2>5. QED
    BY <2>3, <2>4
<1>5. CASE r.res # "ok" /\ GivesUp(r, partial) /\ c = NotRead(buffer, r.geom)
  <2>1. CacheOK(c)
    BY <1>2, <1>5, CachedOK
  <2>2. ~c.ok /\ c.track = -1
    BY <1>5 DEF NotRead
  <2>3. QED
    BY <2>1, <2>2
<1>6. CASE r.res # "ok" /\ ~GivesUp(r, partial) /\ c \in RetryNeeded(r.geom, d)
  <2>1. ~partial /\ slen \in 0 .. BUFFERLEN /\ slen <= num_sect
    BY <1>1, <1>6 DEF GivesUp, partial
  <2>2. r.geom \in GeomRecord /\ r.geom.sectors = buf_geom.sectors /\ r.geom.of = buf_geom.of
    BY <1>2, CachedOK
  <2>3. PICK q \in biosdisk(r.geom, d, io.sector, slen) :
          c = IF q.res = "ok" THEN Cached(Filled(buffer, d, q.at, slen), -1, q.geom, io.off)
              ELSE NotRead(buffer, q.geom)
    BY <1>6 DEF RetryNeeded
  <2>4. CASE q.res = "ok"
    <3>1. c = Cached(Filled(buffer, d, q.at, slen), -1, q.geom, io.off)
      BY <2>3, <2>4
    <3>2. CacheOK(c) /\ (buf_geom.of = d => Raw(c.buffer, d, io.sector, slen))
      BY <1>1, <2>1, <2>2, <2>4, <3>1, CachedOK
    <3>3. c.ok /\ c.track = -1 /\ c.base = io.off
      BY <3>1 DEF Cached
    <3>4. QED
      BY <2>1, <3>2, <3>3 DEF OnlyNeeded
  <2>5. CASE q.res # "ok"
    <3>1. c = NotRead(buffer, q.geom)
      BY <2>3, <2>5
    <3>2. CacheOK(c)
      BY <1>1, <2>1, <2>2, <3>1, CachedOK
    <3>3. ~c.ok /\ c.track = -1
      BY <3>1 DEF NotRead
    <3>4. QED
      BY <3>2, <3>3
  <2>6. QED
    BY <2>4, <2>5
<1>7. QED
  BY <1>3, <1>4, <1>5, <1>6

(* Buffer b begins with n sectors of the disk from s, sector 0 mapped. *)
Good(b, d, s, n) ==
  s + n <= Size(d) /\ \A i \in 0 .. (n - 1) : b[i] = CellOf(phys, d, s + i)

LEMMA EzdCell ==
  ASSUME TypeOK, StateOK, NEW b, CellsOK(b), LooksEzd(b[0]), 0 \in Slots
  PROVE  1 \in Slots
<1>1. b[0][1] \in Drives /\ EzdSectors[b[0][1]] # {}
  BY DEF CellsOK, LooksEzd
<1>2. Geometry[b[0][1]].sectors > 1 /\ Geometry[b[0][1]].sectors \in 1 .. BUFFERLEN
  BY <1>1, EzdAssumption, GeometryAssumption
<1>3. QED
  BY <1>2, BoundsAssumption DEF Slots

LEMMA MapKeepsTypes ==
  ASSUME TypeOK, StateOK, buf_geom.sectors > 0, NEW d \in Drives,
         NEW c, CacheOK(c), NEW m \in MapEzd(c, d)
  PROVE  CacheOK(m) /\ m.track = c.track /\ m.base = c.base /\ (m.ok => c.ok)
<1>1. CellsOK(c.buffer) /\ c.geom \in GeomRecord
  BY DEF CacheOK
<1>2. 0 \in Slots /\ 1 \in 0 .. BUFFERLEN
  BY BoundsAssumption, Place DEF Slots
<1>3. CASE m = c
  BY <1>3
<1>4. CASE LooksEzd(c.buffer[0]) /\ m = [c EXCEPT !.buffer[0] = c.buffer[1]]
  <2>1. 1 \in Slots
    BY <1>1, <1>2, <1>4, EzdCell
  <2>2. CellsOK([c.buffer EXCEPT ![0] = c.buffer[1]])
    BY <1>1, <1>2, <2>1 DEF CellsOK
  <2>3. /\ m = [ok |-> c.ok, buffer |-> [c.buffer EXCEPT ![0] = c.buffer[1]],
                track |-> c.track, geom |-> c.geom, base |-> c.base]
    BY <1>4 DEF CacheOK
  <2>4. QED
    BY <2>2, <2>3 DEF CacheOK
<1>5. ASSUME NEW r \in biosdisk(c.geom, d, 1, 1),
             m = IF r.res = "ok" THEN [c EXCEPT !.buffer = Filled(@, d, r.at, 1), !.geom = r.geom]
                 ELSE [c EXCEPT !.ok = FALSE, !.geom = r.geom]
      PROVE  CacheOK(m) /\ m.track = c.track /\ m.base = c.base /\ (m.ok => c.ok)
  <2>1. r.geom \in GeomRecord /\ r.at \in Nat
        /\ r.geom.sectors = c.geom.sectors /\ r.geom.of = c.geom.of
    BY <1>1, Transfer DEF StateOK
  <2>2. CellsOK(Filled(c.buffer, d, r.at, 1))
    BY <1>1, <1>2, <2>1, FilledCells
  <2>3. CASE r.res = "ok"
    <3>1. m = [ok |-> c.ok, buffer |-> Filled(c.buffer, d, r.at, 1),
               track |-> c.track, geom |-> r.geom, base |-> c.base]
      BY <1>5, <2>3 DEF CacheOK
    <3>2. QED
      BY <2>1, <2>2, <3>1 DEF CacheOK
  <2>4. CASE r.res # "ok"
    <3>1. m = [ok |-> FALSE, buffer |-> c.buffer, track |-> c.track, geom |-> r.geom, base |-> c.base]
      BY <1>5, <2>4 DEF CacheOK
    <3>2. QED
      BY <1>1, <2>1, <3>1 DEF CacheOK
  <2>5. QED
    BY <2>3, <2>4
<1>6. QED
  BY <1>3, <1>4, <1>5 DEF MapEzd

(* After a transfer from sector s, of n sectors: n = 0 or the mapping is   *)
(* done where it has to be.                                                *)
LEMMA MapGives ==
  ASSUME TypeOK, StateOK, buf_geom.sectors > 0, NEW d \in Drives, buf_geom.of = d,
         NEW c, CacheOK(c), NEW m \in MapEzd(c, d), m.ok,
         NEW s \in Nat, NEW n \in 0 .. BUFFERLEN, Raw(c.buffer, d, s, n),
         s = 0 => c.track = 0 \/ io.sector = 0,
         s = 0 /\ 0 \in EzdSectors[d] /\ (c.track = 0 \/ slen >= 2) => n # 1,
         s = 0 => n <= 1 \/ c.track = 0 \/ slen >= 2
  PROVE  Good(m.buffer, d, s, n)
<1>1. s + n <= Size(d)
  BY DEF Raw
<1>2. CASE n = 0
  BY <1>1, <1>2 DEF Good
<1> SUFFICES ASSUME n # 0 PROVE \A i \in 0 .. (n - 1) : m.buffer[i] = CellOf(phys, d, s + i)
  BY <1>1, <1>2 DEF Good
<1>3. 0 \in 0 .. (n - 1) /\ n \in Nat
  BY BoundsAssumption
<1>4. c.buffer[0] = <<d, s + 0, phys[d][s + 0]>> /\ s + 0 = s
  BY <1>3 DEF Raw
<1>5. LooksEzd(c.buffer[0]) <=> s \in EzdSectors[d]
  BY <1>4, Disks DEF LooksEzd
<1>6. EzdSectors[d] \subseteq {0}
  BY EzdAssumption
<1>7. CASE s \notin EzdSectors[d]
  <2>1. m = c
    BY <1>5, <1>7 DEF MapEzd
  <2>2. \A i \in 0 .. (n - 1) : BD!Place(d, s + i) = s + i
    BY <1>7 DEF BD!Place
  <2>3. QED
    BY <2>1, <2>2 DEF Raw, CellOf
<1>8. CASE s \in EzdSectors[d]
  <2>1. s = 0 /\ 0 \in EzdSectors[d] /\ LooksEzd(c.buffer[0]) /\ (c.track = 0 \/ io.sector = 0)
    BY <1>5, <1>6, <1>8
  <2>2. BD!Place(d, 0) = 1 /\ \A i \in 1 .. (n - 1) : BD!Place(d, i) = i
    BY <2>1 DEF BD!Place
  <2>3. \A i \in 0 .. (n - 1) : s + i = i
    BY <2>1
  <2>4. SUFFICES /\ m.buffer[0] = <<d, 1, phys[d][1]>>
                 /\ \A i \in 1 .. (n - 1) : m.buffer[i] = <<d, i, phys[d][i]>>
    <3>1. ASSUME NEW i \in 0 .. (n - 1) PROVE m.buffer[i] = CellOf(phys, d, i)
      <4>1. CASE i = 0
        BY <2>2, <2>4, <4>1 DEF CellOf
      <4>2. CASE i \in 1 .. (n - 1)
        BY <2>2, <2>4, <4>2 DEF CellOf
      <4>3. QED
        BY <4>1, <4>2
    <3>2. QED
      BY <2>3, <3>1
  <2>5. CASE c.track = 0 \/ slen >= 2
    <3>1. m = [c EXCEPT !.buffer[0] = c.buffer[1]]
      BY <2>1, <2>5 DEF MapEzd
    <3>2. m.buffer = [c.buffer EXCEPT ![0] = c.buffer[1]]
      BY <3>1 DEF CacheOK
    <3>3. 1 \in 0 .. (n - 1) /\ DOMAIN c.buffer = Slots /\ 0 .. (n - 1) \subseteq Slots
      BY <2>1, <2>5, <1>3, BoundsAssumption DEF CacheOK, CellsOK, Slots
    <3>4. \A i \in 0 .. (n - 1) : c.buffer[i] = <<d, i, phys[d][i]>>
      BY <2>3 DEF Raw
    <3>5. m.buffer[0] = <<d, 1, phys[d][1]>>
      BY <1>3, <3>2, <3>3, <3>4
    <3>6. \A i \in 1 .. (n - 1) : m.buffer[i] = c.buffer[i] /\ i \in 0 .. (n - 1)
      BY <3>2, <3>3
    <3>7. QED
      BY <3>4, <3>5, <3>6
  <2>6. CASE ~(c.track = 0 \/ slen >= 2)
    <3>1. PICK r \in biosdisk(c.geom, d, 1, 1) :
            m = IF r.res = "ok" THEN [c EXCEPT !.buffer = Filled(@, d, r.at, 1), !.geom = r.geom]
                ELSE [c EXCEPT !.ok = FALSE, !.geom = r.geom]
      BY <2>1, <2>6 DEF MapEzd
    <3>2. r.res = "ok"
      BY <3>1 DEF CacheOK
    <3>3. m.buffer = Filled(c.buffer, d, r.at, 1)
      BY <3>1, <3>2 DEF CacheOK
    <3>4. r.at = 1
      <4>1. c.geom \in GeomRecord /\ c.geom.of = d /\ DOMAIN phys[d] = 0 .. (Size(d) - 1)
        BY DEF CacheOK, StateOK
      <4>2. QED
        BY <3>2, <4>1, Transfer
    <3>5. CellsOK(c.buffer) /\ 1 \in 0 .. BUFFERLEN
      BY <1>3, BoundsAssumption DEF CacheOK
    <3>6. \A x \in Nat, k \in 0 .. BUFFERLEN : \A i \in 0 .. (k - 1) :
            Filled(c.buffer, d, x, k)[i] = <<d, x + i, phys[d][x + i]>>
      BY ONLY <3>5, d \in Drives, FilledCells, ZenonT(60)
    <3>7. Filled(c.buffer, d, r.at, 1)[0] = <<d, 1, phys[d][1]>>
      <4>1. 0 \in 0 .. (1 - 1) /\ 1 + 0 = 1 /\ 1 \in Nat
        OBVIOUS
      <4>2. QED
        BY <3>4, <3>5, <3>6, <4>1
    <3>8. n <= 1
      BY <2>1, <2>6
    <3>9. QED
      BY <1>3, <3>3, <3>4, <3>7, <3>8
  <2>7. QED
    BY <2>5, <2>6
<1>9. QED
  BY <1>7, <1>8

-----------------------------------------------------------------------------
(* A round of the loop *)

(* The caches that a round may end with. *)
Rounds ==
  IF track = buf_track THEN {Cached(buffer, buf_track, buf_geom, soff * SectorSize + io.off)}
  ELSE UNION {MapEzd(f, req.drive) : f \in Fetch(req.drive)}

LEMMA RoundTypes ==
  ASSUME TypeOK, StateOK, Reading, buf_geom.sectors > 0, NEW c \in Rounds
  PROVE  CacheOK(c) /\ req.drive \in Drives
<1>1. req.drive \in Drives
  BY DrivesAssumption DEF Reading, TypeOK, StateOK, NoDrive, Request, NoRequest
<1>2. CASE track = buf_track
  <2>1. CellsOK(buffer) /\ buf_geom \in GeomRecord
    BY DEF TypeOK, StateOK, CellsOK
  <2>2. c = Cached(buffer, buf_track, buf_geom, soff * SectorSize + io.off)
    BY <1>2 DEF Rounds
  <2>3. QED
    BY <1>1, <1>2, <2>1, <2>2 DEF CacheOK, Cached
<1>3. CASE track # buf_track
  <2>1. PICK f \in Fetch(req.drive) : c \in MapEzd(f, req.drive)
    BY <1>3 DEF Rounds
  <2>2. CacheOK(f)
    BY <1>1, <2>1, FetchGives
  <2>3. QED
    BY <1>1, <2>1, <2>2, MapKeepsTypes
<1>4. QED
  BY <1>2, <1>3

(* The sectors that the round is to copy are in the buffer, sh sectors     *)
(* from its beginning.                                                     *)
ServesAt(c, d, sh) ==
  /\ DataAt(c) = sh * SectorSize + io.off
  /\ \A w \in 0 .. (num_sect - 1) :
       w < slen => io.sector + w < Size(d) /\ c.buffer[sh + w] = CellOf(phys, d, io.sector + w)

(* The track that is said to be buffered is, or the read goes on behind it. *)
Keeps(c, d) ==
  c.track # -1 => /\ c.track = track /\ IsTrack(d, track)
                  /\ HoldsTrack(c.buffer, phys, d, track) \/ slen > num_sect

LEMMA RoundServes ==
  ASSUME TypeOK, StateOK, GeometryKnown, BufferKnown, ~failed,
         Reading, buf_geom.sectors > 0, NEW c \in Rounds, c.ok
  PROVE  Keeps(c, req.drive) /\ \E sh \in Nat : ServesAt(c, req.drive, sh)
<1> DEFINE d == req.drive
           n == sectors_per_vtrack
<1>1. /\ d \in Drives /\ d = buf_drive /\ d # NoDrive /\ buf_geom.of = d
      /\ n = Sectors(d) /\ Size(d) \in Nat /\ io.sector \in Nat
  BY RoundTypes, Disks, Place DEF Reading, BufferKnown, GeometryKnown, StateOK
<1>2. /\ n \in 1 .. BUFFERLEN /\ BUFFERLEN \in Nat /\ soff \in 0 .. (n - 1) /\ num_sect \in 1 .. n
      /\ track \in Nat /\ track % n = 0 /\ io.sector = track + soff /\ slen \in Nat
      /\ io.sector + num_sect = track + n
  BY Place, Needed, BoundsAssumption
<1> HIDE DEF d, n
<1>3. ASSUME Good(c.buffer, d, track, n), DataAt(c) = soff * SectorSize + io.off,
             c.track \in {-1, track}
      PROVE  Keeps(c, d) /\ \E sh \in Nat : ServesAt(c, d, sh)
  <2>1. IsTrack(d, track) /\ HoldsTrack(c.buffer, phys, d, track)
    BY <1>1, <1>2, <1>3 DEF IsTrack, HoldsTrack, Good
  <2>2. ASSUME NEW w \in 0 .. (num_sect - 1)
        PROVE  io.sector + w < Size(d) /\ c.buffer[soff + w] = CellOf(phys, d, io.sector + w)
    <3>1. soff + w \in 0 .. (n - 1) /\ track + (soff + w) = io.sector + w
          /\ io.sector + w < track + n
      BY <1>1, <1>2
    <3>2. QED
      BY <1>1, <1>2, <1>3, <3>1 DEF Good
  <2>3. soff \in Nat /\ ServesAt(c, d, soff)
    BY <1>2, <1>3, <2>2 DEF ServesAt
  <2>4. QED
    BY <1>3, <2>1, <2>3 DEF Keeps
<1>4. ASSUME NEW k \in Nat, Good(c.buffer, d, io.sector, k), DataAt(c) = io.off,
             k = num_sect \/ k = slen,
             c.track = -1 \/ (c.track = track /\ k = num_sect /\ slen > num_sect)
      PROVE  Keeps(c, d) /\ \E sh \in Nat : ServesAt(c, d, sh)
  <2>1. ASSUME c.track # -1 PROVE IsTrack(d, track)
    BY <1>1, <1>2, <1>4, <2>1 DEF IsTrack, Good
  <2>2. ASSUME NEW w \in 0 .. (num_sect - 1), w < slen
        PROVE  io.sector + w < Size(d) /\ c.buffer[0 + w] = CellOf(phys, d, io.sector + w)
    <3>1. w \in 0 .. (k - 1) /\ 0 + w = w
      BY <1>2, <1>4, <2>2
    <3>2. QED
      BY <1>1, <1>4, <3>1 DEF Good
  <2>3. DataAt(c) = 0 * SectorSize + io.off
    BY <1>4, BoundsAssumption DEF StateOK
  <2>4. ServesAt(c, d, 0)
    BY <2>2, <2>3 DEF ServesAt
  <2>5. QED
    BY <1>4, <2>1, <2>4 DEF Keeps
<1>5. CASE track = buf_track
  <2>1. c = Cached(buffer, buf_track, buf_geom, soff * SectorSize + io.off)
    BY <1>5 DEF Rounds
  <2>2. IsTrack(d, track)
    BY <1>1, <1>2, <1>5 DEF BufferKnown
  <2>3. io.sector # track + n
    BY <1>2
  <2>4. HoldsTrack(buffer, phys, d, track)
    BY <1>1, <1>2, <1>5, <2>3 DEF BufferKnown
  <2>5. Good(buffer, d, track, n)
    BY <1>1, <2>2, <2>4 DEF Good, IsTrack, HoldsTrack
  <2>6. c.buffer = buffer /\ c.track = track /\ DataAt(c) = soff * SectorSize + io.off
    BY <1>5, <2>1 DEF Cached, DataAt
  <2>7. QED
    BY <1>3, <2>5, <2>6 DEF d
<1>6. CASE track # buf_track
  <2>1. PICK f \in Fetch(d) : c \in MapEzd(f, d)
    BY <1>6 DEF Rounds, d
  <2>2. /\ CacheOK(f)
        /\ f.ok =>
              \/ WholeTrack(f) /\ Raw(f.buffer, d, track, n)
              \/ EndOfTrack(f) /\ Raw(f.buffer, d, io.sector, num_sect)
              \/ OnlyNeeded(f) /\ Raw(f.buffer, d, io.sector, slen)
    BY <1>1, <2>1, FetchGives DEF n
  <2>3. CacheOK(c) /\ c.track = f.track /\ c.base = f.base /\ f.ok
    BY <1>1, <2>1, <2>2, MapKeepsTypes
  <2>4. 0 \in EzdSectors[d] => n > 1
    BY <1>1, EzdAssumption DEF Sectors
  <2>5. CASE WholeTrack(f) /\ Raw(f.buffer, d, track, n)
    <3>1. f.track = track /\ n \in 0 .. BUFFERLEN
      BY <1>2, <2>5 DEF WholeTrack
    <3>2. Good(c.buffer, d, track, n)
      <4>1. track = 0 => f.track = 0
        BY <3>1
      <4>2. 0 \in EzdSectors[d] => n # 1
        BY <1>2, <2>4
      <4>3. QED
        BY <1>1, <1>2, <2>1, <2>2, <2>5, <3>1, <4>1, <4>2, MapGives
    <3>3. QED
      BY <1>3, <2>3, <2>5, <3>1, <3>2 DEF WholeTrack, DataAt, d
  <2>6. CASE EndOfTrack(f) /\ Raw(f.buffer, d, io.sector, num_sect)
    <3>1. f.track = track /\ num_sect \in 0 .. BUFFERLEN /\ slen > num_sect
      BY <1>2, <2>6 DEF EndOfTrack
    <3>2. io.sector = 0 => track = 0 /\ num_sect = n
      BY <1>2
    <3>3. Good(c.buffer, d, io.sector, num_sect)
      BY <1>1, <1>2, <2>1, <2>2, <2>4, <2>6, <3>1, <3>2, MapGives
    <3>4. QED
      BY <1>2, <1>4, <2>3, <2>6, <3>1, <3>3 DEF EndOfTrack, DataAt, d
  <2>7. CASE OnlyNeeded(f) /\ Raw(f.buffer, d, io.sector, slen)
    <3>1. f.track = -1 /\ slen \in 0 .. BUFFERLEN
      BY <1>2, <2>7 DEF OnlyNeeded
    <3>2. Good(c.buffer, d, io.sector, slen)
      <4>1. f.track # 0 /\ (slen >= 2 => slen # 1) /\ (slen <= 1 \/ slen >= 2)
        BY <1>2, <3>1
      <4>2. QED
        BY <1>1, <1>2, <2>1, <2>2, <2>7, <3>1, <4>1, MapGives
    <3>3. c.track = -1 /\ DataAt(c) = io.off /\ slen \in Nat
      BY <1>2, <2>3, <2>7 DEF OnlyNeeded, DataAt
    <3>4. Keeps(c, d) /\ \E sh \in Nat : ServesAt(c, d, sh)
      BY <1>4, <3>2, <3>3
    <3>5. QED
      BY <3>4 DEF d
  <2>8. QED
    BY <2>2, <2>3, <2>5, <2>6, <2>7
<1>7. QED
  BY <1>5, <1>6 DEF d

LEMMA FunSeq ==
  ASSUME NEW n \in Nat, NEW S, NEW f \in [1 .. n -> S]
  PROVE  f \in Seq(S) /\ Len(f) = n
OBVIOUS

LEMMA AppendTo ==
  ASSUME NEW S, NEW s \in Seq(S), NEW u \in S, NEW t \in Seq(S),
         Len(t) = Len(s) + 1, \A i \in 1 .. Len(s) : t[i] = s[i], t[Len(s) + 1] = u
  PROVE  Append(s, u) = t
<1>1. Append(s, u) \in Seq(S) /\ Len(Append(s, u)) = Len(s) + 1
  BY AppendProperties
<1>2. \A i \in 1 .. Len(s) : Append(s, u)[i] = s[i]
  BY AppendProperties
<1>3. Append(s, u)[Len(s) + 1] = u
  BY AppendProperties
<1>4. \A i \in 1 .. (Len(s) + 1) : Append(s, u)[i] = t[i]
  <2> SUFFICES ASSUME NEW i \in 1 .. (Len(s) + 1) PROVE Append(s, u)[i] = t[i]
    OBVIOUS
  <2>1. i = Len(s) + 1 \/ i \in 1 .. Len(s)
    OBVIOUS
  <2>2. QED
    BY <1>2, <1>3, <2>1
<1>5. QED
  BY <1>1, <1>4, SeqEqual

LEMMA Append4 ==
  ASSUME NEW x, NEW y, NEW z, NEW u
  PROVE  Append(<<x, y, z>>, u) = <<x, y, z, u>>
<1> DEFINE s == <<x, y, z>>
           t == <<x, y, z, u>>
           S == {x, y, z, u}
<1>1. s \in Seq(S) /\ Len(s) = 3 /\ u \in S
  OBVIOUS
<1>2. t \in Seq(S) /\ Len(t) = Len(s) + 1
  OBVIOUS
<1>3. \A i \in 1 .. 3 : t[i] = s[i]
  OBVIOUS
<1>4. t[4] = u
  OBVIOUS
<1>5. (\A i \in 1 .. Len(s) : t[i] = s[i]) /\ t[Len(s) + 1] = u
  BY <1>1, <1>3, <1>4
<1>6. QED
  BY <1>1, <1>2, <1>5, AppendTo

LEMMA Concat ==
  ASSUME NEW n \in Nat, NEW m \in Nat, NEW S, NEW h \in [1 .. (n + m) -> S],
         NEW f, NEW g, f = [i \in 1 .. n |-> h[i]], g = [i \in 1 .. m |-> h[n + i]]
  PROVE  f \o g = h
<1>0. /\ \A i \in 1 .. n : i \in 1 .. (n + m)
      /\ \A i \in 1 .. m : n + i \in 1 .. (n + m)
  OBVIOUS
<1>a. f \in [1 .. n -> S]
  BY <1>0
<1>b. g \in [1 .. m -> S]
  BY <1>0
<1>1. f \in [1 .. n -> S] /\ g \in [1 .. m -> S]
  BY <1>a, <1>b
<1>2. f \in Seq(S) /\ g \in Seq(S) /\ Len(f) = n /\ Len(g) = m
  BY ONLY <1>1, n \in Nat, m \in Nat, FunSeq
<1>3. f \o g \in Seq(S) /\ Len(f \o g) = n + m
  BY <1>2
<1>4. ASSUME NEW i \in 1 .. (n + m) PROVE (f \o g)[i] = h[i]
  <2>1. CASE i <= n
    <3>1. (f \o g)[i] = f[i]
      BY <1>2, <2>1
    <3>2. QED
      BY <2>1, <3>1
  <2>2. CASE i > n
    <3>1. (f \o g)[i] = g[i - n]
      BY <1>2, <2>2
    <3>2. i - n \in 1 .. m /\ n + (i - n) = i
      BY <2>2
    <3>3. QED
      BY <3>1, <3>2
  <2>3. QED
    BY <2>1, <2>2
<1>5. DOMAIN (f \o g) = 1 .. (n + m)
  BY <1>3
<1>6. f \o g = [i \in 1 .. (n + m) |-> (f \o g)[i]]
  BY <1>3, <1>5
<1>7. QED
  BY <1>4, <1>6

(* How much a round copies: all that is left, or to the end of the track. *)
Size1 == Min(io.len, num_sect * SectorSize - io.off)

LEMMA RoundSize ==
  ASSUME TypeOK, StateOK, buf_geom.sectors > 0
  PROVE  /\ Size1 \in 0 .. io.len /\ io.len \in Nat
         /\ io.off + Size1 <= num_sect * SectorSize
         /\ slen <= num_sect <=> Size1 = io.len
         /\ Size1 # io.len => io.off + Size1 = num_sect * SectorSize
<1> DEFINE k == num_sect * SectorSize
<1>1. num_sect \in Nat \ {0} /\ SectorSize \in Nat \ {0}
      /\ io.off \in 0 .. (SectorSize - 1) /\ io.len \in Nat
  BY Place, BoundsAssumption, SMTT(30) DEF TypeOK, StateOK
<1>2. k \in Nat /\ k >= SectorSize
  <2>1. k = SectorSize + (num_sect - 1) * SectorSize /\ (num_sect - 1) * SectorSize \in Nat
    BY <1>1
  <2>2. QED
    BY <1>1, <2>1
<1>3. slen \in Nat /\ io.off + io.len <= slen * SectorSize
      /\ (num_sect < slen => k < io.off + io.len)
  BY <1>1, Needed
<1>4. ASSUME slen <= num_sect PROVE io.off + io.len <= k
  <2>1. slen * SectorSize <= k
    <3>1. k = slen * SectorSize + (num_sect - slen) * SectorSize
          /\ (num_sect - slen) * SectorSize \in Nat /\ slen * SectorSize \in Nat
      BY <1>1, <1>3, <1>4
    <3>2. QED
      BY <3>1
  <2>2. slen * SectorSize \in Nat
    BY <1>1, <1>3
  <2>3. QED
    BY <1>1, <1>2, <1>3, <2>1, <2>2
<1>5. Size1 = IF io.len < k - io.off THEN io.len ELSE k - io.off
  BY DEF Size1, Min
<1> HIDE DEF k
<1>6. /\ Size1 \in 0 .. io.len /\ io.off + Size1 <= k
      /\ Size1 # io.len => io.off + Size1 = k
  BY <1>1, <1>2, <1>5
<1>7. slen <= num_sect => Size1 = io.len
  BY <1>1, <1>2, <1>4, <1>5
<1>8. num_sect < slen => Size1 # io.len
  BY <1>1, <1>2, <1>3, <1>5
<1>9. QED
  BY <1>1, <1>3, <1>6, <1>7, <1>8 DEF k

(* The bytes of a round are the next bytes of the request. *)
LEMMA RoundByte ==
  ASSUME TypeOK, StateOK, ReadSoFar, req.op = "read", ~failed, buf_geom.sectors > 0,
         req.drive \in Drives, NEW c, NEW sh \in Nat, ServesAt(c, req.drive, sh),
         NEW j \in 1 .. Size1
  PROVE  /\ Copied(c.buffer, DataAt(c), Size1)[j] = BD!ByteAt(req, Done + j - 1)
         /\ req.sector + (req.off + (Done + j - 1)) \div SectorSize < Size(req.drive)
<1> DEFINE n == SectorSize
           e == io.off + j - 1
           w == e \div n
           a == io.sector - req.sector
           d == req.drive
           cell == CellOf(phys, d, io.sector + w)
<1>1. /\ n \in Nat \ {0} /\ io.off \in Nat /\ io.sector \in Nat /\ io.len \in Nat
      /\ req.sector \in Nat /\ req.off \in Nat /\ req.len \in Nat
  <2>1. req \in Request
    BY DEF StateOK, NoRequest
  <2>2. req.sector \in Nat /\ req.off \in Nat /\ req.len \in Nat
    BY <2>1 DEF Request
  <2>3. n \in Nat \ {0}
    BY BoundsAssumption
  <2>4. io.off \in Nat /\ io.sector \in Nat /\ io.len \in Nat
    BY DEF TypeOK, StateOK
  <2>5. QED
    BY <2>2, <2>3, <2>4
<1>2. a \in Nat /\ Done \in Nat /\ req.off + Done = a * n + io.off /\ req.sector + a = io.sector
  BY <1>1, SMTT(30) DEF ReadSoFar
<1>3. Size1 \in 0 .. io.len /\ io.off + Size1 <= num_sect * n /\ num_sect \in Nat
  BY RoundSize, Place, BoundsAssumption
<1>4. slen \in Nat /\ io.off + io.len <= slen * n /\ slen * n \in Nat /\ num_sect * n \in Nat
  BY <1>1, <1>3, Needed
<1>5. e \in Nat /\ e < num_sect * n /\ e < slen * n
  BY <1>1, <1>3, <1>4
<1>6. DataAt(c) + j - 1 = sh * n + e /\ req.off + (Done + j - 1) = a * n + e
  <2> DEFINE p == sh * n
             q == a * n
  <2>1. DataAt(c) = p + io.off /\ p \in Nat /\ q \in Nat
    BY <1>1, <1>2 DEF ServesAt
  <2>2. req.off + Done = q + io.off
    BY <1>2
  <2> HIDE DEF p, q, a, n
  <2>3. DataAt(c) + j - 1 = p + e
    BY <1>1, <1>3, <2>1
  <2>4. req.off + (Done + j - 1) = q + e
    BY <1>1, <1>2, <1>3, <2>1, <2>2
  <2>5. QED
    BY <2>3, <2>4 DEF p, q
<1> HIDE DEF n, e, a
<1>7. w \in Nat /\ w < num_sect /\ w < slen
  BY <1>1, <1>3, <1>4, <1>5, DivMod, DivBelow
<1>a. \A p \in Nat : (p * n + e) \div n = p + w /\ (p * n + e) % n = e % n
  <2> SUFFICES ASSUME NEW p \in Nat
               PROVE  (p * n + e) \div n = p + w /\ (p * n + e) % n = e % n
    OBVIOUS
  <2>1. n \in Nat \ {0} /\ e \in Nat
    BY <1>1, <1>5
  <2>2. QED
    BY ONLY <2>1, p \in Nat, DivShift DEF w
<1>8. /\ (sh * n + e) \div n = sh + w /\ (sh * n + e) % n = e % n
      /\ (a * n + e) \div n = a + w /\ (a * n + e) % n = e % n
  BY <1>2, <1>a
<1> HIDE DEF w, d
<1>9. io.sector + w < Size(d) /\ c.buffer[sh + w] = cell
  BY <1>3, <1>7 DEF ServesAt, d
<1>10. req.sector + (a + w) = io.sector + w
  BY <1>1, <1>2, <1>7
<1>11. /\ (DataAt(c) + j - 1) \div n = sh + w /\ (DataAt(c) + j - 1) % n = e % n
       /\ (req.off + (Done + j - 1)) \div n = a + w /\ (req.off + (Done + j - 1)) % n = e % n
  BY <1>6, <1>8
<1>12. Copied(c.buffer, DataAt(c), Size1)[j] = Append(cell, e % n)
  BY <1>9, <1>11 DEF Copied, n
<1>13. Append(cell, e % n) = <<d, BD!Place(d, io.sector + w), phys[d][BD!Place(d, io.sector + w)], e % n>>
  BY Append4 DEF CellOf
<1>14. BD!ByteAt(req, Done + j - 1)
         = <<d, BD!Place(d, io.sector + w), phys[d][BD!Place(d, io.sector + w)], e % n>>
  BY <1>10, <1>11 DEF BD!ByteAt, n, d
<1>15. QED
  BY <1>9, <1>10, <1>11, <1>12, <1>13, <1>14 DEF n, d

LEMMA RoundCopies ==
  ASSUME TypeOK, StateOK, ReadSoFar, req.op = "read", ~failed, buf_geom.sectors > 0,
         req.drive \in Drives, NEW c, NEW sh \in Nat, ServesAt(c, req.drive, sh)
  PROVE  /\ io.out \o Copied(c.buffer, DataAt(c), Size1)
              = [i \in 1 .. (Done + Size1) |-> BD!ByteAt(req, i - 1)]
         /\ \A i \in 0 .. (Done + Size1 - 1) :
              req.sector + (req.off + i) \div SectorSize < Size(req.drive)
<1> DEFINE n == Done
           m == Size1
           h == [i \in 1 .. (n + m) |-> BD!ByteAt(req, i - 1)]
           f == io.out
           g == Copied(c.buffer, DataAt(c), Size1)
           S == {h[i] : i \in 1 .. (n + m)}
           OnDisk(i) == req.sector + (req.off + i) \div SectorSize < Size(req.drive)
<1>1. n \in Nat /\ m \in Nat
  BY RoundSize DEF ReadSoFar
<1>2. f = [i \in 1 .. n |-> BD!ByteAt(req, i - 1)] /\ \A i \in 0 .. (n - 1) : OnDisk(i)
  BY DEF ReadSoFar
<1>3. \A j \in 1 .. m : g[j] = BD!ByteAt(req, n + j - 1) /\ OnDisk(n + j - 1)
  BY RoundByte
<1>4. g = [j \in 1 .. m |-> g[j]]
  BY DEF Copied
<1> HIDE DEF n, m, g, f
<1>5. \A i \in 0 .. (n + m - 1) : OnDisk(i)
  <2> SUFFICES ASSUME NEW i \in 0 .. (n + m - 1) PROVE OnDisk(i)
    OBVIOUS
  <2> HIDE DEF OnDisk
  <2>1. CASE i < n
    BY <1>1, <1>2, <2>1
  <2>2. CASE i >= n
    <3>1. (i - n) + 1 \in 1 .. m /\ n + ((i - n) + 1) - 1 = i
      BY <1>1, <2>2
    <3>2. QED
      BY <1>3, <3>1
  <2>3. QED
    BY <1>1, <2>1, <2>2
<1>6. f = [i \in 1 .. n |-> h[i]]
  BY <1>1, <1>2
<1>7. g = [i \in 1 .. m |-> h[n + i]]
  <2>1. \A j \in 1 .. m : n + j \in 1 .. (n + m) /\ h[n + j] = BD!ByteAt(req, n + j - 1)
    BY <1>1
  <2>2. QED
    BY <1>3, <1>4, <2>1
<1>8. h \in [1 .. (n + m) -> S]
  OBVIOUS
<1> HIDE DEF h, S
<1>9. f \o g = h
  BY <1>1, <1>6, <1>7, <1>8, Concat
<1>10. QED
  BY <1>5, <1>9 DEF f, g, n, m, h

-----------------------------------------------------------------------------
(* The invariant *)

LEMMA InvInit == Init => DiskInv
<1> SUFFICES ASSUME Init PROVE DiskInv
  OBVIOUS
<1> USE BoundsAssumption DEF Init
<1>1. NoRequest.op = "none" /\ NoIO.len = 0 /\ NoIO.off = 0 /\ NoIO.sector = 0
  BY DEF NoRequest, NoIO
<1>2. \A i \in Slots : Len(buffer[i]) = 3 /\ buffer[i][1] = NoDrive
  BY DEF NoCell
<1>3. TypeOK
  <2>1. DOMAIN buffer = Slots /\ answer.ok = FALSE
    BY DEF Failed
  <2>2. buf_geom.sectors \in 0 .. BUFFERLEN /\ buf_geom.of = NoDrive /\ current.drive = NoDrive
        /\ io.len \in 0 .. MaxRead /\ req.op = "none" /\ writes \in 0 .. MaxWrites
        /\ buf_track \in Nat
    BY <1>1
  <2>3. QED
    BY <1>2, <2>1, <2>2 DEF TypeOK
<1>4. StateOK
  BY <1>1, <1>2 DEF StateOK, GeomRecord
<1>5. GeometryKnown
  BY DrivesAssumption DEF GeometryKnown, NoDrive
<1>6. BufferKnown /\ WriteReady /\ ReadSoFar
  BY <1>1 DEF BufferKnown, WriteReady, ReadSoFar
<1>7. QED
  BY <1>3, <1>4, <1>5, <1>6 DEF DiskInv

LEMMA Idle ==
  ASSUME StateOK, ~Busy
  PROVE  req = NoRequest /\ req.op = "none"
BY DEF StateOK, Busy, NoRequest

(* A read begins. *)
LEMMA AskRead ==
  ASSUME DiskInv, ~Busy, UNCHANGED <<phys, cache, current, failed, halted, writes>>,
         NEW d \in Drives \cup Absent, NEW s \in Nat, NEW off \in 0 .. (SectorSize - 1),
         NEW n \in 0 .. MaxRead,
         req' = [op |-> "read", drive |-> d, sector |-> s, off |-> off, len |-> n],
         io' = [sector |-> s, off |-> off, len |-> n, out |-> <<>>], answer' = Failed
  PROVE  DiskInv'
<1> USE DEF DiskInv
<1>1. req.op = "none" /\ UNCHANGED <<phys, buf_drive, buf_track, buf_geom, buffer, current, failed, halted, writes>>
  BY Idle DEF cache
<1>2. TypeOK'
  BY <1>1 DEF TypeOK, Failed
<1>3. StateOK'
  BY <1>1 DEF StateOK, Request
<1>4. GeometryKnown'
  BY <1>1 DEF GeometryKnown
<1>5. BufferKnown'
  BY <1>1 DEF BufferKnown, IsTrack, HoldsTrack, CellOf
<1>6. WriteReady'
  BY DEF WriteReady
<1>7. ReadSoFar'
  <2>1. Done' = 0
    BY DEF Done
  <2>2. io'.out = <<>> /\ <<>> = [i \in 1 .. 0 |-> BD!ByteAt(req, i - 1)']
    OBVIOUS
  <2>3. req'.off + 0 = (io'.sector - req'.sector) * SectorSize + io'.off
    BY BoundsAssumption
  <2>4. QED
    BY <2>1, <2>2, <2>3 DEF ReadSoFar
<1>8. QED
  BY <1>2, <1>3, <1>4, <1>5, <1>6, <1>7

LEMMA InvDevread == ASSUME DiskInv, devread PROVE DiskInv'
<1>1. PICK s \in 0 .. (current.length - 1), off \in 0 .. SectorSize, n \in 1 .. MaxRead :
        /\ req' = [op |-> "read", drive |-> current.drive,
                   sector |-> current.start + s + off \div SectorSize, off |-> off % SectorSize, len |-> n]
        /\ io' = [sector |-> current.start + s + off \div SectorSize, off |-> off % SectorSize,
                  len |-> n, out |-> <<>>]
  BY DEF devread
<1>2. current.drive \in Drives \cup Absent /\ current.start \in Nat /\ current.length \in Nat
  BY DEF devread, DiskInv, TypeOK, StateOK
<1>3. off \in Nat /\ SectorSize \in Nat \ {0} /\ s \in Nat /\ n \in 0 .. MaxRead
  BY <1>2, BoundsAssumption
<1>4. off \div SectorSize \in Nat /\ off % SectorSize \in 0 .. (SectorSize - 1)
  BY <1>3, DivMod
<1>5. current.start + s + off \div SectorSize \in Nat
  BY <1>2, <1>3, <1>4
<1>6. QED
  BY <1>1, <1>2, <1>3, <1>4, <1>5, AskRead DEF devread

LEMMA InvReadSavedMBR == ASSUME DiskInv, ReadSavedMBR PROVE DiskInv'
<1>1. PICK d \in (Drives \cup Absent) \ Removable :
        req' = [op |-> "read", drive |-> d, sector |-> 0, off |-> 0, len |-> SectorSize]
  BY DEF ReadSavedMBR
<1>2. io' = [sector |-> 0, off |-> 0, len |-> SectorSize, out |-> <<>>]
  BY DEF ReadSavedMBR, NoIO
<1>3. SectorSize \in 0 .. MaxRead /\ 0 \in 0 .. (SectorSize - 1)
  BY BoundsAssumption
<1>4. QED
  BY <1>1, <1>2, <1>3, AskRead DEF ReadSavedMBR

(* A write begins. *)
LEMMA AskWrite ==
  ASSUME DiskInv, ~Busy, ~failed, UNCHANGED <<phys, cache, current, io, failed, halted, writes>>,
         buf_drive # NoDrive, writes < MaxWrites, NEW s \in Nat,
         req' = [op |-> "write", drive |-> buf_drive, sector |-> s, off |-> 0, len |-> 0],
         answer' = Failed
  PROVE  DiskInv'
<1> USE DEF DiskInv
<1>1. /\ req.op = "none"
      /\ UNCHANGED <<phys, buf_drive, buf_track, buf_geom, buffer, current, io, failed, halted, writes>>
  BY Idle DEF cache
<1>2. TypeOK'
  BY <1>1 DEF TypeOK, Failed
<1>3. StateOK'
  <2>1. buf_drive \in Drives
    BY DEF TypeOK
  <2>2. 0 \in 0 .. (SectorSize - 1) /\ 0 \in 0 .. MaxRead
    BY BoundsAssumption
  <2>3. req' \in Request /\ req'.op # "none"
    BY <2>1, <2>2 DEF Request
  <2>4. QED
    BY <1>1, <2>3 DEF StateOK
<1>4. GeometryKnown'
  BY <1>1 DEF GeometryKnown
<1>5. BufferKnown'
  BY <1>1 DEF BufferKnown, IsTrack, HoldsTrack, CellOf
<1>6. WriteReady'
  BY <1>1 DEF WriteReady
<1>7. ReadSoFar'
  BY DEF ReadSoFar
<1>8. QED
  BY <1>2, <1>3, <1>4, <1>5, <1>6, <1>7

LEMMA InvDevwrite == ASSUME DiskInv, devwrite PROVE DiskInv'
<1>1. PICK s \in 0 .. (current.length - 1) :
        req' = [op |-> "write", drive |-> current.drive, sector |-> current.start + s, off |-> 0, len |-> 0]
  BY DEF devwrite
<1>2. current.start + s \in Nat /\ current.drive = buf_drive /\ buf_drive # NoDrive
  BY DEF devwrite, DiskInv, StateOK
<1>3. QED
  BY <1>1, <1>2, AskWrite DEF devwrite

LEMMA InvWriteSavedMBR == ASSUME DiskInv, WriteSavedMBR PROVE DiskInv'
BY AskWrite DEF WriteSavedMBR

(* A call fails: what is kept are the types. *)
LEMMA Fails ==
  ASSUME DiskInv, Fail, UNCHANGED <<phys, buf_drive, buffer, current, halted, writes>>,
         buf_track' \in Nat \cup {-1}, buf_geom' \in GeomRecord,
         buf_geom'.of \in Drives => buf_geom'.sectors = Sectors(buf_geom'.of)
  PROVE  DiskInv'
<1> USE DEF DiskInv
<1>1. /\ req' = NoRequest /\ req'.op = "none" /\ failed' = TRUE /\ answer'.ok = FALSE
      /\ io'.len = 0 /\ io'.off = 0 /\ io'.sector = 0
  BY DEF Fail, Finish, NoRequest, NoIO, Failed
<1>2. io'.len \in 0 .. MaxRead /\ io'.off \in 0 .. (SectorSize - 1)
  BY <1>1, BoundsAssumption
<1>3. buf_geom'.sectors \in 0 .. BUFFERLEN /\ buf_geom'.of \in Drives \cup {NoDrive}
  BY DEF GeomRecord
<1>4. TypeOK'
  BY <1>1, <1>2, <1>3 DEF TypeOK
<1>5. StateOK'
  BY <1>1, <1>2 DEF StateOK
<1>6. GeometryKnown' /\ BufferKnown' /\ WriteReady' /\ ReadSoFar'
  BY <1>1 DEF GeometryKnown, BufferKnown, WriteReady, ReadSoFar
<1>7. QED
  BY <1>4, <1>5, <1>6

(* The geometry is read, or lost. *)
LEMMA GeometryRead ==
  ASSUME NEW d \in Drives
  PROVE  /\ DiskInfo(d) \in GeomRecord /\ DiskInfo(d).of = d
         /\ DiskInfo(d).sectors = Sectors(d) /\ DiskInfo(d).total \in Nat
BY Disks DEF DiskInfo, GeomRecord, Sectors

LEMMA GeometryLost ==
  ASSUME NEW g \in GeomRecord, NEW h \in Clobbered(g)
  PROVE  h \in GeomRecord /\ h.of = NoDrive /\ h.of \notin Drives
<1>1. PICK n \in {0, 1} : h = [g EXCEPT !.of = NoDrive, !.lba = FALSE, !.sectors = n]
  BY DEF Clobbered
<1>2. n \in 0 .. BUFFERLEN
  BY BoundsAssumption
<1>3. h \in GeomRecord /\ h.of = NoDrive
  BY <1>1, <1>2 DEF GeomRecord
<1>4. QED
  BY <1>3, DrivesAssumption DEF NoDrive

LEMMA InvReadGeometry == ASSUME DiskInv, ReadGeometry PROVE DiskInv'
<1> USE DEF DiskInv
<1>1. CASE req.drive \in Drives
  <2>1. /\ buf_geom' = DiskInfo(req.drive) /\ buf_drive' = req.drive /\ buf_track' = -1
        /\ UNCHANGED <<req, io, answer, failed, phys, buffer, current, halted, writes>>
        /\ req.op = "read"
    BY <1>1, DrivesAssumption DEF ReadGeometry, get_diskinfo
  <2>2. /\ buf_geom' \in GeomRecord /\ buf_geom'.of = req.drive
        /\ buf_geom'.sectors = Sectors(req.drive)
    BY <1>1, <2>1, GeometryRead
  <2>3. TypeOK'
    <3>1. buf_geom'.sectors \in 0 .. BUFFERLEN
      BY <2>2 DEF GeomRecord
    <3>2. QED
      BY <1>1, <2>1, <2>2, <3>1 DEF TypeOK
  <2>4. StateOK'
    BY <2>1, <2>2 DEF StateOK
  <2>5. GeometryKnown' /\ BufferKnown' /\ WriteReady'
    BY <2>1, <2>2 DEF GeometryKnown, BufferKnown, WriteReady
  <2>6. ReadSoFar'
    BY <2>1 DEF ReadSoFar, Done, BD!ByteAt
  <2>7. QED
    BY <2>3, <2>4, <2>5, <2>6
<1>2. CASE req.drive \notin Drives
  <2>1. /\ buf_geom' \in Clobbered(buf_geom) /\ UNCHANGED <<buf_drive, buf_track>>
        /\ Fail /\ UNCHANGED <<phys, buffer, current, halted, writes>>
    BY <1>2 DEF ReadGeometry, get_diskinfo
  <2>2. buf_geom' \in GeomRecord /\ buf_geom'.of \notin Drives
    BY <2>1, GeometryLost DEF StateOK
  <2>3. buf_track' \in Nat \cup {-1}
    BY <2>1 DEF TypeOK
  <2>4. QED
    BY <2>1, <2>2, <2>3, Fails
<1>3. QED
  BY <1>1, <1>2

LEMMA InvOutOfDisk == ASSUME DiskInv, OutOfDisk PROVE DiskInv'
<1>1. Fail /\ UNCHANGED <<phys, buf_drive, buffer, current, halted, writes, buf_track, buf_geom>>
  BY DEF OutOfDisk, cache
<1>2. /\ buf_track' \in Nat \cup {-1} /\ buf_geom' \in GeomRecord
      /\ buf_geom'.of \in Drives => buf_geom'.sectors = Sectors(buf_geom'.of)
  BY <1>1 DEF DiskInv, TypeOK, StateOK, GeometryKnown
<1>3. QED
  BY <1>1, <1>2, Fails

LEMMA InvDivideError == ASSUME DiskInv, DivideError PROVE DiskInv'
<1> USE DEF DiskInv
<1>1. /\ halted' = TRUE
      /\ UNCHANGED <<phys, buf_drive, buf_track, buf_geom, buffer, current, req, io, answer, failed, writes>>
  BY DEF DivideError, cache
<1>2. TypeOK'
  BY <1>1 DEF TypeOK
<1>3. StateOK' /\ GeometryKnown' /\ WriteReady'
  BY <1>1 DEF StateOK, GeometryKnown, WriteReady
<1>4. BufferKnown' /\ ReadSoFar'
  BY <1>1 DEF BufferKnown, IsTrack, HoldsTrack, CellOf, ReadSoFar, Done, BD!ByteAt
<1>5. QED
  BY <1>2, <1>3, <1>4

LEMMA InvOpenPartition == ASSUME DiskInv, open_partition PROVE DiskInv'
<1> USE DEF DiskInv
<1>1. PICK p \in Partitions :
        /\ IF buf_drive # p.drive THEN get_diskinfo(p.drive)
           ELSE UNCHANGED <<buf_drive, buf_track, buf_geom>>
        /\ IF p.drive \in Drives
           THEN /\ current' = [p EXCEPT !.length = IF @ = 0 THEN buf_geom'.total ELSE @]
                /\ UNCHANGED failed
           ELSE /\ current' = [p EXCEPT !.drive = NoDrive]
                /\ failed' = TRUE
  BY DEF open_partition
<1>2. /\ req = NoRequest /\ req.op = "none"
      /\ UNCHANGED <<phys, buffer, req, io, answer, halted, writes>>
  BY Idle DEF open_partition
<1>3. p \in [drive: Drives \cup Absent, start: Nat, length: Nat]
  BY DrivesAssumption
<1>4. /\ buf_drive' \in Drives \cup {NoDrive} /\ buf_track' \in Nat \cup {-1}
      /\ buf_geom' \in GeomRecord
      /\ (buf_geom'.of \in Drives => buf_geom'.sectors = Sectors(buf_geom'.of))
      /\ failed' \in BOOLEAN
  <2>1. CASE buf_drive = p.drive
    BY <1>1, <2>1 DEF TypeOK, StateOK, GeometryKnown
  <2>2. CASE buf_drive # p.drive /\ p.drive \in Drives
    <3>1. buf_geom' = DiskInfo(p.drive) /\ buf_drive' = p.drive /\ buf_track' = -1
      BY <1>1, <2>2, DrivesAssumption DEF get_diskinfo
    <3>2. QED
      BY <1>1, <2>2, <3>1, GeometryRead DEF TypeOK
  <2>3. CASE buf_drive # p.drive /\ p.drive \notin Drives
    <3>1. buf_geom' \in Clobbered(buf_geom) /\ UNCHANGED <<buf_drive, buf_track>>
      BY <1>1, <2>3 DEF get_diskinfo
    <3>2. buf_geom' \in GeomRecord /\ buf_geom'.of \notin Drives
      BY <3>1, GeometryLost DEF StateOK
    <3>3. QED
      BY <1>1, <2>3, <3>1, <3>2 DEF TypeOK
  <2>4. QED
    BY <2>1, <2>2, <2>3
<1>5. buf_geom'.total \in Nat /\ buf_geom'.sectors \in 0 .. BUFFERLEN
      /\ buf_geom'.of \in Drives \cup {NoDrive}
  BY <1>4 DEF GeomRecord
<1>6. current'.drive \in Drives \cup {NoDrive} /\ current'.start \in Nat /\ current'.length \in Nat
  <2>1. CASE p.drive \in Drives
    BY <1>1, <1>3, <1>5, <2>1
  <2>2. CASE p.drive \notin Drives
    BY <1>1, <1>3, <2>2
  <2>3. QED
    BY <2>1, <2>2
<1>7. TypeOK'
  BY <1>2, <1>4, <1>5, <1>6 DEF TypeOK
<1>8. StateOK'
  BY <1>2, <1>4, <1>6 DEF StateOK
<1>9. GeometryKnown' /\ WriteReady' /\ ReadSoFar'
  BY <1>2, <1>4 DEF GeometryKnown, WriteReady, ReadSoFar
<1>10. BufferKnown'
  <2>1. CASE failed'
    BY <2>1 DEF BufferKnown
  <2>2. CASE ~failed'
    <3>1. p.drive \in Drives /\ ~failed
      BY <1>1, <2>2
    <3>2. CASE buf_drive = p.drive
      <4>1. UNCHANGED <<buf_drive, buf_track, buf_geom>>
        BY <1>1, <3>2
      <4>2. QED
        BY <1>2, <3>1, <4>1 DEF BufferKnown, IsTrack, HoldsTrack, CellOf
    <3>3. CASE buf_drive # p.drive
      <4>1. buf_geom' = DiskInfo(p.drive) /\ buf_drive' = p.drive /\ buf_track' = -1
        BY <1>1, <3>1, <3>3, DrivesAssumption DEF get_diskinfo
      <4>2. QED
        BY <3>1, <4>1, GeometryRead DEF BufferKnown
    <3>4. QED
      BY <3>2, <3>3
  <2>3. QED
    BY <2>1, <2>2
<1>11. QED
  BY <1>7, <1>8, <1>9, <1>10

LEMMA InvNewCommand == ASSUME DiskInv, NewCommand PROVE DiskInv'
<1> USE DEF DiskInv
<1>1. /\ req = NoRequest /\ req.op = "none" /\ buf_drive' = NoDrive /\ failed' = FALSE
      /\ UNCHANGED <<buf_track, buf_geom, buffer, req, io, answer, halted>>
      /\ current' = [current EXCEPT !.drive = NoDrive]
  BY Idle DEF NewCommand
<1>2. DOMAIN phys' = Drives /\ \A d \in Drives : DOMAIN phys'[d] = 0 .. (Size(d) - 1)
  <2>1. CASE UNCHANGED phys
    BY <2>1 DEF StateOK
  <2>2. ASSUME NEW e \in Removable,
               phys' = [phys EXCEPT ![e] = [s \in DOMAIN phys[e] |-> phys[e][s] + 1]]
        PROVE  DOMAIN phys' = Drives /\ \A d \in Drives : DOMAIN phys'[d] = 0 .. (Size(d) - 1)
    BY <2>2 DEF StateOK
  <2>3. QED
    BY <2>1, <2>2 DEF NewCommand
<1>3. writes' \in 0 .. MaxWrites
  BY BoundsAssumption DEF NewCommand, TypeOK
<1>4. current'.drive = NoDrive \/ current'.drive = current.drive
  BY <1>1
<1>5. current'.start = current.start /\ current'.length = current.length
  BY <1>1
<1>6. TypeOK'
  BY <1>1, <1>3, <1>4 DEF TypeOK
<1>7. StateOK'
  BY <1>1, <1>2, <1>5 DEF StateOK
<1>8. GeometryKnown' /\ BufferKnown' /\ WriteReady' /\ ReadSoFar'
  BY <1>1 DEF GeometryKnown, BufferKnown, WriteReady, ReadSoFar
<1>9. QED
  BY <1>6, <1>7, <1>8

(* Sector 0 of a disk of EZ-Drive is written to sector 1. *)
LEMMA TargetIs ==
  ASSUME StateOK, NEW d \in Drives, NEW s \in Nat, buf_geom.of = d,
         NEW t \in Target(s, buf_geom, d)
  PROVE  /\ t.geom \in GeomRecord /\ t.geom.sectors = buf_geom.sectors /\ t.geom.of = d
         /\ t.res = "ok" => t.at = BD!Place(d, s) /\ t.at \in Nat
<1>1. buf_geom \in GeomRecord /\ DOMAIN phys[d] = 0 .. (Size(d) - 1)
  BY DEF StateOK
<1>2. CASE s # 0
  <2>1. t = Outcome("ok", buf_geom, s) /\ BD!Place(d, s) = s
    BY <1>2 DEF Target, BD!Place
  <2>2. QED
    BY <1>1, <2>1 DEF Outcome
<1>3. CASE s = 0
  <2>1. PICK r \in biosdisk(buf_geom, d, 0, 1) :
          t = IF r.res = "ok" /\ LooksEzd(<<d, r.at, 0>>) THEN [r EXCEPT !.at = 1] ELSE r
    BY <1>3 DEF Target
  <2>2. /\ r.geom \in GeomRecord /\ r.geom.sectors = buf_geom.sectors /\ r.geom.of = d
        /\ r.res = "ok" => r.at = 0
    BY <1>1, Transfer
  <2>3. r = [res |-> r.res, geom |-> r.geom, at |-> r.at]
    BY DEF biosdisk, ByCHS, Outcome
  <2>4. CASE r.res = "ok" /\ LooksEzd(<<d, r.at, 0>>)
    <3>1. t = [res |-> r.res, geom |-> r.geom, at |-> 1]
      BY <2>1, <2>3, <2>4
    <3>2. BD!Place(d, s) = 1
      BY <1>3, <2>2, <2>4 DEF LooksEzd, BD!Place
    <3>3. QED
      BY <2>2, <3>1, <3>2
  <2>5. CASE ~(r.res = "ok" /\ LooksEzd(<<d, r.at, 0>>))
    <3>1. t = r
      BY <2>1, <2>5
    <3>2. t.res = "ok" => BD!Place(d, s) = 0
      BY <1>3, <2>2, <2>5, <3>1, Disks DEF LooksEzd, BD!Place
    <3>3. QED
      BY <2>2, <3>1, <3>2
  <2>6. QED
    BY <2>4, <2>5
<1>4. QED
  BY <1>2, <1>3

(* A write fails, or has changed the sector, and that sector's track is    *)
(* not buffered any more.                                                  *)
WriteFails == Fail /\ UNCHANGED <<phys, buf_track, writes>>
WriteDone(x) ==
  /\ x \in Nat /\ x = BD!Place(req.drive, req.sector) /\ x < Size(req.drive)
  /\ phys' = [phys EXCEPT ![req.drive][x] = @ + 1]
  /\ writes' = writes + 1
  /\ buf_track' = IF InTrack(x) THEN -1 ELSE buf_track
  /\ Finish([ok |-> TRUE, data |-> <<>>])
  /\ UNCHANGED failed

LEMMA WriteEffect ==
  ASSUME DiskInv, rawwrite
  PROVE  /\ req.drive \in Drives /\ buf_geom.of = req.drive /\ buf_drive = req.drive /\ ~failed
         /\ req.sector \in Nat
         /\ buf_geom' \in GeomRecord /\ buf_geom'.sectors = buf_geom.sectors
         /\ buf_geom'.of = req.drive
         /\ UNCHANGED <<buf_drive, buffer, current, halted>>
         /\ WriteFails \/ \E x \in Nat : WriteDone(x)
<1> DEFINE d == req.drive
<1> USE DEF DiskInv
<1>1. req.op = "write" /\ req \in Request /\ UNCHANGED <<buf_drive, buffer, current, halted>>
  BY DEF rawwrite, StateOK, NoRequest
<1>2. d \in Drives \cup Absent /\ req.sector \in Nat /\ buf_drive = d /\ ~failed
  BY <1>1 DEF Request, WriteReady
<1>3. d \in Drives /\ d # NoDrive
  BY <1>2, DrivesAssumption DEF TypeOK, NoDrive
<1>4. buf_geom.of = d /\ DOMAIN phys[d] = 0 .. (Size(d) - 1)
  BY <1>2, <1>3 DEF BufferKnown, StateOK
<1>5. PICK t \in Target(req.sector, buf_geom, d) :
        IF t.res # "ok" THEN Fail /\ buf_geom' = t.geom /\ UNCHANGED <<phys, buf_track, writes>>
        ELSE \E r \in biosdisk(t.geom, d, t.at, 1) :
               /\ buf_geom' = r.geom
               /\ IF r.res # "ok" THEN Fail /\ UNCHANGED <<phys, buf_track, writes>>
                  ELSE /\ phys' = [phys EXCEPT ![d][r.at] = @ + 1]
                       /\ writes' = writes + 1
                       /\ buf_track' = IF InTrack(r.at) THEN -1 ELSE buf_track
                       /\ Finish([ok |-> TRUE, data |-> <<>>])
                       /\ UNCHANGED failed
  BY DEF rawwrite
<1> HIDE DEF d
<1>6. /\ t.geom \in GeomRecord /\ t.geom.sectors = buf_geom.sectors /\ t.geom.of = d
      /\ t.res = "ok" => t.at = BD!Place(d, req.sector) /\ t.at \in Nat
  BY <1>2, <1>3, <1>4, <1>5, TargetIs
<1>7. CASE t.res # "ok"
  <2>1. WriteFails /\ buf_geom' = t.geom
    BY <1>5, <1>7 DEF WriteFails
  <2>2. QED
    BY <1>1, <1>2, <1>3, <1>4, <1>6, <2>1 DEF d
<1>8. CASE t.res = "ok"
  <2>1. PICK r \in biosdisk(t.geom, d, t.at, 1) :
          /\ buf_geom' = r.geom
          /\ IF r.res # "ok" THEN Fail /\ UNCHANGED <<phys, buf_track, writes>>
             ELSE /\ phys' = [phys EXCEPT ![d][r.at] = @ + 1]
                  /\ writes' = writes + 1
                  /\ buf_track' = IF InTrack(r.at) THEN -1 ELSE buf_track
                  /\ Finish([ok |-> TRUE, data |-> <<>>])
                  /\ UNCHANGED failed
    BY <1>5, <1>8
  <2>2. /\ r.geom \in GeomRecord /\ r.geom.sectors = buf_geom.sectors /\ r.geom.of = d
        /\ r.res = "ok" => r.at = t.at /\ t.at + 1 <= Size(d)
    BY <1>3, <1>4, <1>6, <1>8, Transfer
  <2>3. CASE r.res # "ok"
    <3>1. WriteFails
      BY <2>1, <2>3 DEF WriteFails
    <3>2. QED
      BY <1>1, <1>2, <1>3, <1>4, <2>1, <2>2, <3>1 DEF d
  <2>4. CASE r.res = "ok"
    <3>1. r.at \in Nat /\ r.at = BD!Place(d, req.sector) /\ r.at < Size(d)
      BY <1>3, <1>6, <1>8, <2>2, <2>4, Disks
    <3>2. WriteDone(r.at)
      BY <2>1, <2>4, <3>1 DEF WriteDone, d
    <3>3. QED
      BY <1>1, <1>2, <1>3, <1>4, <2>1, <2>2, <3>1, <3>2 DEF d
  <2>5. QED
    BY <2>3, <2>4
<1>9. QED
  BY <1>7, <1>8

(* What a write of sector x leaves in the buffer is not that sector. *)
LEMMA OtherTrack ==
  ASSUME NEW d \in Drives, NEW bt, IsTrack(d, bt), NEW x \in Nat,
         x - (x % Sectors(d)) # bt, NEW i \in 0 .. (Sectors(d) - 1)
  PROVE  BD!Place(d, bt + i) # x
<1>1. Sectors(d) \in Nat \ {0} /\ bt \in Nat /\ bt % Sectors(d) = 0
  BY Disks DEF IsTrack
<1>2. \A k \in 0 .. (Sectors(d) - 1) : bt + k # x
  <2> DEFINE n == Sectors(d)
  <2> HIDE DEF n
  <2>1. \A k \in 0 .. (n - 1) : (bt + k) - ((bt + k) % n) = bt
    BY <1>1, InOneTrack DEF n
  <2>2. \A k \in 0 .. (n - 1) : bt + k # x
    BY <2>1 DEF n
  <2>3. QED
    BY <2>2 DEF n
<1>3. CASE bt + i = 0 /\ 0 \in EzdSectors[d]
  <2>1. bt + 1 = 1 /\ 1 \in 0 .. (Sectors(d) - 1)
    BY <1>1, <1>3, EzdAssumption DEF Sectors
  <2>2. x # 1
    BY <1>2, <2>1
  <2>3. QED
    BY <1>3, <2>2 DEF BD!Place
<1>4. CASE ~(bt + i = 0 /\ 0 \in EzdSectors[d])
  BY <1>2, <1>4 DEF BD!Place
<1>5. QED
  BY <1>3, <1>4

LEMMA InvRawwrite == ASSUME DiskInv, rawwrite PROVE DiskInv'
<1> DEFINE d == req.drive
<1> USE DEF DiskInv
<1>1. /\ d \in Drives /\ buf_geom.of = d /\ buf_drive = d /\ ~failed
      /\ buf_geom' \in GeomRecord /\ buf_geom'.sectors = buf_geom.sectors
      /\ buf_geom'.of = d /\ UNCHANGED <<buf_drive, buffer, current, halted>>
      /\ WriteFails \/ \E x \in Nat : WriteDone(x)
  BY WriteEffect
<1>2. buf_geom.sectors = Sectors(d) /\ d # NoDrive
  BY <1>1, Disks DEF GeometryKnown
<1>3. CASE WriteFails
  <2>1. buf_track' \in Nat \cup {-1}
    BY <1>3 DEF WriteFails, TypeOK
  <2>2. QED
    BY <1>1, <1>2, <1>3, <2>1, Fails DEF WriteFails
<1>4. ASSUME NEW x \in Nat, WriteDone(x) PROVE DiskInv'
  <2>1. /\ req' = NoRequest /\ req'.op = "none" /\ answer'.ok = TRUE /\ UNCHANGED failed
        /\ io'.len = 0 /\ io'.off = 0 /\ io'.sector = 0
    BY <1>4 DEF WriteDone, Finish, NoRequest, NoIO
  <2>2. io'.len \in 0 .. MaxRead /\ io'.off \in 0 .. (SectorSize - 1)
    BY <2>1, BoundsAssumption
  <2>3. buf_geom'.sectors \in 0 .. BUFFERLEN /\ buf_track' \in Nat \cup {-1}
    BY <1>1, <1>4 DEF GeomRecord, WriteDone, TypeOK
  <2>4. writes' \in 0 .. MaxWrites
    BY <1>4, BoundsAssumption DEF WriteDone, TypeOK, WriteReady, rawwrite
  <2>5. TypeOK'
    BY <1>1, <2>1, <2>2, <2>3, <2>4 DEF TypeOK
  <2>6. /\ DOMAIN phys' = Drives /\ \A e \in Drives : DOMAIN phys'[e] = 0 .. (Size(e) - 1)
        /\ \A y : y # x => phys'[d][y] = phys[d][y]
    BY <1>1, <1>4 DEF WriteDone, StateOK
  <2>7. StateOK'
    BY <1>1, <2>1, <2>2, <2>6 DEF StateOK
  <2>8. GeometryKnown' /\ WriteReady' /\ ReadSoFar'
    BY <1>1, <1>2, <2>1 DEF GeometryKnown, WriteReady, ReadSoFar
  <2>9. BufferKnown'
    <3>1. CASE buf_track' = -1
      BY <1>1, <3>1 DEF BufferKnown
    <3>2. CASE buf_track' # -1
      <4>1. buf_track' = buf_track /\ ~InTrack(x) /\ buf_track # -1
        BY <1>4, <3>2 DEF WriteDone
      <4>2. IsTrack(d, buf_track) /\ HoldsTrack(buffer, phys, d, buf_track)
        BY <1>1, <1>2, <4>1 DEF BufferKnown, rawwrite
      <4>3. x - (x % Sectors(d)) # buf_track
        BY <1>2, <4>1 DEF InTrack
      <4>4. \A i \in 0 .. (Sectors(d) - 1) : BD!Place(d, buf_track + i) # x
        BY <1>1, <4>2, <4>3, OtherTrack
      <4>5. HoldsTrack(buffer, phys', d, buf_track)
        BY <2>6, <4>2, <4>4 DEF HoldsTrack, CellOf
      <4>6. QED
        BY <1>1, <4>1, <4>2, <4>5 DEF BufferKnown, IsTrack, HoldsTrack, CellOf
    <3>3. QED
      BY <3>1, <3>2
  <2>10. QED
    BY <2>5, <2>7, <2>8, <2>9
<1>5. QED
  BY <1>1, <1>3, <1>4

(* How a round ends: the read fails, or is answered, or goes on behind the *)
(* track.                                                                  *)
RoundOut(c) == io.out \o Copied(c.buffer, DataAt(c), Size1)

LEMMA RoundEffect ==
  ASSUME ReadRound
  PROVE  \E c \in Rounds :
           /\ buffer' = c.buffer /\ buf_track' = c.track /\ buf_geom' = c.geom
           /\ \/ ~c.ok /\ Fail
              \/ /\ c.ok /\ UNCHANGED failed /\ Size1 = io.len
                 /\ Finish([ok |-> TRUE, data |-> RoundOut(c)])
              \/ /\ c.ok /\ UNCHANGED failed /\ Size1 # io.len
                 /\ io' = [sector |-> io.sector + num_sect, off |-> 0,
                           len |-> io.len - Size1, out |-> RoundOut(c)]
                 /\ UNCHANGED <<req, answer>>
<1>1. PICK c \in Rounds :
       /\ buffer' = c.buffer /\ buf_track' = c.track /\ buf_geom' = c.geom
       /\ IF ~c.ok THEN Fail
          ELSE /\ UNCHANGED failed
               /\ IF Size1 = io.len THEN Finish([ok |-> TRUE, data |-> RoundOut(c)])
                  ELSE /\ io' = [sector |-> io.sector + num_sect, off |-> 0,
                                 len |-> io.len - Size1, out |-> RoundOut(c)]
                       /\ UNCHANGED <<req, answer>>
  BY DEF ReadRound, Rounds, Size1, RoundOut
<1>2. QED
  BY <1>1

LEMMA InvReadRound == ASSUME DiskInv, ReadRound PROVE DiskInv'
<1> DEFINE d == req.drive
<1> USE DEF DiskInv
<1>1. /\ Reading /\ req.op = "read" /\ buf_drive = d /\ buf_geom.sectors > 0
      /\ UNCHANGED <<phys, buf_drive, current, halted, writes>>
  BY DEF ReadRound, Reading
<1>2. PICK c \in Rounds :
        /\ buffer' = c.buffer /\ buf_track' = c.track /\ buf_geom' = c.geom
        /\ \/ ~c.ok /\ Fail
           \/ /\ c.ok /\ UNCHANGED failed /\ Size1 = io.len
              /\ Finish([ok |-> TRUE, data |-> RoundOut(c)])
           \/ /\ c.ok /\ UNCHANGED failed /\ Size1 # io.len
              /\ io' = [sector |-> io.sector + num_sect, off |-> 0,
                        len |-> io.len - Size1, out |-> RoundOut(c)]
              /\ UNCHANGED <<req, answer>>
  BY RoundEffect
<1>3. CacheOK(c) /\ d \in Drives /\ d # NoDrive
  BY <1>1, RoundTypes, Disks
<1>4. /\ buf_geom' \in GeomRecord /\ buf_geom'.sectors = buf_geom.sectors
      /\ buf_geom'.of = buf_geom.of /\ buf_track' \in Nat \cup {-1}
      /\ buf_geom'.sectors \in 0 .. BUFFERLEN /\ buf_geom'.of \in Drives \cup {NoDrive}
  BY <1>1, <1>2, <1>3, Place DEF CacheOK, GeomRecord
<1>5. DOMAIN buffer' = Slots
      /\ \A i \in Slots : Len(buffer'[i]) = 3 /\ buffer'[i][1] \in Drives \cup {NoDrive}
  BY <1>2, <1>3 DEF CacheOK, CellsOK
<1>6. GeometryKnown'
  BY <1>4 DEF GeometryKnown
<1>7. Size1 \in 0 .. io.len /\ io.len \in Nat /\ io.len <= MaxRead /\ io.sector \in Nat
      /\ num_sect \in Nat /\ 0 \in 0 .. (SectorSize - 1) /\ MaxRead \in Nat
      /\ SectorSize \in Nat
  BY <1>1, RoundSize, Place, BoundsAssumption, SMTT(30) DEF TypeOK, StateOK
<1>8. failed' \in BOOLEAN /\ io'.len \in 0 .. MaxRead /\ io'.sector \in Nat
      /\ io'.off \in 0 .. (SectorSize - 1) /\ answer'.ok \in BOOLEAN
      /\ (req' = NoRequest \/ (req' = req /\ req \in Request))
  <2>1. NoIO.len = 0 /\ NoIO.off = 0 /\ NoIO.sector = 0 /\ Failed.ok = FALSE
    BY DEF NoIO, Failed
  <2>2. CASE ~c.ok /\ Fail
    <3>1. failed' = TRUE /\ io' = NoIO /\ answer' = Failed /\ req' = NoRequest
      BY <2>2 DEF Fail, Finish
    <3>2. io'.len \in 0 .. MaxRead /\ io'.sector \in Nat /\ io'.off \in 0 .. (SectorSize - 1)
      BY <1>7, <2>1, <3>1
    <3>3. failed' \in BOOLEAN /\ answer'.ok \in BOOLEAN
      BY <2>1, <3>1
    <3>4. QED
      BY <3>1, <3>2, <3>3
  <2>3. CASE Finish([ok |-> TRUE, data |-> RoundOut(c)]) /\ UNCHANGED failed
    <3>1. io' = NoIO /\ answer'.ok = TRUE /\ req' = NoRequest
      BY <2>3 DEF Finish
    <3>2. io'.len \in 0 .. MaxRead /\ io'.sector \in Nat /\ io'.off \in 0 .. (SectorSize - 1)
      BY <1>7, <2>1, <3>1
    <3>3. failed' \in BOOLEAN /\ answer'.ok \in BOOLEAN
      BY <2>3, <3>1 DEF TypeOK
    <3>4. QED
      BY <3>1, <3>2, <3>3
  <2>4. CASE /\ c.ok /\ UNCHANGED failed /\ Size1 # io.len
             /\ io' = [sector |-> io.sector + num_sect, off |-> 0,
                       len |-> io.len - Size1, out |-> RoundOut(c)]
             /\ UNCHANGED <<req, answer>>
    <3>1. io'.len = io.len - Size1 /\ io'.sector = io.sector + num_sect /\ io'.off = 0
      BY <2>4
    <3>2. req \in Request
      BY <1>1 DEF StateOK, NoRequest
    <3>3. QED
      BY <1>7, <2>4, <3>1, <3>2 DEF TypeOK
  <2>5. QED
    BY <1>2, <2>2, <2>3, <2>4
<1>9. TypeOK'
  <2>1. req'.op \in {"none", "read", "write"}
    BY <1>8 DEF NoRequest, Request
  <2>2. QED
    BY <1>1, <1>4, <1>5, <1>8, <2>1 DEF TypeOK
<1>10. StateOK'
  BY <1>1, <1>4, <1>5, <1>8 DEF StateOK
<1>11. WriteReady'
  BY <1>1, <1>8 DEF WriteReady, NoRequest
<1>12. CASE failed'
  BY <1>6, <1>9, <1>10, <1>11, <1>12 DEF BufferKnown, ReadSoFar
<1>13. CASE ~failed'
  <2>1. c.ok /\ ~failed /\ ~failed'
    BY <1>2, <1>13 DEF Fail
  <2>2. Keeps(c, d) /\ \E sh \in Nat : ServesAt(c, d, sh)
    BY <1>1, <2>1, RoundServes
  <2>3. buf_geom.of = d /\ sectors_per_vtrack = Sectors(d)
    BY <1>1, <1>3, <2>1, Place DEF BufferKnown, GeometryKnown
  <2>4. CASE Size1 = io.len /\ Finish([ok |-> TRUE, data |-> RoundOut(c)])
    <3>1. req' = NoRequest /\ req'.op = "none"
      BY <2>4 DEF Finish, NoRequest
    <3>2. ~(slen > num_sect)
      BY <1>1, <1>7, <2>4, RoundSize, Needed
    <3>3. ASSUME buf_track' # -1
          PROVE  IsTrack(d, buf_track') /\ HoldsTrack(buffer', phys', d, buf_track')
      BY <1>1, <1>2, <2>2, <3>2, <3>3 DEF Keeps
    <3>4. BufferKnown'
      BY <1>1, <1>4, <2>3, <3>3 DEF BufferKnown, IsTrack, HoldsTrack, CellOf
    <3>5. ReadSoFar'
      BY <3>1 DEF ReadSoFar
    <3>6. QED
      BY <1>6, <1>9, <1>10, <1>11, <3>4, <3>5
  <2>5. CASE /\ Size1 # io.len
             /\ io' = [sector |-> io.sector + num_sect, off |-> 0,
                       len |-> io.len - Size1, out |-> RoundOut(c)]
             /\ UNCHANGED <<req, answer>>
    <3>1. /\ io'.sector = io.sector + num_sect /\ io'.off = 0 /\ io'.len = io.len - Size1
          /\ io'.out = RoundOut(c) /\ req' = req
      BY <2>5
    <3>2. BufferKnown'
      <4>1. ASSUME buf_track' # -1
            PROVE  IsTrack(d, buf_track') /\ io'.sector = buf_track' + Sectors(d)
        BY <1>1, <1>2, <2>2, <2>3, <3>1, <4>1, Place DEF Keeps
      <4>2. QED
        BY <1>1, <1>4, <2>3, <3>1, <4>1 DEF BufferKnown, IsTrack
    <3>3. ReadSoFar'
      <4> DEFINE a == io.sector - req.sector
                 n == SectorSize
      <4>1. /\ Done \in Nat /\ req.sector <= io.sector /\ req.off + Done = a * n + io.off
            /\ req.sector \in Nat /\ req.off \in Nat /\ req.len \in Nat /\ io.off \in Nat
        BY <1>1, <2>1, <1>7 DEF ReadSoFar, StateOK, Request, NoRequest
      <4>2. Done' = Done + Size1 /\ Done' \in Nat
        BY <1>7, <3>1, <4>1 DEF Done
      <4>3. io.off + Size1 = num_sect * n
        BY <1>1, <2>5, RoundSize
      <4>4. (a + num_sect) * n = a * n + num_sect * n /\ a * n \in Nat /\ num_sect * n \in Nat
        BY <1>7, <4>1
      <4>5. req'.off + Done' = (io'.sector - req'.sector) * n + io'.off
        <5>1. io'.sector - req'.sector = a + num_sect
          BY <1>7, <3>1, <4>1
        <5>2. req.off + (Done + Size1) = (a + num_sect) * n + 0
          <6> DEFINE p == a * n
                     q == num_sect * n
          <6>1. p \in Nat /\ q \in Nat /\ req.off + Done = p + io.off /\ io.off + Size1 = q
            BY <4>1, <4>3, <4>4
          <6> HIDE DEF p, q, a
          <6>2. req.off + (Done + Size1) = p + q
            BY <1>7, <4>1, <6>1
          <6>3. QED
            BY <4>4, <6>1, <6>2 DEF p, q
        <5>3. QED
          BY <3>1, <4>2, <5>1, <5>2
      <4>6. req'.sector <= io'.sector
        BY <1>7, <3>1, <4>1
      <4>7. /\ RoundOut(c) = [i \in 1 .. (Done + Size1) |-> BD!ByteAt(req, i - 1)]
            /\ \A i \in 0 .. (Done + Size1 - 1) :
                 req.sector + (req.off + i) \div SectorSize < Size(req.drive)
        BY <1>1, <1>3, <2>1, <2>2, RoundCopies DEF RoundOut
      <4>8. io'.out = [i \in 1 .. Done' |-> BD!ByteAt(req, i - 1)']
        BY <1>1, <3>1, <4>2, <4>7 DEF BD!ByteAt
      <4>9. \A i \in 0 .. (Done' - 1) :
              /\ req'.drive \in Drives
              /\ req'.sector + (req'.off + i) \div SectorSize < Size(req'.drive)
        <5>1. 0 .. (Done' - 1) = 0 .. (Done + Size1 - 1)
          BY <1>7, <4>1, <4>2
        <5>2. QED
          BY <1>3, <3>1, <4>7, <5>1, Zenon
      <4>10. QED
        BY <4>2, <4>5, <4>6, <4>8, <4>9 DEF ReadSoFar
    <3>4. QED
      BY <1>6, <1>9, <1>10, <1>11, <3>2, <3>3
  <2>6. QED
    BY <1>2, <2>1, <2>4, <2>5
<1>14. QED
  BY <1>12, <1>13

LEMMA InvStutter == ASSUME DiskInv, UNCHANGED vars PROVE DiskInv'
<1> USE DEF DiskInv
<1>1. UNCHANGED <<phys, buf_drive, buf_track, buf_geom, buffer, current, req, io, answer, failed,
                  halted, writes>>
  BY DEF vars, cache
<1>2. TypeOK' /\ StateOK' /\ GeometryKnown' /\ WriteReady'
  BY <1>1 DEF TypeOK, StateOK, GeometryKnown, WriteReady
<1>3. BufferKnown' /\ ReadSoFar'
  BY <1>1 DEF BufferKnown, IsTrack, HoldsTrack, CellOf, ReadSoFar, Done, BD!ByteAt
<1>4. QED
  BY <1>2, <1>3

(* rawread, rawwrite and the calls around them keep the invariant: the     *)
(* buffer holds the track, or the read under way has gone on behind it,    *)
(* and what a read has copied is what the disk has.                        *)
THEOREM DiskInductive == Spec => []DiskInv
<1>1. DiskInv /\ [Next]_vars => DiskInv'
  <2> SUFFICES ASSUME DiskInv, [Next]_vars PROVE DiskInv'
    OBVIOUS
  <2>1. CASE devread
    BY <2>1, InvDevread
  <2>2. CASE ReadSavedMBR
    BY <2>2, InvReadSavedMBR
  <2>3. CASE ReadGeometry
    BY <2>3, InvReadGeometry
  <2>4. CASE OutOfDisk
    BY <2>4, InvOutOfDisk
  <2>5. CASE DivideError
    BY <2>5, InvDivideError
  <2>6. CASE ReadRound
    BY <2>6, InvReadRound
  <2>7. CASE devwrite
    BY <2>7, InvDevwrite
  <2>8. CASE WriteSavedMBR
    BY <2>8, InvWriteSavedMBR
  <2>9. CASE rawwrite
    BY <2>9, InvRawwrite
  <2>10. CASE open_partition
    BY <2>10, InvOpenPartition
  <2>11. CASE NewCommand
    BY <2>11, InvNewCommand
  <2>12. CASE UNCHANGED vars
    BY <2>12, InvStutter
  <2>13. QED
    BY <2>1, <2>2, <2>3, <2>4, <2>5, <2>6, <2>7, <2>8, <2>9, <2>10, <2>11, <2>12 DEF Next
<1>2. QED
  BY <1>1, InvInit, PTL DEF Spec

(* The variables of disk_io.c keep their types, and biosdisk never fills   *)
(* more than the buffer, for every geometry whose tracks fit into it.      *)
THEOREM DiskTypeCorrect == Spec => []TypeOK
<1>1. DiskInv => TypeOK
  BY DEF DiskInv
<1>2. QED
  BY <1>1, DiskInductive, PTL

(* Between requests of a command that has not failed, the buffer is the    *)
(* track that buf_track names: what rawread left in it, rawwrite and the   *)
(* exchange of disks never make stale.                                     *)
THEOREM BufferedTrackIsTrue == Spec => []CacheIsTrack
<1>1. DiskInv => CacheIsTrack
  <2> SUFFICES ASSUME DiskInv, ~Busy, ~failed, buf_drive # NoDrive, buf_track # -1
               PROVE  /\ buf_geom.of = buf_drive
                      /\ \A i \in 0 .. (buf_geom.sectors - 1) :
                           LET s == IF buf_track + i = 0 /\ 0 \in EzdSectors[buf_drive] THEN 1
                                    ELSE buf_track + i
                           IN buffer[i] = <<buf_drive, s, phys[buf_drive][s]>>
    BY DEF CacheIsTrack
  <2>1. buf_drive \in Drives /\ req.op = "none"
    BY Idle DEF DiskInv, TypeOK
  <2>2. buf_geom.of = buf_drive /\ HoldsTrack(buffer, phys, buf_drive, buf_track)
    BY <2>1 DEF DiskInv, BufferKnown
  <2>3. buf_geom.sectors = Sectors(buf_drive)
    BY <2>1, <2>2 DEF DiskInv, GeometryKnown
  <2>4. QED
    BY <2>2, <2>3 DEF HoldsTrack, CellOf, BD!Place
<1>2. QED
  BY <1>1, DiskInductive, PTL

-----------------------------------------------------------------------------
(* Refinement *)

LEMMA FailIsFail ==
  ASSUME Fail, UNCHANGED phys
  PROVE  /\ req' = BD!NoRequest /\ answer' = BD!Failed
         /\ (~failed)' \in {~failed, FALSE} /\ UNCHANGED phys
BY DEF Fail, Finish, NoRequest, BD!NoRequest, Failed, BD!Failed

LEMMA RoundIsRead ==
  ASSUME DiskInv, ReadRound
  PROVE  BD!Read \/ UNCHANGED BD!devVars
<1> USE DEF DiskInv
<1>1. Reading /\ req.op = "read" /\ buf_geom.sectors > 0 /\ UNCHANGED phys
  BY DEF ReadRound, Reading
<1>2. PICK c \in Rounds :
        \/ ~c.ok /\ Fail
        \/ /\ c.ok /\ UNCHANGED failed /\ Size1 = io.len
           /\ Finish([ok |-> TRUE, data |-> RoundOut(c)])
        \/ c.ok /\ UNCHANGED failed /\ UNCHANGED <<req, answer>>
  BY RoundEffect
<1>3. CASE ~c.ok /\ Fail
  BY <1>1, <1>3, FailIsFail DEF BD!Read, BD!Fail
<1>4. CASE c.ok /\ UNCHANGED failed /\ UNCHANGED <<req, answer>>
  BY <1>1, <1>4 DEF BD!devVars
<1>5. CASE /\ c.ok /\ UNCHANGED failed /\ Size1 = io.len
           /\ Finish([ok |-> TRUE, data |-> RoundOut(c)])
  <2>1. req' = BD!NoRequest /\ answer' = [ok |-> TRUE, data |-> RoundOut(c)]
    BY <1>5 DEF Finish, NoRequest, BD!NoRequest
  <2>2. CASE failed
    BY <1>1, <1>5, <2>1, <2>2 DEF BD!Read
  <2>3. CASE ~failed
    <3>1. req.drive \in Drives
      BY <1>1, RoundTypes
    <3>2. PICK sh \in Nat : ServesAt(c, req.drive, sh)
      BY <1>1, <1>5, <2>3, RoundServes
    <3>3. /\ RoundOut(c) = [i \in 1 .. (Done + Size1) |-> BD!ByteAt(req, i - 1)]
          /\ \A i \in 0 .. (Done + Size1 - 1) :
               req.sector + (req.off + i) \div SectorSize < Size(req.drive)
      BY <1>1, <2>3, <3>1, <3>2, RoundCopies DEF RoundOut
    <3>4. Done + Size1 = req.len /\ Done \in Int /\ Size1 \in Int
      <4>1. io.len \in Nat /\ req \in Request
        BY <1>1, RoundSize DEF StateOK, NoRequest
      <4>2. QED
        BY <1>5, <4>1 DEF Done, Request
    <3>5. answer' = BD!Contents(req)
      BY <2>1, <3>3, <3>4 DEF BD!Contents
    <3>6. BD!OnDisk(req)
      <4>1. req \in Request /\ SectorSize \in Nat \ {0}
        BY <1>1, BoundsAssumption DEF StateOK, NoRequest
      <4>2. req.sector \in Nat /\ req.off \in Nat /\ req.len \in Nat
        BY <4>1 DEF Request
      <4>3. ASSUME NEW i \in 0 .. (req.len - 1)
            PROVE  req.sector + (req.off + i) \div SectorSize \in 0 .. (Size(req.drive) - 1)
        <5>1. req.off + i \in Nat
          BY <4>2
        <5>2. (req.off + i) \div SectorSize \in Nat
          BY <4>1, <5>1, DivMod
        <5>0. i \in 0 .. (Done + Size1 - 1)
          BY <3>4, <4>2
        <5>3. req.sector + (req.off + i) \div SectorSize < Size(req.drive)
          BY <3>3, <5>0, Zenon
        <5>4. Size(req.drive) \in Nat
          BY <3>1, Disks
        <5>5. QED
          BY <4>2, <5>2, <5>3, <5>4
      <4>4. DOMAIN phys = Drives /\ DOMAIN phys[req.drive] = 0 .. (Size(req.drive) - 1)
        BY <3>1 DEF StateOK
      <4>5. QED
        BY <3>1, <4>3, <4>4 DEF BD!OnDisk
    <3>7. QED
      BY <1>1, <1>5, <2>1, <3>5, <3>6 DEF BD!Read
  <2>4. QED
    BY <2>2, <2>3
<1>6. QED
  BY <1>2, <1>3, <1>4, <1>5

LEMMA WriteIsWrite ==
  ASSUME DiskInv, rawwrite
  PROVE  BD!Write
<1>1. req.op = "write" /\ req.drive \in Drives /\ req.sector \in Nat
      /\ (WriteFails \/ \E x \in Nat : WriteDone(x))
  BY WriteEffect DEF rawwrite
<1>2. CASE WriteFails
  BY <1>1, <1>2, FailIsFail DEF WriteFails, BD!Write, BD!Fail
<1>3. ASSUME NEW x \in Nat, WriteDone(x) PROVE BD!Write
  <2>1. req' = BD!NoRequest /\ answer' = [ok |-> TRUE, data |-> <<>>] /\ UNCHANGED failed
    BY <1>3 DEF WriteDone, Finish, NoRequest, BD!NoRequest
  <2>2. x = BD!Place(req.drive, req.sector) /\ x < Size(req.drive)
        /\ phys' = [phys EXCEPT ![req.drive][x] = @ + 1]
    BY <1>3 DEF WriteDone
  <2>3. req.sector \in DOMAIN phys[req.drive]
    <3>1. DOMAIN phys[req.drive] = 0 .. (Size(req.drive) - 1) /\ Size(req.drive) \in Nat
      BY <1>1, Disks DEF DiskInv, StateOK
    <3>2. req.sector < Size(req.drive)
      BY <1>1, <2>2, <3>1 DEF BD!Place
    <3>3. QED
      BY <1>1, <3>1, <3>2
  <2>4. QED
    BY <1>1, <2>1, <2>2, <2>3 DEF BD!Write
<1>4. QED
  BY <1>1, <1>2, <1>3

LEMMA StepRefines ==
  ASSUME DiskInv, [Next]_vars
  PROVE  [BD!Next]_BD!devVars
<1> USE DEF DiskInv
<1>1. ASSUME ~Busy, answer' = Failed, UNCHANGED <<phys, failed>>, req'.op \in {"read", "write"}
      PROVE  BD!Ask
  <2>1. req = BD!NoRequest /\ req' # BD!NoRequest /\ answer' = BD!Failed
    BY <1>1, Idle DEF NoRequest, BD!NoRequest, Failed, BD!Failed
  <2>2. QED
    BY <1>1, <2>1 DEF BD!Ask
<1>2. CASE devread
  BY <1>1, <1>2 DEF devread, BD!Next
<1>3. CASE ReadSavedMBR
  BY <1>1, <1>3 DEF ReadSavedMBR, BD!Next
<1>4. CASE devwrite
  BY <1>1, <1>4 DEF devwrite, BD!Next
<1>5. CASE WriteSavedMBR
  BY <1>1, <1>5 DEF WriteSavedMBR, BD!Next
<1>6. CASE ReadGeometry
  <2>1. CASE req.drive \in Drives
    BY <1>6, <2>1 DEF ReadGeometry, BD!devVars
  <2>2. CASE req.drive \notin Drives
    <3>1. Fail /\ UNCHANGED phys /\ req.op = "read"
      BY <1>6, <2>2 DEF ReadGeometry
    <3>2. QED
      BY <3>1, FailIsFail DEF BD!Read, BD!Fail, BD!Next
  <2>3. QED
    BY <2>1, <2>2
<1>7. CASE OutOfDisk
  <2>1. Fail /\ UNCHANGED phys /\ req.op = "read"
    BY <1>7 DEF OutOfDisk, Reading
  <2>2. QED
    BY <2>1, FailIsFail DEF BD!Read, BD!Fail, BD!Next
<1>8. CASE DivideError
  BY <1>8 DEF DivideError, BD!devVars
<1>9. CASE ReadRound
  BY <1>9, RoundIsRead DEF BD!Next
<1>10. CASE rawwrite
  BY <1>10, WriteIsWrite DEF BD!Next
<1>11. CASE open_partition
  <2>1. req = BD!NoRequest /\ UNCHANGED <<req, answer, phys>>
    BY <1>11, Idle DEF open_partition, NoRequest, BD!NoRequest
  <2>2. failed' = failed \/ failed' = TRUE
    BY <1>11 DEF open_partition
  <2>3. (~failed)' \in {~failed, FALSE}
    <3>1. CASE failed' = failed
      BY <3>1
    <3>2. CASE failed' = TRUE
      BY <3>2
    <3>3. QED
      BY <2>2, <3>1, <3>2
  <2>4. BD!Select
    BY <2>1, <2>3 DEF BD!Select
  <2>5. QED
    BY <2>4 DEF BD!Next
<1>12. CASE NewCommand
  <2>1. req = BD!NoRequest /\ UNCHANGED <<req, answer>> /\ failed' = FALSE
    BY <1>12, Idle DEF NewCommand, NoRequest, BD!NoRequest
  <2>2. QED
    BY <2>1 DEF BD!Command, BD!Next
<1>13. CASE UNCHANGED vars
  BY <1>13 DEF vars, BD!devVars
<1>14. QED
  BY <1>2, <1>3, <1>4, <1>5, <1>6, <1>7, <1>8, <1>9, <1>10, <1>11, <1>12, <1>13 DEF Next

(* Every step of the buffered disk is a step of a block device, or changes *)
(* nothing the device shows: a read of any length, over any number of      *)
(* tracks, gives what was last written or fails, until a call of the       *)
(* command has failed.                                                     *)
THEOREM DiskIsBlockDevice == Spec => ImplementsBlockDevice
<1>1. Init => BD!Init
  BY DEF Init, BD!Init, NoRequest, BD!NoRequest, Failed, BD!Failed
<1>2. DiskInv /\ [Next]_vars => [BD!Next]_BD!devVars
  BY StepRefines
<1>3. QED
  BY <1>1, <1>2, DiskInductive, PTL DEF Spec, ImplementsBlockDevice, BD!Spec
=============================================================================
