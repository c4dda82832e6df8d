------------------------- MODULE MeasuredFileProofs -------------------------
(***************************************************************************)
(* Proofs about the measuring file layer, for any files, buffer sizes and  *)
(* read lengths.  IInv is inductive: ExtendSound alone says nothing of the *)
(* hash that the next grub_close will compare and extend; HashTracksFile   *)
(* and FileKnown do.                                                       *)
(***************************************************************************)
EXTENDS MeasuredFile, TLAPS

IInv == TypeOK /\ FileKnown /\ HashTracksFile /\ StagedIsMeasured /\ ExtendSound

(* What the refills of the decompressor's buffer (get_byte) can reach: they *)
(* advance by a buffer, or to the end of the file, and the last one needed  *)
(* has all that is used.                                                    *)
LEMMA RefillBounds ==
  ASSUME NEW f \in Files, f.kind = "gzip", NEW k \in Nat \ {0}
  PROVE  /\ Refill(f, k) \in Nat
         /\ f.off < Refill(f, k)
         /\ Refill(f, k) <= f.raw
         /\ Refill(f, k) = f.raw \/ f.off + InBufSize <= Refill(f, k)
         /\ Enough(f, k) => f.used <= Refill(f, k)
<1> DEFINE x == k * InBufSize
<1>1. f \in FileRecord /\ 0 < f.off /\ f.off < f.used /\ f.used + Trailer <= f.raw
  BY FilesAssumption
<1>2. f.off \in Nat /\ f.used \in Nat /\ f.raw \in Nat
  BY <1>1 DEF FileRecord
<1>3. InBufSize \in Nat \ {0} /\ Trailer \in Nat
  BY SizesAssumption
<1>4. x \in Nat /\ InBufSize <= x
  <2>1. PICK j \in Nat : k = j + 1
    BY k - 1 \in Nat, k = (k - 1) + 1
  <2>2. x = j * InBufSize + InBufSize
    BY <2>1, <1>3
  <2>3. j * InBufSize \in Nat
    BY <2>1, <1>3
  <2> QED
    BY <2>2, <2>3, <1>3
<1> HIDE DEF x
<1>5. Refill(f, k) = IF f.off + x < f.raw THEN f.off + x ELSE f.raw
  BY DEF Refill, x
<1>6. Enough(f, k) <=> f.used <= f.off + x
  BY DEF Enough, x
<1> QED
  BY <1>1, <1>2, <1>3, <1>4, <1>5, <1>6

(* The record of a file has natural numbers for its sizes.                 *)
LEMMA FileTypes ==
  ASSUME NEW f \in Files \cup {NoFile}
  PROVE  /\ f.raw \in Nat /\ f.off \in Nat /\ f.used \in Nat /\ f.plain \in Nat
         /\ f.block \in BOOLEAN
<1>1. CASE f \in Files
  <2>1. f \in FileRecord
    BY <1>1, FilesAssumption
  <2> QED
    BY <2>1 DEF FileRecord
<1>2. CASE f = NoFile
  BY <1>2 DEF NoFile
<1> QED
  BY <1>1, <1>2

(* The refills a read takes stay within the file, whatever the file.       *)
LEMMA RefillNat ==
  ASSUME NEW f \in Files \cup {NoFile}, NEW k \in Nat
  PROVE  Refill(f, k) \in Nat
<1>1. k * InBufSize \in Nat
  BY SizesAssumption
<1> QED
  BY <1>1, FileTypes DEF Refill

(* sha1_update keeps the hash well formed, and clean when the bytes follow *)
(* the ones it holds.                                                      *)
LEMMA UpdateHash ==
  ASSUME NEW h \in HashOf, NEW pos \in Nat, NEW n \in Nat
  PROVE  /\ sha1_update(h, pos, n) \in HashOf
         /\ sha1_update(h, pos, n).len = h.len + n
         /\ h.clean /\ pos = h.len => sha1_update(h, pos, n).clean
         /\ h.clean /\ n = 0 => sha1_update(h, pos, n).clean
<1> DEFINE b == h.clean /\ (n = 0 \/ pos = h.len)
<1>1. b \in BOOLEAN
  OBVIOUS
<1>2. sha1_update(h, pos, n) = [len |-> h.len + n, clean |-> b]
  BY DEF sha1_update
<1>3. h.len \in Nat
  BY DEF HashOf
<1>4. sha1_update(h, pos, n).clean = b
  BY <1>2
<1>5. h.clean /\ (n = 0 \/ pos = h.len) => b
  OBVIOUS
<1> HIDE DEF b
<1>6. sha1_update(h, pos, n) \in HashOf /\ sha1_update(h, pos, n).len = h.len + n
  BY <1>1, <1>2, <1>3 DEF HashOf
<1> QED
  BY <1>4, <1>5, <1>6

(* The hash before the first byte, and after bytes that were not read.     *)
LEMMA StartHash ==
  /\ sha1_init \in HashOf /\ sha1_init.len = 0 /\ sha1_init.clean
  /\ \A h \in HashOf, n \in Nat : Spoiled(h, n) \in HashOf
                                  /\ Spoiled(h, n).len = h.len + n
BY DEF sha1_init, HashOf, Spoiled

LEMMA InitInv == Init => IInv
<1> SUFFICES ASSUME Init PROVE IInv
  OBVIOUS
<1>1. TypeOK
  <2>1. <<>> \in Seq(Digest) /\ {} \subseteq Files \cup {NoFile}
    OBVIOUS
  <2>2. sha1_init \in HashOf
    BY DEF sha1_init, HashOf
  <2> QED
    BY <2>1, <2>2 DEF Init, TypeOK, Errors, Strayed
<1>2. FileKnown /\ HashTracksFile /\ StagedIsMeasured
  BY DEF Init, FileKnown, HashTracksFile, StagedIsMeasured
<1>3. ExtendSound
  BY DEF Init, ExtendSound
<1> QED
  BY <1>1, <1>2, <1>3 DEF IInv

-----------------------------------------------------------------------------
(* Steps with no file open before or after them keep the invariant: all of *)
(* it that is not about types is about an open file or about PCR 14.       *)
LEMMA ClosedStep ==
  ASSUME TypeOK', ExtendSound, ~opened', pcr14' = pcr14
  PROVE  IInv'
BY DEF IInv, FileKnown, HashTracksFile, StagedIsMeasured, ExtendSound

(* The callers' own steps: flags, errors and stopping the machine.         *)
LEMMA CallerStep ==
  ASSUME IInv,
         \/ MeasureOn \/ MeasureOff \/ KernelOn \/ Decompression
         \/ \E e \in Errors : SetErrnum(e)
         \/ Presume \/ Abandon \/ Halt \/ grub_halt
  PROVE  IInv'
<1>1. CASE MeasureOn \/ MeasureOff \/ KernelOn \/ Decompression \/ Abandon \/ Halt
  <2>1. TypeOK'
    <3> USE DEF IInv, TypeOK, flagVars, posVars, hashVars, tpmVars
    <3>1. CASE MeasureOn
      BY <3>1 DEF MeasureOn
    <3>2. CASE MeasureOff
      BY <3>2 DEF MeasureOff
    <3>3. CASE KernelOn
      BY <3>3 DEF KernelOn
    <3>4. CASE Decompression
      BY <3>4 DEF Decompression
    <3>5. CASE Abandon
      BY <3>5 DEF Abandon
    <3>6. CASE Halt
      BY <3>6 DEF Halt
    <3> QED
      BY <1>1, <3>1, <3>2, <3>3, <3>4, <3>5, <3>6
  <2>2. ~opened' /\ pcr14' = pcr14
    BY <1>1 DEF MeasureOn, MeasureOff, KernelOn, Decompression, Abandon, Halt,
                tpmVars
  <2> QED
    BY <2>1, <2>2, ClosedStep DEF IInv
<1>2. ASSUME NEW e \in Errors, SetErrnum(e)
      PROVE  IInv'
  <2>1. TypeOK'
    BY <1>2 DEF IInv, TypeOK, SetErrnum, flagVars, posVars, hashVars, tpmVars
  <2>2. FileKnown' /\ HashTracksFile' /\ StagedIsMeasured' /\ ExtendSound'
    BY <1>2 DEF IInv, TypeOK, FileKnown, HashTracksFile, PathHashed, GzipHashed,
                HashIsPrefix, Again, StagedIsMeasured, ExtendSound, SetErrnum, flagVars, posVars,
                hashVars, tpmVars
  <2> QED
    BY <2>1, <2>2 DEF IInv
<1>4. CASE Presume
  <2>1. TypeOK' /\ trouble' /\ pcr14' = pcr14
    BY <1>4 DEF IInv, TypeOK, Presume, flagVars, posVars, tpmVars, Strayed
  <2> QED
    BY <2>1 DEF IInv, FileKnown, HashTracksFile, StagedIsMeasured, ExtendSound
<1>3. CASE grub_halt
  BY <1>3 DEF grub_halt, fileVars, flagVars, posVars, hashVars, tpmVars, IInv,
              TypeOK, FileKnown, HashTracksFile, PathHashed, GzipHashed,
              HashIsPrefix, Again, StagedIsMeasured, ExtendSound
<1> QED
  BY <1>1, <1>2, <1>3, <1>4

-----------------------------------------------------------------------------
(* grub_open: whatever kind of file is opened, its size is known and the   *)
(* hash holds what the header test or the staging read has read of it.     *)
LEMMA OpenStep ==
  ASSUME IInv, NEW f \in Files, grub_open(f)
  PROVE  IInv'
<1> USE DEF flagVars, posVars, hashVars, tpmVars
<1>f. /\ f.raw \in Nat /\ f.off \in Nat /\ f.used \in Nat /\ f.plain \in Nat
      /\ f.block \in BOOLEAN
      /\ f.kind = "gzip" => f.off < f.raw /\ 0 < f.raw
  <2>1. f.raw \in Nat /\ f.off \in Nat /\ f.used \in Nat /\ f.plain \in Nat
        /\ f.block \in BOOLEAN
    BY FileTypes
  <2>2. f.kind = "gzip" => f.off < f.used /\ f.used + Trailer <= f.raw
    BY FilesAssumption
  <2> QED
    BY <2>1, <2>2, SizesAssumption
<1>t. TypeOK /\ ExtendSound
  BY DEF IInv
<1>h. \A n \in Nat : /\ sha1_update(sha1_init, 0, n) \in HashOf
                     /\ sha1_update(sha1_init, 0, n).len = n
                     /\ sha1_update(sha1_init, 0, n).clean
                     /\ Spoiled(sha1_init, n) \in HashOf
  <2> TAKE n \in Nat
  <2>1. sha1_init \in HashOf /\ sha1_init.len = 0 /\ sha1_init.clean
    BY StartHash
  <2>2. /\ sha1_update(sha1_init, 0, n) \in HashOf
        /\ sha1_update(sha1_init, 0, n).len = sha1_init.len + n
        /\ sha1_init.clean /\ 0 = sha1_init.len
             => sha1_update(sha1_init, 0, n).clean
    BY <2>1, 0 \in Nat, UpdateHash, Zenon
  <2>3. sha1_update(sha1_init, 0, n).len = n
    BY <2>1, <2>2
  <2>4. sha1_update(sha1_init, 0, n).clean
    BY <2>1, <2>2
  <2> QED
    BY <2>1, <2>2, <2>3, <2>4, StartHash
<1>i. sha1_init \in HashOf /\ sha1_init.len = 0 /\ sha1_init.clean
  BY StartHash
<1>p. /\ PublishedByTest(f) = 0 \/ PublishedByTest(f) = f.raw
      /\ PublishedByTest(f) \in Nat
      /\ ~no_decompression => PublishedByTest(f) = f.raw
  BY <1>f DEF PublishedByTest
<1>1. CASE OpenPath(f)
  <2>1. TypeOK'
    BY <1>1, <1>f, <1>t, <1>i, <1>p
       DEF TypeOK, OpenPath, OpenReset, gunzip_test_header, initialize_tables,
           IsGzip, IsBad, Errors, Strayed
  <2>2. FileKnown'
    <3>1. /\ opened' /\ file' = f /\ compressed_file' = IsGzip(f)
          /\ filemax' = (IF IsGzip(f) THEN f.plain ELSE f.raw)
          /\ filepos' = 0 /\ sha1_has_to_measure' = PublishedByTest(f)
          /\ no_decompression' = no_decompression
      BY <1>1 DEF OpenPath, OpenReset, gunzip_test_header
    <3>2. filepos' \in 0 .. filemax'
      BY <3>1, <1>f
    <3>3. compressed_file' => file'.kind = "gzip" /\ ~no_decompression'
      BY <3>1 DEF IsGzip
    <3>4. filemax' = (IF compressed_file' THEN file'.plain ELSE file'.raw)
      BY <3>1
    <3> QED
      BY <3>1, <3>2, <3>3, <3>4, <1>p DEF FileKnown
  <2>3. HashTracksFile'
    BY <1>1, <1>f, <1>t, <1>i
       DEF TypeOK, OpenPath, OpenReset, gunzip_test_header, initialize_tables,
           HashTracksFile, PathHashed, GzipHashed, HashIsPrefix
  <2>4. StagedIsMeasured' /\ ExtendSound'
    BY <1>1, <1>t
       DEF TypeOK, OpenPath, OpenReset, StagedIsMeasured, ExtendSound
  <2> QED
    BY <2>1, <2>2, <2>3, <2>4 DEF IInv
<1>2. CASE OpenKernel(f)
  <2>1. CASE IsGzip(f) /\ f.plain > 0
    <3>1. PICK k \in 1 .. f.raw :
            /\ rawpos' = Refill(f, k)
            /\ sha1_byte_count' = Refill(f, k)
            /\ my_sha1' = sha1_update(sha1_update(sha1_init, 0, f.off),
                                      f.off, Refill(f, k) - f.off)
      BY <1>2, <2>1 DEF OpenKernel
    <3>2. Refill(f, k) \in Nat /\ f.off < Refill(f, k) /\ Refill(f, k) <= f.raw
      BY <2>1, <3>1, <1>f, RefillBounds DEF IsGzip
    <3>3. my_sha1' \in HashOf /\ my_sha1'.len = Refill(f, k) /\ my_sha1'.clean
      <4>1. Refill(f, k) - f.off \in Nat
            /\ f.off + (Refill(f, k) - f.off) = Refill(f, k)
        BY <3>2, <1>f
      <4> DEFINE h == sha1_update(sha1_init, 0, f.off)
                 n == Refill(f, k) - f.off
      <4>2. h \in HashOf /\ h.len = f.off /\ h.clean
        BY <1>h, <1>f
      <4>3. my_sha1' = sha1_update(h, f.off, n) /\ n \in Nat
        BY <3>1, <4>1
      <4> HIDE DEF h
      <4>4. /\ my_sha1' \in HashOf
            /\ my_sha1'.len = h.len + n
            /\ h.clean /\ f.off = h.len => my_sha1'.clean
        BY <4>2, <4>3, <1>f, UpdateHash, Zenon
      <4>5. my_sha1'.len = Refill(f, k)
        BY <4>1, <4>2, <4>4
      <4> QED
        BY <4>2, <4>4, <4>5
    <3>4. TypeOK'
      BY <1>2, <2>1, <3>1, <3>2, <3>3, <1>f, <1>t
         DEF TypeOK, OpenKernel, PublishedByStaging, OpenReset,
             gunzip_test_header, IsGzip, IsBad,
             Errors, Strayed
    <3>5. FileKnown' /\ HashTracksFile' /\ StagedIsMeasured' /\ ExtendSound'
      BY <1>2, <2>1, <3>1, <3>2, <3>3, <1>f, <1>t
         DEF TypeOK, OpenKernel, PublishedByStaging, OpenReset,
             gunzip_test_header, IsGzip, IsBad,
             FileKnown, HashTracksFile, HashIsPrefix, StagedIsMeasured,
             ExtendSound
    <3> QED
      BY <3>4, <3>5 DEF IInv
  <2>2. CASE ~(IsGzip(f) /\ f.plain > 0)
    <3> DEFINE n == IF IsGzip(f) THEN 0 ELSE f.raw
    <3>1. n \in Nat /\ n <= f.raw
      BY <1>f
    <3>2. sha1_byte_count' = n /\ my_sha1' = sha1_update(sha1_init, 0, n)
          /\ initialize_tables(f)
      BY <1>2, <2>2 DEF OpenKernel
    <3>3. my_sha1' \in HashOf /\ my_sha1'.len = n /\ my_sha1'.clean
      BY <3>1, <3>2, <1>h
    <3> HIDE DEF n
    <3>4. TypeOK'
      BY <1>2, <3>1, <3>2, <3>3, <1>f, <1>t
         DEF TypeOK, OpenKernel, PublishedByStaging, OpenReset,
             gunzip_test_header,
             initialize_tables, IsGzip, IsBad, Errors, Strayed
    <3>5. FileKnown' /\ HashTracksFile' /\ StagedIsMeasured' /\ ExtendSound'
      BY <1>2, <3>1, <3>2, <3>3, <1>f, <1>t
         DEF TypeOK, OpenKernel, PublishedByStaging, OpenReset,
             gunzip_test_header, IsGzip, IsBad,
             FileKnown, HashTracksFile, HashIsPrefix, StagedIsMeasured,
             ExtendSound
    <3> QED
      BY <3>4, <3>5 DEF IInv
  <2> QED
    BY <2>1, <2>2
<1>3. CASE OpenKernelFails(f)
  <2>1. sha1_byte_count' \in Nat /\ my_sha1' \in HashOf
    BY <1>3, <1>f, <1>h DEF OpenKernelFails
  <2>o. PICK e \in Errors \ {"none"} : OpenReset(e)
    BY <1>3 DEF OpenKernelFails
  <2>2. TypeOK'
    <3>1. /\ errnum' \in Errors /\ opened' \in BOOLEAN /\ trouble' \in BOOLEAN
          /\ strayed' \in Strayed /\ filepos' \in Nat
          /\ UNCHANGED <<flagVars, tpmVars>>
      BY <2>o DEF OpenReset, Strayed
    <3>2. /\ file' = f /\ compressed_file' = IsGzip(f) /\ block_file' = FALSE
          /\ filemax' \in Nat /\ rawpos' \in Nat
          /\ sha1_has_to_measure' \in Nat /\ staged' = NoFile
      BY <1>3, <1>f DEF OpenKernelFails, gunzip_test_header, initialize_tables,
                        PublishedByStaging
    <3> QED
      BY <2>1, <3>1, <3>2, <1>t DEF TypeOK, IsGzip
  <2>3. FileKnown' /\ HashTracksFile' /\ StagedIsMeasured' /\ ExtendSound'
    BY <1>3, <2>1, <1>f, <1>t
       DEF TypeOK, OpenKernelFails, PublishedByStaging, OpenReset,
           gunzip_test_header, IsGzip,
           IsBad, FileKnown, HashTracksFile, StagedIsMeasured, ExtendSound
  <2> QED
    BY <2>2, <2>3 DEF IInv
<1>4. CASE OpenOverStaged(f)
  <2>1. TypeOK'
    BY <1>4, <1>f, <1>t, <1>i, <1>p
       DEF TypeOK, OpenOverStaged, OpenReset, Errors, Strayed
  <2>2. FileKnown' /\ HashTracksFile' /\ StagedIsMeasured' /\ ExtendSound'
    BY <1>4, <1>f, <1>t, <1>i, <1>p
       DEF TypeOK, OpenOverStaged, OpenReset, FileKnown, HashTracksFile,
           HashIsPrefix, StagedIsMeasured, ExtendSound
  <2> QED
    BY <2>1, <2>2 DEF IInv
<1>5. CASE OpenBlocks(f)
  <2>1. PICK n \in 0 .. f.raw : sha1_byte_count' = n
                               /\ my_sha1' = sha1_update(sha1_init, 0, n)
    BY <1>5 DEF OpenBlocks
  <2>2. n \in Nat /\ n <= f.raw /\ my_sha1' \in HashOf /\ my_sha1'.len = n
        /\ my_sha1'.clean
    BY <2>1, <1>f, <1>h
  <2>3. TypeOK'
    BY <1>5, <2>1, <2>2, <1>f, <1>t, <1>p
       DEF TypeOK, OpenBlocks, OpenReset, gunzip_test_header,
           initialize_tables, IsGzip, IsBad, Errors, Strayed
  <2>4. FileKnown'
    <3>1. /\ opened' /\ file' = f /\ compressed_file' = IsGzip(f)
          /\ filemax' = (IF IsGzip(f) THEN f.plain ELSE f.raw)
          /\ filepos' = 0 /\ sha1_has_to_measure' = PublishedByTest(f)
          /\ no_decompression' = no_decompression
      BY <1>5 DEF OpenBlocks, OpenReset, gunzip_test_header, IsGzip
    <3>2. filepos' \in 0 .. filemax'
      BY <3>1, <1>f
    <3>3. compressed_file' => file'.kind = "gzip" /\ ~no_decompression'
      BY <3>1 DEF IsGzip
    <3>4. filemax' = (IF compressed_file' THEN file'.plain ELSE file'.raw)
      BY <3>1
    <3> QED
      BY <3>1, <3>2, <3>3, <3>4, <1>p DEF FileKnown
  <2>5. HashTracksFile' /\ StagedIsMeasured' /\ ExtendSound'
    BY <1>5, <2>1, <2>2, <1>f, <1>t
       DEF TypeOK, OpenBlocks, OpenReset, gunzip_test_header, IsGzip,
           HashTracksFile, HashIsPrefix, StagedIsMeasured, ExtendSound
  <2> QED
    BY <2>3, <2>4, <2>5 DEF IInv
<1>6. ASSUME NEW e \in Errors \ {"none"}, OpenFails(f, e)
      PROVE  IInv'
  <2>1. staged' \in Files \cup {NoFile}
    BY <1>6, <1>t DEF TypeOK, OpenFails
  <2>2. /\ file' \in Files \cup {NoFile} /\ block_file' \in BOOLEAN
        /\ filemax' \in Nat /\ filepos' \in Nat
        /\ sha1_byte_count' \in Nat /\ sha1_has_to_measure' \in Nat
    <3>1. CASE NotFound
      <4>1. CASE UNCHANGED <<file, block_file, filemax>>
        BY <3>1, <4>1, <1>t DEF TypeOK, NotFound
      <4>2. CASE file' = NoFile /\ block_file' = FALSE /\ filemax' = 0
        BY <3>1, <4>2 DEF NotFound
      <4> QED
        BY <3>1, <4>1, <4>2 DEF NotFound
    <3>2. CASE BadHeader(f)
      BY <3>2, <1>f DEF BadHeader
    <3> QED
      BY <1>6, <3>1, <3>2 DEF OpenFails
  <2>3. my_sha1' \in HashOf
    BY <1>6, <2>2, StartHash DEF OpenFails
  <2>4. TypeOK'
    BY <1>6, <1>t, <2>1, <2>2, <2>3 DEF TypeOK, OpenFails, Strayed
  <2>5. ~opened' /\ pcr14' = pcr14
    BY <1>6 DEF OpenFails
  <2> QED
    BY <2>4, <2>5, <1>t, ClosedStep
<1> QED
  BY <1>1, <1>2, <1>3, <1>4, <1>5, <1>6 DEF grub_open
-----------------------------------------------------------------------------
(* grub_read makes filepos and len sane: it stays within the file.         *)
LEMMA Positions ==
  ASSUME TypeOK, NEW len \in Int
  PROVE  /\ Pos \in Nat /\ Pos <= filemax /\ Clamp(len) \in Nat
         /\ Pos + Clamp(len) \in Nat /\ Pos + Clamp(len) <= filemax
         /\ filepos \in 0 .. filemax => Pos = filepos
BY DEF TypeOK, Pos, Clamp

(* The bytes before the first position that is read are hashed first, once. *)
LEMMA Prefix ==
  ASSUME TypeOK, NEW pos \in Nat
  PROVE  /\ WithPrefix(pos) \in HashOf /\ CountWithPrefix(pos) \in Nat
         /\ ~MissingPrefix(pos) => /\ WithPrefix(pos) = my_sha1
                                   /\ CountWithPrefix(pos) = sha1_byte_count
         /\ MissingPrefix(pos) /\ my_sha1.len = sha1_byte_count =>
              /\ WithPrefix(pos).len = pos /\ CountWithPrefix(pos) = pos
              /\ my_sha1.clean => WithPrefix(pos).clean
<1>1. my_sha1 \in HashOf /\ my_sha1.len \in Nat /\ sha1_byte_count \in Nat
  BY DEF TypeOK, HashOf
<1>2. /\ sha1_update(my_sha1, 0, pos) \in HashOf
      /\ sha1_update(my_sha1, 0, pos).len = my_sha1.len + pos
      /\ my_sha1.clean /\ 0 = my_sha1.len => sha1_update(my_sha1, 0, pos).clean
  BY <1>1, 0 \in Nat, UpdateHash, Zenon
<1>3. CASE ~MissingPrefix(pos)
  BY <1>1, <1>3 DEF WithPrefix, CountWithPrefix
<1>4. CASE MissingPrefix(pos)
  <2>1. WithPrefix(pos) = sha1_update(my_sha1, 0, pos)
        /\ CountWithPrefix(pos) = pos
    BY <1>4 DEF WithPrefix, CountWithPrefix
  <2>2. sha1_byte_count = 0
    BY <1>4 DEF MissingPrefix
  <2> QED
    BY <1>1, <1>2, <1>4, <2>1, <2>2
<1> QED
  BY <1>3, <1>4

(* What every read leaves alone, and that it makes the size known.         *)
ReadFrame ==
  /\ opened /\ Publish
  /\ UNCHANGED <<flagVars, opened, staged, tpmVars, file, block_file,
                 compressed_file, filemax>>

LEMMA ReadKeeps ==
  ASSUME IInv, ReadFrame, filepos' \in Nat \cup {-1}, rawpos' \in Nat,
         sha1_byte_count' \in Nat, my_sha1' \in HashOf, errnum' \in Errors,
         trouble' \in BOOLEAN, strayed' \in Strayed, trouble => trouble',
         ~measure_kernel => trouble' \/ filepos' \in 0 .. filemax
  PROVE  TypeOK' /\ FileKnown' /\ ExtendSound'
<1> USE DEF flagVars, posVars, hashVars, tpmVars
<1>t. TypeOK /\ FileKnown /\ ExtendSound /\ opened
  BY DEF IInv, ReadFrame
<1>1. sha1_has_to_measure' \in Nat
  BY <1>t DEF TypeOK, ReadFrame, Publish
<1>2. TypeOK'
  BY <1>t, <1>1 DEF TypeOK, ReadFrame
<1>3. FileKnown'
  <2> SUFFICES ASSUME ~trouble PROVE FileKnown'
    BY DEF FileKnown
  <2>1. file \in Files /\ file.raw \in Nat /\ file.used \in Nat /\ file.off \in Nat
    BY <1>t, FileTypes DEF FileKnown
  <2>2. file.kind = "gzip" => 0 < file.off /\ file.off < file.used
                              /\ file.used + Trailer <= file.raw
    BY <2>1, FilesAssumption
  <2>3. file.kind = "gzip" => 0 < file.raw
    BY <2>1, <2>2, SizesAssumption
  <2>4. /\ sha1_has_to_measure' = 0 \/ sha1_has_to_measure' = file.raw
        /\ ~no_decompression => sha1_has_to_measure' = file.raw
    BY <1>t, <2>1, <2>3 DEF FileKnown, TypeOK, ReadFrame, Publish
  <2> QED
    BY <1>t, <2>4 DEF FileKnown, ReadFrame
<1>4. ExtendSound'
  BY <1>t DEF ExtendSound, ReadFrame
<1> QED
  BY <1>2, <1>3, <1>4

(* Where a read leaves the caller's way through the file.                  *)
LEMMA Goes ==
  ASSUME TypeOK, GoesOn
  PROVE  /\ strayed' \in Strayed
         /\ strayed # "off" /\ filepos' = filemax => strayed' = "done"
         /\ strayed = "off" \/ filepos' # filemax => strayed' = strayed
BY DEF TypeOK, GoesOn, Strayed

(* Reads from the staging memory change neither the hash nor the counts.   *)
LEMMA ReadStagedStep ==
  ASSUME IInv, ReadFrame, NEW len \in Int, errnum = "none", ReadStaged(len)
  PROVE  IInv'
<1> USE DEF flagVars, tpmVars
<1>t. TypeOK /\ FileKnown /\ HashTracksFile /\ StagedIsMeasured
  BY DEF IInv
<1>1. /\ measure_kernel /\ filepos' = Pos + len /\ len >= 0
      /\ rawpos' = rawpos /\ errnum' = errnum /\ trouble' = trouble
      /\ sha1_byte_count' = sha1_byte_count /\ my_sha1' = my_sha1
      /\ strayed' = strayed
  BY DEF ReadStaged
<1>2. filepos' \in Nat
  BY <1>1, <1>t, Positions
<1>3. TypeOK' /\ FileKnown' /\ ExtendSound'
  BY <1>1, <1>2, <1>t, ReadKeeps DEF TypeOK
<1>4. HashTracksFile'
  BY <1>1, <1>t DEF TypeOK, HashTracksFile, HashIsPrefix, ReadFrame
<1>5. StagedIsMeasured'
  <2> SUFFICES ASSUME ~trouble PROVE StagedIsMeasured'
    BY <1>1 DEF StagedIsMeasured
  <2>1. file' = file /\ file \in Files /\ file.raw \in Nat
    BY <1>t, FileTypes DEF ReadFrame, FileKnown
  <2>2. sha1_has_to_measure = file.raw => sha1_has_to_measure' = file.raw
    BY <1>3, <1>1, <2>1 DEF ReadFrame, Publish, FileKnown
  <2> QED
    BY <1>1, <1>t, <2>1, <2>2 DEF StagedIsMeasured, ReadFrame, TypeOK
<1> QED
  BY <1>3, <1>4, <1>5 DEF IInv

(* A copy of a negative length stops the machine; nothing was closed.      *)
LEMMA ReadWildStep ==
  ASSUME IInv, NEW len \in Int, ReadWild(len),
         opened, UNCHANGED <<flagVars, opened, staged>>
  PROVE  IInv'
<1> USE DEF flagVars, posVars
<1>t. TypeOK /\ FileKnown /\ HashTracksFile /\ StagedIsMeasured /\ ExtendSound
  BY DEF IInv
<1>1. /\ measure_kernel /\ wild' = TRUE /\ halted' = TRUE /\ Publish
      /\ UNCHANGED <<posVars, errnum, sha1_byte_count, my_sha1, trouble, strayed,
                     tpm, pcr14, accepted>>
  BY DEF ReadWild
<1>2. sha1_has_to_measure' \in Nat
  BY <1>1, <1>t DEF TypeOK, Publish
<1>3. TypeOK'
  BY <1>1, <1>2, <1>t DEF TypeOK
<1>4. HashTracksFile' /\ ExtendSound'
  BY <1>1, <1>t DEF HashTracksFile, HashIsPrefix, ExtendSound
<1>5. FileKnown' /\ StagedIsMeasured'
  <2> SUFFICES ASSUME ~trouble PROVE FileKnown' /\ StagedIsMeasured'
    BY <1>1 DEF FileKnown, StagedIsMeasured
  <2>1. file \in Files /\ file.raw \in Nat /\ file.used \in Nat /\ file.off \in Nat
    BY <1>t, FileTypes DEF FileKnown
  <2>2. file.kind = "gzip" => 0 < file.off /\ file.off < file.used
                              /\ file.used + Trailer <= file.raw
    BY <2>1, FilesAssumption
  <2>3. file.kind = "gzip" => 0 < file.raw
    BY <2>1, <2>2, SizesAssumption
  <2>4. /\ sha1_has_to_measure' \in {0, file.raw}
        /\ sha1_has_to_measure = file.raw => sha1_has_to_measure' = file.raw
    BY <1>1, <1>t, <2>1, <2>3 DEF FileKnown, TypeOK, Publish
  <2> QED
    BY <1>1, <1>t, <2>4 DEF FileKnown, StagedIsMeasured
<1> QED
  BY <1>3, <1>4, <1>5 DEF IInv

(* Reads of a file of a filesystem hash what they deliver: in order the    *)
(* hash ends at the position of the reader; one who has gone back takes the*)
(* count past the position, and past the size when the end is reached.     *)
LEMMA ReadPathStep ==
  ASSUME IInv, ReadFrame, NEW len \in Int, errnum = "none", ReadPath(len)
  PROVE  IInv'
<1> USE DEF flagVars, tpmVars
<1> DEFINE c == Clamp(len)
<1>t. TypeOK /\ FileKnown /\ HashTracksFile
  BY DEF IInv
<1>p. Pos \in Nat /\ c \in Nat /\ Pos + c \in Nat /\ Pos + c <= filemax
      /\ (filepos \in 0 .. filemax => Pos = filepos)
  BY <1>t, Positions
<1>1. ~measure_kernel /\ ~block_file /\ ~compressed_file
      /\ filepos' = Pos + c /\ rawpos' = rawpos /\ errnum' = errnum
      /\ trouble' = trouble /\ GoesOn
  BY DEF ReadPath
<1>s. /\ strayed' \in Strayed
      /\ strayed # "off" /\ filepos' = filemax => strayed' = "done"
      /\ strayed = "off" \/ filepos' # filemax => strayed' = strayed
  BY <1>t, <1>1, Goes
<1>w. /\ WithPrefix(Pos) \in HashOf /\ CountWithPrefix(Pos) \in Nat
      /\ ~MissingPrefix(Pos) => /\ WithPrefix(Pos) = my_sha1
                                /\ CountWithPrefix(Pos) = sha1_byte_count
      /\ MissingPrefix(Pos) /\ my_sha1.len = sha1_byte_count =>
           /\ WithPrefix(Pos).len = Pos /\ CountWithPrefix(Pos) = Pos
           /\ my_sha1.clean => WithPrefix(Pos).clean
  BY <1>t, <1>p, Prefix
<1>u. /\ sha1_update(WithPrefix(Pos), Pos, c) \in HashOf
      /\ sha1_update(WithPrefix(Pos), Pos, c).len = WithPrefix(Pos).len + c
      /\ WithPrefix(Pos).clean /\ Pos = WithPrefix(Pos).len
           => sha1_update(WithPrefix(Pos), Pos, c).clean
      /\ WithPrefix(Pos).clean /\ c = 0
           => sha1_update(WithPrefix(Pos), Pos, c).clean
  BY <1>w, <1>p, UpdateHash, Zenon
<1> HIDE DEF c
<1>2. my_sha1' \in HashOf /\ sha1_byte_count' \in Nat
  <2>1. CASE perform_sha1
    BY <2>1, <1>p, <1>w, <1>u DEF ReadPath, c
  <2>2. CASE ~perform_sha1
    BY <2>2, <1>t DEF ReadPath, TypeOK
  <2> QED
    BY <2>1, <2>2
<1>3. TypeOK' /\ FileKnown' /\ ExtendSound'
  <2>1. filepos' \in Nat /\ filepos' \in 0 .. filemax
    BY <1>1, <1>p, <1>t DEF TypeOK
  <2> QED
    BY <1>1, <1>2, <1>s, <1>t, <2>1, ReadKeeps DEF TypeOK
<1>4. HashTracksFile'
  <2> SUFFICES ASSUME perform_sha1, ~trouble PROVE HashTracksFile'
    BY <1>1 DEF HashTracksFile, ReadFrame
  <2>1. /\ file' = file /\ file \in Files /\ file.raw \in Nat
        /\ filemax = file.raw /\ Pos = filepos /\ filemax' = filemax
        /\ filepos \in Nat /\ filepos <= file.raw
    BY <1>1, <1>p, <1>t, FileTypes DEF ReadFrame, FileKnown
  <2>2. /\ my_sha1' = sha1_update(WithPrefix(Pos), Pos, c)
        /\ sha1_byte_count' = CountWithPrefix(Pos) + c
    BY DEF ReadPath, c
  <2>3. my_sha1.len = sha1_byte_count /\ PathHashed
    BY <1>1, <1>t DEF HashTracksFile, ReadFrame
  <2>4. sha1_byte_count \in Nat
    BY <1>t DEF TypeOK
  <2>f. filepos' = filepos + c /\ filepos' \in Nat /\ filepos' <= file.raw
    BY <1>1, <1>p, <2>1
  <2>l. my_sha1'.len = sha1_byte_count'
    BY <2>2, <2>3, <1>w, <1>u
  <2>m. ~MissingPrefix(Pos) => sha1_byte_count' = sha1_byte_count + c
    BY <2>2, <1>w
  <2>5. PathHashed'
    <3>1. CASE strayed = "no"
      <4>1. HashIsPrefix /\ (sha1_byte_count = 0 \/ sha1_byte_count = filepos)
        BY <2>3, <3>1 DEF PathHashed
      <4>2. sha1_byte_count' = filepos' /\ my_sha1'.clean
        <5>1. CASE MissingPrefix(Pos)
          <6>1. /\ WithPrefix(Pos).len = Pos /\ CountWithPrefix(Pos) = Pos
                /\ WithPrefix(Pos).clean
            BY <5>1, <4>1, <2>3, <1>w DEF HashIsPrefix
          <6>2. my_sha1'.clean
            BY <6>1, <2>2, <1>u
          <6> QED
            BY <6>1, <6>2, <2>1, <2>2, <2>f
        <5>2. CASE ~MissingPrefix(Pos)
          <6>1. sha1_byte_count = filepos
            BY <4>1, <5>2, <2>1, <2>4 DEF MissingPrefix
          <6>2. my_sha1'.clean
            BY <6>1, <4>1, <5>2, <2>1, <2>2, <2>3, <1>u, <1>w DEF HashIsPrefix
          <6> QED
            BY <6>1, <6>2, <5>2, <2>f, <2>m
        <5> QED
          BY <5>1, <5>2
      <4>3. HashIsPrefix'
        BY <4>2, <2>1, <2>f DEF HashIsPrefix
      <4>4. strayed' = "no" \/ (strayed' = "done" /\ filepos' = file.raw)
        BY <3>1, <1>s, <2>1
      <4> QED
        BY <4>2, <4>3, <4>4, <2>1 DEF PathHashed
    <3>2. CASE strayed = "back"
      <4>1. filepos < sha1_byte_count
        BY <2>3, <3>2 DEF PathHashed
      <4>2. ~MissingPrefix(Pos)
        BY <4>1, <2>1, <2>4 DEF MissingPrefix
      <4>3. filepos' < sha1_byte_count'
        BY <4>1, <4>2, <2>1, <2>4, <2>f, <2>m, <1>p
      <4>4. strayed' = "back" \/ (strayed' = "done" /\ filepos' = file.raw)
        BY <3>2, <1>s, <2>1
      <4> QED
        BY <4>3, <4>4, <2>1 DEF PathHashed
    <3>3. CASE strayed = "done"
      <4>1. strayed' = "done"
        BY <3>3, <1>s
      <4>2. ~MissingPrefix(Pos)
        BY <3>3, <2>1, <2>3, <2>4 DEF PathHashed, MissingPrefix
      <4>3. CASE file.raw < sha1_byte_count
        <5>1. file.raw < sha1_byte_count'
          BY <4>2, <4>3, <2>1, <2>4, <2>m, <1>p
        <5> QED
          BY <5>1, <4>1, <2>1 DEF PathHashed
      <4>4. CASE HashIsPrefix /\ sha1_byte_count = file.raw /\ c = 0
        <5>1. my_sha1'.clean
          BY <4>2, <4>4, <2>2, <1>u, <1>w DEF HashIsPrefix
        <5>2. sha1_byte_count' = file.raw
          BY <4>2, <4>4, <2>1, <2>m
        <5> QED
          BY <5>1, <5>2, <4>1, <2>1 DEF PathHashed, HashIsPrefix
      <4>5. CASE sha1_byte_count = file.raw /\ c # 0
        <5>1. file.raw < sha1_byte_count'
          BY <4>2, <4>5, <2>1, <2>m, <1>p
        <5> QED
          BY <5>1, <4>1, <2>1 DEF PathHashed
      <4> QED
        BY <3>3, <4>3, <4>4, <4>5, <2>3 DEF PathHashed
    <3>4. CASE strayed = "off"
      BY <3>4, <1>s DEF PathHashed
    <3> QED
      BY <3>1, <3>2, <3>3, <3>4, <1>t DEF TypeOK, Strayed
  <2> QED
    BY <1>1, <2>l, <2>5 DEF HashTracksFile, ReadFrame
<1>5. StagedIsMeasured'
  BY <1>1 DEF StagedIsMeasured, ReadFrame
<1> QED
  BY <1>3, <1>4, <1>5 DEF IInv

(* What is known of a gzip file that is open.                              *)
LEMMA GzipFile ==
  ASSUME IInv, opened, compressed_file, ~trouble
  PROVE  /\ file \in Files /\ file.kind = "gzip" /\ filemax = file.plain
         /\ file.raw \in Nat /\ file.off \in Nat /\ file.used \in Nat
         /\ file.plain \in Nat /\ InBufSize \in Nat
         /\ 0 < file.off /\ file.off < file.used /\ file.used < file.raw
         /\ file.raw < file.used + InBufSize
<1>1. file \in Files /\ file.kind = "gzip" /\ filemax = file.plain
  BY DEF IInv, FileKnown
<1>2. /\ file.raw \in Nat /\ file.off \in Nat /\ file.used \in Nat
      /\ file.plain \in Nat
  BY <1>1, FileTypes
<1>3. /\ 0 < file.off /\ file.off < file.used
      /\ file.used + Trailer <= file.raw /\ file.raw < file.used + InBufSize
  BY <1>1, FilesAssumption
<1> QED
  BY <1>1, <1>2, <1>3, SizesAssumption

(* gunzip_read hashes the raw bytes of every refill of its buffer.  If it  *)
(* starts again at the beginning of the data, the first refill already     *)
(* takes the count so far past the position that it will not agree with    *)
(* the size at the end: what is left of the file beyond what is used is    *)
(* less than a buffer.                                                     *)
LEMMA GunzipHash ==
  ASSUME IInv, opened, compressed_file, ~measure_kernel, ~block_file,
         perform_sha1, ~trouble,
         NEW c \in Nat \ {0}, filepos + c <= filemax,
         NEW k \in Nat \ {0}, filepos + c = filemax => Enough(file, k),
         NEW r \in Nat, r = rawpos \/ (r = file.off /\ strayed # "no"),
         r <= Refill(file, k),
         file' = file, filemax' = filemax,
         filepos' = filepos + c, rawpos' = Refill(file, k), GoesOn,
         IF rawpos' > r
         THEN /\ my_sha1' = sha1_update(WithPrefix(r), r, rawpos' - r)
              /\ sha1_byte_count' = CountWithPrefix(r) + (rawpos' - r)
         ELSE UNCHANGED <<my_sha1, sha1_byte_count>>
  PROVE  GzipHashed' /\ my_sha1'.len = sha1_byte_count'
<1> DEFINE R == Refill(file, k)
           n == R - r
           A == Again
<1>t. TypeOK /\ filemax \in Nat /\ sha1_byte_count \in Nat /\ rawpos \in Nat
      /\ strayed \in Strayed
  BY DEF IInv, TypeOK
<1>p. filepos \in Nat /\ filepos # filemax
  BY <1>t DEF IInv, FileKnown
<1>g. /\ file \in Files /\ file.kind = "gzip"
      /\ file.raw \in Nat /\ file.off \in Nat /\ file.used \in Nat
      /\ InBufSize \in Nat \ {0}
      /\ 0 < file.off /\ file.off < file.used /\ file.used < file.raw
      /\ file.raw < file.used + InBufSize
  BY GzipFile, SizesAssumption
<1>r. /\ R \in Nat /\ R <= file.raw /\ A \in Nat /\ 0 < A
      /\ file.off + A <= R
      /\ file.raw < file.used + A
      /\ Enough(file, k) => file.used <= R
  <2>1. /\ R \in Nat /\ file.off < R /\ R <= file.raw
        /\ R = file.raw \/ file.off + InBufSize <= R
        /\ Enough(file, k) => file.used <= R
    BY <1>g, RefillBounds
  <2> QED
    BY <2>1, <1>g DEF Again
<1>l. my_sha1.len = sha1_byte_count /\ GzipHashed
  BY DEF IInv, HashTracksFile
<1>n. n \in Nat /\ r + n = R /\ (R > r \/ R = r) /\ (R > r => n # 0)
  BY <1>r
<1>w. /\ WithPrefix(r) \in HashOf /\ CountWithPrefix(r) \in Nat
      /\ ~MissingPrefix(r) => /\ WithPrefix(r) = my_sha1
                              /\ CountWithPrefix(r) = sha1_byte_count
      /\ MissingPrefix(r) =>
           /\ WithPrefix(r).len = r /\ CountWithPrefix(r) = r
           /\ my_sha1.clean => WithPrefix(r).clean
  BY <1>t, <1>l, Prefix
<1>u. /\ sha1_update(WithPrefix(r), r, n) \in HashOf
      /\ sha1_update(WithPrefix(r), r, n).len = WithPrefix(r).len + n
      /\ WithPrefix(r).clean /\ r = WithPrefix(r).len
           => sha1_update(WithPrefix(r), r, n).clean
  BY <1>w, <1>n, UpdateHash, Zenon
<1>s. rawpos' = R /\ (R > r => /\ my_sha1' = sha1_update(WithPrefix(r), r, n)
                               /\ sha1_byte_count' = CountWithPrefix(r) + n)
      /\ (R = r => my_sha1' = my_sha1 /\ sha1_byte_count' = sha1_byte_count)
  BY <1>r
<1>a. Again' = A
  BY DEF Again
<1>e. /\ filepos' = filemax' => file.used <= R
      /\ strayed' = (IF strayed # "off" /\ filepos' = filemax' THEN "done"
                                                               ELSE strayed)
      /\ filepos' \in Nat /\ filepos' <= filemax' /\ filemax' # 0 /\ filepos' # 0
      /\ strayed = "back" /\ filepos' # filemax' => filepos' < filemax'
  <2>1. strayed' = (IF strayed # "off" /\ filepos' = filemax THEN "done"
                                                             ELSE strayed)
    BY DEF GoesOn
  <2>2. c \in Nat /\ c # 0
    OBVIOUS
  <2> QED
    BY <2>1, <2>2, <1>t, <1>p, <1>r
<1> HIDE DEF n, R, A
(* What this read adds: up to the new position, if it went on in order. *)
<1>x. /\ my_sha1'.len = sha1_byte_count' /\ sha1_byte_count' \in Nat
      /\ sha1_byte_count # 0 => sha1_byte_count' = sha1_byte_count + n
      /\ /\ my_sha1.clean
         /\ \/ sha1_byte_count = r
            \/ sha1_byte_count = 0 /\ 0 < r /\ R > r
         => my_sha1'.clean /\ sha1_byte_count' = R
  <2>1. CASE R = r
    <3>1. n = 0
      BY <2>1, <1>n
    <3> QED
      BY <2>1, <3>1, <1>s, <1>l, <1>t
  <2>2. CASE R > r /\ MissingPrefix(r)
    <3>1. /\ my_sha1'.len = r + n /\ sha1_byte_count' = r + n
          /\ my_sha1.clean => my_sha1'.clean
      BY <2>2, <1>s, <1>w, <1>u
    <3>2. sha1_byte_count = 0
      BY <2>2 DEF MissingPrefix
    <3> QED
      BY <3>1, <3>2, <1>n, <1>r
  <2>3. CASE R > r /\ ~MissingPrefix(r)
    <3>1. /\ my_sha1'.len = sha1_byte_count + n
          /\ sha1_byte_count' = sha1_byte_count + n
          /\ my_sha1.clean /\ sha1_byte_count = r => my_sha1'.clean
      BY <2>3, <1>s, <1>w, <1>u, <1>l
    <3>2. ~(sha1_byte_count = 0 /\ 0 < r)
      BY <2>3 DEF MissingPrefix
    <3> QED
      BY <3>1, <3>2, <1>n, <1>r, <1>t
  <2> QED
    BY <2>1, <2>2, <2>3, <1>n
(* The hash has all of the raw bytes up to the new position. *)
<1>inorder. ASSUME my_sha1'.clean, sha1_byte_count' = R, strayed # "off"
            PROVE  GzipHashed'
  <2>1. HashIsPrefix'
    BY <1>inorder, <1>r DEF HashIsPrefix
  <2>2. file.off + A <= rawpos' /\ sha1_byte_count' = rawpos'
    BY <1>inorder, <1>s, <1>r
  <2>3. strayed' \in {"no", "back", "done"}
        /\ (strayed' = "done" => filepos' = filemax' \/ strayed = "done")
        /\ (strayed' # "done" => filepos' # filemax')
        /\ (strayed' = "back" => filepos' < filemax')
    BY <1>e, <1>t, <1>inorder DEF Strayed
  <2>4. CASE filepos' = filemax'
    <3>1. file.used <= rawpos' /\ strayed' = "done"
      BY <2>4, <1>e, <1>s, <1>inorder
    <3> QED
      BY <3>1, <2>1, <2>2 DEF GzipHashed
  <2>5. CASE filepos' # filemax' /\ strayed # "done"
    <3>1. strayed' = strayed
      BY <2>5, <1>e
    <3> QED
      BY <3>1, <2>1, <2>2, <2>3, <2>5, <1>a DEF GzipHashed
  <2>6. CASE filepos' # filemax' /\ strayed = "done"
    <3>1. strayed' = "done"
      BY <2>6, <1>e
    <3>2. filemax # 0 /\ filemax = filemax'
      BY <1>e
    <3>3. \/ sha1_byte_count = rawpos /\ file.used <= rawpos
          \/ file.raw < sha1_byte_count
      BY <2>6, <3>2, <1>l DEF GzipHashed
    <3>4. sha1_byte_count # 0 => R = sha1_byte_count + n
      BY <1>inorder, <1>x
    <3>5. file.used <= R
      BY <3>3, <3>4, <1>n, <1>g, <1>t, <1>r
    <3> QED
      BY <3>1, <3>5, <2>1, <2>2, <1>s DEF GzipHashed
  <2> QED
    BY <2>4, <2>5, <2>6
<1>1. CASE strayed = "no"
  <2>1. r = rawpos /\ my_sha1.clean
    BY <1>1, <1>l DEF GzipHashed, HashIsPrefix
  <2>2. \/ sha1_byte_count = 0 /\ rawpos = file.off
        \/ sha1_byte_count = rawpos
    BY <1>1, <1>l DEF GzipHashed
  <2>3. my_sha1'.clean /\ sha1_byte_count' = R
    BY <2>1, <2>2, <1>x, <1>r, <1>g
  <2> QED
    BY <2>3, <1>1, <1>inorder, <1>x
<1>2. CASE strayed = "back"
  <2>1. /\ file.off + A <= rawpos
        /\ \/ HashIsPrefix /\ sha1_byte_count = rawpos
           \/ rawpos + A <= sha1_byte_count
    BY <1>2, <1>l DEF GzipHashed, A
  <2>2. sha1_byte_count # 0 /\ sha1_byte_count' = sha1_byte_count + n
    BY <2>1, <1>x, <1>g, <1>r, <1>t
  <2>3. CASE HashIsPrefix /\ r = rawpos /\ sha1_byte_count = rawpos
    BY <2>3, <1>2, <1>x, <1>inorder DEF HashIsPrefix
  <2>4. CASE R + A <= sha1_byte_count'
    <3>1. CASE filepos' = filemax'
      <4>1. file.raw < sha1_byte_count' /\ strayed' = "done"
        BY <2>4, <3>1, <1>2, <1>e, <1>r, <1>g, <1>x
      <4> QED
        BY <4>1, <1>x DEF GzipHashed
    <3>2. CASE filepos' # filemax'
      <4>1. strayed' = "back" /\ filepos' < filemax'
        BY <3>2, <1>2, <1>e
      <4> QED
        BY <4>1, <2>4, <1>a, <1>r, <1>s, <1>x DEF GzipHashed
    <3> QED
      BY <3>1, <3>2
  <2>5. CASE r = rawpos /\ rawpos + A <= sha1_byte_count
    BY <2>5, <2>2, <2>4, <1>n, <1>r, <1>t
  <2>6. CASE r = file.off
    BY <2>6, <2>1, <2>2, <2>4, <1>n, <1>r, <1>t, <1>g
  <2> QED
    BY <2>1, <2>3, <2>5, <2>6
<1>3. CASE strayed = "done"
  <2>1. strayed' = "done" /\ filemax # 0
    BY <1>3, <1>e
  <2>2. \/ HashIsPrefix /\ sha1_byte_count = rawpos /\ file.used <= rawpos
        \/ file.raw < sha1_byte_count
    BY <1>3, <2>1, <1>l DEF GzipHashed
  <2>3. sha1_byte_count # 0 /\ sha1_byte_count' = sha1_byte_count + n
    BY <2>2, <1>x, <1>g, <1>t
  <2>4. CASE HashIsPrefix /\ r = rawpos /\ sha1_byte_count = rawpos
    BY <2>4, <1>3, <1>x, <1>inorder DEF HashIsPrefix
  <2>5. CASE file.raw < sha1_byte_count'
    BY <2>1, <2>5, <1>x DEF GzipHashed
  <2>6. CASE file.raw < sha1_byte_count
    BY <2>3, <2>5, <2>6, <1>n, <1>g, <1>t
  <2>7. CASE r = file.off /\ sha1_byte_count = rawpos /\ file.used <= rawpos
    BY <2>3, <2>5, <2>7, <1>n, <1>r, <1>g, <1>t
  <2> QED
    BY <2>2, <2>4, <2>6, <2>7
<1>4. CASE strayed = "off"
  BY <1>4, <1>e, <1>x DEF GzipHashed
<1> QED
  BY <1>1, <1>2, <1>3, <1>4, <1>t DEF Strayed

LEMMA GunzipStep ==
  ASSUME IInv, ReadFrame, NEW len \in Int, errnum = "none", gunzip_read(len)
  PROVE  IInv'
<1> USE DEF flagVars, tpmVars
<1> DEFINE c == Clamp(len)
<1>t. TypeOK /\ FileKnown /\ HashTracksFile /\ opened
      /\ file \in Files \cup {NoFile} /\ rawpos \in Nat /\ filemax \in Nat
      /\ strayed \in Strayed /\ sha1_byte_count \in Nat /\ my_sha1 \in HashOf
  BY DEF IInv, TypeOK, ReadFrame
<1>p. Pos \in Nat /\ Pos <= filemax /\ c \in Nat /\ Pos + c \in Nat
      /\ Pos + c <= filemax /\ (filepos \in 0 .. filemax => Pos = filepos)
  BY <1>t, Positions
<1>1. /\ ~measure_kernel /\ compressed_file
      /\ filepos' = Pos + c /\ errnum' = errnum /\ trouble' = trouble
      /\ GoesOn /\ file' = file /\ filemax' = filemax
      /\ block_file' = block_file /\ opened' = opened
      /\ perform_sha1' = perform_sha1 /\ measure_kernel' = measure_kernel
      /\ compressed_file' = compressed_file
  BY DEF gunzip_read, ReadFrame
<1>s. /\ strayed' \in Strayed
      /\ strayed # "off" /\ filepos' = filemax => strayed' = "done"
      /\ strayed = "off" \/ filepos' # filemax => strayed' = strayed
  BY <1>t, <1>1, Goes
<1>g. file.raw \in Nat /\ file.off \in Nat
  BY <1>t, FileTypes
<1>q. ~trouble => Pos = filepos
  BY <1>1, <1>p, <1>t DEF FileKnown
<1>f. filepos' \in Nat /\ filepos' \in 0 .. filemax
  BY <1>1, <1>p, <1>t
<1>5. StagedIsMeasured'
  BY <1>1 DEF StagedIsMeasured
(* What is left to show: the types, and where the hash of the file is. *)
<1>k. ASSUME rawpos' \in Nat, my_sha1' \in HashOf, sha1_byte_count' \in Nat,
             HashTracksFile'
      PROVE  IInv'
  <2>1. TypeOK' /\ FileKnown' /\ ExtendSound'
    BY <1>1, <1>s, <1>f, <1>k, <1>t, ReadKeeps DEF TypeOK
  <2> QED
    BY <2>1, <1>5, <1>k DEF IInv
<1> HIDE DEF c
<1>2. CASE MissingPrefix(Pos)
  <2>1. /\ rawpos' \in {rawpos} \cup {Refill(file, k) : k \in 1 .. file.raw}
        /\ \E n \in 0 .. file.raw : /\ my_sha1' = Spoiled(my_sha1, Pos + n)
                                    /\ sha1_byte_count' = Pos + n
    BY <1>2 DEF gunzip_read, InflateFromHere
  <2>2. rawpos' \in Nat
    <3>1. \A k \in 1 .. file.raw : Refill(file, k) \in Nat
      BY <1>t, <1>g, RefillNat
    <3> QED
      BY <2>1, <3>1, <1>t
  <2>3. PICK n \in 0 .. file.raw : /\ my_sha1' = Spoiled(my_sha1, Pos + n)
                                  /\ sha1_byte_count' = Pos + n
    BY <2>1
  <2>4. Pos + n \in Nat
    BY <2>3, <1>g, <1>p
  <2>5. my_sha1' \in HashOf /\ my_sha1'.len = my_sha1.len + (Pos + n)
    BY <2>3, <2>4, <1>t, StartHash
  <2>6. HashTracksFile'
    <3> SUFFICES ASSUME perform_sha1, ~trouble PROVE HashTracksFile'
      BY <1>1 DEF HashTracksFile
    <3>1. my_sha1.len = sha1_byte_count /\ sha1_byte_count = 0 /\ 0 < Pos
          /\ Pos = filepos
      BY <1>1, <1>2, <1>t, <1>q DEF HashTracksFile, MissingPrefix
    <3>2. ~block_file /\ GzipHashed
      BY <1>1, <1>t, <3>1 DEF HashTracksFile
    <3>3. /\ file \in Files /\ file.kind = "gzip" /\ file.used \in Nat
          /\ 0 < file.off /\ file.off < file.used
          /\ InBufSize \in Nat /\ file.used < file.raw
      BY <1>1, <1>t, GzipFile
    <3>4. Again \in Nat
      BY <3>3, <1>g DEF Again
    <3>5. strayed = "off"
      BY <3>1, <3>2, <3>3, <3>4, <1>g, <1>t, <1>p DEF GzipHashed, Strayed
    <3>6. GzipHashed'
      BY <3>5, <1>s DEF GzipHashed
    <3>7. my_sha1'.len = sha1_byte_count'
      BY <2>3, <2>4, <2>5, <3>1
    <3> QED
      BY <3>2, <3>6, <3>7, <1>1 DEF HashTracksFile
  <2> QED
    BY <2>2, <2>3, <2>4, <2>5, <2>6, <1>k
<1>3. CASE ~MissingPrefix(Pos) /\ c = 0
  <2>1. UNCHANGED <<rawpos, my_sha1, sha1_byte_count>>
    BY <1>3 DEF gunzip_read, Inflate, c
  <2>2. HashTracksFile'
    <3> SUFFICES ASSUME perform_sha1, ~trouble PROVE HashTracksFile'
      BY <1>1 DEF HashTracksFile
    <3>1. filepos' = filepos
      BY <1>1, <1>3, <1>p, <1>q
    <3>2. my_sha1.len = sha1_byte_count
          /\ (block_file => HashIsPrefix /\ 0 < sha1_byte_count)
          /\ (~block_file => GzipHashed)
      BY <1>1, <1>t DEF HashTracksFile
    <3>3. /\ Again' = Again /\ (HashIsPrefix <=> HashIsPrefix')
          /\ sha1_byte_count' = sha1_byte_count /\ rawpos' = rawpos
          /\ my_sha1' = my_sha1
      BY <2>1, <1>1 DEF Again, HashIsPrefix
    <3>4. GzipHashed => GzipHashed'
      <4> SUFFICES ASSUME GzipHashed PROVE GzipHashed'
        OBVIOUS
      <4>1. CASE strayed' = strayed
        BY <4>1, <3>1, <3>3, <1>1 DEF GzipHashed
      <4>2. CASE strayed # "off" /\ filepos = filemax /\ strayed' = "done"
        <5>1. CASE strayed = "no"
          BY <5>1, <4>2, <3>1, <3>3, <1>1 DEF GzipHashed
        <5>2. CASE strayed = "back"
          BY <5>2, <4>2, <1>t DEF GzipHashed
        <5>3. CASE strayed = "done"
          BY <5>3, <4>1, <4>2
        <5> QED
          BY <5>1, <5>2, <5>3, <4>2, <1>t DEF Strayed
      <4> QED
        BY <4>1, <4>2, <3>1, <1>s
    <3> QED
      BY <3>2, <3>3, <3>4, <1>1 DEF HashTracksFile
  <2> QED
    BY <2>1, <2>2, <1>t, <1>k
<1>4. CASE ~MissingPrefix(Pos) /\ c # 0
  <2>1. PICK r \in {rawpos} \cup (IF strayed = "no" THEN {} ELSE {file.off}),
             k \in 1 .. file.raw :
            /\ Needed(file, k)
            /\ Pos + c = filemax => Enough(file, k)
            /\ Refill(file, k) >= r
            /\ rawpos' = Refill(file, k)
            /\ IF perform_sha1 /\ ~block_file /\ rawpos' > r
               THEN /\ my_sha1' = sha1_update(WithPrefix(r), r, rawpos' - r)
                    /\ sha1_byte_count' = CountWithPrefix(r) + (rawpos' - r)
               ELSE UNCHANGED <<my_sha1, sha1_byte_count>>
    BY <1>4 DEF gunzip_read, Inflate, c
  <2>2. r \in Nat /\ (r = rawpos \/ (r = file.off /\ strayed # "no"))
    BY <2>1, <1>g, <1>t
  <2>3. k \in Nat \ {0} /\ c \in Nat \ {0}
    BY <2>1, <1>g, <1>p, <1>4
  <2>4. rawpos' \in Nat
    BY <2>1, <2>3, <1>t, RefillNat
  <2>5. my_sha1' \in HashOf /\ sha1_byte_count' \in Nat
    <3>1. CASE perform_sha1 /\ ~block_file /\ rawpos' > r
      <4> DEFINE n == rawpos' - r
      <4>1. n \in Nat
        <5>1. rawpos' > r /\ rawpos' \in Nat /\ r \in Nat
          BY <3>1, <2>2, <2>4
        <5>2. \A x, y \in Nat : x > y => x - y \in Nat
          OBVIOUS
        <5> QED
          BY <5>1, <5>2, Zenon
      <4>2. my_sha1' = sha1_update(WithPrefix(r), r, n)
            /\ sha1_byte_count' = CountWithPrefix(r) + n
        BY <2>1, <3>1
      <4>3. WithPrefix(r) \in HashOf /\ CountWithPrefix(r) \in Nat
        BY <2>2, <1>t, Prefix
      <4> HIDE DEF n
      <4>4. sha1_update(WithPrefix(r), r, n) \in HashOf
        BY <4>1, <4>3, <2>2, UpdateHash, Zenon
      <4> QED
        BY <4>1, <4>2, <4>3, <4>4
    <3>2. CASE ~(perform_sha1 /\ ~block_file /\ rawpos' > r)
      BY <2>1, <3>2, <1>t
    <3> QED
      BY <3>1, <3>2
  <2>6. HashTracksFile'
    <3> SUFFICES ASSUME perform_sha1, ~trouble PROVE HashTracksFile'
      BY <1>1 DEF HashTracksFile
    <3>1. CASE ~block_file
      <4>1. IF rawpos' > r
            THEN /\ my_sha1' = sha1_update(WithPrefix(r), r, rawpos' - r)
                 /\ sha1_byte_count' = CountWithPrefix(r) + (rawpos' - r)
            ELSE UNCHANGED <<my_sha1, sha1_byte_count>>
        BY <2>1, <3>1
      <4>2. Pos = filepos
        BY <1>q
      <4>3. /\ filepos + c <= filemax /\ filepos' = filepos + c
            /\ filepos + c = filemax => Enough(file, k)
            /\ r <= Refill(file, k) /\ rawpos' = Refill(file, k)
        BY <2>1, <2>2, <2>4, <4>2, <1>1, <1>p
      <4>4. GzipHashed' /\ my_sha1'.len = sha1_byte_count'
        BY <1>1, <1>t, <2>2, <2>3, <3>1, <4>1, <4>2, <4>3, GunzipHash, Zenon
      <4> QED
        BY <4>4, <3>1, <1>1 DEF HashTracksFile
    <3>2. CASE block_file
      <4>1. UNCHANGED <<my_sha1, sha1_byte_count>>
        BY <2>1, <3>2
      <4> QED
        BY <4>1, <3>2, <1>1, <1>t DEF HashTracksFile, HashIsPrefix
    <3> QED
      BY <3>1, <3>2
  <2> QED
    BY <2>4, <2>5, <2>6, <1>k
<1> QED
  BY <1>2, <1>3, <1>4

(* A blocklist's bytes are not hashed, but for a prefix once.              *)
LEMMA ReadBlocksStep ==
  ASSUME IInv, ReadFrame, NEW len \in Int, errnum = "none", ReadBlocks(len)
  PROVE  IInv'
<1> USE DEF flagVars, tpmVars
<1>t. TypeOK /\ FileKnown /\ HashTracksFile
  BY DEF IInv
<1>p. Pos \in Nat /\ Pos + Clamp(len) \in Nat /\ Pos + Clamp(len) <= filemax
      /\ Pos <= filemax
  BY <1>t, Positions
<1>1. /\ ~measure_kernel /\ block_file /\ ~compressed_file
      /\ filepos' = Pos + Clamp(len) /\ rawpos' = rawpos /\ errnum' = errnum
      /\ trouble' = trouble /\ GoesOn
      /\ my_sha1' = WithPrefix(Pos) /\ sha1_byte_count' = CountWithPrefix(Pos)
  BY DEF ReadBlocks
<1>s. strayed' \in Strayed
  BY <1>t, <1>1, Goes
<1>w. /\ WithPrefix(Pos) \in HashOf /\ CountWithPrefix(Pos) \in Nat
      /\ ~MissingPrefix(Pos) => /\ WithPrefix(Pos) = my_sha1
                                /\ CountWithPrefix(Pos) = sha1_byte_count
      /\ MissingPrefix(Pos) /\ my_sha1.len = sha1_byte_count =>
           /\ WithPrefix(Pos).len = Pos /\ CountWithPrefix(Pos) = Pos
           /\ my_sha1.clean => WithPrefix(Pos).clean
  BY <1>t, <1>p, Prefix
<1>3. TypeOK' /\ FileKnown' /\ ExtendSound'
  <2>1. filepos' \in Nat /\ filepos' \in 0 .. filemax
    BY <1>1, <1>p, <1>t DEF TypeOK
  <2> QED
    BY <1>1, <1>s, <1>w, <1>t, <2>1, ReadKeeps DEF TypeOK
<1>4. HashTracksFile'
  <2> SUFFICES ASSUME perform_sha1, ~trouble PROVE HashTracksFile'
    BY <1>1 DEF HashTracksFile, ReadFrame
  <2>1. /\ file' = file /\ file \in Files /\ file.raw \in Nat
        /\ filemax = file.raw
    BY <1>1, <1>t, FileTypes DEF ReadFrame, FileKnown
  <2>2. my_sha1.len = sha1_byte_count /\ HashIsPrefix
    BY <1>1, <1>t DEF HashTracksFile, ReadFrame
  <2>3. my_sha1'.len = sha1_byte_count' /\ HashIsPrefix'
    <3>1. CASE ~MissingPrefix(Pos)
      BY <1>1, <1>w, <2>1, <2>2, <3>1 DEF HashIsPrefix
    <3>2. CASE MissingPrefix(Pos)
      BY <1>1, <1>w, <1>p, <2>1, <2>2, <3>2 DEF HashIsPrefix
    <3> QED
      BY <3>1, <3>2
  <2> QED
    BY <1>1, <2>3 DEF HashTracksFile, ReadFrame
<1>5. StagedIsMeasured'
  BY <1>1 DEF StagedIsMeasured, ReadFrame
<1> QED
  BY <1>3, <1>4, <1>5 DEF IInv

(* A read that fails may hash anything: it leaves an error in errnum.      *)
LEMMA ReadFailsStep ==
  ASSUME IInv, ReadFrame, NEW len \in ReadLens \cup {-1}, ReadFails(len)
  PROVE  IInv'
<1> USE DEF flagVars, tpmVars
<1>t. TypeOK /\ file \in Files \cup {NoFile} /\ file.raw \in Nat
  BY FileTypes DEF IInv, TypeOK
<1>i. len \in Int
  BY SizesAssumption
<1>p. Pos \in Nat /\ Pos <= filemax
      /\ Pos + Clamp(len) \in Nat /\ Pos + Clamp(len) <= filemax
  BY <1>t, <1>i, Positions
<1>1. /\ filepos' \in Nat \cup {-1} /\ rawpos' = rawpos
      /\ errnum' \in Errors /\ trouble' = TRUE /\ strayed' \in Strayed
  <2>1. filepos' \in Nat \cup {-1}
    <3>1. CASE measure_kernel
      <4>1. filepos' = Pos + len
        BY <3>1 DEF ReadFails
      <4>2. len \in Nat \/ len = -1
        BY SizesAssumption
      <4> QED
        BY <4>1, <4>2, <1>p
    <3>2. CASE ~measure_kernel
      BY <3>2, <1>p DEF ReadFails
    <3> QED
      BY <3>1, <3>2
  <2>2. GoesOn
    BY DEF ReadFails
  <2> QED
    BY <2>1, <2>2, <1>t, Goes DEF ReadFails
<1>2. my_sha1' \in HashOf /\ sha1_byte_count' \in Nat
  <2>1. CASE perform_sha1 /\ ~measure_kernel
    <3>1. PICK n \in CountedByFailure(len) :
                 my_sha1' = Spoiled(my_sha1, n)
                 /\ sha1_byte_count' = sha1_byte_count + n
      BY <2>1 DEF ReadFails
    <3>2. Clamp(len) \in Nat
      BY <1>t, <1>i, Positions
    <3>3. n \in Nat
      BY <3>2, <1>t, <1>p DEF CountedByFailure
    <3> QED
      BY <3>1, <3>3, <1>t, StartHash DEF TypeOK
  <2>2. CASE ~(perform_sha1 /\ ~measure_kernel)
    BY <2>2, <1>t DEF ReadFails, TypeOK
  <2> QED
    BY <2>1, <2>2
<1>3. TypeOK' /\ FileKnown' /\ ExtendSound'
  BY <1>1, <1>2, <1>t, ReadKeeps DEF TypeOK
<1>4. HashTracksFile' /\ StagedIsMeasured'
  BY <1>1 DEF HashTracksFile, StagedIsMeasured
<1> QED
  BY <1>3, <1>4 DEF IInv

LEMMA ReadStep ==
  ASSUME IInv, NEW len \in ReadLens \cup {-1}, grub_read(len)
  PROVE  IInv'
<1>1. len \in Int
  BY SizesAssumption
<1>2. opened /\ UNCHANGED <<flagVars, opened, staged>>
  BY DEF grub_read
<1>3. CASE errnum = "none" /\ UNCHANGED tpmVars /\ ReadStaged(len)
  <2>1. ReadFrame
    BY <1>2, <1>3 DEF ReadFrame, ReadStaged
  <2> QED
    BY <1>1, <1>3, <2>1, ReadStagedStep
<1>4. CASE errnum = "none" /\ UNCHANGED tpmVars /\ ReadPath(len)
  <2>1. ReadFrame
    BY <1>2, <1>4 DEF ReadFrame, ReadPath
  <2> QED
    BY <1>1, <1>4, <2>1, ReadPathStep
<1>5. CASE errnum = "none" /\ UNCHANGED tpmVars /\ gunzip_read(len)
  <2>1. ReadFrame
    BY <1>2, <1>5 DEF ReadFrame, gunzip_read
  <2> QED
    BY <1>1, <1>5, <2>1, GunzipStep
<1>6. CASE errnum = "none" /\ UNCHANGED tpmVars /\ ReadBlocks(len)
  <2>1. ReadFrame
    BY <1>2, <1>6 DEF ReadFrame, ReadBlocks
  <2> QED
    BY <1>1, <1>6, <2>1, ReadBlocksStep
<1>7. CASE ReadFails(len) /\ UNCHANGED tpmVars
  <2>1. ReadFrame
    BY <1>2, <1>7 DEF ReadFrame, ReadFails
  <2> QED
    BY <1>7, <2>1, ReadFailsStep
<1>8. CASE ReadWild(len)
  BY <1>1, <1>2, <1>8, ReadWildStep
<1> QED
  BY <1>3, <1>4, <1>5, <1>6, <1>7, <1>8 DEF grub_read

-----------------------------------------------------------------------------
(* grub_seek: forward or back, but for the harmless ones it is known that  *)
(* the caller has left the order of the file.                              *)
LEMMA SeekStep ==
  ASSUME IInv, NEW offset \in ReadLens \cup {0}, grub_seek(offset)
  PROVE  IInv'
<1> USE DEF flagVars, tpmVars
<1>t. TypeOK /\ FileKnown /\ HashTracksFile /\ StagedIsMeasured /\ ExtendSound
      /\ strayed \in Strayed /\ sha1_byte_count \in Nat /\ filemax \in Nat
  BY DEF IInv, TypeOK
<1>1. offset \in Nat /\ offset <= filemax /\ filepos' = offset /\ opened
  BY SizesAssumption DEF grub_seek
<1>u. /\ UNCHANGED <<flagVars, errnum, opened, file, block_file,
                     compressed_file, filemax, rawpos, sha1_byte_count,
                     sha1_has_to_measure, my_sha1, trouble, staged, tpmVars>>
      /\ strayed' = (IF Harmless(offset) THEN strayed
                     ELSE IF offset < filepos /\ strayed # "off" THEN "back"
                     ELSE "off")
  BY DEF grub_seek
<1>2. TypeOK'
  <2>1. strayed' \in Strayed
    BY <1>u, <1>t DEF Strayed
  <2> QED
    BY <1>1, <1>u, <1>t, <2>1 DEF TypeOK
<1>3. FileKnown'
  BY <1>1, <1>u, <1>t DEF FileKnown
<1>4. StagedIsMeasured' /\ ExtendSound'
  BY <1>u, <1>t DEF StagedIsMeasured, ExtendSound
<1>5. HashTracksFile'
  <2> SUFFICES ASSUME perform_sha1, ~trouble PROVE HashTracksFile'
    BY <1>u DEF HashTracksFile
  <2>1. HashIsPrefix <=> HashIsPrefix'
    BY <1>u DEF HashIsPrefix
  <2>2. CASE measure_kernel \/ block_file
    BY <2>1, <2>2, <1>1, <1>u, <1>t DEF HashTracksFile
  <2>3. CASE ~measure_kernel /\ ~block_file
    <3>1. /\ filepos \in Nat /\ filepos <= filemax
          /\ compressed_file \/ PathHashed
          /\ ~compressed_file \/ GzipHashed
      BY <2>3, <1>1, <1>t DEF FileKnown, HashTracksFile
    <3>2. CASE strayed = "done" \/ offset = filepos
      <4>1. strayed' = strayed /\ Again' = Again
        BY <3>2, <1>u DEF Harmless, Again
      <4>2. PathHashed => PathHashed'
        BY <3>2, <4>1, <2>1, <1>1, <1>u DEF PathHashed
      <4>3. GzipHashed => GzipHashed'
        BY <3>2, <4>1, <2>1, <1>1, <1>u DEF GzipHashed
      <4> QED
        BY <2>3, <3>1, <4>2, <4>3, <1>u, <1>t DEF HashTracksFile
    <3>3. CASE strayed \in {"no", "back"} /\ offset < filepos
               /\ ~Harmless(offset)
      <4>1. strayed' = "back"
        BY <3>3, <1>u
      <4>2. ~compressed_file => PathHashed'
        <5>1. ~compressed_file => sha1_byte_count # 0
          BY <3>3 DEF Harmless
        <5>2. ~compressed_file => filepos <= sha1_byte_count
          BY <3>1, <3>3, <5>1, <1>t DEF PathHashed
        <5> QED
          BY <3>1, <3>3, <4>1, <5>2, <1>1, <1>u, <1>t DEF PathHashed
      <4>3. compressed_file => GzipHashed'
        <5>1. Again' = Again
          BY <1>u DEF Again
        <5>2. offset < filemax
          BY <3>1, <3>3, <1>1, <1>t
        <5> QED
          BY <3>1, <3>3, <4>1, <5>1, <5>2, <2>1, <1>1, <1>u DEF GzipHashed
      <4> QED
        BY <2>3, <4>2, <4>3, <1>u, <1>t DEF HashTracksFile
    <3>4. CASE Harmless(offset) /\ strayed # "done" /\ offset # filepos
      <4>1. sha1_byte_count = 0 /\ ~compressed_file /\ strayed' = strayed
        BY <2>3, <3>4, <1>u DEF Harmless
      <4>2. PathHashed'
        BY <3>1, <3>4, <4>1, <2>1, <1>1, <1>u DEF PathHashed
      <4> QED
        BY <2>3, <4>1, <4>2, <1>u, <1>t DEF HashTracksFile
    <3>5. CASE ~Harmless(offset) /\ ~(offset < filepos /\ strayed # "off")
      <4>1. strayed' = "off"
        BY <3>5, <1>u
      <4> QED
        BY <2>3, <4>1, <1>u, <1>t DEF HashTracksFile, PathHashed, GzipHashed
    <3> QED
      BY <3>2, <3>3, <3>4, <3>5, <1>t DEF Strayed, Harmless
  <2> QED
    BY <2>2, <2>3
<1> QED
  BY <1>2, <1>3, <1>4, <1>5 DEF IInv

-----------------------------------------------------------------------------
(* grub_close: if the counts agree and no call failed, the hash is that of *)
(* the whole file, because its length is the raw size and it is clean.     *)
LEMMA CloseStep ==
  ASSUME IInv, ReadBeforeClose, grub_close
  PROVE  IInv'
<1> USE DEF flagVars, posVars, hashVars
<1>t. TypeOK /\ FileKnown /\ HashTracksFile /\ ExtendSound /\ opened
  BY DEF IInv, grub_close
<1>f. file \in Files \cup {NoFile} /\ file.raw \in Nat
  BY <1>t, FileTypes DEF TypeOK
<1>c. pcr14 \in Seq(Digest)
  BY <1>t DEF TypeOK
<1>n. ~opened'
  BY DEF grub_close
<1>1. CASE CloseMeasured
  <2> DEFINE w == my_sha1.clean /\ my_sha1.len = file.raw
             e == trouble \/ errnum # "none"
             a == strayed \in {"back", "off"}
             d == [file |-> file, whole |-> w, failed |-> e, astray |-> a]
  <2>1. w \in BOOLEAN /\ e \in BOOLEAN /\ a \in BOOLEAN
    OBVIOUS
  <2>2. w \/ e \/ a
    <3> SUFFICES ASSUME errnum = "none", ~trouble, ~a
                 PROVE  my_sha1.clean /\ my_sha1.len = file.raw
      OBVIOUS
    <3>0. strayed = "no" \/ strayed = "done"
      BY <1>t DEF TypeOK, Strayed
    <3>1. sha1_has_to_measure = file.raw
      <4>1. CASE no_decompression
        <5>1. perform_sha1
          BY <1>1 DEF CloseMeasured
        <5> QED
          BY <4>1, <5>1, <1>t DEF ReadBeforeClose, FileKnown
      <4>2. CASE ~no_decompression
        BY <4>2, <1>t DEF FileKnown
      <4> QED
        BY <4>1, <4>2
    <3>2. perform_sha1 /\ sha1_byte_count = file.raw
      BY <1>1, <3>1 DEF CloseMeasured
    <3>3. my_sha1.len = sha1_byte_count
      BY <1>t, <3>2 DEF HashTracksFile
    <3>4. HashIsPrefix
      <4>1. CASE measure_kernel \/ block_file
        BY <4>1, <1>t, <3>2 DEF HashTracksFile
      <4>2. CASE ~measure_kernel /\ ~block_file /\ compressed_file
        <5>1. GzipHashed
          BY <4>2, <1>t, <3>2 DEF HashTracksFile
        <5> QED
          BY <5>1, <3>0, <3>2, <1>f DEF GzipHashed
      <4>3. CASE ~measure_kernel /\ ~block_file /\ ~compressed_file
        <5>1. PathHashed
          BY <4>3, <1>t, <3>2 DEF HashTracksFile
        <5> QED
          BY <5>1, <3>0, <3>2, <1>f DEF PathHashed
      <4> QED
        BY <4>1, <4>2, <4>3
    <3> QED
      BY <3>2, <3>3, <3>4 DEF HashIsPrefix
  <2>3. pcr14' = IF tpm THEN Append(pcr14, d) ELSE pcr14
    BY <1>1 DEF CloseMeasured, DigestOf
  <2>4. d.whole = w /\ d.failed = e /\ d.astray = a
    OBVIOUS
  <2>5. d.whole \/ d.failed \/ d.astray
    BY <2>2, <2>4
  <2> HIDE DEF w, e, a
  <2>6. d \in Digest
    BY <2>1, <1>f DEF Digest
  <2> HIDE DEF d
  <2>7. pcr14' \in Seq(Digest)
    BY <2>3, <2>6, <1>c
  <2>8. ExtendSound'
    BY <2>3, <2>5, <2>6, <1>c, <1>t DEF ExtendSound
  <2>9. TypeOK'
    BY <2>7, <1>1, <1>t DEF TypeOK, grub_close, CloseMeasured
  <2> QED
    BY <2>8, <2>9, <1>n
       DEF IInv, FileKnown, HashTracksFile, StagedIsMeasured
<1>2. CASE CloseUnmeasured \/ ClosePlain
  <2>1. pcr14' = pcr14
    BY <1>2 DEF CloseUnmeasured, ClosePlain
  <2>2. accepted' \subseteq Files \cup {NoFile} /\ halted' \in BOOLEAN
    BY <1>2, <1>f, <1>t DEF TypeOK, CloseUnmeasured, ClosePlain
  <2>3. TypeOK'
    BY <2>1, <2>2, <1>t DEF TypeOK, grub_close
  <2> QED
    BY <2>1, <2>3, <1>n, <1>t, ClosedStep
<1> QED
  BY <1>1, <1>2 DEF grub_close

-----------------------------------------------------------------------------
(* Every step of the file layer and of its callers keeps the invariant.    *)
THEOREM InductiveInvariant == IInv /\ [Next]_fileVars => IInv'
<1> SUFFICES ASSUME IInv, [Next]_fileVars PROVE IInv'
  OBVIOUS
<1>1. CASE \/ MeasureOn \/ MeasureOff \/ KernelOn \/ Decompression
           \/ \E e \in Errors : SetErrnum(e)
           \/ Presume \/ Abandon \/ Halt \/ grub_halt
  BY <1>1, CallerStep
<1>2. CASE \E f \in Files : grub_open(f)
  BY <1>2, OpenStep
<1>3. CASE \E len \in ReadLens \cup {-1} : grub_read(len)
  BY <1>3, ReadStep
<1>4. CASE \E offset \in ReadLens \cup {0} : grub_seek(offset)
  BY <1>4, SeekStep
<1>5. CASE ReadBeforeClose /\ grub_close
  BY <1>5, CloseStep
<1>6. CASE UNCHANGED fileVars
  BY <1>6 DEF fileVars, flagVars, posVars, hashVars, tpmVars, IInv, TypeOK,
              FileKnown, HashTracksFile, PathHashed, GzipHashed, HashIsPrefix,
              Again, StagedIsMeasured, ExtendSound
<1> QED
  BY <1>1, <1>2, <1>3, <1>4, <1>5, <1>6 DEF Next

(* The invariant holds in every behaviour of the file layer.               *)
THEOREM Invariance == Spec => []IInv
<1>1. Init => IInv
  BY InitInv
<1>2. IInv /\ [Next]_fileVars => IInv'
  BY InductiveInvariant
<1> QED
  BY <1>1, <1>2, PTL DEF Spec

(* The variables of disk_io.c keep their types: no count or size is ever   *)
(* negative, and no position but the -1 a refused copy leaves, for any     *)
(* files, buffer size, read lengths and seeks.                             *)
THEOREM TypeCorrect == Spec => []TypeOK
<1>1. IInv => TypeOK
  BY DEF IInv
<1> QED
  BY <1>1, Invariance, PTL

(* grub_close extends PCR 14 with the digest of a whole file, or after an  *)
(* error, or for a caller that left out a part, although all that it       *)
(* compares is two byte counts.                                            *)
THEOREM ExtendIsSound == Spec => []ExtendSound
<1>1. IInv => ExtendSound
  BY DEF IInv
<1> QED
  BY <1>1, Invariance, PTL

(* A kernel's loader is given the file that grub_open hashed.              *)
THEOREM StagedMeasured == Spec => []StagedIsMeasured
<1>1. IInv => StagedIsMeasured
  BY DEF IInv
<1> QED
  BY <1>1, Invariance, PTL

(* The hash follows the file however it is read.                           *)
THEOREM HashTracks == Spec => []HashTracksFile
<1>1. IInv => HashTracksFile
  BY DEF IInv
<1> QED
  BY <1>1, Invariance, PTL
-----------------------------------------------------------------------------
(* What the operations of the file layer do to the state that their        *)
(* callers rely on.                                                        *)

LEMMA OpenEffect ==
  ASSUME NEW STATE f, grub_open(f)
  PROVE  /\ ~opened /\ ~halted /\ UNCHANGED <<flagVars, tpmVars>>
         /\ opened' => file' = f
         /\ opened' /\ errnum' = "none" => ~trouble'
         /\ compressed_file' => ~no_decompression
<1>1. ~opened /\ ~halted
  BY DEF grub_open
<1>2. CASE OpenPath(f)
  BY <1>1, <1>2 DEF OpenPath, OpenReset, gunzip_test_header, IsGzip
<1>3. CASE OpenKernel(f)
  BY <1>1, <1>3 DEF OpenKernel, OpenReset, gunzip_test_header, IsGzip
<1>4. CASE OpenKernelFails(f)
  BY <1>1, <1>4 DEF OpenKernelFails, OpenReset, gunzip_test_header, IsGzip
<1>5. CASE OpenOverStaged(f)
  BY <1>1, <1>5 DEF OpenOverStaged, OpenReset
<1>6. CASE OpenBlocks(f)
  BY <1>1, <1>6 DEF OpenBlocks, OpenReset, gunzip_test_header, IsGzip
<1>7. CASE \E e \in Errors \ {"none"} : OpenFails(f, e)
  BY <1>1, <1>7 DEF OpenFails
<1>8. QED
  BY <1>2, <1>3, <1>4, <1>5, <1>6, <1>7 DEF grub_open

LEMMA ReadEffect ==
  ASSUME NEW len, grub_read(len)
  PROVE  /\ opened /\ ~halted /\ Publish
         /\ UNCHANGED <<flagVars, opened, staged, tpm, pcr14, accepted>>
         /\ UNCHANGED <<file, block_file, compressed_file, filemax>>
         /\ errnum' = "none" => errnum = "none" /\ trouble' = trouble
         /\ measure_kernel => UNCHANGED sha1_byte_count
         /\ \/ UNCHANGED <<halted, wild>>
            \/ measure_kernel /\ len < 0 /\ wild' /\ halted'
<1> USE DEF tpmVars, posVars
<1>1. opened /\ ~halted /\ UNCHANGED <<flagVars, opened, staged>>
  BY DEF grub_read
<1>2. CASE errnum = "none" /\ UNCHANGED tpmVars /\ ReadStaged(len)
  BY <1>1, <1>2 DEF ReadStaged
<1>3. CASE errnum = "none" /\ UNCHANGED tpmVars /\ ReadPath(len)
  BY <1>1, <1>3 DEF ReadPath
<1>4. CASE errnum = "none" /\ UNCHANGED tpmVars /\ gunzip_read(len)
  BY <1>1, <1>4 DEF gunzip_read
<1>5. CASE errnum = "none" /\ UNCHANGED tpmVars /\ ReadBlocks(len)
  BY <1>1, <1>5 DEF ReadBlocks
<1>6. CASE ReadFails(len) /\ UNCHANGED tpmVars
  BY <1>1, <1>6 DEF ReadFails
<1>7. CASE ReadWild(len)
  BY <1>1, <1>7 DEF ReadWild
<1>8. QED
  BY <1>2, <1>3, <1>4, <1>5, <1>6, <1>7 DEF grub_read

LEMMA CloseEffect ==
  ASSUME grub_close
  PROVE  /\ opened /\ ~halted /\ ~opened' /\ ~measure_kernel'
         /\ UNCHANGED <<perform_sha1, no_decompression, errnum, posVars,
                        hashVars, staged, tpm, wild>>
         /\ accepted \subseteq accepted'
<1>1. accepted \subseteq accepted'
  BY DEF grub_close, CloseMeasured, CloseUnmeasured, ClosePlain
<1>2. QED
  BY <1>1 DEF grub_close
=============================================================================
