---------------------------- MODULE MeasuredFile ----------------------------
(***************************************************************************)
(* The measuring file layer of Stage 2 (stage2/disk_io.c, stage2/gunzip.c):*)
(* grub_open, grub_read, grub_seek and grub_close keep one open file in    *)
(* global variables and, while perform_sha1 is set, feed the bytes they    *)
(* read from the device to a running SHA-1; grub_close extends PCR 14 with *)
(* the digest when the number of bytes hashed is the size of the file.  A  *)
(* kernel (measure_kernel) is read as a whole by grub_open into staging    *)
(* memory, and the reads of its loader are served from there.              *)
(*                                                                         *)
(* The callers are abstracted to what they all keep to: they open a file   *)
(* when no other is open, read and seek in it as they like, and set the    *)
(* flags between two files.  The module TrustedBoot has the callers.       *)
(***************************************************************************)
EXTENDS Integers, Sequences

CONSTANTS
  Files,       \* the files that can be opened: records of FileRecord
  InBufSize,   \* INBUFSIZ, the input buffer of the decompressor
  Trailer,     \* the 8 bytes (CRC and size) that end a gzip file
  ReadLens     \* the lengths a caller asks of grub_read, besides -1

(***************************************************************************)
(* A file as the layer sees it: raw is its size on the device; block says  *)
(* that it is named by a blocklist; a gzip file has its compressed data at *)
(* off, the decompressor has consumed used bytes once it has delivered all *)
(* of the plain bytes; what is left (the end of the last block and the     *)
(* trailer) is less than a buffer.  A badgzip file has the magic number    *)
(* and a header that does not parse.                                       *)
(***************************************************************************)
FileRecord ==
  [name: STRING, raw: Nat, kind: {"plain", "gzip", "badgzip"},
   block: BOOLEAN, off: Nat, used: Nat, plain: Nat]

ASSUME FilesAssumption ==
  /\ Files \subseteq FileRecord
  /\ \A f \in Files : f.kind = "gzip" =>
       /\ 0 < f.off /\ f.off < f.used
       /\ f.used + Trailer <= f.raw
       /\ f.raw < f.used + InBufSize

(* grub_open rejects a blocklist with an empty extent or of size 0. *)
ASSUME BlocklistAssumption == \A f \in Files : f.block => f.raw > 0

ASSUME SizesAssumption ==
  /\ Trailer \in Nat \ {0}
  /\ InBufSize \in Nat /\ Trailer < InBufSize
  /\ ReadLens \subseteq Nat

NoFile ==
  [name |-> "", raw |-> 0, kind |-> "plain", block |-> FALSE,
   off |-> 0, used |-> 0, plain |-> 0]

VARIABLES
  perform_sha1,         \* hash what is read, extend PCR 14 on close
  measure_kernel,       \* serve reads from the staging memory
  no_decompression,     \* do not look for a gzip header
  errnum,               \* see Errors
  opened,               \* a caller holds the file: open succeeded, no close yet
  file,                 \* the file the device state describes
  block_file,           \* it is read through a blocklist
  compressed_file,      \* it is being decompressed
  filepos, filemax,     \* position and size as the caller sees them
  rawpos,               \* gzip_filepos: position in the compressed data
  sha1_byte_count,      \* bytes counted as hashed
  sha1_has_to_measure,  \* bytes that have to be, 0 before it is published
  my_sha1,              \* the running hash, see HashOf
  trouble,              \* history: a read of the file failed
  strayed,              \* history: how the caller went through it, see Strayed
  staged,               \* the file whose plain bytes are in staging memory
  tpm,                  \* tpm_present() = 0: there is a TPM
  pcr14,                \* what PCR 14 was extended with, in order
  accepted,             \* files closed unmeasured because the user said so
  halted,               \* grub_halt was called, or the code is overwritten
  wild                  \* history: a copy of a negative length has done that

flagVars == <<perform_sha1, measure_kernel, no_decompression>>
posVars  == <<file, block_file, compressed_file, filepos, filemax, rawpos>>
hashVars == <<sha1_byte_count, sha1_has_to_measure, my_sha1, trouble,
              strayed>>
tpmVars  == <<tpm, pcr14, accepted, halted, wild>>
fileVars == <<flagVars, errnum, opened, posVars, hashVars, staged, tpmVars>>

(***************************************************************************)
(* Error numbers.  print_error stops the machine for the "hard" ones, those*)
(* above ERR_EXEC_FORMAT, and only reports the "soft" ones.                *)
(***************************************************************************)
Errors == {"none", "soft", "hard"}

(***************************************************************************)
(* How a caller has gone through the file: in order so far; back before it *)
(* had reached the end; past bytes that it has not read; or to the end,    *)
(* after which it may do what it likes.                                    *)
(***************************************************************************)
Strayed == {"no", "back", "off", "done"}

(***************************************************************************)
(* The running hash: how many bytes went in, and whether they are the first*)
(* len bytes of the file in their order.                                   *)
(***************************************************************************)
HashOf == [len: Nat, clean: BOOLEAN]
sha1_init == [len |-> 0, clean |-> TRUE]
sha1_update(h, pos, n) ==
  [len   |-> h.len + n,
   clean |-> h.clean /\ (n = 0 \/ pos = h.len)]
Spoiled(h, n) == [len |-> h.len + n, clean |-> FALSE]

-----------------------------------------------------------------------------
(* grub_open *)

(* The positions the decompressor's refills of its input buffer end at. *)
Refill(f, k) == IF f.off + k * InBufSize < f.raw THEN f.off + k * InBufSize
                                                 ELSE f.raw

(* The k-th refill is needed to consume the used bytes; it is the last one. *)
Needed(f, k) == f.off + (k - 1) * InBufSize < f.used
Enough(f, k) == f.used <= f.off + k * InBufSize

IsGzip(f) == f.kind = "gzip" /\ ~no_decompression
IsBad(f)  == f.kind = "badgzip" /\ ~no_decompression

(* The size that a header test leaves in sha1_has_to_measure: grub_read    *)
(* publishes the raw size, unless the test does not read at all.           *)
PublishedByTest(f) == IF no_decompression THEN 0 ELSE f.raw

(* Mutant: the size of the decompressed kernel. *)
PublishesPlain(f) == IF IsGzip(f) THEN f.plain ELSE f.raw

(* The staging read publishes a size that the test did not; then the file  *)
(* is not decompressed, and that is the raw size as well.                  *)
PublishedByStaging(f) == f.raw

OpenReset(e) == /\ opened' = TRUE
                /\ errnum' = e
                /\ trouble' = (e # "none")
                /\ strayed' = "no"
                /\ filepos' = 0
                /\ UNCHANGED <<flagVars, tpmVars>>

(* gunzip_test_header on the bytes of the file: a gzip file becomes a      *)
(* compressed one with its own positions, any other is left as it is.      *)
gunzip_test_header(f) ==
  /\ ~IsBad(f)
  /\ file' = f
  /\ compressed_file' = IsGzip(f)
  /\ filemax' = (IF IsGzip(f) THEN f.plain ELSE f.raw)

(* initialize_tables: decompression starts at the compressed data. *)
initialize_tables(f) == rawpos' = (IF IsGzip(f) THEN f.off ELSE 0)

(* A file of a filesystem that is not a measured kernel. *)
OpenPath(f) ==
  /\ ~f.block
  /\ ~measure_kernel
  /\ OpenReset("none")
  /\ gunzip_test_header(f)
  /\ initialize_tables(f)
  /\ block_file' = FALSE
  /\ my_sha1' = sha1_init /\ sha1_byte_count' = 0
  /\ sha1_has_to_measure' = PublishedByTest(f)
  /\ UNCHANGED staged

(* A kernel: the whole file is read into staging memory and hashed. *)
OpenKernel(f) ==
  /\ ~f.block
  /\ measure_kernel /\ perform_sha1
  /\ OpenReset("none")
  /\ gunzip_test_header(f)
  /\ block_file' = FALSE
  /\ sha1_has_to_measure' = PublishedByStaging(f)
  /\ IF IsGzip(f) /\ f.plain > 0
     THEN \E k \in 1 .. f.raw :
            /\ Needed(f, k) /\ Enough(f, k)
            /\ rawpos' = Refill(f, k)
            /\ sha1_byte_count' = Refill(f, k)
            /\ my_sha1' = sha1_update(sha1_update(sha1_init, 0, f.off),
                                      f.off, Refill(f, k) - f.off)
     ELSE /\ initialize_tables(f)
          /\ sha1_byte_count' = (IF IsGzip(f) THEN 0 ELSE f.raw)
          /\ my_sha1' = sha1_update(sha1_init, 0, IF IsGzip(f) THEN 0 ELSE f.raw)
  /\ staged' = f

(* The staging read of a kernel failed, with a "soft" error if its         *)
(* compressed data is bad: grub_open does not look at the result, the      *)
(* bytes are counted as hashed, the error is left in errnum.               *)
OpenKernelFails(f) ==
  /\ ~f.block
  /\ measure_kernel /\ perform_sha1
  /\ \E e \in Errors \ {"none"} : OpenReset(e)
  /\ gunzip_test_header(f)
  /\ initialize_tables(f)
  /\ block_file' = FALSE
  /\ sha1_has_to_measure' = PublishedByStaging(f)
  /\ sha1_byte_count' \in 0 .. f.raw
  /\ my_sha1' = Spoiled(sha1_init, sha1_byte_count')
  /\ staged' = NoFile

(* A file opened while measure_kernel is set without perform_sha1, or one  *)
(* named by a blocklist while it is set: the header test reads the staging *)
(* memory, which holds plain bytes, and nothing is staged.                 *)
OpenOverStaged(f) ==
  /\ measure_kernel
  /\ f.block \/ ~perform_sha1
  /\ OpenReset("none")
  /\ file' = f
  /\ block_file' = f.block
  /\ compressed_file' = FALSE
  /\ filemax' = f.raw
  /\ rawpos' = 0
  /\ my_sha1' = sha1_init /\ sha1_byte_count' = 0
  /\ sha1_has_to_measure' = PublishedByTest(f)
  /\ UNCHANGED staged

(* A blocklist: its bytes are never hashed, but for the trailer of a gzip  *)
(* file grub_read hashes what comes before the first position read.        *)
OpenBlocks(f) ==
  /\ f.block
  /\ ~measure_kernel
  /\ OpenReset("none")
  /\ gunzip_test_header(f)
  /\ initialize_tables(f)
  /\ block_file' = TRUE
  /\ \E n \in 0 .. f.raw :
       /\ IF perform_sha1 /\ IsGzip(f) THEN 0 < n /\ n <= f.raw - Trailer
                                       ELSE n = 0
       /\ sha1_byte_count' = n
       /\ my_sha1' = sha1_update(sha1_init, 0, n)
  /\ sha1_has_to_measure' = PublishedByTest(f)
  /\ UNCHANGED staged

(* What grub_open has set when it fails before there is a file: the name   *)
(* or the device is bad, and the positions are still those of the file     *)
(* before, or there is no such file under any of the names tried.          *)
NotFound ==
  /\ filepos' = 0
  /\ sha1_byte_count' = 0 /\ sha1_has_to_measure' = 0
  /\ \/ UNCHANGED <<file, block_file, filemax>>
     \/ file' = NoFile /\ block_file' = FALSE /\ filemax' = 0

(* The header test failed: the file with its size, what the test has read  *)
(* of it and what the staging read has counted stay behind.                *)
BadHeader(f) ==
  /\ f.kind = "badgzip" /\ ~no_decompression
  /\ file' = f /\ block_file' = f.block /\ filemax' = f.raw
  /\ filepos' \in 0 .. f.raw
  /\ sha1_has_to_measure' = f.raw
  /\ sha1_byte_count' \in IF perform_sha1 /\ (measure_kernel \/ f.block)
                          THEN 0 .. f.raw ELSE {0}

(* grub_open returns 0.  The flags stay as they are.  The staging read of  *)
(* a kernel whose gzip header is bad fails at once, because errnum is set, *)
(* and leaves what memory happens to hold at the new address.              *)
OpenFails(f, e) ==
  /\ opened' = FALSE
  /\ errnum' = e
  /\ trouble' = FALSE /\ strayed' = "no"
  /\ compressed_file' = FALSE
  /\ rawpos' = 0
  /\ NotFound \/ BadHeader(f)
  /\ my_sha1' = Spoiled(sha1_init, sha1_byte_count')
  /\ staged' \in {staged} \cup (IF measure_kernel /\ perform_sha1
                                THEN {NoFile} ELSE {})
  /\ UNCHANGED <<flagVars, tpmVars>>

grub_open(f) ==
  /\ ~opened /\ ~halted
  /\ \/ OpenPath(f)
     \/ OpenKernel(f)
     \/ OpenKernelFails(f)
     \/ OpenOverStaged(f)
     \/ OpenBlocks(f)
     \/ \E e \in Errors \ {"none"} : OpenFails(f, e)

-----------------------------------------------------------------------------
(* grub_read *)

(* filepos made sane. *)
Pos == IF filepos < 0 \/ filepos > filemax THEN filemax ELSE filepos

(* The length that remains, the size made known. *)
Clamp(len) == IF len < 0 \/ len > filemax - Pos THEN filemax - Pos ELSE len
Publish == sha1_has_to_measure' =
             (IF sha1_has_to_measure = 0 THEN filemax ELSE sha1_has_to_measure)

(* Mutant: what the header test has passed over is not hashed. *)
NoPrefix(pos) == FALSE

(* What comes before the first byte hashed is read again and hashed too. *)
MissingPrefix(pos) == perform_sha1 /\ sha1_byte_count = 0 /\ pos > 0
WithPrefix(pos) == IF MissingPrefix(pos) THEN sha1_update(my_sha1, 0, pos)
                                         ELSE my_sha1
CountWithPrefix(pos) == IF MissingPrefix(pos) THEN pos ELSE sha1_byte_count

(* The file whose bytes a successful read delivers. *)
Source == IF measure_kernel THEN staged ELSE file

(* The caller has got to the end of the file without passing over a part.  *)
GoesOn == strayed' = (IF strayed # "off" /\ filepos' = filemax THEN "done"
                                                              ELSE strayed)

(* A measured kernel: the bytes come from staging memory, whatever it      *)
(* holds; the length is not compared with what is left of the file.        *)
ReadStaged(len) ==
  /\ measure_kernel
  /\ len >= 0
  /\ Publish
  /\ filepos' = Pos + len
  /\ UNCHANGED <<file, block_file, compressed_file, filemax, rawpos, errnum,
                 sha1_byte_count, my_sha1, trouble, strayed>>

(* Nor is it compared with 0: a copy of a negative length that memcheck    *)
(* lets pass overwrites the memory, the program included.                  *)
ReadWild(len) ==
  /\ measure_kernel
  /\ errnum = "none" /\ len < 0
  /\ Publish
  /\ wild' = TRUE /\ halted' = TRUE
  /\ UNCHANGED <<posVars, errnum, sha1_byte_count, my_sha1, trouble, strayed,
                 tpm, pcr14, accepted>>

(* A file of a filesystem. *)
ReadPath(len) ==
  /\ ~measure_kernel /\ ~block_file /\ ~compressed_file
  /\ Publish
  /\ filepos' = Pos + Clamp(len)
  /\ IF perform_sha1
     THEN /\ my_sha1' = sha1_update(WithPrefix(Pos), Pos, Clamp(len))
          /\ sha1_byte_count' = CountWithPrefix(Pos) + Clamp(len)
     ELSE UNCHANGED <<my_sha1, sha1_byte_count>>
  /\ GoesOn
  /\ UNCHANGED <<file, block_file, compressed_file, filemax, rawpos, errnum,
                 trouble>>

(* gunzip_read: the decompressor goes on from raw position r and refills   *)
(* its buffer, up to its k-th refill, as often as the bytes it delivers    *)
(* need: how often depends on how well they are compressed, except that    *)
(* all of them take used raw bytes.  It may start again from the beginning *)
(* of the data when the caller has gone back by more than a window.        *)
Inflate(len) ==
  IF Clamp(len) = 0
  THEN UNCHANGED <<rawpos, my_sha1, sha1_byte_count>>
  ELSE \E r \in {rawpos} \cup (IF strayed = "no" THEN {} ELSE {file.off}),
          k \in 1 .. file.raw :
         /\ Needed(file, k)
         /\ Pos + Clamp(len) = filemax => Enough(file, k)
         /\ Refill(file, k) >= r
         /\ rawpos' = Refill(file, k)
         /\ IF perform_sha1 /\ ~block_file /\ rawpos' > r
            THEN /\ my_sha1' = sha1_update(WithPrefix(r), r, rawpos' - r)
                 /\ sha1_byte_count' = CountWithPrefix(r) + (rawpos' - r)
            ELSE UNCHANGED <<my_sha1, sha1_byte_count>>

(* Not read from its beginning: what is hashed as the missing prefix are   *)
(* plain bytes, and then whatever raw ones come after them.                *)
InflateFromHere ==
  /\ rawpos' \in {rawpos} \cup {Refill(file, k) : k \in 1 .. file.raw}
  /\ \E n \in 0 .. file.raw : /\ my_sha1' = Spoiled(my_sha1, Pos + n)
                              /\ sha1_byte_count' = Pos + n

gunzip_read(len) ==
  /\ ~measure_kernel /\ compressed_file
  /\ Publish
  /\ filepos' = Pos + Clamp(len)
  /\ GoesOn
  /\ IF MissingPrefix(Pos) THEN InflateFromHere ELSE Inflate(len)
  /\ UNCHANGED <<file, block_file, compressed_file, filemax, errnum, trouble>>

(* A blocklist: nothing but a missing prefix is hashed. *)
ReadBlocks(len) ==
  /\ ~measure_kernel /\ block_file /\ ~compressed_file
  /\ Publish
  /\ filepos' = Pos + Clamp(len)
  /\ my_sha1' = WithPrefix(Pos)
  /\ sha1_byte_count' = CountWithPrefix(Pos)
  /\ GoesOn
  /\ UNCHANGED <<file, block_file, compressed_file, filemax, rawpos, errnum,
                 trouble>>

(* How many bytes a read that fails counts as hashed: none, if it fails    *)
(* before the device is asked; what it was asked for; if a prefix was to   *)
(* be hashed first, as much of that as was read; the buffers that the      *)
(* decompressor has asked for.                                             *)
CountedByFailure(len) ==
  IF compressed_file THEN 0 .. file.raw
  ELSE {0, Clamp(len)} \cup (IF MissingPrefix(Pos) THEN 0 .. Pos + Clamp(len)
                                                    ELSE {})

(* The device, the filesystem or the compressed data is bad, or the bytes  *)
(* do not fit where they should go, or errnum was set before.  What was    *)
(* asked for is hashed and counted all the same, whatever the buffer       *)
(* holds.  When memcheck refuses a copy of a kernel the position moves on, *)
(* by a negative length too (-1 stands for all of them).                   *)
ReadFails(len) ==
  /\ Publish
  /\ errnum' \in Errors \ {"none"}
  /\ trouble' = TRUE
  /\ filepos' \in (IF measure_kernel THEN {Pos + len}
                                     ELSE {Pos, Pos + Clamp(len)})
  /\ GoesOn
  /\ IF perform_sha1 /\ ~measure_kernel
     THEN \E n \in CountedByFailure(len) :
            /\ my_sha1' = Spoiled(my_sha1, n)
            /\ sha1_byte_count' = sha1_byte_count + n
     ELSE UNCHANGED <<my_sha1, sha1_byte_count>>
  /\ UNCHANGED <<file, block_file, compressed_file, filemax, rawpos>>

grub_read(len) ==
  /\ opened /\ ~halted
  /\ \/ errnum = "none" /\ UNCHANGED tpmVars
                         /\ \/ ReadStaged(len)
                            \/ ReadPath(len)
                            \/ gunzip_read(len)
                            \/ ReadBlocks(len)
     \/ ReadFails(len) /\ UNCHANGED tpmVars
     \/ ReadWild(len)
  /\ UNCHANGED <<flagVars, opened, staged>>

(* Whether a seek takes the caller off its way: it does not when the file  *)
(* is in staging memory or was read to its end, nor when nothing is hashed *)
(* yet of a file that is read as it is: what it passes over will be.       *)
Harmless(offset) ==
  \/ measure_kernel \/ strayed = "done" \/ offset = filepos
  \/ sha1_byte_count = 0 /\ ~compressed_file

grub_seek(offset) ==
  /\ opened /\ ~halted
  /\ offset <= filemax
  /\ filepos' = offset
  /\ strayed' = (IF Harmless(offset) THEN strayed
                 ELSE IF offset < filepos /\ strayed # "off" THEN "back"
                 ELSE "off")
  /\ UNCHANGED <<flagVars, errnum, opened, file, block_file, compressed_file,
                 filemax, rawpos, sha1_byte_count, sha1_has_to_measure,
                 my_sha1, trouble, staged, tpmVars>>

-----------------------------------------------------------------------------
(* grub_close *)

(* What is known of a digest: the file, whether it is that of the whole    *)
(* file, whether a call failed, whether the caller left out a part.        *)
DigestOf == [file   |-> file,
             whole  |-> my_sha1.clean /\ my_sha1.len = file.raw,
             failed |-> trouble \/ errnum # "none",
             astray |-> strayed \in {"back", "off"}]

(* Mutant: more bytes than the file has are enough. *)
ClosesAtLeast ==
  /\ perform_sha1
  /\ sha1_byte_count >= sha1_has_to_measure
  /\ pcr14' = IF tpm THEN Append(pcr14, DigestOf) ELSE pcr14
  /\ UNCHANGED <<accepted, halted>>

(* The digest is extended into PCR 14 if there is a TPM. *)
CloseMeasured ==
  /\ perform_sha1
  /\ sha1_byte_count = sha1_has_to_measure
  /\ pcr14' = IF tpm THEN Append(pcr14, DigestOf) ELSE pcr14
  /\ UNCHANGED <<accepted, halted>>

(* "Whole file could not be measured": ESC stops, any other key goes on. *)
CloseUnmeasured ==
  /\ perform_sha1
  /\ sha1_byte_count # sha1_has_to_measure
  /\ \/ halted' = TRUE /\ UNCHANGED accepted
     \/ accepted' = accepted \cup {file} /\ UNCHANGED halted
  /\ UNCHANGED pcr14

ClosePlain ==
  /\ ~perform_sha1
  /\ UNCHANGED <<pcr14, accepted, halted>>

grub_close ==
  /\ opened /\ ~halted
  /\ opened' = FALSE
  /\ measure_kernel' = FALSE
  /\ CloseMeasured \/ CloseUnmeasured \/ ClosePlain
  /\ UNCHANGED <<perform_sha1, no_decompression, errnum, posVars, hashVars,
                 staged, tpm, wild>>

-----------------------------------------------------------------------------
(***************************************************************************)
(* The callers.  Between two files they set the flags; with a file open    *)
(* they read and seek, may set or clear errnum, and close it.              *)
(***************************************************************************)
MeasureOn == /\ ~opened /\ ~halted
             /\ perform_sha1' = TRUE
             /\ UNCHANGED <<measure_kernel, no_decompression, errnum, opened,
                            posVars, hashVars, staged, tpmVars>>

MeasureOff == /\ ~opened /\ ~halted
              /\ perform_sha1' = FALSE
              /\ UNCHANGED <<measure_kernel, no_decompression, errnum, opened,
                             posVars, hashVars, staged, tpmVars>>

KernelOn == /\ ~opened /\ ~halted
            /\ perform_sha1
            /\ measure_kernel' = TRUE
            /\ UNCHANGED <<perform_sha1, no_decompression, errnum, opened,
                           posVars, hashVars, staged, tpmVars>>

Decompression == /\ ~opened /\ ~halted
                 /\ no_decompression' \in BOOLEAN
                 /\ UNCHANGED <<perform_sha1, measure_kernel, errnum, opened,
                                posVars, hashVars, staged, tpmVars>>

SetErrnum(e) == /\ ~halted
                /\ errnum' = e
                /\ UNCHANGED <<flagVars, opened, posVars, hashVars, staged,
                               tpmVars>>

(* grub_open has just failed, or there was no file yet. *)
JustFailed == /\ ~opened /\ ~compressed_file /\ rawpos = 0
              /\ ~trouble /\ strayed = "no"
              /\ my_sha1 = Spoiled(sha1_init, sha1_byte_count)
                   \/ my_sha1 = sha1_init

(* calculate_sha1 does not look at the result of grub_open: it goes on     *)
(* after an error with what the file before has left.                      *)
Presume == /\ JustFailed /\ ~halted
           /\ errnum # "none"
           /\ opened' = TRUE
           /\ trouble' = TRUE
           /\ UNCHANGED <<flagVars, errnum, posVars, sha1_byte_count,
                          sha1_has_to_measure, my_sha1, strayed, staged,
                          tpmVars>>

(* It returns without a grub_close when the file is empty; install goes on *)
(* to its next file.                                                       *)
Abandon == /\ opened /\ ~halted
           /\ opened' = FALSE
           /\ UNCHANGED <<flagVars, errnum, posVars, hashVars, staged, tpmVars>>

(* A caller stops the machine. *)
Halt == /\ ~opened /\ ~halted
        /\ halted' = TRUE
        /\ UNCHANGED <<flagVars, errnum, opened, posVars, hashVars, staged,
                       tpm, pcr14, accepted, wild>>

(* print_error does on an error that may leave the system unverifiable. *)
print_error == perform_sha1 /\ errnum = "hard" /\ Halt

(* grub_halt never returns. *)
grub_halt == halted /\ UNCHANGED fileVars

(* A measured file opened without a header test is read before it is       *)
(* closed: its size would not be known otherwise.                          *)
ReadBeforeClose ==
  perform_sha1 /\ no_decompression /\ errnum = "none"
    => sha1_has_to_measure = filemax

Init ==
  /\ perform_sha1 = FALSE /\ measure_kernel = FALSE /\ no_decompression = FALSE
  /\ errnum = "none" /\ opened = FALSE
  /\ file = NoFile /\ block_file = FALSE /\ compressed_file = FALSE
  /\ filepos = 0 /\ filemax = 0 /\ rawpos = 0
  /\ sha1_byte_count = 0 /\ sha1_has_to_measure = 0 /\ my_sha1 = sha1_init
  /\ trouble = FALSE /\ strayed = "no"
  /\ staged = NoFile
  /\ tpm \in BOOLEAN /\ pcr14 = <<>> /\ accepted = {}
  /\ halted = FALSE /\ wild = FALSE

Next ==
  \/ MeasureOn \/ MeasureOff \/ KernelOn \/ Decompression
  \/ \E e \in Errors : SetErrnum(e)
  \/ Presume \/ Abandon \/ Halt \/ grub_halt
  \/ \E f \in Files : grub_open(f)
  \/ \E len \in ReadLens \cup {-1} : grub_read(len)
  \/ \E offset \in ReadLens \cup {0} : grub_seek(offset)
  \/ ReadBeforeClose /\ grub_close

Spec == Init /\ [][Next]_fileVars

-----------------------------------------------------------------------------
(* Properties *)

Digest == [file: Files \cup {NoFile}, whole: BOOLEAN, failed: BOOLEAN,
           astray: BOOLEAN]

(* Every variable of the file layer (disk_io.c) keeps its type; sizes and  *)
(* counts stay natural numbers in spite of the subtractions, and only a    *)
(* refused copy of a negative length takes filepos below 0.                *)
TypeOK ==
  /\ perform_sha1 \in BOOLEAN /\ measure_kernel \in BOOLEAN
  /\ no_decompression \in BOOLEAN
  /\ errnum \in Errors /\ opened \in BOOLEAN
  /\ file \in Files \cup {NoFile}
  /\ block_file \in BOOLEAN /\ compressed_file \in BOOLEAN
  /\ filepos \in Nat \cup {-1} /\ filemax \in Nat /\ rawpos \in Nat
  /\ sha1_byte_count \in Nat /\ sha1_has_to_measure \in Nat
  /\ my_sha1 \in HashOf /\ trouble \in BOOLEAN /\ strayed \in Strayed
  /\ staged \in Files \cup {NoFile}
  /\ tpm \in BOOLEAN /\ pcr14 \in Seq(Digest)
  /\ accepted \subseteq Files \cup {NoFile} /\ halted \in BOOLEAN
  /\ wild \in BOOLEAN

(* grub_close compares two counts, not contents; still, whatever it        *)
(* extended into PCR 14 is the digest of the whole file, byte for byte in  *)
(* order, unless a read failed or the caller left out a part of the file:  *)
(* passed over it with grub_seek, or went back and did not go on to the    *)
(* end.                                                                    *)
ExtendSound ==
  \A i \in 1 .. Len(pcr14) : pcr14[i].whole \/ pcr14[i].failed
                                            \/ pcr14[i].astray

(* What a kernel's loader is given is what was measured: while a kernel is *)
(* open and was read well, the staging memory that grub_read serves holds  *)
(* that very file, and the hash holds it or is short of it.                *)
StagedIsMeasured ==
  opened /\ measure_kernel /\ perform_sha1 /\ ~block_file /\ ~trouble
    => /\ staged = file
       /\ my_sha1.clean
       /\ sha1_byte_count = my_sha1.len
       /\ sha1_has_to_measure = file.raw

(* What is known of the open file: its size as the caller sees it, and the *)
(* size that has to be measured, which is the raw one once it is known.    *)
FileKnown ==
  opened /\ ~trouble =>
    /\ file \in Files
    /\ compressed_file => file.kind = "gzip" /\ ~no_decompression
    /\ filemax = (IF compressed_file THEN file.plain ELSE file.raw)
    /\ ~measure_kernel => filepos \in 0 .. filemax
    /\ sha1_has_to_measure \in {0, file.raw}
    /\ ~no_decompression => sha1_has_to_measure = file.raw

(* Where the hash of a file has got to: it is a prefix of the file.        *)
HashIsPrefix == my_sha1.clean /\ sha1_byte_count <= file.raw

(* A file that is read as it is: in order, after going back, to its end.   *)
PathHashed ==
  CASE strayed = "no"   -> HashIsPrefix /\ sha1_byte_count \in {0, filepos}
    [] strayed = "back" -> filepos < sha1_byte_count
    [] strayed = "done" -> \/ HashIsPrefix /\ sha1_byte_count = file.raw
                           \/ file.raw < sha1_byte_count
    [] OTHER            -> TRUE

(* What the decompressor's first buffer holds, and what it hashes a second *)
(* time at least when it starts again.                                     *)
Again == IF InBufSize < file.raw - file.off THEN InBufSize
                                            ELSE file.raw - file.off

(* A file that is decompressed: nothing of it is hashed yet, or all up to  *)
(* the raw position, or some of it more than once.                         *)
GzipHashed ==
  CASE strayed = "no" ->
         /\ HashIsPrefix
         /\ \/ sha1_byte_count = 0 /\ rawpos = file.off /\ filepos = 0
            \/ /\ sha1_byte_count = rawpos /\ file.off + Again <= rawpos
               /\ filepos = filemax => file.used <= rawpos
    [] strayed = "back" ->
         /\ file.off + Again <= rawpos /\ filepos < filemax
         /\ \/ HashIsPrefix /\ sha1_byte_count = rawpos
            \/ rawpos + Again <= sha1_byte_count
    [] strayed = "done" ->
         \/ HashIsPrefix /\ sha1_byte_count = 0 /\ filemax = 0
         \/ HashIsPrefix /\ sha1_byte_count = rawpos /\ file.used <= rawpos
         \/ file.raw < sha1_byte_count
    [] OTHER -> TRUE

(* grub_read counts what it hashes, however the file is read (plain, gzip, *)
(* blocklist, staged kernel, after going back in it): while no read failed *)
(* the hash is a prefix of the file that ends where reading got to, or the *)
(* count exceeds what a caller who reads to the end can still make agree   *)
(* with the size.                                                          *)
HashTracksFile ==
  opened /\ perform_sha1 /\ ~trouble =>
    /\ my_sha1.len = sha1_byte_count
    /\ measure_kernel \/ block_file => HashIsPrefix
    /\ block_file /\ compressed_file => 0 < sha1_byte_count
    /\ ~measure_kernel /\ ~block_file =>
         IF compressed_file THEN GzipHashed ELSE PathHashed
=============================================================================
