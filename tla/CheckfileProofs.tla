--------------------------- MODULE CheckfileProofs ---------------------------
(***************************************************************************)
(* Proofs about Checkfile: checkfile and sha1 use the file layer the way   *)
(* MeasuredFile assumes, although calculate_sha1 looks neither at the      *)
(* result of grub_open nor at that of grub_read; checkfile measures        *)
(* nothing, puts the flags back, and accounts for every entry of a list.   *)
(***************************************************************************)
EXTENDS Checkfile, MeasuredFileProofs

EntryRecord == [form: {"good", "format", "long", "unterminated"},
                name: Files \cup {NoFile}, ref: Files \cup {NoFile}]
Hashing == {"hash", "zip", "zipflag", "zipopen", "size", "rounds", "hashclose", "flag", "compare"}
Checking == cmd = "checkfile" /\ pc # "idle"

(***************************************************************************)
(* What the steps of a command rely on: there is a list, or a file, to     *)
(* open; a name in the list that is well formed is that of a file; a file  *)
(* that is decompressed was looked at for a header; a round that does not  *)
(* fail follows no failed one, so that the size is known before the close. *)
(***************************************************************************)
KnowsBefore == before \in [perform: BOOLEAN, nodec: BOOLEAN, checked: Nat,
                           list: Seq(EntryRecord)]
HasList == pc \in {"disable", "open", "list"} => target \in DOMAIN Lists
HasFile == pc \in Hashing => entry.name \in Files
NamesFiles == \A i \in 1 .. Len(entries) : entries[i].form = "good" => entries[i].name \in Files
ZipWasSeen == pc = "zip" => ~no_decompression
NoTroubleYet == pc \in {"size", "rounds"} /\ opened /\ errnum = "none" => ~trouble
SizeKnown == pc = "hashclose" => ReadBeforeClose
OfCheckfile == pc \in {"disable", "open", "list", "close", "entry", "verdict"} => cmd = "checkfile"

Protocol == /\ KnowsBefore /\ HasList /\ HasFile /\ NamesFiles /\ ZipWasSeen
            /\ NoTroubleYet /\ SizeKnown /\ OfCheckfile

(***************************************************************************)
(* The flags during a checkfile command: measuring is off from its first   *)
(* step to its last but one, and was saved; decompression is what it was,  *)
(* or what it was is saved.                                                *)
(***************************************************************************)
MeasuringOff == Checking /\ pc \notin {"disable", "done"} => ~perform_sha1
PerformSaved ==
  Checking /\ before.perform =>
    IF pc \in {"disable", "done"} THEN perform_sha1 ELSE old_perform_sha1_value
DecompressionSaved ==
  /\ Checking /\ pc \notin {"zipopen", "size", "rounds", "hashclose", "flag", "stop"}
       => no_decompression = before.nodec
  /\ Checking /\ pc \in {"zip", "zipflag", "zipopen", "size", "rounds", "hashclose", "flag"}
       => old_decompression_value = before.nodec

Flags == MeasuringOff /\ PerformSaved /\ DecompressionSaved

(***************************************************************************)
(* The first k entries of list L are accounted for by what was extended    *)
(* after the first base digests, and by the mismatches.                    *)
(***************************************************************************)
Recorded(L, k, digests, base, errors) ==
  LET new == Len(digests) - base
  IN  /\ new \in Nat /\ new + errors = k
      /\ \E at \in [1 .. new -> 1 .. k] :
           /\ \A i \in 1 .. new : digests[base + i] = L[at[i]].ref
           /\ \A i, j \in 1 .. new : i < j => at[i] < at[j]

Passed == Len(before.list) - Len(entries)
Left == /\ Passed \in Nat
        /\ \A i \in 1 .. Len(entries) : entries[i] = before.list[Passed + i]
NothingYet == Checking /\ pc \in {"disable", "open", "list", "close"} =>
                /\ Len(pcr13) = before.checked
                /\ pc = "close" => before.list = entries /\ general_error = 0
InTheList ==
  /\ Checking /\ pc \in Hashing \cup {"entry", "verdict"} => Left
  /\ pc = "verdict" => entries = <<>>
  /\ tpm /\ Checking /\ pc \in {"entry", "verdict"}
       => Recorded(before.list, Passed, pcr13, before.checked, general_error)
  /\ Checking /\ pc \in Hashing => Passed > 0 /\ entry.ref = before.list[Passed].ref
  /\ tpm /\ Checking /\ pc \in Hashing
       => Recorded(before.list, Passed - 1, pcr13, before.checked, general_error)

CheckInv == IInv /\ CheckTypeOK /\ Protocol /\ Flags /\ NothingYet /\ InTheList

-----------------------------------------------------------------------------
(* Every step of a command is a step of the file layer, or leaves it alone.*)
LEMMA FileStep ==
  ASSUME CheckTypeOK, Protocol, MeasuringOff, [CheckNext]_vars
  PROVE  [Next]_fileVars
<1>l. /\ TcgBuffer \in Nat /\ \A n \in 0 .. 2 * TcgBuffer : n \in ReadLens
      /\ DOMAIN Lists \subseteq Files
  BY ListsAssumption
<1>1. CASE UNCHANGED vars \/ (grub_halt /\ UNCHANGED checkVars)
  BY <1>1 DEF vars, Next
<1>2. CASE OtherCommand \/ Report
  BY <1>2 DEF OtherCommand, Report, print_error, Errors, Next
<1>3. CASE \/ Return \/ \E f \in DOMAIN Lists : checkfile_func(f)
           \/ \E f \in Images : sha1_func(f)
  BY <1>3 DEF Return, checkfile_func, sha1_func, Begin
<1>4. CASE DisableMeasuring \/ RestoreMeasuring \/ Verdict \/ StopBooting
  BY <1>4 DEF DisableMeasuring, RestoreMeasuring, Verdict, StopBooting, Next
<1>5. CASE Extract \/ Compare \/ AllChecked
  BY <1>5 DEF Extract, Compare, AllChecked
<1>6. CASE OpenList
  BY <1>6, <1>l DEF OpenList, Protocol, HasList, At, Next
<1>7. CASE TooLarge \/ CloseList
  <2>1. ~perform_sha1 /\ grub_close
    BY <1>7 DEF TooLarge, CloseList, At, Protocol, OfCheckfile, MeasuringOff, Checking
  <2>2. QED
    BY <2>1 DEF ReadBeforeClose, Next
<1>8. CASE ReadList
  <2>1. filemax \in 0 .. 2 * TcgBuffer /\ grub_read(filemax)
    BY <1>8, <1>l DEF ReadList, CheckTypeOK, TypeOK
  <2>2. QED
    BY <2>1, <1>l DEF Next
<1>9. CASE OpenFile \/ ReopenFile
  BY <1>9 DEF OpenFile, ReopenFile, At, Protocol, HasFile, Hashing, Next
<1>10. CASE CloseCompressed
  BY <1>10 DEF CloseCompressed, At, Protocol, ZipWasSeen, ReadBeforeClose, Next
<1>11. CASE CloseHashed
  BY <1>11 DEF CloseHashed, At, Protocol, SizeKnown, Next
<1>12. CASE NoDecompression \/ RestoreDecompression \/ NoSize \/ Size
  BY <1>12 DEF NoDecompression, RestoreDecompression, NoSize, Size, Next
<1>13. CASE HashRound \/ LastRound
  <2>1. PICK n \in 0 .. 2 * TcgBuffer : grub_read(n)
    BY <1>13, <1>l DEF HashRound, LastRound, Round, CheckTypeOK
  <2>2. QED
    BY <2>1, <1>l DEF Next
<1>14. QED
  BY <1>1, <1>2, <1>3, <1>4, <1>5, <1>6, <1>7, <1>8, <1>9, <1>10, <1>11, <1>12, <1>13
     DEF CheckNext, load_checkfile, calculate_sha1

-----------------------------------------------------------------------------
(* Types *)

(* What the buffer for the list can hold: the entries of a list, or one    *)
(* that is malformed.                                                      *)
LEMMA JunkType ==
  ASSUME NEW L, L \in Junk \/ L = <<>> \/ \E f \in DOMAIN Lists : L = Lists[f]
  PROVE  /\ L \in Seq(EntryRecord)
         /\ \A i \in 1 .. Len(L) : L[i].form = "good" => L[i].name \in Files
<1> DEFINE J == [NoEntry EXCEPT !.form = "format"]
<1>1. J \in EntryRecord /\ J.form = "format"
  BY DEF NoEntry, EntryRecord
<1>2. CASE L = <<>>
  BY <1>2
<1>3. CASE L = <<J>>
  <2>1. L \in Seq(EntryRecord) /\ Len(L) = 1 /\ L[1] = J
    BY <1>1, <1>3
  <2> HIDE DEF J
  <2>2. \A i \in 1 .. Len(L) : L[i] = J
    BY <2>1
  <2>3. QED
    BY <1>1, <2>1, <2>2
<1>4. CASE \E f \in DOMAIN Lists : L = Lists[f]
  <2>1. L \in Seq(Entry) /\ Images \subseteq Files
    BY <1>4, ListsAssumption
  <2>2. Entry \subseteq EntryRecord
    BY <2>1 DEF Entry, EntryRecord
  <2>3. \A i \in 1 .. Len(L) : L[i] \in Entry
    BY <2>1
  <2>4. \A e \in Entry : e.name \in Files
    BY <2>1 DEF Entry
  <2>5. QED
    BY <2>1, <2>2, <2>3, <2>4
<1>5. QED
  BY <1>2, <1>3, <1>4 DEF Junk

LEMMA CheckTypeInit == ASSUME CheckInit, TypeOK PROVE CheckTypeOK
<1>1. sha1_init \in HashOf
  BY StartHash
<1>2. <<>> \in Seq(EntryRecord) /\ <<>> \in Seq(Files)
  OBVIOUS
<1>3. QED
  BY <1>1, <1>2 DEF CheckInit, CheckTypeOK, Steps, EntryRecord

LEMMA CheckTypeStep ==
  ASSUME CheckTypeOK, Protocol, TypeOK', [CheckNext]_vars
  PROVE  CheckTypeOK'
<1> USE DEF CheckTypeOK, EntryRecord, Goto
<1>i. sha1_init \in HashOf
  BY StartHash
<1>n. <<>> \in Seq(EntryRecord)
  OBVIOUS
<1>1. CASE UNCHANGED checkVars
  BY <1>1 DEF checkVars, callVars, listVars, hashed
<1>2. CASE UNCHANGED <<cmd, target, listVars, bytes_to_copy, context>> /\ pc' \in Steps
  BY <1>2 DEF listVars
<1>3. CASE \/ \E f \in DOMAIN Lists : checkfile_func(f)
           \/ \E f \in Images : sha1_func(f)
  <2>1. target' \in Files /\ cmd' \in {"checkfile", "sha1"} /\ pc' \in Steps
    BY <1>3, ListsAssumption DEF checkfile_func, sha1_func, Begin, Steps
  <2>2. UNCHANGED <<listVars, bytes_to_copy, context>>
    BY <1>3 DEF checkfile_func, sha1_func, Begin, hashed
  <2>3. QED
    BY <2>1, <2>2 DEF listVars
<1>4. CASE Return
  BY <1>4, <1>i, <1>n DEF Return, Fresh, Steps
<1>5. CASE ReadList
  <2>1. entries' \in Junk \/ entries' = <<>> \/ \E f \in DOMAIN Lists : entries' = Lists[f]
    BY <1>5 DEF ReadList, At, Protocol, HasList
  <2>2. entries' \in Seq(EntryRecord)
    BY <2>1, JunkType
  <2>3. QED
    BY <1>5, <2>2 DEF ReadList, hashed, Steps
<1>6. CASE Extract
  <2>1. entries' \in Seq(EntryRecord) /\ pc' \in Steps
    BY <1>6 DEF Extract, Steps
  <2>2. QED
    BY <1>6, <2>1 DEF Extract, callVars, hashed
<1>7. CASE Compare
  <2>1. entry.name \in Files
    BY <1>7 DEF Compare, At, Protocol, HasFile, Hashing
  <2>2. pcr13' \in Seq(Files) /\ general_error' \in Nat /\ pc' \in Steps
    BY <1>7, <2>1 DEF Compare, Steps
  <2>3. QED
    BY <1>7, <2>2 DEF Compare, callVars, hashed
<1>8. CASE Size
  BY <1>8, <1>i DEF Size, callVars, listVars, Steps, TypeOK
<1>9. CASE HashRound \/ LastRound
  <2>1. PICK n \in Nat : /\ n <= bytes_to_copy /\ Round(n) /\ pc' \in Steps
    BY <1>9, ListsAssumption DEF HashRound, LastRound, Steps
  <2>2. sha1_update(context, Pos, n) \in HashOf /\ Spoiled(context, n) \in HashOf
    <3>1. Pos \in Nat
      BY DEF TypeOK, Pos
    <3>2. QED
      BY <3>1, UpdateHash, StartHash
  <2>3. context' \in HashOf /\ bytes_to_copy' \in Nat
    BY <2>1, <2>2 DEF Round
  <2>4. QED
    BY <2>1, <2>3 DEF Round, callVars, listVars
<1>10. CASE \/ DisableMeasuring \/ OpenList \/ TooLarge \/ CloseList \/ AllChecked \/ Verdict
            \/ RestoreMeasuring
  BY <1>10, <1>2 DEF DisableMeasuring, OpenList, TooLarge, CloseList, AllChecked, Verdict,
                     RestoreMeasuring, callVars, hashed, Steps
<1>11. CASE \/ OpenFile \/ CloseCompressed \/ NoDecompression \/ ReopenFile \/ NoSize
            \/ CloseHashed \/ RestoreDecompression
  BY <1>11, <1>2 DEF OpenFile, CloseCompressed, NoDecompression, ReopenFile, NoSize, Error,
                     CloseHashed, RestoreDecompression, callVars, hashed, Steps
<1>12. CASE OtherCommand \/ Report \/ StopBooting \/ UNCHANGED vars
  BY <1>1, <1>12 DEF OtherCommand, Report, Idle, StopBooting, vars
<1>13. QED
  BY <1>1, <1>3, <1>4, <1>5, <1>6, <1>7, <1>8, <1>9, <1>10, <1>11, <1>12
     DEF CheckNext, load_checkfile, calculate_sha1

-----------------------------------------------------------------------------
(* The protocol is kept. *)

LEMMA ProtocolInit == CheckInit => Protocol
<1>1. ASSUME CheckInit PROVE Protocol
  <2>1. KnowsBefore
    <3>1. <<>> \in Seq(EntryRecord)
      OBVIOUS
    <3>2. QED
      BY <1>1, <3>1 DEF CheckInit, KnowsBefore, Nothing
  <2>2. QED
    BY <1>1, <2>1 DEF CheckInit, Protocol, HasList, HasFile, NamesFiles, ZipWasSeen, NoTroubleYet,
       SizeKnown, OfCheckfile, Hashing
<1>2. QED
  BY <1>1

(* A step that goes on with the same list and the same file. *)
LEMMA SameCall ==
  ASSUME Protocol, UNCHANGED <<cmd, target, before, entries, entry>>,
         pc' \in {"disable", "open", "list"} => pc \in {"disable", "open", "list"},
         pc' \in Hashing => pc \in Hashing,
         pc' \in {"disable", "open", "list", "close", "entry", "verdict"} => cmd = "checkfile",
         ZipWasSeen', NoTroubleYet', SizeKnown'
  PROVE  Protocol'
<1>1. KnowsBefore' /\ NamesFiles'
  BY DEF Protocol, KnowsBefore, NamesFiles
<1>2. HasList' /\ HasFile' /\ OfCheckfile'
  BY DEF Protocol, HasList, HasFile, OfCheckfile
<1>3. QED
  BY <1>1, <1>2 DEF Protocol

(* Between the commands, and at their beginning and end. *)
LEMMA CallProtocol ==
  ASSUME CheckTypeOK, Protocol,
         \/ OtherCommand \/ Report \/ Return
         \/ \E f \in DOMAIN Lists : checkfile_func(f)
         \/ \E f \in Images : sha1_func(f)
  PROVE  Protocol'
<1>n. <<>> \in Seq(EntryRecord)
  OBVIOUS
<1>1. CASE OtherCommand \/ Report
  <2>1. pc = "idle" /\ UNCHANGED checkVars
    BY <1>1 DEF OtherCommand, Report, Idle, At
  <2>2. QED
    BY <2>1, SameCall DEF checkVars, callVars, listVars, ZipWasSeen, NoTroubleYet, SizeKnown, Hashing
<1>2. CASE Return
  <2>1. pc' = "idle" /\ before' = Nothing /\ entries' = <<>>
    BY <1>2 DEF Return, Fresh, Goto
  <2>2. KnowsBefore'
    BY <2>1, <1>n DEF KnowsBefore, Nothing
  <2>3. QED
    BY <2>1, <2>2 DEF Protocol, HasList, HasFile, NamesFiles, ZipWasSeen, NoTroubleYet, SizeKnown,
                      OfCheckfile, Hashing
<1>3. ASSUME NEW f, NEW c, NEW step, Begin(c, f, step),
             \/ c = "checkfile" /\ step = "disable" /\ f \in DOMAIN Lists
             \/ c = "sha1" /\ step = "hash" /\ entry'.name \in Files
      PROVE  Protocol'
  <2>1. /\ cmd' = c /\ target' = f /\ pc' = step /\ UNCHANGED entries
        /\ before' = [perform |-> perform_sha1, nodec |-> no_decompression,
                      checked |-> Len(pcr13), list |-> <<>>]
    BY <1>3 DEF Begin, Goto, listVars
  <2>2. KnowsBefore'
    <3>1. perform_sha1 \in BOOLEAN /\ no_decompression \in BOOLEAN /\ Len(pcr13) \in Nat
      BY DEF CheckTypeOK, TypeOK
    <3>2. QED
      BY <2>1, <3>1, <1>n DEF KnowsBefore
  <2>3. HasList' /\ HasFile' /\ OfCheckfile' /\ ZipWasSeen' /\ NoTroubleYet' /\ SizeKnown'
    BY <1>3, <2>1 DEF HasList, HasFile, OfCheckfile, ZipWasSeen, NoTroubleYet, SizeKnown, Hashing
  <2>4. NamesFiles'
    BY <2>1 DEF Protocol, NamesFiles
  <2>5. QED
    BY <2>2, <2>3, <2>4 DEF Protocol
<1>4. CASE \E f \in DOMAIN Lists : checkfile_func(f)
  BY <1>3, <1>4 DEF checkfile_func
<1>5. CASE \E f \in Images : sha1_func(f)
  <2>1. PICK f \in Images : sha1_func(f)
    BY <1>5
  <2>2. entry'.name \in Files
    BY <2>1, ListsAssumption DEF sha1_func, NoEntry
  <2>3. QED
    BY <1>3, <2>1, <2>2 DEF sha1_func
<1>6. QED
  BY <1>1, <1>2, <1>4, <1>5

LEMMA ListProtocol ==
  ASSUME CheckTypeOK, Protocol, load_checkfile
  PROVE  Protocol'
<1>1. CASE \/ DisableMeasuring \/ OpenList \/ TooLarge \/ CloseList \/ Compare \/ AllChecked
           \/ Verdict \/ RestoreMeasuring \/ StopBooting
  <2>1. /\ UNCHANGED <<cmd, target, before, entries, entry>>
        /\ \/ pc = "disable" /\ pc' = "open"
           \/ pc = "open" /\ pc' = "list"
           \/ pc = "close" /\ pc' = "entry"
           \/ pc = "compare" /\ cmd = "checkfile" /\ pc' = "entry"
           \/ pc = "entry" /\ pc' = "verdict"
           \/ pc = "verdict" /\ pc' = "verdict"
           \/ pc' \in {"stop", "restore", "done"}
    BY <1>1 DEF DisableMeasuring, OpenList, TooLarge, CloseList, Compare, AllChecked, Verdict,
                RestoreMeasuring, StopBooting, At, Goto, checkVars, callVars, listVars
  <2>2. ZipWasSeen' /\ NoTroubleYet' /\ SizeKnown'
    BY <2>1 DEF ZipWasSeen, NoTroubleYet, SizeKnown
  <2>3. QED
    BY <2>1, <2>2, SameCall DEF Protocol, OfCheckfile, Hashing
<1>2. CASE ReadList
  <2>1. /\ pc = "list" /\ pc' = "close" /\ UNCHANGED <<cmd, target, entry>>
        /\ before' = [before EXCEPT !.list = entries']
        /\ entries' \in Junk \/ entries' = <<>> \/ entries' = Lists[target]
    BY <1>2 DEF ReadList, At, Goto
  <2>2. target \in DOMAIN Lists /\ cmd = "checkfile"
    BY <2>1 DEF Protocol, HasList, OfCheckfile
  <2>3. /\ entries' \in Seq(EntryRecord)
        /\ \A i \in 1 .. Len(entries') : entries'[i].form = "good" => entries'[i].name \in Files
    BY <2>1, <2>2, JunkType
  <2>4. KnowsBefore' /\ NamesFiles'
    BY <2>1, <2>3 DEF Protocol, KnowsBefore, NamesFiles
  <2>5. HasList' /\ HasFile' /\ OfCheckfile' /\ ZipWasSeen' /\ NoTroubleYet' /\ SizeKnown'
    BY <2>1, <2>2 DEF HasList, HasFile, OfCheckfile, ZipWasSeen, NoTroubleYet, SizeKnown, Hashing
  <2>6. QED
    BY <2>4, <2>5 DEF Protocol
<1>3. CASE Extract
  <2>1. /\ pc = "entry" /\ pc' \in {"hash", "stop"} /\ entries # <<>> /\ entries' = Tail(entries)
        /\ UNCHANGED <<cmd, target, before>>
    BY <1>3 DEF Extract, At, Goto, callVars
  <2>2. entries \in Seq(EntryRecord)
    BY DEF CheckTypeOK, EntryRecord
  <2>3. NamesFiles'
    <3>1. \A i \in 1 .. Len(entries') : i + 1 \in 1 .. Len(entries) /\ entries'[i] = entries[i + 1]
      BY <2>1, <2>2
    <3>2. QED
      BY <3>1 DEF Protocol, NamesFiles
  <2>4. HasFile'
    <3>1. CASE pc' = "stop"
      BY <3>1 DEF HasFile, Hashing
    <3>2. CASE pc' = "hash" /\ Head(entries).form = "good" /\ entry' = Head(entries)
      <4>1. Head(entries) = entries[1] /\ 1 \in 1 .. Len(entries)
        BY <2>1, <2>2
      <4>2. QED
        BY <3>2, <4>1 DEF Protocol, NamesFiles, HasFile
    <3>3. CASE \E f \in Images : entry' = [Head(entries) EXCEPT !.name = f]
      <4>1. Head(entries) \in EntryRecord
        BY <2>1, <2>2
      <4>2. entry'.name \in Files
        BY <3>3, <4>1, ListsAssumption DEF EntryRecord
      <4>3. QED
        BY <4>2 DEF HasFile
    <3>4. QED
      BY <1>3, <3>1, <3>2, <3>3 DEF Extract, Goto
  <2>5. KnowsBefore' /\ HasList' /\ OfCheckfile' /\ ZipWasSeen' /\ NoTroubleYet' /\ SizeKnown'
    BY <2>1 DEF Protocol, KnowsBefore, HasList, OfCheckfile, ZipWasSeen, NoTroubleYet, SizeKnown
  <2>6. QED
    BY <2>3, <2>4, <2>5 DEF Protocol
<1>4. QED
  BY <1>1, <1>2, <1>3 DEF load_checkfile

(* calculate_sha1: a grub_open that fails leaves an error that stays until *)
(* the command is over.                                                    *)
LEMMA HashProtocol ==
  ASSUME IInv, CheckTypeOK, Protocol, calculate_sha1
  PROVE  Protocol'
<1>1. /\ pc \in Hashing /\ UNCHANGED <<cmd, target, before, entries, entry>>
      /\ pc' \in Hashing \cup {"stop", "done"}
  BY DEF calculate_sha1, OpenFile, CloseCompressed, NoDecompression, ReopenFile, NoSize, Size,
         HashRound, LastRound, Round, CloseHashed, RestoreDecompression, Error, At, Goto, callVars,
         listVars, Hashing
<1>2. SUFFICES ASSUME pc' # "stop" PROVE ZipWasSeen' /\ NoTroubleYet' /\ SizeKnown'
  BY <1>1, SameCall DEF Hashing, ZipWasSeen, NoTroubleYet, SizeKnown
<1>3. CASE OpenFile \/ ReopenFile
  <2>1. /\ grub_open(entry.name) /\ pc' \in {"zip", "size"}
        /\ pc' = "zip" => compressed_file'
    BY <1>3 DEF OpenFile, ReopenFile, Goto
  <2>2. /\ opened' /\ errnum' = "none" => ~trouble'
        /\ compressed_file' => ~no_decompression
        /\ UNCHANGED no_decompression
    BY <2>1, OpenEffect DEF flagVars
  <2>3. QED
    BY <2>1, <2>2 DEF ZipWasSeen, NoTroubleYet, SizeKnown
<1>4. CASE Size
  <2>1. pc = "size" /\ pc' = "rounds" /\ UNCHANGED errnum
        /\ IF opened THEN UNCHANGED <<opened, trouble>> ELSE errnum # "none"
    BY <1>4 DEF Size, At, Goto, Presume, fileVars, hashVars
  <2>2. QED
    BY <2>1 DEF Protocol, ZipWasSeen, NoTroubleYet, SizeKnown
<1>5. CASE HashRound \/ LastRound
  <2>1. PICK n : grub_read(n)
    BY <1>5 DEF HashRound, LastRound, Round
  <2>2. pc = "rounds" /\ pc' \in {"rounds", "hashclose"}
    BY <1>5 DEF HashRound, LastRound, Round, At, Goto
  <2>3. /\ opened /\ Publish /\ UNCHANGED <<flagVars, opened, file, filemax>>
        /\ errnum' = "none" => errnum = "none" /\ trouble' = trouble
    BY <2>1, ReadEffect
  <2>4. errnum' = "none" => ~trouble
    BY <2>2, <2>3 DEF Protocol, NoTroubleYet
  <2>5. ReadBeforeClose'
    <3>1. SUFFICES ASSUME no_decompression, errnum' = "none"
                   PROVE  sha1_has_to_measure' = filemax'
      BY <2>3 DEF ReadBeforeClose, flagVars
    <3>2. filemax = file.raw /\ sha1_has_to_measure \in {0, file.raw}
      BY <2>3, <2>4, <3>1 DEF IInv, FileKnown
    <3>3. QED
      BY <2>3, <3>2 DEF Publish
  <2>6. QED
    BY <2>2, <2>3, <2>4, <2>5 DEF ZipWasSeen, NoTroubleYet, SizeKnown
<1>6. CASE \/ CloseCompressed \/ NoDecompression \/ NoSize \/ CloseHashed \/ RestoreDecompression
  <2>1. pc' \in {"zipflag", "zipopen", "flag", "compare", "done", "stop"}
    BY <1>6 DEF CloseCompressed, NoDecompression, NoSize, CloseHashed, RestoreDecompression, Error, Goto
  <2>2. QED
    BY <2>1 DEF ZipWasSeen, NoTroubleYet, SizeKnown
<1>7. QED
  BY <1>3, <1>4, <1>5, <1>6 DEF calculate_sha1

LEMMA ProtocolStep ==
  ASSUME IInv, CheckTypeOK, Protocol, [CheckNext]_vars
  PROVE  Protocol'
<1>1. CASE UNCHANGED vars \/ (grub_halt /\ UNCHANGED checkVars)
  <2>1. /\ UNCHANGED <<pc, cmd, target, before, entries, entry>>
        /\ UNCHANGED <<no_decompression, perform_sha1, errnum, opened, trouble>>
        /\ UNCHANGED <<sha1_has_to_measure, filemax>>
    BY <1>1 DEF vars, checkVars, callVars, listVars, grub_halt, fileVars, flagVars, posVars, hashVars
  <2>2. ZipWasSeen' /\ NoTroubleYet' /\ SizeKnown'
    BY <2>1 DEF Protocol, ZipWasSeen, NoTroubleYet, SizeKnown, ReadBeforeClose
  <2>3. QED
    BY <2>1, <2>2, SameCall DEF Protocol, OfCheckfile
<1>2. QED
  BY <1>1, CallProtocol, ListProtocol, HashProtocol DEF CheckNext

-----------------------------------------------------------------------------
(* The flags are saved and put back. *)

LEMMA FlagsStep ==
  ASSUME CheckTypeOK, Protocol, Flags, [CheckNext]_vars
  PROVE  Flags'
<1> USE DEF Flags, Checking, MeasuringOff, PerformSaved, DecompressionSaved, At, Goto
<1>1. CASE UNCHANGED vars \/ (grub_halt /\ UNCHANGED checkVars)
  <2>1. UNCHANGED <<pc, cmd, before, old_perform_sha1_value, old_decompression_value>>
        /\ UNCHANGED <<perform_sha1, no_decompression>>
    BY <1>1 DEF vars, checkVars, callVars, hashed, grub_halt, fileVars, flagVars
  <2>2. QED
    BY <2>1
<1>2. CASE OtherCommand \/ Report \/ Return
  <2>1. pc' = "idle"
    BY <1>2 DEF OtherCommand, Report, Return, Idle, checkVars
  <2>2. QED
    BY <2>1
<1>3. CASE \E f \in DOMAIN Lists : checkfile_func(f)
  <2>1. /\ pc' = "disable" /\ UNCHANGED <<perform_sha1, no_decompression>>
        /\ before'.perform = perform_sha1 /\ before'.nodec = no_decompression
    BY <1>3 DEF checkfile_func, Begin, fileVars, flagVars
  <2>2. QED
    BY <2>1
<1>4. CASE \E f \in Images : sha1_func(f)
  BY <1>4 DEF sha1_func, Begin
<1>5. CASE DisableMeasuring
  <2>1. /\ pc = "disable" /\ pc' = "open" /\ UNCHANGED <<cmd, before, no_decompression>>
        /\ ~perform_sha1' /\ (perform_sha1 => old_perform_sha1_value')
    BY <1>5 DEF DisableMeasuring, MeasureOff, fileVars, flagVars
  <2>2. QED
    BY <2>1
<1>6. CASE OpenList \/ TooLarge \/ CloseList \/ ReadList
  <2>1. UNCHANGED <<perform_sha1, no_decompression>>
    BY <1>6, OpenEffect, ReadEffect, CloseEffect
       DEF OpenList, TooLarge, CloseList, ReadList, flagVars
  <2>2. /\ UNCHANGED <<cmd, old_perform_sha1_value>>
        /\ before'.perform = before.perform /\ before'.nodec = before.nodec
    BY <1>6 DEF OpenList, TooLarge, CloseList, ReadList, callVars, Protocol, KnowsBefore
  <2>3. pc \in {"open", "list", "close"} /\ pc' \in {"list", "close", "entry", "stop"}
    BY <1>6 DEF OpenList, TooLarge, CloseList, ReadList
  <2>4. QED
    BY <2>1, <2>2, <2>3
<1>7. CASE Extract \/ Compare \/ AllChecked \/ Verdict \/ StopBooting
  <2>1. /\ UNCHANGED <<cmd, old_perform_sha1_value, before, perform_sha1, no_decompression>>
        /\ \/ /\ pc \in {"entry", "compare", "verdict"}
              /\ pc' \in {"entry", "hash", "verdict", "restore", "stop"}
           \/ pc = "stop" /\ pc' = "stop"
    BY <1>7 DEF Extract, Compare, AllChecked, Verdict, StopBooting, Halt, callVars, checkVars,
                fileVars, flagVars
  <2>2. QED
    BY <2>1
<1>8. CASE RestoreMeasuring
  <2>1. /\ pc = "restore" /\ pc' = "done" /\ UNCHANGED <<cmd, before, no_decompression>>
        /\ old_perform_sha1_value => perform_sha1'
    BY <1>8 DEF RestoreMeasuring, MeasureOn, callVars, fileVars, flagVars
  <2>2. QED
    BY <2>1
<1>9. CASE calculate_sha1
  <2>1. UNCHANGED <<cmd, old_perform_sha1_value, before, perform_sha1>>
    <3>1. CASE OpenFile \/ ReopenFile
      BY <3>1, OpenEffect DEF OpenFile, ReopenFile, callVars, flagVars
    <3>2. CASE HashRound \/ LastRound
      BY <3>2, ReadEffect DEF HashRound, LastRound, Round, callVars, flagVars
    <3>3. CASE CloseCompressed \/ CloseHashed
      BY <3>3, CloseEffect DEF CloseCompressed, CloseHashed, callVars
    <3>4. CASE NoDecompression \/ RestoreDecompression \/ NoSize \/ Size
      BY <3>4 DEF NoDecompression, RestoreDecompression, NoSize, Size, Decompression, Presume,
                  Abandon, callVars, fileVars, flagVars
    <3>5. QED
      BY <1>9, <3>1, <3>2, <3>3, <3>4 DEF calculate_sha1
  <2>2. CASE OpenFile
    <3>1. /\ pc = "hash" /\ pc' \in {"zip", "size"} /\ old_decompression_value' = no_decompression
          /\ UNCHANGED no_decompression
      BY <2>2, OpenEffect DEF OpenFile, flagVars
    <3>2. QED
      BY <2>1, <3>1
  <2>3. CASE CloseCompressed \/ NoDecompression
    <3>1. /\ pc \in {"zip", "zipflag"} /\ pc' \in {"zipflag", "zipopen"}
          /\ UNCHANGED old_decompression_value
          /\ pc' = "zipflag" => pc = "zip" /\ UNCHANGED no_decompression
      BY <2>3, CloseEffect DEF CloseCompressed, NoDecompression, hashed
    <3>2. QED
      BY <2>1, <3>1
  <2>4. CASE ReopenFile \/ Size \/ HashRound \/ LastRound \/ CloseHashed
    <3>1. /\ pc \in {"zipopen", "size", "rounds", "hashclose"}
          /\ pc' \in {"size", "rounds", "hashclose", "flag"}
          /\ UNCHANGED old_decompression_value
      BY <2>4 DEF ReopenFile, Size, HashRound, LastRound, Round, CloseHashed, hashed
    <3>2. QED
      BY <2>1, <3>1
  <2>5. CASE NoSize
    <3>1. pc = "size" /\ (cmd = "checkfile" => pc' = "stop")
      BY <2>5 DEF NoSize, Error
    <3>2. QED
      BY <2>1, <3>1
  <2>6. CASE RestoreDecompression
    <3>1. pc = "flag" /\ (cmd = "checkfile" => pc' = "compare")
          /\ no_decompression' = old_decompression_value
      BY <2>6 DEF RestoreDecompression
    <3>2. QED
      BY <2>1, <3>1
  <2>7. QED
    BY <1>9, <2>2, <2>3, <2>4, <2>5, <2>6 DEF calculate_sha1
<1>10. QED
  BY <1>1, <1>2, <1>3, <1>4, <1>5, <1>6, <1>7, <1>8, <1>9 DEF CheckNext, load_checkfile

-----------------------------------------------------------------------------
(* Every entry is accounted for. *)

(* No entry yet: nothing extended, nothing counted. *)
LEMMA RecordedNone ==
  ASSUME NEW L, NEW P \in Seq(Files)
  PROVE  Recorded(L, 0, P, Len(P), 0)
<1> DEFINE new == Len(P) - Len(P)
<1>1. new = 0
  OBVIOUS
<1>2. [i \in 1 .. new |-> i] \in [1 .. new -> 1 .. 0] /\ ~\E i \in 1 .. new : TRUE
  BY <1>1
<1> HIDE DEF new
<1>3. \E at \in [1 .. new -> 1 .. 0] :
           /\ \A i \in 1 .. new : P[Len(P) + i] = L[at[i]].ref
           /\ \A i, j \in 1 .. new : i < j => at[i] < at[j]
  BY <1>2, Zenon
<1>4. new \in Nat /\ new + 0 = 0
  BY <1>1
<1>5. QED
  BY <1>3, <1>4, Zenon DEF Recorded, new

(* A mismatch is counted. *)
LEMMA RecordedMismatch ==
  ASSUME NEW L, NEW k \in Nat, NEW P, NEW b \in Nat, NEW e \in Nat, Recorded(L, k, P, b, e)
  PROVE  Recorded(L, k + 1, P, b, e + 1)
<1> DEFINE new == Len(P) - b
<1>1. new \in Nat /\ new + e = k
  BY DEF Recorded
<1>2. PICK at \in [1 .. new -> 1 .. k] :
           /\ \A i \in 1 .. new : P[b + i] = L[at[i]].ref
           /\ \A i, j \in 1 .. new : i < j => at[i] < at[j]
  BY DEF Recorded
<1> HIDE DEF new
<1>3. at \in [1 .. new -> 1 .. k + 1] /\ new + (e + 1) = k + 1
  BY <1>1, <1>2
<1>4. QED
  BY <1>1, <1>2, <1>3 DEF Recorded, new

(* A match is extended: the new digest is the one of the new entry. *)
LEMMA RecordedMatch ==
  ASSUME NEW L, NEW k \in Nat, NEW P \in Seq(Files), NEW f \in Files, f = L[k + 1].ref,
         NEW b \in Nat, NEW e \in Nat, Recorded(L, k, P, b, e)
  PROVE  Recorded(L, k + 1, Append(P, f), b, e)
<1> DEFINE new == Len(P) - b
           Q == Append(P, f)
<1>1. new \in Nat /\ new + e = k
  BY DEF Recorded
<1>2. PICK at \in [1 .. new -> 1 .. k] :
           /\ \A i \in 1 .. new : P[b + i] = L[at[i]].ref
           /\ \A i, j \in 1 .. new : i < j => at[i] < at[j]
  BY DEF Recorded
<1>3. /\ Len(Q) = Len(P) + 1 /\ Q[Len(P) + 1] = f
      /\ \A i \in 1 .. Len(P) : Q[i] = P[i]
  OBVIOUS
<1>4. Len(Q) - b = new + 1 /\ b + (new + 1) = Len(P) + 1 /\ Len(P) = b + new
  BY <1>1, <1>3
<1> HIDE DEF new, Q
<1> DEFINE more == [i \in 1 .. new + 1 |-> IF i = new + 1 THEN k + 1 ELSE at[i]]
<1>5. \A i \in 1 .. new : at[i] \in 1 .. k
  BY <1>2
<1>6. more \in [1 .. new + 1 -> 1 .. k + 1]
  BY <1>1, <1>5
<1>7. \A i \in 1 .. new : more[i] = at[i] /\ i # new + 1
  BY <1>1
<1>8. more[new + 1] = k + 1
  BY <1>1
<1> HIDE DEF more
<1>9. ASSUME NEW i \in 1 .. new + 1 PROVE Q[b + i] = L[more[i]].ref
  <2>1. CASE i = new + 1
    BY <2>1, <1>3, <1>4, <1>8
  <2>2. CASE i # new + 1
    <3>1. i \in 1 .. new /\ b + i \in 1 .. Len(P)
      BY <2>2, <1>1, <1>4
    <3>2. QED
      BY <3>1, <1>2, <1>3, <1>7
  <2>3. QED
    BY <2>1, <2>2
<1>10. ASSUME NEW i \in 1 .. new + 1, NEW j \in 1 .. new + 1, i < j PROVE more[i] < more[j]
  <2>1. i \in 1 .. new
    BY <1>1, <1>10
  <2>2. CASE j = new + 1
    BY <2>1, <2>2, <1>5, <1>7, <1>8
  <2>3. CASE j # new + 1
    <3>1. j \in 1 .. new
      BY <2>3, <1>1
    <3>2. QED
      BY <2>1, <3>1, <1>2, <1>7, <1>10
  <2>4. QED
    BY <2>2, <2>3
<1>11. (new + 1) + e = k + 1 /\ new + 1 \in Nat
  BY <1>1
<1> DEFINE m == Len(Q) - b
<1>12. m = new + 1
  BY <1>4
<1> HIDE DEF m
<1>13. \E now \in [1 .. m -> 1 .. k + 1] :
           /\ \A i \in 1 .. m : Q[b + i] = L[now[i]].ref
           /\ \A i, j \in 1 .. m : i < j => now[i] < now[j]
  BY <1>6, <1>9, <1>10, <1>12, Zenon
<1>14. m \in Nat /\ m + e = k + 1
  BY <1>11, <1>12
<1>15. QED
  BY <1>13, <1>14, Zenon DEF Recorded, Q, m

(* A step that neither goes on in the list nor accounts for an entry. *)
LEMMA SameList ==
  ASSUME NothingYet, InTheList,
         UNCHANGED <<cmd, before, entries, general_error, pcr13, entry, tpm>>,
         pc' # "idle" => pc # "idle",
         pc' \in {"disable", "open", "list"} => pc \in {"disable", "open", "list"},
         pc' = "close" => pc = "close",
         pc' \in Hashing => pc \in Hashing,
         pc' = "entry" => pc = "entry",
         pc' = "verdict" => pc = "verdict" \/ (pc = "entry" /\ entries = <<>>)
  PROVE  NothingYet' /\ InTheList'
<1>1. UNCHANGED <<Passed, Left>>
  BY DEF Passed, Left
<1>2. NothingYet'
  BY DEF NothingYet, Checking
<1>3. InTheList'
  BY <1>1 DEF InTheList, Checking, Hashing
<1>4. QED
  BY <1>2, <1>3

LEMMA TpmStays == ASSUME [CheckNext]_vars PROVE UNCHANGED tpm
<1>1. CASE \/ UNCHANGED vars \/ (grub_halt /\ UNCHANGED checkVars) \/ Return \/ Extract \/ Compare
           \/ AllChecked \/ (\E f \in DOMAIN Lists : checkfile_func(f))
           \/ (\E f \in Images : sha1_func(f))
  BY <1>1 DEF vars, grub_halt, Return, Extract, Compare, AllChecked, checkfile_func, sha1_func, Begin,
              fileVars, tpmVars
<1>2. CASE \/ OtherCommand \/ Report \/ DisableMeasuring \/ Verdict \/ RestoreMeasuring \/ StopBooting
  BY <1>2 DEF OtherCommand, Report, DisableMeasuring, Verdict, RestoreMeasuring, StopBooting, MeasureOn,
              MeasureOff, KernelOn, print_error, Halt, SetErrnum, fileVars, tpmVars
<1>3. CASE OpenList \/ OpenFile \/ ReopenFile
  BY <1>3, OpenEffect DEF OpenList, OpenFile, ReopenFile, tpmVars
<1>4. CASE ReadList \/ HashRound \/ LastRound
  BY <1>4, ReadEffect DEF ReadList, HashRound, LastRound, Round, tpmVars
<1>5. CASE TooLarge \/ CloseList \/ CloseCompressed \/ CloseHashed
  BY <1>5, CloseEffect DEF TooLarge, CloseList, CloseCompressed, CloseHashed
<1>6. CASE NoDecompression \/ RestoreDecompression \/ NoSize \/ Size
  BY <1>6 DEF NoDecompression, RestoreDecompression, NoSize, Size, Decompression, Presume, Abandon,
              fileVars, tpmVars
<1>7. QED
  BY <1>1, <1>2, <1>3, <1>4, <1>5, <1>6 DEF CheckNext, load_checkfile, calculate_sha1

LEMMA ExtractAccounts ==
  ASSUME CheckTypeOK, Protocol, NothingYet, InTheList, Extract
  PROVE  NothingYet' /\ InTheList'
<1>1. /\ pc = "entry" /\ pc' \in {"hash", "stop"} /\ entries # <<>> /\ entries' = Tail(entries)
      /\ UNCHANGED <<cmd, before, general_error, pcr13>>
  BY DEF Extract, At, Goto, callVars
<1>2. UNCHANGED tpm
  BY DEF Extract, fileVars, tpmVars
<1>3. CASE pc' = "stop"
  BY <1>3 DEF NothingYet, InTheList, Hashing
<1>4. CASE pc' = "hash"
  <2>1. cmd = "checkfile" /\ Checking /\ Left
    BY <1>1 DEF Protocol, OfCheckfile, Checking, InTheList
  <2>2. entries \in Seq(EntryRecord) /\ before.list \in Seq(EntryRecord)
    BY DEF CheckTypeOK, EntryRecord, Protocol, KnowsBefore
  <2>3. /\ Len(entries') = Len(entries) - 1 /\ Len(entries) \in Nat \ {0}
        /\ \A i \in 1 .. Len(entries') : entries'[i] = entries[i + 1]
        /\ Head(entries) = entries[1]
    BY <1>1, <2>2
  <2>4. Passed \in Nat /\ Passed' = Passed + 1 /\ Len(before.list) \in Nat
    BY <1>1, <2>1, <2>2, <2>3 DEF Passed, Left
  <2>5. Left'
    <3>1. ASSUME NEW i \in 1 .. Len(entries') PROVE entries'[i] = before.list[Passed' + i]
      <4>1. i + 1 \in 1 .. Len(entries) /\ Passed' + i = Passed + (i + 1)
        BY <2>3, <2>4
      <4>2. QED
        BY <4>1, <2>1, <2>3 DEF Left
    <3>2. Passed' \in Nat /\ before' = before
      BY <1>1, <2>4
    <3>3. QED
      BY <3>1, <3>2, Zenon DEF Left
  <2>6. entry'.ref = before.list[Passed'].ref
    <3>1. entry'.ref = Head(entries).ref
      <4>1. Head(entries) \in EntryRecord
        BY <1>1, <2>2
      <4>2. entry' = Head(entries) \/ \E f \in Images : entry' = [Head(entries) EXCEPT !.name = f]
        BY <1>4 DEF Extract, Goto
      <4>3. QED
        BY <4>1, <4>2 DEF EntryRecord
    <3>2. 1 \in 1 .. Len(entries)
      BY <2>3
    <3>3. entries[1] = before.list[Passed + 1]
      BY <2>1, <3>2, Zenon DEF Left
    <3>4. QED
      BY <2>3, <2>4, <3>1, <3>3
  <2>7. tpm => Recorded(before.list, Passed, pcr13, before.checked, general_error)
    BY <1>1, <2>1 DEF InTheList
  <2>8. Passed' > 0 /\ Passed' - 1 = Passed
    BY <2>4
  <2>9. NothingYet'
    BY <1>4 DEF NothingYet
  <2>10. InTheList'
    BY <1>1, <1>2, <1>4, <2>5, <2>6, <2>7, <2>8 DEF InTheList
  <2>11. QED
    BY <2>9, <2>10
<1>5. QED
  BY <1>1, <1>3, <1>4

LEMMA CompareAccounts ==
  ASSUME CheckTypeOK, Protocol, NothingYet, InTheList, Compare
  PROVE  NothingYet' /\ InTheList'
<1>1. /\ pc = "compare" /\ cmd = "checkfile" /\ pc' = "entry" /\ UNCHANGED <<cmd, before, entries, entry>>
  BY DEF Compare, At, Goto, callVars
<1>2. UNCHANGED <<tpm, Passed, Left>>
  BY <1>1 DEF Compare, fileVars, tpmVars, Passed, Left
<1>3. /\ Left /\ Passed > 0 /\ entry.ref = before.list[Passed].ref
      /\ tpm => Recorded(before.list, Passed - 1, pcr13, before.checked, general_error)
  BY <1>1 DEF InTheList, Checking, Hashing
<1>4. /\ Passed - 1 \in Nat /\ (Passed - 1) + 1 = Passed
  BY <1>3 DEF Left
<1>5. /\ pcr13 \in Seq(Files) /\ general_error \in Nat /\ before.checked \in Nat
      /\ entry.name \in Files
  BY <1>1 DEF CheckTypeOK, Protocol, KnowsBefore, HasFile, Hashing
<1>6. ASSUME tpm PROVE Recorded(before.list, Passed, pcr13', before.checked, general_error')
  <2> DEFINE k == Passed - 1
  <2>1. Recorded(before.list, k, pcr13, before.checked, general_error) /\ k \in Nat /\ k + 1 = Passed
    BY <1>3, <1>4, <1>6
  <2> HIDE DEF k
  <2>2. CASE entry.ref = entry.name /\ pcr13' = Append(pcr13, entry.name) /\ UNCHANGED general_error
    <3>1. entry.name = before.list[k + 1].ref
      BY <1>3, <2>1, <2>2
    <3>2. Recorded(before.list, k + 1, Append(pcr13, entry.name), before.checked, general_error)
      BY <1>5, <2>1, <3>1, RecordedMatch
    <3>3. QED
      BY <2>1, <2>2, <3>2
  <2>3. CASE general_error' = general_error + 1 /\ UNCHANGED pcr13
    <3>1. Recorded(before.list, k + 1, pcr13, before.checked, general_error + 1)
      BY <1>5, <2>1, RecordedMismatch
    <3>2. QED
      BY <2>1, <2>3, <3>1
  <2>4. QED
    BY <1>6, <2>2, <2>3 DEF Compare
<1>7. NothingYet'
  BY <1>1 DEF NothingYet
<1>8. InTheList'
  BY <1>1, <1>2, <1>3, <1>6 DEF InTheList, Hashing
<1>9. QED
  BY <1>7, <1>8

LEMMA AccountedStep ==
  ASSUME CheckTypeOK, Protocol, NothingYet, InTheList, [CheckNext]_vars
  PROVE  NothingYet' /\ InTheList'
<1>t. UNCHANGED tpm
  BY TpmStays
<1>1. CASE UNCHANGED checkVars
  BY <1>1, <1>t, SameList DEF checkVars, callVars, listVars
<1>2. CASE Return \/ \E f \in Images : sha1_func(f)
  <2>1. pc' = "idle" \/ (pc' = "hash" /\ cmd' = "sha1")
    BY <1>2 DEF Return, sha1_func, Begin, Goto
  <2>2. QED
    BY <2>1 DEF NothingYet, InTheList, Checking
<1>3. CASE \E f \in DOMAIN Lists : checkfile_func(f)
  <2>1. pc' = "disable" /\ before'.checked = Len(pcr13) /\ UNCHANGED pcr13
    BY <1>3 DEF checkfile_func, Begin, Goto, listVars
  <2>2. QED
    BY <2>1 DEF NothingYet, InTheList, Hashing
<1>4. CASE ReadList
  <2>1. /\ pc = "list" /\ pc' = "close" /\ UNCHANGED <<cmd, pcr13>> /\ general_error' = 0
        /\ before' = [before EXCEPT !.list = entries']
    BY <1>4 DEF ReadList, At, Goto
  <2>2. before'.list = entries' /\ before'.checked = before.checked
    BY <2>1 DEF Protocol, KnowsBefore
  <2>3. Len(pcr13) = before.checked
    BY <2>1 DEF Protocol, OfCheckfile, NothingYet, Checking
  <2>4. QED
    BY <2>1, <2>2, <2>3 DEF NothingYet, InTheList, Hashing
<1>5. CASE CloseList
  <2>1. /\ pc = "close" /\ pc' = "entry"
        /\ UNCHANGED <<cmd, before, entries, general_error, pcr13>>
    BY <1>5 DEF CloseList, At, Goto, callVars, listVars
  <2>2. before.list = entries /\ general_error = 0 /\ Len(pcr13) = before.checked
    BY <2>1 DEF Protocol, OfCheckfile, NothingYet, Checking
  <2>3. entries \in Seq(EntryRecord) /\ pcr13 \in Seq(Files)
    BY DEF CheckTypeOK, EntryRecord
  <2>4. Passed' = 0
    BY <2>1, <2>2, <2>3 DEF Passed
  <2>5. Left'
    <3>1. \A i \in 1 .. Len(entries') : 0 + i = i
      OBVIOUS
    <3>2. QED
      BY <2>1, <2>2, <2>4, <3>1 DEF Left
  <2>6. Recorded(before.list, 0, pcr13, Len(pcr13), 0)
    BY <2>3, RecordedNone
  <2>7. QED
    BY <2>1, <2>2, <2>4, <2>5, <2>6 DEF NothingYet, InTheList, Hashing
<1>6. CASE DisableMeasuring \/ OpenList \/ TooLarge \/ AllChecked \/ Verdict \/ RestoreMeasuring
  <2>1. /\ UNCHANGED <<cmd, before, entries, general_error, pcr13, entry>>
        /\ \/ pc \in {"disable", "open"} /\ pc' \in {"open", "list"}
           \/ pc = "entry" /\ pc' = "verdict" /\ entries = <<>>
           \/ pc = "verdict" /\ pc' = "verdict"
           \/ pc # "idle" /\ pc' \in {"stop", "restore", "done"}
    BY <1>6 DEF DisableMeasuring, OpenList, TooLarge, AllChecked, Verdict, RestoreMeasuring,
                callVars, listVars, At, Goto
  <2>2. QED
    BY <2>1, <1>t, SameList DEF Hashing
<1>7. CASE calculate_sha1
  <2>1. /\ UNCHANGED <<cmd, before, entries, general_error, pcr13, entry>>
        /\ pc \in Hashing /\ pc' \in Hashing \cup {"stop", "done"}
    BY <1>7 DEF calculate_sha1, OpenFile, CloseCompressed, NoDecompression, ReopenFile, NoSize, Size,
         HashRound, LastRound, Round, CloseHashed, RestoreDecompression, Error, At, Goto, callVars,
         listVars, Hashing
  <2>2. QED
    BY <2>1, <1>t, SameList DEF Hashing
<1>8. CASE OtherCommand \/ Report \/ StopBooting \/ UNCHANGED vars
  BY <1>1, <1>8 DEF OtherCommand, Report, Idle, StopBooting, vars
<1>9. QED
  BY <1>1, <1>2, <1>3, <1>4, <1>5, <1>6, <1>7, <1>8, ExtractAccounts, CompareAccounts
     DEF CheckNext, load_checkfile

-----------------------------------------------------------------------------
(* CheckInv is inductive, and every step of a command is one of the file   *)
(* layer.                                                                  *)
THEOREM CheckInductive ==
  /\ CheckInit => CheckInv
  /\ CheckInv /\ [CheckNext]_vars => CheckInv' /\ [Next]_fileVars
<1>1. ASSUME CheckInit PROVE CheckInv
  <2>1. IInv /\ TypeOK
    BY <1>1, InitInv DEF CheckInit, IInv
  <2>2. pc = "idle"
    BY <1>1 DEF CheckInit
  <2>3. Flags /\ NothingYet /\ InTheList
    BY <2>2 DEF Flags, MeasuringOff, PerformSaved, DecompressionSaved, NothingYet, InTheList, Checking
  <2>4. QED
    BY <1>1, <2>1, <2>3, CheckTypeInit, ProtocolInit DEF CheckInv
<1>2. ASSUME CheckInv, [CheckNext]_vars PROVE CheckInv' /\ [Next]_fileVars
  <2>1. IInv /\ CheckTypeOK /\ Protocol /\ Flags /\ NothingYet /\ InTheList
    BY <1>2 DEF CheckInv
  <2>2. [Next]_fileVars
    BY <1>2, <2>1, FileStep DEF Flags
  <2>3. IInv'
    BY <2>1, <2>2, InductiveInvariant
  <2>4. CheckTypeOK'
    BY <1>2, <2>1, <2>3, CheckTypeStep DEF IInv
  <2>5. Protocol' /\ Flags' /\ NothingYet' /\ InTheList'
    BY <1>2, <2>1, ProtocolStep, FlagsStep, AccountedStep
  <2>6. QED
    BY <2>2, <2>3, <2>4, <2>5 DEF CheckInv
<1>3. QED
  BY <1>1, <1>2

LEMMA CheckInvariance == CheckSpec => []CheckInv
<1>1. QED
  BY CheckInductive, PTL DEF CheckSpec

(* The variables of load_checkfile and calculate_sha1 keep their types, and *)
(* the rest to be hashed does not become negative.                          *)
THEOREM CheckTypeCorrect == CheckSpec => []CheckTypeOK
<1>1. CheckInv => CheckTypeOK
  BY DEF CheckInv
<1>2. QED
  BY <1>1, CheckInvariance, PTL

(* checkfile and sha1 implement the callers that MeasuredFile assumes,     *)
(* although they go on after a grub_open or grub_read that failed.         *)
THEOREM CommandsFollowProtocol == CheckSpec => HashesByFileProtocol
<1>1. CheckInit => Init
  BY DEF CheckInit
<1>2. QED
  BY <1>1, CheckInductive, CheckInvariance, PTL DEF CheckSpec, HashesByFileProtocol, Spec

(* For every list: when load_checkfile has gone through it, each entry was *)
(* extended into PCR 13, in order and as the file whose digest the list    *)
(* has, or counted as a mismatch.                                          *)
THEOREM EveryEntryAccounted == CheckSpec => []Accounted
<1>1. ASSUME CheckInv, pc = "verdict", tpm
      PROVE  Recorded(before.list, Len(before.list), pcr13, before.checked, general_error)
  <2>1. Checking /\ entries = <<>>
    BY <1>1 DEF CheckInv, Protocol, OfCheckfile, InTheList, Checking
  <2>2. before.list \in Seq(EntryRecord)
    BY <1>1 DEF CheckInv, Protocol, KnowsBefore
  <2>3. Passed = Len(before.list)
    BY <2>1, <2>2 DEF Passed
  <2>4. Recorded(before.list, Passed, pcr13, before.checked, general_error)
    BY <1>1, <2>1 DEF CheckInv, InTheList
  <2>5. QED
    BY <2>3, <2>4
<1>2. CheckInv => Accounted
  BY <1>1, Zenon DEF Accounted, Recorded
<1>3. QED
  BY <1>2, CheckInvariance, PTL

(* A checkfile command that returns leaves measuring on if it was on, and  *)
(* decompression as it was.                                                *)
THEOREM FlagsAreRestored == CheckSpec => FlagsRestored
<1>1. ASSUME CheckInv, [CheckNext]_vars
      PROVE  [cmd = "checkfile" /\ pc # "idle" /\ pc' = "idle" =>
                /\ before.perform => perform_sha1'
                /\ no_decompression' = before.nodec]_vars
  <2>1. SUFFICES ASSUME CheckNext, cmd = "checkfile", pc # "idle", pc' = "idle"
                 PROVE  (before.perform => perform_sha1') /\ no_decompression' = before.nodec
    BY <1>1
  <2>2. Return
    BY <2>1 DEF CheckNext, OtherCommand, Report, Idle, checkfile_func, sha1_func, Begin, load_checkfile,
       DisableMeasuring, OpenList, TooLarge, ReadList, CloseList, Extract, Compare, AllChecked,
       Verdict, RestoreMeasuring, StopBooting, calculate_sha1, OpenFile, CloseCompressed,
       NoDecompression, ReopenFile, NoSize, Error, Size, HashRound, LastRound, CloseHashed,
       RestoreDecompression, At, Goto, checkVars
  <2>3. pc = "done" /\ UNCHANGED <<perform_sha1, no_decompression>>
    BY <2>2 DEF Return, At, fileVars, flagVars
  <2>4. QED
    BY <1>1, <2>1, <2>3 DEF CheckInv, Flags, PerformSaved, DecompressionSaved, Checking
<1>2. QED
  BY <1>1, CheckInvariance, PTL DEF CheckSpec, FlagsRestored

(* No step of a checkfile command extends PCR 14 or asks the user about a  *)
(* file that was not read as a whole.                                      *)
THEOREM CheckfileMeasuresNothing == CheckSpec => CheckfileUnmeasured
<1>1. ASSUME CheckInv, [CheckNext]_vars
      PROVE  [cmd = "checkfile" /\ pc # "idle" => UNCHANGED <<pcr14, accepted>>]_vars
  <2>1. SUFFICES ASSUME CheckNext, cmd = "checkfile", pc # "idle" PROVE UNCHANGED <<pcr14, accepted>>
    BY <1>1
  <2>2. CASE \/ grub_halt \/ Return \/ Extract \/ Compare \/ AllChecked
             \/ DisableMeasuring \/ Verdict \/ RestoreMeasuring \/ StopBooting
    BY <2>2 DEF grub_halt, Return, Extract, Compare, AllChecked, DisableMeasuring, Verdict,
                RestoreMeasuring, StopBooting, MeasureOn, MeasureOff, Halt, fileVars, tpmVars
  <2>3. CASE OpenList \/ OpenFile \/ ReopenFile
    BY <2>3, OpenEffect DEF OpenList, OpenFile, ReopenFile, tpmVars
  <2>4. CASE ReadList \/ HashRound \/ LastRound
    BY <2>4, ReadEffect DEF ReadList, HashRound, LastRound, Round, tpmVars
  <2>5. CASE TooLarge \/ CloseList \/ CloseCompressed \/ CloseHashed
    <3>1. pc \in {"list", "close", "zip", "hashclose"} /\ grub_close
      BY <2>5 DEF TooLarge, CloseList, CloseCompressed, CloseHashed, At
    <3>2. ~perform_sha1
      BY <1>1, <2>1, <3>1 DEF CheckInv, Flags, MeasuringOff, Checking
    <3>3. QED
      BY <3>1, <3>2 DEF grub_close, CloseMeasured, CloseUnmeasured, ClosePlain
  <2>6. CASE NoDecompression \/ RestoreDecompression \/ NoSize \/ Size
    BY <2>6 DEF NoDecompression, RestoreDecompression, NoSize, Size, Decompression, Presume, Abandon,
                fileVars, tpmVars
  <2>7. QED
    BY <2>1, <2>2, <2>3, <2>4, <2>5, <2>6
       DEF CheckNext, OtherCommand, Report, Idle, At, checkfile_func, sha1_func, Begin, load_checkfile,
           calculate_sha1
<1>2. QED
  BY <1>1, CheckInvariance, PTL DEF CheckSpec, CheckfileUnmeasured
=============================================================================
