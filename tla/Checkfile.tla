------------------------------ MODULE Checkfile ------------------------------
(***************************************************************************)
(* The commands that hash files on their own: checkfile (load_checkfile in *)
(* stage2/boot.c), which compares the files a list names with the digests  *)
(* the list gives and extends PCR 13, and sha1 (stage2/builtins.c).  Both  *)
(* use calculate_sha1 (stage2/sha1.c), which reads a file through the file *)
(* layer but keeps a hash of its own.  pc is the next step of the command  *)
(* cmd.                                                                    *)
(***************************************************************************)
EXTENDS MeasuredFile

CONSTANTS
  Images,    \* the files a list or a sha1 command names
  Lists,     \* the files of lists of digests, and the entries of each
  TcgBuffer  \* TCG_BUFFER_SIZE

(***************************************************************************)
(* An entry: form says whether there is a blank after the digest, whether  *)
(* the name is too long, and whether the newline is missing at the end; the*)
(* digest is that of the contents of ref.                                  *)
(***************************************************************************)
Entry == [form: {"good", "format", "long", "unterminated"},
          name: Images, ref: Images]

ASSUME ListsAssumption ==
  /\ Images \subseteq Files
  /\ DOMAIN Lists \subseteq Files
  /\ \A f \in DOMAIN Lists : Lists[f] \in Seq(Entry)
  /\ TcgBuffer \in Nat \ {0} /\ 0 .. 2 * TcgBuffer \subseteq ReadLens

VARIABLES
  pc, cmd,
  target,                  \* the argument of the command
  old_perform_sha1_value,
  entries,                 \* check_file_data from curr_length on
  entry,                   \* the entry being checked
  old_decompression_value,
  bytes_to_copy,
  context,                 \* calculate_sha1's own hash, as in MeasuredFile
  general_error,           \* the mismatches
  pcr13,                   \* what PCR 13 was extended with, in order
  before                   \* history: what the command found

callVars  == <<cmd, target, before, old_perform_sha1_value>>
listVars  == <<entries, general_error, pcr13>>
hashed    == <<old_decompression_value, bytes_to_copy, context>>
checkVars == <<pc, callVars, listVars, entry, hashed>>
vars      == <<fileVars, checkVars>>

NoEntry == [form |-> "good", name |-> NoFile, ref |-> NoFile]
Nothing == [perform |-> FALSE, nodec |-> FALSE, checked |-> 0, list |-> <<>>]
Steps == {"idle", "disable", "open", "list", "close", "entry", "hash", "zip",
          "zipflag", "zipopen", "size", "rounds", "hashclose", "flag", "compare",
          "verdict", "restore", "stop", "done"}

At(step) == pc = step /\ ~halted
Goto(step) == pc' = step
-----------------------------------------------------------------------------
(* Between the commands *)

Idle == At("idle") /\ UNCHANGED checkVars

(* Other commands switch measuring on or off, or leave measure_kernel set. *)
OtherCommand == Idle /\ errnum = "none" /\ (MeasureOn \/ MeasureOff \/ KernelOn)

(* The interpreters report an error and go on, or stop the machine. *)
Report == Idle /\ errnum # "none"
               /\ IF perform_sha1 /\ errnum = "hard" THEN print_error
                                                     ELSE SetErrnum("none")

Begin(c, f, step) ==
  /\ At("idle") /\ errnum = "none"
  /\ cmd' = c /\ target' = f /\ Goto(step)
  /\ before' = [perform |-> perform_sha1, nodec |-> no_decompression,
                checked |-> Len(pcr13), list |-> <<>>]
  /\ UNCHANGED <<fileVars, old_perform_sha1_value, listVars, hashed>>

(* The command returns and its local variables are gone. *)
Fresh == /\ target' = NoFile /\ before' = Nothing
         /\ entries' = <<>> /\ entry' = NoEntry /\ general_error' = 0
         /\ old_decompression_value' = FALSE /\ bytes_to_copy' = 0
         /\ context' = sha1_init
Return == /\ At("done")
          /\ Fresh
          /\ Goto("idle")
          /\ UNCHANGED <<fileVars, cmd, old_perform_sha1_value, pcr13>>

checkfile_func(f) == Begin("checkfile", f, "disable") /\ UNCHANGED entry
sha1_func(f) == /\ Begin("sha1", f, "hash")
                /\ entry' = [NoEntry EXCEPT !.name = f]
-----------------------------------------------------------------------------
(* load_checkfile: the list *)

DisableMeasuring ==
  /\ At("disable")
  /\ IF perform_sha1 THEN MeasureOff /\ old_perform_sha1_value' = TRUE
                     ELSE UNCHANGED <<fileVars, old_perform_sha1_value>>
  /\ Goto("open")
  /\ UNCHANGED <<cmd, target, before, listVars, entry, hashed>>

OpenList ==
  /\ At("open")
  /\ grub_open(target)
  /\ Goto(IF opened' THEN "list" ELSE "stop")
  /\ UNCHANGED <<callVars, listVars, entry, hashed>>

TooLarge ==
  /\ At("list")
  /\ filemax > 2 * TcgBuffer
  /\ grub_close
  /\ Goto("stop")
  /\ UNCHANGED <<callVars, listVars, entry, hashed>>

(* What the buffer holds when the list was not read into it: what an       *)
(* earlier call left there, or nothing of the format.                      *)
Junk == {Lists[f] : f \in DOMAIN Lists} \cup {<<[NoEntry EXCEPT !.form = "format"]>>}

(* The result of grub_read is not looked at. *)
ReadList ==
  /\ At("list")
  /\ filemax <= 2 * TcgBuffer
  /\ grub_read(filemax)
  /\ IF filemax = 0 THEN entries' = <<>>
     ELSE IF errnum' = "none" /\ Source = target THEN entries' = Lists[target]
     ELSE entries' \in Junk \ {<<>>}
  /\ general_error' = 0
  /\ before' = [before EXCEPT !.list = entries']
  /\ Goto("close")
  /\ UNCHANGED <<cmd, target, old_perform_sha1_value, entry, hashed, pcr13>>

CloseList ==
  /\ At("close")
  /\ grub_close
  /\ Goto("entry")
  /\ UNCHANGED <<callVars, listVars, entry, hashed>>

(* Mutant: curr_length stays at the entry. *)
ExtractsAgain ==
  /\ At("entry")
  /\ entries # <<>>
  /\ UNCHANGED entries
  /\ LET e == Head(entries) IN
       \/ /\ e.form = "good"
          /\ entry' = e /\ Goto("hash")
       \/ /\ e.form = "unterminated"
          /\ \E f \in Images : entry' = [e EXCEPT !.name = f]
          /\ Goto("hash")
       \/ /\ e.form # "good"
          /\ UNCHANGED entry /\ Goto("stop")
  /\ UNCHANGED <<fileVars, callVars, hashed,
                 general_error, pcr13>>

(* The name of the last entry goes on into whatever follows the list if    *)
(* its newline is missing: until there is a newline, or it is too long.    *)
Extract ==
  /\ At("entry")
  /\ entries # <<>>
  /\ entries' = Tail(entries)
  /\ LET e == Head(entries) IN
       \/ /\ e.form = "good"
          /\ entry' = e /\ Goto("hash")
       \/ /\ e.form = "unterminated"
          /\ \E f \in Images : entry' = [e EXCEPT !.name = f]
          /\ Goto("hash")
       \/ /\ e.form # "good"
          /\ UNCHANGED entry /\ Goto("stop")
  /\ UNCHANGED <<fileVars, callVars, hashed,
                 general_error, pcr13>>

(* Mutant: every digest is extended, equal or not. *)
ExtendsAnyway ==
  /\ At("compare") /\ cmd = "checkfile"
  /\ pcr13' = IF tpm THEN Append(pcr13, entry.name) ELSE pcr13
  /\ Goto("entry")
  /\ UNCHANGED <<fileVars, callVars, entries, general_error, entry, hashed>>

(* Equal digests are extended if there is a TPM, others are counted. *)
Compare ==
  /\ At("compare") /\ cmd = "checkfile"
  /\ IF entry.ref = entry.name /\ context.clean /\ context.len = entry.name.raw
     THEN /\ pcr13' = IF tpm THEN Append(pcr13, entry.name) ELSE pcr13
          /\ UNCHANGED general_error
     ELSE /\ general_error' = general_error + 1
          /\ UNCHANGED pcr13
  /\ Goto("entry")
  /\ UNCHANGED <<fileVars, callVars, entries, entry,
                 hashed>>

AllChecked ==
  /\ At("entry")
  /\ entries = <<>>
  /\ Goto("verdict")
  /\ UNCHANGED <<fileVars, callVars, listVars, entry,
                 hashed>>

(* After mismatches ESC stops the machine, any other key goes on. *)
Verdict ==
  /\ At("verdict")
  /\ \/ general_error > 0 /\ Halt /\ UNCHANGED pc
     \/ UNCHANGED fileVars /\ Goto("restore")
  /\ UNCHANGED <<callVars, listVars, entry, hashed>>

(* The saved value is never cleared. *)
RestoreMeasuring ==
  /\ At("restore")
  /\ IF old_perform_sha1_value THEN MeasureOn ELSE UNCHANGED fileVars
  /\ Goto("done")
  /\ UNCHANGED <<callVars, listVars, entry, hashed>>

(* load_checkfile reported an error: checkfile_func stops the machine. *)
StopBooting ==
  /\ At("stop")
  /\ Halt
  /\ UNCHANGED checkVars
-----------------------------------------------------------------------------
(* calculate_sha1 *)

(* The result of grub_open is not looked at. *)
OpenFile ==
  /\ At("hash")
  /\ grub_open(entry.name)
  /\ old_decompression_value' = no_decompression
  /\ Goto(IF compressed_file' THEN "zip" ELSE "size")
  /\ UNCHANGED <<callVars, listVars, entry,
                 bytes_to_copy, context>>

(* A compressed file is closed and opened again as it is. *)
CloseCompressed ==
  /\ At("zip")
  /\ grub_close
  /\ Goto("zipflag")
  /\ UNCHANGED <<callVars, listVars, entry, hashed>>

NoDecompression ==
  /\ At("zipflag")
  /\ Decompression /\ no_decompression'
  /\ Goto("zipopen")
  /\ UNCHANGED <<callVars, listVars, entry, hashed>>

ReopenFile ==
  /\ At("zipopen")
  /\ grub_open(entry.name)
  /\ Goto("size")
  /\ UNCHANGED <<callVars, listVars, entry, hashed>>

(* -1 to the caller: checkfile stops, sha1 goes back to the prompt. *)
Error == Goto(IF cmd = "checkfile" THEN "stop" ELSE "done")

(* An empty file, or one that could not be opened: neither is it closed    *)
(* nor no_decompression restored.                                          *)
NoSize ==
  /\ At("size")
  /\ filemax = 0
  /\ IF opened THEN Abandon ELSE UNCHANGED fileVars
  /\ Error
  /\ UNCHANGED <<callVars, listVars, entry, hashed>>

Size ==
  /\ At("size")
  /\ filemax > 0
  /\ IF opened THEN UNCHANGED fileVars ELSE Presume
  /\ bytes_to_copy' = filemax
  /\ context' = sha1_init
  /\ Goto("rounds")
  /\ UNCHANGED <<callVars, listVars, entry,
                 old_decompression_value>>

(* The bytes read are those of the file on the device. *)
Delivered == errnum' = "none" /\ Source = entry.name
                              /\ (measure_kernel => Source.kind # "gzip")

(* One round; what was asked for is hashed, whatever was read. *)
Round(n) ==
  /\ At("rounds")
  /\ grub_read(n)
  /\ context' = IF Delivered THEN sha1_update(context, Pos, n)
                             ELSE Spoiled(context, n)
  /\ bytes_to_copy' = bytes_to_copy - n
  /\ UNCHANGED <<callVars, listVars, entry,
                 old_decompression_value>>

HashRound == bytes_to_copy > TcgBuffer /\ Round(TcgBuffer) /\ Goto("rounds")

(* Mutant: a rest that is smaller than the buffer is not read. *)
LastRoundUnread == /\ At("rounds") /\ bytes_to_copy <= TcgBuffer
                   /\ Goto("hashclose")
                   /\ UNCHANGED <<fileVars, callVars, listVars, entry, hashed>>

LastRound == bytes_to_copy <= TcgBuffer /\ Round(bytes_to_copy)
                                        /\ Goto("hashclose")

CloseHashed ==
  /\ At("hashclose")
  /\ grub_close
  /\ Goto("flag")
  /\ UNCHANGED <<callVars, listVars, entry, hashed>>

(* Mutant: no_decompression stays as the file needed it. *)
KeepsDecompression ==
  /\ At("flag")
  /\ Goto(IF cmd = "checkfile" THEN "compare" ELSE "done")
  /\ UNCHANGED <<fileVars, callVars, listVars, entry, hashed>>

RestoreDecompression ==
  /\ At("flag")
  /\ Decompression /\ no_decompression' = old_decompression_value
  /\ Goto(IF cmd = "checkfile" THEN "compare" ELSE "done")
  /\ UNCHANGED <<callVars, listVars, entry, hashed>>

calculate_sha1 ==
  \/ OpenFile \/ CloseCompressed \/ NoDecompression \/ ReopenFile
  \/ NoSize \/ Size \/ HashRound \/ LastRound
  \/ CloseHashed \/ RestoreDecompression
-----------------------------------------------------------------------------
CheckInit ==
  /\ Init
  /\ pc = "idle" /\ cmd = "sha1" /\ target = NoFile /\ before = Nothing
  /\ old_perform_sha1_value = FALSE
  /\ entries = <<>> /\ entry = NoEntry /\ general_error = 0 /\ pcr13 = <<>>
  /\ old_decompression_value = FALSE /\ bytes_to_copy = 0
  /\ context = sha1_init

load_checkfile ==
  \/ DisableMeasuring \/ OpenList \/ TooLarge \/ ReadList \/ CloseList
  \/ Extract \/ Compare \/ AllChecked \/ Verdict \/ RestoreMeasuring
  \/ StopBooting

CheckNext ==
  \/ OtherCommand \/ Report
  \/ \E f \in DOMAIN Lists : checkfile_func(f)
  \/ \E f \in Images : sha1_func(f)
  \/ load_checkfile \/ calculate_sha1 \/ Return
  \/ grub_halt /\ UNCHANGED checkVars

(* A command that has begun goes on: nothing but a key stroke is waited    *)
(* for, and the user gives it.                                             *)
CommandGoesOn == WF_vars(load_checkfile \/ calculate_sha1 \/ Return)

CheckSpec == CheckInit /\ [][CheckNext]_vars /\ CommandGoesOn

-----------------------------------------------------------------------------
(* Properties *)

(* The variables of load_checkfile and calculate_sha1 keep their types;    *)
(* bytes_to_copy does not become negative.                                 *)
CheckTypeOK ==
  /\ TypeOK
  /\ pc \in Steps /\ cmd \in {"checkfile", "sha1"}
  /\ target \in Files \cup {NoFile}
  /\ entries \in Seq([form: {"good", "format", "long", "unterminated"},
                      name: Files \cup {NoFile}, ref: Files \cup {NoFile}])
  /\ bytes_to_copy \in Nat /\ context \in HashOf /\ general_error \in Nat
  /\ pcr13 \in Seq(Files)

(* calculate_sha1 uses the file layer the way MeasuredFile assumes, after  *)
(* a grub_open whose failure it ignores and without a grub_close too.      *)
HashesByFileProtocol == Spec

(* Every entry of the list that load_checkfile has gone through is         *)
(* accounted for, although open and read errors are ignored: it was either *)
(* extended into PCR 13, in the order of the list, or counted as a         *)
(* mismatch that the user is warned of; and what was extended is a file    *)
(* with the digest of the list.                                            *)
Accounted ==
  pc = "verdict" /\ tpm =>
    LET L == before.list
        new == Len(pcr13) - before.checked
    IN  /\ new + general_error = Len(L)
        /\ \E at \in [1 .. new -> 1 .. Len(L)] :
             /\ \A i \in 1 .. new : pcr13[before.checked + i] = L[at[i]].ref
             /\ \A i, j \in 1 .. new : i < j => at[i] < at[j]

(* load_checkfile that returns leaves measuring on if it was on, and       *)
(* decompression as it was, whatever files calculate_sha1 opened again.    *)
FlagsRestored ==
  [][cmd = "checkfile" /\ pc # "idle" /\ pc' = "idle" =>
       /\ before.perform => perform_sha1'
       /\ no_decompression' = before.nodec]_vars

(* A checkfile command reads all its files with measuring off: PCR 14 is   *)
(* not extended and the user is not asked about files half read.           *)
CheckfileUnmeasured ==
  [][cmd = "checkfile" /\ pc # "idle" => UNCHANGED <<pcr14, accepted>>]_vars

(* A checkfile or sha1 command comes to its end or stops the machine,      *)
(* whatever sizes a failed grub_open leaves to the rounds of               *)
(* calculate_sha1.                                                         *)
CommandEnds == pc # "idle" ~> pc = "idle" \/ halted

-----------------------------------------------------------------------------
(* What the documents say and the commands do not keep.                    *)

(* "All files, which are checked via the checkfile-option are extended     *)
(* into PCR 13": at the end of load_checkfile every file of the list is.   *)
AllCheckedExtended ==
  pc = "verdict" /\ tpm => Len(pcr13) = before.checked + Len(before.list)

(* sha1 "simply measures the SHA1 hash of the given file and prints the    *)
(* result": calculate_sha1 extends no PCR for it.                          *)
Sha1OnlyPrints == [][cmd = "sha1" /\ pc # "idle" => pcr14' = pcr14]_vars
=============================================================================
