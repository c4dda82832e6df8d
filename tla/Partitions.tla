----------------------------- MODULE Partitions -----------------------------
(***************************************************************************)
(* Partition tables (stage2/disk_io.c): next_partition walks the MBR, the  *)
(* chain of extended tables and the BSD labels, numbering what it finds.   *)
(* Opening a partition, listing them, and the commands that write to a     *)
(* table (hide, unhide, parttype, partnew, makeactive) all look a          *)
(* partition up by its number, and so does the user.                       *)
(*                                                                         *)
(* The drive is a hard disk that can be read; a step is one call of        *)
(* next_partition.                                                         *)
(***************************************************************************)
EXTENDS Integers, Sequences, FiniteSets, SequencesExt

CONSTANTS
  PC_SLICE_MAX,  \* entries of a table: 4
  NoSlice,       \* the slice number that means none: 0xFF
  Disks,         \* the disks: offset of a table -> its entries
  Label,         \* the BSD label of every BSD slice: which letters are used
  NewTypes,      \* the types that parttype and partnew may be given
  NewStarts,     \* where partnew may put a partition
  MaxCommands    \* bound: commands given

ASSUME SliceAssumption == PC_SLICE_MAX \in Nat \ {0} /\ NoSlice > PC_SLICE_MAX

VARIABLES
  disk,          \* the tables; a sector with no table is not in its domain
  saved,         \* saved_partition
  cmd,           \* the command that runs: its operation, partition and type
  it,            \* next_partition's variables
  ended,         \* how the last command ended
  listed,        \* history: what the last list showed, while no table changes
  found,         \* history: what the last look-up found
  commands

vars == <<disk, saved, cmd, it, ended, listed, found, commands>>

NoBsd == 0
WholeDisk == [slice |-> NoSlice, bsd |-> NoBsd]
Slices == [slice : 0..(NoSlice - 1), bsd : {NoBsd}]
Kinds == {"none", "data", "ext", "bsd"}

(* An entry of a table.  The hidden flag is a bit of the type: a hidden    *)
(* type is neither extended nor BSD, nor is it 0.                          *)
Entry(k, s) == [kind |-> k, hid |-> FALSE, active |-> FALSE, start |-> s]
Used(e) == e.kind # "none" \/ e.hid
IsExtended(e) == e.kind = "ext" /\ ~e.hid
IsBsd(e) == e.kind = "bsd" /\ ~e.hid

NoCommand == [op |-> "none", dest |-> WholeDisk, kind |-> "none"]
Start == [part |-> WholeDisk, type |-> Entry("none", 0), offset |-> 0, ext |-> 0, entry |-> -1,
          error |-> FALSE]
Where(i) == <<i.offset, i.entry, i.part.bsd>>
-----------------------------------------------------------------------------
(* next_partition *)

Fails(i) == [i EXCEPT !.error = TRUE]

(* Mutant: only a table's first partition takes a new number. *)
OncePerTable(n, e, k) == IF n < PC_SLICE_MAX \/ k = 0 THEN n + 1 ELSE n

(* The primary partitions, and the first entry of the first extended       *)
(* table, take a number each; after that, only partitions do.              *)
SliceNumber(n, e, k) ==
  IF n < PC_SLICE_MAX \/ (~IsExtended(e) /\ Used(e)) THEN n + 1 ELSE n

(* Entry k of the table at i.offset. *)
AtEntry(i, k, n) ==
  IF i.offset \notin DOMAIN disk THEN Fails(i)
  ELSE LET e == disk[i.offset][k + 1]
       IN [i EXCEPT !.entry = k, !.type = e,
                    !.part = [slice |-> SliceNumber(n, e, k), bsd |-> NoBsd]]

(* The first extended partition of a table leads to the next table. *)
Extended(off) == {k \in 1..PC_SLICE_MAX : IsExtended(disk[off][k])}
First(S) == CHOOSE k \in S : \A j \in S : k <= j
NextTable(off, ext) == ext + disk[off][First(Extended(off))].start

next_pc_slice(i) ==
  IF i.part.slice = NoSlice THEN AtEntry([i EXCEPT !.offset = 0, !.ext = 0], 0, -1)
  ELSE IF i.entry + 1 < PC_SLICE_MAX THEN AtEntry(i, i.entry + 1, i.part.slice)
  ELSE IF Extended(i.offset) = {} THEN Fails(i)
  ELSE LET off == NextTable(i.offset, i.ext)
       IN AtEntry([i EXCEPT !.offset = off, !.ext = IF @ = 0 THEN off ELSE @], 0, i.part.slice)

(* Mutant: the last letter is looked at again. *)
LettersFrom(j) == {k \in 1..Len(Label) : k >= j /\ Label[k]}

LettersAfter(j) == {k \in 1..Len(Label) : k > j /\ Label[k]}

(* After a BSD slice come its BSD partitions.  No more of them is an error *)
(* where one of them is what dest names.                                   *)
next_partition(i, dest) ==
  IF i.part = WholeDisk \/ ~IsBsd(i.type) THEN next_pc_slice(i)
  ELSE IF LettersAfter(i.part.bsd) # {} THEN [i EXCEPT !.part.bsd = First(LettersAfter(@))]
  ELSE IF dest.bsd # NoBsd /\ dest.slice \in {NoSlice, i.part.slice} THEN Fails(i)
  ELSE next_pc_slice(i)
-----------------------------------------------------------------------------
(* The commands *)

Idle == cmd.op = "none"
Lookups == {"root", "rootnoverify"}
Changes == {"hide", "unhide", "parttype"}

Give(op, dest, kind) ==
  /\ Idle /\ commands < MaxCommands
  /\ cmd' = [op |-> op, dest |-> dest, kind |-> kind]
  /\ it' = Start
  /\ commands' = commands + 1
  /\ ended' = "none" /\ found' = <<>>
  /\ UNCHANGED <<disk, saved>>

Letters == [slice : 0..(PC_SLICE_MAX - 1), bsd : 1..Len(Label)]
           \cup [slice : {NoSlice}, bsd : 1..Len(Label)]

root == \E d \in Slices \cup Letters, op \in Lookups : Give(op, d, "none") /\ UNCHANGED listed

(* set_partition_hidden_flag and parttype_func take a slice. *)
change == \E d \in Slices, op \in {"hide", "unhide"} : Give(op, d, "none") /\ UNCHANGED listed

parttype == \E d \in Slices, k \in NewTypes : Give("parttype", d, k) /\ UNCHANGED listed

(* Listing the partitions of a disk: geometry, or the completion of a name. *)
list == Give("list", WholeDisk, "none") /\ listed' = {}

Finish(how) == cmd' = NoCommand /\ it' = Start /\ ended' = how

(* The destination of next_partition's walk. *)
Dest == IF cmd.op \in Lookups THEN cmd.dest ELSE WholeDisk

(* real_open_partition's test; "(hd0,a)" is the first BSD partition a. *)
Opened(i) ==
  /\ Used(i.type)
  /\ \/ i.part = cmd.dest
     \/ cmd.dest.slice = NoSlice /\ cmd.dest.bsd = i.part.bsd

(* set_partition_hidden_flag's and parttype_func's test. *)
Matches(i) == i.part = cmd.dest

WalkOn(i) == it' = i /\ UNCHANGED <<disk, saved, cmd, ended, found, listed, commands>>

(* open_partition, for root and rootnoverify.  Without the partition root  *)
(* fails; rootnoverify does not, and the walk has changed                  *)
(* current_partition.                                                      *)
OpenStep(i) ==
  /\ cmd.op \in Lookups
  /\ \/ ~i.error /\ ~Opened(i) /\ WalkOn(i)
     \/ /\ ~i.error /\ Opened(i)
        /\ saved' = i.part /\ found' = Where(i)
        /\ Finish("ok") /\ UNCHANGED <<disk, listed, commands>>
     \/ /\ i.error /\ cmd.op = "root"
        /\ Finish("error") /\ UNCHANGED <<disk, saved, found, listed, commands>>
     \/ /\ i.error /\ cmd.op = "rootnoverify"
        /\ saved' = i.part
        /\ Finish("ok") /\ UNCHANGED <<disk, found, listed, commands>>

(* What is written to the entry. *)
Changed(e) ==
  CASE cmd.op = "hide"     -> [e EXCEPT !.hid = TRUE]
    [] cmd.op = "unhide"   -> [e EXCEPT !.hid = FALSE]
    [] cmd.op = "parttype" -> [e EXCEPT !.kind = cmd.kind, !.hid = FALSE]

ChangeStep(i) ==
  /\ cmd.op \in Changes
  /\ \/ ~i.error /\ ~Matches(i) /\ WalkOn(i)
     \/ /\ ~i.error /\ Matches(i)
        /\ disk' = [disk EXCEPT ![i.offset][i.entry + 1] = Changed(@)]
        /\ found' = Where(i)
        /\ listed' = IF disk' = disk THEN listed ELSE {}
        /\ Finish("ok") /\ UNCHANGED <<saved, commands>>
     \/ /\ i.error
        /\ Finish("error") /\ UNCHANGED <<disk, saved, found, listed, commands>>

(* The partitions that can be mounted are shown. *)
Shown(i) == Used(i.type) /\ ~IsExtended(i.type) /\ (IsBsd(i.type) => i.part.bsd # NoBsd)

ListStep(i) ==
  /\ cmd.op = "list"
  /\ \/ /\ ~i.error
        /\ it' = i
        /\ listed' = IF Shown(i) THEN listed \cup {[part |-> i.part, at |-> Where(i)]} ELSE listed
        /\ UNCHANGED <<disk, saved, cmd, ended, found, commands>>
     \/ i.error /\ Finish("ok") /\ UNCHANGED <<disk, saved, found, listed, commands>>

Step ==
  /\ ~Idle
  /\ \E i \in {next_partition(it, Dest)} : OpenStep(i) \/ ChangeStep(i) \/ ListStep(i)
-----------------------------------------------------------------------------
MBR == disk[0]

ActiveOnly(n) == [k \in 1..PC_SLICE_MAX |-> [MBR[k] EXCEPT !.active = (k = n)]]

(* make_saved_active: of a primary partition that is not extended. *)
makeactive ==
  /\ Idle /\ commands < MaxCommands /\ commands' = commands + 1
  /\ IF saved.slice < PC_SLICE_MAX /\ ~IsExtended(MBR[saved.slice + 1])
     THEN /\ disk' = [disk EXCEPT ![0] = IF MBR[saved.slice + 1].active THEN MBR ELSE ActiveOnly(saved.slice + 1)]
          /\ ended' = "ok"
     ELSE ended' = "error" /\ UNCHANGED disk
  /\ found' = <<>> /\ listed' = {}
  /\ UNCHANGED <<saved, cmd, it>>

(* partnew_func: a new primary partition, that is not active. *)
partnew ==
  /\ Idle /\ commands < MaxCommands /\ commands' = commands + 1
  /\ \E n \in 1..PC_SLICE_MAX, k \in NewTypes, s \in NewStarts : disk' = [disk EXCEPT ![0][n] = Entry(k, s)]
  /\ ended' = "ok" /\ found' = <<>> /\ listed' = {}
  /\ UNCHANGED <<saved, cmd, it>>
-----------------------------------------------------------------------------
Init ==
  /\ disk \in Disks
  /\ saved = WholeDisk /\ cmd = NoCommand /\ it = Start
  /\ ended = "none" /\ found = <<>> /\ listed = {} /\ commands = 0

Next == root \/ change \/ parttype \/ list \/ Step \/ makeactive \/ partnew

(* A walk does not stop by itself. *)
Spec == Init /\ [][Next]_vars /\ WF_vars(Step)
-----------------------------------------------------------------------------
(***************************************************************************)
(* PROPERTIES                                                              *)
(***************************************************************************)
(* The tables and the variables of next_partition keep their types: a walk *)
(* stays in the tables of the disk and in the letters of its label.        *)
TypeOK ==
  /\ \A t \in DOMAIN disk : Len(disk[t]) = PC_SLICE_MAX
                            /\ \A k \in 1..PC_SLICE_MAX : disk[t][k].kind \in Kinds
  /\ saved.slice \in 0..NoSlice /\ saved.bsd \in 0..Len(Label)
  /\ it.part.slice \in 0..NoSlice /\ it.part.bsd \in 0..Len(Label) /\ it.entry \in -1..(PC_SLICE_MAX - 1)
  /\ it.offset \in DOMAIN disk
  /\ cmd.op \in {"none", "list"} \cup Lookups \cup Changes
  /\ ended \in {"none", "ok", "error"} /\ commands \in 0..MaxCommands

(* The tables that a walk visits, by the number of links followed. *)
Reached ==
  LET step[n \in 0..Cardinality(DOMAIN disk)] ==
        IF n = 0 THEN [off |-> 0, ext |-> 0, end |-> FALSE]
        ELSE LET p == step[n - 1]
             IN IF p.end \/ p.off \notin DOMAIN disk \/ Extended(p.off) = {} THEN [p EXCEPT !.end = TRUE]
                ELSE LET off == NextTable(p.off, p.ext)
                     IN [off |-> off, ext |-> IF p.ext = 0 THEN off ELSE p.ext, end |-> FALSE]
  IN step
ChainEnds == Reached[Cardinality(DOMAIN disk)].end \/ Reached[Cardinality(DOMAIN disk)].off \notin DOMAIN disk

(* The entries of extended tables; the first may take a number though it   *)
(* is empty.                                                               *)
Logicals == UNION {{<<t, k>> : k \in 1..PC_SLICE_MAX} : t \in DOMAIN disk \ {0}}
FewSlices ==
  PC_SLICE_MAX + 1 + Cardinality({p \in Logicals : Used(disk[p[1]][p[2]]) /\ ~IsExtended(disk[p[1]][p[2]])})
    <= NoSlice

(* Every command on partitions returns, on a disk whose chain of extended  *)
(* tables ends and whose partitions have numbers below 0xFF.               *)
WalksEnd == (~Idle /\ ChainEnds /\ FewSlices) ~> Idle

(* Of what was listed, a partition is found by its number: root and        *)
(* rootnoverify open, and hide, unhide and parttype write to, the entry    *)
(* that the number was shown for.                                          *)
ListedIsFound ==
  [][\A l \in listed : ~Idle /\ Idle' /\ found' # <<>> /\ cmd.dest = l.part /\ FewSlices => found' = l.at]_vars

-----------------------------------------------------------------------------
(* What the documentation says and the code does not keep.                 *)

(* "Set the current root device to the device": a root command that does   *)
(* not report an error has set the partition that it was given.            *)
RootIsAsked ==
  [][cmd.op \in Lookups /\ ended' = "ok" /\ cmd.dest.slice # NoSlice => saved' = cmd.dest]_vars
=============================================================================
