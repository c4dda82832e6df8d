------------------------------- MODULE Install -------------------------------
(***************************************************************************)
(* The commands embed, install and setup (stage2/builtins.c): they make a  *)
(* boot sector load Stage 2, directly or through a Stage 1.5 that is       *)
(* embedded after the boot sector.                                         *)
(*                                                                         *)
(* The disk has an MBR and one partition, and the partition holds the      *)
(* image files.  Between two writes of a sector the commands only read, so *)
(* a step is a write; any write may fail, and the machine may crash        *)
(* between any two.                                                        *)
(***************************************************************************)
EXTENDS Integers, Sequences, SequencesExt

CONSTANTS
  Starts,        \* where the partition may start
  Reserves,      \* sectors that its file system leaves for an embedded image
  Layouts,       \* Stage 2's sectors, counted from the end of that reserve
  Stage15Size,   \* sectors of the Stage 1.5
  DiskSize,      \* sectors of the disk
  MaxRuns,       \* entries of the block list in the first sector of an image
  MaxCommands    \* bound: commands given

ASSUME SizeAssumption ==
  /\ Stage15Size \in Nat /\ Stage15Size > 1
  /\ MaxRuns \in Nat \ {0} /\ DiskSize \in Nat /\ MaxCommands \in Nat

ASSUME LayoutAssumption ==
  /\ Starts \subseteq Nat \ {0} /\ Reserves \subseteq Nat
  /\ \A l \in Layouts :
       /\ l \in Seq(Nat \ {0}) /\ Len(l) > 1 /\ IsInjective(l)
       /\ \A p \in Starts, r \in Reserves : \A i \in 1..Len(l) : p + r + l[i] < DiskSize

VARIABLES
  lay,           \* how the disk is laid out: start, reserve, Stage 2's sectors, EZ-BIOS
  disk,          \* sector -> its contents
  pc,            \* what the command does next
  job,           \* its arguments and what it has found out
  result,        \* how the last command ended
  reused,        \* history: at its beginning, some boot sector used an embedded image
  commands

vars == <<lay, disk, pc, job, result, reused, commands>>

Sectors == 0..(DiskSize - 1)
MBR == 0
BootSectors == {MBR, lay.start}

(* A sector: of which image, its number there, and what is patched in it:  *)
(* where Stage 1 finds the next image, the block list of a first sector,   *)
(* the file that a second sector names.  table: the BPB and the partition  *)
(* table of a boot sector.                                                 *)
Cell(img, n) == [img |-> img, n |-> n, next |-> 0, list |-> <<>>, conf |-> "default", table |-> "none"]
Data == Cell("data", 0)
Foreign == [Cell("os", 0) EXCEPT !.table = "table"]

(* Where a Stage 1.5 goes: from the sector after the boot sector. *)
AreaOf(b) == b + 1
Stage15At(a) == [i \in 1..Stage15Size |-> a + i - 1]
Stage2 == lay.stage2
-----------------------------------------------------------------------------
(* The boot: Stage 1 loads a first sector, which loads the sectors of its  *)
(* block list; a Stage 1.5 reads the Stage 2 that it names as a file.      *)

RunSectors(r) == [i \in 1..r.len |-> r.start + i - 1]

Listed(list) == FlattenSeq([k \in 1..Len(list) |-> RunSectors(list[k])])

IsImage(img, s) == \A i \in 1..Len(s) : disk[s[i]].img = img /\ disk[s[i]].n = i - 1

Loads(first) ==
  LET h == disk[first]
      s == <<first>> \o Listed(h.list)
  IN /\ IsImage(h.img, s)
     /\ \/ h.img = "s2" /\ Len(s) = Len(Stage2) /\ disk[s[2]].conf = "menu"
        \/ h.img = "s15" /\ Len(s) = Stage15Size /\ disk[s[2]].conf = "stage2"
           /\ IsImage("s2", Stage2) /\ disk[Stage2[2]].conf = "menu"

Boots(b) == disk[b].img = "os" \/ (disk[b].img = "stage1" /\ Loads(disk[b].next))

UsesArea(b) == disk[b].img = "stage1" /\ disk[disk[b].next].img = "s15"
-----------------------------------------------------------------------------
NoJob == [dest |-> MBR, at |-> <<>>, attempt |-> 1, i |-> 0, setup |-> FALSE, image |-> "s2"]

(* The command ends. *)
End(r) == pc' = "idle" /\ result' = r /\ job' = NoJob

Begin(next, j) ==
  /\ pc = "idle" /\ commands < MaxCommands
  /\ pc' = next /\ job' = j /\ result' = "none"
  /\ reused' = \E b \in BootSectors : UsesArea(b)
  /\ commands' = commands + 1
  /\ UNCHANGED <<lay, disk>>

(* setup embeds the Stage 1.5 for the file system of the image files, and  *)
(* then installs; where there is none, it is install.                      *)
setup == \E b \in BootSectors : Begin("embed", [NoJob EXCEPT !.dest = b, !.setup = TRUE])

embed == \E b \in BootSectors : Begin("embed", [NoJob EXCEPT !.dest = b])

install == \E b \in BootSectors : Begin("install", [NoJob EXCEPT !.dest = b])

(* An embedding that fails is not fatal to setup: it tries the device of   *)
(* the image files, and then goes on without a Stage 1.5.                  *)
EmbedFailed ==
  \/ ~job.setup /\ End("failed")
  \/ job.setup /\ job.attempt = 1
     /\ pc' = "embed" /\ job' = [job EXCEPT !.attempt = 2] /\ UNCHANGED result
  \/ job.setup /\ job.attempt = 2
     /\ pc' = "install" /\ UNCHANGED <<job, result>>

(* Where this attempt embeds: after which boot sector. *)
Device == IF job.attempt = 1 THEN job.dest ELSE lay.start

(* After the MBR, up to the first partition, unless EZ-BIOS is there; in a *)
(* partition, in what its file system leaves free.                         *)
Room(b) ==
  IF b = MBR THEN lay.start - 1 >= Stage15Size /\ ~lay.ezbios ELSE lay.reserve >= Stage15Size

(* embed_func up to its writes: any read may fail. *)
EmbedCheck ==
  /\ pc = "embed"
  /\ \/ /\ Room(Device)
        /\ pc' = "embedding"
        /\ job' = [job EXCEPT !.at = Stage15At(AreaOf(Device)), !.i = 1]
        /\ UNCHANGED result
     \/ EmbedFailed
  /\ UNCHANGED <<lay, disk, reused, commands>>

(* devwrite of one sector of the Stage 1.5, as the file has it. *)
EmbedWrite ==
  /\ pc = "embedding"
  /\ disk' = [disk EXCEPT ![job.at[job.i]] = Cell("s15", job.i - 1)]
  /\ \/ job.i < Stage15Size /\ job' = [job EXCEPT !.i = @ + 1] /\ UNCHANGED <<pc, result>>
     \/ job.i = Stage15Size /\ ~job.setup /\ End("embedded")
     \/ job.i = Stage15Size /\ job.setup
        /\ pc' = "install" /\ job' = [job EXCEPT !.image = "s15"] /\ UNCHANGED result
  /\ UNCHANGED <<lay, reused, commands>>

EmbedWriteFails ==
  /\ pc = "embedding" /\ EmbedFailed
  /\ UNCHANGED <<lay, disk, reused, commands>>
-----------------------------------------------------------------------------
(* disk_read_blocklist_func: the next sector of the image lengthens the    *)
(* last run or begins one.                                                 *)
NewRun(s) == [start |-> s, len |-> 1]

(* Mutant: any sector after the run's lengthens it. *)
Lengthens(list, s) == list # <<>> /\ Last(list).start < s

Follows(list, s) == list # <<>> /\ Last(list).start + Last(list).len = s

AddSector(list, s) ==
  IF Follows(list, s) THEN [list EXCEPT ![Len(list)].len = @ + 1] ELSE Append(list, NewRun(s))

(* The block list after each of the sectors of s; the first of them is not *)
(* in it, it is where the list is.                                         *)
BlockLists(s) ==
  LET list[i \in 1..Len(s)] == IF i = 1 THEN <<>> ELSE AddSector(list[i - 1], s[i])
  IN list

BlockList(s) == BlockLists(s)[Len(s)]

ImageSectors == IF job.image = "s15" THEN job.at ELSE Stage2

Fits(list) == Len(list) <= MaxRuns

(* install_func up to its writes: reading the images may fail, and an      *)
(* image of too many pieces does.                                          *)
InstallRead ==
  /\ pc = "install"
  /\ \/ Fits(BlockList(ImageSectors)) /\ pc' = "writing" /\ job' = [job EXCEPT !.i = 1] /\ UNCHANGED result
     \/ End("failed")
  /\ UNCHANGED <<lay, disk, reused, commands>>

(* Mutant: Stage 1 is written before the image. *)
StageOneFirst(image) ==
  IF image = "s15" THEN <<"config", "stage1", "first", "second">> ELSE <<"stage1", "first", "second">>

(* What is written, in this order: the second sector of the Stage 2 that a *)
(* Stage 1.5 will load; the first two sectors of the image; Stage 1.       *)
Order(image) ==
  IF image = "s15" THEN <<"config", "first", "second", "stage1">> ELSE <<"first", "second", "stage1">>

(* Which sector a step writes, and what. *)
Place(step) ==
  CASE step = "config" -> Stage2[2]
    [] step = "first"  -> ImageSectors[1]
    [] step = "second" -> ImageSectors[2]
    [] step = "stage1" -> job.dest

(* Mutant: the boot sector's own data are lost. *)
BareStageOne == [Cell("stage1", 0) EXCEPT !.next = ImageSectors[1]]

(* Stage 1 keeps the BPB and the partition table of the old sector. *)
StageOne == [Cell("stage1", 0) EXCEPT !.next = ImageSectors[1], !.table = disk[job.dest].table]

Patched(step) ==
  CASE step = "config" -> [disk[Stage2[2]] EXCEPT !.conf = "menu"]
    [] step = "first"  -> [disk[ImageSectors[1]] EXCEPT !.list = BlockList(ImageSectors)]
    [] step = "second" -> [disk[ImageSectors[2]] EXCEPT !.conf = IF job.image = "s15" THEN "stage2" ELSE "menu"]
    [] step = "stage1" -> StageOne

InstallWrite ==
  /\ pc = "writing"
  /\ LET step == Order(job.image)[job.i]
     IN /\ disk' = [disk EXCEPT ![Place(step)] = Patched(step)]
        /\ \/ job.i = Len(Order(job.image)) /\ End("installed")
           \/ job.i < Len(Order(job.image)) /\ job' = [job EXCEPT !.i = @ + 1] /\ UNCHANGED <<pc, result>>
  /\ UNCHANGED <<lay, reused, commands>>

InstallWriteFails ==
  /\ pc = "writing" /\ End("failed")
  /\ UNCHANGED <<lay, disk, reused, commands>>

Crash ==
  /\ pc # "idle" /\ End("none")
  /\ UNCHANGED <<lay, disk, reused, commands>>
-----------------------------------------------------------------------------
(* Another system's boot sectors, and the images as they were copied. *)
Init ==
  /\ lay \in {[start |-> p, reserve |-> r, ezbios |-> e,
               stage2 |-> [i \in 1..Len(l) |-> p + r + l[i]]] :
               p \in Starts, r \in Reserves, e \in BOOLEAN, l \in Layouts}
  /\ disk = [s \in Sectors |->
               IF s \in BootSectors THEN Foreign
               ELSE IF \E i \in 1..Len(Stage2) : Stage2[i] = s
               THEN Cell("s2", (CHOOSE i \in 1..Len(Stage2) : Stage2[i] = s) - 1)
               ELSE Data]
  /\ pc = "idle" /\ job = NoJob /\ result = "none" /\ reused = FALSE /\ commands = 0

Next == setup \/ embed \/ install \/ EmbedCheck \/ EmbedWrite \/ EmbedWriteFails
        \/ InstallRead \/ InstallWrite \/ InstallWriteFails \/ Crash

Spec == Init /\ [][Next]_vars
-----------------------------------------------------------------------------
(***************************************************************************)
(* PROPERTIES                                                              *)
(***************************************************************************)
(* The sectors and the variables of the commands keep their types: no      *)
(* block list grows into the code of its sector.                           *)
Run == [start : Nat, len : Nat]
SectorCell ==
  [img : {"os", "stage1", "s15", "s2", "data"}, n : Nat, next : Sectors,
   list : {l \in Seq(Run) : Fits(l)}, conf : {"default", "menu", "stage2"}, table : {"none", "table"}]

TypeOK ==
  /\ disk \in [Sectors -> SectorCell]
  /\ pc \in {"idle", "embed", "embedding", "install", "writing"}
  /\ job \in [dest : BootSectors, at : Seq(Sectors), attempt : 1..2, i : Nat,
               setup : BOOLEAN, image : {"s2", "s15"}]
  /\ result \in {"none", "failed", "embedded", "installed"}
  /\ reused \in BOOLEAN /\ commands \in 0..MaxCommands

(* Unless a command finds an embedded image in use, a crash or a failed    *)
(* write at any point of it leaves a disk that still boots: Stage 1, which *)
(* switches from the old boot to the new one, is written last.             *)
CrashSafe == ~reused /\ result # "installed" => \A b \in BootSectors : Boots(b)

(* When install reports success, the boot sector loads Stage 2, whatever   *)
(* failed or crashed before: the block list is right and the images are    *)
(* whole and know their configuration file.                                *)
InstalledBoots ==
  [][\A b \in BootSectors : pc = "writing" /\ job.dest = b /\ result' = "installed" => Boots(b)']_vars

(* The commands write to the boot sector that they were given, keeping its *)
(* partition table, to Stage 2's sectors, and to sectors that belong to no *)
(* one: not to a partition's, nor to EZ-BIOS's.                            *)
Free(s) == \/ s \in 1..(lay.start - 1) /\ ~lay.ezbios
           \/ s \in (lay.start + 1)..(lay.start + lay.reserve)

WritesOwnSectors ==
  [][\A s \in DOMAIN disk : disk'[s] # disk[s] =>
       \/ s = job.dest /\ disk'[s].table = disk[s].table
       \/ disk[s].img = "s2" /\ disk'[s].img = "s2" /\ disk'[s].n = disk[s].n
       \/ Free(s)]_vars
=============================================================================
