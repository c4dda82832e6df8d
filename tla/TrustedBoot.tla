----------------------------- MODULE TrustedBoot -----------------------------
(***************************************************************************)
(* The callers of the measuring file layer: cmain, which loads the         *)
(* configuration (stage2/stage2.c), the menu's scripts and the command     *)
(* line (stage2/cmdline.c), and the commands that open files or decide     *)
(* what is booted (stage2/builtins.c, stage2/boot.c).  Every one of them   *)
(* is a program over grub_open, grub_read and grub_close whose steps are   *)
(* actions here; pc says which step is next, cmd whose step it is.         *)
(***************************************************************************)
EXTENDS MeasuredFile

CONSTANTS
  Images,       \* the files a command of a menu or of the user may name
  DefaultFile,  \* the file "default" next to the configuration file
  ConfigFile,   \* the configuration file, menu.lst
  SectorSize    \* SECTOR_SIZE

ASSUME NamesAssumption ==
  /\ Images \subseteq Files
  /\ {DefaultFile, ConfigFile} \subseteq Files

(* cat and get_line_from_config read byte by byte; chainloader and install *)
(* read sectors.                                                           *)
ASSUME ByteAssumption == 1 \in ReadLens
ASSUME SectorAssumption == SectorSize \in ReadLens /\ SectorSize > 0

VARIABLES
  pc, cmd,      \* the next step, and the procedure it belongs to
  flags,        \* BUILTIN_SCRIPT or BUILTIN_CMDLINE: who runs the command
  target,       \* the file the procedure was asked to open
  old_perform_sha1_value,
  kernel_type,
  loading,      \* the type of the kernel that load_image found, before it ends
  image,        \* the boot image: the file asked for, the file that is in memory
  mods,         \* the modules or the initrd loaded with it, in order
  overwritten   \* history: a file has since been read to where the image is

bootVars == <<pc, cmd, flags, target, old_perform_sha1_value, kernel_type,
              loading, image, mods, overwritten>>
vars == <<fileVars, bootVars>>

NoImage == [want |-> NoFile, got |-> NoFile]
KernelTypes == {"none", "linux", "multiboot", "bsd", "chainloader"}

(* The commands that open a file of the caller's choice, and the second    *)
(* and third files of cmp and install.  Some read a file at once.          *)
FileCommands == {"kernel", "initrd", "module", "chainloader", "configfile",
                 "checkfile", "cat", "find", "blocklist", "cmp", "embed",
                 "testload", "install"}
WholeReaders == {"blocklist", "cmp", "cmp2", "embed", "testload"}
InstallFiles == {"install", "stage2", "stage2b"}
Procedures == FileCommands \cup WholeReaders \cup InstallFiles
                           \cup {"default", "config", "savedefault"}

Steps == {"cmain", "menu", "init", "prompt", "args", "open", "failed", "read",
          "linux", "line", "check", "seek", "read2", "part", "rest", "patch",
          "close", "return", "restore", "booted"}

At(step) == pc = step /\ ~halted
Goto(step) == pc' = step /\ UNCHANGED <<cmd, flags, target>>
Call(c, f, step) == pc' = step /\ cmd' = c /\ target' = f /\ UNCHANGED flags

(* Measuring is put aside and, where the code gets that far, taken up      *)
(* again; the saved value is never cleared.                                *)
DisableMeasuring == /\ old_perform_sha1_value' = (old_perform_sha1_value \/ perform_sha1)
                    /\ MeasureOff
RestoreMeasuring == /\ IF old_perform_sha1_value THEN MeasureOn
                                                 ELSE UNCHANGED fileVars
                    /\ UNCHANGED old_perform_sha1_value

loadVars == <<kernel_type, loading, image, mods, overwritten>>
-----------------------------------------------------------------------------
(* cmain, the menu and the two interpreters *)

(* The default file is looked for unless the configuration is on the       *)
(* network; then measuring stays as it is.                                 *)
cmain ==
  /\ At("cmain")
  /\ \/ DisableMeasuring /\ Call("default", DefaultFile, "open")
     \/ /\ SetErrnum("none") /\ Call("config", ConfigFile, "open")
        /\ UNCHANGED old_perform_sha1_value
  /\ UNCHANGED loadVars

(* boot_entry of run_menu: measuring is switched on for the script. *)
boot_entry ==
  /\ At("menu")
  /\ MeasureOn
  /\ pc' = "init" /\ flags' = "script"
  /\ UNCHANGED <<cmd, target, old_perform_sha1_value, loadVars>>

enter_cmdline ==
  /\ At("menu")
  /\ pc' = "init" /\ flags' = "cmdline"
  /\ UNCHANGED <<fileVars, cmd, target, old_perform_sha1_value, loadVars>>

(* The command line and every script begin with no error and no kernel;    *)
(* the flags of the file layer are left as they are.                       *)
init_cmdline ==
  /\ At("init")
  /\ SetErrnum("none")
  /\ kernel_type' = "none"
  /\ Goto("prompt")
  /\ UNCHANGED <<old_perform_sha1_value, loading, image, mods, overwritten>>

(* Both interpreters begin a round with print_error, which may not return. *)
Stop ==
  /\ At("prompt")
  /\ print_error
  /\ UNCHANGED bootVars

(* An error ends a script: a fallback entry, run without a new boot_entry, *)
(* or the menu is next.  On the command line it is just forgotten.         *)
Forget ==
  /\ At("prompt")
  /\ errnum # "none" /\ ~(perform_sha1 /\ errnum = "hard")
  /\ SetErrnum("none")
  /\ \/ flags = "cmdline" /\ Goto("prompt")
     \/ flags = "script" /\ (Goto("init") \/ Goto("menu"))
  /\ UNCHANGED <<old_perform_sha1_value, loadVars>>

(* The script has ended without a kernel, or the user pressed ESC; without *)
(* a menu to go back to, cmain starts over.                                *)
Leave ==
  /\ At("prompt")
  /\ errnum = "none"
  /\ \/ flags = "script" /\ kernel_type = "none" /\ Goto("menu")
     \/ flags = "cmdline" /\ (Goto("menu") \/ Goto("cmain"))
  /\ UNCHANGED <<fileVars, old_perform_sha1_value, loadVars>>

AtCommand == At("prompt") /\ errnum = "none"

boot_func ==
  /\ AtCommand
  /\ UNCHANGED <<old_perform_sha1_value, loadVars>>
  /\ \/ kernel_type # "none" /\ Goto("booted") /\ UNCHANGED fileVars
     \/ kernel_type \in {"none", "multiboot"} /\ Goto("prompt") /\ SetErrnum("soft")

(* The system that was booted has the machine. *)
Booted == pc = "booted" /\ UNCHANGED vars
-----------------------------------------------------------------------------
(* The commands up to their grub_open *)

(* Mutant: measuring is not switched on. *)
LoadsUnmeasured(c, f) ==
  /\ AtCommand
  /\ c \in {"kernel", "initrd", "module"}
  /\ Call(c, f, "args")
  /\ UNCHANGED <<fileVars, old_perform_sha1_value, loadVars>>

(* kernel, initrd and module switch measuring on first. *)
LoadCommand(c, f) ==
  /\ AtCommand
  /\ c \in {"kernel", "initrd", "module"}
  /\ MeasureOn
  /\ Call(c, f, "args")
  /\ UNCHANGED <<old_perform_sha1_value, loadVars>>

(* A bad option, a command line that is too long, or no kernel to load the *)
(* module or the initrd for.                                               *)
BadArguments ==
  /\ At("args")
  /\ cmd = "kernel" \/ (cmd \in {"initrd", "module"} /\ kernel_type # "linux")
  /\ SetErrnum("hard")
  /\ Goto("prompt")
  /\ UNCHANGED <<old_perform_sha1_value, loadVars>>

load_image ==
  /\ At("args") /\ cmd = "kernel"
  /\ KernelOn
  /\ Goto("open")
  /\ UNCHANGED <<old_perform_sha1_value, loadVars>>

(* Mutant: whether there is a kernel is not looked at. *)
LoadsWithoutKernel ==
  /\ At("args") /\ cmd \in {"initrd", "module"}
  /\ Decompression
  /\ kernel_type = "linux" => no_decompression'
  /\ Goto("open")
  /\ UNCHANGED <<old_perform_sha1_value, loadVars>>

(* load_initrd, and load_module as modulenounzip calls it, do not          *)
(* decompress; load_module as module calls it does.                        *)
load_module ==
  /\ At("args") /\ cmd \in {"initrd", "module"}
  /\ kernel_type = "linux" \/ (cmd = "module" /\ kernel_type = "multiboot")
  /\ Decompression
  /\ kernel_type = "linux" => no_decompression'
  /\ Goto("open")
  /\ UNCHANGED <<old_perform_sha1_value, loadVars>>

(* chainloader, configfile and checkfile put measuring aside. *)
UnmeasuredCommand(c, f) ==
  /\ AtCommand
  /\ c \in {"chainloader", "configfile", "checkfile"}
  /\ DisableMeasuring
  /\ Call(c, f, "open")
  /\ UNCHANGED loadVars

savedefault_func ==
  /\ AtCommand
  /\ DisableMeasuring
  /\ Call("savedefault", DefaultFile, "args")
  /\ UNCHANGED loadVars

(* savedefault outside a script or with a bad argument returns at once. *)
SavedefaultArgs ==
  /\ At("args") /\ cmd = "savedefault"
  /\ \/ SetErrnum("hard") /\ Goto("prompt")
     \/ flags = "script" /\ UNCHANGED fileVars /\ Goto("open")
  /\ UNCHANGED <<old_perform_sha1_value, loadVars>>

(* testload is about to overwrite the kernel. *)
TestloadCommand(f) ==
  /\ AtCommand
  /\ kernel_type' = "none"
  /\ Call("testload", f, "open")
  /\ UNCHANGED <<fileVars, old_perform_sha1_value, loading, image, mods,
                 overwritten>>

(* install reads Stage 1 and Stage 2 as they are. *)
InstallCommand(f) ==
  /\ AtCommand
  /\ Decompression /\ no_decompression'
  /\ Call("install", f, "open")
  /\ UNCHANGED <<old_perform_sha1_value, loadVars>>

(* find only looks whether the file is there, the others read it. *)
PlainCommand(c, f) ==
  /\ AtCommand
  /\ c \in {"cat", "find", "blocklist", "cmp", "embed"}
  /\ Call(c, f, "open")
  /\ UNCHANGED <<fileVars, old_perform_sha1_value, loadVars>>

-----------------------------------------------------------------------------
(* Opening the file *)

(* cmain forgets any error of grub_open at once; the last file of install  *)
(* is not read from its beginning.                                         *)
AfterOpen == CASE cmd \in {"configfile", "find"} -> "close"
               [] cmd = "config"                 -> "line"
               [] cmd = "stage2b"                -> "seek"
               [] OTHER                          -> "read"

(* Mutant: an initrd is closed again without being read. *)
OpensUnread ==
  /\ At("open")
  /\ grub_open(target)
  /\ pc' = (IF ~opened' THEN "failed"
            ELSE IF cmd \in {"configfile", "find", "initrd"} THEN "close"
            ELSE AfterOpen)
  /\ UNCHANGED <<cmd, flags, target, old_perform_sha1_value, loadVars>>

Open ==
  /\ At("open")
  /\ grub_open(target)
  /\ pc' = (IF ~opened' THEN "failed"
            ELSE AfterOpen)
  /\ UNCHANGED <<cmd, flags, target, old_perform_sha1_value, loadVars>>

(* What the procedures do when there is no such file.  A kernel leaves     *)
(* measure_kernel set; chainloader and configfile leave measuring off, and *)
(* so does cmain when there is no default file.                            *)
OpenFailed ==
  /\ At("failed")
  /\ \/ /\ cmd \in {"kernel", "chainloader"}
        /\ Goto("prompt")
        /\ kernel_type' = "none"
        /\ UNCHANGED <<fileVars, old_perform_sha1_value, loading, image, mods,
                       overwritten>>
     \/ /\ cmd \in {"initrd", "module"} \cup InstallFiles
        /\ Decompression /\ ~no_decompression'
        /\ Goto("prompt")
        /\ UNCHANGED <<old_perform_sha1_value, loadVars>>
     \/ /\ cmd \in {"configfile", "cat"} \cup WholeReaders
        /\ Goto("prompt")
        /\ UNCHANGED <<fileVars, old_perform_sha1_value, loadVars>>
     \/ /\ cmd = "find"
        /\ SetErrnum("hard")
        /\ Goto("prompt")
        /\ UNCHANGED <<old_perform_sha1_value, loadVars>>
     \/ /\ cmd = "savedefault"
        /\ RestoreMeasuring
        /\ Goto("prompt")
        /\ UNCHANGED loadVars
     \/ /\ cmd = "default"
        /\ SetErrnum("none")
        /\ Call("config", ConfigFile, "open")
        /\ UNCHANGED <<old_perform_sha1_value, loadVars>>
     \/ /\ cmd = "config"
        /\ SetErrnum("none")
        /\ pc' = "init" /\ flags' = "cmdline"
        /\ UNCHANGED <<cmd, target, old_perform_sha1_value, loadVars>>
     \/ /\ cmd = "checkfile"
        /\ Halt
        /\ UNCHANGED bootVars

-----------------------------------------------------------------------------
(* Reading it *)

(* load_image: an image of no known format, one that does not fit into     *)
(* memory or one with options that cannot be parsed is rejected.           *)
RejectImage ==
  /\ At("read") /\ cmd = "kernel"
  /\ \E e \in {"soft", "hard"} : SetErrnum(e)
  /\ loading' = "none"
  /\ Goto("close")
  /\ UNCHANGED <<old_perform_sha1_value, kernel_type, image, mods, overwritten>>

(* A mem= on the command line of a Linux kernel is parsed before the rest  *)
(* of the file is read; whatever error there was is taken for one of the   *)
(* number and forgotten, that of the staging read too.                     *)
MemOption ==
  /\ At("read") /\ cmd = "kernel"
  /\ SetErrnum("none")
  /\ Goto("linux")
  /\ UNCHANGED <<old_perform_sha1_value, loadVars>>

(* The loader reads what it wants of the file. *)
ReadImage(types, lens) ==
  /\ cmd = "kernel"
  /\ \E len \in lens : grub_read(len)
  /\ IF errnum' = "none"
     THEN /\ loading' \in types
          /\ image' = [want |-> target, got |-> Source]
     ELSE loading' = "none" /\ UNCHANGED image
  /\ Goto("close")
  /\ UNCHANGED <<old_perform_sha1_value, kernel_type, mods, overwritten>>

(* Setup, then the rest. *)
LoadLinux == (At("read") \/ At("linux")) /\ ReadImage({"linux"}, ReadLens)

(* The sections of an a.out or ELF file, whose header may say anything of  *)
(* their lengths.                                                          *)
LoadSections == At("read") /\ ReadImage({"multiboot", "bsd"}, ReadLens \cup {-1})

(* load_initrd and load_module read the file at once; an empty one is not  *)
(* loaded, and a module must fit into memory.                              *)
LoadModule ==
  /\ At("read") /\ cmd \in {"initrd", "module"}
  /\ \/ /\ grub_read(-1)
        /\ mods' = IF errnum' = "none" /\ Clamp(-1) > 0
                   THEN Append(mods, [want |-> target, got |-> Source])
                   ELSE mods
     \/ kernel_type = "multiboot" /\ SetErrnum("hard") /\ UNCHANGED mods
  /\ Goto("close")
  /\ UNCHANGED <<old_perform_sha1_value, kernel_type, loading, image, overwritten>>

(* grub_read returns the length of a sector: from staging memory always.   *)
Complete == measure_kernel \/ Clamp(SectorSize) = SectorSize

(* chainloader wants one whole sector, with the signature or --force. *)
LoadSector ==
  /\ At("read") /\ cmd = "chainloader"
  /\ grub_read(SectorSize)
  /\ \/ /\ errnum' = "none" /\ Complete
        /\ loading' = "chainloader"
        /\ image' = [want |-> target, got |-> Source]
     \/ loading' = "none" /\ UNCHANGED image
  /\ Goto("close")
  /\ UNCHANGED <<old_perform_sha1_value, kernel_type, mods, overwritten>>

(* savedefault, checkfile and cmain read once what they need. *)
ReadOnce ==
  /\ At("read") /\ cmd \in {"savedefault", "checkfile", "default"}
  /\ \/ \E len \in ReadLens : grub_read(len)
     \/ cmd = "checkfile" /\ SetErrnum("hard")
  /\ Goto("close")
  /\ UNCHANGED <<old_perform_sha1_value, loadVars>>

(* cat and get_line_from_config read byte by byte until a read delivers    *)
(* nothing.  For get_line_from_config this also ends a line.               *)
ReadByte ==
  /\ At("read") /\ cmd \in {"cat", "config"}
  /\ grub_read(1)
  /\ \/ Goto(IF errnum' # "none" \/ (~measure_kernel /\ Clamp(1) = 0)
             THEN "close" ELSE "read")
     \/ cmd = "config" /\ errnum' # "none" /\ Goto("line")
  /\ UNCHANGED <<old_perform_sha1_value, loadVars>>

(* cmain forgets an error once there is a line, and reads the next one.    *)
ConfigLine ==
  /\ At("line")
  /\ SetErrnum("none")
  /\ Goto("read")
  /\ UNCHANGED <<old_perform_sha1_value, loadVars>>

(* 1 MB is where a kernel has been loaded, its modules may come after it.  *)
Overwrites == /\ overwritten' = TRUE
              /\ UNCHANGED <<kernel_type, loading, image, mods>>

(* Mutant: only a part is read. *)
ReadsAPart ==
  /\ At("read") /\ cmd \in WholeReaders
  /\ Overwrites
  /\ grub_read(1)
  /\ Goto(IF cmd = "testload" THEN "seek" ELSE "close")
  /\ UNCHANGED old_perform_sha1_value

(* blocklist, cmp, embed and testload ask for all of the file.  memcheck   *)
(* refuses a length of -1 at 1 MB, where all but the second file of cmp    *)
(* go; that one is read only if it has the size of the first.              *)
ReadWhole ==
  /\ At("read") /\ cmd \in WholeReaders
  /\ Overwrites
  /\ \/ grub_read(-1) /\ (cmd # "cmp2" => ~wild')
     \/ cmd = "cmp2" /\ UNCHANGED fileVars
  /\ Goto(IF cmd = "testload" THEN "seek" ELSE "close")
  /\ UNCHANGED old_perform_sha1_value

(* testload goes back and reads the file piece by piece, twice; it looks   *)
(* at no result.                                                           *)
ReadPart ==
  /\ At("part")
  /\ \E len \in ReadLens : grub_read(len)
  /\ \E step \in {"part", "seek", "close"} : Goto(step)
  /\ UNCHANGED <<old_perform_sha1_value, loadVars>>

(* testload to the beginning, install to the second sector. *)
Seek ==
  /\ At("seek")
  /\ LET offset == IF cmd = "testload" THEN 0 ELSE SectorSize
     IN IF offset <= filemax THEN grub_seek(offset) ELSE UNCHANGED fileVars
  /\ Goto(CASE cmd = "testload" -> "part"
            [] cmd = "stage2"   -> "rest"
            [] OTHER            -> "read2")
  /\ UNCHANGED <<old_perform_sha1_value, loadVars>>

(* install reads a sector of Stage 1, without a look at the result, two of *)
(* Stage 2 and, if that is a Stage 1.5, one of the Stage 2 it loads; to    *)
(* 1 MB too.                                                               *)
ReadSector ==
  /\ cmd \in InstallFiles
  /\ Overwrites
  /\ At("read") \/ At("read2")
  /\ grub_read(SectorSize)
  /\ \/ /\ Complete \/ cmd = "install"
        /\ Goto(CASE cmd = "stage2b"                 -> "close"
                  [] cmd = "stage2" /\ pc = "read"   -> "read2"
                  [] OTHER                           -> "check")
     \/ /\ errnum' # "none" \/ ~Complete
        /\ cmd # "install" /\ Goto("close")
  /\ UNCHANGED old_perform_sha1_value

(* The device and Stage 1, or the version of Stage 2 and its blocklist. *)
CheckSector ==
  /\ At("check")
  /\ \/ cmd = "install" /\ (\E e \in Errors : SetErrnum(e)) /\ Goto("close")
     \/ cmd = "stage2" /\ (\E e \in Errors \ {"none"} : SetErrnum(e)) /\ Goto("close")
     \/ cmd = "stage2" /\ UNCHANGED fileVars /\ Goto("seek")
  /\ UNCHANGED <<old_perform_sha1_value, loadVars>>

(* The rest of Stage 2: its sectors are noted. *)
ReadRest ==
  /\ At("rest")
  /\ grub_read(-1) /\ ~wild'
  /\ \/ Clamp(-1) > 0 /\ Goto("patch")
     \/ (errnum' # "none" \/ Clamp(-1) = 0) /\ Goto("close")
  /\ UNCHANGED <<old_perform_sha1_value, loadVars>>

(* Stage 2 and Stage 1 are written; before that, the file that a Stage 1.5 *)
(* is to load is opened, without a grub_close.                             *)
PatchStage2 ==
  /\ At("patch")
  /\ \/ (\E e \in Errors : SetErrnum(e)) /\ Goto("close")
     \/ Abandon /\ \E f \in Images : Call("stage2b", f, "open")
  /\ UNCHANGED <<old_perform_sha1_value, loadVars>>

Close ==
  /\ At("close")
  /\ grub_close
  /\ Goto("return")
  /\ UNCHANGED <<old_perform_sha1_value, loadVars>>
-----------------------------------------------------------------------------
(* After grub_close *)

(* load_image: the type must be the one that --type suggested, if any.  A  *)
(* new kernel has no modules yet.                                          *)
KernelReturn ==
  /\ At("return") /\ cmd = "kernel"
  /\ Goto("prompt")
  /\ \/ kernel_type' = loading /\ UNCHANGED fileVars
     \/ kernel_type' = "none" /\ SetErrnum("soft")
  /\ mods' = IF kernel_type' = "none" THEN mods ELSE <<>>
  /\ overwritten' = (overwritten /\ kernel_type' = "none")
  /\ UNCHANGED <<old_perform_sha1_value, loading, image>>

ModuleReturn ==
  /\ At("return") /\ cmd \in {"initrd", "module"}
  /\ Decompression /\ ~no_decompression'
  /\ Goto("prompt")
  /\ UNCHANGED <<old_perform_sha1_value, loadVars>>

(* chainloader does not take measuring up again. *)
ChainloaderReturn ==
  /\ At("return") /\ cmd = "chainloader"
  /\ kernel_type' = loading
  /\ IF loading = "chainloader" THEN SetErrnum("none")
     ELSE IF errnum = "none" THEN SetErrnum("soft") ELSE UNCHANGED fileVars
  /\ Goto("prompt")
  /\ UNCHANGED <<old_perform_sha1_value, loading, image, mods, overwritten>>

(* configfile restarts cmain with the new file. *)
ConfigfileReturn ==
  /\ At("return") /\ cmd = "configfile"
  /\ RestoreMeasuring
  /\ Goto("cmain")
  /\ UNCHANGED loadVars

(* The entries of the checkfile: the module Checkfile has them.  One that  *)
(* is malformed or cannot be hashed, or ESC after a mismatch, stops the    *)
(* machine; otherwise any error of the last file hashed is left in errnum. *)
CheckfileReturn ==
  /\ At("return") /\ cmd = "checkfile"
  /\ \/ Halt /\ UNCHANGED <<pc, cmd, flags, target>>
     \/ (\E e \in Errors : SetErrnum(e)) /\ Goto("restore")
  /\ UNCHANGED <<old_perform_sha1_value, loadVars>>

CheckfileRestore ==
  /\ At("restore")
  /\ RestoreMeasuring
  /\ Goto("prompt")
  /\ UNCHANGED loadVars

(* The default file was too short, or could not be written. *)
SavedefaultReturn ==
  /\ At("return") /\ cmd = "savedefault"
  /\ SetErrnum("hard") \/ UNCHANGED fileVars
  /\ Goto("failed")
  /\ UNCHANGED <<old_perform_sha1_value, loadVars>>

DefaultReturn ==
  /\ At("return") /\ cmd = "default"
  /\ RestoreMeasuring
  /\ Goto("failed")
  /\ UNCHANGED loadVars

(* With an entry there is a menu, without one only the command line. *)
ConfigReturn ==
  /\ At("return") /\ cmd = "config"
  /\ \/ Goto("menu")
     \/ pc' = "init" /\ flags' = "cmdline" /\ UNCHANGED <<cmd, target>>
  /\ UNCHANGED <<fileVars, old_perform_sha1_value, loadVars>>

PlainReturn ==
  /\ At("return") /\ cmd \in {"cat", "find", "blocklist", "cmp2", "testload"}
  /\ Goto("prompt")
  /\ UNCHANGED <<fileVars, old_perform_sha1_value, loadVars>>

(* cmp goes on to its second file if the first was read, embed writes what *)
(* it has read.                                                            *)
CmpReturn ==
  /\ At("return") /\ cmd = "cmp"
  /\ \/ /\ errnum = "none" \/ filemax = 0
        /\ \E f \in Images : Call("cmp2", f, "open")
     \/ errnum # "none" /\ Goto("prompt")
  /\ UNCHANGED <<fileVars, old_perform_sha1_value, loadVars>>

EmbedReturn ==
  /\ At("return") /\ cmd = "embed"
  /\ \E e \in (IF errnum = "none" THEN Errors ELSE {errnum}) : SetErrnum(e)
  /\ Goto("prompt")
  /\ UNCHANGED <<old_perform_sha1_value, loadVars>>

(* install goes on to Stage 2, or has written or failed to write. *)
InstallReturn ==
  /\ At("return") /\ cmd \in InstallFiles
  /\ \/ /\ cmd = "install" /\ UNCHANGED fileVars
        /\ \E f \in Images : Call("stage2", f, "open")
     \/ (\E e \in Errors : SetErrnum(e)) /\ Goto("failed")
  /\ UNCHANGED <<old_perform_sha1_value, loadVars>>

-----------------------------------------------------------------------------
BootInit ==
  /\ Init
  /\ pc = "cmain" /\ cmd = "default" /\ flags = "script" /\ target = NoFile
  /\ old_perform_sha1_value = FALSE
  /\ kernel_type = "none" /\ loading = "none"
  /\ image = NoImage /\ mods = <<>> /\ overwritten = FALSE

Command(f) == \/ \E c \in FileCommands : \/ LoadCommand(c, f)
                                         \/ UnmeasuredCommand(c, f)
                                         \/ PlainCommand(c, f)
              \/ TestloadCommand(f) \/ InstallCommand(f)

BootNext ==
  \/ cmain \/ boot_entry \/ enter_cmdline \/ init_cmdline
  \/ Stop \/ Forget \/ Leave
  \/ boot_func \/ Booted
  \/ \E f \in Images : Command(f)
  \/ savedefault_func \/ SavedefaultArgs
  \/ BadArguments \/ load_image \/ load_module
  \/ Open \/ OpenFailed
  \/ RejectImage \/ MemOption \/ LoadLinux \/ LoadSections \/ LoadModule
  \/ LoadSector \/ ReadOnce \/ ReadByte
  \/ ReadWhole \/ ReadPart \/ Seek
  \/ ReadSector \/ CheckSector \/ ReadRest \/ PatchStage2
  \/ ConfigLine \/ Close
  \/ KernelReturn \/ ModuleReturn \/ ChainloaderReturn \/ ConfigfileReturn
  \/ CheckfileReturn \/ CheckfileRestore \/ SavedefaultReturn \/ DefaultReturn
  \/ ConfigReturn \/ PlainReturn \/ CmpReturn \/ EmbedReturn \/ InstallReturn
  \/ grub_halt /\ UNCHANGED bootVars

BootSpec == BootInit /\ [][BootNext]_vars

-----------------------------------------------------------------------------
(* Properties *)

(* The variables of the commands (builtins.c, boot.c) keep their types.    *)
BootTypeOK ==
  /\ TypeOK
  /\ pc \in Steps /\ flags \in {"script", "cmdline"}
  /\ cmd \in Procedures
  /\ target \in Files \cup {NoFile}
  /\ old_perform_sha1_value \in BOOLEAN
  /\ kernel_type \in KernelTypes /\ loading \in KernelTypes
  /\ image \in [want: Files \cup {NoFile}, got: Files \cup {NoFile}]
  /\ mods \in Seq([want: Files \cup {NoFile}, got: Files \cup {NoFile}])
  /\ overwritten \in BOOLEAN

(* The commands use the file layer the way MeasuredFile assumes: each of   *)
(* their steps is one of its steps.  In particular nothing changes the     *)
(* flags under an open file, and a file whose size was not published by    *)
(* the header test is read before it is closed (boot.c, builtins.c).       *)
FollowsFileProtocol == Spec

(* What is running after a boot that was not a chainloader's. *)
Loaded == <<image>> \o mods

(* Whether digest d is that of the file an image was to be: the image is   *)
(* that file, as a whole, or the file could not be read and the image is   *)
(* something else.                                                         *)
Measures(d, img) ==
  /\ d.file = img.want
  /\ \/ d.whole /\ img.got = img.want
     \/ d.failed /\ img.got = NoFile

(* Each image of L that is not excused is measured; the order of their     *)
(* digests is that of L.                                                   *)
MeasuredInOrder(L, digests, excused) ==
  \E at \in [1 .. Len(L) -> 0 .. Len(digests)] :
    \A i \in 1 .. Len(L) : L[i].want \notin excused =>
      /\ at[i] # 0
      /\ Measures(digests[at[i]], L[i])
      /\ \A j \in 1 .. i - 1 : L[j].want \notin excused => at[j] < at[i]

(* A kernel is only started (boot_func) when it and its modules or initrd  *)
(* were each measured into PCR 14, as a whole and in the order they were   *)
(* loaded, or the user accepted the warning for that very file, and what   *)
(* the loader put into memory is the file that was measured; no            *)
(* combination of commands that switch measuring off gets around this.     *)
(* The one exception is a Linux kernel whose staging read failed and whose *)
(* mem= option made load_image forget that: PCR 14 has a digest for it,    *)
(* but of no file.  That nothing else was read over an image before it is  *)
(* started is not said.                                                    *)
BootedMeasured ==
  pc = "booted" /\ tpm /\ kernel_type # "chainloader" =>
    /\ MeasuredInOrder(Loaded, pcr14, accepted)
    /\ \A i \in 1 .. Len(Loaded) :
         \/ Loaded[i].want \in accepted \/ Loaded[i].got = Loaded[i].want
         \/ i = 1 /\ kernel_type = "linux"

(* load_initrd, load_module and the second file of cmp ask grub_read for   *)
(* -1 bytes, which it passes on to memcpy unchanged when measure_kernel is *)
(* set; a measure_kernel left over from a kernel that could not be opened  *)
(* never gets that far.  Only the loader of a kernel whose header has a    *)
(* negative length overwrites memory.                                      *)
NoWildCopy == wild => cmd = "kernel"

(* The commands that go back in a file (testload, install) or pass over a  *)
(* part of it (install) count more bytes than it has or all of them: they  *)
(* have no digest extended that is not of the whole file, unless a call    *)
(* failed.                                                                 *)
DigestsWhole ==
  \A i \in 1 .. Len(pcr14) : pcr14[i].whole \/ pcr14[i].failed

-----------------------------------------------------------------------------
(* What the code and its documents say and the commands do not keep.       *)

(* "if we are loading a kernel, then the data is already in memory"        *)
(* (grub_read): reads are served from the staging memory for a kernel only.*)
KernelModeOnlyForKernels == opened /\ measure_kernel => cmd = "kernel"

(* "PCR 14 contains all files which are actually loaded" (ORIGINAL_        *)
(* TRUSTEDGRUB_README): a kernel that boot_func starts is the file that    *)
(* was asked for, and PCR 14 has its digest.                               *)
LoadedFilesInPCR14 ==
  pc = "booted" /\ tpm /\ kernel_type # "chainloader" =>
    \A i \in 1 .. Len(Loaded) :
      \/ Loaded[i].want \in accepted
      \/ /\ Loaded[i].got = Loaded[i].want /\ ~overwritten
         /\ \E j \in 1 .. Len(pcr14) : pcr14[j].file = Loaded[i].want /\ pcr14[j].whole
=============================================================================
