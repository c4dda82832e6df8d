-------------------------- MODULE TrustedBootProofs --------------------------
(***************************************************************************)
(* Proofs about TrustedBoot: the commands use the file layer the way       *)
(* MeasuredFile assumes, so that what is proved of it holds under them,    *)
(* no digest is extended of a file that was not gone through as a whole,   *)
(* and no kernel is started that was not measured.                         *)
(***************************************************************************)
EXTENDS TrustedBoot, MeasuredFileProofs

LoadCommands == {"kernel", "initrd", "module"}
OpenSteps == {"read", "linux", "line", "check", "seek", "read2", "part",
              "rest", "patch", "close"}
IdleSteps == {"cmain", "menu", "init", "prompt", "restore", "booted"}

(***************************************************************************)
(* How the commands use the file layer: there is a file to open; from open *)
(* to close it is the one the command asked for; some steps are those of   *)
(* one command; only initrd, module and install switch decompression off,  *)
(* and back on; a loader's read that does not fail follows no failed one,  *)
(* but for mem=, when the staging memory holds no file; the size of a file *)
(* that is not decompressed is known once it is read; a loader has         *)
(* measuring on; measure_kernel is that of the kernel command, or of one   *)
(* that failed, after which there is no kernel to load a module for; a     *)
(* kernel from a blocklist is not hashed.                                  *)
(***************************************************************************)
HasTarget == pc = "cmain" \/ target \in Files
HoldsTarget == pc \in OpenSteps => opened /\ file = target
StepOwners ==
  /\ pc = "line" => cmd = "config"
  /\ pc = "linux" => cmd = "kernel"
  /\ pc = "part" => cmd = "testload"
  /\ pc \in {"check", "read2", "rest", "patch"} => cmd \in InstallFiles
  /\ pc \in {"rest", "patch"} => cmd = "stage2"
  /\ pc = "seek" => cmd \in {"testload", "stage2", "stage2b"}
RawOnlyForModules ==
  no_decompression => /\ cmd \in {"initrd", "module"} \cup InstallFiles
                      /\ pc \notin IdleSteps \cup {"args"}
InstallReadsRaw ==
  cmd \in InstallFiles /\ pc \in OpenSteps \cup {"open", "return"} => no_decompression
NoTroubleYet ==
  pc = "read" /\ cmd \in LoadCommands /\ errnum = "none" => ~trouble
StagingLost ==
  pc \in {"read", "linux"} /\ cmd = "kernel" /\ trouble /\ ~block_file =>
    staged = NoFile
ReadOf == \/ pc \in {"check", "rest", "patch", "close"}
          \/ pc \in {"read2", "seek"} /\ cmd = "stage2"
RawSize ==
  no_decompression /\ pc \in OpenSteps =>
    /\ sha1_has_to_measure \in {0, filemax}
    /\ ReadOf /\ cmd \in InstallFiles => sha1_has_to_measure = filemax
    /\ pc = "close" /\ errnum = "none" => sha1_has_to_measure = filemax
LoadersMeasure ==
  cmd \in LoadCommands /\ pc \in {"args", "open", "read", "linux", "close"} => perform_sha1
KernelMode ==
  /\ measure_kernel => \/ kernel_type = "none" /\ pc # "return"
                       \/ /\ cmd = "kernel"
                          /\ pc \in {"open", "failed", "read", "linux", "close"}
  /\ cmd = "kernel" /\ pc \in {"open", "read", "linux", "close"} => measure_kernel
  /\ cmd \in {"initrd", "module"} /\ pc \in {"open", "read"} => kernel_type # "none"
  /\ cmd = "cmp2" /\ pc \in {"open", "read"} => ~measure_kernel
BlocklistKernel ==
  cmd = "kernel" /\ pc \in {"read", "linux", "close"} /\ block_file =>
    sha1_byte_count = 0 /\ sha1_has_to_measure # 0

Protocol == /\ HasTarget /\ HoldsTarget /\ StepOwners /\ RawOnlyForModules
            /\ InstallReadsRaw /\ NoTroubleYet /\ StagingLost /\ RawSize
            /\ LoadersMeasure /\ KernelMode /\ BlocklistKernel

(***************************************************************************)
(* How they go through a file: none passes over a part of it that it does  *)
(* not read; install goes back from the third sector to the second, and on *)
(* to the end; testload goes back after it has read all.                   *)
(***************************************************************************)
StayOnWay ==
  pc \in OpenSteps /\ ~trouble =>
    /\ strayed # "off"
    /\ strayed = "back" => pc = "rest"
    /\ cmd = "testload" /\ pc \in {"seek", "part"} => measure_kernel \/ strayed = "done"
    /\ cmd = "stage2" /\ ~measure_kernel =>
         /\ pc = "read2" => SectorSize <= filepos
         /\ pc \in {"check", "seek"} => SectorSize < filepos
    /\ cmd = "stage2b" /\ pc = "seek" =>
         measure_kernel \/ (sha1_byte_count = 0 /\ ~compressed_file)

AstrayFailed == \A i \in 1 .. Len(pcr14) : pcr14[i].astray => pcr14[i].failed

(* Only the loader of a kernel copies a negative length. *)
WildKernel == wild => cmd = "kernel" /\ halted

(***************************************************************************)
(* What is measured of the kernel and its modules: all of them, but for    *)
(* the one that is being loaded, which is measured when it is closed; and  *)
(* whether it is what was asked for.                                       *)
(***************************************************************************)
Running == kernel_type \notin {"none", "chainloader"}
Replacing == cmd \in {"kernel", "chainloader"} /\ pc \in {"close", "return"}
Adding == cmd \in {"initrd", "module"} /\ pc = "close"
KernelIntact(type) == \/ image.want \in accepted \/ image.got = image.want
                      \/ type = "linux"

KernelMeasured ==
  /\ tpm /\ ~halted /\ Running /\ ~Replacing /\ ~Adding
       => MeasuredInOrder(Loaded, pcr14, accepted)
  /\ tpm /\ ~halted /\ Running /\ ~Replacing => KernelIntact(kernel_type)
ModulesIntact == \A i \in 1 .. Len(mods) : mods[i].got = mods[i].want
ModuleToBeMeasured ==
  tpm /\ ~halted /\ Running /\ Adding =>
    \/ MeasuredInOrder(Loaded, pcr14, accepted)
    \/ /\ errnum = "none" /\ ~trouble
       /\ Loaded[Len(Loaded)] = [want |-> target, got |-> target]
       /\ MeasuredInOrder(SubSeq(Loaded, 1, Len(Loaded) - 1), pcr14, accepted)
ImageToBeMeasured ==
  cmd = "kernel" /\ pc = "close" /\ loading # "none" =>
    /\ image.want = target
    /\ \/ errnum = "none" /\ ~trouble /\ (image.got = target \/ block_file)
       \/ trouble /\ loading = "linux" /\ (image.got = NoFile \/ block_file)
ImageMeasured ==
  tpm /\ ~halted /\ cmd = "kernel" /\ pc = "return" /\ loading # "none" =>
    MeasuredInOrder(<<image>>, pcr14, accepted) /\ KernelIntact(loading)
SectorIsNoKernel ==
  cmd = "chainloader" /\ pc \in {"close", "return"} => loading \in {"none", "chainloader"}
StartedKernel == pc = "booted" => kernel_type # "none" /\ ~halted

Measured == /\ KernelMeasured /\ ModulesIntact /\ ModuleToBeMeasured
            /\ ImageToBeMeasured /\ ImageMeasured /\ SectorIsNoKernel
            /\ StartedKernel

BootInv == /\ IInv /\ BootTypeOK /\ Protocol
           /\ StayOnWay /\ AstrayFailed /\ WildKernel /\ Measured

-----------------------------------------------------------------------------
(* A kernel from a blocklist is not hashed when it is opened; one whose    *)
(* staging read fails leaves no file in staging memory.                    *)
LEMMA OpenKernelEffect ==
  ASSUME grub_open(target), opened', measure_kernel, target \in Files
  PROVE  /\ block_file' /\ ~no_decompression =>
              sha1_byte_count' = 0 /\ sha1_has_to_measure' # 0
         /\ perform_sha1 /\ trouble' /\ ~block_file' => staged' = NoFile
<1>1. CASE OpenOverStaged(target)
  <2>1. /\ block_file' = target.block /\ sha1_byte_count' = 0 /\ ~trouble'
        /\ ~no_decompression => sha1_has_to_measure' = target.raw
    BY <1>1 DEF OpenOverStaged, PublishedByTest, OpenReset
  <2>2. target.block => target.raw > 0
    BY BlocklistAssumption, Zenon
  <2>3. QED
    BY <2>1, <2>2
<1>2. ~OpenPath(target) /\ ~OpenBlocks(target)
  BY DEF OpenPath, OpenBlocks
<1>3. CASE OpenKernel(target) \/ OpenKernelFails(target)
  BY <1>3 DEF OpenKernel, OpenKernelFails, OpenReset
<1>4. ~\E e \in Errors \ {"none"} : OpenFails(target, e)
  BY DEF OpenFails
<1>5. QED
  BY <1>1, <1>2, <1>3, <1>4 DEF grub_open

(* The size of a file that is not to be decompressed, if it is known. *)
LEMMA OpenRawSize ==
  ASSUME grub_open(target), opened', no_decompression
  PROVE  sha1_has_to_measure' \in {0, filemax'}
<1> USE DEF IsGzip, gunzip_test_header, PublishedByTest, PublishedByStaging
<1>1. CASE OpenPath(target) \/ OpenBlocks(target)
  BY <1>1 DEF OpenPath, OpenBlocks
<1>2. CASE OpenKernel(target) \/ OpenKernelFails(target) \/ OpenOverStaged(target)
  BY <1>2 DEF OpenKernel, OpenKernelFails, OpenOverStaged
<1>3. ~\E e \in Errors \ {"none"} : OpenFails(target, e)
  BY DEF OpenFails
<1>4. QED
  BY <1>1, <1>2, <1>3 DEF grub_open

(* A file has not been gone through yet when it is opened. *)
LEMMA OpenWay ==
  ASSUME grub_open(target), opened'
  PROVE  /\ strayed' = "no"
         /\ no_decompression /\ ~measure_kernel => sha1_byte_count' = 0 /\ ~compressed_file'
<1> USE DEF IsGzip, gunzip_test_header, OpenReset
<1>1. CASE OpenPath(target)
  BY <1>1 DEF OpenPath
<1>2. CASE OpenBlocks(target)
  BY <1>2 DEF OpenBlocks
<1>3. CASE OpenKernel(target) \/ OpenKernelFails(target) \/ OpenOverStaged(target)
  BY <1>3 DEF OpenKernel, OpenKernelFails, OpenOverStaged
<1>4. ~\E e \in Errors \ {"none"} : OpenFails(target, e)
  BY DEF OpenFails
<1>5. QED
  BY <1>1, <1>2, <1>3, <1>4 DEF grub_open

(* Where a read that did not fail has got to. *)
LEMMA ReadWay ==
  ASSUME TypeOK, NEW len \in Nat \cup {-1}, grub_read(len), ~trouble'
  PROVE  /\ ~trouble
         /\ strayed' \in {strayed, "done"}
         /\ len = -1 /\ ~wild' /\ strayed # "off" => strayed' = "done"
         /\ ~measure_kernel => filepos' = Pos + Clamp(len)
<1>t. filepos \in Nat \cup {-1} /\ filemax \in Nat
  BY DEF TypeOK
<1>c. Pos + Clamp(-1) = filemax /\ Pos + Clamp(-1) \in Nat
  BY <1>t DEF Pos, Clamp
<1>1. CASE ReadStaged(len)
  BY <1>1 DEF ReadStaged
<1>2. CASE ReadWild(len)
  BY <1>2 DEF ReadWild
<1>3. CASE ReadPath(len) \/ gunzip_read(len) \/ ReadBlocks(len)
  <2>1. /\ filepos' = Pos + Clamp(len) /\ GoesOn /\ UNCHANGED <<trouble, filemax>>
    BY <1>3 DEF ReadPath, gunzip_read, ReadBlocks
  <2>2. QED
    BY <1>c, <2>1 DEF GoesOn
<1>4. CASE ReadFails(len)
  BY <1>4 DEF ReadFails
<1>5. QED
  BY <1>1, <1>2, <1>3, <1>4 DEF grub_read

-----------------------------------------------------------------------------
(* Every step of a command is a step of the file layer, or leaves it alone.*)

LEMMA FileStep ==
  ASSUME Protocol, [BootNext]_vars
  PROVE  [Next]_fileVars
<1>1. CASE UNCHANGED vars
  BY <1>1 DEF vars
<1>2. CASE \/ cmain \/ boot_entry \/ enter_cmdline \/ init_cmdline \/ Stop \/ savedefault_func
           \/ load_image \/ load_module
  BY <1>2 DEF cmain, boot_entry, enter_cmdline, init_cmdline, Stop, savedefault_func, load_image,
              load_module, DisableMeasuring, print_error, Errors, Next
<1>3. CASE Forget \/ Leave \/ boot_func \/ SavedefaultArgs \/ BadArguments \/ ConfigLine
  BY <1>3 DEF Forget, Leave, boot_func, SavedefaultArgs, BadArguments, ConfigLine, Errors, Next
<1>4. CASE \E f \in Images : Command(f)
  BY <1>4 DEF Command, LoadCommand, UnmeasuredCommand, PlainCommand, TestloadCommand,
              InstallCommand, DisableMeasuring, Next
<1>5. CASE Open
  BY <1>5 DEF Open, Protocol, HasTarget, At, Next
<1>6. CASE OpenFailed
  BY <1>6 DEF OpenFailed, RestoreMeasuring, Errors, Next
<1>7. CASE RejectImage \/ MemOption \/ LoadLinux \/ LoadSections \/ LoadModule
  BY <1>7 DEF RejectImage, MemOption, LoadLinux, LoadSections, ReadImage, LoadModule, Errors, Next
<1>8. CASE LoadSector \/ ReadOnce
  BY <1>8, SectorAssumption DEF LoadSector, ReadOnce, Errors, Next
<1>9. CASE ReadByte
  BY <1>9, ByteAssumption DEF ReadByte, Next
<1>10. CASE Close
  BY <1>10 DEF Close, Protocol, RawSize, ReadBeforeClose, OpenSteps, At, Next
<1>11. CASE \/ KernelReturn \/ ModuleReturn \/ ChainloaderReturn \/ ConfigfileReturn
            \/ CheckfileReturn \/ CheckfileRestore
  BY <1>11 DEF KernelReturn, ModuleReturn, ChainloaderReturn, ConfigfileReturn, CheckfileReturn,
               CheckfileRestore, RestoreMeasuring, Errors, Next
<1>12. CASE SavedefaultReturn \/ DefaultReturn \/ ConfigReturn \/ PlainReturn
  BY <1>12 DEF SavedefaultReturn, DefaultReturn, ConfigReturn, PlainReturn, RestoreMeasuring,
               Errors, Next
<1>13. CASE Booted \/ grub_halt
  BY <1>13 DEF Booted, vars, Next
<1>14. CASE ReadWhole \/ ReadPart \/ ReadSector \/ ReadRest
  BY <1>14, SectorAssumption DEF ReadWhole, ReadPart, ReadSector, ReadRest, Next
<1>15. CASE Seek
  BY <1>15, SectorAssumption DEF Seek, Next
<1>16. CASE CheckSector \/ PatchStage2
  BY <1>16 DEF CheckSector, PatchStage2, Next
<1>17. CASE CmpReturn \/ EmbedReturn \/ InstallReturn
  <2>1. (\E e \in Errors \cup {errnum} : SetErrnum(e)) \/ UNCHANGED fileVars
    BY <1>17 DEF CmpReturn, EmbedReturn, InstallReturn
  <2>2. SetErrnum(errnum) => UNCHANGED fileVars
    BY DEF SetErrnum, fileVars
  <2>3. QED
    BY <2>1, <2>2 DEF Next
<1>18. QED
  BY <1>1, <1>2, <1>3, <1>4, <1>5, <1>6, <1>7, <1>8, <1>9, <1>10, <1>11, <1>12, <1>13, <1>14,
     <1>15, <1>16, <1>17 DEF BootNext

-----------------------------------------------------------------------------
(* The protocol is kept. *)

LEMMA ProtocolInit == BootInit => Protocol
BY DEF BootInit, Init, Protocol, HasTarget, HoldsTarget, StepOwners, RawOnlyForModules,
       InstallReadsRaw, NoTroubleYet, StagingLost, RawSize, LoadersMeasure, KernelMode, BlocklistKernel, OpenSteps

(* Between two commands only the leftovers of the last one matter. *)
LEMMA IdleProtocol ==
  ASSUME pc' \in IdleSteps,
         pc' = "cmain" \/ target' \in Files, ~no_decompression',
         measure_kernel' => kernel_type' = "none"
  PROVE  Protocol'
BY DEF Protocol, HasTarget, HoldsTarget, StepOwners, RawOnlyForModules, InstallReadsRaw, NoTroubleYet,
       StagingLost, RawSize, LoadersMeasure, KernelMode, BlocklistKernel, OpenSteps, IdleSteps

(* A command begins: its file is not open yet. *)
LEMMA CommandProtocol ==
  ASSUME pc' \in {"args", "open", "failed"}, target' \in Files,
         no_decompression' => cmd' \in {"initrd", "module"} \cup InstallFiles /\ pc' # "args",
         cmd' \in InstallFiles /\ pc' = "open" => no_decompression',
         cmd' \in LoadCommands /\ pc' # "failed" => perform_sha1',
         measure_kernel' => kernel_type' = "none" \/ (cmd' = "kernel" /\ pc' # "args"),
         cmd' = "kernel" /\ pc' = "open" => measure_kernel',
         cmd' \in {"initrd", "module"} /\ pc' = "open" => kernel_type' # "none",
         cmd' = "cmp2" /\ pc' = "open" => ~measure_kernel'
  PROVE  Protocol'
BY DEF Protocol, HasTarget, HoldsTarget, StepOwners, RawOnlyForModules, InstallReadsRaw, NoTroubleYet,
       StagingLost, RawSize, LoadersMeasure, KernelMode, BlocklistKernel, OpenSteps, IdleSteps

LEMMA PromptProtocol ==
  ASSUME Protocol,
         \/ cmain \/ boot_entry \/ enter_cmdline \/ init_cmdline \/ Stop \/ Forget \/ Leave
         \/ boot_func \/ savedefault_func \/ \E f \in Images : Command(f)
  PROVE  Protocol'
<1>1. pc \in {"cmain", "menu", "init", "prompt"}
  BY DEF cmain, boot_entry, enter_cmdline, init_cmdline, Stop, Forget, Leave, boot_func,
         savedefault_func, Command, LoadCommand, UnmeasuredCommand, PlainCommand, TestloadCommand,
         InstallCommand, AtCommand, At
<1>2. /\ pc = "cmain" \/ target \in Files
      /\ ~no_decompression
      /\ measure_kernel => kernel_type = "none"
  BY <1>1 DEF Protocol, HasTarget, RawOnlyForModules, KernelMode, IdleSteps
<1>3. CASE cmain \/ savedefault_func
  <2>1. /\ pc' \in {"open", "args"} /\ cmd' \in {"default", "config", "savedefault"}
        /\ target' \in {DefaultFile, ConfigFile}
        /\ UNCHANGED <<no_decompression, measure_kernel, kernel_type>>
    BY <1>3 DEF cmain, savedefault_func, DisableMeasuring, MeasureOff, SetErrnum, flagVars, Call,
                loadVars
  <2>2. QED
    BY <1>2, <2>1, NamesAssumption, CommandProtocol DEF LoadCommands, InstallFiles
<1>4. CASE \E f \in Images : Command(f)
  <2>1. PICK f \in Images : Command(f)
    BY <1>4
  <2>2. CASE InstallCommand(f)
    <3>1. /\ target' = f /\ pc' = "open" /\ cmd' = "install" /\ no_decompression'
          /\ UNCHANGED <<measure_kernel, kernel_type>>
      BY <2>2 DEF InstallCommand, Decompression, Call, loadVars
    <3>2. QED
      BY <1>2, <3>1, NamesAssumption, CommandProtocol DEF LoadCommands, InstallFiles
  <2>3. CASE TestloadCommand(f)
    <3>1. /\ target' = f /\ pc' = "open" /\ cmd' = "testload" /\ kernel_type' = "none"
          /\ UNCHANGED no_decompression
      BY <2>3 DEF TestloadCommand, Call, fileVars, flagVars
    <3>2. QED
      BY <1>2, <3>1, NamesAssumption, CommandProtocol DEF LoadCommands, InstallFiles
  <2>4. CASE \E c \in FileCommands : \/ LoadCommand(c, f) \/ UnmeasuredCommand(c, f)
                                     \/ PlainCommand(c, f)
    <3>1. /\ target' = f /\ pc' \in {"args", "open"} /\ cmd' \notin {"cmp2"} \cup InstallFiles
          /\ UNCHANGED <<no_decompression, measure_kernel, kernel_type>>
          /\ cmd' \in LoadCommands => pc' = "args" /\ perform_sha1'
      BY <2>4 DEF LoadCommand, UnmeasuredCommand, PlainCommand, DisableMeasuring, MeasureOn,
                  MeasureOff, Call, loadVars, fileVars, flagVars, LoadCommands, InstallFiles
    <3>2. QED
      BY <1>2, <3>1, NamesAssumption, CommandProtocol DEF LoadCommands, InstallFiles
  <2>5. QED
    BY <2>1, <2>2, <2>3, <2>4 DEF Command
<1>5. CASE \/ boot_entry \/ enter_cmdline \/ init_cmdline \/ Stop \/ Forget \/ Leave
           \/ boot_func
  <2>1. /\ pc # "cmain" /\ pc' \in IdleSteps
        /\ UNCHANGED <<target, no_decompression, measure_kernel>>
        /\ kernel_type' \in {kernel_type, "none"}
    BY <1>5 DEF boot_entry, enter_cmdline, init_cmdline, Stop, Forget, Leave, boot_func,
                AtCommand, At, MeasureOn, print_error, Halt, SetErrnum, Goto, fileVars, flagVars,
                bootVars, loadVars, IdleSteps
  <2>2. QED
    BY <1>2, <2>1, IdleProtocol
<1>6. QED
  BY <1>3, <1>4, <1>5

LEMMA ArgsProtocol ==
  ASSUME Protocol, SavedefaultArgs \/ BadArguments \/ load_image \/ load_module
  PROVE  Protocol'
<1>1. /\ pc = "args" /\ target \in Files /\ ~no_decompression
      /\ cmd \in LoadCommands => perform_sha1
      /\ measure_kernel => kernel_type = "none"
      /\ UNCHANGED <<cmd, target, kernel_type, perform_sha1>>
  BY DEF SavedefaultArgs, BadArguments, load_image, load_module, At, Goto, loadVars, KernelOn,
         Decompression, SetErrnum, fileVars, flagVars, Protocol, HasTarget, RawOnlyForModules,
         LoadersMeasure, KernelMode
<1>2. CASE SavedefaultArgs \/ BadArguments
  <2>1. /\ pc' = "prompt" \/ (pc' = "open" /\ cmd = "savedefault")
        /\ UNCHANGED <<no_decompression, measure_kernel>>
    BY <1>2 DEF SavedefaultArgs, BadArguments, Goto, SetErrnum, fileVars, flagVars
  <2>2. CASE pc' = "prompt"
    BY <1>1, <2>1, <2>2, IdleProtocol DEF IdleSteps
  <2>3. CASE pc' = "open" /\ cmd = "savedefault"
    BY <1>1, <2>1, <2>3, CommandProtocol DEF LoadCommands, InstallFiles
  <2>4. QED
    BY <2>1, <2>2, <2>3
<1>3. CASE load_image
  <2>1. cmd = "kernel" /\ pc' = "open" /\ measure_kernel' /\ UNCHANGED no_decompression
    BY <1>3 DEF load_image, At, Goto, KernelOn
  <2>2. QED
    BY <1>1, <2>1, CommandProtocol DEF LoadCommands, InstallFiles
<1>4. CASE load_module
  <2>1. /\ cmd \in {"initrd", "module"} /\ kernel_type # "none"
        /\ pc' = "open" /\ UNCHANGED measure_kernel
    BY <1>4 DEF load_module, At, Goto, Decompression
  <2>2. QED
    BY <1>1, <2>1, CommandProtocol DEF LoadCommands, InstallFiles
<1>5. QED
  BY <1>2, <1>3, <1>4

LEMMA OpenProtocol == ASSUME Protocol, Open PROVE Protocol'
<1>1. /\ pc = "open" /\ grub_open(target)
      /\ UNCHANGED <<cmd, target, kernel_type>>
      /\ pc' = (IF ~opened' THEN "failed" ELSE AfterOpen)
  BY DEF Open, At, loadVars
<1>2. UNCHANGED <<perform_sha1, measure_kernel, no_decompression>>
  BY <1>1, OpenEffect DEF flagVars
<1>3. /\ target \in Files
      /\ no_decompression => cmd \in {"initrd", "module"} \cup InstallFiles
      /\ cmd \in InstallFiles => no_decompression
      /\ cmd \in LoadCommands => perform_sha1
      /\ measure_kernel => kernel_type = "none" \/ cmd = "kernel"
      /\ cmd = "kernel" => measure_kernel /\ ~no_decompression
      /\ cmd \in {"initrd", "module"} => kernel_type # "none"
      /\ cmd = "cmp2" => ~measure_kernel
  BY <1>1 DEF Protocol, HasTarget, RawOnlyForModules, InstallReadsRaw, LoadersMeasure, KernelMode,
            InstallFiles
<1>4. CASE ~opened'
  BY <1>1, <1>2, <1>3, <1>4, CommandProtocol
<1>5. CASE opened'
  <2>1. /\ pc' \in {"read", "close", "line", "seek"}
        /\ pc' = "line" => cmd = "config"
        /\ pc' = "close" => cmd \in {"configfile", "find"}
        /\ pc' = "seek" => cmd = "stage2b"
    BY <1>1, <1>5 DEF AfterOpen
  <2>2. HasTarget' /\ HoldsTarget' /\ NoTroubleYet'
    BY <1>1, <1>3, <1>5, OpenEffect DEF HasTarget, HoldsTarget, NoTroubleYet
  <2>3. StepOwners' /\ RawOnlyForModules' /\ InstallReadsRaw' /\ LoadersMeasure' /\ KernelMode'
    BY <1>1, <1>2, <1>3, <2>1 DEF StepOwners, RawOnlyForModules, InstallReadsRaw, LoadersMeasure, KernelMode,
       LoadCommands, IdleSteps
  <2>4. RawSize'
    <3>1. no_decompression => sha1_has_to_measure' \in {0, filemax'}
      BY <1>1, <1>5, OpenRawSize
    <3>2. QED
      BY <1>1, <1>2, <1>3, <2>1, <3>1 DEF RawSize, ReadOf, InstallFiles
  <2>5. BlocklistKernel' /\ StagingLost'
    BY <1>1, <1>2, <1>3, <1>5, OpenKernelEffect DEF BlocklistKernel, StagingLost, LoadCommands
  <2>6. QED
    BY <2>2, <2>3, <2>4, <2>5 DEF Protocol
<1>6. QED
  BY <1>4, <1>5

LEMMA OpenFailedProtocol == ASSUME Protocol, OpenFailed PROVE Protocol'
<1>1. /\ pc = "failed" /\ target \in Files
      /\ no_decompression => cmd \in {"initrd", "module"} \cup InstallFiles
      /\ measure_kernel => kernel_type = "none" \/ cmd = "kernel"
  BY DEF OpenFailed, At, Protocol, HasTarget, RawOnlyForModules, KernelMode
<1>2. CASE cmd \in {"kernel", "chainloader"}
  <2>1. pc' = "prompt" /\ kernel_type' = "none" /\ UNCHANGED <<target, no_decompression>>
    BY <1>2 DEF OpenFailed, Goto, fileVars, flagVars, InstallFiles, WholeReaders
  <2>2. QED
    BY <1>1, <1>2, <2>1, IdleProtocol DEF IdleSteps, InstallFiles
<1>3. CASE cmd \in {"initrd", "module"} \cup InstallFiles
  <2>1. pc' = "prompt" /\ ~no_decompression' /\ UNCHANGED <<target, kernel_type, measure_kernel>>
    BY <1>3 DEF OpenFailed, Goto, Decompression, loadVars, InstallFiles, WholeReaders
  <2>2. QED
    BY <1>1, <1>3, <2>1, IdleProtocol DEF IdleSteps, InstallFiles
<1>4. CASE cmd \in {"configfile", "cat", "find", "savedefault", "config"} \cup WholeReaders
  <2>1. /\ pc' \in {"prompt", "init"}
        /\ UNCHANGED <<target, kernel_type, measure_kernel, no_decompression>>
    BY <1>4 DEF OpenFailed, Goto, SetErrnum, RestoreMeasuring, MeasureOn, fileVars, flagVars,
                loadVars, InstallFiles, WholeReaders
  <2>2. QED
    BY <1>1, <1>4, <2>1, IdleProtocol DEF IdleSteps, InstallFiles, WholeReaders
<1>5. CASE cmd = "default"
  <2>1. /\ pc' = "open" /\ cmd' = "config" /\ target' = ConfigFile
        /\ UNCHANGED <<kernel_type, measure_kernel, no_decompression>>
    BY <1>5 DEF OpenFailed, Call, SetErrnum, flagVars, loadVars, InstallFiles, WholeReaders
  <2>2. QED
    BY <1>1, <1>5, <2>1, NamesAssumption, CommandProtocol DEF LoadCommands, InstallFiles
<1>6. CASE cmd = "checkfile"
  <2>1. UNCHANGED <<pc, cmd, target, kernel_type, measure_kernel, no_decompression>>
    BY <1>6 DEF OpenFailed, Halt, bootVars, flagVars, InstallFiles, WholeReaders
  <2>2. QED
    BY <1>1, <1>6, <2>1, CommandProtocol DEF LoadCommands, InstallFiles
<1>7. QED
  BY <1>2, <1>3, <1>4, <1>5, <1>6 DEF OpenFailed

(* A step of a command with its file open: it reads, seeks, or only looks  *)
(* at what it has read.                                                    *)
Reads == \E len \in ReadLens \cup {-1} : grub_read(len)
Seeks == \E offset \in Nat : grub_seek(offset)
Looks == (\E e \in Errors : SetErrnum(e)) \/ UNCHANGED fileVars

LEMMA LooksEffect ==
  ASSUME Looks \/ Seeks
  PROVE  /\ UNCHANGED <<flagVars, opened, file, block_file, compressed_file, filemax, staged>>
         /\ UNCHANGED <<sha1_byte_count, sha1_has_to_measure, my_sha1, trouble, tpm, pcr14>>
         /\ UNCHANGED <<accepted, halted, wild>>
         /\ Looks => UNCHANGED <<filepos, strayed>>
BY DEF Looks, Seeks, grub_seek, SetErrnum, fileVars, flagVars, posVars, hashVars, tpmVars

LEMMA ReadingProtocol ==
  ASSUME Protocol, pc \in OpenSteps, pc' \in OpenSteps, UNCHANGED <<cmd, target, kernel_type>>,
         Reads \/ Seeks \/ Looks, StepOwners',
         pc' = "read" => cmd \in {"cat", "config"},
         pc' = "linux" => pc = "read" /\ Looks,
         no_decompression => \/ Reads
                             \/ cmd \in {"initrd", "module"} /\ errnum' # "none" /\ pc' = "close"
                             \/ cmd \in InstallFiles /\ (ReadOf' => ReadOf)
  PROVE  Protocol'
<1>1. /\ UNCHANGED <<flagVars, perform_sha1, measure_kernel, no_decompression>>
      /\ UNCHANGED <<opened, file, block_file, filemax>>
      /\ \/ Reads /\ Publish /\ (measure_kernel => UNCHANGED sha1_byte_count)
         \/ UNCHANGED <<sha1_byte_count, sha1_has_to_measure>>
      /\ Looks => UNCHANGED <<trouble, staged>>
  <2>1. CASE Reads
    <3>1. /\ Publish /\ UNCHANGED <<flagVars, opened, file, block_file, filemax>>
          /\ measure_kernel => UNCHANGED sha1_byte_count
      BY <2>1, ReadEffect DEF Reads
    <3>2. Looks => UNCHANGED <<trouble, staged>>
      BY LooksEffect
    <3>3. QED
      BY <2>1, <3>1, <3>2 DEF flagVars
  <2>2. CASE Seeks \/ Looks
    BY <2>2, LooksEffect DEF flagVars
  <2>3. QED
    BY <2>1, <2>2, LooksEffect
<1>2. pc' \notin IdleSteps \cup {"args", "open", "failed", "return"}
  BY DEF OpenSteps, IdleSteps
<1>3. /\ cmd \in LoadCommands => pc \in {"read", "linux", "close"} /\ pc' \in {"linux", "close"}
      /\ cmd = "kernel" => pc \in {"read", "linux", "close"}
      /\ pc' = "linux" => cmd = "kernel"
  BY DEF Protocol, StepOwners, LoadCommands, OpenSteps, InstallFiles
<1>4. HasTarget' /\ HoldsTarget' /\ RawOnlyForModules' /\ InstallReadsRaw'
  BY <1>1, <1>2 DEF Protocol, HasTarget, HoldsTarget, RawOnlyForModules, InstallReadsRaw, OpenSteps
<1>5. NoTroubleYet' /\ LoadersMeasure'
  BY <1>1, <1>2, <1>3 DEF Protocol, NoTroubleYet, LoadersMeasure, LoadCommands
<1>6. KernelMode'
  <2>1. measure_kernel => kernel_type = "none" \/ cmd = "kernel"
    BY DEF Protocol, KernelMode
  <2>2. cmd = "kernel" => measure_kernel
    BY <1>3 DEF Protocol, KernelMode
  <2>3. cmd = "kernel" => pc' \in {"linux", "close"}
    BY <1>3 DEF LoadCommands
  <2>4. QED
    BY <1>1, <1>2, <2>1, <2>2, <2>3 DEF KernelMode
<1>7. StagingLost' /\ BlocklistKernel'
  <2>1. cmd = "kernel" => measure_kernel
    BY <1>3 DEF Protocol, KernelMode
  <2>2. pc' = "read" => cmd # "kernel"
    OBVIOUS
  <2>3. StagingLost'
    BY <1>1, <2>2 DEF Protocol, StagingLost
  <2>4. BlocklistKernel'
    BY <1>1, <1>3, <2>1 DEF Protocol, BlocklistKernel, Publish
  <2>5. QED
    BY <2>3, <2>4
<1>8. RawSize'
  <2>1. SUFFICES ASSUME no_decompression
                 PROVE  /\ sha1_has_to_measure' \in {0, filemax'}
                        /\ ReadOf' /\ cmd \in InstallFiles => sha1_has_to_measure' = filemax'
                        /\ pc' = "close" /\ errnum' = "none" => sha1_has_to_measure' = filemax'
    BY <1>1 DEF RawSize
  <2>2. /\ sha1_has_to_measure \in {0, filemax}
        /\ ReadOf /\ cmd \in InstallFiles => sha1_has_to_measure = filemax
    BY <1>1, <2>1 DEF Protocol, RawSize
  <2>3. CASE Reads /\ Publish
    BY <1>1, <2>2, <2>3 DEF Publish
  <2>4. CASE UNCHANGED sha1_has_to_measure
    <3>1. CASE cmd \in {"initrd", "module"} /\ errnum' # "none"
      BY <1>1, <2>2, <2>4, <3>1 DEF InstallFiles
    <3>2. CASE cmd \in InstallFiles /\ (ReadOf' => ReadOf)
      <4>1. pc' = "close" => ReadOf'
        BY DEF ReadOf
      <4>2. QED
        BY <1>1, <2>2, <2>4, <3>2, <4>1
    <3>3. CASE Reads
      BY <1>1, <2>2, <2>4, <3>3, ReadEffect DEF Publish, Reads
    <3>4. QED
      BY <2>1, <3>1, <3>2, <3>3
  <2>5. QED
    BY <1>1, <2>3, <2>4
<1>9. QED
  BY <1>4, <1>5, <1>6, <1>7, <1>8 DEF Protocol

(* The steps of the commands that read as decompression allows. *)
PlainReading ==
  \/ RejectImage \/ MemOption \/ LoadLinux \/ LoadSections \/ LoadSector
  \/ ReadOnce \/ ReadByte \/ ConfigLine \/ ReadWhole \/ ReadPart

LEMMA PlainReadingSteps ==
  ASSUME Protocol, PlainReading
  PROVE  /\ pc \in {"read", "linux", "line", "part"}
         /\ pc' \in {"read", "linux", "line", "part", "seek", "close"}
         /\ UNCHANGED <<cmd, target>>
         /\ Reads \/ Looks
         /\ pc' = "read" => cmd \in {"cat", "config"}
         /\ pc' = "linux" => cmd = "kernel" /\ pc = "read" /\ Looks
         /\ pc' = "line" => cmd = "config"
         /\ pc' \in {"part", "seek"} => cmd = "testload"
         /\ cmd \notin {"initrd", "module"} \cup InstallFiles
         /\ UNCHANGED kernel_type /\ ~halted
<1> USE DEF At, Goto, Reads, Looks, InstallFiles, loadVars
<1>1. CASE RejectImage \/ MemOption
  BY <1>1 DEF RejectImage, MemOption, Errors
<1>2. CASE LoadLinux
  BY <1>2 DEF LoadLinux, ReadImage
<1>3. CASE LoadSections
  BY <1>3 DEF LoadSections, ReadImage
<1>4. CASE LoadSector
  BY <1>4, SectorAssumption DEF LoadSector
<1>5. CASE ReadOnce
  BY <1>5 DEF ReadOnce, Errors
<1>6. CASE ReadByte
  BY <1>6, ByteAssumption DEF ReadByte
<1>7. CASE ConfigLine
  <2>1. pc = "line" /\ cmd = "config"
    BY <1>7 DEF ConfigLine, Protocol, StepOwners
  <2>2. QED
    BY <1>7, <2>1 DEF ConfigLine, Errors
<1>8. CASE ReadWhole
  BY <1>8 DEF ReadWhole, WholeReaders, Overwrites
<1>9. CASE ReadPart
  <2>1. pc = "part" /\ cmd = "testload"
    BY <1>9 DEF ReadPart, Protocol, StepOwners
  <2>2. QED
    BY <1>9, <2>1 DEF ReadPart
<1>10. QED
  BY <1>1, <1>2, <1>3, <1>4, <1>5, <1>6, <1>7, <1>8, <1>9 DEF PlainReading

LEMMA ReadProtocol == ASSUME Protocol, PlainReading PROVE Protocol'
<1>1. StepOwners'
  BY PlainReadingSteps DEF StepOwners
<1>2. ~no_decompression
  BY PlainReadingSteps DEF Protocol, RawOnlyForModules
<1>3. QED
  BY <1>1, <1>2, PlainReadingSteps, ReadingProtocol DEF OpenSteps

LEMMA LoadModuleProtocol == ASSUME Protocol, LoadModule PROVE Protocol'
<1>1. /\ pc = "read" /\ cmd \in {"initrd", "module"} /\ pc' = "close"
      /\ UNCHANGED <<cmd, target, kernel_type>>
      /\ grub_read(-1) \/ SetErrnum("hard")
  BY DEF LoadModule, At, Goto
<1>2. SetErrnum("hard") => errnum' = "hard" /\ Looks
  BY DEF SetErrnum, Looks, Errors
<1>3. Reads \/ (Looks /\ errnum' = "hard")
  BY <1>1, <1>2 DEF Reads
<1>4. StepOwners'
  BY <1>1 DEF StepOwners
<1>5. QED
  BY <1>1, <1>3, <1>4, ReadingProtocol DEF OpenSteps

(* The steps of install with a file open, and those that go back in one.   *)
LEMMA InstallReading ==
  ASSUME Protocol, ReadSector \/ CheckSector \/ ReadRest \/ PatchStage2 \/ Seek
  PROVE  /\ pc \in {"read", "read2", "check", "rest", "patch", "seek"}
         /\ UNCHANGED kernel_type /\ ~halted
         /\ pc = "seek" => cmd \in {"testload", "stage2", "stage2b"} /\ (Seeks \/ Looks)
         /\ pc # "seek" => cmd \in InstallFiles
         /\ \/ /\ UNCHANGED <<cmd, target>>
               /\ pc' \in {"read2", "check", "rest", "patch", "seek", "part", "close"}
               /\ \/ pc \in {"read", "read2", "rest"} /\ Reads
                  \/ pc \in {"check", "patch"} /\ Looks
                  \/ pc = "seek"
               /\ pc' = "part" => cmd = "testload"
               /\ pc' = "seek" => cmd = "stage2" /\ pc = "check"
               /\ pc' \in {"rest", "patch"} => cmd = "stage2"
               /\ pc' \in {"read2", "check"} => cmd \in InstallFiles
               /\ pc' = "read2" => cmd = "stage2b" \/ pc # "seek"
            \/ pc = "patch" /\ Abandon /\ pc' = "open" /\ cmd' = "stage2b" /\ target' \in Images
<1> USE DEF InstallFiles
<1>1. CASE ReadSector
  <2>1. /\ pc \in {"read", "read2"} /\ cmd \in {"install", "stage2", "stage2b"}
        /\ UNCHANGED <<cmd, target, kernel_type>> /\ ~halted
        /\ pc' \in {"read2", "check", "close"} /\ (pc' = "check" => cmd # "stage2b")
    BY <1>1 DEF ReadSector, Overwrites, At, Goto
  <2>2. Reads
    BY <1>1, SectorAssumption DEF ReadSector, Reads
  <2>3. QED
    BY <2>1, <2>2
<1>2. CASE CheckSector
  BY <1>2 DEF CheckSector, At, Goto, Looks, loadVars
<1>3. CASE ReadRest
  <2>1. pc = "rest" /\ cmd = "stage2"
    BY <1>3 DEF ReadRest, Protocol, StepOwners, At
  <2>2. /\ UNCHANGED <<cmd, target, kernel_type>> /\ ~halted /\ pc' \in {"patch", "close"}
        /\ grub_read(-1)
    BY <1>3 DEF ReadRest, At, Goto, loadVars
  <2>3. Reads
    BY <2>2 DEF Reads
  <2>4. QED
    BY <2>1, <2>2, <2>3
<1>4. CASE PatchStage2
  <2>1. pc = "patch" /\ cmd = "stage2"
    BY <1>4 DEF PatchStage2, Protocol, StepOwners, At
  <2>2. QED
    BY <1>4, <2>1 DEF PatchStage2, Call, At, Goto, Looks, loadVars
<1>5. CASE Seek
  <2>1. pc = "seek" /\ cmd \in {"testload", "stage2", "stage2b"}
    BY <1>5 DEF Seek, Protocol, StepOwners, At
  <2>2. Seeks \/ Looks
    BY <1>5, <2>1, SectorAssumption, SizesAssumption DEF Seek, Seeks, Looks
  <2>3. QED
    BY <1>5, <2>1, <2>2 DEF Seek, At, Goto, loadVars
<1>6. QED
  BY <1>1, <1>2, <1>3, <1>4, <1>5

LEMMA InstallProtocol ==
  ASSUME Protocol, ReadSector \/ CheckSector \/ ReadRest \/ PatchStage2 \/ Seek
  PROVE  Protocol'
<1>1. CASE pc = "patch" /\ Abandon /\ pc' = "open" /\ cmd' = "stage2b" /\ target' \in Images
  <2>1. UNCHANGED <<measure_kernel, no_decompression, kernel_type>>
    BY <1>1, InstallReading DEF Abandon, flagVars
  <2>2. (measure_kernel => kernel_type = "none") /\ no_decompression
    BY <1>1, InstallReading DEF Protocol, KernelMode, InstallReadsRaw, OpenSteps
  <2>3. QED
    BY <1>1, <2>1, <2>2, NamesAssumption, CommandProtocol DEF LoadCommands, InstallFiles
<1>2. CASE UNCHANGED <<cmd, target>>
           /\ pc' \in {"read2", "check", "rest", "patch", "seek", "part", "close"}
  <2>1. StepOwners'
    BY <1>2, InstallReading DEF StepOwners, InstallFiles
  <2>2. no_decompression => cmd \in InstallFiles
    BY <1>2, InstallReading DEF Protocol, RawOnlyForModules, InstallFiles
  <2>3. no_decompression => Reads \/ (cmd \in InstallFiles /\ (ReadOf' => ReadOf))
    <3>1. pc \in {"check", "patch"} => ReadOf
      BY DEF ReadOf
    <3>2. pc = "seek" /\ ReadOf' /\ no_decompression => ReadOf
      <4>1. CASE Seek
        BY <2>2, <4>1 DEF Seek, ReadOf, Goto, InstallFiles, Protocol, StepOwners
      <4>2. CASE ~Seek
        BY <4>2 DEF ReadSector, CheckSector, ReadRest, PatchStage2, At
      <4>3. QED
        BY <4>1, <4>2
    <3>3. QED
      BY <1>2, <2>2, <3>1, <3>2, InstallReading
  <2>4. QED
    BY <1>2, <2>1, <2>3, InstallReading, ReadingProtocol DEF OpenSteps
<1>3. QED
  BY <1>1, <1>2, InstallReading

LEMMA CloseProtocol == ASSUME Protocol, Close PROVE Protocol'
<1>1. /\ pc = "close" /\ pc' = "return" /\ UNCHANGED <<cmd, target, kernel_type>>
      /\ grub_close
  BY DEF Close, At, Goto, loadVars
<1>2. ~measure_kernel' /\ UNCHANGED no_decompression
  BY <1>1, CloseEffect
<1>3. QED
  BY <1>1, <1>2 DEF Protocol, HasTarget, HoldsTarget, StepOwners, RawOnlyForModules,
       InstallReadsRaw, NoTroubleYet, StagingLost, RawSize, LoadersMeasure, KernelMode, BlocklistKernel,
       OpenSteps, IdleSteps

LEMMA ReturnProtocol ==
  ASSUME Protocol,
         \/ KernelReturn \/ ModuleReturn \/ ChainloaderReturn \/ ConfigfileReturn \/ CheckfileReturn
         \/ CheckfileRestore \/ SavedefaultReturn \/ DefaultReturn \/ ConfigReturn \/ PlainReturn
         \/ CmpReturn \/ EmbedReturn \/ InstallReturn
  PROVE  Protocol'
<1>1. CASE CheckfileRestore
  <2>1. /\ pc = "restore" /\ pc' = "prompt"
        /\ UNCHANGED <<target, kernel_type, measure_kernel, no_decompression>>
    BY <1>1 DEF CheckfileRestore, At, Goto, RestoreMeasuring, MeasureOn, fileVars, flagVars, loadVars
  <2>2. target \in Files /\ ~no_decompression /\ (measure_kernel => kernel_type = "none")
    BY <2>1 DEF Protocol, HasTarget, RawOnlyForModules, KernelMode, IdleSteps
  <2>3. QED
    BY <2>1, <2>2, IdleProtocol DEF IdleSteps
<1>2. ASSUME pc = "return"
      PROVE  /\ target \in Files /\ ~measure_kernel
             /\ no_decompression => cmd \in {"initrd", "module"} \cup InstallFiles
             /\ cmd \in InstallFiles => no_decompression
  BY <1>2 DEF Protocol, HasTarget, RawOnlyForModules, InstallReadsRaw, KernelMode
<1>3. CASE ModuleReturn
  <2>1. pc = "return" /\ pc' = "prompt" /\ ~no_decompression' /\ UNCHANGED <<target, measure_kernel>>
    BY <1>3 DEF ModuleReturn, At, Goto, Decompression
  <2>2. QED
    BY <1>2, <2>1, IdleProtocol DEF IdleSteps
<1>4. CASE KernelReturn \/ ChainloaderReturn \/ ConfigfileReturn \/ ConfigReturn \/ PlainReturn
           \/ EmbedReturn
  <2>1. /\ pc = "return" /\ pc' \in IdleSteps /\ cmd \notin {"initrd", "module"} \cup InstallFiles
        /\ UNCHANGED <<target, measure_kernel, no_decompression>>
    BY <1>4 DEF KernelReturn, ChainloaderReturn, ConfigfileReturn, ConfigReturn, PlainReturn,
                EmbedReturn, At, Goto, RestoreMeasuring, MeasureOn, SetErrnum, fileVars, flagVars,
                IdleSteps, InstallFiles
  <2>2. QED
    BY <1>2, <2>1, IdleProtocol
<1>5. CASE SavedefaultReturn \/ DefaultReturn
  <2>1. /\ pc = "return" /\ pc' = "failed" /\ cmd \in {"savedefault", "default"}
        /\ UNCHANGED <<cmd, target, measure_kernel, no_decompression>>
    BY <1>5 DEF SavedefaultReturn, DefaultReturn, At, Goto, RestoreMeasuring, MeasureOn, SetErrnum,
                fileVars, flagVars
  <2>2. QED
    BY <1>2, <2>1, CommandProtocol DEF InstallFiles
<1>6. CASE CheckfileReturn
  <2>1. /\ pc = "return" /\ cmd = "checkfile" /\ pc' \in {"return", "restore"}
        /\ UNCHANGED <<cmd, target, measure_kernel, no_decompression>>
    BY <1>6 DEF CheckfileReturn, At, Goto, Halt, SetErrnum, flagVars
  <2>2. CASE pc' = "restore"
    BY <1>2, <2>1, <2>2, IdleProtocol DEF IdleSteps, InstallFiles
  <2>3. CASE pc' = "return"
    BY <1>2, <2>1, <2>3 DEF Protocol, HasTarget, HoldsTarget, StepOwners, RawOnlyForModules,
       InstallReadsRaw, NoTroubleYet, StagingLost, RawSize, LoadersMeasure, KernelMode, BlocklistKernel,
       OpenSteps, IdleSteps, InstallFiles
  <2>4. QED
    BY <2>1, <2>2, <2>3
<1>7. CASE CmpReturn
  <2>1. /\ pc = "return" /\ cmd = "cmp" /\ UNCHANGED <<measure_kernel, no_decompression>>
        /\ \/ pc' = "prompt" /\ UNCHANGED target
           \/ pc' = "open" /\ cmd' = "cmp2" /\ target' \in Images
    BY <1>7 DEF CmpReturn, At, Goto, Call, fileVars, flagVars
  <2>2. QED
    BY <1>2, <2>1, NamesAssumption, IdleProtocol, CommandProtocol
       DEF IdleSteps, InstallFiles, LoadCommands
<1>8. CASE InstallReturn
  <2>1. /\ pc = "return" /\ cmd \in InstallFiles /\ UNCHANGED <<measure_kernel, no_decompression>>
        /\ \/ pc' = "failed" /\ UNCHANGED <<cmd, target>>
           \/ pc' = "open" /\ cmd' = "stage2" /\ target' \in Images
    BY <1>8 DEF InstallReturn, At, Goto, Call, SetErrnum, fileVars, flagVars
  <2>2. QED
    BY <1>2, <2>1, NamesAssumption, CommandProtocol DEF InstallFiles, LoadCommands
<1>9. QED
  BY <1>1, <1>3, <1>4, <1>5, <1>6, <1>7, <1>8

LEMMA ProtocolStep == ASSUME Protocol, [BootNext]_vars PROVE Protocol'
<1>1. CASE UNCHANGED vars \/ (grub_halt /\ UNCHANGED bootVars)
  BY <1>1 DEF vars, fileVars, bootVars, flagVars, posVars, hashVars, tpmVars, grub_halt,
       Protocol, HasTarget, HoldsTarget, StepOwners, RawOnlyForModules, InstallReadsRaw, NoTroubleYet, StagingLost,
       RawSize, ReadOf, LoadersMeasure, KernelMode, BlocklistKernel
<1>2. QED
  BY <1>1, PromptProtocol, ArgsProtocol, OpenProtocol, OpenFailedProtocol, LoadModuleProtocol,
     ReadProtocol, InstallProtocol, CloseProtocol, ReturnProtocol
     DEF BootNext, Booted, PlainReading

-----------------------------------------------------------------------------
(* Nothing is left of a halted machine to go on; only grub_close extends   *)
(* PCR 14 or asks for a key, only a kernel's loader copies a negative      *)
(* length.                                                                 *)

LEMMA OnlyCloseExtends ==
  ASSUME Protocol, [BootNext]_vars
  PROVE  /\ halted => UNCHANGED vars
         /\ ~Close => UNCHANGED <<tpm, pcr14, accepted>>
         /\ wild' => wild \/ (LoadSections /\ halted')
<1> USE DEF At, AtCommand, loadVars, bootVars, fileVars, flagVars, tpmVars, vars,
            DisableMeasuring, RestoreMeasuring, MeasureOn, MeasureOff, KernelOn, Decompression,
            SetErrnum, Halt, print_error
<1>1. CASE UNCHANGED vars \/ Booted \/ (grub_halt /\ UNCHANGED bootVars)
  BY <1>1 DEF Booted, grub_halt
<1>2. CASE \/ cmain \/ boot_entry \/ enter_cmdline \/ init_cmdline \/ Stop \/ Forget \/ Leave
           \/ boot_func \/ savedefault_func \/ (\E f \in Images : Command(f))
  BY <1>2 DEF cmain, boot_entry, enter_cmdline, init_cmdline, Stop, Forget, Leave, boot_func,
              savedefault_func, Command, LoadCommand, UnmeasuredCommand, PlainCommand,
              TestloadCommand, InstallCommand
<1>3. CASE SavedefaultArgs \/ BadArguments \/ load_image \/ load_module \/ OpenFailed
  BY <1>3 DEF SavedefaultArgs, BadArguments, load_image, load_module, OpenFailed
<1>4. CASE Open
  BY <1>4, OpenEffect DEF Open
<1>5. ASSUME NEW len \in ReadLens \cup {-1}, grub_read(len), ~wild' \/ ~measure_kernel \/ len # -1
      PROVE  UNCHANGED <<tpm, pcr14, accepted, wild>> /\ ~halted
  <2>1. len < 0 => len = -1
    BY SizesAssumption
  <2>2. QED
    BY <1>5, <2>1, ReadEffect
<1>6. CASE PlainReading
  <2>1. ~halted
    BY <1>6, PlainReadingSteps
  <2>2. CASE Looks
    BY <2>1, <2>2, LooksEffect
  <2>3. CASE Reads
    <3>1. UNCHANGED <<tpm, pcr14, accepted>>
      BY <2>3, ReadEffect DEF Reads
    <3>2. CASE LoadSections
      BY <2>1, <2>3, <3>1, <3>2, ReadEffect DEF Reads
    <3>3. CASE ReadWhole
      <4>1. cmd = "cmp2" => ~measure_kernel
        BY <3>3 DEF ReadWhole, Protocol, KernelMode
      <4>2. UNCHANGED fileVars \/ (grub_read(-1) /\ (~wild' \/ ~measure_kernel))
        BY <3>3, <4>1 DEF ReadWhole
      <4>3. QED
        BY <1>5, <2>1, <3>1, <4>2
    <3>4. CASE PlainReading /\ ~LoadSections /\ ~ReadWhole
      <4>1. (\E len \in ReadLens : grub_read(len)) \/ Looks
        <5>1. CASE RejectImage \/ MemOption \/ ConfigLine
          BY <5>1 DEF RejectImage, MemOption, ConfigLine, Looks, Errors
        <5>2. CASE LoadLinux \/ ReadPart
          BY <5>2 DEF LoadLinux, ReadImage, ReadPart
        <5>3. CASE LoadSector
          BY <5>3, SectorAssumption DEF LoadSector
        <5>4. CASE ReadOnce
          BY <5>4 DEF ReadOnce, Looks, Errors
        <5>5. CASE ReadByte
          BY <5>5, ByteAssumption DEF ReadByte
        <5>6. QED
          BY <3>4, <5>1, <5>2, <5>3, <5>4, <5>5 DEF PlainReading
      <4>2. -1 \notin ReadLens
        BY SizesAssumption
      <4>3. QED
        BY <1>5, <2>1, <2>2, <4>1, <4>2
    <3>5. QED
      BY <1>6, <3>2, <3>3, <3>4
  <2>4. QED
    BY <1>6, <2>2, <2>3, PlainReadingSteps
<1>7. CASE LoadModule
  <2>1. /\ cmd \in {"initrd", "module"} /\ pc = "read" /\ ~halted
        /\ grub_read(-1) \/ SetErrnum("hard")
    BY <1>7 DEF LoadModule
  <2>2. ~measure_kernel
    BY <2>1 DEF Protocol, KernelMode
  <2>3. QED
    BY <1>5, <2>1, <2>2
<1>8. CASE ReadSector \/ ReadRest
  <2>1. ~halted /\ \E len \in ReadLens \cup {-1} : grub_read(len) /\ (~wild' \/ len # -1)
    <3>1. -1 \notin ReadLens
      BY SizesAssumption
    <3>2. QED
      BY <1>8, <3>1, SectorAssumption DEF ReadSector, ReadRest
  <2>2. QED
    BY <1>5, <2>1
<1>9. CASE CheckSector \/ PatchStage2 \/ Seek
  BY <1>9 DEF CheckSector, PatchStage2, Abandon, Seek, grub_seek
<1>10. CASE Close
  BY <1>10 DEF Close, grub_close
<1>11. CASE \/ KernelReturn \/ ModuleReturn \/ ChainloaderReturn \/ ConfigfileReturn
            \/ CheckfileReturn \/ CheckfileRestore \/ SavedefaultReturn \/ DefaultReturn
            \/ ConfigReturn \/ PlainReturn
  BY <1>11 DEF KernelReturn, ModuleReturn, ChainloaderReturn, ConfigfileReturn, CheckfileReturn,
               CheckfileRestore, SavedefaultReturn, DefaultReturn, ConfigReturn, PlainReturn
<1>12. CASE CmpReturn \/ EmbedReturn \/ InstallReturn
  BY <1>12 DEF CmpReturn, EmbedReturn, InstallReturn
<1>13. QED
  BY <1>1, <1>2, <1>3, <1>4, <1>6, <1>7, <1>8, <1>9, <1>10, <1>11, <1>12
     DEF BootNext, PlainReading

LEMMA WildStep ==
  ASSUME Protocol, WildKernel, [BootNext]_vars PROVE WildKernel'
<1>1. CASE halted
  BY <1>1, OnlyCloseExtends DEF vars, bootVars, fileVars, tpmVars, WildKernel
<1>2. CASE ~halted
  BY <1>2, OnlyCloseExtends DEF WildKernel, LoadSections, ReadImage, Goto
<1>3. QED
  BY <1>1, <1>2

LEMMA AstrayStep ==
  ASSUME TypeOK, Protocol, StayOnWay, AstrayFailed, [BootNext]_vars PROVE AstrayFailed'
<1>t. pcr14 \in Seq(Digest)
  BY DEF TypeOK
<1>1. CASE ~Close
  BY <1>1, OnlyCloseExtends DEF AstrayFailed
<1>2. CASE Close
  <2>1. pc = "close" /\ grub_close
    BY <1>2 DEF Close, At
  <2>2. DigestOf.astray => DigestOf.failed
    BY <2>1 DEF StayOnWay, OpenSteps, DigestOf
  <2>3. pcr14' \in {pcr14, Append(pcr14, DigestOf)}
    BY <2>1 DEF grub_close, CloseMeasured, CloseUnmeasured, ClosePlain
  <2> DEFINE x == DigestOf
  <2> HIDE DEF x
  <2>4. CASE pcr14' = Append(pcr14, x)
    <3>1. /\ Len(pcr14') = Len(pcr14) + 1 /\ pcr14'[Len(pcr14) + 1] = x
          /\ \A i \in 1 .. Len(pcr14) : pcr14'[i] = pcr14[i]
      BY <1>t, <2>4
    <3>2. x.astray => x.failed
      BY <2>2 DEF x
    <3>3. Len(pcr14) \in Nat
      BY <1>t
    <3>4. QED
      BY <3>1, <3>2, <3>3 DEF AstrayFailed
  <2>5. QED
    BY <2>3, <2>4 DEF AstrayFailed, x
<1>3. QED
  BY <1>1, <1>2

(* Where reading takes a command. *)
LEMMA WayRead ==
  ASSUME TypeOK, StayOnWay, pc \in OpenSteps, NEW len \in ReadLens \cup {-1}, grub_read(len), ~trouble'
  PROVE  /\ ~trouble /\ strayed' # "off"
         /\ strayed = "back" => pc = "rest"
         /\ strayed' \in {strayed, "done"}
         /\ len = -1 /\ ~wild' => strayed' = "done"
         /\ ~measure_kernel => filepos' = Pos + Clamp(len)
         /\ UNCHANGED measure_kernel
<1>1. len \in Nat \cup {-1}
  BY SizesAssumption
<1>2. QED
  BY <1>1, ReadWay, ReadEffect DEF StayOnWay, flagVars

LEMMA WayStep ==
  ASSUME IInv, TypeOK, Protocol, StayOnWay, [BootNext]_vars PROVE StayOnWay'
<1> SUFFICES ASSUME pc' \in OpenSteps, ~trouble' PROVE StayOnWay'
  BY DEF StayOnWay
<1>1. CASE UNCHANGED vars \/ Booted \/ (grub_halt /\ UNCHANGED bootVars)
  BY <1>1 DEF Booted, grub_halt, vars, fileVars, bootVars, flagVars, posVars, hashVars, StayOnWay
<1>2. CASE Open
  <2>1. /\ grub_open(target) /\ pc = "open" /\ opened' /\ UNCHANGED cmd /\ pc' = AfterOpen
    BY <1>2 DEF Open, At, OpenSteps
  <2>2. strayed' = "no" /\ UNCHANGED <<measure_kernel, no_decompression>>
    BY <2>1, OpenWay, OpenEffect DEF flagVars
  <2>3. /\ pc' \in {"read", "line", "close", "seek"}
        /\ pc' = "seek" => cmd = "stage2b"
    BY <2>1 DEF AfterOpen
  <2>4. cmd = "stage2b" => no_decompression
    BY <2>1 DEF Protocol, InstallReadsRaw, InstallFiles
  <2>5. cmd = "stage2b" => measure_kernel' \/ (sha1_byte_count' = 0 /\ ~compressed_file')
    BY <2>1, <2>2, <2>4, OpenWay
  <2>6. QED
    BY <2>1, <2>2, <2>3, <2>5 DEF StayOnWay
<1>3. CASE PlainReading \/ LoadModule
  <2>1. /\ pc \in {"read", "linux", "line", "part"} /\ UNCHANGED cmd
        /\ pc' \in {"read", "linux", "line", "part", "seek", "close"}
        /\ pc' \in {"part", "seek"} => cmd = "testload"
    BY <1>3, PlainReadingSteps DEF LoadModule, At, Goto
  <2>w. pc' \in {"part", "seek"} => pc = "part" \/ (ReadWhole /\ grub_read(-1))
    BY <1>3, <2>1 DEF PlainReading, RejectImage, MemOption, LoadLinux, LoadSections, ReadImage,
       LoadSector, ReadOnce, ReadByte, ConfigLine, ReadWhole, ReadPart, LoadModule, At, Goto
  <2>2. CASE Looks /\ ~Reads
    <3>1. UNCHANGED <<trouble, strayed, measure_kernel>>
      BY <2>2, LooksEffect DEF flagVars
    <3>2. pc' \in {"part", "seek"} => pc = "part"
      BY <2>w, <2>2 DEF Reads
    <3>3. QED
      BY <2>1, <3>1, <3>2 DEF StayOnWay, OpenSteps
  <2>3. CASE Reads
    <3>1. PICK len \in ReadLens \cup {-1} :
            grub_read(len) /\ (pc' \in {"part", "seek"} /\ pc # "part" => len = -1)
      BY <2>w, <2>3 DEF Reads
    <3>2. /\ strayed' # "off" /\ strayed' \in {strayed, "done"} /\ strayed' # "back" /\ ~trouble
          /\ len = -1 /\ ~wild' => strayed' = "done"
          /\ UNCHANGED measure_kernel
      BY <2>1, <3>1, WayRead DEF OpenSteps
    <3>3. cmd = "testload" /\ pc' \in {"part", "seek"} => measure_kernel \/ strayed' = "done"
      <4>1. CASE pc = "part"
        BY <2>1, <3>2, <4>1 DEF StayOnWay, OpenSteps
      <4>2. ReadWhole /\ grub_read(-1) /\ cmd = "testload" => ~wild'
        BY DEF ReadWhole
      <4>3. QED
        BY <2>w, <3>1, <3>2, <4>1, <4>2
    <3>4. QED
      BY <2>1, <3>2, <3>3 DEF StayOnWay
  <2>4. Reads \/ Looks
    BY <1>3, PlainReadingSteps DEF LoadModule, Looks, Reads, Errors
  <2>5. QED
    BY <2>2, <2>3, <2>4
<1>4. CASE CheckSector \/ PatchStage2
  <2>1. UNCHANGED <<cmd, filepos, trouble, strayed, measure_kernel>>
    BY <1>4 DEF CheckSector, PatchStage2, Goto, Call, SetErrnum, OpenSteps, fileVars, flagVars,
       posVars, hashVars
  <2>2. /\ pc \in {"check", "patch"} /\ pc' \in {"close", "seek"}
        /\ pc' = "seek" => pc = "check" /\ cmd = "stage2"
    BY <1>4 DEF CheckSector, PatchStage2, At, Goto, Call, OpenSteps
  <2>3. QED
    BY <2>1, <2>2 DEF StayOnWay, OpenSteps
<1>5. CASE ReadRest
  <2>1. pc = "rest" /\ pc' \in {"patch", "close"} /\ grub_read(-1) /\ ~wild' /\ UNCHANGED cmd
    BY <1>5 DEF ReadRest, At, Goto
  <2>2. strayed' = "done"
    BY <2>1, WayRead DEF OpenSteps
  <2>3. QED
    BY <2>1, <2>2 DEF StayOnWay
<1>6. CASE ReadSector
  <2>1. /\ pc \in {"read", "read2"} /\ grub_read(SectorSize) /\ UNCHANGED cmd
        /\ pc' \in {"read2", "check", "close"}
        /\ cmd = "stage2" /\ pc' = "read2" => pc = "read"
        /\ cmd = "stage2" /\ pc' = "check" => pc = "read2"
        /\ cmd = "stage2" /\ pc' # "close" => Complete
    BY <1>6 DEF ReadSector, At, Goto, InstallFiles
  <2>2. /\ strayed' # "off" /\ strayed' # "back" /\ ~trouble
        /\ ~measure_kernel => filepos' = Pos + Clamp(SectorSize)
        /\ UNCHANGED measure_kernel
    BY <2>1, SectorAssumption, WayRead DEF OpenSteps
  <2>3. ASSUME cmd = "stage2", ~measure_kernel, pc' # "close"
        PROVE  /\ pc' = "read2" => SectorSize <= filepos'
               /\ pc' \in {"check", "seek"} => SectorSize < filepos'
    <3>1. opened /\ filepos \in 0 .. filemax /\ SectorSize \in Nat /\ SectorSize > 0
      BY <2>1, <2>2, <2>3, SectorAssumption, SizesAssumption
         DEF IInv, FileKnown, Protocol, HoldsTarget, OpenSteps
    <3>2. filemax \in Nat
      BY DEF TypeOK
    <3>3. filepos' = filepos + SectorSize
      BY <2>1, <2>2, <2>3, <3>1, <3>2 DEF Complete, Pos
    <3>4. pc = "read2" => SectorSize <= filepos
      BY <2>2, <2>3 DEF StayOnWay, OpenSteps
    <3>5. QED
      BY <2>1, <2>3, <3>1, <3>3, <3>4
  <2>4. QED
    BY <2>1, <2>2, <2>3 DEF StayOnWay
<1>7. CASE Seek
  <2>1. /\ pc = "seek" /\ UNCHANGED cmd
        /\ pc' = (CASE cmd = "testload" -> "part" [] cmd = "stage2" -> "rest" [] OTHER -> "read2")
        /\ cmd \in {"testload", "stage2", "stage2b"}
    BY <1>7 DEF Seek, At, Goto, Protocol, StepOwners
  <2>2. UNCHANGED <<trouble, measure_kernel>>
    BY <1>7, InstallReading, LooksEffect DEF flagVars, Seek, At
  <2>3. /\ strayed \notin {"off", "back"}
        /\ cmd = "testload" => measure_kernel \/ strayed = "done"
        /\ cmd = "stage2" /\ ~measure_kernel => SectorSize < filepos
        /\ cmd = "stage2b" => measure_kernel \/ (sha1_byte_count = 0 /\ ~compressed_file)
    BY <2>1, <2>2 DEF StayOnWay, OpenSteps
  <2>4. strayed' = strayed \/ (strayed' = "back" /\ cmd = "stage2")
    <3>1. CASE UNCHANGED fileVars
      BY <3>1 DEF fileVars, hashVars
    <3>2. CASE grub_seek(IF cmd = "testload" THEN 0 ELSE SectorSize)
      <4>1. CASE cmd = "testload"
        BY <2>3, <3>2, <4>1 DEF grub_seek, Harmless
      <4>2. CASE cmd = "stage2b"
        BY <2>3, <3>2, <4>2 DEF grub_seek, Harmless
      <4>3. CASE cmd = "stage2"
        BY <2>3, <3>2, <4>3 DEF grub_seek, Harmless
      <4>4. QED
        BY <2>1, <4>1, <4>2, <4>3
    <3>3. QED
      BY <1>7, <3>1, <3>2 DEF Seek
  <2>5. CASE cmd = "testload"
    BY <2>1, <2>2, <2>3, <2>4, <2>5 DEF StayOnWay
  <2>6. CASE cmd \in {"stage2", "stage2b"}
    BY <2>1, <2>2, <2>3, <2>4, <2>6 DEF StayOnWay
  <2>7. QED
    BY <2>1, <2>5, <2>6
<1>8. pc' \in OpenSteps =>
        \/ UNCHANGED vars \/ Booted \/ (grub_halt /\ UNCHANGED bootVars)
        \/ Open \/ PlainReading \/ LoadModule \/ CheckSector \/ PatchStage2 \/ ReadRest \/ ReadSector \/ Seek
  <2> USE DEF OpenSteps, Goto, Call, bootVars
  <2>1. CASE \/ cmain \/ boot_entry \/ enter_cmdline \/ init_cmdline \/ Stop \/ Forget \/ Leave
             \/ boot_func \/ savedefault_func \/ (\E f \in Images : Command(f))
    BY <2>1 DEF cmain, boot_entry, enter_cmdline, init_cmdline, Stop, Forget, Leave, boot_func,
                savedefault_func, Command, LoadCommand, UnmeasuredCommand, PlainCommand,
                TestloadCommand, InstallCommand, AtCommand, At
  <2>2. CASE SavedefaultArgs \/ BadArguments \/ load_image \/ load_module \/ OpenFailed
    BY <2>2 DEF SavedefaultArgs, BadArguments, load_image, load_module, OpenFailed, At
  <2>3. CASE \/ KernelReturn \/ ModuleReturn \/ ChainloaderReturn \/ ConfigfileReturn
             \/ CheckfileReturn \/ CheckfileRestore \/ SavedefaultReturn \/ DefaultReturn
             \/ ConfigReturn \/ PlainReturn \/ CmpReturn \/ EmbedReturn \/ InstallReturn \/ Close
    BY <2>3 DEF KernelReturn, ModuleReturn, ChainloaderReturn, ConfigfileReturn, CheckfileReturn,
                CheckfileRestore, SavedefaultReturn, DefaultReturn, ConfigReturn, PlainReturn,
                CmpReturn, EmbedReturn, InstallReturn, Close, At
  <2>4. QED
    BY <2>1, <2>2, <2>3 DEF BootNext, PlainReading
<1>9. QED
  BY <1>1, <1>2, <1>3, <1>4, <1>5, <1>6, <1>7, <1>8

-----------------------------------------------------------------------------
(* The types of the commands' variables. *)

LEMMA BootTypeInit == ASSUME BootInit PROVE BootTypeOK
<1>1. TypeOK
  BY InitInv DEF BootInit, IInv
<1>2. mods = <<>> /\ image = NoImage
  BY DEF BootInit
<1>3. image \in [want: Files \cup {NoFile}, got: Files \cup {NoFile}]
  BY <1>2 DEF NoImage
<1>4. old_perform_sha1_value \in BOOLEAN /\ overwritten \in BOOLEAN
  BY Zenon DEF BootInit
<1>5. QED
  BY <1>1, <1>2, <1>3, <1>4 DEF BootInit, BootTypeOK, Steps, KernelTypes, Procedures

LEMMA SourceType == ASSUME TypeOK PROVE Source \in Files \cup {NoFile}
BY DEF TypeOK, Source

LEMMA BootTypeStep == ASSUME BootTypeOK, TypeOK', [BootNext]_vars PROVE BootTypeOK'
<1> DEFINE Img == [want: Files \cup {NoFile}, got: Files \cup {NoFile}]
<1>t. /\ pc \in Steps /\ flags \in {"script", "cmdline"}
      /\ cmd \in Procedures
      /\ target \in Files \cup {NoFile} /\ old_perform_sha1_value \in BOOLEAN
      /\ kernel_type \in KernelTypes /\ loading \in KernelTypes
      /\ image \in Img /\ mods \in Seq(Img) /\ overwritten \in BOOLEAN
  BY DEF BootTypeOK
<1>s. [want |-> target, got |-> Source] \in Img
  BY <1>t, SourceType DEF BootTypeOK
<1> HIDE DEF Img
<1> USE DEF BootNext, cmain, boot_entry, enter_cmdline, init_cmdline, Stop, Forget, Leave,
      boot_func, Booted, Command, LoadCommand, UnmeasuredCommand, PlainCommand, TestloadCommand,
      InstallCommand, savedefault_func, SavedefaultArgs, BadArguments, load_image, load_module,
      Open, AfterOpen, OpenFailed, RejectImage, MemOption, LoadLinux, LoadSections, ReadImage,
      LoadModule, LoadSector, ReadOnce, ReadByte, ConfigLine, ReadWhole, ReadPart, Seek,
      ReadSector, CheckSector, ReadRest, PatchStage2, Overwrites, Close, KernelReturn,
      ModuleReturn, ChainloaderReturn, ConfigfileReturn, CheckfileReturn, CheckfileRestore,
      SavedefaultReturn, DefaultReturn, ConfigReturn, PlainReturn, CmpReturn, EmbedReturn,
      InstallReturn, Goto, Call, vars, bootVars, loadVars
<1>1. pc' \in Steps
  BY <1>t DEF Steps
<1>2. flags' \in {"script", "cmdline"}
  BY <1>t
<1>3. cmd' \in Procedures
  BY <1>t DEF Procedures, FileCommands, WholeReaders, InstallFiles
<1>4. target' \in Files \cup {NoFile}
  BY <1>t, NamesAssumption
<1>5. old_perform_sha1_value' \in BOOLEAN
  <2>1. \/ old_perform_sha1_value' = old_perform_sha1_value
        \/ old_perform_sha1_value' = (old_perform_sha1_value \/ perform_sha1)
    BY DEF DisableMeasuring, RestoreMeasuring
  <2>2. QED
    BY <1>t, <2>1, Zenon
<1>6. kernel_type' \in KernelTypes /\ loading' \in KernelTypes
  BY <1>t DEF KernelTypes
<1>7. image' \in Img
  BY <1>t, <1>s
<1>8. mods' \in Seq(Img)
  <2>1. \/ mods' = mods \/ mods' = <<>>
        \/ mods' = Append(mods, [want |-> target, got |-> Source])
    OBVIOUS
  <2>2. <<>> \in Seq(Img) /\ Append(mods, [want |-> target, got |-> Source]) \in Seq(Img)
    BY <1>t, <1>s
  <2>3. QED
    BY <1>t, <2>1, <2>2, Zenon
<1>9. overwritten' \in BOOLEAN
  <2>1. \/ overwritten' \in {overwritten, TRUE}
        \/ overwritten' = (overwritten /\ kernel_type' = "none")
    BY Zenon
  <2>2. QED
    BY <1>t, <2>1, Zenon
<1>10. QED
  BY <1>1, <1>2, <1>3, <1>4, <1>5, <1>6, <1>7, <1>8, <1>9 DEF BootTypeOK, Img

-----------------------------------------------------------------------------
(* The order of the digests. *)

(* Further digests, and further warnings that were accepted, do no harm. *)
LEMMA InOrderGrows ==
  ASSUME NEW T, NEW L \in Seq(T), NEW D, NEW d \in Seq(D), NEW x, NEW d2, NEW e, NEW e2,
         MeasuredInOrder(L, d, e), d2 \in {d, Append(d, x)}, e \subseteq e2
  PROVE  MeasuredInOrder(L, d2, e2)
<1>1. PICK at \in [1 .. Len(L) -> 0 .. Len(d)] :
        \A i \in 1 .. Len(L) : L[i].want \notin e =>
          /\ at[i] # 0 /\ Measures(d[at[i]], L[i])
          /\ \A j \in 1 .. i - 1 : L[j].want \notin e => at[j] < at[i]
  BY DEF MeasuredInOrder
<1>2. 0 .. Len(d) \subseteq 0 .. Len(d2) /\ \A k \in 1 .. Len(d) : d2[k] = d[k]
  OBVIOUS
<1>3. at \in [1 .. Len(L) -> 0 .. Len(d2)]
  BY <1>1, <1>2
<1>4. ASSUME NEW i \in 1 .. Len(L), L[i].want \notin e2
      PROVE  /\ at[i] # 0 /\ Measures(d2[at[i]], L[i])
             /\ \A j \in 1 .. i - 1 : L[j].want \notin e2 => at[j] < at[i]
  <2>1. L[i].want \notin e /\ at[i] \in 0 .. Len(d)
    BY <1>1, <1>4
  <2>2. at[i] \in 1 .. Len(d) /\ d2[at[i]] = d[at[i]]
    BY <1>1, <1>2, <2>1
  <2>3. QED
    BY <1>1, <2>1, <2>2
<1>5. QED
  BY <1>3, <1>4 DEF MeasuredInOrder

(* One more image, with its digest at the end or excused. *)
LEMMA InOrderLast ==
  ASSUME NEW T, NEW L \in Seq(T), NEW n \in Nat, Len(L) = n + 1,
         NEW D, NEW d \in Seq(D), NEW x, NEW d2, NEW e, NEW e2,
         MeasuredInOrder(SubSeq(L, 1, n), d, e), e \subseteq e2,
         \/ d2 = d /\ L[n + 1].want \in e2
         \/ d2 = Append(d, x) /\ Measures(x, L[n + 1])
  PROVE  MeasuredInOrder(L, d2, e2)
<1> DEFINE M == SubSeq(L, 1, n)
<1>1. Len(M) = n /\ \A i \in 1 .. n : M[i] = L[i]
  OBVIOUS
<1>2. PICK at \in [1 .. n -> 0 .. Len(d)] :
        \A i \in 1 .. n : L[i].want \notin e =>
          /\ at[i] # 0 /\ Measures(d[at[i]], L[i])
          /\ \A j \in 1 .. i - 1 : L[j].want \notin e => at[j] < at[i]
  <2>1. PICK a \in [1 .. Len(M) -> 0 .. Len(d)] :
          \A i \in 1 .. Len(M) : M[i].want \notin e =>
            /\ a[i] # 0 /\ Measures(d[a[i]], M[i])
            /\ \A j \in 1 .. i - 1 : M[j].want \notin e => a[j] < a[i]
    BY DEF MeasuredInOrder
  <2> HIDE DEF M
  <2>2. a \in [1 .. n -> 0 .. Len(d)]
    BY <1>1, <2>1
  <2>3. \A i \in 1 .. n : L[i].want \notin e =>
          /\ a[i] # 0 /\ Measures(d[a[i]], L[i])
          /\ \A j \in 1 .. i - 1 : L[j].want \notin e => a[j] < a[i]
    BY <1>1, <2>1
  <2>4. QED
    BY <2>2, <2>3
<1>3. /\ Len(d) \in Nat /\ Len(d2) \in Nat /\ Len(d) <= Len(d2)
      /\ \A k \in 1 .. Len(d) : d2[k] = d[k]
      /\ d2 = Append(d, x) => Len(d2) = Len(d) + 1 /\ d2[Len(d) + 1] = x
  BY SMTT(30)
<1> DEFINE bt == [i \in 1 .. n + 1 |-> IF i <= n THEN at[i] ELSE Len(d2)]
<1>4. bt \in [1 .. n + 1 -> 0 .. Len(d2)]
  BY <1>2, <1>3
<1>5. (\A i \in 1 .. n : bt[i] = at[i]) /\ bt[n + 1] = Len(d2)
  OBVIOUS
<1> HIDE DEF bt
<1>6. ASSUME NEW i \in 1 .. n, L[i].want \notin e2
      PROVE  /\ bt[i] # 0 /\ Measures(d2[bt[i]], L[i])
             /\ \A j \in 1 .. i - 1 : L[j].want \notin e2 => bt[j] < bt[i]
  <2>1. L[i].want \notin e /\ bt[i] = at[i] /\ at[i] \in 1 .. Len(d)
    BY <1>2, <1>3, <1>5, <1>6
  <2>2. \A j \in 1 .. i - 1 : L[j].want \notin e2 => bt[j] < bt[i]
    BY <1>2, <1>5, <2>1
  <2>3. QED
    BY <1>2, <1>3, <2>1, <2>2
<1>7. ASSUME L[n + 1].want \notin e2
      PROVE  /\ bt[n + 1] # 0 /\ Measures(d2[bt[n + 1]], L[n + 1])
             /\ \A j \in 1 .. n : bt[j] < bt[n + 1]
  <2>1. d2 = Append(d, x) /\ Measures(x, L[n + 1])
    BY <1>7
  <2>2. bt[n + 1] = Len(d) + 1 /\ d2[bt[n + 1]] = x
    BY <1>3, <1>5, <2>1
  <2>3. \A j \in 1 .. n : bt[j] \in 0 .. Len(d)
    BY <1>2, <1>5
  <2>4. QED
    BY <1>3, <2>1, <2>2, <2>3
<1>8. \A i \in 1 .. Len(L) : L[i].want \notin e2 =>
        /\ bt[i] # 0 /\ Measures(d2[bt[i]], L[i])
        /\ \A j \in 1 .. i - 1 : L[j].want \notin e2 => bt[j] < bt[i]
  BY <1>6, <1>7
<1>9. QED
  BY <1>4, <1>8 DEF MeasuredInOrder

-----------------------------------------------------------------------------
(* What was measured stays measured, and what is loaded gets measured. *)

ImageRecord == [want: Files \cup {NoFile}, got: Files \cup {NoFile}]

LEMMA ConsType ==
  ASSUME NEW T, NEW im \in T, NEW ms \in Seq(T)
  PROVE  /\ <<im>> \o ms \in Seq(T) /\ Len(<<im>> \o ms) = Len(ms) + 1
         /\ (<<im>> \o ms)[1] = im
         /\ \A i \in 1 .. Len(ms) : (<<im>> \o ms)[i + 1] = ms[i]
<1>1. <<im>> \in Seq(T)
  OBVIOUS
<1>2. QED
  BY <1>1

LEMMA LoadedType ==
  ASSUME BootTypeOK
  PROVE  /\ image \in ImageRecord /\ mods \in Seq(ImageRecord)
         /\ Loaded \in Seq(ImageRecord) /\ Len(Loaded) = Len(mods) + 1
         /\ Loaded[1] = image /\ \A i \in 1 .. Len(mods) : Loaded[i + 1] = mods[i]
         /\ pcr14 \in Seq(Digest)
<1>1. image \in ImageRecord /\ mods \in Seq(ImageRecord) /\ pcr14 \in Seq(Digest)
  BY DEF BootTypeOK, TypeOK, ImageRecord
<1>2. QED
  BY <1>1, ConsType DEF Loaded


(* grub_close measures the last image, stops, or has it excused: the image *)
(* was read as a whole, or is something else because it could not be read. *)
LEMMA CloseMeasures ==
  ASSUME IInv, IInv', grub_close, perform_sha1, tpm, ~halted',
         NEW STATE L, L \in Seq(ImageRecord), NEW n \in Nat, Len(L) = n + 1,
         MeasuredInOrder(SubSeq(L, 1, n), pcr14, accepted),
         L[n + 1].want = file,
         \/ /\ errnum = "none" /\ ~trouble /\ strayed \notin {"back", "off"}
            /\ L[n + 1].got = file \/ sha1_byte_count # sha1_has_to_measure
         \/ /\ trouble
            /\ L[n + 1].got = NoFile \/ sha1_byte_count # sha1_has_to_measure
  PROVE  /\ MeasuredInOrder(L, pcr14', accepted') /\ accepted \subseteq accepted'
         /\ L[n + 1].got = NoFile \/ L[n + 1].got = file \/ L[n + 1].want \in accepted'
<1>t. pcr14 \in Seq(Digest)
  BY DEF IInv, TypeOK
<1>1. CASE CloseMeasured
  <2> DEFINE x == DigestOf
  <2>1. pcr14' = Append(pcr14, x) /\ accepted' = accepted
    BY <1>1 DEF CloseMeasured
  <2>2. pcr14'[Len(pcr14) + 1] = x /\ Len(pcr14') = Len(pcr14) + 1
    BY <2>1, <1>t
  <2>3. x.whole \/ x.failed \/ x.astray
    BY <2>2, <1>t DEF IInv, ExtendSound
  <2>4. /\ x.file = file /\ x.failed = (trouble \/ errnum # "none")
        /\ x.astray = (strayed \in {"back", "off"})
    BY DEF DigestOf
  <2>5. sha1_byte_count = sha1_has_to_measure
    BY <1>1 DEF CloseMeasured
  <2> HIDE DEF x
  <2>6. Measures(x, L[n + 1])
    <3>1. CASE trouble
      BY <2>4, <2>5, <3>1 DEF Measures
    <3>2. CASE ~trouble
      BY <2>3, <2>4, <2>5, <3>2 DEF Measures
    <3>3. QED
      BY <3>1, <3>2
  <2>7. MeasuredInOrder(L, pcr14', accepted')
    BY <1>t, <2>1, <2>6, InOrderLast
  <2>8. QED
    BY <2>1, <2>5, <2>7
<1>2. CASE CloseUnmeasured
  <2>1. pcr14' = pcr14 /\ accepted' = accepted \cup {file}
    BY <1>2 DEF CloseUnmeasured
  <2>2. accepted \subseteq accepted' /\ L[n + 1].want \in accepted'
    BY <2>1
  <2>3. QED
    BY <1>t, <2>1, <2>2, InOrderLast
<1>3. QED
  BY <1>1, <1>2 DEF grub_close, ClosePlain

(* It leaves what was measured before alone. *)
LEMMA CloseKeeps ==
  ASSUME BootTypeOK, grub_close, UNCHANGED <<image, mods>>
  PROVE  /\ MeasuredInOrder(Loaded, pcr14, accepted) => MeasuredInOrder(Loaded', pcr14', accepted')
         /\ accepted \subseteq accepted'
<1>1. Loaded' = Loaded
  BY DEF Loaded
<1>2. \E x : pcr14' \in {pcr14, Append(pcr14, x)}
  BY DEF grub_close, CloseMeasured, CloseUnmeasured, ClosePlain
<1>3. Loaded \in Seq(ImageRecord) /\ pcr14 \in Seq(Digest)
  BY LoadedType
<1>4. accepted \subseteq accepted'
  BY DEF grub_close, CloseMeasured, CloseUnmeasured, ClosePlain
<1>5. QED
  BY <1>1, <1>2, <1>3, <1>4, InOrderGrows

LEMMA MeasuredInit == BootInit => Measured
BY DEF BootInit, Measured, KernelMeasured, ModulesIntact, ModuleToBeMeasured, ImageToBeMeasured,
       ImageMeasured, SectorIsNoKernel, StartedKernel, Running, Replacing, Adding

ImageCommands == {"kernel", "chainloader", "initrd", "module"}
Closing == pc \in {"close", "return"} /\ cmd \in ImageCommands

(* The steps that do not touch what is loaded, nor end its loading. *)
Quiet ==
  /\ UNCHANGED <<image, mods>>
  /\ kernel_type' \in {kernel_type, "none"}
  /\ ~Replacing \/ kernel_type' = "none"
  /\ ~Adding /\ ~Closing'
  /\ pc' = "booted" => kernel_type # "none" /\ UNCHANGED <<kernel_type, fileVars>>

LEMMA QuietMeasured ==
  ASSUME Protocol, Measured, [BootNext]_vars, ~halted, ~Close, Quiet PROVE Measured'
<1>1. ~Replacing' /\ ~Adding'
  BY DEF Quiet, Closing, ImageCommands, Replacing, Adding
<1>2. UNCHANGED <<tpm, pcr14, accepted>>
  BY OnlyCloseExtends
<1>3. KernelMeasured'
  <2>1. Loaded' = Loaded
    BY DEF Quiet, Loaded
  <2>2. Running' => Running /\ ~Replacing /\ kernel_type' = kernel_type
    BY DEF Quiet, Running
  <2>3. KernelIntact(kernel_type) /\ kernel_type' = kernel_type => KernelIntact(kernel_type)'
    BY <1>2 DEF KernelIntact, Quiet
  <2>4. QED
    BY <1>1, <1>2, <2>1, <2>2, <2>3 DEF Measured, KernelMeasured, Quiet
<1>4. QED
  BY <1>1, <1>3 DEF Measured, ModulesIntact, ModuleToBeMeasured, ImageToBeMeasured, ImageMeasured,
       SectorIsNoKernel, StartedKernel, Closing, ImageCommands, Quiet, fileVars, tpmVars

(* The control of the commands outside of these steps. *)
LEMMA QuietSteps ==
  ASSUME Protocol, Measured,
         \/ cmain \/ boot_entry \/ enter_cmdline \/ init_cmdline \/ Stop \/ Forget \/ Leave
         \/ boot_func \/ savedefault_func \/ (\E f \in Images : Command(f))
         \/ SavedefaultArgs \/ BadArguments \/ load_image \/ load_module
         \/ OpenFailed \/ Open \/ MemOption \/ ReadOnce \/ ReadByte \/ ConfigLine
         \/ ReadWhole \/ ReadPart \/ Seek \/ ReadSector \/ CheckSector \/ ReadRest \/ PatchStage2
         \/ ModuleReturn \/ ConfigfileReturn \/ CheckfileReturn \/ CheckfileRestore
         \/ SavedefaultReturn \/ DefaultReturn \/ ConfigReturn \/ PlainReturn
         \/ CmpReturn \/ EmbedReturn \/ InstallReturn
  PROVE  Quiet /\ ~halted /\ ~Close
<1> USE DEF At, AtCommand, Goto, Call, loadVars, bootVars, ImageCommands, Closing, Replacing,
            Adding, Quiet
<1>1. CASE boot_func
  BY <1>1 DEF boot_func, Close
<1>2. CASE \/ cmain \/ boot_entry \/ enter_cmdline \/ init_cmdline \/ Stop \/ Forget \/ Leave
           \/ savedefault_func \/ (\E f \in Images : Command(f))
  BY <1>2 DEF cmain, boot_entry, enter_cmdline, init_cmdline, Stop, Forget, Leave,
              savedefault_func, Command, LoadCommand, UnmeasuredCommand, PlainCommand,
              TestloadCommand, InstallCommand, Close
<1>3. CASE SavedefaultArgs \/ BadArguments \/ load_image \/ load_module
  BY <1>3 DEF SavedefaultArgs, BadArguments, load_image, load_module, Close
<1>4. CASE OpenFailed \/ Open
  BY <1>4 DEF OpenFailed, Open, AfterOpen, Close
<1>5. CASE MemOption \/ ReadOnce \/ ReadByte \/ ReadWhole
  BY <1>5 DEF MemOption, ReadOnce, ReadByte, ReadWhole, WholeReaders, Overwrites, Close
<1>6. CASE ConfigLine \/ ReadPart
  <2>1. cmd \in {"config", "testload"}
    BY <1>6 DEF ConfigLine, ReadPart, Protocol, StepOwners
  <2>2. QED
    BY <1>6, <2>1 DEF ConfigLine, ReadPart, Close
<1>7. CASE Seek \/ ReadSector \/ CheckSector \/ ReadRest \/ PatchStage2
  <2>1. /\ pc \in {"read", "read2", "check", "rest", "patch", "seek"} /\ ~halted
        /\ cmd \notin ImageCommands /\ cmd' \notin ImageCommands /\ pc' # "booted"
        /\ UNCHANGED kernel_type
    BY <1>7, InstallReading DEF InstallFiles
  <2>2. UNCHANGED <<image, mods>>
    BY <1>7 DEF Seek, ReadSector, CheckSector, ReadRest, PatchStage2, Overwrites
  <2>3. QED
    BY <2>1, <2>2 DEF Close
<1>8. CASE \/ ModuleReturn \/ ConfigfileReturn \/ CheckfileReturn \/ CheckfileRestore
           \/ SavedefaultReturn \/ DefaultReturn \/ ConfigReturn \/ PlainReturn
           \/ CmpReturn \/ EmbedReturn \/ InstallReturn
  BY <1>8 DEF ModuleReturn, ConfigfileReturn, CheckfileReturn, CheckfileRestore,
         SavedefaultReturn, DefaultReturn, ConfigReturn, PlainReturn, CmpReturn, EmbedReturn,
         InstallReturn, InstallFiles, Close
<1>9. QED
  BY <1>1, <1>2, <1>3, <1>4, <1>5, <1>6, <1>7, <1>8

(* The loaders of kernels and of sectors: the image is measured later. *)
LEMMA ImageReadMeasured ==
  ASSUME IInv, Protocol, Measured, RejectImage \/ LoadLinux \/ LoadSections \/ LoadSector
  PROVE  Measured'
<1>1. /\ pc \in {"read", "linux"} /\ pc' = "close" /\ cmd \in {"kernel", "chainloader"}
      /\ UNCHANGED <<cmd, target, mods, kernel_type>>
  BY DEF RejectImage, LoadLinux, LoadSections, ReadImage, LoadSector, At, Goto
<1>2. KernelMeasured' /\ ModuleToBeMeasured' /\ ImageMeasured' /\ StartedKernel' /\ ModulesIntact'
  BY <1>1 DEF KernelMeasured, ModuleToBeMeasured, ImageMeasured, StartedKernel, Replacing, Adding,
     Measured, ModulesIntact
<1>3. SectorIsNoKernel'
  BY <1>1 DEF RejectImage, LoadLinux, LoadSections, ReadImage, LoadSector, At, SectorIsNoKernel
<1>4. ImageToBeMeasured'
  <2>1. SUFFICES ASSUME cmd = "kernel", loading' # "none"
                 PROVE  /\ image'.want = target
                        /\ \/ /\ errnum' = "none" /\ ~trouble'
                              /\ image'.got = target \/ block_file'
                           \/ /\ trouble' /\ loading' = "linux"
                              /\ image'.got = NoFile \/ block_file'
    BY <1>1 DEF ImageToBeMeasured
  <2>2. PICK len \in ReadLens \cup {-1} : grub_read(len)
    BY <2>1 DEF RejectImage, LoadLinux, LoadSections, ReadImage, LoadSector
  <2>3. /\ errnum' = "none" /\ image' = [want |-> target, got |-> Source]
        /\ pc = "linux" => loading' = "linux"
    BY <2>1 DEF RejectImage, LoadLinux, LoadSections, ReadImage, LoadSector, At
  <2>4. errnum = "none" /\ trouble' = trouble /\ opened /\ UNCHANGED block_file
    BY <2>2, <2>3, ReadEffect
  <2>5. measure_kernel /\ perform_sha1 /\ file = target
    BY <1>1, <2>1 DEF Protocol, KernelMode, LoadersMeasure, HoldsTarget, LoadCommands, OpenSteps
  <2>6. CASE ~trouble
    <3>1. ~block_file => Source = target
      BY <2>4, <2>5, <2>6 DEF IInv, StagedIsMeasured, Source
    <3>2. QED
      BY <2>3, <2>4, <2>6, <3>1
  <2>7. CASE trouble
    <3>1. pc = "linux"
      BY <1>1, <2>1, <2>4, <2>7 DEF Protocol, NoTroubleYet, LoadCommands
    <3>2. ~block_file => Source = NoFile
      BY <1>1, <2>1, <2>5, <2>7 DEF Protocol, StagingLost, Source
    <3>3. QED
      BY <2>3, <2>4, <2>7, <3>1, <3>2
  <2>8. QED
    BY <2>6, <2>7
<1>5. QED
  BY <1>2, <1>3, <1>4 DEF Measured

LEMMA LoadModuleMeasured ==
  ASSUME BootTypeOK, BootTypeOK', Protocol, Measured, LoadModule
  PROVE  Measured'
<1>1. /\ pc = "read" /\ pc' = "close" /\ cmd \in {"initrd", "module"}
      /\ UNCHANGED <<cmd, target, kernel_type, image>>
  BY DEF LoadModule, At, Goto
<1>2. ImageToBeMeasured' /\ ImageMeasured' /\ SectorIsNoKernel' /\ StartedKernel'
  BY <1>1 DEF ImageToBeMeasured, ImageMeasured, SectorIsNoKernel, StartedKernel
<1>3. UNCHANGED <<tpm, pcr14, accepted>> /\ ~halted
  BY OnlyCloseExtends DEF LoadModule, BootNext, Close, At
<1>m. \/ UNCHANGED mods
      \/ grub_read(-1) /\ errnum' = "none" /\ mods' = Append(mods, [want |-> target, got |-> Source])
  BY DEF LoadModule
<1>r. ASSUME grub_read(-1), errnum' = "none"
      PROVE  /\ errnum = "none" /\ UNCHANGED <<trouble>> /\ ~trouble
             /\ [want |-> target, got |-> Source] = [want |-> target, got |-> target]
  <2>1. errnum = "none" /\ trouble' = trouble
    BY <1>r, ReadEffect
  <2>2. ~trouble /\ file = target /\ ~measure_kernel
    BY <1>1, <2>1 DEF Protocol, NoTroubleYet, HoldsTarget, LoadCommands, KernelMode, OpenSteps
  <2>3. QED
    BY <2>1, <2>2 DEF Source
<1>i. KernelMeasured' /\ ModulesIntact'
  <2>1. Running' = Running /\ ~Replacing /\ ~Replacing' /\ Adding'
    BY <1>1 DEF Running, Replacing, Adding
  <2>2. KernelMeasured'
    <3>1. KernelIntact(kernel_type) => KernelIntact(kernel_type)'
      BY <1>1, <1>3 DEF KernelIntact
    <3>2. QED
      BY <1>1, <1>3, <2>1, <3>1 DEF Measured, KernelMeasured
  <2>3. ModulesIntact'
    <3>1. CASE UNCHANGED mods
      BY <3>1 DEF Measured, ModulesIntact
    <3>2. CASE grub_read(-1) /\ errnum' = "none"
               /\ mods' = Append(mods, [want |-> target, got |-> Source])
      <4>1. mods \in Seq(ImageRecord) /\ mods' = Append(mods, [want |-> target, got |-> target])
        BY <1>r, <3>2 DEF BootTypeOK, ImageRecord
      <4>2. QED
        BY <4>1 DEF Measured, ModulesIntact
    <3>3. QED
      BY <1>m, <3>1, <3>2
  <2>4. QED
    BY <2>2, <2>3
<1>4. ModuleToBeMeasured'
  <2>1. SUFFICES ASSUME tpm, ~halted, Running
                 PROVE  \/ MeasuredInOrder(Loaded', pcr14, accepted)
                        \/ /\ errnum' = "none" /\ ~trouble'
                           /\ Loaded'[Len(Loaded')] = [want |-> target, got |-> target]
                           /\ MeasuredInOrder(SubSeq(Loaded', 1, Len(Loaded') - 1), pcr14, accepted)
    BY <1>1, <1>3 DEF ModuleToBeMeasured, Running
  <2>2. MeasuredInOrder(Loaded, pcr14, accepted)
    BY <1>1, <2>1 DEF Measured, KernelMeasured, Replacing, Adding
  <2>3. CASE UNCHANGED mods
    BY <1>1, <2>2, <2>3 DEF Loaded
  <2>4. CASE /\ grub_read(-1) /\ errnum' = "none"
             /\ mods' = Append(mods, [want |-> target, got |-> Source])
    <3>1. trouble' = trouble /\ ~trouble
      BY <1>r, <2>4
    <3>3. mods' = Append(mods, [want |-> target, got |-> target])
      BY <1>r, <2>4
    <3>t. image' \in ImageRecord /\ mods' \in Seq(ImageRecord)
      BY DEF BootTypeOK, ImageRecord
    <3>4. /\ mods \in Seq(ImageRecord) /\ mods' \in Seq(ImageRecord)
          /\ Loaded \in Seq(ImageRecord) /\ Loaded' \in Seq(ImageRecord)
          /\ Len(Loaded) = Len(mods) + 1 /\ Len(Loaded') = Len(mods') + 1
          /\ Loaded[1] = image /\ \A i \in 1 .. Len(mods) : Loaded[i + 1] = mods[i]
          /\ Loaded'[1] = image' /\ \A i \in 1 .. Len(mods') : Loaded'[i + 1] = mods'[i]
      BY <3>t, LoadedType, ConsType DEF Loaded
    <3>5. /\ Len(mods') = Len(mods) + 1 /\ \A i \in 1 .. Len(mods) : mods'[i] = mods[i]
          /\ mods'[Len(mods) + 1] = [want |-> target, got |-> target]
      BY <3>3, <3>4
    <3>6. Loaded'[Len(Loaded')] = [want |-> target, got |-> target]
      BY <3>4, <3>5, SMTT(30)
    <3>7. SubSeq(Loaded', 1, Len(Loaded') - 1) = Loaded
      <4>1. \A i \in 1 .. Len(Loaded) : Loaded'[i] = Loaded[i]
        <5>1. SUFFICES ASSUME NEW i \in 1 .. Len(Loaded), i # 1 PROVE Loaded'[i] = Loaded[i]
          BY <1>1, <3>4
        <5>2. i - 1 \in 1 .. Len(mods)
          BY <3>4, <5>1
        <5>3. Loaded[(i - 1) + 1] = mods[i - 1] /\ Loaded'[(i - 1) + 1] = mods'[i - 1]
          BY <3>4, <3>5, <5>2
        <5>4. QED
          BY <3>5, <5>2, <5>3
      <4>2. Len(Loaded') - 1 = Len(Loaded)
        BY <3>4, <3>5
      <4>3. QED
        BY <3>4, <4>1, <4>2
    <3>8. QED
      BY <2>2, <2>4, <3>1, <3>6, <3>7
  <2>5. QED
    BY <1>m, <2>3, <2>4
<1>5. QED
  BY <1>2, <1>i, <1>4 DEF Measured


LEMMA CloseStepMeasured ==
  ASSUME IInv, IInv', BootTypeOK, Protocol, StayOnWay, Measured, Close PROVE Measured'
<1>1. /\ pc = "close" /\ pc' = "return" /\ grub_close
      /\ UNCHANGED <<cmd, target, kernel_type, loading, image, mods>>
  BY DEF Close, At, Goto, loadVars
<1>2. /\ UNCHANGED <<tpm, errnum, trouble, file>> /\ ~halted /\ opened
      /\ file = target
  BY <1>1, CloseEffect DEF posVars, hashVars, Protocol, HoldsTarget, OpenSteps
<1>w. ~trouble => strayed \notin {"back", "off"}
  BY <1>1 DEF StayOnWay, OpenSteps
<1>3. /\ ModuleToBeMeasured' /\ ImageToBeMeasured' /\ StartedKernel' /\ SectorIsNoKernel'
      /\ ModulesIntact'
  BY <1>1 DEF ModuleToBeMeasured, ImageToBeMeasured, StartedKernel, Adding, Measured,
              SectorIsNoKernel, ModulesIntact
<1>4. KernelMeasured'
  <2>1. SUFFICES ASSUME tpm, ~halted', Running, cmd \notin {"kernel", "chainloader"}
                 PROVE  MeasuredInOrder(Loaded', pcr14', accepted') /\ KernelIntact(kernel_type)'
    BY <1>1, <1>2 DEF KernelMeasured, Running, Replacing
  <2>2. KernelIntact(kernel_type)'
    <3>1. KernelIntact(kernel_type)
      BY <1>1, <1>2, <2>1 DEF Measured, KernelMeasured, Replacing
    <3>2. QED
      BY <1>1, <3>1, CloseKeeps DEF KernelIntact
  <2>3. CASE MeasuredInOrder(Loaded, pcr14, accepted)
    BY <1>1, <2>2, <2>3, CloseKeeps
  <2>4. CASE ~MeasuredInOrder(Loaded, pcr14, accepted)
    <3>1. Adding
      BY <1>1, <1>2, <2>1, <2>4 DEF Measured, KernelMeasured, Replacing
    <3>2. /\ errnum = "none" /\ ~trouble
          /\ Loaded[Len(Loaded)] = [want |-> target, got |-> target]
          /\ MeasuredInOrder(SubSeq(Loaded, 1, Len(Loaded) - 1), pcr14, accepted)
      BY <1>2, <2>1, <2>4, <3>1 DEF Measured, ModuleToBeMeasured
    <3>3. perform_sha1
      BY <1>1, <3>1 DEF Protocol, LoadersMeasure, LoadCommands, Adding
    <3>4. Loaded \in Seq(ImageRecord) /\ Len(mods) \in Nat /\ Len(Loaded) = Len(mods) + 1
      BY LoadedType
    <3>5. /\ MeasuredInOrder(SubSeq(Loaded, 1, Len(mods)), pcr14, accepted)
          /\ Loaded[Len(mods) + 1].want = file /\ Loaded[Len(mods) + 1].got = file
      BY <1>2, <3>2, <3>4
    <3>6. Loaded' = Loaded
      BY <1>1 DEF Loaded
    <3>7. MeasuredInOrder(Loaded, pcr14', accepted')
      BY <1>1, <1>w, <2>1, <3>2, <3>3, <3>4, <3>5, CloseMeasures
    <3>8. QED
      BY <2>2, <3>6, <3>7
  <2>5. QED
    BY <2>3, <2>4
<1>5. ImageMeasured'
  <2>1. SUFFICES ASSUME tpm, ~halted', cmd = "kernel", loading # "none"
                 PROVE  MeasuredInOrder(<<image>>, pcr14', accepted') /\ KernelIntact(loading)'
    BY <1>1, <1>2 DEF ImageMeasured
  <2>2. /\ image.want = file
        /\ \/ errnum = "none" /\ ~trouble /\ (image.got = file \/ block_file)
           \/ trouble /\ loading = "linux" /\ (image.got = NoFile \/ block_file)
    BY <1>1, <1>2, <2>1 DEF Measured, ImageToBeMeasured
  <2>3. perform_sha1 /\ (block_file => sha1_byte_count # sha1_has_to_measure)
    BY <1>1, <2>1 DEF Protocol, LoadersMeasure, LoadCommands, BlocklistKernel
  <2>4. <<image>> \in Seq(ImageRecord) /\ Len(<<image>>) = 0 + 1 /\ <<image>>[0 + 1] = image
    BY LoadedType
  <2>5. MeasuredInOrder(SubSeq(<<image>>, 1, 0), pcr14, accepted)
    <3>1. SubSeq(<<image>>, 1, 0) = <<>>
      OBVIOUS
    <3>2. MeasuredInOrder(<<>>, pcr14, accepted)
      <4>1. [i \in 1 .. 0 |-> 0] \in [1 .. Len(<<>>) -> 0 .. Len(pcr14)]
        OBVIOUS
      <4>2. \A i \in 1 .. Len(<<>>) : FALSE
        OBVIOUS
      <4>3. QED
        BY <4>1, <4>2, Zenon DEF MeasuredInOrder
    <3>3. QED
      BY <3>1, <3>2
  <2> DEFINE L == <<image>>
  <2>6. L \in Seq(ImageRecord) /\ Len(L) = 0 + 1 /\ L[0 + 1] = image
        /\ MeasuredInOrder(SubSeq(L, 1, 0), pcr14, accepted)
    BY <2>4, <2>5
  <2>7. \/ /\ errnum = "none" /\ ~trouble /\ strayed \notin {"back", "off"}
           /\ image.got = file \/ sha1_byte_count # sha1_has_to_measure
        \/ /\ trouble
           /\ image.got = NoFile \/ sha1_byte_count # sha1_has_to_measure
    BY <1>w, <2>2, <2>3
  <2> HIDE DEF L
  <2>8. /\ MeasuredInOrder(L, pcr14', accepted')
        /\ image.got = NoFile \/ image.got = file \/ image.want \in accepted'
    BY <1>1, <2>1, <2>2, <2>3, <2>6, <2>7, CloseMeasures
  <2>9. KernelIntact(loading)'
    <3>1. CASE trouble
      BY <1>1, <2>2, <3>1 DEF KernelIntact
    <3>2. CASE ~trouble
      <4>1. image.got = file \/ image.want \in accepted'
        <5>1. CASE block_file
          <6>1. accepted' = accepted \cup {file}
            BY <1>1, <2>1, <2>3, <5>1 DEF grub_close, CloseMeasured, CloseUnmeasured, ClosePlain
          <6>2. QED
            BY <2>2, <6>1
        <5>2. QED
          BY <2>2, <3>2, <5>1
      <4>2. QED
        BY <1>1, <2>2, <4>1 DEF KernelIntact
    <3>3. QED
      BY <3>1, <3>2
  <2>10. QED
    BY <2>8, <2>9 DEF L
<1>6. QED
  BY <1>3, <1>4, <1>5 DEF Measured

LEMMA ReturnMeasured ==
  ASSUME Measured, KernelReturn \/ ChainloaderReturn PROVE Measured'
<1>1. /\ pc = "return" /\ pc' = "prompt" /\ ~halted
      /\ UNCHANGED <<cmd, image, tpm, pcr14, accepted, halted>>
      /\ mods' \in {mods, <<>>}
  BY DEF KernelReturn, ChainloaderReturn, At, Goto, SetErrnum, fileVars, tpmVars
<1>2. /\ ModuleToBeMeasured' /\ ImageToBeMeasured' /\ ImageMeasured'
      /\ SectorIsNoKernel' /\ StartedKernel' /\ ModulesIntact'
  BY <1>1 DEF ModuleToBeMeasured, ImageToBeMeasured, ImageMeasured, SectorIsNoKernel, StartedKernel,
              Adding, Measured, ModulesIntact
<1>3. KernelMeasured'
  <2>1. CASE KernelReturn /\ kernel_type' # "none"
    <3>1. cmd = "kernel" /\ loading = kernel_type' /\ mods' = <<>>
      BY <2>1 DEF KernelReturn, At
    <3>2. Loaded' = <<image>>
      BY <1>1, <3>1 DEF Loaded
    <3>3. KernelIntact(loading) => KernelIntact(kernel_type)'
      BY <1>1, <3>1 DEF KernelIntact
    <3>4. QED
      BY <1>1, <2>1, <3>1, <3>2, <3>3 DEF Measured, ImageMeasured, KernelMeasured
  <2>2. CASE kernel_type' = "none"
    BY <2>2 DEF KernelMeasured, Running
  <2>3. CASE ChainloaderReturn
    <3>1. kernel_type' \in {"none", "chainloader"}
      BY <2>3 DEF ChainloaderReturn, At, Measured, SectorIsNoKernel
    <3>2. QED
      BY <3>1 DEF KernelMeasured, Running
  <2>4. QED
    BY <2>1, <2>2, <2>3
<1>4. QED
  BY <1>2, <1>3 DEF Measured

LEMMA MeasuredStep ==
  ASSUME IInv, IInv', BootTypeOK, BootTypeOK', Protocol, StayOnWay, Measured, [BootNext]_vars
  PROVE  Measured'
<1>1. CASE UNCHANGED vars \/ Booted \/ (grub_halt /\ UNCHANGED bootVars)
  <2>1. UNCHANGED <<bootVars, errnum, trouble, block_file, tpm, pcr14, accepted, halted>>
    BY <1>1 DEF Booted, vars, fileVars, posVars, hashVars, tpmVars, grub_halt
  <2>2. UNCHANGED <<Loaded, Running, Replacing, Adding, pc, cmd, target, kernel_type, loading, image, mods>>
    BY <2>1 DEF bootVars, Loaded, Running, Replacing, Adding
  <2>3. KernelIntact(kernel_type)' = KernelIntact(kernel_type)
        /\ KernelIntact(loading)' = KernelIntact(loading)
    BY <2>1, <2>2 DEF KernelIntact
  <2>4. QED
    BY <2>1, <2>2, <2>3 DEF Measured, KernelMeasured, ModulesIntact, ModuleToBeMeasured,
       ImageToBeMeasured, ImageMeasured, SectorIsNoKernel, StartedKernel
<1>2. CASE Quiet /\ ~halted /\ ~Close
  BY <1>2, QuietMeasured
<1>3. QED
  BY <1>1, <1>2, QuietSteps, ImageReadMeasured, LoadModuleMeasured, CloseStepMeasured,
     ReturnMeasured DEF BootNext

-----------------------------------------------------------------------------
(* BootInv is inductive, and every step of a command is one of the file    *)
(* layer.                                                                  *)
THEOREM BootInductive ==
  /\ BootInit => BootInv
  /\ BootInv /\ [BootNext]_vars => BootInv' /\ [Next]_fileVars
<1>1. BootInit => BootInv
  <2>1. ASSUME BootInit PROVE StayOnWay /\ AstrayFailed /\ WildKernel
    BY <2>1 DEF BootInit, Init, StayOnWay, AstrayFailed, WildKernel, OpenSteps
  <2>2. QED
    BY <2>1, InitInv, BootTypeInit, ProtocolInit, MeasuredInit DEF BootInit, BootInv
<1>2. ASSUME BootInv, [BootNext]_vars PROVE BootInv' /\ [Next]_fileVars
  <2>1. /\ IInv /\ BootTypeOK /\ Protocol /\ StayOnWay /\ AstrayFailed /\ WildKernel /\ Measured
        /\ TypeOK
    BY <1>2 DEF BootInv, IInv
  <2>2. [Next]_fileVars
    BY <1>2, <2>1, FileStep
  <2>3. IInv'
    BY <2>1, <2>2, InductiveInvariant
  <2>4. BootTypeOK'
    BY <1>2, <2>1, <2>3, BootTypeStep DEF IInv
  <2>5. Protocol' /\ StayOnWay' /\ AstrayFailed' /\ WildKernel'
    BY <1>2, <2>1, ProtocolStep, WayStep, AstrayStep, WildStep
  <2>6. Measured'
    BY <1>2, <2>1, <2>3, <2>4, MeasuredStep
  <2>7. QED
    BY <2>2, <2>3, <2>4, <2>5, <2>6 DEF BootInv
<1>3. QED
  BY <1>1, <1>2

LEMMA BootInvariance == BootSpec => []BootInv
<1>1. QED
  BY BootInductive, PTL DEF BootSpec

(* The variables of the commands of builtins.c and boot.c keep their types.*)
THEOREM BootTypeCorrect == BootSpec => []BootTypeOK
<1>1. BootInv => BootTypeOK
  BY DEF BootInv
<1>2. QED
  BY <1>1, BootInvariance, PTL

(* The commands implement the callers that MeasuredFile assumes: they set  *)
(* its flags only between files, never open two, and do not close a file   *)
(* whose size they have not made known.                                    *)
THEOREM CommandsFollowProtocol == BootSpec => FollowsFileProtocol
<1>1. BootInit => Init
  BY DEF BootInit
<1>2. QED
  BY <1>1, BootInductive, BootInvariance, PTL DEF BootSpec, FollowsFileProtocol, Spec

(* No command goes through a file in a way that would have grub_close      *)
(* extend PCR 14 with a digest of something else than the whole file,      *)
(* unless a call failed: those that go back in it have read all of it, or  *)
(* count more than it has.                                                 *)
THEOREM CommandsExtendSoundly == BootSpec => []DigestsWhole
<1>1. BootInv => DigestsWhole
  BY DEF BootInv, IInv, ExtendSound, AstrayFailed, DigestsWhole
<1>2. QED
  BY <1>1, BootInvariance, PTL

(* Whatever sequence of commands a menu or a user runs, and whatever fails,*)
(* boot_func only starts a kernel when it and its modules were measured as *)
(* wholes and in order, and are what is in memory, but for the files whose *)
(* warning the user accepted, and for a Linux kernel whose failed staging  *)
(* read mem= has made load_image forget.                                   *)
THEOREM OnlyMeasuredBoots == BootSpec => []BootedMeasured
<1>1. ASSUME BootInv PROVE BootedMeasured
  <2>1. SUFFICES ASSUME pc = "booted", tpm, kernel_type # "chainloader"
                 PROVE  /\ MeasuredInOrder(Loaded, pcr14, accepted)
                        /\ \A i \in 1 .. Len(Loaded) :
                             \/ Loaded[i].want \in accepted \/ Loaded[i].got = Loaded[i].want
                             \/ i = 1 /\ kernel_type = "linux"
    BY DEF BootedMeasured
  <2>2. /\ MeasuredInOrder(Loaded, pcr14, accepted) /\ KernelIntact(kernel_type)
        /\ ModulesIntact /\ BootTypeOK
    BY <1>1, <2>1 DEF BootInv, Measured, KernelMeasured, StartedKernel, Running, Replacing, Adding
  <2>3. /\ Len(Loaded) = Len(mods) + 1 /\ Loaded[1] = image /\ mods \in Seq(ImageRecord)
        /\ \A i \in 1 .. Len(mods) : Loaded[i + 1] = mods[i]
    BY <2>2, LoadedType
  <2>4. ASSUME NEW i \in 1 .. Len(Loaded), i # 1 PROVE Loaded[i].got = Loaded[i].want
    <3>1. i - 1 \in 1 .. Len(mods) /\ (i - 1) + 1 = i
      BY <2>3, <2>4
    <3>2. Loaded[i] = mods[i - 1]
      BY <2>3, <3>1
    <3>3. QED
      BY <2>2, <3>1, <3>2 DEF ModulesIntact
  <2>5. QED
    BY <2>2, <2>3, <2>4 DEF KernelIntact
<1>2. QED
  BY <1>1, BootInvariance, PTL

(* Of the commands that ask grub_read for -1 bytes none has measure_kernel *)
(* set where memcheck would let the copy pass, but the loader of a kernel  *)
(* whose header says so.                                                   *)
THEOREM OnlyKernelsCopyWild == BootSpec => []NoWildCopy
<1>1. BootInv => NoWildCopy
  BY DEF BootInv, WildKernel, NoWildCopy
<1>2. QED
  BY <1>1, BootInvariance, PTL
=============================================================================
