# TrustedGRUB: a TLA+ verification project

TrustedGRUB is GRUB 0.97 with a trusted-boot extension. Everything Stage 2 reads
with its file layer can be hashed with SHA-1 on the way, and the digests are
extended into a TPM's platform configuration registers (PCRs) before control is
handed to what was loaded. The promise of the program is therefore one about
*sequences*: whatever commands a menu or a user gives, in whatever order and with
whatever failing, an operating system that is started was measured first. The
code keeps that promise with half a dozen global variables (`perform_sha1`,
`old_perform_sha1_value`, `measure_kernel`, `no_decompression`, `errnum`,
`sha1_byte_count`, `sha1_has_to_measure`) that every command sets, forgets and
restores in its own way, and with a file layer that compares two counters. That
is what this project models first. The second part is the user interface that
decides what is run: default, timeout, fallback, cursor, search, editor, the
history of configuration files, and variables. The third is what the files come
from and how the machine came to run Stage 2: the track buffer over the BIOS's
disks, partition tables, the TFTP file system and the addresses of the network,
and the commands that install the boot loader.

Stage 2 is single-threaded, and but for what it writes to a disk it has no memory
between boots. What is hard in it is the order of legal calls, errors of which
somebody looks at only half, stale global state, loops that end only if some
counter is right, and the boundaries of its fixed arrays and buffers; at its edges,
a network that loses, repeats and reorders, a BIOS that fails, disks that are
exchanged, and a crash between two writes of an installation.

## Inventory

| Component | Source | State | Operations | Where |
|---|---|---|---|---|
| measured file layer | `disk_io.c` | open file, position, running SHA-1, counts, staging memory, PCR 14 | `grub_open`, `grub_read`, `grub_seek`, `grub_close` | `MeasuredFile` |
| gunzip | `gunzip.c` | `gzip_filepos`, input buffer | `gunzip_test_header`, `get_byte`, `gunzip_read` | `MeasuredFile` |
| SHA-1 | `sha1.c` | contexts | `sha1_init`, `sha1_update`, `calculate_sha1` | `MeasuredFile`, `Checkfile` |
| checkfile, sha1 | `boot.c`, `builtins.c` | list buffer, mismatch count, PCR 13 | `checkfile_func`, `load_checkfile`, `sha1_func` | `Checkfile` |
| commands and loaders | `builtins.c`, `boot.c` | `kernel_type`, image, modules | `kernel`, `module`, `initrd`, `chainloader`, `configfile`, `savedefault`, `cat`, `find`, `blocklist`, `cmp`, `embed`, `testload`, `install`, `boot` | `TrustedBoot` |
| interpreters, `cmain` | `cmdline.c`, `stage2.c` | `errnum`, flags | `run_script`, `enter_cmdline`, loading the configuration | `TrustedBoot` |
| menu cursor and editor | `stage2.c` | `first_entry`, `entryno`, `num_entries`, heap | every key of `run_menu` | `MenuCursor` |
| configuration history | `stage2.c` | ring of names and positions | save, go back, reload | `ConfigHistory` |
| unattended boot | `stage2.c`, `builtins.c` | `fallback_entries`, `fallback_entryno`, `grub_timeout`, `show_menu` | `fallback`, validation, countdown, fallback loop | `BootMenu` |
| variables and toggles | `builtins.c` | `variable_list`, `variable_store`, `toggle_data` | `set`, `var_sprint`, `toggle`, the keys of toggles | `Variables` |
| track buffer | `disk_io.c`, `bios.c` | `buf_drive`, `buf_track`, `buf_geom`, the buffer | `rawread`, `rawwrite`, `devread`, `biosdisk`, `get_diskinfo` | `TrackCache` |
| partition tables | `disk_io.c`, `builtins.c` | `current_partition`, `saved_partition`, the tables | `next_partition`, `root`, `rootnoverify`, `hide`, `unhide`, `parttype`, `partnew`, `makeactive` | `Partitions` |
| installation | `builtins.c`, `start.S` | the sectors of a disk | `embed`, `install`, `setup` | `Install` |
| TFTP file system | `netboot/fsys_tftp.c` | window, block numbers, the packet to be sent | `tftp_dir`, `tftp_read`, `tftp_close` | `Tftp` |
| network configuration | `netboot/main.c`, `netboot/config.c` | `arptable`, `network_ready`, DHCP state | `bootp`, `rarp`, `ifconfig`, `tftpserver`, `udp_transmit`, `cleanup_net` | `NetConfig` |

How they interact: `cmain` opens the default file and the configuration through
the file layer, runs the menu; `run_menu` calls `run_script`, which calls the
builtins, which call the file layer and the loaders; `grub_close` and
`load_checkfile` call the TPM. All of it is calls on shared globals. The file
layer calls itself: `grub_open` tests for a gzip header by reading, stages a
kernel by reading, and `gunzip_read` reads the raw file while it pretends that it
is not compressed. Below it, a file system reads sectors with `devread`, which goes
through the track buffer, or (on the device `nd`) packets with `await_reply`;
`open_device` walks the partition tables with the same buffer. Each command invalidates
the buffer before it runs. `setup` runs `embed` and `install`, which write with
`devwrite`.

Correctness, component by component:

- file layer: what grub_close extends is the digest of the whole file; what is in
  the staging memory is what was hashed;
- commands: a kernel that is started was measured, with its modules, in order;
- checkfile: each file of the list is extended or counted as a mismatch, measuring
  and decompression are left as they were, and the command ends;
- menu: the cursor is on an entry; a search ends; the editor's count is right;
- history: the ring holds the newest files, and going back goes to the one before;
- unattended boot: only existing entries are run, fallback entries in order, and
  neither the countdown nor the fallback entries go on for ever;
- variables: the store is never overrun, assigning to one changes no other, a line
  expands to what it means;
- track buffer: a read gives what was last written to the disk that is in the drive,
  or fails;
- partitions: a number that was shown is found again, walks of chains that end do;
- installation: a crash leaves a disk that boots, and what reports success boots;
- TFTP: a read gives the bytes of the file or fails, on any network, and returns where
  waits for a packet end;
- network configuration: addresses are assigned and not just offered, cards belong
  to the addresses they are sent for, commands return where waits for a packet end.

`PROJECT.json` lists the hazards at the lines where they bite, with the property
that would catch each. Line numbers, here and there, count line feeds (`builtins.c` and
`bios.c` have form feeds as well, which some viewers take for ends of lines).

## The modules

**`MeasuredFile`** has the file layer as one state machine. A file is a record:
its raw size, whether it is named by a block list, whether it has a gzip header
(at which offset the data begin, how much of them the decompressor consumes, how
much plain data come out) or a broken one. The running hash is abstracted to the
number of bytes that went in and whether they were the first bytes of the file in
their order (`HashOf`), which is exactly what decides whether the digest is that
of the file; two files with the same digest are excluded. Every action is a whole
call: `grub_open` with its header test, staging read and the counts they
leave; `grub_read` with its prefix hashing, clamp and the three ways of reading;
`grub_close` with comparison, warning, answer of the user and extend. `get_byte`
refills its buffer in steps of `InBufSize`, so that a compressed file is hashed
to a multiple of it (`Refill`). Any read from the device may fail; `trouble`
records that one did. Errors are "none", "soft" and "hard", the latter being
those `print_error` stops the machine for. The callers are a protocol here:
flags change only while no file is open, and a file whose size only a read
publishes is read before it is closed. They read and seek as they like; `strayed` is
what is remembered of it: whether the caller has gone back before it had reached the end,
has passed over bytes, or has reached the end. A kernel's reads are served from staging
memory with whatever length is asked for: a negative one that memcheck lets pass
overwrites the program (`ReadWild`, `wild`).

**`TrustedBoot`** EXTENDS `MeasuredFile` with the callers themselves. `pc` is the
next step, `cmd` the procedure. Each command is `args`, `open`, `read`, `close`,
`return`, with the early returns of the code between them: `load_image` that
leaves `measure_kernel` set when the open fails and forgets errors at a `mem=` option,
`chainloader_func` that switches
measuring off and switches it on again only on one path, `cmain` that clears `errnum`
with the configuration open, `install` that opens up to three files and seeks in two,
`testload` that reads a file three times. `image` and `mods` record the file that was asked for
and the file that is in memory; `overwritten` that a command has since read something to where
kernels are.

**`Checkfile`** EXTENDS `MeasuredFile` with `checkfile`, `sha1` and
`calculate_sha1`, which ignores a failed `grub_open`, opens a compressed file
twice and reads in rounds of `TcgBuffer` bytes. Between the commands,
`OtherCommand` switches the flags the way the other builtins do.

**`MenuCursor`** has the window and the cursor of `run_menu`, the search one entry
at a time, and the editor as the nested call it is. **`ConfigHistory`** has the
ring; the history variable `trail` is the abstract list of files that the
ring stands for. **`BootMenu`** has `fallback_func`, the validation loop one
iteration at a time, the countdown, and the loop that runs fallback entries, in the menu and
in the editor (whose fallback runs no entry: `Nowhere`). A movement back brings the position
that was kept with the configuration, which may be beyond the entries it has now
(`saved_pos`, `resumed`).

**`Variables`** has the list of variables and the store their values live in. A
pointer into the store is the number of a cell; cells are only ever added. This
keeps what is hard: a toggle's entry and a variable may point at one cell, and `set`
overwrites it in place when the new text is not longer. Texts are sequences of
letters and references with widths, so that memory runs out as it does in the code.
A copy to NULL or an index of -1 ends in the state "wild". A pass of the expansion drops
a reference to an unknown variable and copies what comes behind it without looking at it
(`Unexamined`); where this, or a text of exactly the buffer's size, leads a pass out of its
buffer, the line may end in the state "spoilt".

**`TrackCache`** has `rawread` and `rawwrite` over one track buffer. A step is a
request of the caller or one round of `rawread`'s loop, in which the BIOS may deliver the whole track, fail
and then deliver the sectors needed, or fail altogether. A sector's contents are a
version, so that a stale cell is one with an old number. Requests come from
`devread` and `devwrite` of an open partition, and from `make_saved_active`, which
reads the first sector of a disk of which nothing was opened. **`BlockDevice`** is what the rest of
Stage 2 expects: the contents as last written, or an error.

**`Partitions`** runs `next_partition` one call at a time, for the listing of a
disk's partitions and for the commands that look one up and change it. A disk is a
function from the offsets of its tables to their entries; tables may be chained in
a circle. **`Install`** writes one sector per step; a sector is one of an image, the
old boot code or data, and `Boots` follows Stage 1 and the block lists as
`stage1.S` and `start.S` do. `Crash` may end any command between two writes, and
any write may fail.

**`Tftp`** has the client's loop: a step is a packet taken, a timeout, or a copy out
of the window. What may arrive is everything a server would have sent in answer to
what the client sent from its current port, in any order, any number of times, or
nothing. Servers differ: with and without options,
with the size or not, with an error, with options that were not asked for, with opcodes that
mean nothing and blocks that are too long, also for the window. Bytes are numbers, so
that a wrong byte shows. **`RemoteFile`** is what the file layer expects of a file
system. **`NetConfig`** has the two nested loops of `bootp`, the loop of `rarp`, the
resolution of an address with its retries, and the commands that set addresses by
hand.

`MC*.tla` give small values to the constants and bound counters. The modules
`*Proofs` hold the theorems: each those of the module it is named after,
`MenuProofs` those of `MenuCursor`, `ConfigHistory` and `BootMenu`, and `NetworkProofs`
those of `NetConfig` and `Tftp`. `TrustedBootProofs` and `CheckfileProofs` build on
`MeasuredFileProofs`. So that one module can extend several, the definitions of
`ConfigHistory`, `BootMenu` and `NetConfig` that every module has (`Init`, `Next`, `TypeOK`,
...) carry the module's name (`HistoryInit`, `BootNext`, `NetTypeOK`), and where two modules
would use one variable of the code for two different ones it is renamed: `selected` and
`current` are the `entryno` of `cmain`, `nr_entries` its `num_entries`, `checking` its loop's
`i`; in `NetConfig`, `step` is the next step and `bootp_retry` the `retry` of `bootp`. The map in
`PROJECT.json` has the lines.

The refinements that are checked. `Tftp` implements `RemoteFile!Spec`
(`ImplementsRemoteFile`): a call under way is a request, `size` is `filemax` once the
file is open, and the position and the bytes wanted are those with which a read
began; this is safety only, that calls return is a property of its own (`CallsReturn`).
`TrackCache` implements `BlockDevice!Spec` (`ImplementsBlockDevice`): the
device is `reliable` as long as no BIOS call of the command failed. `TrustedBoot` and
`Checkfile` each implement `MeasuredFile!Spec` (`FollowsFileProtocol`,
`HashesByFileProtocol`; the mapping is the identity on the file layer's
variables), so that what is proved of the file layer holds under the commands. It is not obvious that they do: it says that no
command changes a flag under an open file, and that what `calculate_sha1` does
without a file is something the file layer survives.

Definitions named as mutants (comment "Mutant:") are plausible wrong versions of
the definition that follows them; each property of a passing run is violated when
its mutant takes the definition's place.

## The passing runs

| Run | Module | Checks |
|---|---|---|
| `file_layer` | `MCMeasuredFile` | `ExtendSound`, `StagedIsMeasured`, `HashTracksFile` |
| `boot` | `MCTrustedBoot` | `BootedMeasured`, `NoWildCopy`, `DigestsWhole`, `FollowsFileProtocol` |
| `checkfile` | `MCCheckfile` | `Accounted`, `HashesByFileProtocol`, `FlagsRestored`, `CommandEnds` |
| `menu_cursor` | `MCMenuCursor` | `SelectionInRange`, `LinesCounted`, `SearchEnds` |
| `config_history` | `MCConfigHistory` | `RingIsTrail`, `BackGoesBack` |
| `boot_menu` | `MCBootMenu` | `EntryExists`, `FallbacksInOrder`, `TimeoutBoots`, `FallbacksEnd` |
| `variables` | `MCVariables` | `TypeOK`, `NoSharing`, `WildNeedsRefusal`, `ExpandsToMeaning`, `UnknownMeansNothing` |
| `track_cache` | `MCTrackCache` | `TypeOK`, `CacheIsTrack`, `ImplementsBlockDevice` |
| `partitions` | `MCPartitions` | `ListedIsFound`, `WalksEnd` |
| `install` | `MCInstall` | `CrashSafe`, `InstalledBoots`, `WritesOwnSectors` |
| `tftp` | `MCTftp` | `BufferIsWindow`, `BlocksAreCounted`, `ImplementsRemoteFile`, `CallsReturn` |
| `net_config` | `MCNetConfig` | `ArpTableTrue`, `NeverOnOfferAlone`, `CommandsReturn` |

Every module states its type invariant. Two runs check it: there it bounds what the
C code indexes (the track buffer, the store of variables). It is proved
for every module with theorems (below; of `NetConfig`, the part that its proofs need), as are
`CheckfileUnmeasured` and `TextsFit`.

What they show. `ExtendSound`: comparing two counts is enough. Where they agree and
the digest is not that of the file, a read failed (which the code does not notice: it hashes and
counts the bytes it did not get), or the caller left out a part of the file: it passed over it with
`grub_seek`, or went back and did not go on to the end (two reads of the first byte of a file of
two are a count of two). The file layer does not prevent that; `DigestsWhole` says that no
command does it: `install` and `testload` go back in what they have read, but after all
of it, or to read all of the rest, and so count more than the file has.
`BootedMeasured`: although measuring is left
off by `chainloader`, `configfile` and `savedefault` on several paths, a kernel that
`boot` starts was measured, because `kernel`, `module` and `initrd` each set
`perform_sha1` again before they open their file; if the user answers the
warning of grub_close with a key, the file is in `accepted` and the property says
nothing of it. The exception is a Linux kernel that could not be read and has a `mem=`
option (see below). `NoWildCopy`: the `measure_kernel` that a failed `kernel` leaves set
never meets the unclamped `memcpy` of a module's read, because `initrd` and
`module` want a kernel that was loaded; of the other commands that ask for -1 bytes in this
mode, `blocklist`, the first file of `cmp`, `embed`, `testload` and `install` read to 1 MB, where memcheck
(`char_io.c:1192`) refuses a negative length, and the second file of `cmp` is opened after a
`grub_close`. `Accounted`: failed opens and reads of
`calculate_sha1` do not make an entry disappear. `SearchEnds`, `TimeoutBoots`,
`FallbacksEnd`, `CommandEnds` are the loops that end.

`ImplementsRemoteFile`: the counting of blocks, which compares a 16-bit number with
a sum in `int`, makes a transfer of more than 65535 blocks fail and never come round;
a lost request, an acknowledgement sent in its place, a late block of an abandoned
transfer and a server that does not know the options end in the right bytes
or in an error. `CallsReturn`: where waits end, so does the call, unless the server's
blocks do not fit into the window or it goes on sending opcodes that mean nothing. `NeverOnOfferAlone` and `ArpTableTrue`: the late offers of another
server and late ARP replies do not get past `await_reply`'s tests.
`ImplementsBlockDevice` and `CacheIsTrack`: the early rounds of a long read leave
a buffer that is not the track `buf_track` names, but each is followed by a round in
the next track, or by a failure. A failing `get_diskinfo` may leave a geometry with no sectors, by
which the next read of the same command divides (`DivideError`, after which the model stands still). `CrashSafe`: Stage 1 is written
last, so that the switch is one sector; the exception is an embedded image
that is in use, which `embed` overwrites without its block list (`reused`).
`ListedIsFound`: the numbers given to logical partitions, odd as they are in the first
extended table, are the same in every walk. `NoSharing`: process_var keeps an entry whose
text is unchanged together with the variable it was for, even when the line names
another one now. That looks like a mistake and misdirects the toggle, but giving the text
to the variable named, the obvious correction, would make two variables share memory
that `set` overwrites; it is the mutant of the property.

### Bounds

- `file_layer`: seven files: empty, plain of two bytes, a gzip file whose trailer
  lies in the last refill and one whose trailer lies beyond it, a broken gzip
  header, a plain and a compressed block list; a buffer of 3; reads of one byte or all, seeks to
  0 and 1; one file closed with
  measuring on, and 7 bytes counted (`MaxCount`, more than the largest file). All
  the variables of the open file are set by `grub_open`, so the second file meets
  nothing of the first but flags, errors, staging memory and what a failed open
  leaves, all of which are kept.
- `boot`: a plain and a compressed kernel or module, a block list, the default and
  the configuration file, sectors of one byte; two files closed with measuring on (`MaxCloses`),
  and one more for each module, so that there is room for a
  kernel and two modules (`MaxModules`; one where there is no TPM) with a command
  between them; the commands that read whole files or sectors are given one plain file,
  `testload` a compressed one too.
- `checkfile`: an empty, a plain and a compressed file of sizes below, at and above
  `TcgBuffer` = 2; five lists (all as they were, one changed, without last newline,
  name too long, too large); two extends of PCR 13.
- `menu_cursor`: a window of 3 lines with one line above a jump, menus of 1, 4
  and 7 entries (shorter than the window, just longer, longer than two of
  them), editors of up to 4 lines. A search that runs away is cut off at `MaxAway`,
  where the run has no successor; this is why deadlock is not checked there.
- `config_history`: a ring of 4 slots and three files, one without entries. `trail`
  is bounded by the ring.
- `boot_menu`: an array of 4 fallback entries, menus of up to 3 entries, positions up to one
  beyond them, lists that are short, full, repeat a number and name entries that do not
  exist.

- `variables`: three places in the list, one of them taken by `TT_VMWARE`, a store
  of 14 bytes, blocks of two variables and toggles of three blocks (as in the code, fewer
  variables than blocks), two passes over references up to three deep; lines with
  an empty name, a bad one, a missing value, too many variables and too many blocks.
- `track_cache`: a disk of two tracks of two sectors with LBA whose second track C/H/S does not
  reach and that EZ-Drive maps, a floppy with tracks of one sector that can be exchanged, a drive
  that does not exist, a partition longer than its disk, reads of up to 4 bytes in sectors of 2, one
  write or exchange.
- `partitions`: tables of two entries, an MBR and up to two extended tables whose chain
  ends, breaks off or comes back; slice numbers up to 6; two commands.
- `install`: a gap that is one sector too short for Stage 1.5 or just long enough, a file
  system with and without a reserve, Stage 2 in one, two and too many pieces (two
  runs in a block list), three commands.
- `tftp`: files of 0, 3, 5 and 6 bytes in packets of 2, 3 or 5, a window of 4 (one server's blocks
  do not fit), block numbers of
  2 bits (so that the last block of the longest file has no number), one retry, five
  calls; packets are repeated without bound.
- `net_config`: two DHCP servers, a BOOTP and a RARP server, two networks, two retries of each
  kind, four commands.

Every bound on calls, commands or writes is a constant named in the module, and
its guard is on the beginning of a call only: one that has begun runs to its end. Where
such a bound stops a behaviour, deadlock is not checked.

A VIEW (`MCView`) in two of the runs leaves out variables that are dead: positions
and the hash while no file is open, arguments while no command runs. It is a
function of everything that later steps and the checked properties read.

### Fairness

Only steps that are the continuation of straight-line code or of a loop are weakly
fair: the next comparison of a search, the next step of a running
checkfile or sha1 command, of cmain, and of a script, and the next second of the
clock that `run_menu` polls (`Tick`). No fairness is assumed of the user, of
errors, or of which branch a script takes. A script that is run is assumed to
return or to boot, which the file layer's calls do. In `Tftp` and `NetConfig` the
client's next step is fair in the runs, under the names `WaitsEnd` and `NetWaitsEnd`: that is an assumption
about the network. `await_reply` looks at its timeout and at Ctrl-C only when no packet is in the
receive queue (`main.c:937`), and `buf_fill` counts no retry for a packet that brings nothing new
(`fsys_tftp.c:235`), so that a network which always has such a packet ready holds a call
up for ever. Safety is shown without it. In
`Partitions` the next call of `next_partition` is fair: a walk does not stop by itself.

## Where code and words disagree

Some sentences of the documents and comments are not kept by the code. The modules
state them as properties, in a section of their own; TLC finds each violated when it is added
to the configuration of the module's run. The conditions in `BootedMeasured`,
`FallbacksInOrder` and `EntryExists` except just the cases of `LoadedFilesInPCR14`,
`FallbackRunsEntries` and `PositionIsOfThisMenu`.

| Property | Module | Sentence | What happens |
|---|---|---|---|
| `LoadedFilesInPCR14` | `TrustedBoot` | `ORIGINAL_TRUSTEDGRUB_README:97` | the result of the staging read is ignored (`disk_io.c:1752`), and a `mem=` option clears its error (`boot.c:665`): a kernel is started of which PCR 14 has no digest |
| `ValidationEnds` | `BootMenu` | `stage2.c:1438` | a full array with an invalid last entry hangs `cmain` (`stage2.c:1447`) |
| `FallbackRunsEntries` | `BootMenu` | `builtins.c:1229` | after a failure in the editor the fallback entry is looked for at NULL (`stage2.c:1020`, `1117`) |
| `KernelModeOnlyForKernels` | `TrustedBoot` | `disk_io.c:1830` | a failed `kernel` leaves `measure_kernel` set (`boot.c:335`); the next file is read from staging memory |
| `AllCheckedExtended` | `Checkfile` | `ORIGINAL_TRUSTEDGRUB_README:231` | a file that does not match is not extended into PCR 13 (`boot.c:262`) |
| `Sha1OnlyPrints` | `Checkfile` | `ORIGINAL_TRUSTEDGRUB_README:239` | `sha1` extends PCR 14 (`sha1.c:448`) |
| `SearchOnceAround` | `MenuCursor` | `stage2.c:282` | a search in the editor from outside its lines does not end |
| `PositionIsOfThisMenu` | `ConfigHistory` | `stage2.c:348` | a stale position begins a menu beyond its entries (so that `EntryExists` leaves out what was `resumed`) |
| `RootIsAsked` | `Partitions` | `docs/grub.texi:3144` | `rootnoverify` of a partition that is not there reports nothing and saves where the walk stopped (`builtins.c:3303`) |

The models contain further disagreements, which explain conditions in the
properties above: a kernel named by a block list is never staged, although
grub_read takes it from memory (`disk_io.c:1831`, so `StagedIsMeasured` excludes
block lists); a chainloaded boot sector is not measured (`builtins.c:426`, so
`BootedMeasured` is about kernels, while `ORIGINAL_TRUSTEDGRUB_README:97` speaks of all
files loaded); page down and jumps move the window of a dumb terminal
(`stage2.c:776`, the comment at 354 says `first_entry == 0`, so
`SelectionInRange` is about other terminals); after the editor was emptied, 'd'
counts a line out and leaves it (`stage2.c:892`) and a fallback entry run from the
editor becomes its cursor (`stage2.c:1128`), so `LinesCounted` and
`SelectionInRange` hold until then (`astray`); a repeated number makes the whole
`fallback` command fail instead of being removed (`builtins.c:1205`, operator
`Rejected`); what `buf_fill` sends again as the "initial request" may be an
acknowledgement (`fsys_tftp.c:75`); a DHCP refusal that the outer loop of `bootp`
receives counts as success (`main.c:614`); `buf_geom` is not "valid" after a failing
`get_diskinfo` (`disk_io.c:812`); once the store of variables is full, or a
line with an empty name was given, `set` may copy to NULL and a toggle may use an
index of -1 (`builtins.c:5612`, `5847`, so `WildNeedsRefusal` is about what came
before); a toggle that is defined anew keeps variables of blocks beyond
MAX_VAR_PER_BLOCK (`builtins.c:6043`); `set` of a variable changes the text
of the toggle that last gave it its value (`builtins.c:5612`), so that loading a
configuration again does allocate again, which the comment at 5920 wants to avoid;
and PCR 12 gets the line before the expansion (`cmdline.c:285`), so that it does not
tell which arguments a command was run with; an unknown reference is dropped and
what comes behind it copied unexamined (`builtins.c:5443`), so `ExpandsToMeaning` is about lines
that meet none and `UnknownMeansNothing` about the others; and the error paths of `sha1` can leave
`no_decompression` set (`sha1.c:401`).

## What is proved

`MeasuredFileProofs` (for all sets of files, buffer sizes, trailers and read
lengths that `FilesAssumption` and `SizesAssumption` allow) proves
`TypeCorrect`, `ExtendIsSound`, `StagedMeasured` and `HashTracks`: the four
invariants of the run `file_layer`. None is inductive alone. The invariant of the
proof is the conjunction of `TypeOK`, `FileKnown` (the size seen by the caller and
the size to be measured are those of the open file), `HashTracksFile`,
`StagedIsMeasured` and `ExtendSound`. `HashTracksFile` is the heart. For a caller that went through the
file in order, or to its end, it says that the hash is
clean and as long as the count, with the count either at the position reading got
to or at the end of the file, or that the count is greater than the file; for one that has gone
back, how far position and count are apart, so that by the time it has reached the end again the
count is too great (a decompressor that starts again hashes at least a buffer a second time,
`Again`). `grub_close` extends when the count equals the size
to be measured, so a clean prefix of that length is the whole file; for a
compressed file one needs in addition that a refill that consumed the last data
byte ended at the end of the file, and that is why `FilesAssumption` says that
what is left after the data is less than a buffer. The assumption is on the file
format, and the case that it excludes ends in the warning of grub_close.

`MenuProofs`, of the cursor (for every window height, number of entries and number of
lines, with `Above < Page`): `CursorInRange` and `LinesAreCounted`. The
inductive invariant adds to them the cursor of the menu that called the editor
(`OuterSound`), which must be in range for the return from it, the index of a
search under way (`SearchSound`), from which `set_bar_to` will set the cursor, and
that only an editor is `astray`.

Of the history of configuration files, for a ring of any size: `RingHoldsTrail`
(`RingIsTrail`) and `LeftKeyGoesBack` (`BackGoesBack`). The strengthening is `OneFree`: the
ring never holds more than N - 1 files, and `pos` is the slot after `prev_pos` or, during a
movement back, the one before it; with a full ring the file saved next would be taken for
the oldest.

Of the unattended boot, for fallback arrays of any size: `OnlyEntriesThatExist`
(`EntryExists`) and `FallbacksRunInOrder` (`FallbacksInOrder`). `EntryExists` has the code's
exception in it, a position taken from the history (`resumed`). For the first, the loop of
`cmain` has validated the slots below `checking` (`ValidBelow`), and once it has ended every
entry up to the first -1 exists (`ListValid`); it must be known of all of them, because
the fallback loop goes on from one to the next. For the second one has to say what the array
is while the loop shifts it over the entries that do not exist: those of the first p
numbers that do, then the numbers not looked at, then -1 (`LoopAt`, in `Validating`) or, in a
full array, copies of the last number (`FullAt`); when
p has reached the last number, this is the list of the valid ones, filled up with the last
number if nothing ends it (`Filled`, `Listed`); and the
entries run since the menu was left, outside the editor, are a stretch of it, up to the one
`fallback_entryno` names (`InTurn`). The list of the valid entries is a `SelectSeq`, of which `ChosenFacts`
says what one more element does.

`TrustedBootProofs` proves that each step of the commands is a step of the file layer's
protocol or leaves the file layer alone (`CommandsFollowProtocol`, the refinement the run
`boot` checks), so that what is proved of the file layer holds under the commands; then
that no command leaves a part of a file out and has it extended
(`CommandsExtendSoundly`, of `DigestsWhole`), `OnlyMeasuredBoots` (`BootedMeasured`) and
`OnlyKernelsCopyWild` (`NoWildCopy`), for any files, any number of closes and any number
of modules. The invariant, `BootInv`, is that of the file layer, the types, `Protocol`,
`StayOnWay`, `AstrayFailed`, `WildKernel` and `Measured`. `Protocol` says where each of the global flags may be set: `measure_kernel`
outlives its command only while no kernel is loaded, which is why no module is read
under it, nor the second file of `cmp`; a loader has measuring on from its arguments to its close, whatever the command
before it left. `Measured` says that everything loaded was measured but for what is just
being loaded, and that this will be measured when it is closed: between the read of
a module and its close, `BootedMeasured` would not hold of what is in memory. Of a kernel with
a `mem=` option it says that a failed staging read leaves no file in staging memory
(`StagingLost`). `StayOnWay` is why `DigestsWhole` holds: at each step of `install` and
`testload`, how they have gone through the file, and by that (`HashTracksFile`) how far the
count is from the size. That a
block-list kernel is measured or refused needs `BlocklistAssumption` (`grub_open` refuses
an empty one, `disk_io.c`).

`CheckfileProofs` proves `CommandsFollowProtocol` (`HashesByFileProtocol`), `FlagsAreRestored`,
`CheckfileMeasuresNothing` and `EveryEntryAccounted`. `CheckInv` adds to the file layer's
invariant which flag holds the saved value of which at each step (`PerformSaved`,
`DecompressionSaved`: two variables, and the second is saved only when a file turns out to be
compressed), that a round of `calculate_sha1` which does not fail follows no failed one, and
that the entries passed so far are those extended, in their order, and those counted
(`Recorded`, with the entry under way left out). `ListsAssumption` has all lengths
up to two buffers among the lengths that may be read: those of `calculate_sha1`'s rounds.

`NetworkProofs`, of the configuration, for any servers, addresses and retries: `ArpTableIsTrue`
(`ArpTableTrue`) and `ReadyNotOnOffer` (`NeverOnOfferAlone`). The strengthening: no card
address is known before the card was found (`Unprobed`), and while `bootp` or `rarp` looks for an
address, the machine is not ready (`LookingUnready`), so that an offer that comes in
overwrites no address in use.

Of TFTP, for any servers, lengths of files, block sizes from the default up and numbers of
retries: `WindowHolds` (`BufferIsWindow`), `CountHolds` (`BlocksAreCounted`) and
`CallsAreRemoteFile` (`ImplementsRemoteFile`): every step is one of
`RemoteFile` or is not seen. The invariant ties the count of blocks to the file:
`Received` is what the blocks accepted have brought, `saved_filepos + buf_read` is as much
(`Window`; while the size is counted, `filemax + buf_read`), the block size is the server's
as soon as a block was accepted (`Sizes`; before, an option acknowledgement may still
change it, which would move all the blocks counted), and `buf_eof` means that the block
that was not full has come. `NewBlock` is why a
packet with the number expected is that block and not one of `BlockMod` blocks earlier: the
comparison in `int` stops the transfer before numbers repeat.
`Reading` says that a read has copied a stretch of the file. `SizesAssumption` says that the window
is even and that a packet of the default size fits into it; blocks that do not fit are never
put there.

`TrackCacheProofs`, for any drives and geometries whose tracks fit into the buffer, any
size of sectors and reads of any length: `DiskTypeCorrect` (`TypeOK`; no transfer reaches
beyond the buffer), `BufferedTrackIsTrue` (`CacheIsTrack`), and `DiskIsBlockDevice`, that
every step is one of `BlockDevice` or is not seen (`ImplementsBlockDevice`). `CacheIsTrack` is not inductive, since it is false
in the middle of a long read: there the buffer holds the *end* of the track that `buf_track`
names, at its beginning. `BufferKnown` says what is true instead: either the buffer holds the
track, or the read under way has gone on to the sector behind it, and so the next round
misses. `ReadSoFar` says that the bytes copied are those of the disk and that the sector and
offset of the loop are where the rest begins; the arithmetic (a place in the buffer or
on the disk, divided by the sector size) is in the lemmas `DivShift`, `RoundUp` and
`InOneTrack`, a round's cases (whole track, its end, only the sectors needed, with sector 0
mapped) in `FetchGives` and `MapGives`. `OtherTrack` is why a write needs to drop one track only,
also when it is of sector 0 and EZ-Drive sends it to sector 1. The assumptions on constants:
a track has between one and `BUFFERLEN` sectors (the BIOS counts them in six bits, and the
buffer holds 63), drives are numbers (-1 is no drive), and only sector 0 looks like
EZ-Drive's, on disks of more than one sector per track (`EzdAssumption`). The last is needed:
`rawread` maps whatever comes to the beginning of the buffer when `buf_track` is 0, so that
a long read that begins in the middle of the first track, at a sector that looks like
EZ-Drive's by chance, would be given the sector after it.

`InstallProofs`, for disks, partitions, images and block lists of every size:
`BlockListIsImage`, `CrashIsSafe` (`CrashSafe`), `InstalledDiskBoots` (`InstalledBoots`) and
`WritesAreOwn` (`WritesOwnSectors`). The first is about the algorithm: adding sectors one by
one to the last run or a new one gives a list of runs that loads them in their order. `IInv`
says of the disk that Stage 2 is whole at any time (`ImageWhole`), that a boot sector is the
old one or loads Stage 2 or an image that was embedded (`BootSectorsKept`), that it does not
load an embedded one before `install` has written all it depends on, unless one was in use
(`NotYetSwitched`), and of the command under way that what it has written so far is there
(`UnderWay`, by the position in `Order`). When Stage 1 is written last, everything it will load is in
place. `LayoutAssumption` says that the files of a partition lie behind what its file system
leaves free, and that no sector is in a file twice.

`VariablesProofs`, for stores, lists, toggles and lines of every size: `TypeCorrect`
(`TypeOK`), `TextsAlwaysFit` (`TextsFit`), `TextsAreApart` (`NoSharing`), `OnlyRefusalsAreWild`
(`WildNeedsRefusal`), `LinesAreExpanded` (`ExpandsToMeaning`) and
`DroppedReferencesMeanNothing` (`UnknownMeansNothing`). `NoSharing` is not inductive:
toggles give their texts to variables and take over variables' texts. The invariant is
`Ownership`: no two entries of toggles have the same text (`EntriesApart`), and a variable
that has the text of an entry is the one the entry was for, unless the entry has lost its
variable (`EntriesOwn`). `WildNeedsRefusal` needs `Whole`: without a refusal, every variable
has a text and no entry has lost its variable. `ExpandsToMeaning` is about a pure
algorithm, passes over a line until nothing is left to expand, compared with a meaning that
follows each reference to its end. `SprintIsMeaning` shows that the line before each pass,
with its letters taken for what they mean as many references deep as there are passes left,
always spells the same text (`SpelledTwice`: expanding an expanded text is expanding by
expanded values), and that after the last pass this text is the line itself. Its hypothesis,
that the passes fit the buffer, meet no unknown reference (`Clear`) and no reference is deeper
than they reach, is that of the property; the run has lines that fulfil it and lines that do
not. Lines with unknown references, whose next character a pass copies unexamined, are
`UnknownMeansNothing`: an unknown reference means nothing, so that dropping it is right, and
what was copied unexamined means what it says or is still there as a reference at the end,
so that passes which leave none have come to the meaning.

Each proof has one lemma per action and lemmas for the operators that several actions use
(what `grub_open`, `grub_read` and `grub_close` do to the flags, a transfer of the BIOS, a
concatenation); the temporal theorems combine them with PTL. The inductive invariants
were checked with TLC on the runs' instances before they were proved.

What recursive functions compute. The definitions here use recursive functions and the
folds of the community modules. That such a function exists, and has the values its
definition says, is proved where it is needed from the least number that would be a
counterexample (`LeastNumber`, `GoesUp`, `Recursion`; for the concatenation of a
sequence of sequences, `FlattenAppend` and `FlattenConcats`), without the library's
induction theorems, which take an operator as a parameter.

Model-checked only: liveness (`SearchEnds`, `TimeoutBoots`, `FallbacksEnd`,
`CommandEnds`, `WalksEnd`, `CallsReturn`, `CommandsReturn`), which is out of the prover's reach, and `ListedIsFound` of
`Partitions`, which has no proofs: it compares two walks, and its invariant would have to
say of every table of the first walk which number the second one gives it. All other
safety properties, action properties and refinements that the runs check are theorems.

## Limits

- Digests are injective; the contents of files are told apart by the file.
- `Checkfile` and `TrustedBoot` are not composed: the flag `no_decompression` that
  an error of `sha1` leaves set is a state of the file layer's protocol but not of
  `boot`. In `TrustedBoot` checkfile is a command that opens a file with measuring off.
- The terminal is fixed while a menu runs (a `terminal` command on the menu's
  line would change it), the position of a movement back is in
  `ConfigHistory` and `BootMenu` but not in `MenuCursor`, and passwords are not asked for.
- `setup` opens its files by running `embed` and `install` and is not a command of its own in
  `TrustedBoot`; `dump` is of the grub shell only. What `install` writes is in `Install`.
- `Tftp` has the transfers of the file system. Those that `main.c` makes itself (the
  extensions file named by a BOOTP reply, which may change the gateway after its card was
  resolved) use ports counted from 2000 of their own and are left out, in `NetConfig` too.
- The preset menu and the parser of the configuration's text are left out;
  a configuration is its number of entries and its settings.
- The modules of the third part are not composed with the file layer: `MeasuredFile`
  assumes of a read what `RemoteFile` and `BlockDevice` promise, and the file systems
  between them are left out.
- `Variables` is not composed with the interpreters: any line may come at any time.
- Memory is not modelled beyond which file is staged where and whether a command has since
  read something to where kernels are (`overwritten`): the limit of `mll[99]`
  and the layout of images are out of scope.

Not modelled, and why: the on-disk formats of the file systems (functions of bytes to
which a model would add nothing but the bytes); the network cards' drivers
(third-party code for devices that the repository does not describe; they are half of the
repository's lines); terminals and the line editor (device output and one
line of text); MD5 and passwords (the cryptography is a pure function; `auth` is not
a variable of the menus here); Stage 1, Stage 1.5 and assembly beyond what they
load; inflating; the layout of kernel images in memory; PCR 12; CD-ROMs and the
`map` command; the grub shell, which emulates all this under an operating system, and
its tools. `PROJECT.json` has the components with their status.

## Plan

Done, in this order: file layer and its proofs; commands over it; checkfile;
menu cursor and its proofs; history; unattended boot; TFTP and what a file system
promises; network configuration; track buffer and what a disk promises;
installation; partitions; variables; the proofs of commands, checkfile, history, unattended
boot, network configuration, track buffer, TFTP, installation and variables. What could follow:

1. A proof of `ListedIsFound`.
2. Passwords: `auth`, `lock`, and the unlocking of a menu over a change of
   configuration, in `ConfigHistory`.
3. The parser of the configuration (`get_line_from_config` and the title states of
   `cmain`), refined by the abstract list of entries of `BootMenu`.
4. The composition of `TrustedBoot` with `Checkfile`.
5. The extensions file of `bootp`, over the transfers of `Tftp`.
