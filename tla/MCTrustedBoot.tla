---------------------------- MODULE MCTrustedBoot ----------------------------
(* TrustedBoot on a handful of files.                                       *)
EXTENDS TrustedBoot, FiniteSets

CONSTANTS MaxCloses, MaxModules, MaxCount  \* the bounds of MCNext

Named(n, r) == [name |-> n, raw |-> r, kind |-> "plain", block |-> FALSE,
                off |-> 0, used |-> 0, plain |-> 0]
Blocks == [Named("blocks", 1) EXCEPT !.block = TRUE]
(* Its trailer is beyond the last buffer that the decompressor reads. *)
Zipped == [Named("vmlinuz.gz", 4) EXCEPT !.kind = "gzip", !.off = 1,
                                         !.used = 3, !.plain = 1]

Whole  == Named("vmlinuz", 2)

MCDefault == Named("default", 1)
MCConfig  == Named("menu.lst", 1)
MCImages  == {Whole, Zipped, Blocks}
MCFiles   == MCImages \cup {MCDefault, MCConfig}

(* No new command once MaxCloses files were closed with measuring on (for   *)
(* a second module, one more), or MaxModules modules loaded, one of each    *)
(* where there is no TPM; no more than MaxCount bytes counted by reads of   *)
(* the configuration that fail and are repeated, or of testload.  What      *)
(* reads a file in its own way is given a plain one, and testload a         *)
(* compressed one too.                                                      *)
WithModules == kernel_type \notin {"none", "chainloader"}
MCNext == /\ BootNext
          /\ sha1_byte_count' <= MaxCount
          /\ cmd' \in WholeReaders \cup InstallFiles =>
               target' = Whole \/ (cmd' = "testload" /\ target' = Zipped)
          /\ pc = "prompt" /\ pc' \in {"args", "open", "cmain"} =>
               /\ Len(pcr14) + Cardinality(accepted) <
                    (CASE ~tpm                        -> 1
                       [] WithModules /\ pc' = "args" -> MaxCloses + Len(mods)
                       [] OTHER                       -> MaxCloses)
               /\ WithModules => Len(mods) < (IF tpm THEN MaxModules ELSE 1)

(* What a state is told apart by: the positions and the running hash are    *)
(* dead while no file is open (grub_open sets them all), the hash and the   *)
(* way through the file while none is hashed or a read has failed, the      *)
(* arguments of a command while none runs, the image while no kernel is     *)
(* loaded, of a digest why it is not that of the whole file.                *)
Loading == pc \in {"close", "return"} /\ cmd \in {"kernel", "chainloader"}
MCView ==
  <<pc, flags, flagVars, errnum, old_perform_sha1_value, staged, kernel_type,
    opened, tpm, accepted, halted, wild,
    [i \in 1 .. Len(pcr14) |->
       <<pcr14[i].file, pcr14[i].whole, ~pcr14[i].whole /\ pcr14[i].failed>>],
    IF opened THEN <<file, block_file, compressed_file, filepos, filemax,
                     sha1_byte_count, sha1_has_to_measure, trouble>>
              ELSE <<pc = "return" /\ filemax = 0>>,
    IF opened /\ perform_sha1 /\ ~trouble THEN <<rawpos, my_sha1, strayed>>
                                          ELSE <<>>,
    IF pc \in {"cmain", "menu", "init", "prompt", "booted"} THEN <<>>
                                                           ELSE <<cmd, target>>,
    IF Loading THEN loading ELSE "none",
    IF kernel_type # "none" \/ (Loading /\ loading # "none") THEN image ELSE NoImage,
    IF WithModules THEN <<mods, overwritten>> ELSE <<>>>>

MCSpec == BootInit /\ [][MCNext]_vars
=============================================================================
