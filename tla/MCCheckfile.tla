---------------------------- MODULE MCCheckfile ----------------------------
(* Checkfile on two files to check and lists that name them.               *)
EXTENDS Checkfile, FiniteSets, TLC

CONSTANTS MaxChecked, MaxCloses  \* the bounds of MCNext

Named(n, r) == [name |-> n, raw |-> r, kind |-> "plain", block |-> FALSE,
                off |-> 0, used |-> 0, plain |-> 0]
Empty  == Named("empty", 0)
Initrd == Named("initrd", 2)
Zipped == [Named("vmlinuz.gz", 3) EXCEPT !.kind = "gzip", !.off = 1,
                                         !.used = 2, !.plain = 1]

Checks(f, r) == [form |-> "good", name |-> f, ref |-> r]
Open(f) == [Checks(f, f) EXCEPT !.form = "unterminated"]
Bad(f, form) == [Checks(f, f) EXCEPT !.form = form]

(* A list whose files are as they were, one with a file that was changed   *)
(* and one with an empty file, one without its last newline, one that is   *)
(* malformed, and one that is too large.                                   *)
MCLists ==
  Named("same", 1)  :> <<Checks(Zipped, Zipped), Checks(Initrd, Initrd)>> @@
  Named("other", 1) :> <<Checks(Initrd, Zipped), Checks(Zipped, Zipped)>> @@
  Named("short", 2) :> <<Open(Initrd)>> @@
  Named("long", 1)  :> <<Checks(Empty, Empty), Bad(Initrd, "long")>> @@
  Named("large", 5) :> <<>>
MCImages == {Empty, Initrd, Zipped}
MCFiles == MCImages \cup DOMAIN MCLists

(* No new command once MaxChecked files were extended into PCR 13, or       *)
(* MaxCloses files closed with measuring on.                                *)
MCNext ==
  /\ CheckNext
  /\ pc = "idle" /\ pc' # "idle" =>
       /\ Len(pcr13) < MaxChecked
       /\ Len(pcr14) + Cardinality(accepted) < MaxCloses

MCSpec == CheckInit /\ [][MCNext]_vars /\ CommandGoesOn
=============================================================================
