--------------------------- MODULE MCConfigHistory ---------------------------
(* ConfigHistory with three files, one of them without entries, and a ring  *)
(* of four slots, which wraps around.                                       *)
EXTENDS ConfigHistory, TLC

MCConfigs == {"menu.lst", "long.lst", "empty.lst"}
MCSize == "menu.lst" :> 1 @@ "long.lst" :> 2 @@ "empty.lst" :> 0
=============================================================================
