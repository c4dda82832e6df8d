----------------------------- MODULE MCVariables -----------------------------
(* Variables with two names besides TT_VMWARE, the empty name and one with *)
(* a bracket; definitions of a toggle that repeat a text under another     *)
(* name, get shorter, are malformed or have one too many of something; a   *)
(* second key, for which there is room only if it comes first; a store in  *)
(* which a few values have room.                                           *)
EXTENDS Variables, TLC

MCLetters == {"0", "1", "x", "$A", "$B"}
MCRefers == [l \in MCLetters |-> CASE l = "$A" -> "A" [] l = "$B" -> "B" [] OTHER -> ""]
MCWidth == [w \in MCLetters \cup {"A", "B", "", "(", TT_VMWARE} |->
              CASE w \in {"$A", "$B"} -> 2 [] w = "" -> 0 [] OTHER -> 1]

Assign(n, t) == [name |-> n, text |-> t]
SetLine(n, t, p, e) == [name |-> n, text |-> t, parse |-> p, emptysetonly |-> e]

MCSetLines ==
  {SetLine("A", <<"x">>, FALSE, FALSE), SetLine("B", <<"$A">>, FALSE, FALSE),
   SetLine("A", <<>>, FALSE, TRUE), SetLine("B", <<"$B", "$A">>, TRUE, FALSE),
   SetLine("", <<"1">>, FALSE, FALSE), SetLine("(", <<"x">>, FALSE, FALSE)}

A(t) == Assign("A", t)
B(t) == Assign("B", t)
MCToggleLines ==
  {[key |-> "t", blocks |-> b] : b \in {
     << <<A(<<"x">>)>> >>,
     << <<B(<<"x">>)>> >>,
     << <<A(<<"x">>)>>, <<>>, <<A(<<"1">>), B(<<"x">>)>> >>,
     << <<>>, <<>>, <<A(<<"1">>)>> >>,
     << <<A(NoText)>> >>,
     << <<Assign("", <<"1">>)>> >>}}
  \cup
  {[key |-> "u", blocks |-> b] : b \in {
     <<>>,
     << <<>>, <<>>, <<>>, <<A(<<"x">>)>> >>,
     << <<A(<<"x">>), B(<<"x">>), A(<<"x">>)>> >>}}
=============================================================================
