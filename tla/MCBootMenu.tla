----------------------------- MODULE MCBootMenu -----------------------------
(* BootMenu with lists of fallback entries short, full, repeating and out   *)
(* of range.                                                                *)
EXTENDS BootMenu

MCArguments == {<<1>>, <<2, 0>>, <<3, 1, 0>>, <<1, 1, 0>>,
                <<3, 0, 2, 1>>, <<0, 1, 2, 0>>}
=============================================================================
