---------------------------- MODULE MCMenuCursor ----------------------------
(* MenuCursor with menus shorter and longer than the window and two of it. *)
EXTENDS MenuCursor

CONSTANTS MaxAway  \* bound: how far from 0 a search may get

MCNext == Next /\ search'.i <= MaxAway /\ search'.i >= -MaxAway
MCSpec == Init /\ [][MCNext]_vars /\ WF_vars(SearchStep)
=============================================================================
