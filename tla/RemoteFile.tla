----------------------------- MODULE RemoteFile -----------------------------
(***************************************************************************)
(* What the file layer expects of the file system behind it, whatever the  *)
(* medium: a file is opened and its size is known, a read of want bytes    *)
(* gives the bytes that follow pos or fails.                               *)
(* Bytes stand for their position in the file: byte i of the file is i.    *)
(***************************************************************************)
EXTENDS Integers

CONSTANT MaxRead   \* bound: the bytes asked for in one call

VARIABLES
  length,   \* the bytes of the file; nothing changes it here
  req,      \* the call under way, or "none"
  opened,   \* a file is open
  size,     \* its size, as the opener was told
  pos,      \* filepos when the call began
  want,     \* the bytes the call asks for
  answer    \* what the last call gave its caller

absVars == <<length, req, opened, size, pos, want, answer>>

Failed == [ok |-> FALSE, data |-> <<>>]
Bytes(from, n) == [ok |-> TRUE, data |-> [i \in 1..n |-> from + i]]

Init == /\ length \in Nat
        /\ req = "none" /\ ~opened
        /\ size = 0 /\ pos = 0 /\ want = 0 /\ answer = Failed

Call(r) == req = "none" /\ req' = r /\ UNCHANGED length

Open == /\ Call("open")
        /\ opened' = FALSE /\ size' = 0 /\ pos' = 0
        /\ UNCHANGED <<want, answer>>
Seek == /\ req = "none" /\ opened
        /\ pos' \in 0..size
        /\ UNCHANGED <<length, req, opened, size, want, answer>>
Read == /\ Call("read") /\ opened
        /\ want' \in 1..MaxRead /\ want' <= size - pos
        /\ UNCHANGED <<opened, size, pos, answer>>
Close == /\ Call("close") /\ opened
         /\ UNCHANGED <<opened, size, pos, want, answer>>

Return == req' = "none" /\ UNCHANGED <<length>>

OpenReturns == /\ req = "open" /\ Return
               /\ \/ opened' = TRUE /\ size' = length /\ answer' = Bytes(0, 0)
                  \/ answer' = Failed /\ UNCHANGED <<opened, size>>
               /\ UNCHANGED <<pos, want>>
ReadReturns == /\ req = "read" /\ Return
               /\ \/ answer' = Bytes(pos, want) /\ pos' = pos + want
                  \/ answer' = Failed /\ pos' \in pos..(pos + want)
               /\ want' = 0
               /\ UNCHANGED <<opened, size>>
CloseReturns == /\ req = "close" /\ Return
                /\ opened' = FALSE /\ size' = 0
                /\ UNCHANGED <<pos, want, answer>>

Answer == OpenReturns \/ ReadReturns \/ CloseReturns

Next == Open \/ Seek \/ Read \/ Close \/ Answer

Spec == Init /\ [][Next]_absVars
=============================================================================
