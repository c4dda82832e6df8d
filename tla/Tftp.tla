-------------------------------- MODULE Tftp --------------------------------
(***************************************************************************)
(* The TFTP file system (netboot/fsys_tftp.c), in the default build, which *)
(* defines CONGESTED: the file is received block by block into a window of *)
(* FSYS_BUFLEN bytes that slides with filepos; a backward seek asks for    *)
(* the file again.  The only place where the outside acts is await_reply:  *)
(* a packet for the current port, a timeout, or Ctrl-C.                    *)
(*                                                                         *)
(* The network loses, duplicates, delays and reorders.  A packet that was  *)
(* ever sent to the current port may arrive at any time, any number of     *)
(* times, or never, so the packets under way follow from what the client   *)
(* has sent from that port (asked, acked, bcounter).  The number of the    *)
(* port is left out: every request of this file takes a new one, and       *)
(* await_reply drops what is addressed to another.  (The loader's own      *)
(* downloads in main.c also count their ports from 2000; what they left    *)
(* under way is taken to be gone.)                                         *)
(*                                                                         *)
(* Byte i of the file is the number i; a packet carries a run of them.     *)
(***************************************************************************)
EXTENDS Integers, Sequences

CONSTANTS
  Servers,              \* the servers: how they answer a request, see Server
  Lengths,              \* the lengths the file may have
  FSYS_BUFLEN,          \* the window: 0x8000
  DefaultSize,          \* TFTP_DEFAULTSIZE_PACKET: 512
  BlockMod,             \* block numbers have 16 bits: 2^16
  MAX_TFTP_RETRIES,     \* 20
  TFTP_REXMT, TFTP_TIMEOUT,   \* 3 and 30 seconds, in ticks
  MaxRead,              \* bound: the bytes asked for in one call
  MaxCalls              \* bound: the calls of one behaviour

(* A server answers a request with an error, with its first block (it      *)
(* knows no options), or with an OACK that gives its block size and        *)
(* perhaps the file's size, or an OACK the client cannot accept.  An "odd" *)
(* one also sends blocks that are too long and opcodes that make no sense. *)
Server == [kind : {"error", "plain", "oack", "noak", "odd"}, blksize : Nat \ {0}, tsize : BOOLEAN]

ASSUME SizesAssumption ==
  /\ Servers \subseteq Server /\ Lengths \subseteq Nat
  /\ DefaultSize \in Nat \ {0} /\ FSYS_BUFLEN \in Nat /\ BlockMod \in Nat \ {0, 1}
  /\ {TFTP_REXMT, MaxRead, MaxCalls} \subseteq Nat
  /\ FSYS_BUFLEN % 2 = 0 /\ DefaultSize <= FSYS_BUFLEN
  /\ \A s \in Servers : s.blksize >= DefaultSize

VARIABLES
  server, length,       \* the peer: fixed
  arp,                  \* the server's Ethernet address is known
  call,                 \* the operation under way
  pc,                   \* where it is: in await_reply, behind buf_fill, or copying
  abort,                \* buf_fill's argument
  filled,               \* buf_fill's result
  retry, block, prevblock, bcounter, packetsize,
  buf_eof, buf, saved_filepos,
  tp, len,              \* the packet that is sent, and whether len is the request's
  asked, acked,         \* the current port sent a request; it acknowledged an OACK
  filepos, filemax, size,
  start, got,           \* filepos when the read began, and what it copied
  opened, answer,       \* for the caller
  calls

peer == <<server, length>>
port == <<asked, acked>>
transfer == <<retry, block, prevblock, bcounter, packetsize, buf_eof>>
window == <<buf, saved_filepos>>
reader == <<filepos, size, start, got>>
result == <<opened, answer>>
vars == <<peer, arp, call, pc, abort, filled, transfer, window, tp, len, port,
          reader, filemax, result, calls>>

buf_read == Len(buf)
Min(a, b) == IF a < b THEN a ELSE b
-----------------------------------------------------------------------------
(* The packets that may arrive at the current port *)

ServerSize == IF server.kind \in {"oack", "noak"} THEN server.blksize ELSE DefaultSize

Blocks == (length \div ServerSize) + 1   \* the last one is short, perhaps empty

Data(k) == [op |-> "DATA", block |-> k % BlockMod,
            data |-> [i \in 1..(Min(k * ServerSize, length) - (k - 1) * ServerSize)
                        |-> (k - 1) * ServerSize + i]]
Oversize == [op |-> "DATA", block |-> 1, data |-> [i \in 1..(DefaultSize + 1) |-> i]]
Packet(op) == [op |-> op, block |-> 0, data |-> <<>>]

DataPackets == {Data(k) : k \in 1..Min(bcounter + 1, Blocks)}

Incoming ==
  IF ~asked THEN {}
  ELSE CASE server.kind = "error" -> {Packet("ERROR")}
         [] server.kind = "noak"  -> {Packet("NOAK")}
         [] server.kind = "oack"  -> {Packet("OACK")} \cup (IF acked THEN DataPackets ELSE {})
         [] server.kind = "plain" -> DataPackets
         [] server.kind = "odd"   -> DataPackets \cup {Oversize, Packet("OTHER")}
-----------------------------------------------------------------------------
(* Transmission *)

(* send_rrq, after the request was put into tp and len.  udp_transmit may  *)
(* have to resolve the server's address first, and then it may fail.       *)
send_rrq(ok) ==
  /\ retry' = 0 /\ block' = 0 /\ prevblock' = 0 /\ bcounter' = 0
  /\ packetsize' = DefaultSize
  /\ buf_eof' = FALSE /\ buf' = <<>> /\ saved_filepos' = 0
  /\ ok \in (IF arp THEN {TRUE} ELSE BOOLEAN)
  /\ arp' = ok
  /\ asked' = ok /\ acked' = FALSE

(* Mutant: a packet is awaited as long as there is any room. *)
MoreWhileRoom(eof, n, psize) == ~eof /\ n < FSYS_BUFLEN

MoreToFill(eof, n, psize) == ~eof /\ n + psize <= FSYS_BUFLEN

(* Calling buf_fill: its loop is entered or not. *)
buf_fill(ab, eof, n, psize) ==
  /\ abort' = ab
  /\ pc' = IF MoreToFill(eof, n, psize) THEN "await" ELSE "filled"
  /\ filled' = TRUE

(* buf_fill returns. *)
Leave(ok) == pc' = "filled" /\ filled' = ok /\ UNCHANGED abort
(* Back to the top of buf_fill's loop. *)
Loop(eof, n, psize) ==
  /\ pc' = IF MoreToFill(eof, n, psize) THEN "await" ELSE "filled"
  /\ filled' = TRUE
  /\ UNCHANGED abort
-----------------------------------------------------------------------------
(* buf_fill: what await_reply comes back with *)

Awaiting == pc = "await"
OnlyFill == UNCHANGED <<peer, call, reader, result, calls>>

(* Ctrl-C *)
UserAborts == /\ Awaiting /\ Leave(FALSE)
              /\ OnlyFill
              /\ UNCHANGED <<arp, transfer, window, tp, len, port, filemax>>

(* A timeout while no block has arrived: the request may have been lost.   *)
(* What is sent again, from a new port, is whatever tp holds: when len is  *)
(* no longer its length, it may be taken for the request or not.           *)
ResendRequest ==
  /\ Awaiting /\ block = 0 /\ retry < MAX_TFTP_RETRIES
  /\ retry' = retry + 1
  /\ asked' \in BOOLEAN /\ acked' = FALSE
  /\ asked' => tp = "RRQ"
  /\ tp = "RRQ" /\ len = "rrq" => asked'
  /\ UNCHANGED <<pc, abort, filled>>
  /\ OnlyFill
  /\ UNCHANGED <<arp, block, prevblock, bcounter, packetsize, buf_eof, window, tp, len,
                 filemax>>

(* Mutant: retry stays. *)
NoAdvance == 0

RexmtAdvance == TFTP_REXMT

(* A timeout later: the last acknowledgement is sent again. *)
ResendAck ==
  /\ Awaiting /\ block # 0 /\ retry + RexmtAdvance < TFTP_TIMEOUT
  /\ retry' = retry + RexmtAdvance
  /\ UNCHANGED <<pc, abort, filled>>
  /\ OnlyFill
  /\ UNCHANGED <<arp, block, prevblock, bcounter, packetsize, buf_eof, window, tp, len,
                 port, filemax>>

Timeout ==
  /\ Awaiting
  /\ \/ block = 0 /\ retry >= MAX_TFTP_RETRIES /\ retry' = retry + 1
     \/ block # 0 /\ retry + RexmtAdvance >= TFTP_TIMEOUT /\ retry' = retry + RexmtAdvance
  /\ Leave(FALSE)
  /\ OnlyFill
  /\ UNCHANGED <<arp, block, prevblock, bcounter, packetsize, buf_eof, window, tp, len,
                 port, filemax>>

Arrives(p) == Awaiting /\ p \in Incoming

ReceiveError ==
  \E p \in Incoming :
    /\ Arrives(p) /\ p.op = "ERROR"
    /\ Leave(FALSE)
    /\ OnlyFill
    /\ UNCHANGED <<arp, transfer, window, tp, len, port, filemax>>

(* Acknowledging block b of a transfer, or ending it with an error. *)
Acknowledge(b) ==
  /\ block' = b
  /\ tp' = IF abort THEN "ERROR" ELSE "ACK"
  /\ len' = "other"

ReceiveOack ==
  \E p \in Incoming :
    /\ Arrives(p) /\ p.op \in {"OACK", "NOAK"}
    /\ \/ /\ prevblock # 0                        \* "Shouldn't happen."
          /\ UNCHANGED <<pc, abort, filled, transfer, tp, len, port, filemax>>
       \/ /\ prevblock = 0 /\ p.op = "NOAK"
          /\ tp' = "ERROR" /\ len' = "other"
          /\ Leave(FALSE)
          /\ UNCHANGED <<transfer, port, filemax>>
       \/ /\ prevblock = 0 /\ p.op = "OACK"
          /\ packetsize' = server.blksize
          /\ filemax' = IF server.tsize THEN length ELSE filemax
          /\ Acknowledge(0)
          /\ acked' = ~abort
          /\ IF abort THEN buf_eof' = TRUE /\ Leave(TRUE)
                      ELSE UNCHANGED buf_eof /\ Loop(buf_eof, buf_read, server.blksize)
          /\ UNCHANGED <<retry, prevblock, bcounter, asked>>
    /\ OnlyFill
    /\ UNCHANGED <<arp, window>>

(* Mutant: the comparison is made in 16 bits. *)
InOrderMod(b) == (b = 0 /\ bcounter = 0) \/ b = (prevblock + 1) % BlockMod

(* The comparison is made in int: the successor of the last block number   *)
(* is no block number.                                                     *)
InOrder(b) == (b = 0 /\ bcounter = 0) \/ b = prevblock + 1

ReceiveData ==
  \E p \in Incoming :
    /\ Arrives(p) /\ p.op = "DATA"
    /\ \/ /\ Len(p.data) > packetsize             \* ignored, but len is its length now
          /\ len' = "other"
          /\ UNCHANGED <<pc, abort, filled, transfer, window, tp>>
       \/ /\ Len(p.data) <= packetsize
          /\ LET b == IF InOrder(p.block) THEN p.block ELSE prevblock
                 new == b = (prevblock + 1) % BlockMod
             IN /\ Acknowledge(b)
                /\ \/ /\ abort
                      /\ buf_eof' = TRUE /\ Leave(TRUE)
                      /\ UNCHANGED <<retry, prevblock, bcounter, window>>
                   \/ /\ ~abort /\ ~new
                      /\ Loop(buf_eof, buf_read, packetsize)
                      /\ UNCHANGED <<retry, prevblock, bcounter, buf_eof, window>>
                   \/ /\ ~abort /\ new
                      /\ prevblock' = b /\ retry' = 0 /\ bcounter' = bcounter + 1
                      /\ buf' = buf \o p.data
                      /\ buf_eof' = (Len(p.data) < packetsize)
                      /\ Loop(buf_eof', Len(buf'), packetsize)
                      /\ UNCHANGED saved_filepos
                /\ UNCHANGED packetsize
    /\ OnlyFill
    /\ UNCHANGED <<arp, port, filemax>>

(* An opcode that is neither ends the loop as if it were full. *)
ReceiveOther ==
  \E p \in Incoming :
    /\ Arrives(p) /\ p.op = "OTHER"
    /\ Leave(TRUE)
    /\ OnlyFill
    /\ UNCHANGED <<arp, transfer, window, tp, len, port, filemax>>

Receive == ReceiveError \/ ReceiveOack \/ ReceiveData \/ ReceiveOther
-----------------------------------------------------------------------------
(* tftp_dir *)

Finish(a) == call' = "none" /\ pc' = "idle" /\ answer' = a /\ UNCHANGED <<abort, filled>>
Failed == [ok |-> FALSE, data |-> <<>>]
Done(d) == [ok |-> TRUE, data |-> d]

(* The request is built, saved for a reopening, and sent; then the first   *)
(* blocks are awaited.                                                     *)
OpenRequest ==
  /\ tp' = "RRQ" /\ len' = "rrq"
  /\ call' = "dir"
  /\ \/ send_rrq(TRUE) /\ buf_fill(FALSE, FALSE, 0, DefaultSize)
     \/ send_rrq(FALSE) /\ Leave(FALSE)
  /\ UNCHANGED answer

(* A file that was left open is forgotten. *)
tftp_dir ==
  /\ call = "none" /\ calls < MaxCalls
  /\ calls' = calls + 1
  /\ opened' = FALSE /\ filemax' = -1 /\ filepos' = 0
  /\ OpenRequest
  /\ UNCHANGED <<peer, size, start, got>>

Filled(c) == pc = "filled" /\ call = c
OnlyReturn == UNCHANGED <<peer, arp, port, calls>>

(* The size is known: the file is open.  Otherwise the file is read once   *)
(* to count its bytes, and requested again.                                *)
DirFilled ==
  /\ Filled("dir")
  /\ \/ ~filled /\ Finish(Failed) /\ UNCHANGED <<opened, filemax, buf>>
     \/ /\ filled /\ filemax # -1
        /\ opened' = TRUE /\ Finish(Done(<<>>))
        /\ UNCHANGED <<filemax, buf>>
     \/ /\ filled /\ filemax = -1
        /\ call' = "count"
        /\ filemax' = buf_read /\ buf' = <<>>
        /\ buf_fill(FALSE, buf_eof, 0, packetsize)
        /\ UNCHANGED <<opened, answer>>
  /\ OnlyReturn
  /\ UNCHANGED <<transfer, saved_filepos, tp, len, reader>>

(* Mutant: the buffer is emptied of what a read would have copied only. *)
DiscardHalf == buf' = SubSeq(buf, FSYS_BUFLEN \div 2 + 1, buf_read)

Discard == buf' = <<>>

CountFilled ==
  /\ Filled("count")
  /\ \/ /\ ~filled /\ Finish(Failed)
        /\ UNCHANGED <<arp, transfer, window, tp, len, port, filemax>>
     \/ /\ filled /\ filemax' = filemax + buf_read
        /\ \/ /\ ~buf_eof
              /\ Discard /\ buf_fill(FALSE, buf_eof, Len(buf'), packetsize)
              /\ UNCHANGED <<arp, transfer, saved_filepos, tp, len, port, call, answer>>
           \/ buf_eof /\ OpenRequest
  /\ UNCHANGED <<peer, calls, reader, opened>>
-----------------------------------------------------------------------------
(* tftp_read, called by grub_read with a size that the file still has *)

Seek ==
  /\ call = "none" /\ opened /\ calls < MaxCalls
  /\ \E p \in 0..filemax : p # filepos /\ filepos' = p
  /\ calls' = calls + 1
  /\ UNCHANGED <<peer, arp, call, pc, abort, filled, transfer, window, tp, len, port,
                 size, start, got, filemax, result>>

tftp_read ==
  /\ call = "none" /\ opened /\ calls < MaxCalls
  /\ calls' = calls + 1
  /\ \E n \in 1..MaxRead : n <= filemax - filepos /\ size' = n
  /\ start' = filepos /\ got' = <<>>
  /\ \/ /\ filepos < saved_filepos                \* moved backwards: reopen the file
        /\ call' = "rewind" /\ buf' = <<>>
        /\ buf_fill(TRUE, buf_eof, 0, packetsize)
     \/ /\ filepos >= saved_filepos
        /\ call' = "read" /\ pc' = "copy"
        /\ UNCHANGED <<buf, abort, filled>>
  /\ UNCHANGED <<peer, arp, transfer, saved_filepos, tp, len, port, filepos, filemax,
                 result>>

(* The old transfer was ended, or not; the saved request is sent. *)
Rewound ==
  /\ Filled("rewind")
  /\ tp' = "RRQ" /\ len' = "rrq"
  /\ \/ /\ send_rrq(TRUE)
        /\ call' = "read" /\ pc' = "copy"
        /\ UNCHANGED <<abort, filled, answer, size>>
     \/ send_rrq(FALSE) /\ Finish(Failed) /\ size' = 0
  /\ UNCHANGED <<peer, filepos, start, got, filemax, opened, calls>>

Half == FSYS_BUFLEN \div 2

(* One round of tftp_read's loop, up to its call of buf_fill. *)
Copy ==
  /\ pc = "copy"
  /\ LET ready == buf_read + saved_filepos - filepos
         amt == Min(ready, size)
         at == filepos - saved_filepos
     IN \/ /\ amt > 0
           /\ got' = got \o SubSeq(buf, at + 1, at + amt)
           /\ filepos' = filepos + amt /\ size' = size - amt
           /\ IF filepos' - saved_filepos > Half
              THEN buf' = SubSeq(buf, Half + 1, buf_read) /\ saved_filepos' = saved_filepos + Half
              ELSE UNCHANGED window
        \/ /\ amt <= 0
           /\ saved_filepos' = saved_filepos + buf_read /\ buf' = <<>>
           /\ UNCHANGED <<got, filepos, size>>
  /\ IF size' > 0
     THEN buf_fill(FALSE, buf_eof, Len(buf'), packetsize) /\ UNCHANGED <<call, answer>>
     ELSE Finish(Done(got'))
  /\ OnlyReturn
  /\ UNCHANGED <<transfer, tp, len, start, filemax, opened>>

ReadFilled ==
  /\ Filled("read")
  /\ \/ /\ filled /\ buf_read > 0
        /\ pc' = "copy"
        /\ UNCHANGED <<call, answer, abort, filled, size>>
     \/ (~filled \/ buf_read = 0) /\ Finish(Failed) /\ size' = 0
  /\ OnlyReturn
  /\ UNCHANGED <<transfer, window, tp, len, filepos, start, got, filemax, opened>>

tftp_close ==
  /\ call = "none" /\ opened /\ calls < MaxCalls
  /\ calls' = calls + 1
  /\ call' = "close" /\ buf' = <<>>
  /\ buf_fill(TRUE, buf_eof, 0, packetsize)
  /\ UNCHANGED <<peer, arp, transfer, saved_filepos, tp, len, port, reader, filemax,
                 result>>

Closed ==
  /\ Filled("close")
  /\ Finish(answer) /\ opened' = FALSE
  /\ OnlyReturn
  /\ UNCHANGED <<transfer, window, tp, len, reader, filemax>>
-----------------------------------------------------------------------------
Init ==
  /\ server \in Servers /\ length \in Lengths
  /\ arp = FALSE
  /\ call = "none" /\ pc = "idle" /\ abort = FALSE /\ filled = FALSE
  /\ retry = 0 /\ block = 0 /\ prevblock = 0 /\ bcounter = 0
  /\ packetsize = DefaultSize
  /\ buf_eof = FALSE /\ buf = <<>> /\ saved_filepos = 0
  /\ tp = "RRQ" /\ len = "rrq" /\ asked = FALSE /\ acked = FALSE
  /\ filepos = 0 /\ filemax = -1 /\ size = 0 /\ start = 0 /\ got = <<>>
  /\ opened = FALSE /\ answer = Failed
  /\ calls = 0

Client == ResendRequest \/ ResendAck \/ Timeout \/ Receive
          \/ DirFilled \/ CountFilled \/ Rewound \/ Copy \/ ReadFilled \/ Closed

Next == tftp_dir \/ Seek \/ tftp_read \/ tftp_close \/ UserAborts \/ Client

Spec == Init /\ [][Next]_vars

(* The assumption under which a call returns: a wait comes to an end, with *)
(* a packet that changes something or with a timeout.  The code does not   *)
(* see to it: what it ignores or has already counts as no retry, and every *)
(* such packet begins a new wait.  Nobody has to press Ctrl-C.             *)
WaitsEnd == WF_vars(Client)
TimelySpec == Spec /\ WaitsEnd
-----------------------------------------------------------------------------
(***************************************************************************)
(* PROPERTIES                                                              *)
(***************************************************************************)
(* The variables of fsys_tftp.c keep their types: what is buffered, counted *)
(* and copied never leaves the file, and block numbers keep their width.   *)
TypeOK ==
  /\ server \in Servers /\ length \in Lengths
  /\ arp \in BOOLEAN /\ abort \in BOOLEAN /\ filled \in BOOLEAN
  /\ call \in {"none", "dir", "count", "read", "rewind", "close"}
  /\ pc \in {"idle", "await", "filled", "copy"}
  /\ retry \in Nat /\ bcounter \in Nat
  /\ block \in 0..(BlockMod - 1) /\ prevblock \in 0..(BlockMod - 1)
  /\ packetsize \in Nat \ {0}
  /\ buf_eof \in BOOLEAN /\ buf \in Seq(1..length) /\ saved_filepos \in 0..length
  /\ tp \in {"RRQ", "ACK", "ERROR"} /\ len \in {"rrq", "other"}
  /\ asked \in BOOLEAN /\ acked \in BOOLEAN
  /\ filepos \in 0..length /\ filemax \in -1..length
  /\ size \in 0..MaxRead /\ start \in 0..length /\ got \in Seq(1..length)
  /\ opened \in BOOLEAN
  /\ calls \in 0..MaxCalls

(* Whatever was lost, repeated, delayed or overtaken, and however often    *)
(* the file was asked for again, the window holds the bytes of the file    *)
(* from saved_filepos on, within FSYS_BUFLEN.  (While the size is counted, *)
(* before the file is open, bytes are thrown away and saved_filepos stays.)*)
BufferIsWindow ==
  /\ buf_read <= FSYS_BUFLEN
  /\ opened \/ call = "dir" => \A i \in 1..buf_read : buf[i] = saved_filepos + i

(* The position of the transfer: the blocks that were accepted are the     *)
(* blocks that prevblock counts, so no block number is ever used twice;    *)
(* and what they brought, up to the end of the file, is behind the window. *)
BlocksAreCounted ==
  /\ bcounter = prevblock
  /\ pc # "idle" /\ call \in {"dir", "read"} =>
       saved_filepos + buf_read = Min(bcounter * packetsize, length)

(* The transfer is a file system as the file layer expects one: the call   *)
(* that its caller made, and what that asked for.                          *)
Req == CASE call = "none" -> "none"
         [] call \in {"dir", "count"} -> "open"
         [] call \in {"read", "rewind"} -> "read"
         [] call = "close" -> "close"
KnownSize == IF opened THEN filemax ELSE 0
CallPos == IF call \in {"read", "rewind"} THEN start ELSE filepos
Wanted == IF call \in {"read", "rewind"} THEN size + Len(got) ELSE 0

RF == INSTANCE RemoteFile WITH req <- Req, size <- KnownSize, pos <- CallPos, want <- Wanted

(* tftp_dir, tftp_read and tftp_close implement RemoteFile, on any network: *)
(* an open file has its true size, and a read gives the bytes asked for or *)
(* fails.                                                                  *)
ImplementsRemoteFile == RF!Spec

(* Where waits end, every call returns: retries are bounded, and progress, *)
(* which sets retry to zero, is made at most once for each block.  Two     *)
(* servers can keep tftp_dir counting the bytes of nothing for ever: one   *)
(* whose blocks do not fit into the window, and one that goes on sending   *)
(* opcodes buf_fill takes for the end of a full buffer.                    *)
CallsReturn ==
  \/ []<><<ReceiveOther>>_vars
  \/ call # "none" ~> call = "none" \/ packetsize > FSYS_BUFLEN
=============================================================================
