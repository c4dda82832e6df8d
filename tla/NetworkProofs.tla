--------------------------- MODULE NetworkProofs ----------------------------
(***************************************************************************)
(* Proofs about the network.  NetConfig: for all servers, typed addresses  *)
(* and numbers of retries, no stale card address is in the ARP table, and  *)
(* a ready machine does not use an address that was only offered.  Tftp:   *)
(* for every server, length of file, block size and window, and on every   *)
(* network, the window holds the bytes that it should hold, and the calls  *)
(* of the file system are steps of RemoteFile.                             *)
(***************************************************************************)
EXTENDS NetConfig, Tftp, SequenceTheorems, TLAPS

-----------------------------------------------------------------------------
(* The configuration of the network *)

(* The card addresses before the card was found: none. *)
Unprobed == nic \in {"absent", "unprobed"} => \A e \in Peers : node[e] = NoAddr

(* While bootp or rarp looks for an address, the machine is not ready. *)
Looking == {"discover", "await_offer", "request", "await_ack", "rarp", "await_rarp"}
LookingUnready == step \in Looking => ~network_ready

(* The part of the types that the proofs need. *)
Tables ==
  /\ DOMAIN ipaddr = Entries /\ DOMAIN node = Peers
  /\ dhcp_reply \in {"NONE", "OFFER", "ACK", "NAK"}
  /\ network_ready \in BOOLEAN

NInv == Tables /\ Unprobed /\ LookingUnready /\ ArpTableTrue /\ NeverOnOfferAlone

LEMMA NInit == NetInit => NInv
BY DEF NetInit, NInv, Tables, Unprobed, Looking, LookingUnready, ArpTableTrue, NeverOnOfferAlone,
       Entries, Peers

(* A reply has one of the four types. *)
LEMMA ReplyTypes ==
  \A r \in BootpReplies : r.type \in {"NONE", "OFFER", "ACK", "NAK"}
BY DEF BootpReplies, ReplyOf

(* A command that looks for an address: the machine is not ready any more. *)
LEMMA BeginKeeps ==
  ASSUME NInv, NEW where \in Looking, Begin(where), UNCHANGED <<dhcp_reply, given>>
  PROVE  NInv'
<1>1. Tables' /\ LookingUnready' /\ NeverOnOfferAlone'
  BY DEF NInv, Begin, Tables, LookingUnready, NeverOnOfferAlone, ProbedTable
<1>2. Unprobed'
  BY DEF NInv, Begin, Unprobed
<1>3. ArpTableTrue'
  <2>1. CASE nic \in {"absent", "unprobed"}
    BY <2>1 DEF NInv, Begin, Unprobed, ArpTableTrue
  <2>2. CASE UNCHANGED ipaddr
    BY <2>2 DEF NInv, Begin, ArpTableTrue
  <2>3. QED
    BY <2>1, <2>2 DEF Begin
<1>4. QED
  BY <1>1, <1>2, <1>3 DEF NInv

(* A BOOTP or DHCP reply replaces the addresses and forgets the cards. *)
LEMMA TakeReplyKeeps ==
  ASSUME NInv, NEW r \in BootpReplies, TakeReply(r)
  PROVE  /\ DOMAIN ipaddr' = Entries /\ DOMAIN node' = Peers
         /\ Unprobed' /\ ArpTableTrue'
         /\ DecodedType(r) \in {"NONE", "OFFER", "ACK", "NAK"}
BY ReplyTypes DEF NInv, Tables, TakeReply, NodesKilled, Unprobed, ArpTableTrue, DecodedType

(* ifconfig and tftpserver, from a table whose cards are true.             *)
LEMMA IfconfigKeeps ==
  ASSUME NInv, NEW STATE table0, NEW STATE ready0, NEW ip, NEW sm, NEW gw, NEW svr,
         ready0 \in BOOLEAN, DOMAIN table0 = Entries, step = "idle",
         \A e \in Peers : node[e] # NoAddr => node[e] = table0[e],
         ready0 => network_ready,
         nic' \in {"absent", "unprobed"} => nic \in {"absent", "unprobed"},
         ifconfig(table0, ready0, ip, sm, gw, svr)
  PROVE  NInv'
<1>1. DOMAIN ipaddr' = Entries /\ DOMAIN node' = Peers /\ UNCHANGED <<dhcp_reply, step>>
  BY DEF NInv, ifconfig, Tables, dhcp
<1>2. network_ready' \in BOOLEAN /\ (network_ready' => network_ready \/ given' = "TYPED")
  BY DEF ifconfig, Usable
<1>3. given' \in {given, "TYPED"}
  BY DEF ifconfig
<1>4. Tables' /\ LookingUnready' /\ NeverOnOfferAlone'
  BY <1>1, <1>2, <1>3 DEF NInv, Tables, LookingUnready, Looking, NeverOnOfferAlone
<1>5. Unprobed' /\ ArpTableTrue'
  BY DEF NInv, ifconfig, Tables, Unprobed, ArpTableTrue, Entries, Peers, ARP_CLIENT, ARP_SERVER, ARP_GATEWAY
<1>6. QED
  BY <1>4, <1>5 DEF NInv

LEMMA NStep == NInv /\ [NetNext]_netVars => NInv'
<1> SUFFICES ASSUME NInv, [NetNext]_netVars PROVE NInv'
  OBVIOUS
<1> USE DEF NInv
<1>a. ASSUME UNCHANGED <<ipaddr, node, dhcp_reply, network_ready, nic, given>>, LookingUnready'
      PROVE  NInv'
  BY <1>a DEF Tables, Unprobed, ArpTableTrue, NeverOnOfferAlone
<1>1. CASE bootp
  BY <1>1, BeginKeeps DEF bootp, dhcp, Looking
<1>2. CASE rarp
  BY <1>2, BeginKeeps DEF rarp, dhcp, Looking
<1>3. CASE udp_transmit
  BY <1>3, <1>a DEF udp_transmit, Command, table, dhcp, LookingUnready, Looking
<1>4. CASE ifconfig_func
  <2>1. CASE nic = "absent" /\ network_ready' = FALSE /\ ipaddr' = ProbedTable
             /\ UNCHANGED <<nic, node, dhcp, step, given>>
    BY <2>1 DEF ProbedTable, Tables, Unprobed, LookingUnready, ArpTableTrue, NeverOnOfferAlone, dhcp
  <2>2. CASE nic # "absent"
    <3> DEFINE t0 == IF nic = "unprobed" THEN ProbedTable ELSE ipaddr
               r0 == nic # "unprobed" /\ network_ready
    <3>1. PICK ip \in Option, gw \in Option, svr \in Option, sm \in {"none", "bad", "mask"} :
            ifconfig(t0, r0, ip, sm, gw, svr)
      BY <1>4, <2>2 DEF ifconfig_func
    <3>2. DOMAIN t0 = Entries /\ r0 \in BOOLEAN /\ (r0 => network_ready) /\ step = "idle"
      BY <1>4 DEF Tables, ProbedTable, ifconfig_func, Command
    <3>3. \A e \in Peers : node[e] # NoAddr => node[e] = t0[e]
      BY DEF Unprobed, ArpTableTrue
    <3>4. nic' \notin {"absent", "unprobed"}
      BY <1>4, <2>2 DEF ifconfig_func, Unprobed
    <3> HIDE DEF t0, r0, NInv
    <3>5. QED
      BY <3>1, <3>2, <3>3, <3>4, IfconfigKeeps
  <2>3. QED
    BY <1>4, <2>1, <2>2 DEF ifconfig_func
<1>5. CASE tftpserver_func
  <2>1. PICK svr \in Addresses : ifconfig(ipaddr, network_ready, None, "none", None, svr)
    BY <1>5 DEF tftpserver_func
  <2>2. DOMAIN ipaddr = Entries /\ network_ready \in BOOLEAN /\ step = "idle" /\ UNCHANGED nic
    BY <1>5 DEF Tables, tftpserver_func, Command
  <2>3. \A e \in Peers : node[e] # NoAddr => node[e] = ipaddr[e]
    BY DEF ArpTableTrue
  <2> HIDE DEF NInv
  <2>4. QED
    BY <2>1, <2>2, <2>3, IfconfigKeeps
<1>6. CASE cleanup_net
  BY <1>6 DEF cleanup_net, Command, Tables, Unprobed, LookingUnready, ArpTableTrue,
              NeverOnOfferAlone, table, dhcp
<1>7. CASE CtrlC
  BY <1>7, <1>a DEF CtrlC, table, dhcp, LookingUnready, Looking
<1>8. CASE UnderWay
  <2>1. CASE SendDiscover
    BY <2>1, <1>a DEF SendDiscover, table, dhcp, LookingUnready, Looking
  <2>2. CASE ReceiveOffer
    <3>1. PICK r \in BootpReplies :
            /\ TakeReply(r)
            /\ \/ /\ Final(DecodedType(r))
                  /\ dhcp_reply' = DecodedType(r)
                  /\ Return(TRUE)
               \/ /\ dhcp_reply' = "NONE"
                  /\ step' = "request"
                  /\ UNCHANGED network_ready
      BY <2>2 DEF ReceiveOffer
    <3>2. UNCHANGED nic /\ ~network_ready
      BY <2>2 DEF ReceiveOffer, LookingUnready, Looking
    <3>3. Unprobed' /\ ArpTableTrue' /\ Tables'
      BY <3>1, <3>2, TakeReplyKeeps DEF Tables, Return
    <3>4. LookingUnready'
      BY <3>1, <3>2 DEF LookingUnready, Looking, Return
    <3>5. NeverOnOfferAlone'
      BY <3>1, <3>2, ReplyTypes DEF NeverOnOfferAlone, Final, DecodedType, TakeReply
    <3>6. QED
      BY <3>3, <3>4, <3>5
  <2>3. CASE SendRequest
    BY <2>3 DEF SendRequest, table, Tables, Unprobed, LookingUnready, Looking, ArpTableTrue,
                NeverOnOfferAlone
  <2>4. CASE ReceiveAck
    <3>1. PICK r \in BootpReplies :
            /\ TakeReply(r)
            /\ dhcp_reply' = DecodedType(r)
            /\ IF DecodedType(r) = "ACK" THEN Return(TRUE)
               ELSE step' = "request" /\ UNCHANGED network_ready
      BY <2>4 DEF ReceiveAck
    <3>2. UNCHANGED nic /\ ~network_ready
      BY <2>4 DEF ReceiveAck, LookingUnready, Looking
    <3>3. Unprobed' /\ ArpTableTrue' /\ Tables'
      BY <3>1, <3>2, TakeReplyKeeps DEF Tables, Return
    <3>4. LookingUnready'
      BY <3>1, <3>2 DEF LookingUnready, Looking, Return
    <3>5. NeverOnOfferAlone'
      BY <3>1, <3>2 DEF NeverOnOfferAlone, DecodedType, TakeReply
    <3>6. QED
      BY <3>3, <3>4, <3>5
  <2>5. CASE SendRarp
    BY <2>5, <1>a DEF SendRarp, table, dhcp, LookingUnready, Looking
  <2>6. CASE ReceiveRarp
    <3>1. PICK s : /\ nic = "on"
                   /\ ipaddr' = [ipaddr EXCEPT ![ARP_CLIENT] = s.yiaddr, ![ARP_SERVER] = s.ip]
                   /\ node' = [node EXCEPT ![ARP_SERVER] = s.ip]
                   /\ given' = "RARP"
      BY <2>6 DEF ReceiveRarp
    <3>2. ArpTableTrue'
      BY <3>1 DEF ArpTableTrue, Tables, Entries, Peers, ARP_CLIENT, ARP_SERVER, ARP_GATEWAY
    <3>3. QED
      BY <2>6, <3>1, <3>2 DEF ReceiveRarp, Return, dhcp, Tables, Unprobed, LookingUnready, Looking,
                              NeverOnOfferAlone
  <2>7. CASE SendArp
    BY <2>7, <1>a DEF SendArp, table, dhcp, LookingUnready, Looking
  <2>8. CASE ReceiveArp
    <3>1. ArpTableTrue'
      BY <2>8 DEF ReceiveArp, ArpReplies, ArpTableTrue, Tables
    <3>2. QED
      BY <2>8, <3>1 DEF ReceiveArp, dhcp, Tables, Unprobed, LookingUnready, Looking,
                        NeverOnOfferAlone
  <2>9. CASE NoReply
    BY <2>9, <1>a DEF NoReply, table, dhcp, LookingUnready, Looking
  <2>10. QED
    BY <1>8, <2>1, <2>2, <2>3, <2>4, <2>5, <2>6, <2>7, <2>8, <2>9 DEF UnderWay
<1>9. CASE UNCHANGED netVars
  BY <1>9, <1>a DEF netVars, table, dhcp, LookingUnready
<1>10. QED
  BY <1>1, <1>2, <1>3, <1>4, <1>5, <1>6, <1>7, <1>8, <1>9 DEF NetNext

LEMMA NInvariant == NetSpec => []NInv
<1>1. QED
  BY NInit, NStep, PTL DEF NetSpec

(* No packet goes to the card of an earlier server or gateway: whatever    *)
(* commands of main.c replaced an address, and however late the replies to *)
(* ARP requests are, the card beside an address is that address's.         *)
THEOREM ArpTableIsTrue == NetSpec => []ArpTableTrue
<1>1. NInv => ArpTableTrue
  BY DEF NInv
<1>2. QED
  BY <1>1, NInvariant, PTL

(* For any DHCP, BOOTP and RARP servers, whose replies are lost, repeated  *)
(* and reordered: bootp and rarp of main.c never end with a machine that   *)
(* calls itself ready on an address that was only offered.                 *)
THEOREM ReadyNotOnOffer == NetSpec => []NeverOnOfferAlone
<1>1. NInv => NeverOnOfferAlone
  BY DEF NInv
<1>2. QED
  BY <1>1, NInvariant, PTL

-----------------------------------------------------------------------------
(* The TFTP file system *)

(* What the accepted blocks have brought of the file. *)
Received == Min(bcounter * packetsize, length)

(* The end of the file was among it. *)
Ended == bcounter * packetsize > length

(* The size of the packets is the server's as soon as one is accepted.     *)
Sizes ==
  /\ bcounter = prevblock
  /\ bcounter # 0 => packetsize = ServerSize
  /\ server.kind # "oack" => packetsize = DefaultSize
  /\ server.kind = "oack" /\ acked => packetsize = server.blksize
  /\ server.kind = "oack" /\ server.tsize /\ (acked \/ bcounter # 0) => filemax = length

(* Where a call is, and what is known of the file's size there. *)
Phase ==
  /\ call = "none" <=> pc = "idle"
  /\ call \in {"dir", "count"} => ~opened
  /\ call \in {"read", "rewind", "close"} => opened
  /\ pc = "copy" => call = "read"
  /\ pc = "await" => MoreToFill(buf_eof, buf_read, packetsize) /\ (abort <=> call \in {"rewind", "close"})
  /\ opened => filemax = length
  /\ call = "dir" => filemax \in {-1, length} /\ saved_filepos = 0
  /\ call = "count" => filemax # -1 /\ ~(server.kind = "oack" /\ server.tsize)
  /\ pc = "filled" /\ filled /\ call = "dir" /\ server.kind = "oack" => bcounter # 0 \/ acked

(* The window, and while the size is counted, the count. *)
Window ==
  /\ buf_read <= FSYS_BUFLEN
  /\ call \in {"rewind", "close"} => buf = <<>>
  /\ call \in {"dir", "read"} \/ (call = "none" /\ opened) =>
       /\ saved_filepos + buf_read = Received
       /\ \A i \in 1..buf_read : buf[i] = saved_filepos + i
       /\ buf_eof => Ended
  /\ call = "count" => filemax + buf_read = Received /\ (buf_eof => Ended)

(* What a read has copied. *)
Reading ==
  call \in {"read", "rewind"} =>
    /\ filepos = start + Len(got) /\ \A i \in 1..Len(got) : got[i] = start + i
    /\ size # 0 /\ size + Len(got) <= MaxRead /\ filepos + size <= length
    /\ call = "read" => saved_filepos <= filepos

(* The two halves of TypeOK. *)
Flags ==
  /\ arp \in BOOLEAN /\ abort \in BOOLEAN /\ filled \in BOOLEAN
  /\ buf_eof \in BOOLEAN /\ asked \in BOOLEAN /\ acked \in BOOLEAN /\ opened \in BOOLEAN

Ranges ==
  /\ server \in Servers /\ length \in Lengths
  /\ call \in {"none", "dir", "count", "read", "rewind", "close"}
  /\ pc \in {"idle", "await", "filled", "copy"}
  /\ retry \in Nat /\ bcounter \in Nat
  /\ block \in 0..(BlockMod - 1) /\ prevblock \in 0..(BlockMod - 1)
  /\ packetsize \in Nat \ {0}
  /\ buf \in Seq(1..length) /\ saved_filepos \in 0..length
  /\ tp \in {"RRQ", "ACK", "ERROR"} /\ len \in {"rrq", "other"}
  /\ filepos \in 0..length /\ filemax \in -1..length
  /\ size \in 0..MaxRead /\ start \in 0..length /\ got \in Seq(1..length)
  /\ calls \in 0..MaxCalls

IInv == Flags /\ Ranges /\ Sizes /\ Phase /\ Window /\ Reading
-----------------------------------------------------------------------------
(* Arithmetic *)

LEMMA MinType == \A a, b \in Int : Min(a, b) \in Int /\ Min(a, b) <= a /\ Min(a, b) <= b /\ Min(a, b) \in {a, b}
BY DEF Min

LEMMA BlockStart ==
  ASSUME NEW n \in Nat, NEW m \in Nat \ {0}, NEW q \in Nat, q <= n \div m
  PROVE  q * m <= n
<1>1. n \div m \in Nat /\ (n \div m) * m <= n
  OBVIOUS
<1>2. PICK d : d = n \div m
  BY Zenon
<1>3. d \in Nat /\ d * m <= n /\ q <= d
  BY <1>1, <1>2
<1>4. q * m <= d * m
  BY <1>3
<1>5. q * m \in Nat /\ d * m \in Nat
  BY <1>3
<1>6. QED
  BY <1>3, <1>4, <1>5

LEMMA BlockNumber ==
  ASSUME NEW k \in Nat
  PROVE  k % BlockMod \in 0..(BlockMod - 1) /\ k % BlockMod <= k
BY SizesAssumption

(* The server, its blocks and the size of them. *)
LEMMA ServerFacts ==
  ASSUME server \in Servers, length \in Lengths
  PROVE  /\ server \in Server /\ length \in Nat /\ server.tsize \in BOOLEAN
         /\ server.kind \in {"error", "plain", "oack", "noak", "odd"}
         /\ server.blksize \in Nat \ {0} /\ DefaultSize \in Nat \ {0}
         /\ ServerSize \in Nat \ {0} /\ FSYS_BUFLEN \in Nat
         /\ Blocks \in Nat
<1>1. server \in Server /\ length \in Nat
  BY SizesAssumption
<1>2. /\ server.kind \in {"error", "plain", "oack", "noak", "odd"} /\ server.tsize \in BOOLEAN
      /\ server.blksize \in Nat \ {0}
  BY <1>1, SizesAssumption DEF Server
<1>3. ServerSize \in Nat \ {0} /\ server.blksize \in Nat \ {0} /\ DefaultSize \in Nat \ {0}
  BY <1>2, SizesAssumption DEF ServerSize
<1>4. Blocks \in Nat
  <2>1. ServerSize \in Nat \ {0}
    BY <1>3, SizesAssumption
  <2>2. QED
    BY <1>1, <2>1 DEF Blocks
<1>5. QED
  BY <1>1, <1>2, <1>3, <1>4, SizesAssumption

(* Block k carries the bytes of the file that belong to it. *)
LEMMA DataFacts ==
  ASSUME server \in Servers, length \in Lengths, NEW k \in Nat \ {0}, k <= Blocks
  PROVE  /\ Data(k).op = "DATA" /\ Data(k).block = k % BlockMod
         /\ (k - 1) * ServerSize \in Nat /\ (k - 1) * ServerSize <= length
         /\ k * ServerSize \in Nat /\ k * ServerSize = (k - 1) * ServerSize + ServerSize
         /\ Data(k).data \in Seq(1..length)
         /\ Len(Data(k).data) = Min(k * ServerSize, length) - (k - 1) * ServerSize
         /\ \A i \in 1..Len(Data(k).data) : Data(k).data[i] = (k - 1) * ServerSize + i
<1>1. ServerSize \in Nat \ {0} /\ length \in Nat
  BY ServerFacts
<1>2. k - 1 \in Nat /\ k - 1 <= length \div ServerSize
  <2>1. length \div ServerSize \in Nat
    BY <1>1
  <2>2. QED
    BY <2>1 DEF Blocks
<1>3. PICK a, z : a = (k - 1) * ServerSize /\ z = k * ServerSize
  BY Zenon
<1>4. a \in Nat /\ a <= length
  BY <1>1, <1>2, <1>3, BlockStart
<1>5. z \in Nat /\ z = a + ServerSize
  BY <1>1, <1>3
<1>6. PICK n : n = Min(z, length) - a
  BY Zenon
<1>7. n \in Nat /\ a + n <= length
  BY <1>1, <1>4, <1>5, <1>6 DEF Min
<1>8. Data(k).data = [i \in 1..n |-> a + i]
  BY <1>3, <1>6 DEF Data
<1>9. PICK d : d = Data(k).data
  BY Zenon
<1>10. d \in Seq(1..length) /\ Len(d) = n /\ \A i \in 1..n : d[i] = a + i
  BY <1>1, <1>4, <1>7, <1>8, <1>9
<1>11. Data(k).op = "DATA" /\ Data(k).block = k % BlockMod
  BY DEF Data
<1>12. QED
  BY <1>3, <1>4, <1>5, <1>6, <1>9, <1>10, <1>11

(* What may arrive. *)
LEMMA IncomingFacts ==
  ASSUME server \in Servers, length \in Lengths, bcounter \in Nat, NEW p \in Incoming
  PROVE  /\ p.op = "DATA" =>
              /\ server.kind \in {"plain", "oack", "odd"} /\ (server.kind = "oack" => acked)
              /\ \/ \E k \in 1..Min(bcounter + 1, Blocks) : p = Data(k)
                 \/ server.kind = "odd" /\ p = Oversize
         /\ p.op \in {"OACK", "NOAK"} => server.kind \in {"oack", "noak"}
         /\ p.op = "OACK" => server.kind = "oack"
         /\ p.op = "OTHER" => server.kind = "odd"
<1>1. server.kind \in {"error", "plain", "oack", "noak", "odd"}
  BY ServerFacts
<1>2. \A q \in DataPackets : q.op = "DATA" /\ \E k \in 1..Min(bcounter + 1, Blocks) : q = Data(k)
  BY DEF DataPackets, Data
<1>3. /\ \A op : Packet(op).op = op
      /\ Oversize.op = "DATA"
  BY DEF Packet, Oversize
<1>4. asked
  BY DEF Incoming
<1>5. CASE server.kind = "error"
  <2>1. p = Packet("ERROR")
    BY <1>4, <1>5 DEF Incoming
  <2>2. QED
    BY <1>3, <2>1
<1>6. CASE server.kind = "noak"
  <2>1. p = Packet("NOAK")
    BY <1>4, <1>6 DEF Incoming
  <2>2. QED
    BY <1>3, <1>6, <2>1
<1>7. CASE server.kind = "oack"
  <2>1. p = Packet("OACK") \/ (acked /\ p \in DataPackets)
    BY <1>4, <1>7 DEF Incoming
  <2>2. QED
    BY <1>2, <1>3, <1>7, <2>1
<1>8. CASE server.kind = "plain"
  <2>1. p \in DataPackets
    BY <1>4, <1>8 DEF Incoming
  <2>2. QED
    BY <1>2, <1>8, <2>1
<1>9. CASE server.kind = "odd"
  <2>1. p \in DataPackets \/ p = Oversize \/ p = Packet("OTHER")
    BY <1>4, <1>9 DEF Incoming
  <2>2. QED
    BY <1>2, <1>3, <1>9, <2>1
<1>10. QED
  BY <1>1, <1>5, <1>6, <1>7, <1>8, <1>9
-----------------------------------------------------------------------------
(***************************************************************************)
(* The inductive invariant.                                                *)
(***************************************************************************)
LEMMA InitIInv == Init => IInv
<1> SUFFICES ASSUME Init PROVE IInv
  OBVIOUS
<1>1. server \in Servers /\ length \in Lengths
  BY DEF Init
<1>2. length \in Nat /\ DefaultSize \in Nat \ {0}
  BY <1>1, ServerFacts
<1>3. Flags /\ Ranges
  <2>1. Flags
    BY DEF Init, Flags
  <2>2. Ranges
    BY <1>2, SizesAssumption DEF Init, Ranges
  <2>3. QED
    BY <2>1, <2>2
<1>4. Sizes
  BY DEF Init, Sizes
<1>5. Phase
  BY DEF Init, Phase
<1>6. Window
  BY SizesAssumption DEF Init, Window, buf_read
<1>7. Reading
  BY DEF Init, Reading
<1>8. QED
  BY <1>3, <1>4, <1>5, <1>6, <1>7 DEF IInv

LEMMA UserAbortsKeeps == IInv /\ UserAborts => IInv'
<1> SUFFICES ASSUME IInv, UserAborts PROVE IInv'
  OBVIOUS
<1> USE DEF UserAborts, Awaiting, OnlyFill, peer, reader, result, window, port, Leave, transfer
<1>1. Flags' /\ Ranges'
  <2>1. Flags'
    BY Zenon DEF IInv, Flags
  <2>2. Ranges'
    BY SizesAssumption DEF IInv, Ranges
  <2>3. QED
    BY <2>1, <2>2
<1>2. Sizes'
  BY DEF IInv, Sizes, ServerSize
<1>3. Phase'
  BY DEF IInv, Phase, MoreToFill, buf_read
<1>4. Window'
  BY DEF IInv, Window, Received, Ended, buf_read
<1>5. Reading'
  BY DEF IInv, Reading
<1>6. QED
  BY <1>1, <1>2, <1>3, <1>4, <1>5 DEF IInv

LEMMA ResendRequestKeeps == IInv /\ ResendRequest => IInv'
<1> SUFFICES ASSUME IInv, ResendRequest PROVE IInv'
  OBVIOUS
<1> USE DEF ResendRequest, Awaiting, OnlyFill, peer, reader, result, window, port
<1>1. Flags' /\ Ranges'
  <2>1. Flags'
    BY Zenon DEF IInv, Flags
  <2>2. Ranges'
    BY SizesAssumption DEF IInv, Ranges
  <2>3. QED
    BY <2>1, <2>2
<1>2. Sizes'
  BY DEF IInv, Sizes, ServerSize
<1>3. Phase'
  BY DEF IInv, Phase, MoreToFill, buf_read
<1>4. Window'
  BY DEF IInv, Window, Received, Ended, buf_read
<1>5. Reading'
  BY DEF IInv, Reading
<1>6. QED
  BY <1>1, <1>2, <1>3, <1>4, <1>5 DEF IInv

LEMMA ResendAckKeeps == IInv /\ ResendAck => IInv'
<1> SUFFICES ASSUME IInv, ResendAck PROVE IInv'
  OBVIOUS
<1> USE DEF ResendAck, Awaiting, OnlyFill, peer, reader, result, window, port, RexmtAdvance
<1>1. Flags' /\ Ranges'
  <2>1. Flags'
    BY Zenon DEF IInv, Flags
  <2>2. Ranges'
    BY SizesAssumption DEF IInv, Ranges
  <2>3. QED
    BY <2>1, <2>2
<1>2. Sizes'
  BY DEF IInv, Sizes, ServerSize
<1>3. Phase'
  BY DEF IInv, Phase, MoreToFill, buf_read
<1>4. Window'
  BY DEF IInv, Window, Received, Ended, buf_read
<1>5. Reading'
  BY DEF IInv, Reading
<1>6. QED
  BY <1>1, <1>2, <1>3, <1>4, <1>5 DEF IInv

LEMMA TimeoutKeeps == IInv /\ Timeout => IInv'
<1> SUFFICES ASSUME IInv, Timeout PROVE IInv'
  OBVIOUS
<1> USE DEF Timeout, Awaiting, OnlyFill, peer, reader, result, window, port, RexmtAdvance, Leave
<1>1. Flags' /\ Ranges'
  <2>1. Flags'
    BY Zenon DEF IInv, Flags
  <2>2. Ranges'
    BY SizesAssumption DEF IInv, Ranges
  <2>3. QED
    BY <2>1, <2>2
<1>2. Sizes'
  BY DEF IInv, Sizes, ServerSize
<1>3. Phase'
  BY DEF IInv, Phase, MoreToFill, buf_read
<1>4. Window'
  BY DEF IInv, Window, Received, Ended, buf_read
<1>5. Reading'
  BY DEF IInv, Reading
<1>6. QED
  BY <1>1, <1>2, <1>3, <1>4, <1>5 DEF IInv

LEMMA ArrivesFacts ==
  ASSUME NEW p, Arrives(p)
  PROVE  pc = "await" /\ p \in Incoming
BY DEF Arrives, Awaiting

LEMMA ReceiveErrorKeeps == IInv /\ ReceiveError => IInv'
<1> SUFFICES ASSUME IInv, ReceiveError PROVE IInv'
  OBVIOUS
<1>0. /\ pc = "await" /\ Leave(FALSE) /\ OnlyFill
      /\ UNCHANGED <<arp, transfer, window, tp, len, port, filemax>>
  BY ArrivesFacts DEF ReceiveError
<1> USE <1>0 DEF OnlyFill, peer, reader, result, window, port, transfer, Leave
<1>1. Flags' /\ Ranges'
  <2>1. Flags'
    BY Zenon DEF IInv, Flags
  <2>2. Ranges'
    BY SizesAssumption DEF IInv, Ranges
  <2>3. QED
    BY <2>1, <2>2
<1>2. Sizes'
  BY DEF IInv, Sizes, ServerSize
<1>3. Phase'
  BY DEF IInv, Phase, MoreToFill, buf_read
<1>4. Window'
  BY DEF IInv, Window, Received, Ended, buf_read
<1>5. Reading'
  BY DEF IInv, Reading
<1>6. QED
  BY <1>1, <1>2, <1>3, <1>4, <1>5 DEF IInv

LEMMA ReceiveOtherKeeps == IInv /\ ReceiveOther => IInv'
<1> SUFFICES ASSUME IInv, ReceiveOther PROVE IInv'
  OBVIOUS
<1>0. /\ pc = "await" /\ Leave(TRUE) /\ OnlyFill
      /\ UNCHANGED <<arp, transfer, window, tp, len, port, filemax>>
      /\ server.kind = "odd"
  <2>1. PICK p \in Incoming : Arrives(p) /\ p.op = "OTHER" /\ Leave(TRUE) /\ OnlyFill
                              /\ UNCHANGED <<arp, transfer, window, tp, len, port, filemax>>
    BY DEF ReceiveOther
  <2>2. server.kind = "odd"
    BY <2>1, IncomingFacts DEF IInv, Ranges
  <2>3. QED
    BY <2>1, <2>2, ArrivesFacts
<1> USE <1>0 DEF OnlyFill, peer, reader, result, window, port, transfer, Leave
<1>1. Flags' /\ Ranges'
  <2>1. Flags'
    BY Zenon DEF IInv, Flags
  <2>2. Ranges'
    BY SizesAssumption DEF IInv, Ranges
  <2>3. QED
    BY <2>1, <2>2
<1>2. Sizes'
  BY DEF IInv, Sizes, ServerSize
<1>3. Phase'
  BY DEF IInv, Phase, MoreToFill, buf_read
<1>4. Window'
  BY DEF IInv, Window, Received, Ended, buf_read
<1>5. Reading'
  BY DEF IInv, Reading
<1>6. QED
  BY <1>1, <1>2, <1>3, <1>4, <1>5 DEF IInv

(* Nothing was accepted yet: there is nothing in the window. *)
LEMMA NothingYet ==
  ASSUME IInv, bcounter = 0, call \in {"dir", "read", "count"} \/ (call = "none" /\ opened)
  PROVE  /\ ~buf_eof /\ Received = 0
         /\ call # "count" => buf = <<>> /\ saved_filepos = 0
         /\ call = "count" => buf = <<>> /\ filemax = 0
<1>1. length \in Nat /\ packetsize \in Nat /\ buf \in Seq(1..length)
      /\ saved_filepos \in Nat /\ filemax \in -1..length /\ Len(buf) \in Nat
  BY ServerFacts DEF IInv, Ranges
<1>2. bcounter * packetsize = 0
  BY <1>1
<1>3. Received = 0 /\ ~Ended
  BY <1>1, <1>2 DEF Received, Ended, Min
<1>4. ~buf_eof
  BY <1>3 DEF IInv, Window
<1>5. call = "count" => filemax # -1
  BY DEF IInv, Phase
<1>6. call # "count" => saved_filepos + Len(buf) = 0
  BY <1>3 DEF IInv, Window, buf_read
<1>7. call = "count" => filemax + Len(buf) = 0
  BY <1>3 DEF IInv, Window, buf_read
<1>8. call # "count" => Len(buf) = 0 /\ saved_filepos = 0
  BY <1>1, <1>6
<1>9. call = "count" => Len(buf) = 0 /\ filemax = 0
  BY <1>1, <1>5, <1>7
<1>10. Len(buf) = 0 => buf = <<>>
  BY <1>1, EmptySeq
<1>11. QED
  BY <1>3, <1>4, <1>8, <1>9, <1>10

LEMMA ReceiveOackKeeps == IInv /\ ReceiveOack => IInv'
<1> SUFFICES ASSUME IInv, ReceiveOack PROVE IInv'
  OBVIOUS
<1>1. PICK p \in Incoming :
    /\ Arrives(p) /\ p.op \in {"OACK", "NOAK"}
    /\ \/ /\ prevblock # 0
          /\ UNCHANGED <<pc, abort, filled, transfer, tp, len, port, filemax>>
       \/ /\ prevblock = 0 /\ p.op = "NOAK"
          /\ tp' = "ERROR" /\ len' = "other"
          /\ Leave(FALSE)
          /\ UNCHANGED <<transfer, port, filemax>>
       \/ /\ prevblock = 0 /\ p.op = "OACK"
          /\ packetsize' = server.blksize
          /\ filemax' = IF server.tsize THEN length ELSE filemax
          /\ Acknowledge(0)
          /\ acked' = ~abort
          /\ IF abort THEN buf_eof' = TRUE /\ Leave(TRUE)
                      ELSE UNCHANGED buf_eof /\ Loop(buf_eof, buf_read, server.blksize)
          /\ UNCHANGED <<retry, prevblock, bcounter, asked>>
    /\ OnlyFill
    /\ UNCHANGED <<arp, window>>
  BY Zenon DEF ReceiveOack
<1>2. /\ pc = "await" /\ OnlyFill /\ UNCHANGED <<arp, window>>
  BY <1>1, ArrivesFacts
<1> USE <1>2 DEF OnlyFill, peer, reader, result, window
<1>3. CASE prevblock # 0 /\ UNCHANGED <<pc, abort, filled, transfer, tp, len, port, filemax>>
  <2> USE <1>3 DEF port, transfer
  <2>1. Flags'
    BY Zenon DEF IInv, Flags
  <2>2. Ranges'
    BY SizesAssumption DEF IInv, Ranges
  <2>3. Sizes'
    BY DEF IInv, Sizes, ServerSize
  <2>4. Phase'
    BY DEF IInv, Phase, MoreToFill, buf_read
  <2>5. Window'
    BY DEF IInv, Window, Received, Ended, buf_read
  <2>6. Reading'
    BY DEF IInv, Reading
  <2>7. QED
    BY <2>1, <2>2, <2>3, <2>4, <2>5, <2>6 DEF IInv
<1>4. CASE tp' = "ERROR" /\ len' = "other" /\ Leave(FALSE) /\ UNCHANGED <<transfer, port, filemax>>
  <2> USE <1>4 DEF port, transfer, Leave
  <2>1. Flags'
    BY Zenon DEF IInv, Flags
  <2>2. Ranges'
    BY SizesAssumption DEF IInv, Ranges
  <2>3. Sizes'
    BY DEF IInv, Sizes, ServerSize
  <2>4. Phase'
    BY DEF IInv, Phase, MoreToFill, buf_read
  <2>5. Window'
    BY DEF IInv, Window, Received, Ended, buf_read
  <2>6. Reading'
    BY DEF IInv, Reading
  <2>7. QED
    BY <2>1, <2>2, <2>3, <2>4, <2>5, <2>6 DEF IInv
<1>5. CASE /\ prevblock = 0 /\ p.op = "OACK"
           /\ packetsize' = server.blksize
           /\ filemax' = IF server.tsize THEN length ELSE filemax
           /\ Acknowledge(0)
           /\ acked' = ~abort
           /\ IF abort THEN buf_eof' = TRUE /\ Leave(TRUE)
                       ELSE UNCHANGED buf_eof /\ Loop(buf_eof, buf_read, server.blksize)
           /\ UNCHANGED <<retry, prevblock, bcounter, asked>>
  <2>1. server.kind = "oack" /\ bcounter = 0
    BY <1>1, <1>5, IncomingFacts DEF IInv, Ranges, Sizes
  <2>2. /\ server.blksize \in Nat \ {0} /\ length \in Nat /\ ServerSize = server.blksize
        /\ FSYS_BUFLEN \in Nat /\ server.tsize \in BOOLEAN
    BY <2>1, ServerFacts DEF IInv, Ranges, ServerSize
  <2>3. /\ packetsize' = server.blksize /\ filemax' = (IF server.tsize THEN length ELSE filemax)
        /\ block' = 0 /\ tp' \in {"ACK", "ERROR"} /\ len' = "other" /\ acked' = ~abort
        /\ UNCHANGED <<retry, prevblock, bcounter, asked>> /\ filled' = TRUE /\ abort' = abort
        /\ abort => buf_eof' = TRUE /\ pc' = "filled"
        /\ ~abort => buf_eof' = buf_eof
                     /\ pc' = IF MoreToFill(buf_eof, buf_read, server.blksize) THEN "await" ELSE "filled"
    BY <1>5 DEF Acknowledge, Leave, Loop
  <2>4. abort \in BOOLEAN /\ (abort <=> call \in {"rewind", "close"}) /\ call # "none"
        /\ call \in {"none", "dir", "count", "read", "rewind", "close"}
    BY DEF IInv, Flags, Phase, Ranges
  <2>5. call = "count" => ~server.tsize
    BY <2>1 DEF IInv, Phase
  <2>6. ASSUME ~abort PROVE ~buf_eof /\ buf = <<>> /\ Received = 0 /\ acked'
    BY <2>1, <2>3, <2>4, <2>6, NothingYet
  <2>7. Flags'
    BY <2>3, Zenon DEF IInv, Flags
  <2>8. Ranges'
    BY <2>2, <2>3, SizesAssumption, SMTT(30) DEF IInv, Ranges
  <2>9. Sizes'
    BY <2>1, <2>2, <2>3 DEF IInv, Sizes, ServerSize
  <2>10. Phase'
    BY <2>1, <2>2, <2>3, <2>4, <2>5, <2>6 DEF IInv, Phase, MoreToFill, buf_read
  <2>11. Window'
    <3>1. ~abort => Received' = 0
      <4>1. bcounter' * packetsize' = 0
        BY <2>1, <2>2, <2>3
      <4>2. QED
        BY <2>2, <4>1 DEF Received, Min
    <3>2. buf' = buf /\ saved_filepos' = saved_filepos /\ call' = call /\ opened' = opened
      BY <1>2
    <3>3. abort => call \in {"rewind", "close"}
      BY <2>4
    <3>4. CASE abort
      BY <2>4, <3>2, <3>4 DEF IInv, Window, buf_read
    <3>5. CASE ~abort
      BY <2>3, <2>4, <2>5, <2>6, <3>1, <3>2, <3>5 DEF IInv, Window, buf_read
    <3>6. QED
      BY <3>4, <3>5
  <2>12. Reading'
    BY <2>3 DEF IInv, Reading
  <2>13. QED
    BY <2>7, <2>8, <2>9, <2>10, <2>11, <2>12 DEF IInv
<1>6. QED
  BY <1>1, <1>3, <1>4, <1>5, Zenon
(* A block that is accepted is the next one: its number says so, although  *)
(* numbers have 16 bits, and whatever has been under way for how long.     *)
LEMMA NewBlock ==
  ASSUME IInv, NEW p \in Incoming, p.op = "DATA", Len(p.data) <= packetsize,
         NEW b, b = IF InOrder(p.block) THEN p.block ELSE prevblock,
         b = (prevblock + 1) % BlockMod
  PROVE  /\ b = bcounter + 1 /\ b \in 0..(BlockMod - 1) /\ b <= Blocks /\ p = Data(b)
         /\ packetsize = ServerSize
         /\ server.kind \in {"plain", "odd", "oack"} /\ (server.kind = "oack" => acked)
<1>1. /\ prevblock \in 0..(BlockMod - 1) /\ BlockMod \in Nat \ {0, 1} /\ bcounter = prevblock
      /\ bcounter \in Nat /\ server \in Servers /\ length \in Lengths
  BY SizesAssumption DEF IInv, Ranges, Sizes
<1>2. b # prevblock
  <2>1. CASE prevblock = BlockMod - 1
    <3>1. (prevblock + 1) % BlockMod = 0
      BY <1>1, <2>1
    <3>2. QED
      BY <1>1, <2>1, <3>1
  <2>2. CASE prevblock # BlockMod - 1
    <3>1. (prevblock + 1) % BlockMod = prevblock + 1
      BY <1>1, <2>2
    <3>2. QED
      BY <1>1, <3>1
  <2>3. QED
    BY <2>1, <2>2
<1>3. InOrder(p.block) /\ b = p.block
  BY <1>2
<1>4. b = prevblock + 1
  BY <1>1, <1>2, <1>3 DEF InOrder
<1>5. b \in 0..(BlockMod - 1)
  BY <1>1
<1>6. /\ server.kind \in {"plain", "oack", "odd"} /\ (server.kind = "oack" => acked)
      /\ \/ \E k \in 1..Min(bcounter + 1, Blocks) : p = Data(k)
         \/ server.kind = "odd" /\ p = Oversize
  BY <1>1, IncomingFacts
<1>7. packetsize = ServerSize
  BY <1>6 DEF IInv, Sizes, ServerSize
<1>8. p # Oversize \/ server.kind # "odd"
  <2> SUFFICES ASSUME p = Oversize, server.kind = "odd" PROVE FALSE
    OBVIOUS
  <2>1. packetsize = DefaultSize /\ DefaultSize \in Nat
    BY <1>7, SizesAssumption DEF ServerSize
  <2>2. p.data = [i \in 1..(DefaultSize + 1) |-> i]
    BY DEF Oversize
  <2>3. Len(p.data) = DefaultSize + 1
    BY <2>1, <2>2
  <2>4. QED
    BY <2>1, <2>3
<1>9. PICK k \in 1..Min(bcounter + 1, Blocks) : p = Data(k)
  BY <1>6, <1>8
<1>10. Blocks \in Nat
  BY <1>1, ServerFacts
<1>11. k \in Nat \ {0} /\ k <= bcounter + 1 /\ k <= Blocks
  BY <1>1, <1>10 DEF Min
<1>12. p.block = k % BlockMod
  BY <1>9 DEF Data
<1>13. k % BlockMod <= k
  BY <1>11, BlockNumber
<1>14. k = bcounter + 1
  <2>1. PICK m : m = k % BlockMod
    BY Zenon
  <2>2. m <= k /\ m = bcounter + 1
    BY <1>1, <1>3, <1>4, <1>12, <1>13, <2>1
  <2>3. QED
    BY <1>1, <1>11, <2>2
<1>15. QED
  BY <1>1, <1>4, <1>5, <1>6, <1>7, <1>9, <1>11, <1>14

(* Any data that is taken notice of has a block number. *)
LEMMA DataNumber ==
  ASSUME IInv, NEW p \in Incoming, p.op = "DATA"
  PROVE  p.block \in 0..(BlockMod - 1)
<1>1. server \in Servers /\ length \in Lengths /\ bcounter \in Nat /\ BlockMod \in Nat \ {0, 1}
  BY SizesAssumption DEF IInv, Ranges
<1>2. CASE p = Oversize
  BY <1>1, <1>2 DEF Oversize
<1>3. CASE \E k \in 1..Min(bcounter + 1, Blocks) : p = Data(k)
  <2>1. PICK k \in 1..Min(bcounter + 1, Blocks) : p = Data(k)
    BY <1>3
  <2>2. Blocks \in Nat
    BY <1>1, ServerFacts
  <2>3. k \in Nat
    BY <1>1, <2>2 DEF Min
  <2>4. p.block = k % BlockMod
    BY <2>1 DEF Data
  <2>5. QED
    BY <2>3, <2>4, BlockNumber
<1>4. QED
  BY <1>1, <1>2, <1>3, IncomingFacts

LEMMA ReceiveDataKeeps == IInv /\ ReceiveData => IInv'
<1> SUFFICES ASSUME IInv, ReceiveData PROVE IInv'
  OBVIOUS
<1>1. PICK p \in Incoming :
    /\ Arrives(p) /\ p.op = "DATA"
    /\ \/ /\ Len(p.data) > packetsize
          /\ len' = "other"
          /\ UNCHANGED <<pc, abort, filled, transfer, window, tp>>
       \/ /\ Len(p.data) <= packetsize
          /\ LET b == IF InOrder(p.block) THEN p.block ELSE prevblock
                 new == b = (prevblock + 1) % BlockMod
             IN /\ Acknowledge(b)
                /\ \/ /\ abort
                      /\ buf_eof' = TRUE /\ Leave(TRUE)
                      /\ UNCHANGED <<retry, prevblock, bcounter, window>>
                   \/ /\ ~abort /\ ~new
                      /\ Loop(buf_eof, buf_read, packetsize)
                      /\ UNCHANGED <<retry, prevblock, bcounter, buf_eof, window>>
                   \/ /\ ~abort /\ new
                      /\ prevblock' = b /\ retry' = 0 /\ bcounter' = bcounter + 1
                      /\ buf' = buf \o p.data
                      /\ buf_eof' = (Len(p.data) < packetsize)
                      /\ Loop(buf_eof', Len(buf'), packetsize)
                      /\ UNCHANGED saved_filepos
                /\ UNCHANGED packetsize
    /\ OnlyFill
    /\ UNCHANGED <<arp, port, filemax>>
  BY Zenon DEF ReceiveData
<1>2. /\ pc = "await" /\ OnlyFill /\ UNCHANGED <<arp, port, filemax>>
  BY <1>1, ArrivesFacts
<1>3. PICK b : b = IF InOrder(p.block) THEN p.block ELSE prevblock
  BY Zenon
<1>4. b \in 0..(BlockMod - 1)
  BY <1>1, <1>3, DataNumber DEF IInv, Ranges
<1> USE <1>2 DEF OnlyFill, peer, reader, result, port
<1>5. CASE len' = "other" /\ UNCHANGED <<pc, abort, filled, transfer, window, tp>>
  <2> USE <1>5 DEF transfer, window
  <2>1. Flags'
    BY Zenon DEF IInv, Flags
  <2>2. Ranges'
    BY SizesAssumption DEF IInv, Ranges
  <2>3. Sizes'
    BY DEF IInv, Sizes, ServerSize
  <2>4. Phase'
    BY DEF IInv, Phase, MoreToFill, buf_read
  <2>5. Window'
    BY DEF IInv, Window, Received, Ended, buf_read
  <2>6. Reading'
    BY DEF IInv, Reading
  <2>7. QED
    BY <2>1, <2>2, <2>3, <2>4, <2>5, <2>6 DEF IInv
<1>6. CASE /\ Acknowledge(b) /\ UNCHANGED packetsize
           /\ abort /\ buf_eof' = TRUE /\ Leave(TRUE)
           /\ UNCHANGED <<retry, prevblock, bcounter, window>>
  <2>1. /\ block' = b /\ tp' \in {"ACK", "ERROR"} /\ len' = "other"
    BY <1>6 DEF Acknowledge
  <2>2. call \in {"rewind", "close"}
    BY <1>6 DEF IInv, Phase
  <2> USE <1>6 DEF window, Leave
  <2>3. Flags'
    BY Zenon DEF IInv, Flags
  <2>4. Ranges'
    BY <1>4, <2>1, SizesAssumption DEF IInv, Ranges
  <2>5. Sizes'
    BY DEF IInv, Sizes, ServerSize
  <2>6. Phase'
    BY <2>2 DEF IInv, Phase, buf_read
  <2>7. Window'
    BY <2>2 DEF IInv, Window, buf_read
  <2>8. Reading'
    BY DEF IInv, Reading
  <2>9. QED
    BY <2>3, <2>4, <2>5, <2>6, <2>7, <2>8 DEF IInv
<1>7. CASE /\ Acknowledge(b) /\ UNCHANGED packetsize
           /\ Loop(buf_eof, buf_read, packetsize)
           /\ UNCHANGED <<retry, prevblock, bcounter, buf_eof, window>>
  <2>1. /\ block' = b /\ tp' \in {"ACK", "ERROR"} /\ len' = "other"
    BY <1>7 DEF Acknowledge
  <2>2. pc' = "await" /\ filled' = TRUE /\ abort' = abort
    BY <1>7 DEF Loop, IInv, Phase
  <2> USE <1>7, <2>2 DEF window
  <2>3. Flags'
    BY Zenon DEF IInv, Flags
  <2>4. Ranges'
    BY <1>4, <2>1, SizesAssumption DEF IInv, Ranges
  <2>5. Sizes'
    BY DEF IInv, Sizes, ServerSize
  <2>6. Phase'
    BY DEF IInv, Phase, MoreToFill, buf_read
  <2>7. Window'
    BY DEF IInv, Window, Received, Ended, buf_read
  <2>8. Reading'
    BY DEF IInv, Reading
  <2>9. QED
    BY <2>3, <2>4, <2>5, <2>6, <2>7, <2>8 DEF IInv
<1>8. CASE /\ Len(p.data) <= packetsize
           /\ Acknowledge(b) /\ UNCHANGED packetsize
           /\ ~abort /\ b = (prevblock + 1) % BlockMod
           /\ prevblock' = b /\ retry' = 0 /\ bcounter' = bcounter + 1
           /\ buf' = buf \o p.data
           /\ buf_eof' = (Len(p.data) < packetsize)
           /\ Loop(buf_eof', Len(buf'), packetsize)
           /\ UNCHANGED saved_filepos
  <2>1. /\ block' = b /\ tp' \in {"ACK", "ERROR"} /\ len' = "other"
    BY <1>8 DEF Acknowledge
  <2>2. /\ b = bcounter + 1 /\ b <= Blocks /\ p = Data(b) /\ packetsize = ServerSize
        /\ server.kind \in {"plain", "odd", "oack"} /\ (server.kind = "oack" => acked)
    BY <1>1, <1>3, <1>8, NewBlock
  <2>3. /\ server \in Servers /\ length \in Lengths /\ length \in Nat /\ bcounter \in Nat
        /\ packetsize \in Nat \ {0} /\ FSYS_BUFLEN \in Nat
        /\ buf \in Seq(1..length) /\ Len(buf) \in Nat /\ saved_filepos \in Nat /\ filemax \in Int
    BY ServerFacts DEF IInv, Ranges
  <2>4. PICK d, a, z, n : d = p.data /\ a = bcounter * packetsize /\ z = (bcounter + 1) * packetsize
                          /\ n = Len(p.data)
    BY Zenon
  <2>5. /\ a \in Nat /\ a <= length /\ z \in Nat /\ z = a + packetsize
        /\ d \in Seq(1..length) /\ n = Min(z, length) - a /\ n = Len(d)
        /\ \A j \in 1..n : d[j] = a + j
    <3>1. b \in Nat \ {0} /\ b - 1 = bcounter
      BY <2>2, <2>3
    <3>2. /\ (b - 1) * ServerSize \in Nat /\ (b - 1) * ServerSize <= length
          /\ b * ServerSize \in Nat /\ b * ServerSize = (b - 1) * ServerSize + ServerSize
          /\ Data(b).data \in Seq(1..length)
          /\ Len(Data(b).data) = Min(b * ServerSize, length) - (b - 1) * ServerSize
          /\ \A i \in 1..Len(Data(b).data) : Data(b).data[i] = (b - 1) * ServerSize + i
      BY <2>2, <2>3, <3>1, DataFacts
    <3>3. (b - 1) * ServerSize = a /\ b * ServerSize = z
      BY <2>2, <2>4, <3>1, Zenon
    <3>4. d = Data(b).data /\ n = Len(d)
      BY <2>2, <2>4, Zenon
    <3>5. a \in Nat /\ a <= length /\ z \in Nat /\ z = a + packetsize
      BY <2>2, <3>2, <3>3
    <3>6. n = Min(z, length) - a /\ d \in Seq(1..length) /\ \A j \in 1..n : d[j] = a + j
      BY <3>2, <3>3, <3>4, Zenon
    <3>7. QED
      BY <3>4, <3>5, <3>6
  <2>6. n \in Nat /\ a + n = Min(z, length) /\ (n < packetsize <=> z > length)
    BY <2>3, <2>5 DEF Min
  <2>7. Received = a
    BY <2>3, <2>4, <2>5 DEF Received, Min
  <2>8. Received' = a + n /\ (Ended' <=> z > length)
    <3>1. bcounter' * packetsize' = z /\ length' = length
      BY <1>8, <2>4
    <3>2. QED
      BY <2>6, <3>1 DEF Received, Ended
  <2>9. /\ buf' \in Seq(1..length) /\ Len(buf') = Len(buf) + n
        /\ \A j \in 1..Len(buf) : buf'[j] = buf[j]
        /\ \A j \in 1..n : buf'[Len(buf) + j] = d[j]
    <3>1. buf' = buf \o d
      BY <1>8, <2>4
    <3>2. /\ buf \o d \in Seq(1..length) /\ Len(buf \o d) = Len(buf) + Len(d)
          /\ \A j \in 1..Len(buf) + Len(d) : (buf \o d)[j] = IF j <= Len(buf) THEN buf[j] ELSE d[j - Len(buf)]
      BY <2>3, <2>5, ConcatProperties
    <3>3. Len(d) = n /\ n \in Nat /\ Len(buf) \in Nat
      BY <2>3, <2>5, <2>6
    <3>4. \A j \in 1..Len(buf) : buf'[j] = buf[j]
      BY <3>1, <3>2, <3>3
    <3>5. ASSUME NEW j \in 1..n PROVE buf'[Len(buf) + j] = d[j]
      <4>1. Len(buf) + j \in 1..Len(buf) + Len(d) /\ ~(Len(buf) + j <= Len(buf)) /\ Len(buf) + j - Len(buf) = j
        BY <3>3
      <4>2. QED
        BY <3>1, <3>2, <4>1
    <3>6. QED
      BY <3>1, <3>2, <3>3, <3>4, <3>5
  <2>10. buf_eof' = (n < packetsize) /\ buf_eof' \in BOOLEAN
    BY <1>8, <2>4
  <2>11. /\ pc' = (IF MoreToFill(buf_eof', Len(buf'), packetsize) THEN "await" ELSE "filled")
         /\ filled' = TRUE /\ abort' = abort
    BY <1>8 DEF Loop
  <2>12. call \in {"dir", "count", "read"} /\ MoreToFill(buf_eof, buf_read, packetsize)
    BY <1>8 DEF IInv, Phase, Ranges
  <2>13. Len(buf) + packetsize <= FSYS_BUFLEN
    BY <2>12 DEF MoreToFill, buf_read
  <2>14. Flags'
    BY <2>10, <2>11, Zenon DEF IInv, Flags
  <2>15. Ranges'
    BY <1>4, <1>8, <2>1, <2>3, <2>9, <2>11, SizesAssumption DEF IInv, Ranges
  <2>16. Sizes'
    BY <1>8, <2>2, <2>3 DEF IInv, Sizes, ServerSize
  <2>17. Phase'
    <3>1. pc' = "await" => MoreToFill(buf_eof', Len(buf'), packetsize')
      BY <1>8, <2>11
    <3>2. bcounter' # 0
      BY <1>8, <2>3
    <3>3. pc' \in {"await", "filled"}
      BY <2>11
    <3>4. QED
      BY <1>8, <2>11, <2>12, <3>1, <3>2, <3>3 DEF IInv, Phase, buf_read
  <2>18. Window'
    <3>1. Len(buf') <= FSYS_BUFLEN
      BY <1>8, <2>3, <2>4, <2>6, <2>9, <2>13
    <3>2. buf_eof' => Ended'
      BY <2>6, <2>8, <2>10
    <3>3. ASSUME call # "count" PROVE /\ saved_filepos + Len(buf') = Received'
                                      /\ \A j \in 1..Len(buf') : buf'[j] = saved_filepos + j
      <4>1. saved_filepos + Len(buf) = a /\ \A j \in 1..Len(buf) : buf[j] = saved_filepos + j
        BY <2>7, <2>12, <3>3 DEF IInv, Window, buf_read
      <4>2. ASSUME NEW j \in 1..Len(buf') PROVE buf'[j] = saved_filepos + j
        <5>1. CASE j <= Len(buf)
          BY <2>3, <2>9, <4>1, <5>1
        <5>2. CASE j > Len(buf)
          <6>1. PICK m \in 1..n : j = Len(buf) + m
            <7>1. j - Len(buf) \in 1..n /\ j = Len(buf) + (j - Len(buf))
              BY <2>3, <2>6, <2>9, <5>2
            <7>2. QED
              BY <7>1
          <6>2. buf'[j] = a + m
            BY <2>5, <2>9, <6>1
          <6>3. QED
            <7>1. a \in Nat /\ n \in Nat /\ Len(buf) \in Nat /\ saved_filepos \in Nat
              BY <2>3, <2>5, <2>6
            <7>2. QED
              BY <4>1, <6>1, <6>2, <7>1
        <5>3. QED
          BY <2>3, <2>6, <2>9, <5>1, <5>2
      <4>3. saved_filepos + Len(buf') = Received'
        <5>1. a \in Nat /\ n \in Nat /\ Len(buf) \in Nat /\ saved_filepos \in Nat
          BY <2>3, <2>5, <2>6
        <5>2. Received' = a + n /\ Len(buf') = Len(buf) + n
          BY <2>8, <2>9
        <5>3. PICK l : l = Len(buf)
          BY Zenon
        <5>4. l \in Nat /\ saved_filepos + l = a
          BY <4>1, <5>1, <5>3
        <5>5. saved_filepos + (l + n) = a + n
          BY <5>1, <5>4
        <5>6. QED
          BY <5>2, <5>3, <5>5, Zenon
      <4>4. QED
        BY <4>2, <4>3
    <3>4. ASSUME call = "count" PROVE filemax + Len(buf') = Received'
      <4>1. filemax + Len(buf) = a
        BY <2>7, <3>4 DEF IInv, Window, buf_read
      <4>2. a \in Nat /\ n \in Nat /\ Len(buf) \in Nat /\ filemax \in Int
        BY <2>3, <2>5, <2>6
      <4>3. Received' = a + n /\ Len(buf') = Len(buf) + n
        BY <2>8, <2>9
      <4>4. QED
        BY <4>1, <4>2, <4>3
    <3>5. call' = call /\ saved_filepos' = saved_filepos /\ filemax' = filemax
      BY <1>8
    <3>6. QED
      BY <2>12, <3>1, <3>2, <3>3, <3>4, <3>5 DEF Window, buf_read
  <2>19. Reading'
    BY <1>8 DEF IInv, Reading
  <2>20. QED
    BY <2>14, <2>15, <2>16, <2>17, <2>18, <2>19 DEF IInv
<1>9. QED
  BY <1>1, <1>3, <1>5, <1>6, <1>7, <1>8, Zenon
-----------------------------------------------------------------------------
(* The steps of a call *)

(* A request begins the transfer anew. *)
LEMMA RequestFacts ==
  ASSUME IInv, NEW ok \in BOOLEAN, send_rrq(ok), UNCHANGED peer
  PROVE  /\ retry' = 0 /\ block' = 0 /\ prevblock' = 0 /\ bcounter' = 0
         /\ packetsize' = DefaultSize /\ DefaultSize \in Nat \ {0} /\ FSYS_BUFLEN \in Nat
         /\ buf_eof' = FALSE /\ buf' = <<>> /\ saved_filepos' = 0
         /\ arp' \in BOOLEAN /\ asked' \in BOOLEAN /\ acked' = FALSE
         /\ length' = length /\ server' = server /\ length \in Nat
         /\ Received' = 0 /\ Sizes'
<1>1. DefaultSize \in Nat \ {0} /\ FSYS_BUFLEN \in Nat /\ length \in Nat
  BY ServerFacts DEF IInv, Ranges
<1>2. /\ retry' = 0 /\ block' = 0 /\ prevblock' = 0 /\ bcounter' = 0
      /\ packetsize' = DefaultSize
      /\ buf_eof' = FALSE /\ buf' = <<>> /\ saved_filepos' = 0
      /\ arp' = ok /\ asked' = ok /\ acked' = FALSE
      /\ length' = length /\ server' = server
  BY DEF send_rrq, peer
<1>3. bcounter' * packetsize' = 0
  BY <1>1, <1>2
<1>4. Received' = 0
  BY <1>1, <1>2, <1>3 DEF Received, Min
<1>5. Sizes'
  BY <1>1, <1>2 DEF Sizes
<1>6. QED
  BY <1>1, <1>2, <1>4, <1>5

(* Opening a file whose size is not known, or is. *)
LEMMA OpenKeeps ==
  ASSUME IInv, OpenRequest, UNCHANGED peer, opened' = FALSE, filemax' \in {-1, length},
         UNCHANGED <<size, start, got>>, filepos' \in 0..length, calls' \in 0..MaxCalls
  PROVE  IInv'
<1>1. /\ tp' = "RRQ" /\ len' = "rrq" /\ call' = "dir" /\ answer' = answer
  BY DEF OpenRequest
<1>2. PICK ok \in BOOLEAN : /\ send_rrq(ok)
                            /\ IF ok THEN buf_fill(FALSE, FALSE, 0, DefaultSize) ELSE Leave(FALSE)
  BY DEF OpenRequest
<1>3. /\ retry' = 0 /\ block' = 0 /\ prevblock' = 0 /\ bcounter' = 0
      /\ packetsize' = DefaultSize /\ DefaultSize \in Nat \ {0} /\ FSYS_BUFLEN \in Nat
      /\ buf_eof' = FALSE /\ buf' = <<>> /\ saved_filepos' = 0
      /\ arp' \in BOOLEAN /\ asked' \in BOOLEAN /\ acked' = FALSE
      /\ length' = length /\ server' = server /\ length \in Nat
      /\ Received' = 0 /\ Sizes'
  BY <1>2, RequestFacts
<1>4. MoreToFill(FALSE, 0, DefaultSize)
  BY <1>3, SizesAssumption DEF MoreToFill
<1>5. \/ pc' = "await" /\ filled' = TRUE /\ abort' = FALSE
      \/ pc' = "filled" /\ filled' = FALSE /\ abort' = abort
  BY <1>2, <1>4 DEF buf_fill, Leave
<1>6. Flags'
  BY <1>3, <1>5, Zenon DEF IInv, Flags
<1>7. Ranges'
  BY <1>1, <1>3, <1>5, SizesAssumption DEF IInv, Ranges
<1>8. Phase'
  BY <1>1, <1>3, <1>4, <1>5 DEF IInv, Phase, buf_read
<1>9. Window'
  BY <1>1, <1>3 DEF IInv, Window, buf_read
<1>10. Reading'
  BY <1>1 DEF IInv, Reading
<1>11. QED
  BY <1>3, <1>6, <1>7, <1>8, <1>9, <1>10 DEF IInv

LEMMA tftp_dirKeeps == IInv /\ tftp_dir => IInv'
<1> SUFFICES ASSUME IInv, tftp_dir PROVE IInv'
  OBVIOUS
<1>1. /\ OpenRequest /\ UNCHANGED peer /\ opened' = FALSE /\ filemax' = -1
      /\ UNCHANGED <<size, start, got>> /\ filepos' = 0
      /\ calls < MaxCalls /\ calls' = calls + 1
  BY DEF tftp_dir
<1>2. calls' \in 0..MaxCalls /\ 0 \in 0..length
  <2>1. calls \in 0..MaxCalls /\ MaxCalls \in Nat /\ length \in Nat
    BY SizesAssumption DEF IInv, Ranges
  <2>2. QED
    BY <1>1, <2>1
<1>3. QED
  BY <1>1, <1>2, OpenKeeps

LEMMA DirFilledKeeps == IInv /\ DirFilled => IInv'
<1> SUFFICES ASSUME IInv, DirFilled PROVE IInv'
  OBVIOUS
<1>1. /\ pc = "filled" /\ call = "dir"
      /\ UNCHANGED <<peer, arp, port, calls, transfer, saved_filepos, tp, len, reader>>
  BY DEF DirFilled, Filled, OnlyReturn
<1>2. /\ length \in Nat /\ buf \in Seq(1..length) /\ Len(buf) \in Nat /\ FSYS_BUFLEN \in Nat
      /\ bcounter \in Nat /\ packetsize \in Nat
  BY ServerFacts DEF IInv, Ranges
<1>3. /\ ~opened /\ filemax \in {-1, length} /\ saved_filepos = 0
      /\ (filled /\ server.kind = "oack" => bcounter # 0 \/ acked)
      /\ saved_filepos + Len(buf) = Received /\ \A i \in 1..Len(buf) : buf[i] = saved_filepos + i
      /\ buf_eof => Ended
  BY <1>1 DEF IInv, Phase, Window, buf_read
<1> USE <1>1 DEF peer, port, transfer, reader
<1>4. CASE \/ ~filled /\ Finish(Failed) /\ UNCHANGED <<opened, filemax, buf>>
           \/ /\ filled /\ filemax # -1
              /\ opened' = TRUE /\ Finish(Done(<<>>))
              /\ UNCHANGED <<filemax, buf>>
  <2>1. /\ call' = "none" /\ pc' = "idle" /\ abort' = abort /\ filled' = filled
        /\ filemax' = filemax /\ buf' = buf /\ opened' \in BOOLEAN
        /\ opened' => filemax = length
    <3>1. opened \in BOOLEAN
      BY DEF IInv, Flags
    <3>2. /\ call' = "none" /\ pc' = "idle" /\ abort' = abort /\ filled' = filled
          /\ filemax' = filemax /\ buf' = buf
          /\ opened' = opened \/ (opened' = TRUE /\ filemax # -1)
      BY <1>4, Zenon DEF Finish
    <3>3. opened' \in BOOLEAN
      BY <3>1, <3>2, Zenon
    <3>4. opened' => filemax = length
      BY <1>3, <3>2
    <3>5. QED
      BY <3>2, <3>3, <3>4
  <2>2. Flags'
    BY <2>1, Zenon DEF IInv, Flags
  <2>3. Ranges'
    BY <2>1, SizesAssumption DEF IInv, Ranges
  <2>4. Sizes'
    BY <2>1 DEF IInv, Sizes, ServerSize
  <2>5. Phase'
    BY <2>1 DEF Phase
  <2>6. Window'
    <3>1. Received' = Received /\ (Ended' <=> Ended) /\ Len(buf') = Len(buf) /\ Len(buf) <= FSYS_BUFLEN
      BY <2>1 DEF Received, Ended, IInv, Window, buf_read
    <3>2. QED
      BY <1>3, <2>1, <3>1 DEF Window, buf_read
  <2>7. Reading'
    BY <2>1 DEF Reading
  <2>8. QED
    BY <2>2, <2>3, <2>4, <2>5, <2>6, <2>7 DEF IInv
<1>5. CASE /\ filled /\ filemax = -1
           /\ call' = "count"
           /\ filemax' = buf_read /\ buf' = <<>>
           /\ buf_fill(FALSE, buf_eof, 0, packetsize)
           /\ UNCHANGED <<opened, answer>>
  <2>1. /\ abort' = FALSE /\ filled' = TRUE
        /\ pc' = IF MoreToFill(buf_eof, 0, packetsize) THEN "await" ELSE "filled"
    BY <1>5 DEF buf_fill
  <2>2. Len(buf) = Received /\ Received \in 0..length
    <3>1. bcounter * packetsize \in Nat
      BY <1>2
    <3>2. Received \in 0..length
      BY <1>2, <3>1 DEF Received, Min
    <3>3. QED
      BY <1>2, <1>3, <3>2
  <2>3. Len(buf') = 0 /\ filemax' = Len(buf)
    BY <1>5 DEF buf_read
  <2>4. Flags'
    BY <1>5, <2>1, Zenon DEF IInv, Flags
  <2>5. Ranges'
    BY <1>2, <1>5, <2>1, <2>2, <2>3, SizesAssumption DEF IInv, Ranges
  <2>6. ~(server.kind = "oack" /\ server.tsize)
    BY <1>2, <1>3, <1>5 DEF IInv, Sizes
  <2>7. Sizes'
    BY <1>5, <2>6 DEF IInv, Sizes, ServerSize
  <2>8. Phase'
    BY <1>2, <1>3, <1>5, <2>1, <2>3, <2>6 DEF Phase, MoreToFill, buf_read
  <2>9. Window'
    <3>1. Received' = Received /\ Ended' = Ended
      BY DEF Received, Ended
    <3>2. QED
      BY <1>2, <1>3, <1>5, <2>2, <2>3, <3>1 DEF Window, buf_read
  <2>10. Reading'
    BY <1>5 DEF Reading
  <2>11. QED
    BY <2>4, <2>5, <2>7, <2>8, <2>9, <2>10 DEF IInv
<1>6. QED
  BY <1>4, <1>5 DEF DirFilled

LEMMA CountFilledKeeps == IInv /\ CountFilled => IInv'
<1> SUFFICES ASSUME IInv, CountFilled PROVE IInv'
  OBVIOUS
<1>1. pc = "filled" /\ call = "count" /\ UNCHANGED <<peer, calls, reader, opened>>
  BY DEF CountFilled, Filled
<1>2. /\ length \in Nat /\ buf \in Seq(1..length) /\ Len(buf) \in Nat /\ FSYS_BUFLEN \in Nat
      /\ bcounter \in Nat /\ packetsize \in Nat /\ filemax \in -1..length
  BY ServerFacts DEF IInv, Ranges
<1>3. /\ ~opened /\ filemax # -1 /\ ~(server.kind = "oack" /\ server.tsize)
      /\ filemax + Len(buf) = Received /\ (buf_eof => Ended)
  BY <1>1 DEF IInv, Phase, Window, buf_read
<1>4. Received \in 0..length /\ (Ended => Received = length)
  <2>1. bcounter * packetsize \in Nat
    BY <1>2
  <2>2. QED
    BY <1>2, <2>1 DEF Received, Ended, Min
<1>5. CASE /\ ~filled /\ Finish(Failed)
           /\ UNCHANGED <<arp, transfer, window, tp, len, port, filemax>>
  <2> USE <1>1, <1>5 DEF peer, port, transfer, window, reader
  <2>1. /\ call' = "none" /\ pc' = "idle" /\ abort' = abort /\ filled' = filled
    BY DEF Finish
  <2>2. Flags'
    BY <2>1, Zenon DEF IInv, Flags
  <2>3. Ranges'
    BY <2>1, SizesAssumption DEF IInv, Ranges
  <2>4. Sizes'
    BY <2>1 DEF IInv, Sizes, ServerSize
  <2>5. Phase'
    BY <1>3, <2>1 DEF IInv, Phase
  <2>6. Window'
    BY <1>3, <2>1 DEF IInv, Window, buf_read
  <2>7. Reading'
    BY <2>1 DEF Reading
  <2>8. QED
    BY <2>2, <2>3, <2>4, <2>5, <2>6, <2>7 DEF IInv
<1>6. CASE /\ filemax' = filemax + buf_read /\ ~buf_eof
           /\ Discard /\ buf_fill(FALSE, buf_eof, Len(buf'), packetsize)
           /\ UNCHANGED <<arp, transfer, saved_filepos, tp, len, port, call, answer>>
  <2>1. /\ buf' = <<>> /\ Len(buf') = 0 /\ abort' = FALSE /\ filled' = TRUE
        /\ pc' = IF MoreToFill(buf_eof, Len(buf'), packetsize) THEN "await" ELSE "filled"
        /\ filemax' = filemax + Len(buf)
    BY <1>6 DEF buf_fill, Discard, buf_read
  <2> USE <1>1, <1>6 DEF peer, port, transfer, reader
  <2>2. Flags'
    BY <2>1, Zenon DEF IInv, Flags
  <2>3. Ranges'
    BY <1>2, <1>3, <1>4, <2>1, SizesAssumption DEF IInv, Ranges
  <2>4. Sizes'
    BY <1>3, <2>1 DEF IInv, Sizes, ServerSize
  <2>5. Phase'
    BY <1>2, <1>3, <1>4, <2>1 DEF Phase, MoreToFill, buf_read
  <2>6. Window'
    <3>1. Received' = Received /\ Ended' = Ended
      BY DEF Received, Ended
    <3>2. QED
      BY <1>2, <1>3, <1>4, <2>1, <3>1 DEF Window, buf_read
  <2>7. Reading'
    BY <2>1 DEF Reading
  <2>8. QED
    BY <2>2, <2>3, <2>4, <2>5, <2>6, <2>7 DEF IInv
<1>7. CASE filemax' = filemax + buf_read /\ buf_eof /\ OpenRequest
  <2>1. filemax' = length
    BY <1>3, <1>4, <1>7 DEF buf_read
  <2>2. filepos' \in 0..length /\ calls' \in 0..MaxCalls
    BY <1>1 DEF IInv, Ranges, reader
  <2>3. opened' = FALSE
    BY <1>1, <1>3 DEF IInv, Flags
  <2>4. UNCHANGED peer /\ UNCHANGED <<size, start, got>>
    BY <1>1 DEF reader
  <2>5. QED
    BY <1>7, <2>1, <2>2, <2>3, <2>4, OpenKeeps
<1>8. QED
  BY <1>5, <1>6, <1>7 DEF CountFilled
LEMMA SeekKeeps == IInv /\ Seek => IInv'
<1> SUFFICES ASSUME IInv, Seek PROVE IInv'
  OBVIOUS
<1>1. /\ call = "none" /\ opened /\ calls < MaxCalls /\ filepos' \in 0..filemax /\ calls' = calls + 1
      /\ UNCHANGED <<peer, arp, call, pc, abort, filled, transfer, window, tp, len, port,
                     size, start, got, filemax, result>>
  BY DEF Seek
<1>2. filemax = length
  BY <1>1 DEF IInv, Phase
<1> USE <1>1 DEF peer, port, transfer, window, result
<1>3. Flags'
  BY Zenon DEF IInv, Flags
<1>4. Ranges'
  BY <1>2, SizesAssumption DEF IInv, Ranges
<1>5. Sizes'
  BY DEF IInv, Sizes, ServerSize
<1>6. Phase'
  BY DEF IInv, Phase, MoreToFill, buf_read
<1>7. Window'
  BY DEF IInv, Window, Received, Ended, buf_read
<1>8. Reading'
  BY DEF Reading
<1>9. QED
  BY <1>3, <1>4, <1>5, <1>6, <1>7, <1>8 DEF IInv

LEMMA tftp_readKeeps == IInv /\ tftp_read => IInv'
<1> SUFFICES ASSUME IInv, tftp_read PROVE IInv'
  OBVIOUS
<1>1. /\ call = "none" /\ opened /\ calls < MaxCalls /\ calls' = calls + 1
      /\ size' \in 1..MaxRead /\ size' <= filemax - filepos
      /\ start' = filepos /\ got' = <<>>
      /\ UNCHANGED <<peer, arp, transfer, saved_filepos, tp, len, port, filepos, filemax,
                     result>>
  BY DEF tftp_read
<1>2. /\ filemax = length /\ length \in Nat /\ filepos \in 0..length /\ MaxRead \in Nat
      /\ packetsize \in Nat \ {0} /\ FSYS_BUFLEN \in Nat /\ saved_filepos \in 0..length
  BY <1>1, ServerFacts, SizesAssumption DEF IInv, Phase, Ranges
<1>3. Len(got') = 0 /\ \A i \in 1..Len(got') : FALSE
  BY <1>1
<1>7. calls' \in 0..MaxCalls /\ size' \in 0..MaxRead /\ start' \in 0..length /\ got' \in Seq(1..length)
  <2>1. calls \in 0..MaxCalls /\ MaxCalls \in Nat
    BY SizesAssumption DEF IInv, Ranges
  <2>2. calls' \in 0..MaxCalls
    BY <1>1, <2>1
  <2>3. size' \in 0..MaxRead /\ start' \in 0..length
    BY <1>1, <1>2
  <2>4. got' \in Seq(1..length)
    BY <1>1
  <2>5. QED
    BY <2>2, <2>3, <2>4
<1>8. UNCHANGED <<peer, arp, transfer, saved_filepos, tp, len, port, filepos, filemax, result>>
  BY <1>1
<1>9. /\ filepos' = start' + Len(got') /\ \A i \in 1..Len(got') : got'[i] = start' + i
      /\ size' # 0 /\ size' + Len(got') <= MaxRead /\ filepos' + size' <= length'
  <2>5. filepos' = filepos /\ start' = filepos /\ size' \in 1..MaxRead /\ Len(got') = 0
    BY <1>1, <1>3
  <2>1. filepos' = start' + Len(got')
    BY <1>2, <2>5
  <2>6. PICK n : n = size'
    BY Zenon
  <2>7. n \in 1..MaxRead /\ n <= filemax - filepos
    BY <1>1, <2>6
  <2>8. n \in Nat /\ n # 0 /\ n <= MaxRead /\ n + 0 = n
    BY <1>2, <2>7
  <2>2. size' # 0 /\ size' + Len(got') <= MaxRead
    BY <2>5, <2>6, <2>8
  <2>9. filepos + n <= length
    BY <1>2, <2>7, <2>8
  <2>3. filepos' + size' <= length'
    BY <1>1, <2>6, <2>9 DEF peer
  <2>4. QED
    BY <1>3, <2>1, <2>2, <2>3
<1> USE <1>1 DEF peer, port, transfer, result
<1>4. CASE /\ filepos < saved_filepos
           /\ call' = "rewind" /\ buf' = <<>>
           /\ buf_fill(TRUE, buf_eof, 0, packetsize)
  <2>1. /\ abort' = TRUE /\ filled' = TRUE /\ Len(buf') = 0
        /\ pc' = IF MoreToFill(buf_eof, 0, packetsize) THEN "await" ELSE "filled"
    BY <1>4 DEF buf_fill
  <2>2. Flags'
    BY <2>1, Zenon DEF IInv, Flags
  <2>3. Ranges'
    BY <1>4, <1>7, <1>8, <2>1 DEF IInv, Ranges
  <2>4. Sizes'
    BY <1>4 DEF IInv, Sizes, ServerSize
  <2>5. Phase'
    BY <1>2, <1>4, <2>1 DEF IInv, Phase, MoreToFill, buf_read
  <2>6. Window'
    BY <1>2, <1>4, <2>1 DEF Window, buf_read
  <2>7. Reading'
    BY <1>4, <1>9 DEF Reading
  <2>8. QED
    BY <2>2, <2>3, <2>4, <2>5, <2>6, <2>7 DEF IInv
<1>5. CASE /\ filepos >= saved_filepos
           /\ call' = "read" /\ pc' = "copy"
           /\ UNCHANGED <<buf, abort, filled>>
  <2>1. Flags'
    BY <1>5, Zenon DEF IInv, Flags
  <2>2. Ranges'
    BY <1>5, <1>7, <1>8 DEF IInv, Ranges
  <2>3. Sizes'
    BY <1>5 DEF IInv, Sizes, ServerSize
  <2>4. Phase'
    BY <1>2, <1>5 DEF IInv, Phase
  <2>5. Window'
    BY <1>5 DEF IInv, Window, Received, Ended, buf_read
  <2>6. Reading'
    BY <1>5, <1>8, <1>9 DEF Reading
  <2>7. QED
    BY <2>1, <2>2, <2>3, <2>4, <2>5, <2>6 DEF IInv
<1>6. QED
  BY <1>4, <1>5 DEF tftp_read

LEMMA RewoundKeeps == IInv /\ Rewound => IInv'
<1> SUFFICES ASSUME IInv, Rewound PROVE IInv'
  OBVIOUS
<1>1. /\ pc = "filled" /\ call = "rewind" /\ tp' = "RRQ" /\ len' = "rrq"
      /\ UNCHANGED <<peer, filepos, start, got, filemax, opened, calls>>
  BY DEF Rewound, Filled
<1>2. PICK ok \in BOOLEAN :
        /\ send_rrq(ok)
        /\ \/ call' = "read" /\ pc' = "copy" /\ UNCHANGED <<abort, filled, answer, size>>
           \/ Finish(Failed) /\ size' = 0
  BY DEF Rewound
<1>3. /\ retry' = 0 /\ block' = 0 /\ prevblock' = 0 /\ bcounter' = 0
      /\ packetsize' = DefaultSize /\ DefaultSize \in Nat \ {0} /\ FSYS_BUFLEN \in Nat
      /\ buf_eof' = FALSE /\ buf' = <<>> /\ saved_filepos' = 0
      /\ arp' \in BOOLEAN /\ asked' \in BOOLEAN /\ acked' = FALSE
      /\ length' = length /\ server' = server /\ length \in Nat
      /\ Received' = 0 /\ Sizes'
  BY <1>1, <1>2, RequestFacts
<1>4. /\ \/ call' = "read" /\ pc' = "copy" /\ size' = size
         \/ call' = "none" /\ pc' = "idle" /\ size' = 0
      /\ abort' = abort /\ filled' = filled
  BY <1>2 DEF Finish
<1>5. opened /\ filemax = length /\ filepos \in 0..length
  BY <1>1 DEF IInv, Phase, Ranges
<1>6. Flags'
  BY <1>1, <1>3, <1>4, Zenon DEF IInv, Flags
<1>7. Ranges'
  BY <1>1, <1>3, <1>4, SizesAssumption DEF IInv, Ranges
<1>8. Phase'
  BY <1>1, <1>3, <1>4, <1>5 DEF Phase
<1>9. Window'
  BY <1>3, <1>4 DEF Window, buf_read
<1>10. Reading'
  BY <1>1, <1>3, <1>4, <1>5 DEF IInv, Reading
<1>11. QED
  BY <1>3, <1>6, <1>7, <1>8, <1>9, <1>10 DEF IInv

LEMMA ReadFilledKeeps == IInv /\ ReadFilled => IInv'
<1> SUFFICES ASSUME IInv, ReadFilled PROVE IInv'
  OBVIOUS
<1>1. /\ pc = "filled" /\ call = "read"
      /\ UNCHANGED <<peer, arp, port, calls, transfer, window, tp, len, filepos, start, got,
                     filemax, opened>>
      /\ \/ pc' = "copy" /\ UNCHANGED <<call, answer, abort, filled, size>>
         \/ Finish(Failed) /\ size' = 0
  BY DEF ReadFilled, Filled, OnlyReturn
<1>2. /\ \/ call' = "read" /\ pc' = "copy" /\ size' = size
         \/ call' = "none" /\ pc' = "idle" /\ size' = 0
      /\ abort' = abort /\ filled' = filled
  BY <1>1 DEF Finish
<1> USE <1>1 DEF peer, port, transfer, window
<1>3. opened
  BY DEF IInv, Phase
<1>4. Flags'
  BY <1>2, Zenon DEF IInv, Flags
<1>5. Ranges'
  BY <1>2, SizesAssumption DEF IInv, Ranges
<1>6. Sizes'
  BY DEF IInv, Sizes, ServerSize
<1>7. Phase'
  BY <1>2, <1>3 DEF IInv, Phase
<1>8. Window'
  BY <1>2, <1>3 DEF IInv, Window, Received, Ended, buf_read
<1>9. Reading'
  BY <1>2 DEF IInv, Reading
<1>10. QED
  BY <1>4, <1>5, <1>6, <1>7, <1>8, <1>9 DEF IInv

LEMMA tftp_closeKeeps == IInv /\ tftp_close => IInv'
<1> SUFFICES ASSUME IInv, tftp_close PROVE IInv'
  OBVIOUS
<1>1. /\ call = "none" /\ opened /\ calls < MaxCalls /\ calls' = calls + 1
      /\ call' = "close" /\ buf' = <<>> /\ buf_fill(TRUE, buf_eof, 0, packetsize)
      /\ UNCHANGED <<peer, arp, transfer, saved_filepos, tp, len, port, reader, filemax,
                     result>>
  BY DEF tftp_close
<1>2. /\ abort' = TRUE /\ filled' = TRUE /\ Len(buf') = 0
      /\ pc' = IF MoreToFill(buf_eof, 0, packetsize) THEN "await" ELSE "filled"
  BY <1>1 DEF buf_fill
<1>3. filemax = length /\ length \in Nat /\ FSYS_BUFLEN \in Nat
  BY <1>1, ServerFacts DEF IInv, Phase, Ranges
<1> USE <1>1 DEF peer, port, transfer, result, reader
<1>4. Flags'
  BY <1>2, Zenon DEF IInv, Flags
<1>5. Ranges'
  BY <1>2, <1>3, SizesAssumption DEF IInv, Ranges
<1>6. Sizes'
  BY DEF IInv, Sizes, ServerSize
<1>7. Phase'
  BY <1>2, <1>3 DEF IInv, Phase, MoreToFill, buf_read
<1>8. Window'
  BY <1>2, <1>3 DEF Window, buf_read
<1>9. Reading'
  BY DEF Reading
<1>10. QED
  BY <1>4, <1>5, <1>6, <1>7, <1>8, <1>9 DEF IInv

LEMMA ClosedKeeps == IInv /\ Closed => IInv'
<1> SUFFICES ASSUME IInv, Closed PROVE IInv'
  OBVIOUS
<1>1. /\ call' = "none" /\ pc' = "idle" /\ opened' = FALSE /\ UNCHANGED <<abort, filled>>
      /\ UNCHANGED <<peer, arp, port, calls, transfer, window, tp, len, reader, filemax>>
  BY DEF Closed, Filled, OnlyReturn, Finish
<1> USE <1>1 DEF peer, port, transfer, window, reader
<1>2. Flags'
  BY Zenon DEF IInv, Flags
<1>3. Ranges'
  BY SizesAssumption DEF IInv, Ranges
<1>4. Sizes'
  BY DEF IInv, Sizes, ServerSize
<1>5. Phase'
  BY DEF Phase
<1>6. Window'
  BY DEF IInv, Window, buf_read
<1>7. Reading'
  BY DEF Reading
<1>8. QED
  BY <1>2, <1>3, <1>4, <1>5, <1>6, <1>7 DEF IInv
(* A part of a window is a window. *)
LEMMA PartOfWindow ==
  \A S : \A w \in Seq(S), from \in Int, m, n \in Nat : \A part :
    /\ \A i \in 1..Len(w) : w[i] = from + i
    /\ m + n <= Len(w)
    /\ part = SubSeq(w, m + 1, m + n)
    => part \in Seq(S) /\ Len(part) = n /\ \A i \in 1..n : part[i] = from + m + i
<1> SUFFICES ASSUME NEW S, NEW w \in Seq(S), NEW from \in Int, NEW m \in Nat, NEW n \in Nat, NEW part,
                    \A i \in 1..Len(w) : w[i] = from + i, m + n <= Len(w),
                    part = SubSeq(w, m + 1, m + n)
             PROVE  part \in Seq(S) /\ Len(part) = n /\ \A i \in 1..n : part[i] = from + m + i
  OBVIOUS
<1>1. Len(w) \in Nat /\ \A i \in 1..Len(w) : w[i] \in S
  OBVIOUS
<1>2. part = [i \in 1..n |-> w[m + i]]
  <2>1. part = [i \in 1..(1 + (m + n) - (m + 1)) |-> w[i + (m + 1) - 1]]
    BY SMTT(30)
  <2>2. 1 + (m + n) - (m + 1) = n /\ \A i \in 1..n : i + (m + 1) - 1 = m + i
    OBVIOUS
  <2>3. QED
    BY <2>1, <2>2
<1>3. \A i \in 1..n : m + i \in 1..Len(w)
  BY <1>1
<1>4. \A i \in 1..n : w[m + i] \in S /\ w[m + i] = from + (m + i)
  BY <1>1, <1>3
<1>5. part \in Seq(S) /\ Len(part) = n
  BY <1>2, <1>4
<1>6. \A i \in 1..n : part[i] = from + m + i
  BY <1>2, <1>4
<1>7. QED
  BY <1>5, <1>6

(* What a round of tftp_read's loop copies, and how the window slides. *)
LEMMA CopyFacts ==
  ASSUME IInv, Copy
  PROVE  /\ call = "read" /\ opened
         /\ buf' \in Seq(1..length) /\ saved_filepos' \in 0..length
         /\ saved_filepos' + Len(buf') = saved_filepos + Len(buf) /\ Len(buf') <= Len(buf)
         /\ \A i \in 1..Len(buf') : buf'[i] = saved_filepos' + i
         /\ got' \in Seq(1..length) /\ filepos' = start + Len(got')
         /\ \A i \in 1..Len(got') : got'[i] = start + i
         /\ size' \in Nat /\ size' + Len(got') = size + Len(got) /\ filepos' + size' = filepos + size
         /\ saved_filepos' <= filepos' /\ filepos' \in 0..length
<1>1. pc = "copy"
  BY DEF Copy
<1>2. /\ call = "read" /\ opened
      /\ saved_filepos + Len(buf) = Received /\ \A i \in 1..Len(buf) : buf[i] = saved_filepos + i
      /\ filepos = start + Len(got) /\ \A i \in 1..Len(got) : got[i] = start + i
      /\ size # 0 /\ filepos + size <= length /\ saved_filepos <= filepos
  BY <1>1 DEF IInv, Phase, Window, Reading, buf_read
<1>3. /\ length \in Nat /\ buf \in Seq(1..length) /\ Len(buf) \in Nat /\ got \in Seq(1..length)
      /\ Len(got) \in Nat /\ filepos \in Nat /\ saved_filepos \in Nat /\ size \in Nat /\ start \in Nat
      /\ bcounter \in Nat /\ packetsize \in Nat /\ FSYS_BUFLEN \in Nat
  BY ServerFacts, SizesAssumption, SMTT(30) DEF IInv, Ranges
<1>4. saved_filepos + Len(buf) <= length
  <2>1. bcounter * packetsize \in Nat
    BY <1>3
  <2>2. QED
    BY <1>2, <1>3, <2>1 DEF Received, Min
<1>5. PICK ready, amt, at : /\ ready = Len(buf) + saved_filepos - filepos /\ amt = Min(ready, size)
                            /\ at = filepos - saved_filepos
  BY Zenon
<1>6. ready \in Int /\ amt \in Int /\ at \in Nat /\ amt <= size /\ amt <= ready /\ amt \in {ready, size}
  BY <1>2, <1>3, <1>5 DEF Min
<1>7. CASE /\ amt > 0
           /\ got' = got \o SubSeq(buf, at + 1, at + amt)
           /\ filepos' = filepos + amt /\ size' = size - amt
           /\ IF filepos' - saved_filepos > Half
              THEN buf' = SubSeq(buf, Half + 1, buf_read) /\ saved_filepos' = saved_filepos + Half
              ELSE UNCHANGED window
  <2>1. amt \in Nat /\ at + amt <= Len(buf)
    <3>1. amt > 0
      BY <1>7
    <3>2. ready = Len(buf) + saved_filepos - filepos /\ at = filepos - saved_filepos
      BY <1>5
    <3>3. Len(buf) \in Nat /\ saved_filepos \in Nat /\ filepos \in Nat
      BY <1>3
    <3>4. QED
      BY <1>6, <3>1, <3>2, <3>3
  <2>2. PICK part : part = SubSeq(buf, at + 1, at + amt)
    BY Zenon
  <2>3. part \in Seq(1..length) /\ Len(part) = amt /\ \A i \in 1..amt : part[i] = saved_filepos + at + i
    <3>1. \A i \in 1..Len(buf) : buf[i] = saved_filepos + i
      BY <1>2
    <3>2. PICK S : S = 1..length
      BY Zenon
    <3>3. buf \in Seq(S) /\ saved_filepos \in Int /\ at \in Nat /\ amt \in Nat
      BY <1>3, <1>6, <2>1, <3>2
    <3>4. part \in Seq(S) /\ Len(part) = amt /\ \A i \in 1..amt : part[i] = saved_filepos + at + i
      BY <2>1, <2>2, <3>1, <3>3, PartOfWindow
    <3>5. QED
      BY <3>2, <3>4
  <2>4. /\ got \o part \in Seq(1..length) /\ Len(got \o part) = Len(got) + amt
        /\ \A i \in 1..Len(got) + amt : (got \o part)[i] = IF i <= Len(got) THEN got[i] ELSE part[i - Len(got)]
    BY <1>3, <2>3, ConcatProperties
  <2>5. got' = got \o part
    BY <1>7, <2>2
  <2>6. saved_filepos + at = filepos
    BY <1>3, <1>5
  <2>7. ASSUME NEW i \in 1..Len(got') PROVE got'[i] = start + i
    <3>1. i \in 1..Len(got) + amt /\ i \in Nat
      BY <1>3, <2>1, <2>4, <2>5
    <3>2. CASE i <= Len(got)
      BY <1>2, <1>3, <2>4, <2>5, <3>1, <3>2
    <3>3. CASE i > Len(got)
      <4>1. i - Len(got) \in 1..amt
        BY <1>3, <2>1, <3>1, <3>3
      <4>2. got'[i] = part[i - Len(got)]
        BY <1>3, <2>4, <2>5, <3>1, <3>3
      <4>3. part[i - Len(got)] = filepos + (i - Len(got))
        BY <2>3, <2>6, <4>1
      <4>4. QED
        BY <1>2, <1>3, <3>1, <4>2, <4>3
    <3>4. QED
      BY <1>3, <3>1, <3>2, <3>3
  <2>8. Len(got') = Len(got) + amt /\ got' \in Seq(1..length)
    BY <2>4, <2>5
  <2>9. size' \in Nat /\ size' + Len(got') = size + Len(got) /\ filepos' + size' = filepos + size
    <3>1. PICK n : n = size'
      BY Zenon
    <3>2. n = size - amt
      BY <1>7, <3>1
    <3>3. n \in Nat /\ n + (Len(got) + amt) = size + Len(got) /\ (filepos + amt) + n = filepos + size
      BY <1>3, <1>6, <2>1, <3>2
    <3>4. QED
      BY <1>7, <2>8, <3>1, <3>3
  <2>10. filepos' = start + Len(got') /\ filepos' \in 0..length
    BY <1>2, <1>3, <1>6, <1>7, <2>1, <2>8, SMTT(30)
  <2>11. Half \in Nat
    BY <1>3 DEF Half
  <2>12. CASE filepos' - saved_filepos > Half
    <3>1. PICK n : n = Len(buf) - Half
      BY Zenon
    <3>2. n \in Nat /\ Half + n = Len(buf) /\ Half + n <= Len(buf) /\ saved_filepos + Half <= filepos'
      <4>1. filepos' = filepos + amt /\ at = filepos - saved_filepos
        BY <1>5, <1>7
      <4>2. Len(buf) \in Nat /\ saved_filepos \in Nat /\ filepos \in Nat /\ at \in Nat
        BY <1>3, <1>6
      <4>3. (filepos + amt) - saved_filepos > Half
        BY <2>12, <4>1
      <4>4. at + amt > Half /\ saved_filepos + Half <= filepos + amt
        BY <2>1, <2>11, <4>1, <4>2, <4>3
      <4>5. n \in Nat /\ Half + n = Len(buf) /\ Half + n <= Len(buf)
        BY <2>1, <2>11, <3>1, <4>2, <4>4
      <4>6. QED
        BY <4>1, <4>4, <4>5
    <3>3. buf' = SubSeq(buf, Half + 1, Half + n) /\ saved_filepos' = saved_filepos + Half
      BY <1>7, <2>12, <3>2 DEF buf_read
    <3>4. PICK w : w = SubSeq(buf, Half + 1, Half + n)
      BY Zenon
    <3>5. w \in Seq(1..length) /\ Len(w) = n /\ \A i \in 1..n : w[i] = saved_filepos + Half + i
      <4>1. \A i \in 1..Len(buf) : buf[i] = saved_filepos + i
        BY <1>2
      <4>2. PICK S : S = 1..length
        BY Zenon
      <4>3. buf \in Seq(S) /\ saved_filepos \in Int /\ n \in Nat /\ Half + n <= Len(buf)
        BY <1>3, <3>2, <4>2
      <4>4. w \in Seq(S) /\ Len(w) = n /\ \A i \in 1..n : w[i] = saved_filepos + Half + i
        BY <2>11, <3>4, <4>1, <4>3, PartOfWindow
      <4>5. QED
        BY <4>2, <4>4
    <3>6. /\ buf' \in Seq(1..length) /\ Len(buf') = n /\ \A i \in 1..Len(buf') : buf'[i] = saved_filepos' + i
      BY <3>3, <3>4, <3>5
    <3>7. saved_filepos' \in 0..length
      BY <1>3, <2>10, <2>11, <3>2, <3>3
    <3>8. saved_filepos' + Len(buf') = saved_filepos + Len(buf) /\ Len(buf') <= Len(buf)
      <4>1. Len(buf) \in Nat /\ saved_filepos \in Nat
        BY <1>3
      <4>2. n \in Nat /\ Half + n = Len(buf)
        BY <3>2
      <4>3. (saved_filepos + Half) + n = saved_filepos + Len(buf) /\ n <= Len(buf)
        BY <2>11, <4>1, <4>2
      <4>4. QED
        BY <3>3, <3>6, <4>3
    <3>9. QED
      BY <1>2, <2>7, <2>8, <2>9, <2>10, <3>2, <3>3, <3>6, <3>7, <3>8
  <2>13. CASE ~(filepos' - saved_filepos > Half)
    <3>1. buf' = buf /\ saved_filepos' = saved_filepos
      BY <1>7, <2>13 DEF window
    <3>2. saved_filepos \in 0..length /\ saved_filepos <= filepos'
      BY <1>2, <1>3, <1>4, <1>7, <2>1
    <3>3. QED
      BY <1>2, <1>3, <2>7, <2>8, <2>9, <2>10, <3>1, <3>2
  <2>14. QED
    BY <2>12, <2>13
<1>8. CASE /\ amt <= 0
           /\ saved_filepos' = saved_filepos + buf_read /\ buf' = <<>>
           /\ UNCHANGED <<got, filepos, size>>
  <2>1. saved_filepos + Len(buf) <= filepos
    BY <1>2, <1>3, <1>5, <1>6, <1>8, SMTT(30)
  <2>2. saved_filepos' = saved_filepos + Len(buf) /\ Len(buf') = 0 /\ buf' \in Seq(1..length)
        /\ \A i \in 1..Len(buf') : FALSE
    BY <1>8 DEF buf_read
  <2>3. saved_filepos' \in 0..length /\ saved_filepos' <= filepos' /\ filepos' \in 0..length
    BY <1>2, <1>3, <1>4, <1>8, <2>1, <2>2
  <2>4. saved_filepos' + Len(buf') = saved_filepos + Len(buf) /\ Len(buf') <= Len(buf)
    BY <1>3, <2>2
  <2>5. QED
    BY <1>2, <1>3, <1>8, <2>2, <2>3, <2>4
<1>9. QED
  <2>1. \/ /\ amt > 0
           /\ got' = got \o SubSeq(buf, at + 1, at + amt)
           /\ filepos' = filepos + amt /\ size' = size - amt
           /\ IF filepos' - saved_filepos > Half
              THEN buf' = SubSeq(buf, Half + 1, buf_read) /\ saved_filepos' = saved_filepos + Half
              ELSE UNCHANGED window
        \/ /\ amt <= 0
           /\ saved_filepos' = saved_filepos + buf_read /\ buf' = <<>>
           /\ UNCHANGED <<got, filepos, size>>
    BY <1>5, Zenon DEF Copy, buf_read
  <2>2. QED
    BY <1>7, <1>8, <2>1

LEMMA CopyKeeps == IInv /\ Copy => IInv'
<1> SUFFICES ASSUME IInv, Copy PROVE IInv'
  OBVIOUS
<1>1. /\ call = "read" /\ opened
      /\ buf' \in Seq(1..length) /\ saved_filepos' \in 0..length
      /\ saved_filepos' + Len(buf') = saved_filepos + Len(buf) /\ Len(buf') <= Len(buf)
      /\ \A i \in 1..Len(buf') : buf'[i] = saved_filepos' + i
      /\ got' \in Seq(1..length) /\ filepos' = start + Len(got')
      /\ \A i \in 1..Len(got') : got'[i] = start + i
      /\ size' \in Nat /\ size' + Len(got') = size + Len(got) /\ filepos' + size' = filepos + size
      /\ saved_filepos' <= filepos' /\ filepos' \in 0..length
  BY CopyFacts
<1>2. /\ UNCHANGED <<peer, arp, port, calls, transfer, tp, len, start, filemax, opened>>
      /\ \/ /\ size' > 0
            /\ abort' = FALSE /\ filled' = TRUE /\ call' = call
            /\ pc' = IF MoreToFill(buf_eof, Len(buf'), packetsize) THEN "await" ELSE "filled"
         \/ /\ ~(size' > 0)
            /\ call' = "none" /\ pc' = "idle" /\ UNCHANGED <<abort, filled>>
  BY DEF Copy, OnlyReturn, buf_fill, Finish
<1>3. /\ length \in Nat /\ Len(buf) \in Nat /\ FSYS_BUFLEN \in Nat /\ MaxRead \in Nat
      /\ Len(buf) <= FSYS_BUFLEN /\ saved_filepos + Len(buf) = Received
      /\ (buf_eof => Ended) /\ Len(buf') \in Nat /\ Len(got') \in Nat
      /\ size + Len(got) <= MaxRead /\ filepos + size <= length
  <2>1. buf \in Seq(1..length) /\ length \in Nat /\ FSYS_BUFLEN \in Nat /\ MaxRead \in Nat
    BY ServerFacts, SizesAssumption DEF IInv, Ranges
  <2>2. /\ Len(buf) <= FSYS_BUFLEN /\ saved_filepos + Len(buf) = Received /\ (buf_eof => Ended)
    BY <1>1 DEF IInv, Window, buf_read
  <2>3. size + Len(got) <= MaxRead /\ filepos + size <= length
    BY <1>1 DEF IInv, Reading
  <2>4. Len(buf) \in Nat /\ Len(buf') \in Nat /\ Len(got') \in Nat
    BY <1>1, <2>1, SMTT(30)
  <2>5. QED
    BY <2>1, <2>2, <2>3, <2>4
<1> USE <1>2 DEF peer, port, transfer
<1>4. Received' = Received /\ Ended' = Ended
  BY DEF Received, Ended
<1>5. Flags'
  BY Zenon DEF IInv, Flags
<1>6. Ranges'
  <2>1. size' \in 0..MaxRead
    <3>1. PICK n, g : n = size' /\ g = Len(got')
      BY Zenon
    <3>2. n \in Nat /\ g \in Nat /\ n + g <= MaxRead
      BY <1>1, <1>3, <3>1
    <3>3. n \in 0..MaxRead
      BY <1>3, <3>2
    <3>4. QED
      BY <3>1, <3>3
  <2>2. call' \in {"none", "read"} /\ pc' \in {"idle", "await", "filled"}
    BY <1>1
  <2>3. QED
    BY <1>1, <2>1, <2>2 DEF IInv, Ranges
<1>7. Sizes'
  BY DEF IInv, Sizes, ServerSize
<1>8. Phase'
  BY <1>1 DEF IInv, Phase, MoreToFill, buf_read
<1>9. Window'
  <2>1. Len(buf') <= FSYS_BUFLEN
    BY <1>1, <1>3
  <2>2. call' \in {"none", "read"}
    BY <1>1
  <2>3. QED
    BY <1>1, <1>3, <1>4, <2>1, <2>2 DEF Window, buf_read
<1>10. Reading'
  <2>1. call' # "none" => call' = "read" /\ size' > 0
    BY <1>1
  <2>2. call' # "none" => size' # 0
    BY <1>1, <2>1
  <2>3. size' + Len(got') <= MaxRead /\ filepos' + size' <= length
    BY <1>1, <1>3
  <2>4. call' \in {"none", "read"}
    BY <1>1
  <2>5. QED
    BY <1>1, <2>2, <2>3, <2>4 DEF Reading
<1>11. QED
  BY <1>5, <1>6, <1>7, <1>8, <1>9, <1>10 DEF IInv

LEMMA NextIInv == IInv /\ [Next]_vars => IInv'
<1> SUFFICES ASSUME IInv, [Next]_vars PROVE IInv'
  OBVIOUS
<1>1. CASE Next
  BY <1>1, tftp_dirKeeps, SeekKeeps, tftp_readKeeps, tftp_closeKeeps, UserAbortsKeeps,
     ResendRequestKeeps, ResendAckKeeps, TimeoutKeeps, ReceiveErrorKeeps, ReceiveOackKeeps,
     ReceiveDataKeeps, ReceiveOtherKeeps, DirFilledKeeps, CountFilledKeeps, RewoundKeeps,
     CopyKeeps, ReadFilledKeeps, ClosedKeeps DEF Next, Client, Receive
<1>2. CASE UNCHANGED vars
  <2> USE <1>2 DEF vars, peer, port, transfer, window, reader, result
  <2>1. Flags'
    BY Zenon DEF IInv, Flags
  <2>2. Ranges'
    BY SizesAssumption DEF IInv, Ranges
  <2>3. Sizes'
    BY DEF IInv, Sizes, ServerSize
  <2>4. Phase'
    BY DEF IInv, Phase, MoreToFill, buf_read
  <2>5. Window'
    BY DEF IInv, Window, Received, Ended, buf_read
  <2>6. Reading'
    BY DEF IInv, Reading
  <2>7. QED
    BY <2>1, <2>2, <2>3, <2>4, <2>5, <2>6 DEF IInv
<1>3. QED
  BY <1>1, <1>2

(* The invariant of the transfer, on every network. *)
THEOREM IInvHolds == Spec => []IInv
<1>1. Init => IInv
  BY InitIInv
<1>2. IInv /\ [Next]_vars => IInv'
  BY NextIInv
<1>3. QED
  BY <1>1, <1>2, PTL DEF Spec

(* The variables of fsys_tftp.c keep their ranges: what is buffered,       *)
(* counted and copied never leaves the file.                               *)
THEOREM TypeCorrect == Spec => []TypeOK
<1>1. IInv => TypeOK
  BY DEF IInv, Flags, Ranges, TypeOK
<1>2. QED
  BY <1>1, IInvHolds, PTL

(* The window holds the bytes of the file from saved_filepos on, whatever  *)
(* the network does, for every size of block, window and file.             *)
THEOREM WindowHolds == Spec => []BufferIsWindow
<1>1. IInv => BufferIsWindow
  <2> SUFFICES ASSUME IInv, opened \/ call = "dir", NEW i \in 1..buf_read PROVE buf[i] = saved_filepos + i
    BY DEF IInv, Window, BufferIsWindow
  <2>1. call \in {"none", "dir", "count", "read", "rewind", "close"}
    BY DEF IInv, Ranges
  <2>2. CASE call \in {"rewind", "close"}
    <3>1. buf = <<>>
      BY <2>2 DEF IInv, Window
    <3>2. buf_read = 0
      BY <3>1 DEF buf_read
    <3>3. QED
      BY <3>2
  <2>3. CASE call \notin {"rewind", "close"}
    BY <2>1, <2>3 DEF IInv, Phase, Window
  <2>4. QED
    BY <2>2, <2>3
<1>2. QED
  BY <1>1, IInvHolds, PTL

(* The block numbers of 16 bits count the accepted blocks, and no block is *)
(* taken for another one, however long a file and however late a packet.   *)
THEOREM CountHolds == Spec => []BlocksAreCounted
<1>1. IInv => BlocksAreCounted
  BY DEF IInv, Sizes, Window, Received, BlocksAreCounted
<1>2. QED
  BY <1>1, IInvHolds, PTL
-----------------------------------------------------------------------------
(* The steps of RemoteFile *)

LEMMA MapFacts ==
  /\ call = "none" => Req = "none" /\ CallPos = filepos /\ Wanted = 0
  /\ call \in {"dir", "count"} => Req = "open" /\ CallPos = filepos /\ Wanted = 0
  /\ call \in {"read", "rewind"} => Req = "read" /\ CallPos = start /\ Wanted = size + Len(got)
  /\ call = "close" => Req = "close" /\ CallPos = filepos /\ Wanted = 0
  /\ opened => KnownSize = filemax
  /\ ~opened => KnownSize = 0
BY DEF Req, CallPos, Wanted, KnownSize

LEMMA MapFactsNext ==
  /\ call' = "none" => Req' = "none" /\ CallPos' = filepos' /\ Wanted' = 0
  /\ call' \in {"dir", "count"} => Req' = "open" /\ CallPos' = filepos' /\ Wanted' = 0
  /\ call' \in {"read", "rewind"} => Req' = "read" /\ CallPos' = start' /\ Wanted' = size' + Len(got')
  /\ call' = "close" => Req' = "close" /\ CallPos' = filepos' /\ Wanted' = 0
  /\ opened' => KnownSize' = filemax'
  /\ ~opened' => KnownSize' = 0
BY DEF Req, CallPos, Wanted, KnownSize

(* A step inside a call, which the caller does not see. *)
LEMMA InsideCall ==
  ASSUME UNCHANGED <<length, call, opened, answer, filepos, size, start, got>>,
         opened => filemax' = filemax
  PROVE  UNCHANGED RF!absVars
<1>1. Req' = Req
  BY DEF Req
<1>2. KnownSize' = KnownSize
  BY DEF KnownSize
<1>3. CallPos' = CallPos /\ Wanted' = Wanted
  BY DEF CallPos, Wanted
<1>4. QED
  BY <1>1, <1>2, <1>3 DEF RF!absVars

LEMMA FillIsHidden ==
  ASSUME IInv, UserAborts \/ ResendRequest \/ ResendAck \/ Timeout \/ Receive
  PROVE  UNCHANGED RF!absVars
<1>1. UNCHANGED <<length, call, opened, answer, filepos, size, start, got>>
  BY Zenon DEF UserAborts, ResendRequest, ResendAck, Timeout, Receive, ReceiveError, ReceiveOack,
     ReceiveData, ReceiveOther, OnlyFill, peer, reader, result
<1>2. filemax' \in {filemax, length}
  BY DEF UserAborts, ResendRequest, ResendAck, Timeout, Receive, ReceiveError, ReceiveOack,
     ReceiveData, ReceiveOther
<1>3. opened => filemax = length
  BY DEF IInv, Phase
<1>4. QED
  BY <1>1, <1>2, <1>3, InsideCall

LEMMA tftp_dirIsOpen ==
  ASSUME IInv, tftp_dir
  PROVE  RF!Open
<1>1. /\ call = "none" /\ call' = "dir" /\ opened' = FALSE /\ filepos' = 0 /\ length' = length
      /\ answer' = answer
  BY DEF tftp_dir, OpenRequest, peer
<1>2. QED
  BY <1>1, MapFacts, MapFactsNext DEF RF!Open, RF!Call

LEMMA SeekIsSeek ==
  ASSUME IInv, Seek
  PROVE  RF!Seek
<1>1. /\ call = "none" /\ call' = call /\ opened /\ opened' = opened /\ length' = length
      /\ answer' = answer /\ filemax' = filemax /\ filepos' \in 0..filemax
  BY DEF Seek, peer, result
<1>2. QED
  BY <1>1, MapFacts, MapFactsNext DEF RF!Seek

LEMMA tftp_readIsRead ==
  ASSUME IInv, tftp_read
  PROVE  RF!Read
<1>1. /\ call = "none" /\ call' \in {"read", "rewind"} /\ opened /\ opened' = opened
      /\ length' = length /\ answer' = answer /\ filemax' = filemax /\ start' = filepos
      /\ got' = <<>> /\ size' \in 1..MaxRead /\ size' <= filemax - filepos
  BY DEF tftp_read, peer, result
<1>2. size' + Len(got') = size'
  <2>1. MaxRead \in Nat
    BY SizesAssumption
  <2>2. PICK n : n = size'
    BY Zenon
  <2>3. n \in 1..MaxRead
    BY <1>1, <2>2
  <2>4. n \in Nat /\ n + 0 = n
    BY <2>1, <2>3
  <2>5. QED
    BY <1>1, <2>2, <2>4
<1>3. QED
  BY <1>1, <1>2, MapFacts, MapFactsNext DEF RF!Read, RF!Call

LEMMA tftp_closeIsClose ==
  ASSUME IInv, tftp_close
  PROVE  RF!Close
<1>1. /\ call = "none" /\ call' = "close" /\ opened /\ opened' = opened /\ length' = length
      /\ answer' = answer /\ filemax' = filemax /\ filepos' = filepos
  BY DEF tftp_close, peer, result, reader
<1>2. QED
  BY <1>1, MapFacts, MapFactsNext DEF RF!Close, RF!Call

LEMMA FailedIsFailed == RF!Failed = Failed
BY DEF RF!Failed, Failed

(* An open that is not answered yet is inside the call whatever it counts. *)
LEMMA StillOpening ==
  ASSUME call \in {"dir", "count"}, call' \in {"dir", "count"}, ~opened, opened' = opened,
         UNCHANGED <<length, answer, filepos>>
  PROVE  UNCHANGED RF!absVars
BY MapFacts, MapFactsNext DEF RF!absVars

LEMMA OpenFails ==
  ASSUME call \in {"dir", "count"}, call' = "none", ~opened, opened' = opened,
         UNCHANGED <<length, filepos>>, answer' = Failed
  PROVE  RF!OpenReturns
BY MapFacts, MapFactsNext, FailedIsFailed DEF RF!OpenReturns, RF!Return

LEMMA DirFilledRefines ==
  ASSUME IInv, DirFilled
  PROVE  RF!OpenReturns \/ UNCHANGED RF!absVars
<1>1. call = "dir" /\ length' = length /\ filepos' = filepos /\ ~opened /\ filemax \in {-1, length}
  BY DEF DirFilled, Filled, OnlyReturn, peer, reader, IInv, Phase
<1>2. CASE ~filled
  BY <1>1, <1>2, OpenFails DEF DirFilled, Finish
<1>3. CASE filled /\ filemax # -1
  <2>1. call' = "none" /\ opened' = TRUE /\ filemax' = length /\ answer' = Done(<<>>)
    BY <1>1, <1>3 DEF DirFilled, Finish
  <2>2. Done(<<>>) = RF!Bytes(0, 0)
    <3>1. [i \in 1..0 |-> 0 + i] = <<>>
      OBVIOUS
    <3>2. QED
      BY <3>1, Zenon DEF Done, RF!Bytes
  <2>3. QED
    BY <1>1, <2>1, <2>2, MapFacts, MapFactsNext DEF RF!OpenReturns, RF!Return
<1>4. CASE filled /\ filemax = -1
  <2>1. call' = "count" /\ opened' = opened /\ answer' = answer
    BY <1>4 DEF DirFilled
  <2>2. QED
    BY <1>1, <2>1, StillOpening
<1>5. QED
  BY <1>2, <1>3, <1>4

LEMMA CountFilledRefines ==
  ASSUME IInv, CountFilled
  PROVE  RF!OpenReturns \/ UNCHANGED RF!absVars
<1>1. call = "count" /\ length' = length /\ filepos' = filepos /\ ~opened /\ opened' = opened
  BY DEF CountFilled, Filled, peer, reader, IInv, Phase
<1>2. CASE ~filled
  BY <1>1, <1>2, OpenFails DEF CountFilled, Finish
<1>3. CASE filled
  <2>1. call' \in {"dir", "count"} /\ answer' = answer
    BY <1>1, <1>3, Zenon DEF CountFilled, OpenRequest
  <2>2. QED
    BY <1>1, <2>1, StillOpening
<1>4. QED
  BY <1>2, <1>3

(* A read that fails has moved filepos behind what it copied. *)
LEMMA ReadFails ==
  ASSUME IInv, call \in {"read", "rewind"}, call' = "none", opened' = opened, filemax' = filemax,
         UNCHANGED <<length, filepos>>, answer' = Failed
  PROVE  RF!ReadReturns
<1>1. filepos = start + Len(got)
  BY DEF IInv, Reading
<1>2. start \in Nat /\ Len(got) \in Nat /\ size \in Nat
  BY ServerFacts, SizesAssumption DEF IInv, Ranges
<1>3. filepos \in start..(start + (size + Len(got)))
  BY <1>1, <1>2
<1>4. KnownSize' = KnownSize
  BY DEF KnownSize
<1>5. QED
  BY <1>3, <1>4, MapFacts, MapFactsNext, FailedIsFailed DEF RF!ReadReturns, RF!Return

LEMMA RewoundRefines ==
  ASSUME IInv, Rewound
  PROVE  RF!ReadReturns \/ UNCHANGED RF!absVars
<1>1. /\ call = "rewind" /\ length' = length /\ filepos' = filepos /\ start' = start /\ got' = got
      /\ filemax' = filemax /\ opened' = opened
  BY DEF Rewound, Filled, peer
<1>2. CASE call' = "read" /\ size' = size /\ answer' = answer
  <2>1. KnownSize' = KnownSize
    BY <1>1 DEF KnownSize
  <2>2. QED
    BY <1>1, <1>2, <2>1, MapFacts, MapFactsNext DEF RF!absVars
<1>3. CASE call' = "none" /\ answer' = Failed
  BY <1>1, <1>3, ReadFails
<1>4. QED
  BY <1>2, <1>3 DEF Rewound, Finish

LEMMA ReadFilledRefines ==
  ASSUME IInv, ReadFilled
  PROVE  RF!ReadReturns \/ UNCHANGED RF!absVars
<1>1. /\ call = "read" /\ length' = length /\ filepos' = filepos /\ start' = start /\ got' = got
      /\ filemax' = filemax /\ opened' = opened
  BY DEF ReadFilled, Filled, peer, OnlyReturn
<1>2. CASE call' = call /\ size' = size /\ answer' = answer
  BY <1>1, <1>2, InsideCall
<1>3. CASE call' = "none" /\ answer' = Failed
  BY <1>1, <1>3, ReadFails
<1>4. QED
  BY <1>2, <1>3 DEF ReadFilled, Finish

(* The bytes that are copied make up the answer of RemoteFile. *)
LEMMA CopyRefines ==
  ASSUME IInv, Copy
  PROVE  RF!ReadReturns \/ UNCHANGED RF!absVars
<1>1. /\ call = "read" /\ got' \in Seq(1..length) /\ filepos' = start + Len(got')
      /\ \A i \in 1..Len(got') : got'[i] = start + i
      /\ size' \in Nat /\ size' + Len(got') = size + Len(got)
  BY CopyFacts
<1>2. length' = length /\ start' = start /\ filemax' = filemax /\ opened' = opened
  BY DEF Copy, OnlyReturn, peer
<1>3. KnownSize' = KnownSize
  BY <1>2 DEF KnownSize
<1>4. CASE size' > 0
  <2>1. call' = call /\ answer' = answer
    BY <1>4 DEF Copy
  <2>2. QED
    BY <1>1, <1>2, <1>3, <2>1, MapFacts, MapFactsNext DEF RF!absVars
<1>5. CASE ~(size' > 0)
  <2>1. call' = "none" /\ answer' = Done(got')
    BY <1>5 DEF Copy, Finish
  <2>2. PICK n, g : n = size' /\ g = got'
    BY Zenon
  <2>3. g \in Seq(1..length) /\ Len(g) \in Nat /\ n \in Nat /\ ~(n > 0)
    BY <1>1, <1>5, <2>2
  <2>4. n + Len(g) = Len(g)
    BY <2>3
  <2>5. size + Len(got) = Len(g)
    BY <1>1, <2>2, <2>4
  <2>6. g = [i \in 1..Len(g) |-> start + i]
    <3>1. g = [i \in 1..Len(g) |-> g[i]]
      BY <2>3
    <3>2. \A i \in 1..Len(g) : g[i] = start + i
      BY <1>1, <2>2
    <3>3. QED
      BY <3>1, <3>2
  <2>7. Done(g) = RF!Bytes(start, Len(g))
    BY <2>6, Zenon DEF Done, RF!Bytes
  <2>8. answer' = RF!Bytes(CallPos, Wanted) /\ CallPos' = CallPos + Wanted
    BY <1>1, <2>1, <2>2, <2>5, <2>7, MapFacts, MapFactsNext
  <2>9. QED
    BY <1>1, <1>2, <1>3, <2>1, <2>8, MapFacts, MapFactsNext DEF RF!ReadReturns, RF!Return
<1>6. QED
  BY <1>4, <1>5

LEMMA ClosedRefines ==
  ASSUME IInv, Closed
  PROVE  RF!CloseReturns
<1>1. /\ call = "close" /\ call' = "none" /\ length' = length /\ filepos' = filepos
      /\ answer' = answer /\ opened' = FALSE
  BY DEF Closed, Filled, Finish, peer, OnlyReturn, reader
<1>2. QED
  BY <1>1, MapFacts, MapFactsNext DEF RF!CloseReturns, RF!Return

(* The calls of the TFTP file system are the steps of RemoteFile: on every *)
(* network an open file has its true size, and a read gives its caller the *)
(* bytes of the file that it asked for, or fails.  That calls return is    *)
(* left to the runs.                                                       *)
THEOREM CallsAreRemoteFile == Spec => ImplementsRemoteFile
<1>1. Init => RF!Init
  <2> SUFFICES ASSUME Init PROVE RF!Init
    OBVIOUS
  <2>1. /\ length \in Lengths /\ call = "none" /\ opened = FALSE /\ filepos = 0 /\ answer = Failed
    BY DEF Init
  <2>2. length \in Nat
    BY <2>1, SizesAssumption
  <2>3. QED
    BY <2>1, <2>2, MapFacts, FailedIsFailed DEF RF!Init
<1>2. IInv /\ [Next]_vars => [RF!Next]_(RF!absVars)
  <2> SUFFICES ASSUME IInv, [Next]_vars PROVE RF!Next \/ UNCHANGED RF!absVars
    OBVIOUS
  <2>1. CASE tftp_dir \/ Seek \/ tftp_read \/ tftp_close
    BY <2>1, tftp_dirIsOpen, SeekIsSeek, tftp_readIsRead, tftp_closeIsClose DEF RF!Next
  <2>2. CASE UserAborts \/ ResendRequest \/ ResendAck \/ Timeout \/ Receive
    BY <2>2, FillIsHidden
  <2>3. CASE DirFilled \/ CountFilled \/ Rewound \/ Copy \/ ReadFilled \/ Closed
    BY <2>3, DirFilledRefines, CountFilledRefines, RewoundRefines, CopyRefines, ReadFilledRefines,
       ClosedRefines DEF RF!Next, RF!Answer
  <2>4. CASE UNCHANGED vars
    BY <2>4, InsideCall DEF vars, peer, reader, result
  <2>5. QED
    BY <2>1, <2>2, <2>3, <2>4 DEF Next, Client
<1>3. QED
  BY <1>1, <1>2, IInvHolds, PTL DEF Spec, ImplementsRemoteFile, RF!Spec
=============================================================================
