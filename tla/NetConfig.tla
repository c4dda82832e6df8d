----------------------------- MODULE NetConfig -----------------------------
(***************************************************************************)
(* How the machine gets its addresses (netboot/main.c): the commands       *)
(* bootp (which is dhcp too), rarp, ifconfig and tftpserver, the bootp     *)
(* that set_device runs for a device (nd), the resolution of an address in *)
(* udp_transmit, and the end of networking in boot.                        *)
(*                                                                         *)
(* Packets are lost, delayed, repeated and reordered: an answer to         *)
(* anything that was sent under the current transaction number may arrive  *)
(* whenever a reply is awaited, or never.  bootp takes a new transaction   *)
(* number, and await_reply drops the replies to an older one.              *)
(*                                                                         *)
(* Left out: the file of extensions a reply may name, which tftp in main.c *)
(* loads and whose options are read like those of the reply.               *)
(***************************************************************************)
EXTENDS Integers, FiniteSets

CONSTANTS
  AddressServers,             \* the hosts that assign addresses, see Server
  Addresses,           \* what a user may type for an address
  MAX_BOOTP_RETRIES,   \* 20
  MAX_ARP_RETRIES,     \* 20
  MaxCommands          \* bound: the commands of one behaviour

(* An address has a network and a host; 0.0.0.0 is no address.  Host 0 is  *)
(* the network itself and LastHost its broadcast address.                  *)
NoAddr == [net |-> 0, host |-> 0]
LastHost == 9
Address == [net : Nat, host : 0..LastHost]

(* A server assigns yiaddr; next is the TFTP server it names.              *)
AddressServer == [kind : {"dhcp", "bootp", "rarp"}, ip : Address, yiaddr : Address,
           next : Address, gateway : Address]

ASSUME NetAssumption ==
  /\ AddressServers \subseteq AddressServer /\ Addresses \subseteq Address
  /\ MAX_BOOTP_RETRIES \in Nat /\ MAX_ARP_RETRIES \in Nat

ARP_CLIENT == 0
ARP_SERVER == 1
ARP_GATEWAY == 2
Entries == {ARP_CLIENT, ARP_SERVER, ARP_GATEWAY}
Peers == {ARP_SERVER, ARP_GATEWAY}

VARIABLES
  nic,                   \* "absent", "unprobed", "on", or "off" after eth_disable
  network_ready,
  ipaddr, node,          \* arptable; a card's address is known by its owner's ip;
                         \* the client's own card is left out
  netmask,               \* 0, or 1 for a mask that separates net and host
  dhcp_reply, dhcp_server, dhcp_addr,
  vend,                  \* the message that bootp sends
  sent,                  \* the messages it has sent under this transaction number
  bootp_retry, reqretry, aretry,
  step,                  \* what is under way: nothing, a loop's head, or a wait
  dest,                  \* the entry that udp_transmit resolves
  queried,               \* the addresses that ARP requests were sent for
  given,                 \* history: the reply or command the readiness comes from
  commands

table == <<ipaddr, node, netmask>>
dhcp == <<dhcp_reply, dhcp_server, dhcp_addr>>
loops == <<vend, sent, bootp_retry, reqretry>>
resolution == <<aretry, dest, queried>>
netVars == <<nic, network_ready, table, dhcp, loops, resolution, step, given, commands>>

Discover == [type |-> "DISCOVER", srv |-> NoAddr, addr |-> NoAddr]
Request(s, a) == [type |-> "REQUEST", srv |-> s, addr |-> a]
-----------------------------------------------------------------------------
(* Replies *)

ReplyOf(s, t, y) == [type |-> t, srv |-> s.ip, yiaddr |-> y, next |-> s.next, gateway |-> s.gateway]

(* A DHCP server offers what it has, and grants or refuses a request; a    *)
(* BOOTP server answers every message, without a message type.             *)
BootpReplies ==
  {ReplyOf(s, "OFFER", s.yiaddr) : s \in {x \in AddressServers : x.kind = "dhcp" /\ Discover \in sent}}
  \cup {ReplyOf(s, "ACK", s.yiaddr) :
          s \in {x \in AddressServers : x.kind = "dhcp" /\ Request(x.ip, x.yiaddr) \in sent}}
  \cup {ReplyOf(s, "NAK", NoAddr) :
          s \in {x \in AddressServers : x.kind = "dhcp" /\ \E m \in sent : m.type = "REQUEST" /\ m.srv = x.ip}}
  \cup {ReplyOf(s, "NONE", s.yiaddr) : s \in {x \in AddressServers : x.kind = "bootp" /\ sent # {}}}

(* RFC2132_MSG_TYPE is decoded when the reply has it. *)
DecodedType(r) == IF r.type = "NONE" THEN dhcp_reply ELSE r.type

NodesKilled == [e \in Peers |-> NoAddr]

(* await_reply, on a BOOTP reply: the addresses are taken over at once,    *)
(* whether they are granted or only offered, and the options decoded.      *)
TakeReply(r) ==
  /\ ipaddr' = [ipaddr EXCEPT ![ARP_CLIENT] = r.yiaddr, ![ARP_SERVER] = r.next, ![ARP_GATEWAY] = r.gateway]
  /\ node' = NodesKilled
  /\ netmask' = 1
  /\ dhcp_addr' = r.yiaddr
  /\ dhcp_server' = IF r.type = "NONE" THEN dhcp_server ELSE r.srv
  /\ given' = r.type
-----------------------------------------------------------------------------
(* eth_probe looks for the card once.  MAX_ARP is a sum without brackets,  *)
(* so of the table only the first entry and the second's address are       *)
(* cleared.                                                                *)
ProbedTable == [ipaddr EXCEPT ![ARP_CLIENT] = NoAddr, ![ARP_SERVER] = NoAddr]

Command == step = "idle" /\ commands < MaxCommands /\ commands' = commands + 1

(* bootp and rarp begin with eth_probe and clear the ready flag. *)
Begin(where) ==
  /\ network_ready' = FALSE
  /\ \/ /\ nic = "absent"
        /\ step' = "idle"
        /\ ipaddr' = ProbedTable
        /\ UNCHANGED nic
     \/ /\ nic = "unprobed"
        /\ step' = where /\ nic' = "on"
        /\ ipaddr' = ProbedTable
     \/ /\ nic \in {"on", "off"}
        /\ step' = where
        /\ UNCHANGED <<nic, ipaddr>>
  /\ UNCHANGED node

(* The command bootp or dhcp; set_device runs it only when not ready. *)
bootp ==
  /\ Command
  /\ Begin("discover")
  /\ vend' = Discover /\ sent' = {} /\ bootp_retry' = 0
  /\ UNCHANGED <<netmask, dhcp, reqretry, resolution, given>>

Return(ok) == step' = "idle" /\ network_ready' = ok

(* Mutant: the tries are not counted. *)
SameTry(n) == n

NextTry(n) == n + 1

SendDiscover ==
  /\ step = "discover"
  /\ \/ /\ bootp_retry < MAX_BOOTP_RETRIES
        /\ sent' = sent \cup {vend} /\ bootp_retry' = NextTry(bootp_retry)
        /\ step' = "await_offer"
     \/ /\ bootp_retry >= MAX_BOOTP_RETRIES
        /\ step' = "idle" /\ UNCHANGED <<sent, bootp_retry>>
  /\ UNCHANGED <<nic, network_ready, table, dhcp, vend, reqretry, resolution, given, commands>>

Arrived(replies) == nic = "on" /\ replies # {}

(* Mutant: an offer is taken for an assignment. *)
OfferIsFinal(t) == TRUE

Final(t) == t # "OFFER"

ReceiveOffer ==
  /\ step = "await_offer" /\ Arrived(BootpReplies)
  /\ \E r \in BootpReplies :
       /\ TakeReply(r)
       /\ \/ /\ Final(DecodedType(r))
             /\ dhcp_reply' = DecodedType(r)
             /\ Return(TRUE)
             /\ UNCHANGED <<vend, reqretry>>
          \/ /\ ~Final(DecodedType(r))
             /\ dhcp_reply' = "NONE"
             /\ vend' = Request(dhcp_server', dhcp_addr')
             /\ reqretry' = 0
             /\ step' = "request"
             /\ UNCHANGED network_ready
  /\ UNCHANGED <<nic, sent, bootp_retry, resolution, commands>>

RequestsLeft == reqretry < MAX_BOOTP_RETRIES

SendRequest ==
  /\ step = "request"
  /\ \/ /\ RequestsLeft
        /\ sent' = sent \cup {vend} /\ reqretry' = reqretry + 1
        /\ dhcp_reply' = "NONE"
        /\ step' = "await_ack"
     \/ /\ ~RequestsLeft                      \* back to the outer loop, vend as it is
        /\ step' = "discover" /\ UNCHANGED <<sent, reqretry, dhcp_reply>>
  /\ UNCHANGED <<nic, network_ready, table, dhcp_server, dhcp_addr, vend, bootp_retry, resolution, given,
                 commands>>

ReceiveAck ==
  /\ step = "await_ack" /\ Arrived(BootpReplies)
  /\ \E r \in BootpReplies :
       /\ TakeReply(r)
       /\ dhcp_reply' = DecodedType(r)
       /\ IF DecodedType(r) = "ACK" THEN Return(TRUE)
                                    ELSE step' = "request" /\ UNCHANGED network_ready
  /\ UNCHANGED <<nic, loops, resolution, commands>>

-----------------------------------------------------------------------------
(* rarp *)

rarp ==
  /\ Command
  /\ Begin("rarp")
  /\ bootp_retry' = 0
  /\ UNCHANGED <<netmask, dhcp, vend, sent, reqretry, resolution, given>>

SendRarp ==
  /\ step = "rarp"
  /\ \/ bootp_retry < MAX_ARP_RETRIES /\ step' = "await_rarp"
     \/ bootp_retry >= MAX_ARP_RETRIES /\ step' = "idle"
  /\ UNCHANGED <<nic, network_ready, table, dhcp, loops, resolution, given, commands>>

ReceiveRarp ==
  /\ step = "await_rarp"
  /\ \E s \in {x \in AddressServers : x.kind = "rarp" /\ nic = "on"} :
       /\ ipaddr' = [ipaddr EXCEPT ![ARP_CLIENT] = s.yiaddr, ![ARP_SERVER] = s.ip]
       /\ node' = [node EXCEPT ![ARP_SERVER] = s.ip]
       /\ given' = "RARP"
  /\ Return(TRUE)
  /\ UNCHANGED <<nic, netmask, dhcp, loops, resolution, commands>>
-----------------------------------------------------------------------------
(* udp_transmit to the TFTP server, when a file of (nd) is opened *)

SameNet(a, b) == netmask = 0 \/ a.net = b.net

NextHop == IF ~SameNet(ipaddr[ARP_SERVER], ipaddr[ARP_CLIENT]) /\ ipaddr[ARP_GATEWAY] # NoAddr
           THEN ipaddr[ARP_GATEWAY] ELSE ipaddr[ARP_SERVER]

EntryOf(a) == CHOOSE e \in Entries : ipaddr[e] = a /\ \A f \in Entries : ipaddr[f] = a => e <= f

Resolved(e) == e \in {ARP_CLIENT} \cup {p \in Peers : node[p] # NoAddr}

udp_transmit ==
  /\ Command /\ network_ready
  /\ \/ Resolved(EntryOf(NextHop)) /\ UNCHANGED <<step, aretry, dest>>     \* sent at once
     \/ /\ ~Resolved(EntryOf(NextHop))
        /\ dest' = EntryOf(NextHop) /\ aretry' = 1
        /\ step' = "arp"
  /\ UNCHANGED <<nic, network_ready, table, dhcp, loops, queried, given>>

SendArp ==
  /\ step = "arp"
  /\ \/ /\ aretry <= MAX_ARP_RETRIES
        /\ queried' = queried \cup {ipaddr[dest]} /\ step' = "await_arp"
     \/ aretry > MAX_ARP_RETRIES /\ step' = "idle" /\ UNCHANGED queried
  /\ UNCHANGED <<nic, network_ready, table, dhcp, loops, aretry, dest, given, commands>>

(* Mutant: the sender of the reply is not compared with the address asked. *)
AnyArpReply == queried

ArpReplies == queried \cap {ipaddr[dest]}

(* An owner of an address that was asked for answers, perhaps late. *)
ReceiveArp ==
  /\ step = "await_arp" /\ nic = "on"
  /\ \E a \in ArpReplies : node' = [node EXCEPT ![dest] = a]
  /\ step' = "idle"
  /\ UNCHANGED <<nic, network_ready, ipaddr, netmask, dhcp, loops, resolution, given, commands>>
-----------------------------------------------------------------------------
(* A wait that ends without a reply *)

NoReply ==
  /\ \/ step = "await_offer" /\ step' = "discover" /\ UNCHANGED <<bootp_retry, aretry>>
     \/ step = "await_ack" /\ step' = "request" /\ UNCHANGED <<bootp_retry, aretry>>
     \/ step = "await_rarp" /\ step' = "rarp" /\ bootp_retry' = bootp_retry + 1 /\ UNCHANGED aretry
     \/ step = "await_arp" /\ step' = "arp" /\ aretry' = aretry + 1 /\ UNCHANGED bootp_retry
  /\ UNCHANGED <<nic, network_ready, table, dhcp, vend, sent, reqretry, dest, queried, given,
                 commands>>

(* Ctrl-C *)
CtrlC ==
  /\ step \in {"await_offer", "await_ack", "await_rarp", "await_arp"}
  /\ step' = "idle"
  /\ UNCHANGED <<nic, network_ready, table, dhcp, loops, resolution, given, commands>>
-----------------------------------------------------------------------------
(* ifconfig: every option may be missing, good or bad; the first bad one   *)
(* ends the function, and what was set before it stays.                    *)

None == [net |-> -1, host |-> 0]
Bad == [net |-> -2, host |-> 0]
Option == {None, Bad} \cup Addresses
Typed(o) == o \in Addresses

Usable(a, m) == m # 0 /\ a.host # LastHost /\ a.host # 0

ifconfig(table0, ready0, ip, sm, gw, svr) ==
  LET okSm == sm # "bad"
      okIp == okSm /\ ip # Bad
      okGw == okIp /\ gw # Bad
      okSvr == okGw /\ svr # Bad
      client == IF okIp /\ Typed(ip) THEN ip ELSE table0[ARP_CLIENT]
      mask == IF sm = "mask" THEN 1
              ELSE IF okIp /\ Typed(ip) /\ sm = "none" /\ netmask = 0 THEN 1 ELSE netmask
  IN /\ netmask' = mask
     /\ ipaddr' = [table0 EXCEPT ![ARP_CLIENT] = client,
                                 ![ARP_GATEWAY] = IF okGw /\ Typed(gw) THEN gw ELSE @,
                                 ![ARP_SERVER] = IF okSvr /\ Typed(svr) THEN svr ELSE @]
     /\ node' = [node EXCEPT ![ARP_GATEWAY] = IF okGw THEN NoAddr ELSE @,
                             ![ARP_SERVER] = IF okSvr THEN NoAddr ELSE @]
     /\ network_ready' = IF okSvr /\ (ip # None \/ sm # "none")
                         THEN Usable(client, mask) ELSE ready0
     /\ given' = IF okSvr /\ (ip # None \/ sm # "none") THEN "TYPED" ELSE given
     /\ UNCHANGED <<dhcp, loops, resolution, step>>

(* The command probes the card first; tftpserver does not. *)
ifconfig_func ==
  /\ Command
  /\ \/ /\ nic = "absent"
        /\ network_ready' = FALSE /\ ipaddr' = ProbedTable
        /\ UNCHANGED <<nic, node, netmask, dhcp, loops, resolution, step, given>>
     \/ /\ nic # "absent"
        /\ nic' = IF nic = "unprobed" THEN "on" ELSE nic
        /\ \E ip, gw, svr \in Option, sm \in {"none", "bad", "mask"} :
             ifconfig(IF nic = "unprobed" THEN ProbedTable ELSE ipaddr,
                      nic # "unprobed" /\ network_ready, ip, sm, gw, svr)

tftpserver_func ==
  /\ Command
  /\ \E svr \in Addresses : ifconfig(ipaddr, network_ready, None, "none", None, svr)
  /\ UNCHANGED nic

(* boot_func, whatever it then boots or cannot boot. *)
cleanup_net ==
  /\ Command /\ network_ready
  /\ nic' = "off" /\ network_ready' = FALSE
  /\ UNCHANGED <<table, dhcp, loops, resolution, step, given>>
-----------------------------------------------------------------------------
NetInit ==
  /\ nic \in {"absent", "unprobed"} /\ network_ready = FALSE
  /\ ipaddr = [e \in Entries |-> NoAddr] /\ node = [e \in Peers |-> NoAddr]
  /\ netmask = 0
  /\ dhcp_reply = "NONE" /\ dhcp_server = NoAddr /\ dhcp_addr = NoAddr
  /\ vend = Discover /\ sent = {} /\ bootp_retry = 0 /\ reqretry = 0
  /\ aretry = 0 /\ dest = ARP_SERVER /\ queried = {}
  /\ step = "idle" /\ given = "NONE" /\ commands = 0

UnderWay == SendDiscover \/ ReceiveOffer \/ SendRequest \/ ReceiveAck \/ SendRarp \/ ReceiveRarp
            \/ SendArp \/ ReceiveArp \/ NoReply

NetNext == bootp \/ rarp \/ udp_transmit \/ ifconfig_func \/ tftpserver_func \/ cleanup_net
        \/ CtrlC \/ UnderWay

(* An assumption about the network, not about the code: await_reply looks  *)
(* at its timeout and at Ctrl-C only when the receive queue is empty, so   *)
(* packets that come without a pause and are for nobody here would hold it *)
(* up without end. A wait is taken to end with a reply or with a timeout.  *)
NetWaitsEnd == WF_netVars(UnderWay)

NetSpec == NetInit /\ [][NetNext]_netVars /\ NetWaitsEnd
-----------------------------------------------------------------------------
(***************************************************************************)
(* PROPERTIES                                                              *)
(***************************************************************************)
(* The table of addresses and the variables of the retry loops of main.c   *)
(* keep their types; no loop counts beyond its retries.                    *)
NetTypeOK ==
  /\ nic \in {"absent", "unprobed", "on", "off"} /\ network_ready \in BOOLEAN
  /\ ipaddr \in [Entries -> Address] /\ node \in [Peers -> Address] /\ netmask \in {0, 1}
  /\ dhcp_reply \in {"NONE", "OFFER", "ACK", "NAK"}
  /\ dhcp_server \in Address /\ dhcp_addr \in Address
  /\ vend.type \in {"DISCOVER", "REQUEST"} /\ IsFiniteSet(sent)
  /\ bootp_retry \in 0..(MAX_BOOTP_RETRIES + MAX_ARP_RETRIES) /\ reqretry \in 0..MAX_BOOTP_RETRIES
  /\ aretry \in 0..(MAX_ARP_RETRIES + 1) /\ dest \in Entries /\ queried \subseteq Address
  /\ commands \in 0..MaxCommands

(* A card address in the ARP table is that of the address beside it: no    *)
(* packet goes to the card of an earlier server or gateway, whichever of   *)
(* the commands replaced them, and whenever a reply to an earlier ARP      *)
(* request comes in.                                                       *)
ArpTableTrue == \A e \in Peers : node[e] # NoAddr => node[e] = ipaddr[e]

(* A machine that calls itself ready does not use an address that a DHCP   *)
(* server only offered, also when offers of other servers come in late.    *)
(* (A user who types a mask after an aborted bootp declares it ready.)     *)
NeverOnOfferAlone == network_ready => given # "OFFER"

(* bootp, rarp and the resolution of an address in udp_transmit give up:   *)
(* where each of their waits ends (NetWaitsEnd), their nested loops of     *)
(* retries do too, whatever the replies are and whichever are lost.        *)
CommandsReturn == step # "idle" ~> step = "idle"
=============================================================================
