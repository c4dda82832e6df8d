----------------------------- MODULE MCNetConfig -----------------------------
(* An instance of NetConfig: two DHCP servers, a BOOTP and a RARP server.   *)
EXTENDS NetConfig

IP(n, h) == [net |-> n, host |-> h]

MCServers ==
  {[kind |-> "dhcp", ip |-> IP(1, 1), yiaddr |-> IP(1, 5), next |-> IP(1, 1), gateway |-> IP(1, 3)],
   [kind |-> "dhcp", ip |-> IP(1, 2), yiaddr |-> IP(1, 6), next |-> IP(2, 1), gateway |-> IP(1, 3)],
   [kind |-> "bootp", ip |-> IP(1, 2), yiaddr |-> IP(1, 7), next |-> IP(1, 2), gateway |-> NoAddr],
   [kind |-> "rarp", ip |-> IP(1, 2), yiaddr |-> IP(1, 7), next |-> NoAddr, gateway |-> NoAddr]}
MCAddresses == {IP(1, 4)}
=============================================================================
