-------------------------- MODULE MCServerState --------------------------
(***************************************************************************)
(* Instances of ServerState and ServerRooms for TLC.                       *)
(***************************************************************************)
EXTENDS ServerRooms, TLC

CONSTANTS c1, c2, u1, u2, u3

\* Clients behind one NAT: any UDP address may come to be used by either.
SharedIp == [a \in TcpAddrs \union UdpAddrs |-> "ip1"]

SharedIpSymmetry ==
    Permutations(TcpAddrs) \union Permutations(UdpAddrs) \union Permutations(Tokens)

\* Each client behind its own IP; the first has two ports (a NAT rebind).
OwnIps == c1 :> "ip1" @@ c2 :> "ip2" @@ u1 :> "ip1" @@ u2 :> "ip2" @@ u3 :> "ip1"
=============================================================================
