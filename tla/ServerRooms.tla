---------------------------- MODULE ServerRooms ----------------------------
(***************************************************************************)
(* The registry implements VoiceRooms: what the relay reads from the peer  *)
(* cache is what the rooms promise, tokens admit exactly the clients that  *)
(* are in a room, and keys, direct messages, token lifetimes and grace     *)
(* periods do not show.                                                    *)
(***************************************************************************)
EXTENDS ServerState

Voice == INSTANCE VoiceRooms WITH
             Clients <- TcpAddrs, Addrs <- UdpAddrs, Ip <- IpOf,
             Rooms <- Channels, Permanent <- Persistent, Nobody <- None,
             at <- channel, adr <- udpAddr, open <- channels, heard <- peerCache

(* Every behaviour of the registry, seen through the channel and address   *)
(* of each client, the existing channels and the relay's peer cache, is a  *)
(* behaviour of VoiceRooms: no late hello, leave, disconnect, rebind or    *)
(* cleanup changes what a room hears in a way its members did not ask for. *)
ImplementsVoiceRooms == Voice!Spec
=============================================================================
