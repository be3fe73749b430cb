------------------------------ MODULE MCChatHub ------------------------------
(***************************************************************************)
(* Two clients of one room and one of another, channels of two messages    *)
(* and one text: a client that does not read is dropped while it joins,   *)
(* while it reads and while it leaves.                                     *)
(***************************************************************************)
EXTENDS ChatHub, TLC

CONSTANTS alice, bob, carol, lobby, games

MCClients == {alice, bob, carol}
MCRoom == (alice :> lobby) @@ (bob :> lobby) @@ (carol :> games)
=============================================================================
