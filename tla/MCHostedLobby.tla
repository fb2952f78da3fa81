--------------------------- MODULE MCHostedLobby ---------------------------
(* One client; LobbySession shows that the server's side implements this.   *)
EXTENDS HostedLobby
=============================================================================
