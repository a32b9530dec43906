--------------------------- MODULE MCQuicSession ---------------------------
(* The session manager with two clients and two goroutines: two first      *)
(* datagrams of one client can race, a session can be replaced under its   *)
(* key while its old relay and the collector still act on it, and there    *)
(* can be a bystander under another key.                                   *)
EXTENDS QuicSession
=============================================================================
