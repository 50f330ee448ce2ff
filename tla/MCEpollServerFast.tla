------------------------- MODULE MCEpollServerFast -------------------------
(***************************************************************************)
(* Small instances of EpollServerFast: two clients, which is the least for *)
(* one to suffer from what the server does for the other.                  *)
(***************************************************************************)
EXTENDS EpollServerFast

CONSTANTS c1, c2

MCConns == {c1, c2}
MCResponsive == {c1}
=============================================================================
