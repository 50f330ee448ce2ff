----------------------- MODULE MCEpollServerStateful -----------------------
(* Two clients of EpollServerStateful, one of which keeps reading.         *)
EXTENDS EpollServerStateful

CONSTANTS c1, c2

MCConns == {c1, c2}
MCResponsive == {c1}
=============================================================================
