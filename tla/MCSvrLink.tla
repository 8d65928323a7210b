------------------------------- MODULE MCSvrLink -------------------------------
(* SvrLink.tla for TLC: three connections, so that an old request, an old    *)
(* close and a live session can meet; two notices.                          *)
EXTENDS SvrLink

===============================================================================
