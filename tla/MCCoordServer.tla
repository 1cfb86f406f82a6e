--------------------------- MODULE MCCoordServer ---------------------------
(* The instance of CoordServer for TLC.                                    *)
EXTENDS CoordServer

CONSTANTS p1, p2, d1, d2, ch1

\* Two sources and two destinations, all naming one channel.
SharedChan == [c \in {p1, p2, d1, d2} |-> ch1]
=============================================================================
