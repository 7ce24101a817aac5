------------------------------- MODULE MCAodv -------------------------------
(***************************************************************************)
(* Three nodes in a line.  The middle one sends two packets to the end c,  *)
(* the second of which finds a request out or a route in use; the other    *)
(* end a sends one, for which b replies or forwards.                       *)
(***************************************************************************)
EXTENDS Aodv

CONSTANTS a, b, c
MCNodes == {a, b, c}
MCLinks == {<<a, b>>, <<b, c>>}
MCPackets == {[src |-> b, dst |-> c, id |-> 1], [src |-> b, dst |-> c, id |-> 2],
              [src |-> a, dst |-> c, id |-> 3]}
=============================================================================
