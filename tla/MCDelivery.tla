----------------------------- MODULE MCDelivery ------------------------------
(* Delivery for TLC: a JSON exporter e1 and a webhook e2.                   *)
EXTENDS Delivery

CONSTANTS i1, i2, c1, c2, e1, e2, k1

MCIds       == {i1, i2}
MCClasses   == {k1}
MCCallers   == {c1, c2}
MCExporters == {e1, e2}
MCWriters   == {e1}
==============================================================================
