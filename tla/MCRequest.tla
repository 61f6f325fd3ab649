------------------------------ MODULE MCRequest ------------------------------
(* Request for TLC: bodies shorter than, as long as and longer than the    *)
(* capture limit, with the limit falling inside and between chunks.        *)
EXTENDS Request

MCFinal == {200, 404, 500}
EarlyHints == {103}
NoFlush == {FALSE}
AnyFlush == BOOLEAN
CopyingRedactors == {"none", "copying"}
AllRedactors == {"none", "copying", "inPlace", "appending"}
==============================================================================
