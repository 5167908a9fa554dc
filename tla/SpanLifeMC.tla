----------------------------- MODULE SpanLifeMC -----------------------------
(* A small instance of SpanLife for TLC: two keys too many for the limit,  *)
(* an invalid attribute, duplicates within and between calls.              *)
EXTENDS SpanLife

Attr(k, v) == [key |-> k, val |-> v]

MCStart == << <<Attr("a", 2)>>, <<Attr("a", 1), Attr("", 1)>> >>
MCBatches == { <<Attr("a", 3)>>, <<Attr("b", 1), Attr("c", 1)>> }
MCCodes == {1}
MCCapacity == [events |-> 2, links |-> 1]
=============================================================================
