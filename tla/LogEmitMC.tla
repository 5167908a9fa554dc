------------------------------ MODULE LogEmitMC ------------------------------
(* A small instance of LogEmit for TLC: keys repeated within a call and    *)
(* between calls, more keys than the limit, values to be limited.          *)
EXTENDS LogEmit

Attr(k, v) == [key |-> k, val |-> v]

MCBatches ==
  { <<>>,
    <<Attr("a", "long")>>,
    <<Attr("b", "twice"), Attr("a", "short")>>,
    <<Attr("a", "long"), Attr("b", "short"), Attr("a", "twice")>>,
    <<Attr("c", "twice"), Attr("b", "long"), Attr("d", "twice")>>,
    <<Attr("d", "short"), Attr("c", "long"), Attr("d", "twice"), Attr("a", "long")>> }
=============================================================================
