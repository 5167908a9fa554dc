--------------------------- MODULE SpanAttributes ---------------------------
(***************************************************************************)
(* What sdk/trace/span.go promises of a span's attributes (the comments of *)
(* SetAttributes and ReadOnlySpan): a map that keeps the value written     *)
(* last, to which keys are admitted until there are Limit of them, and a   *)
(* count of the attributes that were not.  A negative limit is none.       *)
(***************************************************************************)
EXTENDS Integers, Sequences, FiniteSets, SequencesExt

CONSTANTS Limit, Batches     (* Batches: the arguments of SetAttributes *)

VARIABLES attrs, dropped

vars == <<attrs, dropped>>

Init == attrs = <<>> /\ dropped = 0     \* <<>> is the map of no key

Valid(a) == a.key # ""

KeysOf(kvs) == {kvs[i].key : i \in {j \in DOMAIN kvs : Valid(kvs[j])}}

(* How many keys that the map does not hold come before position i. *)
NewBefore(kvs, i) == Cardinality(KeysOf(SubSeq(kvs, 1, i - 1)) \ DOMAIN attrs)

Admitted(kvs) ==
  {k \in KeysOf(kvs) \ DOMAIN attrs :
     \/ Limit < 0
     \/ \E i \in DOMAIN kvs :
          /\ kvs[i].key = k
          /\ Cardinality(DOMAIN attrs) + NewBefore(kvs, i) < Limit}

LastValue(kvs, k) ==
  kvs[SelectLastInSeq(kvs, LAMBDA a : a.key = k)].val

Set(kvs) ==
  LET keys == DOMAIN attrs \cup Admitted(kvs)
  IN /\ attrs' = [k \in keys |-> IF k \in KeysOf(kvs) THEN LastValue(kvs, k) ELSE attrs[k]]
     /\ dropped' = dropped
          + Cardinality({i \in DOMAIN kvs : ~Valid(kvs[i]) \/ kvs[i].key \notin keys})

Next == \E kvs \in Batches : Set(kvs)

Spec == Init /\ [][Next]_vars
=============================================================================
