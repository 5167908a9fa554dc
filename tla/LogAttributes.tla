---------------------------- MODULE LogAttributes ----------------------------
(***************************************************************************)
(* The attributes of log records as a map (sdk/log/record.go): a record    *)
(* under way through the processors keeps the value given last, admits new *)
(* keys while it has fewer than CountLimit, and counts what it did not     *)
(* admit or replaced; a clone is what the record was when it was cloned,   *)
(* for ever.  In two points this is the code and not its documentation in  *)
(* provider.go: a value that replaces one of an earlier call is not        *)
(* limited, and a CountLimit of 0 limits nothing.                          *)
(***************************************************************************)
EXTENDS LogAttributeValues, Integers, Sequences, SequencesExt

CONSTANTS CountLimit, Batches      (* Batches: sequences of [key, val] *)

VARIABLES
  attrs, dropped,   (* of the record that passes through the processors      *)
  clones            (* [attrs, dropped] of each record cloned                *)

vars == <<attrs, dropped, clones>>

Init == attrs = <<>> /\ dropped = 0 /\ clones = <<>>     \* <<>> is the map of no key

KeysOf(kvs) == {kvs[i].key : i \in DOMAIN kvs}

LastValue(kvs, k) == kvs[SelectLastInSeq(kvs, LAMBDA a : a.key = k)].val

(* The keys of kvs that a map with the keys held admits: the first ones.   *)
Admitted(held, kvs) ==
  {k \in KeysOf(kvs) \ held :
     LET before == KeysOf(SubSeq(kvs, 1, SelectInSeq(kvs, LAMBDA a : a.key = k) - 1))
     IN CountLimit > 0 => Cardinality(held \cup before) < CountLimit}

(* Adding to the map m, of which d attributes were dropped. *)
Added(m, d, kvs) ==
  LET new == Admitted(DOMAIN m, kvs)
  IN [attrs |-> [k \in DOMAIN m \cup new |->
                   IF k \in new THEN Limited(LastValue(kvs, k))
                   ELSE IF k \in KeysOf(kvs) THEN LastValue(kvs, k) ELSE m[k]],
      dropped |-> d + Len(kvs) - Cardinality(new)
                    + SumFunction([k \in new |-> NestedDrops(LastValue(kvs, k))])]

Become(r) == attrs' = r.attrs /\ dropped' = r.dropped

SetAttributes(kvs) == Become(Added(<<>>, 0, kvs)) /\ UNCHANGED clones

AddAttributes(kvs) == Become(Added(attrs, dropped, kvs)) /\ UNCHANGED clones

(* A new record gets the attributes of the emitted one by one. *)
Emit(kvs) ==
  /\ Become(FoldLeft(LAMBDA r, a : Added(r.attrs, r.dropped, <<a>>),
                     [attrs |-> <<>>, dropped |-> 0], kvs))
  /\ UNCHANGED clones

Clone ==
  /\ clones' = Append(clones, [attrs |-> attrs, dropped |-> dropped])
  /\ UNCHANGED <<attrs, dropped>>

Next ==
  \/ \E kvs \in Batches : SetAttributes(kvs) \/ AddAttributes(kvs) \/ Emit(kvs)
  \/ Clone

Spec == Init /\ [][Next]_vars
=============================================================================
