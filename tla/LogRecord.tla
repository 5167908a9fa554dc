------------------------------ MODULE LogRecord ------------------------------
(***************************************************************************)
(* The attributes of a log record (sdk/log/record.go) on its way through   *)
(* the processors of a provider (logger.go): the first Inline of them in   *)
(* an array inside the record, the others in a Go slice, whose array a     *)
(* copy of the record would share.  Each method is called by the goroutine *)
(* that emits the record and is one step.  Arrays that no record refers to *)
(* are garbage and leave mem.  An argument, with the lists and maps among  *)
(* its values, is taken to be built for the call: the code reorders and    *)
(* limits it in place, which matters only to a caller that uses it again.  *)
(***************************************************************************)
EXTENDS LogAttributeValues, Integers, Sequences, SequencesExt

CONSTANTS
  Batches,       (* arguments: sequences of [key, val]                       *)
  Inline,        (* attributesInlineCount                                    *)
  CountLimit,    (* LoggerProvider.attributeCountLimit                       *)
  MaxCalls       (* bound: emitted records and changes made to them          *)

ASSUME BatchAssumption == Batches \subseteq Seq([key : STRING, val : Values])
ASSUME LimitsAssumption == Inline \in Nat /\ CountLimit \in Int
ASSUME CallsAssumption == MaxCalls \in Nat

VARIABLES
  mem,       (* the arrays of slices, by address                             *)
  rec,       (* the record that the processors get, sdk/log Record           *)
  cloned,    (* every clone made of a record                                 *)
  calls

recordVars == <<mem, rec, cloned, calls>>

(* front, with nFront its length; back, its array (0 for none) and length. *)
NewRecord == [front |-> <<>>, arr |-> 0, len |-> 0, dropped |-> 0]

RecordInit == mem = <<>> /\ rec = NewRecord /\ cloned = <<>> /\ calls = 0

-----------------------------------------------------------------------------
(* Records in memory: functions of h, which has the fields mem and rec.    *)

Back(m, r) == IF r.arr = 0 THEN <<>> ELSE SubSeq(m[r.arr], 1, r.len)

Fresh(m) == Min(1..(Cardinality(DOMAIN m) + 1) \ DOMAIN m)

Limits(kvs) == [i \in DOMAIN kvs |-> [kvs[i] EXCEPT !.val = Limited(@)]]

Nested(kvs) == SumFunction([i \in DOMAIN kvs |-> NestedDrops(kvs[i].val)])

Place(kvs, k) == SelectInSeq(kvs, LAMBDA a : a.key = k)

(* One round of the loops of dedup and AddAttributes: the last value of a  *)
(* key takes the place of the first, here or in the record.                *)
Merge(s, a) ==
  LET Has(part) == Place(s[part], a.key) # 0
      Replaced(part) == [s EXCEPT ![part][Place(s[part], a.key)] = a, !.dropped = @ + 1]
  IN IF Has("unique") THEN Replaced("unique")
     ELSE IF Has("front") THEN Replaced("front")
     ELSE IF Has("back") THEN Replaced("back")
     ELSE [s EXCEPT !.unique = Append(@, a)]

Merged(front, back, dropped0, kvs) ==
  FoldLeft(Merge, [front |-> front, back |-> back, unique |-> <<>>, dropped |-> dropped0], kvs)

(* head, and its counterpart in AddAttributes for n attributes present. *)
Fitting(unique, n) ==
  IF CountLimit > 0 /\ n + Len(unique) > CountLimit THEN SubSeq(unique, 1, CountLimit - n) ELSE unique

(* An array that holds kvs, at a new address. *)
Allocated(m, kvs) ==
  IF kvs = <<>> THEN [mem |-> m, arr |-> 0]
  ELSE [mem |-> [x \in DOMAIN m \cup {Fresh(m)} |-> IF x = Fresh(m) THEN kvs ELSE m[x]],
        arr |-> Fresh(m)]

(* slices.Clone of the back of r. *)
SharedBack(m, r) == [mem |-> m, arr |-> r.arr]      \* mutant: res := *r only

CloneBack(m, r) == Allocated(m, Back(m, r))

(* The values of the back are replaced in place; then it grows by more in  *)
(* its array or, as slices.Grow decides, in a new one.                     *)
Grown(m, r, back, more, moves) ==
  LET written == IF r.arr = 0 THEN m ELSE [m EXCEPT ![r.arr] = back \o SubSeq(@, r.len + 1, Len(@))]
  IN IF more = <<>> THEN [mem |-> written, arr |-> r.arr]
     ELSE IF r.arr = 0 \/ moves THEN Allocated(written, back \o more)
     ELSE [mem |-> [written EXCEPT ![r.arr] = back \o more], arr |-> r.arr]

AddTo(h, kvs, moves) ==
  LET r == h.rec
      n == Len(r.front) + r.len
      s == Merged(r.front, Back(h.mem, r), IF n = 0 THEN 0 ELSE r.dropped, kvs)
      fit == Fitting(s.unique, n)
      inline == Inline - Len(r.front)
      more == Limits(SubSeq(fit, inline + 1, Len(fit)))
      g == Grown(h.mem, r, s.back, more, moves)
  IN [mem |-> g.mem,
      rec |-> [front |-> s.front \o Limits(SubSeq(fit, 1, Min({inline, Len(fit)}))),
               arr |-> g.arr, len |-> r.len + Len(more),
               dropped |-> s.dropped + Len(s.unique) - Len(fit) + Nested(fit)]]

-----------------------------------------------------------------------------
(* Arrays that rec and the clones do not refer to are collected. *)
Become(h, made) ==
  /\ rec' = h.rec
  /\ cloned' = cloned \o made
  /\ mem' = Restrict(h.mem, ({rec'.arr} \cup {cloned'[i].arr : i \in DOMAIN cloned'}) \ {0})

Called(h) == calls < MaxCalls /\ calls' = calls + 1 /\ Become(h, <<>>)

Now == [mem |-> mem, rec |-> rec]

Zeroed == [mem |-> mem, rec |-> NewRecord]

(* logger.newRecord adds the attributes of the emitted record one by one. *)
Emit(kvs) == Called(FoldLeft(LAMBDA h, a : AddTo(h, <<a>>, TRUE), Zeroed, kvs))

AddAttributes(kvs) == \E moves \in BOOLEAN : Called(AddTo(Now, kvs, moves))

(* The attributes there are forgotten, front and back. *)
SetAttributes(kvs) == Called(AddTo(Zeroed, kvs, TRUE))

Clone ==
  LET c == CloneBack(mem, rec)
  IN Become([Now EXCEPT !.mem = c.mem], <<[rec EXCEPT !.arr = c.arr]>>) /\ UNCHANGED calls

RecordNext == \E kvs \in Batches : Emit(kvs) \/ AddAttributes(kvs) \/ SetAttributes(kvs)

-----------------------------------------------------------------------------
(* Properties. *)

Attributes(r) == r.front \o Back(mem, r)

Held(r) ==
  LET s == Attributes(r)
  IN [k \in {s[i].key : i \in DOMAIN s} |-> s[Place(s, k)].val]

(* A record under way and every clone of one are maps as LogAttributes has *)
(* them: no key twice nor more keys than a positive limit, the last value  *)
(* of each, every other attribute counted as dropped whichever way         *)
(* AddAttributes takes, and nothing done to a record reaches a clone, in   *)
(* the queue or exported already (record.go, AddAttributes and Clone).     *)
Abstract == INSTANCE LogAttributes WITH
  attrs <- Held(rec), dropped <- rec.dropped,
  clones <- [i \in DOMAIN cloned |-> [attrs |-> Held(cloned[i]), dropped |-> cloned[i].dropped]]

ImplementsAttributes == Abstract!Spec /\ [](Cardinality(DOMAIN Held(rec)) = Len(Attributes(rec)))
=============================================================================
