-------------------------------- MODULE Span --------------------------------
(***************************************************************************)
(* A recording span (sdk/trace/span.go) used by several goroutines.  Each  *)
(* method first asks IsRecording, which takes and releases the span's      *)
(* mutex, and does its work under the mutex afterwards, so it is two steps *)
(* and the span may end in between.  The attributes are a Go slice: an     *)
(* array that grows by being copied, and a length.  snapshot hands that    *)
(* slice to the span processors without copying it.                        *)
(***************************************************************************)
EXTENDS Integers, Sequences, FiniteSets, SequencesExt

CONSTANTS
  Threads,
  StartBatches,   (* what newRecordingSpan passes to SetAttributes            *)
  Batches,        (* arguments of SetAttributes: sequences of [key, val]; the *)
                  (* key "" makes an attribute invalid, val is a text length  *)
  Codes,          (* arguments of SetStatus: 0 unset, 1 error, 2 ok           *)
  Limit,          (* SpanLimits.AttributeCountLimit                           *)
  ValueLimit,     (* SpanLimits.AttributeValueLengthLimit                     *)
  Capacity,       (* EventCountLimit and LinkCountLimit                       *)
  MaxCalls,       (* bound: method calls on the span                          *)
  MaxSlack        (* bound: cells append allocates beyond what it must        *)

Queues == {"events", "links"}

ASSUME LimitAssumption == Limit \in Int /\ ValueLimit \in Int
ASSUME CapacityAssumption == Capacity \in [Queues -> Int]
ASSUME BatchAssumption ==
  LET Attributes == Seq([key : STRING, val : Nat])
  IN Batches \subseteq Attributes /\ StartBatches \in Seq(Attributes)
ASSUME BoundAssumption == MaxCalls \in Nat /\ MaxSlack \in Nat

VARIABLES
  starting,   (* batches newRecordingSpan still has to set                    *)
  mem,        (* every array allocated for attributes                         *)
  slice,      (* s.attributes: [arr, len]                                     *)
  dropped,    (* s.droppedAttributes                                          *)
  queue,      (* s.events and s.links: [held, dropped] of serial numbers      *)
  added,      (* how many were ever added to either (history)                 *)
  status, children, ended,
  pc, arg,    (* per thread: where it is, and its argument                    *)
  calls,
  snaps       (* the snapshots delivered to OnEnd, with history               *)

spanVars == <<mem, slice, dropped, queue, added, status, children, ended>>
threadVars == <<pc, arg, calls>>
vars == <<starting, spanVars, threadVars, snaps>>

Nil == [key |-> "", val |-> 0]

(* The argument of a thread's call: the attributes of SetAttributes, and   *)
(* in n the code of SetStatus or the snapshot that End goes on with.       *)
NoArg == [kvs |-> <<>>, n |-> 0]

Init ==
  /\ starting = StartBatches
  /\ mem = << <<>> >> /\ slice = [arr |-> 1, len |-> 0]
  /\ dropped = 0
  /\ queue = [w \in Queues |-> [held |-> <<>>, dropped |-> 0]]
  /\ added = [w \in Queues |-> 0]
  /\ status = 0 /\ children = 0 /\ ended = FALSE
  /\ pc = [t \in Threads |-> "idle"] /\ arg = [t \in Threads |-> NoArg]
  /\ calls = 0 /\ snaps = <<>>

-----------------------------------------------------------------------------
(* Slices of attributes. *)

Read(s) == SubSeq(mem[s.arr], 1, s.len)

Valid(a) == a.key # ""

(* truncateAttr; a value is its length. *)
Truncated(a) ==
  IF ValueLimit >= 0 /\ a.val > ValueLimit THEN [a EXCEPT !.val = ValueLimit] ELSE a

IndexOf(s, k) == SelectInSeq(s, LAMBDA a : a.key = k)

LastOf(s, k) == CHOOSE i \in DOMAIN s : s[i].key = k /\ \A j \in (i + 1)..Len(s) : s[j].key # k

(* One round of dedupeAttrsFromRecord's loop on unique: the first place of *)
(* a key gets its last value.                                              *)
Unique(unique, a) ==
  IF IndexOf(unique, a.key) # 0
  THEN [unique EXCEPT ![IndexOf(unique, a.key)] = a]
  ELSE Append(unique, a)

FirstValueKept(s) ==                          \* mutant: duplicates do not update
  FoldLeft(LAMBDA u, a : IF IndexOf(u, a.key) # 0 THEN u ELSE Append(u, a), <<>>, s)

Dedupe(s) == FoldLeft(Unique, <<>>, s)

(* One round of SetAttributes's own loop on [attrs, dropped]. *)
AddUnderCap(r, a) ==
  IF Valid(a) THEN [r EXCEPT !.attrs = Append(@, Truncated(a))]
  ELSE [r EXCEPT !.dropped = @ + 1]

(* One round of addOverCapAttrs's loop. *)
AddOverCap(r, a) ==
  IF Valid(a) /\ IndexOf(r.attrs, a.key) # 0
  THEN [r EXCEPT !.attrs[IndexOf(r.attrs, a.key)] = a]
  ELSE IF ~Valid(a) \/ Len(r.attrs) >= Limit
  THEN [r EXCEPT !.dropped = @ + 1]
  ELSE [r EXCEPT !.attrs = Append(@, Truncated(a))]

Overwrite(cells, s) == s \o SubSeq(cells, Len(s) + 1, Len(cells))

Cells(s, cap) == s \o [i \in 1..(cap - Len(s)) |-> Nil]

(* s.attributes, holding from, grows to have room for need more and then   *)
(* holds to: in the array it has when that is large enough, and otherwise  *)
(* in a new one.                                                           *)
Store(from, need, to) ==
  LET cells == Overwrite(mem[slice.arr], from)
  IN IF Len(cells) - Len(from) >= need
     THEN /\ mem' = [mem EXCEPT ![slice.arr] = Overwrite(cells, to)]
          /\ slice' = [slice EXCEPT !.len = Len(to)]
     ELSE \E slack \in 0..MaxSlack :
            /\ mem' = Append([mem EXCEPT ![slice.arr] = cells],
                             Cells(to, Len(from) + need + slack))
            /\ slice' = [arr |-> Len(mem) + 1, len |-> Len(to)]

MinOf(a, b) == IF a < b THEN a ELSE b

OnlyWhenFull(n) == Limit > 0 /\ slice.len >= Limit        \* mutant: n is not counted

OverLimit(n) == Limit > 0 /\ slice.len + n > Limit

(* The critical section of SetAttributes. *)
SetAttributes(kvs) ==
  LET n == Len(kvs)
      u == Dedupe(Read(slice))
      over == FoldLeft(AddOverCap, [attrs |-> u, dropped |-> 0], kvs)
      under == FoldLeft(AddUnderCap, [attrs |-> Read(slice), dropped |-> 0], kvs)
  IN IF Limit = 0
     THEN dropped' = dropped + n /\ UNCHANGED <<mem, slice>>
     ELSE IF OverLimit(n)
     THEN /\ Store(u, MinOf(n + Len(u), Limit), over.attrs)
          /\ dropped' = dropped + over.dropped
     ELSE /\ Store(Read(slice), slice.len + n, under.attrs)
          /\ dropped' = dropped + under.dropped

-----------------------------------------------------------------------------
(* evictedQueue.add on a record [held, dropped]. *)

NotShifted(s) == Front(s)                     \* mutant: cut without the copy, the newest gives way

Kept(s) == Tail(s)

Add(w) ==
  LET q == queue[w]
      x == added[w] + 1
  IN /\ added' = [added EXCEPT ![w] = x]
     /\ queue' = [queue EXCEPT ![w] =
          IF Capacity[w] = 0
          THEN [q EXCEPT !.dropped = @ + 1]
          ELSE IF Len(q.held) = Capacity[w]
          THEN [held |-> Append(Kept(q.held), x), dropped |-> q.dropped + 1]
          ELSE [q EXCEPT !.held = Append(@, x)]]

-----------------------------------------------------------------------------
Goto(t, label) == pc' = [pc EXCEPT ![t] = label]

(* newRecordingSpan sets the sampler's and then the caller's attributes    *)
(* before anybody else knows the span.                                     *)
Start ==
  /\ starting # <<>>
  /\ SetAttributes(Head(starting))
  /\ starting' = Tail(starting)
  /\ UNCHANGED <<queue, added, status, children, ended, threadVars, snaps>>

(* IsRecording, at the beginning of every method that changes the span.    *)
Call(t, label, kvs, n) ==
  /\ starting = <<>> /\ pc[t] = "idle" /\ calls < MaxCalls
  /\ calls' = calls + 1
  /\ IF ended
     THEN UNCHANGED <<pc, arg>>
     ELSE Goto(t, label) /\ arg' = [arg EXCEPT ![t] = [kvs |-> kvs, n |-> n]]
  /\ UNCHANGED <<starting, spanVars, snaps>>

Calls(t) ==
  \/ \E kvs \in Batches : Call(t, "SetAttributes", kvs, 0)
  \/ \E c \in Codes : Call(t, "SetStatus", <<>>, c)
  \/ \E label \in {"events", "links", "addChild", "end", "panic"} : Call(t, label, <<>>, 0)

Return(t) == Goto(t, "idle") /\ arg' = [arg EXCEPT ![t] = NoArg] /\ UNCHANGED calls

LateSetAttributes(t) ==
  /\ pc[t] = "SetAttributes"
  /\ SetAttributes(arg[t].kvs)
  /\ Return(t)
  /\ UNCHANGED <<starting, queue, added, status, children, ended, snaps>>

LateAdd(t) ==
  /\ pc[t] \in Queues
  /\ Add(pc[t])
  /\ Return(t)
  /\ UNCHANGED <<starting, mem, slice, dropped, status, children, ended, snaps>>

LateSetStatus(t) ==
  /\ pc[t] = "SetStatus"
  /\ status' = IF status > arg[t].n THEN status ELSE arg[t].n
  /\ Return(t)
  /\ UNCHANGED <<starting, mem, slice, dropped, queue, added, children, ended, snaps>>

LateAddChild(t) ==
  /\ pc[t] = "addChild"
  /\ children' = children + 1
  /\ Return(t)
  /\ UNCHANGED <<starting, mem, slice, dropped, queue, added, status, ended, snaps>>

(* Attributes, a getter, removes duplicates where they are. *)
Attributes(t) ==
  /\ starting = <<>> /\ pc[t] = "idle" /\ calls < MaxCalls
  /\ calls' = calls + 1
  /\ Store(Dedupe(Read(slice)), 0, Dedupe(Read(slice)))
  /\ UNCHANGED <<starting, dropped, queue, added, status, children, ended, pc, arg, snaps>>

(* End, called by a deferred function while panicking, adds an event. *)
EndPanicEvent(t) ==
  /\ pc[t] = "panic"
  /\ Add("events")
  /\ Goto(t, "end")
  /\ UNCHANGED <<starting, mem, slice, dropped, status, children, ended, arg, calls, snaps>>

EndMark(t) ==
  /\ pc[t] = "end"
  /\ ended' = TRUE
  /\ Goto(t, "snapshot")
  /\ UNCHANGED <<starting, mem, slice, dropped, queue, added, status, children, arg, calls, snaps>>

Reported(w) == IF queue[w].held = <<>> THEN 0 ELSE queue[w].dropped

(* snapshot, and the processors' OnEnd is next.  keys and added are    *)
(* history.                                                                *)
Snapshot(t) ==
  LET u == Dedupe(Read(slice))
  IN /\ pc[t] = "snapshot"
     /\ Store(u, 0, u)
     /\ snaps' = Append(snaps,
          [attrs |-> slice', keys |-> [i \in DOMAIN u |-> u[i].key], dropped |-> dropped,
           held |-> [w \in Queues |-> queue[w].held], lost |-> [w \in Queues |-> Reported(w)],
           added |-> added, status |-> status, children |-> children])
     /\ Goto(t, "OnEnd")
     /\ arg' = [arg EXCEPT ![t].n = Len(snaps')]
     /\ UNCHANGED <<starting, dropped, queue, added, status, children, ended, calls>>

SpanNext ==
  \/ Start
  \/ \E t \in Threads :
       \/ Calls(t)
       \/ LateSetAttributes(t) \/ LateAdd(t) \/ LateSetStatus(t) \/ LateAddChild(t)
       \/ Attributes(t)
       \/ EndPanicEvent(t) \/ EndMark(t) \/ Snapshot(t)

-----------------------------------------------------------------------------
(* Properties. *)

(* The attributes are the map that the comments promise: whichever of its  *)
(* two ways SetAttributes takes, and whenever duplicates are removed, the  *)
(* last value of each admitted key is read and every other attribute is    *)
(* counted (span.go, SetAttributes and addOverCapAttrs).  Values are       *)
(* compared up to the length limit: addOverCapAttrs does not truncate the  *)
(* value of an update.                                                     *)
Current ==
  LET s == Read(slice)
  IN [k \in {s[i].key : i \in DOMAIN s} |-> Truncated(s[LastOf(s, k)]).val]

AllBatches ==
  {[i \in DOMAIN kvs |-> Truncated(kvs[i])] :
     kvs \in Batches \cup {StartBatches[j] : j \in DOMAIN StartBatches}}

Map == INSTANCE SpanAttributes WITH attrs <- Current, Batches <- AllBatches

ImplementsMap == Map!Spec

(* What a processor received keeps its keys, each once and at most Limit,  *)
(* although it shares its array with the span: late calls and getters may  *)
(* replace values in it but never a key (span.go, snapshot).               *)
SnapshotKeysStable ==
  \A n \in DOMAIN snaps :
    LET s == snaps[n]
    IN /\ [i \in 1..s.attrs.len |-> Read(s.attrs)[i].key] = s.keys
       /\ \A i, j \in DOMAIN s.keys : s.keys[i] = s.keys[j] => i = j
       /\ Limit >= 0 => Len(s.keys) <= Limit

(* An event or link queue holds the last ones added, in order, and with    *)
(* those it counts as dropped that is all of them; so does every snapshot  *)
(* of a queue that can hold any (evictedqueue.go).  From a queue without   *)
(* room snapshot takes no drop count.                                      *)
NewestKept ==
  \A w \in Queues :
    LET Newest(held, lost, n) ==
          /\ Len(held) + lost = n
          /\ \A i \in DOMAIN held : held[i] = n - Len(held) + i
    IN /\ Newest(queue[w].held, queue[w].dropped, added[w])
       /\ Capacity[w] # 0 =>
            \A i \in DOMAIN snaps : Newest(snaps[i].held[w], snaps[i].lost[w], snaps[i].added[w])
=============================================================================
