--------------------------- MODULE ExpoHistogram ---------------------------
(***************************************************************************)
(* The exponential histogram of the metric SDK (sdk/metric/internal/       *)
(* aggregate/exponential_histogram.go) with delta temporality and the      *)
(* cardinality limit of limit.go.  measure and delta hold valuesMu         *)
(* throughout, so each is one step.  A measurement is its sign and the     *)
(* position of its magnitude: the binary logarithm in units of half a      *)
(* bucket of the finest scale, so that even positions lie on boundaries.   *)
(***************************************************************************)
EXTENDS Integers, Sequences, FiniteSets, FiniteSetsExt, Functions

CONSTANTS
  MaxSize,      (* buckets for each sign at most                              *)
  MaxScale,     (* the scale of a new data point                              *)
  AggLimit,     (* the cardinality limit                                      *)
  AttrSets,     (* the attribute sets of measurements                         *)
  Positions, NegPositions,   (* where positive and negative measurements lie  *)
  MaxMeasured    (* bound: measurements of a collection interval               *)

expoMaxScale == 20
expoMinScale == -10

(* A shift by n bits. *)
Pow2[n \in Nat] == IF n = 0 THEN 1 ELSE 2 * Pow2[n - 1]

Unit == Pow2[MaxScale + 1]
Overflow == "overflow"

(* The magnitudes of float64 go from 2^-1074 to just below 2^1024.         *)
ASSUME SizeAssumption == MaxSize \in Nat \ {0} /\ AggLimit \in Nat \ {0} /\ MaxMeasured \in Nat
ASSUME ScaleAssumption == MaxScale \in 0..expoMaxScale
ASSUME RangeAssumption == Positions \cup NegPositions \subseteq (-1074 * Unit)..(1024 * Unit - 1)
ASSUME SetAssumption == Overflow \notin AttrSets

VARIABLES
  values,       (* per attribute set its data point, NoPoint when there is none *)
  spilled       (* the attribute sets measured into the overflow (history)    *)

histVars == <<values, spilled>>

Sets == AttrSets \cup {Overflow}

Measurements ==
  [sign : {"pos"}, at : Positions] \cup [sign : {"neg"}, at : NegPositions]
    \cup {[sign |-> "zero", at |-> 0]}

(* counts is the slice, spare what its array holds beyond it.              *)
NoBuckets == [start |-> 0, counts |-> <<>>, spare |-> <<>>]

(* seen is history: how often each measurement was made.                   *)
NoPoint == [scale |-> MaxScale, count |-> 0, zero |-> 0, pos |-> NoBuckets, neg |-> NoBuckets,
            seen |-> [m \in Measurements |-> 0]]

HistInit == values = [a \in Sets |-> NoPoint] /\ spilled = {}

Present == {a \in Sets : values[a].count > 0}

-----------------------------------------------------------------------------
(* Buckets. *)

(* Frexp gives a fraction from a half and an exponent; the logarithm of    *)
(* the fraction is not positive, and its conversion to int rounds it up.   *)
getBin(at, scale) ==
  LET exp == at \div Unit + 1
      correction == IF at % Unit = 0 THEN 2 ELSE 1
  IN IF scale <= 0
     THEN (exp - correction) \div Pow2[-scale]
     ELSE exp * Pow2[scale] - ((exp * Unit - at) * Pow2[scale]) \div Unit - 1

TooWide(span) == span > MaxSize               \* mutant: >= made >

TooSoon(span) == span >= MaxSize - 1          \* mutant: one bucket is never used

DoesNotFit(span) == span >= MaxSize

scaleChange(bin, b) ==
  LET low == IF b.start >= bin THEN bin ELSE b.start
      high == IF b.start >= bin THEN b.start + Len(b.counts) - 1 ELSE bin
      most == expoMaxScale - expoMinScale + 1
  IN IF b.counts = <<>> THEN 0
     ELSE Min({n \in 0..most : n = most \/ ~DoesNotFit((high \div Pow2[n]) - (low \div Pow2[n]))})

(* The array for n counts: the old one if it is large enough, else one     *)
(* that append allocates, twice as large or as large as needed.            *)
Array(b, n) ==
  LET cap == Len(b.counts) + Len(b.spare)
      size == Max({n, 2 * cap})
  IN IF n <= cap THEN b.counts \o b.spare
     ELSE b.counts \o [i \in 1..(size - Len(b.counts)) |-> 0]

LeftAsIs(array, i) == array[i]                \* mutant: the entries between are not zeroed

Zeroed(array, i) == 0

(* n counts of b moved up by shift, 1 in the new bin and 0 in between.     *)
Widened(b, n, shift, bin) ==
  LET array == Array(b, n)
      start == b.start - shift
  IN [start |-> start,
      counts |-> [i \in 1..n |->
                    IF i = bin - start + 1 THEN 1
                    ELSE IF i - shift \in DOMAIN b.counts THEN b.counts[i - shift]
                    ELSE Zeroed(array, i)],
      spare |-> SubSeq(array, n + 1, Len(array))]

recordBin(b, bin) ==
  LET end == b.start + Len(b.counts) - 1
  IN CASE b.counts = <<>> -> [start |-> bin, counts |-> <<1>>, spare |-> <<>>]
       [] b.counts # <<>> /\ bin < b.start -> Widened(b, end - bin + 1, b.start - bin, bin)
       [] b.counts # <<>> /\ bin > end -> Widened(b, bin - b.start + 1, 0, bin)
       [] OTHER -> [b EXCEPT !.counts[bin - b.start + 1] = @ + 1]

NoOffset(start, steps) == 0                   \* mutant: pairs are formed from the first bucket

Offset(start, steps) == start % steps

(* In place: the entries after the merged counts keep what they held.      *)
downscale(b, delta) ==
  LET steps == Pow2[delta]
      offset == Offset(b.start, steps)
      size == (Len(b.counts) - 1 + offset) \div steps + 1
      merged(j) == {i \in DOMAIN b.counts : (i - 1 + offset) \div steps = j - 1}
      array == b.counts \o b.spare
  IN IF Len(b.counts) <= 1
     THEN [b EXCEPT !.start = @ \div steps]
     ELSE [start |-> b.start \div steps,
           counts |-> [j \in 1..size |-> SumFunctionOnSet(b.counts, merged(j))],
           spare |-> SubSeq(array, size + 1, Len(array))]

GivesUpEarly(scale) == scale <= expoMinScale + 1   \* mutant: off by one at the lowest scale

Underflows(scale) == scale < expoMinScale

-----------------------------------------------------------------------------
(* Data points. *)

record(p, m) ==
  LET counted == [p EXCEPT !.count = @ + 1, !.seen[m] = @ + 1]
      delta == scaleChange(getBin(m.at, p.scale), p[m.sign])
      scale == p.scale - delta
      scaled == IF delta > 0
                THEN [counted EXCEPT !.scale = scale, !.pos = downscale(@, delta),
                                     !.neg = downscale(@, delta)]
                ELSE counted
  IN CASE m.sign = "zero" -> [counted EXCEPT !.zero = @ + 1]
       [] m.sign # "zero" /\ delta > 0 /\ Underflows(scale) -> counted
       [] OTHER -> [scaled EXCEPT ![m.sign] = recordBin(@, getBin(m.at, scale))]

FullOnly(a) == Cardinality(Present) >= AggLimit - 1   \* mutant: a set that is there overflows too

AtLimit(a) == a \notin Present /\ Cardinality(Present) >= AggLimit - 1

Total == MapThenSumSet(LAMBDA a : values[a].count, Sets)

measure(a, m) ==
  LET attr == IF AtLimit(a) THEN Overflow ELSE a
  IN /\ Total < MaxMeasured
     /\ values' = [values EXCEPT ![attr] = record(@, m)]
     /\ spilled' = IF attr = Overflow THEN spilled \cup {a} ELSE spilled

delta ==
  /\ Present # {}
  /\ values' = [a \in Sets |-> NoPoint]
  /\ spilled' = {}

HistNext == delta \/ \E a \in AttrSets, m \in Measurements : measure(a, m)

HistSpec == HistInit /\ [][HistNext]_histVars

-----------------------------------------------------------------------------
(* Properties. *)

(* The bucket a position belongs to: above its lower bound and not above   *)
(* its upper bound, in buckets 2^-scale wide.                              *)
Bucket(at, scale) == (at - 1) \div Pow2[MaxScale + 1 - scale]

Expected(p, sign, bin) ==
  SumFunctionOnSet(p.seen, {m \in Measurements : m.sign = sign /\ Bucket(m.at, p.scale) = bin})

Counted(b) == SumFunction(b.counts)

(* However often the scale was changed, the array reused and the buckets   *)
(* extended to either side, each bucket counts the measurements that a     *)
(* histogram of this scale has in it, and none is left out over the whole  *)
(* range of float64 (exponential_histogram.go, record, downscale, getBin). *)
BucketsExact ==
  \A a \in Present : LET p == values[a] IN
    /\ \A sign \in {"pos", "neg"} : \A i \in DOMAIN p[sign].counts :
         p[sign].counts[i] = Expected(p, sign, p[sign].start + i - 1)
    /\ p.count = p.zero + Counted(p.pos) + Counted(p.neg)

(* The scale is the finest at which the measurements of each sign fit into *)
(* MaxSize buckets: the size is kept and no resolution is given away       *)
(* (exponential_histogram.go, scaleChange).                                *)
Width(p, sign, scale) ==
  LET bins == {Bucket(m.at, scale) : m \in {n \in Measurements : n.sign = sign /\ p.seen[n] > 0}}
  IN IF bins = {} THEN 0 ELSE Max(bins) - Min(bins) + 1

Fits(p, scale) == \A sign \in {"pos", "neg"} : Width(p, sign, scale) <= MaxSize

FinestScale ==
  \A a \in Present : LET p == values[a] IN
    /\ Fits(p, p.scale)
    /\ p.scale < MaxScale => ~Fits(p, p.scale + 1)
    /\ Len(p.pos.counts) <= MaxSize /\ Len(p.neg.counts) <= MaxSize

(* At most AggLimit attribute sets are held, the overflow set among them,  *)
(* and one that has a data point of its own has nothing in the overflow,   *)
(* in this interval or after a reset (limit.go).                           *)
LimitKept == Cardinality(Present) <= AggLimit /\ spilled \cap Present = {}
=============================================================================
