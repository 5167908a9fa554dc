--------------------------- MODULE Metric_proofs ---------------------------
(***************************************************************************)
(* Proofs about the metric SDK and its exporter: first the periodic reader *)
(* and the gRPC exporter (sdk/metric/periodic_reader.go, otlpmetricgrpc/   *)
(* exporter.go and internal/retry/retry.go), modules PeriodicReader and    *)
(* MetricExporter, for any number of callers, any retry configuration, any *)
(* throttling and any number of measurements; then the exponential         *)
(* histogram (internal/aggregate), module ExpoHistogram, for any sizes,    *)
(* attribute sets and measurements.                                        *)
(***************************************************************************)
EXTENDS PeriodicReader, ExpoHistogram, SequenceLemmas, FiniteSetTheorems, TLAPS

-----------------------------------------------------------------------------
(* Type correctness. *)

Users == Flushers \cup Stoppers \cup Others \cup {Tick}
JobSteps == {"none", "callbacks", "aggregate", "export", "upload", "ok", "error"}
FlushPlaces == {"idle", "send", "answer", "ok", "error", "ErrReaderShutdown"}
StopPlaces == {"idle", "once", "wait", "collect", "client", "ok", "error", "ErrReaderShutdown"}

Uploads == [by : Users \cup {Idle}, step : {"none", "attempt", "wait", "ok", "error"},
            elapsed : Nat, interval : Nat, delay : Nat]
Jobs == [for : Users \cup {Idle}, step : JobSteps, failed : BOOLEAN, batch : SUBSET Nat]

ExporterTypes ==
  /\ up \in Uploads
  /\ ctxDone \in BOOLEAN /\ closed \in BOOLEAN /\ shutOnce \in BOOLEAN
  /\ client \in {"live", "shutdownClient"}

ReaderTypes ==
  /\ recorded \in Nat
  /\ sum \in SUBSET Nat /\ exported \in SUBSET Nat /\ lost \in SUBSET Nat
  /\ job \in Jobs
  /\ run \in {"select", "busy", "done"} /\ cancelled \in BOOLEAN
  /\ flush \in [Flushers -> [pc : FlushPlaces, asked : SUBSET Nat]]
  /\ stopOnce \in {"new", "running", "done"}
  /\ stop \in [Stoppers -> [pc : StopPlaces, before : SUBSET Nat, gone : SUBSET Nat]]
  /\ others \in SUBSET Others

TypeOK == ExporterTypes /\ ReaderTypes

-----------------------------------------------------------------------------
(* The inductive invariants. *)

(* An upload is made with the live client while clientMu is held, and no   *)
(* pause of it ends beyond the configured total.                           *)
ExporterInv ==
  /\ MuFree => up.step = "none"
  /\ closed => shutOnce
  /\ shutOnce => client = "shutdownClient"
  /\ client = "shutdownClient" => ~Uploading
  /\ RetryBounded

InShutdown == {"wait", "collect", "client"}
Collecting == {"collect", "client"}

(* The goroutine collects until it is done, and then the one Shutdown that *)
(* waited for it does.                                                     *)
JobInv ==
  /\ job.step # "none" => job.for # Idle
  /\ run = "select" => job = NoJob
  /\ \A p \in Stoppers : stop[p].pc \in Collecting => run = "done"
  /\ \A p, q \in Stoppers : stop[p].pc \in InShutdown /\ stop[q].pc \in InShutdown => p = q
  /\ \A p \in Stoppers : stop[p].pc \in InShutdown => stopOnce = "running"
  /\ run = "done" /\ (\A p \in Stoppers : stop[p].pc \notin Collecting) => job = NoJob
  /\ \A p \in Stoppers : stop[p].pc = "client" => job.step \in {"ok", "error"}
  /\ \A p \in Stoppers : stop[p].pc = "ok" => run = "done" /\ stopOnce = "done"

(* The measurements are divided between the counter, the collection, the   *)
(* exporter and the losses.                                                *)
CountInv ==
  /\ 1..recorded = sum \cup Flying \cup exported \cup lost
  /\ sum \cap Flying = {} /\ sum \cap exported = {} /\ sum \cap lost = {}
  /\ Flying \cap exported = {} /\ Flying \cap lost = {} /\ exported \cap lost = {}

(* Where the last collection has brought what it is to export.             *)
Carries(what) ==
  /\ job.step \in {"callbacks", "aggregate"} => what \subseteq sum \cup exported
  /\ job.step \in {"export", "upload"} => what \subseteq job.batch \cup exported
  /\ job.step = "ok" => what \subseteq exported

(* What Shutdown has to export: what the counter held at the call and was  *)
(* not lost until the goroutine was done.                                  *)
Pending(p) == stop[p].before \ stop[p].gone

FlushInv ==
  \A f \in Flushers :
    /\ flush[f].pc = "answer" =>
         /\ run = "busy" /\ job.for = f
         /\ job.step \in {"callbacks", "aggregate"} => flush[f].asked \subseteq sum
         /\ job.step \in {"export", "upload"} => flush[f].asked \subseteq job.batch
         /\ job.step = "ok" => flush[f].asked \subseteq exported
    /\ flush[f].pc = "ok" => flush[f].asked \subseteq exported

DrainInv ==
  \A p \in Stoppers :
    /\ stop[p].before \subseteq 1..recorded
    /\ stop[p].pc \in Collecting => job.step # "none" /\ Carries(Pending(p))
    /\ stop[p].pc = "ok" => Pending(p) \subseteq exported

-----------------------------------------------------------------------------
(* The exporter. *)

ExporterOK == ExporterTypes /\ ExporterInv

(* A record of an upload, field by field.                                  *)
LEMMA UploadRecord ==
  ASSUME NEW b \in Users \cup {Idle}, NEW s \in {"none", "attempt", "wait", "ok", "error"},
         NEW e \in Nat, NEW i \in Nat, NEW d \in Nat
  PROVE  [by |-> b, step |-> s, elapsed |-> e, interval |-> i, delay |-> d] \in Uploads
  BY DEF Uploads

LEMMA NoUploadTyped == NoUpload \in Uploads /\ NoUpload.by = Idle /\ NoUpload.step = "none"
  BY DEF NoUpload, Uploads

LEMMA LockKeeps ==
  ASSUME ExporterOK, NEW by \in Users, NEW done \in BOOLEAN, Lock(by, done)
  PROVE  ExporterOK'
<1>1. PICK over \in BOOLEAN :
        up' = IF over \/ client = "shutdownClient"
              THEN [NoUpload EXCEPT !.by = by, !.step = "error"]
              ELSE [NoUpload EXCEPT !.by = by, !.step = "attempt", !.interval = InitialInterval]
  BY ConfigAssumption DEF Lock
<1>2. by # Idle
  BY UserAssumption DEF Users
<1>3. UNCHANGED <<ctxDone, client, closed, shutOnce>>
  BY DEF Lock
<1>4. InitialInterval \in Nat
  BY ConfigAssumption
<1>5. CASE over \/ client = "shutdownClient"
  <2>1. up' = [by |-> by, step |-> "error", elapsed |-> 0, interval |-> 0, delay |-> 0]
    BY <1>1, <1>5 DEF NoUpload
  <2>2. up' \in Uploads
    BY <2>1, UploadRecord
  <2>3. up'.by = by /\ up'.step = "error"
    BY <2>1
  <2> QED
    BY <1>2, <1>3, <2>2, <2>3
    DEF ExporterOK, ExporterTypes, ExporterInv, MuFree, Uploading, RetryBounded
<1>6. CASE ~(over \/ client = "shutdownClient")
  <2>1. up' = [by |-> by, step |-> "attempt", elapsed |-> 0,
               interval |-> InitialInterval, delay |-> 0]
    BY <1>1, <1>6 DEF NoUpload
  <2>2. up' \in Uploads
    BY <1>4, <2>1, UploadRecord
  <2>3. up'.by = by /\ up'.step = "attempt"
    BY <2>1
  <2> QED
    BY <1>2, <1>3, <1>6, <2>2, <2>3
    DEF ExporterOK, ExporterTypes, ExporterInv, MuFree, Uploading, RetryBounded
<1> QED
  BY <1>5, <1>6

LEMMA UnlockKeeps ==
  ASSUME ExporterOK, NEW by, NEW result, Unlock(by, result)
  PROVE  ExporterOK'
  BY NoUploadTyped
  DEF Unlock, Released, ExporterOK, ExporterTypes, ExporterInv, MuFree, Uploading, RetryBounded

LEMMA FinishKeeps ==
  ASSUME ExporterOK, Uploading, NEW result \in {"ok", "error"}, Finish(result)
  PROVE  ExporterOK'
<1>1. up' = [by |-> up.by, step |-> result, elapsed |-> 0, interval |-> 0, delay |-> 0]
  BY DEF Finish, NoUpload
<1>2. up.by \in Users \cup {Idle} /\ up.by # Idle
  BY DEF ExporterOK, ExporterTypes, ExporterInv, Uploads, Uploading, MuFree
<1>3. up' \in Uploads
  BY <1>1, <1>2, UploadRecord
<1>4. up'.by # Idle /\ up'.step \in {"ok", "error"}
  BY <1>1, <1>2
<1> QED
  BY <1>3, <1>4
  DEF Finish, ExporterOK, ExporterTypes, ExporterInv, MuFree, Uploading, RetryBounded

LEMMA GrownNat == \A n \in Nat : Grown(n) \in Nat
  BY ConfigAssumption DEF Grown

(* A pause is begun only when it ends within the configured total: the     *)
(* random interval is checked, and the delay the server asked for too.     *)
LEMMA RetryKeeps ==
  ASSUME ExporterOK, NEW took \in 0..1, NEW throttle \in Throttles,
         FailsRetryably(took, throttle)
  PROVE  ExporterOK'
<1> DEFINE elapsed == up.elapsed + took
           Delay(bOff) == IF bOff > throttle THEN bOff ELSE throttle
           over(bOff) == \/ elapsed + bOff > MaxElapsedTime
                         \/ bOff <= throttle /\ ThrottleTooLong(elapsed, throttle)
<1>1. PICK bOff \in Randomized(up.interval) :
        IF over(bOff)
        THEN Finish("error")
        ELSE /\ up' = [up EXCEPT !.step = "wait", !.elapsed = elapsed,
                                 !.interval = Grown(@), !.delay = Delay(bOff)]
             /\ UNCHANGED <<ctxDone, client, closed, shutOnce>>
  BY DEF FailsRetryably
<1>2. up.step = "attempt"
  BY DEF FailsRetryably
<1>3. CASE over(bOff)
  BY <1>1, <1>2, <1>3, FinishKeeps DEF Uploading
<1>4. CASE ~over(bOff)
  <2>1. /\ up.by \in Users \cup {Idle} /\ up.elapsed \in Nat /\ up.interval \in Nat
        /\ throttle \in Nat /\ MaxElapsedTime \in Nat
    BY ConfigAssumption DEF ExporterOK, ExporterTypes, Uploads
  <2>2. bOff \in Nat
    BY <2>1 DEF Randomized
  <2>3. elapsed \in Nat /\ Delay(bOff) \in Nat /\ Grown(up.interval) \in Nat
    BY <2>1, <2>2, GrownNat
  <2>4. elapsed + Delay(bOff) <= MaxElapsedTime
    BY <1>4, <2>1, <2>2, <2>3 DEF ThrottleTooLong
  <2> HIDE DEF elapsed, Delay, over
  <2>5. up' = [by |-> up.by, step |-> "wait", elapsed |-> elapsed,
               interval |-> Grown(up.interval), delay |-> Delay(bOff)]
    BY <1>1, <1>4 DEF ExporterOK, ExporterTypes, Uploads
  <2>6. up' \in Uploads
    BY <2>1, <2>3, <2>5, UploadRecord
  <2>7. /\ up'.by = up.by /\ up'.step = "wait"
        /\ up'.elapsed + up'.delay <= MaxElapsedTime
    BY <2>4, <2>5
  <2>8. up.by # Idle /\ client # "shutdownClient"
    BY <1>2 DEF ExporterOK, ExporterInv, Uploading, MuFree
  <2> QED
    BY <1>1, <1>4, <2>6, <2>7, <2>8
    DEF ExporterOK, ExporterTypes, ExporterInv, MuFree, Uploading, RetryBounded
<1> QED
  BY <1>3, <1>4

LEMMA TimerKeeps ==
  ASSUME ExporterOK, TimerFires
  PROVE  ExporterOK'
<1>1. /\ up.by \in Users \cup {Idle} /\ up.elapsed + up.delay \in Nat /\ up.interval \in Nat
  BY DEF ExporterOK, ExporterTypes, Uploads
<1>2. up' = [by |-> up.by, step |-> "attempt", elapsed |-> up.elapsed + up.delay,
             interval |-> up.interval, delay |-> 0]
  BY DEF TimerFires, ExporterOK, ExporterTypes, Uploads
<1>3. up' \in Uploads /\ up'.by = up.by /\ up'.step = "attempt"
  BY <1>1, <1>2, UploadRecord
<1> QED
  BY <1>3
  DEF TimerFires, ExporterOK, ExporterTypes, ExporterInv, MuFree, Uploading, RetryBounded

LEMMA UploadKeeps ==
  ASSUME ExporterOK, UploadNext \/ CtxEnds
  PROVE  ExporterOK'
<1>1. CASE Succeeds \/ FailsForGood \/ WaitEnds
  BY <1>1, FinishKeeps DEF Succeeds, FailsForGood, WaitEnds, Uploading
<1>2. CASE CtxEnds
  BY <1>2
  DEF CtxEnds, ExporterOK, ExporterTypes, ExporterInv, MuFree, Uploading, RetryBounded
<1> QED
  BY <1>1, <1>2, TimerKeeps, RetryKeeps DEF UploadNext

(* Shutdown swaps the client when nobody uploads, and shuts down the one   *)
(* it took away.                                                           *)
LEMMA SwapKeeps ==
  ASSUME ExporterOK, ExporterSwap \/ ClientShutdown
  PROVE  ExporterOK'
  BY DEF ExporterSwap, ClientShutdown, Replaced, ExporterOK, ExporterTypes, ExporterInv,
         MuFree, Uploading, RetryBounded

LEMMA ExporterStutters ==
  ASSUME ExporterOK, UNCHANGED <<up, client, closed, shutOnce>>, ctxDone' \in BOOLEAN
  PROVE  ExporterOK'
  BY DEF ExporterOK, ExporterTypes, ExporterInv, MuFree, Uploading, RetryBounded

-----------------------------------------------------------------------------
(* The reader's own types. *)

(* JobStep changes the step of the collection and nothing else of it.      *)
LEMMA JobStepped ==
  ASSUME job \in Jobs, NEW label \in JobSteps, JobStep(label)
  PROVE  /\ job' \in Jobs /\ job'.step = label /\ job'.for = job.for
         /\ job'.failed = job.failed /\ job'.batch = job.batch
<1>1. job' = [for |-> job.for, step |-> label, failed |-> job.failed, batch |-> job.batch]
  BY DEF JobStep, Jobs
<1> QED
  BY <1>1 DEF Jobs

LEMMA NoJobTyped ==
  /\ NoJob \in Jobs /\ NoJob.for = Idle /\ NoJob.step = "none"
  /\ NoJob.failed = FALSE /\ NoJob.batch = {}
  BY DEF NoJob, Jobs, JobSteps

(* Collect begins a collection for somebody.                               *)
LEMMA CollectStarts ==
  ASSUME NEW for \in Users, Collect(for)
  PROVE  /\ job' \in Jobs /\ job'.step = "callbacks" /\ job'.for = for
         /\ job'.failed = FALSE /\ job'.batch = {}
<1>1. job' = [for |-> for, step |-> "callbacks", failed |-> FALSE, batch |-> {}]
  BY DEF Collect, NoJob
<1> QED
  BY <1>1 DEF Jobs, JobSteps

LEMMA CallbacksStep ==
  ASSUME ReaderTypes, Callbacks
  PROVE  /\ job.step = "callbacks" /\ job' \in Jobs /\ job'.for = job.for
         /\ job'.step \in {"aggregate", "error"} /\ job'.batch = job.batch
<1>1. CASE JobStep("aggregate") \/ JobStep("error")
  BY <1>1, JobStepped DEF Callbacks, ReaderTypes, JobSteps
<1>2. CASE job' = [job EXCEPT !.step = "aggregate", !.failed = TRUE]
  <2>1. job' = [for |-> job.for, step |-> "aggregate", failed |-> TRUE, batch |-> job.batch]
    BY <1>2 DEF ReaderTypes, Jobs
  <2> QED
    BY <2>1 DEF Callbacks, ReaderTypes, Jobs, JobSteps
<1> QED
  BY <1>1, <1>2 DEF Callbacks

LEMMA AggregateStep ==
  ASSUME ReaderTypes, Aggregate
  PROVE  /\ job.step = "aggregate" /\ job' \in Jobs /\ job'.for = job.for /\ sum' = {}
         /\ \/ job'.step = "error" /\ job'.batch = job.batch /\ lost' = lost \cup sum
            \/ job'.step = "export" /\ job'.batch = sum /\ lost' = lost
<1>1. CASE job.failed
  BY <1>1, JobStepped DEF Aggregate, ReaderTypes, JobSteps, Cleared
<1>2. CASE ~job.failed
  <2>1. job' = [for |-> job.for, step |-> "export", failed |-> job.failed, batch |-> sum]
    BY <1>2 DEF Aggregate, ReaderTypes, Jobs
  <2> QED
    BY <1>2, <2>1 DEF Aggregate, ReaderTypes, Jobs, JobSteps, Cleared
<1> QED
  BY <1>1, <1>2

LEMMA ExportStep ==
  ASSUME ReaderTypes, Export
  PROVE  /\ job.step = "export" /\ job' \in Jobs /\ job'.for = job.for
         /\ job'.step = "upload" /\ job'.batch = job.batch
  BY JobStepped DEF Export, ReaderTypes, JobSteps

LEMMA ExportReturnsStep ==
  ASSUME ReaderTypes, ExportReturns
  PROVE  /\ job.step = "upload" /\ job' \in Jobs /\ job'.for = job.for /\ job'.batch = {}
         /\ \/ job'.step = "ok" /\ exported' = exported \cup job.batch /\ lost' = lost
            \/ job'.step = "error" /\ exported' = exported /\ lost' = lost \cup job.batch
<1>1. CASE job' = [job EXCEPT !.step = "ok", !.batch = {}]
  <2>1. job' = [for |-> job.for, step |-> "ok", failed |-> job.failed, batch |-> {}]
    BY <1>1 DEF ReaderTypes, Jobs
  <2> QED
    BY <1>1, <2>1 DEF ExportReturns, ReaderTypes, Jobs, JobSteps
<1>2. CASE job' = [job EXCEPT !.step = "error", !.batch = {}]
  <2>1. job' = [for |-> job.for, step |-> "error", failed |-> job.failed, batch |-> {}]
    BY <1>2 DEF ReaderTypes, Jobs
  <2> QED
    BY <1>2, <2>1 DEF ExportReturns, ReaderTypes, Jobs, JobSteps
<1> QED
  BY <1>1, <1>2 DEF ExportReturns

(* What the steps of ForceFlush and Shutdown do to the callers' records.   *)
LEMMA FlushGone ==
  ASSUME ReaderTypes, NEW f \in Flushers, NEW label \in FlushPlaces, FlushGoto(f, label)
  PROVE  /\ flush' \in [Flushers -> [pc : FlushPlaces, asked : SUBSET Nat]]
         /\ flush'[f].pc = label /\ flush'[f].asked = flush[f].asked
         /\ \A g \in Flushers : g # f => flush'[g] = flush[g]
<1>1. [flush[f] EXCEPT !.pc = label] = [pc |-> label, asked |-> flush[f].asked]
  BY DEF ReaderTypes
<1>2. flush' = [flush EXCEPT ![f] = [flush[f] EXCEPT !.pc = label]]
  BY DEF FlushGoto
<1> QED
  BY <1>1, <1>2 DEF ReaderTypes

LEMMA StopGone ==
  ASSUME ReaderTypes, NEW p \in Stoppers, NEW label \in StopPlaces, StopGoto(p, label)
  PROVE  /\ stop' \in [Stoppers -> [pc : StopPlaces, before : SUBSET Nat, gone : SUBSET Nat]]
         /\ stop'[p].pc = label
         /\ stop'[p].before = stop[p].before /\ stop'[p].gone = stop[p].gone
         /\ \A q \in Stoppers : q # p => stop'[q] = stop[q]
<1>1. [stop[p] EXCEPT !.pc = label]
        = [pc |-> label, before |-> stop[p].before, gone |-> stop[p].gone]
  BY DEF ReaderTypes
<1>2. stop' = [stop EXCEPT ![p] = [stop[p] EXCEPT !.pc = label]]
  BY DEF StopGoto
<1> QED
  BY <1>1, <1>2 DEF ReaderTypes

LEMMA RunFlushStep ==
  ASSUME ReaderTypes, NEW f \in Flushers, RunFlush(f)
  PROVE  /\ flush' \in [Flushers -> [pc : FlushPlaces, asked : SUBSET Nat]]
         /\ flush'[f].pc = "answer" /\ flush'[f].asked = sum
         /\ \A g \in Flushers : g # f => flush'[g] = flush[g]
         /\ job' \in Jobs /\ job'.step = "callbacks" /\ job'.for = f /\ job'.batch = {}
  BY CollectStarts DEF RunFlush, ReaderTypes, FlushPlaces, Users

LEMMA FlushCtxDoneStep ==
  ASSUME ReaderTypes, NEW f \in Flushers, FlushCtxDone(f)
  PROVE  /\ flush' \in [Flushers -> [pc : FlushPlaces, asked : SUBSET Nat]]
         /\ flush'[f].pc = "error"
         /\ \A g \in Flushers : g # f => flush'[g] = flush[g]
  BY DEF FlushCtxDone, ReaderTypes, FlushPlaces

LEMMA RunAnswersStep ==
  ASSUME ReaderTypes, RunAnswers
  PROVE  /\ flush' \in [Flushers -> [pc : FlushPlaces, asked : SUBSET Nat]]
         /\ \A g \in Flushers :
              \/ flush'[g] = flush[g] /\ (flush[g].pc # "answer" \/ g # job.for)
              \/ /\ g = job.for /\ flush[g].pc = "answer"
                 /\ flush'[g].pc = job.step /\ flush'[g].asked = flush[g].asked
<1>1. \A g \in Flushers :
        flush'[g] = IF g = job.for /\ flush[g].pc = "answer"
                    THEN [flush[g] EXCEPT !.pc = job.step] ELSE flush[g]
  BY DEF RunAnswers, Answer
<1>2. ASSUME NEW g \in Flushers
      PROVE  [flush[g] EXCEPT !.pc = job.step] = [pc |-> job.step, asked |-> flush[g].asked]
  BY DEF ReaderTypes
<1>3. job.step \in FlushPlaces
  BY DEF RunAnswers, FlushPlaces
<1>4. flush' = [g \in Flushers |-> flush'[g]]
  BY DEF RunAnswers
<1>5. \A g \in Flushers : flush'[g] \in [pc : FlushPlaces, asked : SUBSET Nat]
  BY <1>1, <1>2, <1>3 DEF ReaderTypes
<1> QED
  BY <1>1, <1>2, <1>4, <1>5

(* The first call of Shutdown waits, a later one waits for that.           *)
LEMMA ShutdownStep ==
  ASSUME ReaderTypes, NEW p \in Stoppers, Shutdown(p)
  PROVE  /\ stop' \in [Stoppers -> [pc : StopPlaces, before : SUBSET Nat, gone : SUBSET Nat]]
         /\ \A q \in Stoppers : q # p => stop'[q] = stop[q]
         /\ \/ /\ stopOnce = "new" /\ stopOnce' = "running"
               /\ stop'[p].pc = "wait" /\ stop'[p].before = sum
            \/ /\ stopOnce # "new" /\ stopOnce' = stopOnce
               /\ stop'[p].pc = "once" /\ stop'[p].before = stop[p].before
         /\ cancelled' \in BOOLEAN /\ stop[p].pc = "idle"
<1>1. CASE stopOnce = "new"
  <2> DEFINE waiting == [pc |-> "wait", before |-> sum, gone |-> {}]
  <2>1. stop' = [stop EXCEPT ![p] = waiting]
    BY <1>1 DEF Shutdown
  <2>2. waiting \in [pc : StopPlaces, before : SUBSET Nat, gone : SUBSET Nat]
    BY DEF ReaderTypes, StopPlaces
  <2> QED
    BY <1>1, <2>1, <2>2 DEF Shutdown, ReaderTypes
<1>2. CASE stopOnce # "new"
  BY <1>2, StopGone DEF Shutdown, ReaderTypes, StopPlaces
<1> QED
  BY <1>1, <1>2

LEMMA ShutdownCollectsStep ==
  ASSUME ReaderTypes, NEW p \in Stoppers, ShutdownCollects(p)
  PROVE  /\ stop' \in [Stoppers -> [pc : StopPlaces, before : SUBSET Nat, gone : SUBSET Nat]]
         /\ stop[p].pc = "wait" /\ stop'[p].pc = "collect"
         /\ stop'[p].before = stop[p].before /\ stop'[p].gone = lost
         /\ \A q \in Stoppers : q # p => stop'[q] = stop[q]
<1> DEFINE collecting == [pc |-> "collect", before |-> stop[p].before, gone |-> lost]
<1>1. stop' = [stop EXCEPT ![p] = collecting]
  BY DEF ShutdownCollects
<1>2. collecting \in [pc : StopPlaces, before : SUBSET Nat, gone : SUBSET Nat]
  BY DEF ReaderTypes, StopPlaces
<1> QED
  BY <1>1, <1>2 DEF ReaderTypes, ShutdownCollects

LEMMA ShutdownClientStep ==
  ASSUME ReaderTypes, NEW p \in Stoppers, ShutdownClient(p), job.step \in {"ok", "error"}
  PROVE  /\ stop' \in [Stoppers -> [pc : StopPlaces, before : SUBSET Nat, gone : SUBSET Nat]]
         /\ stop[p].pc = "client" /\ stopOnce' = "done" /\ job' = NoJob
         /\ stop'[p].pc \in {job.step, "error"}
         /\ stop'[p].before = stop[p].before /\ stop'[p].gone = stop[p].gone
         /\ \A q \in Stoppers : q # p => stop'[q] = stop[q]
<1>1. PICK answer \in {job.step, "error"} : StopGoto(p, answer)
  BY DEF ShutdownClient
<1> QED
  BY <1>1, StopGone DEF ShutdownClient, StopPlaces

LEMMA ReaderTypesInit == Init => ReaderTypes
<1> SUFFICES ASSUME Init PROVE ReaderTypes
  OBVIOUS
<1>1. flush \in [Flushers -> [pc : FlushPlaces, asked : SUBSET Nat]]
  BY DEF Init, FlushPlaces
<1>2. stop \in [Stoppers -> [pc : StopPlaces, before : SUBSET Nat, gone : SUBSET Nat]]
  BY DEF Init, StopPlaces
<1> QED
  BY <1>1, <1>2, NoJobTyped DEF Init, ReaderTypes

LEMMA ReaderTypesNext ==
  ReaderTypes /\ JobInv /\ [Next]_vars => ReaderTypes'
<1> SUFFICES ASSUME ReaderTypes, JobInv, [Next]_vars
             PROVE  ReaderTypes'
  OBVIOUS
<1>1. ASSUME Measure PROVE ReaderTypes'
  <2>1. recorded \in Nat /\ recorded' = recorded + 1 /\ sum' = sum \cup {recorded'}
    BY <1>1 DEF Measure, ReaderTypes
  <2>2. recorded' \in Nat /\ sum' \in SUBSET Nat
    BY <2>1 DEF ReaderTypes
  <2> QED
    BY <1>1, <2>2 DEF Measure, ReaderTypes, readerVars
<1>2. ASSUME Callbacks PROVE ReaderTypes'
  BY <1>2, CallbacksStep DEF Callbacks, ReaderTypes, dataVars
<1>3. ASSUME Aggregate PROVE ReaderTypes'
  BY <1>3, AggregateStep DEF Aggregate, Cleared, ReaderTypes, dataVars
<1>4. ASSUME Export PROVE ReaderTypes'
  BY <1>4, ExportStep DEF Export, ReaderTypes, dataVars
<1>5. ASSUME ExportReturns PROVE ReaderTypes'
  BY <1>5, ExportReturnsStep DEF ExportReturns, ReaderTypes, dataVars, Jobs
<1>6. ASSUME NEW o \in Others, OtherExport(o) PROVE ReaderTypes'
  BY <1>6 DEF OtherExport, ReaderTypes, dataVars
<1>7. ASSUME NEW o \in Others, OtherReturns(o) PROVE ReaderTypes'
  BY <1>7 DEF OtherReturns, readerVars, dataVars, ReaderTypes
<1>8. ASSUME (UploadNext \/ CtxEnds) /\ UNCHANGED <<readerVars, dataVars>>
      PROVE  ReaderTypes'
  BY <1>8 DEF readerVars, dataVars, ReaderTypes
<1>9. ASSUME RunTick PROVE ReaderTypes'
  BY <1>9, CollectStarts DEF RunTick, Users, ReaderTypes, dataVars
<1>10. ASSUME NEW f \in Flushers, RunFlush(f) PROVE ReaderTypes'
  BY <1>10, RunFlushStep DEF RunFlush, ReaderTypes, dataVars
<1>11. ASSUME RunAnswers PROVE ReaderTypes'
  BY <1>11, RunAnswersStep, NoJobTyped DEF RunAnswers, ReaderTypes, dataVars
<1>12. ASSUME RunStops PROVE ReaderTypes'
  BY <1>12 DEF RunStops, ReaderTypes, dataVars
<1>13. ASSUME NEW f \in Flushers, ForceFlush(f) PROVE ReaderTypes'
  BY <1>13, FlushGone DEF ForceFlush, FlushGoto, FlushPlaces, ReaderTypes, dataVars
<1>14. ASSUME NEW f \in Flushers, FlushReaderDone(f) PROVE ReaderTypes'
  BY <1>14, FlushGone DEF FlushReaderDone, FlushGoto, FlushPlaces, ReaderTypes, dataVars
<1>15. ASSUME NEW f \in Flushers, FlushCtxDone(f) PROVE ReaderTypes'
  BY <1>15, FlushCtxDoneStep DEF FlushCtxDone, ReaderTypes, dataVars
<1>16. ASSUME NEW p \in Stoppers, Shutdown(p) PROVE ReaderTypes'
  BY <1>16, ShutdownStep DEF Shutdown, ReaderTypes, dataVars
<1>17. ASSUME NEW p \in Stoppers, ShutdownAgain(p) PROVE ReaderTypes'
  BY <1>17, StopGone DEF ShutdownAgain, StopPlaces, ReaderTypes, dataVars
<1>18. ASSUME NEW p \in Stoppers, ShutdownCollects(p) PROVE ReaderTypes'
  BY <1>18, ShutdownCollectsStep, CollectStarts DEF ShutdownCollects, Users, ReaderTypes, dataVars
<1>19. ASSUME NEW p \in Stoppers, ShutdownExporter(p) PROVE ReaderTypes'
  BY <1>19, StopGone DEF ShutdownExporter, StopPlaces, ReaderTypes, dataVars
<1>20. ASSUME NEW p \in Stoppers, ShutdownClient(p) PROVE ReaderTypes'
  BY <1>20, ShutdownClientStep, NoJobTyped DEF ShutdownClient, ReaderTypes, dataVars, JobInv
<1>21. ASSUME UNCHANGED vars PROVE ReaderTypes'
  BY <1>21 DEF vars, readerVars, dataVars, ReaderTypes
<1> QED
  BY <1>1, <1>2, <1>3, <1>4, <1>5, <1>6, <1>7, <1>8, <1>9, <1>10, <1>11,
     <1>12, <1>13, <1>14, <1>15, <1>16, <1>17, <1>18, <1>19, <1>20, <1>21
     DEF Next, CollectNext, RunNext, ShutdownNext

-----------------------------------------------------------------------------
(* One collection at a time: the goroutine's, then Shutdown's.             *)

LEMMA JobNext ==
  ReaderTypes /\ JobInv /\ [Next]_vars => JobInv'
<1> SUFFICES ASSUME ReaderTypes, JobInv, [Next]_vars
             PROVE  JobInv'
  OBVIOUS
<1>1. ASSUME Measure PROVE JobInv'
  BY <1>1 DEF Measure, JobInv, InShutdown, Collecting, ReaderTypes, readerVars
<1>2. ASSUME Callbacks PROVE JobInv'
  BY <1>2, CallbacksStep, NoJobTyped DEF Callbacks, JobInv, InShutdown, Collecting, ReaderTypes
<1>3. ASSUME Aggregate PROVE JobInv'
  BY <1>3, AggregateStep, NoJobTyped DEF Aggregate, Cleared, JobInv, InShutdown, Collecting, ReaderTypes
<1>4. ASSUME Export PROVE JobInv'
  BY <1>4, ExportStep, NoJobTyped DEF Export, JobInv, InShutdown, Collecting, ReaderTypes
<1>5. ASSUME ExportReturns PROVE JobInv'
  BY <1>5, ExportReturnsStep, NoJobTyped DEF ExportReturns, JobInv, InShutdown, Collecting, ReaderTypes
<1>6. ASSUME NEW o \in Others, OtherExport(o) PROVE JobInv'
  BY <1>6 DEF OtherExport, JobInv, InShutdown, Collecting, ReaderTypes, readerVars
<1>7. ASSUME NEW o \in Others, OtherReturns(o) PROVE JobInv'
  BY <1>7 DEF OtherReturns, readerVars, dataVars, JobInv, InShutdown, Collecting, ReaderTypes
<1>8. ASSUME (UploadNext \/ CtxEnds) /\ UNCHANGED <<readerVars, dataVars>>
      PROVE  JobInv'
  BY <1>8 DEF readerVars, dataVars, JobInv, InShutdown, Collecting
<1>9. ASSUME RunTick PROVE JobInv'
  BY <1>9, CollectStarts, UserAssumption DEF RunTick, Users, JobInv, InShutdown, Collecting, ReaderTypes
<1>10. ASSUME NEW f \in Flushers, RunFlush(f) PROVE JobInv'
  <2>1. f # Idle
    BY UserAssumption
  <2>2. job'.for = f /\ run = "select" /\ run' = "busy" /\ UNCHANGED <<stop, stopOnce>>
    BY <1>10, RunFlushStep DEF RunFlush
  <2> QED
    BY <2>1, <2>2 DEF JobInv, InShutdown, Collecting
<1>11. ASSUME RunAnswers PROVE JobInv'
  BY <1>11, RunAnswersStep, NoJobTyped DEF RunAnswers, JobInv, InShutdown, Collecting, ReaderTypes
<1>12. ASSUME RunStops PROVE JobInv'
  BY <1>12 DEF RunStops, JobInv, InShutdown, Collecting, ReaderTypes, readerVars
<1>13. ASSUME NEW f \in Flushers, ForceFlush(f) PROVE JobInv'
  BY <1>13, FlushGone DEF ForceFlush, FlushGoto, FlushPlaces, JobInv, InShutdown, Collecting, ReaderTypes
<1>14. ASSUME NEW f \in Flushers, FlushReaderDone(f) PROVE JobInv'
  BY <1>14, FlushGone DEF FlushReaderDone, FlushGoto, FlushPlaces, JobInv, InShutdown, Collecting, ReaderTypes
<1>15. ASSUME NEW f \in Flushers, FlushCtxDone(f) PROVE JobInv'
  BY <1>15, FlushCtxDoneStep DEF FlushCtxDone, JobInv, InShutdown, Collecting, ReaderTypes
<1>16. ASSUME NEW p \in Stoppers, Shutdown(p) PROVE JobInv'
  BY <1>16, ShutdownStep DEF Shutdown, JobInv, InShutdown, Collecting, ReaderTypes
<1>17. ASSUME NEW p \in Stoppers, ShutdownAgain(p) PROVE JobInv'
  BY <1>17, StopGone DEF ShutdownAgain, StopPlaces, JobInv, InShutdown, Collecting, ReaderTypes
<1>18. ASSUME NEW p \in Stoppers, ShutdownCollects(p) PROVE JobInv'
  <2>1. p # Idle /\ p \in Users
    BY UserAssumption DEF Users
  <2>2. /\ stop[p].pc = "wait" /\ run = "done" /\ Collect(p)
        /\ UNCHANGED <<run, stopOnce>>
    BY <1>18 DEF ShutdownCollects, WaitsForRun
  <2>3. job'.for = p
    BY <2>1, <2>2, CollectStarts
  <2>4. stop'[p].pc = "collect" /\ \A q \in Stoppers : q # p => stop'[q] = stop[q]
    BY <1>18, ShutdownCollectsStep
  <2>5. \A q \in Stoppers : q # p => stop[q].pc \notin InShutdown
    BY <2>2 DEF JobInv, InShutdown
  <2>6. \A q \in Stoppers : stop'[q].pc \in InShutdown => q = p
    BY <2>4, <2>5
  <2>7. \A q \in Stoppers : stop'[q].pc # "client"
    BY <2>4, <2>6 DEF InShutdown
  <2>8. stop'[p].pc \in Collecting /\ stopOnce = "running"
    BY <2>2, <2>4 DEF Collecting, JobInv, InShutdown
  <2>9. \A q \in Stoppers : stop'[q].pc = "ok" => stopOnce' = "done"
    BY <2>2, <2>4 DEF JobInv
  <2> QED
    BY <2>1, <2>2, <2>3, <2>6, <2>7, <2>8, <2>9 DEF JobInv
<1>19. ASSUME NEW p \in Stoppers, ShutdownExporter(p) PROVE JobInv'
  BY <1>19, StopGone DEF ShutdownExporter, StopPlaces, JobInv, InShutdown, Collecting, ReaderTypes
<1>20. ASSUME NEW p \in Stoppers, ShutdownClient(p) PROVE JobInv'
  <2>1. job.step \in {"ok", "error"}
    BY <1>20 DEF ShutdownClient, JobInv
  <2>2. /\ stop[p].pc = "client" /\ stopOnce' = "done" /\ job' = NoJob
        /\ stop'[p].pc \in {job.step, "error"} /\ \A q \in Stoppers : q # p => stop'[q] = stop[q]
    BY <1>20, <2>1, ShutdownClientStep
  <2>3. run' = run /\ run = "done"
    BY <1>20, <2>2 DEF ShutdownClient, JobInv, Collecting
  <2>4. \A q \in Stoppers : stop'[q].pc \notin InShutdown
    BY <2>1, <2>2 DEF JobInv, InShutdown
  <2> QED
    BY <2>2, <2>3, <2>4, NoJobTyped DEF JobInv, InShutdown, Collecting
<1>21. ASSUME UNCHANGED vars PROVE JobInv'
  BY <1>21 DEF vars, readerVars, dataVars, JobInv, InShutdown, Collecting
<1> QED
  BY <1>1, <1>2, <1>3, <1>4, <1>5, <1>6, <1>7, <1>8, <1>9, <1>10, <1>11,
     <1>12, <1>13, <1>14, <1>15, <1>16, <1>17, <1>18, <1>19, <1>20, <1>21
     DEF Next, CollectNext, RunNext, ShutdownNext

-----------------------------------------------------------------------------
(* The exporter's invariant in the reader's steps. *)

LEMMA ExporterNext ==
  ReaderTypes /\ JobInv /\ ExporterOK /\ [Next]_vars => ExporterOK'
<1> SUFFICES ASSUME ReaderTypes, JobInv, ExporterOK, [Next]_vars
             PROVE  ExporterOK'
  OBVIOUS
<1>1. ASSUME Measure PROVE ExporterOK'
  BY <1>1, ExporterStutters DEF ExporterOK, ExporterTypes, exporterVars, Measure
<1>2. ASSUME Callbacks PROVE ExporterOK'
  BY <1>2, ExporterStutters DEF ExporterOK, ExporterTypes, exporterVars, Callbacks
<1>3. ASSUME Aggregate PROVE ExporterOK'
  BY <1>3, ExporterStutters DEF ExporterOK, ExporterTypes, exporterVars, Aggregate, Cleared
<1>4. ASSUME Export PROVE ExporterOK'
  <2>1. job.for \in Users
    BY <1>4 DEF Export, ReaderTypes, Jobs, JobInv
  <2>2. JobCancelled \in BOOLEAN
    BY DEF JobCancelled, ReaderTypes
  <2> QED
    BY <1>4, <2>1, <2>2, LockKeeps DEF Export
<1>5. ASSUME ExportReturns PROVE ExporterOK'
  BY <1>5, UnlockKeeps DEF ExportReturns
<1>6. ASSUME NEW o \in Others, OtherExport(o) PROVE ExporterOK'
  BY <1>6, LockKeeps DEF OtherExport, Users
<1>7. ASSUME NEW o \in Others, OtherReturns(o) PROVE ExporterOK'
  BY <1>7, UnlockKeeps DEF OtherReturns
<1>8. ASSUME (UploadNext \/ CtxEnds) /\ UNCHANGED <<readerVars, dataVars>>
      PROVE  ExporterOK'
  BY <1>8, UploadKeeps
<1>9. ASSUME RunTick PROVE ExporterOK'
  BY <1>9, ExporterStutters DEF ExporterOK, ExporterTypes, exporterVars, RunTick, Users
<1>10. ASSUME NEW f \in Flushers, RunFlush(f) PROVE ExporterOK'
  BY <1>10, ExporterStutters DEF ExporterOK, ExporterTypes, exporterVars, RunFlush
<1>11. ASSUME RunAnswers PROVE ExporterOK'
  BY <1>11, ExporterStutters DEF ExporterOK, ExporterTypes, exporterVars, RunAnswers
<1>12. ASSUME RunStops PROVE ExporterOK'
  BY <1>12, ExporterStutters DEF ExporterOK, ExporterTypes, exporterVars, RunStops
<1>13. ASSUME NEW f \in Flushers, ForceFlush(f) PROVE ExporterOK'
  BY <1>13, ExporterStutters DEF ExporterOK, ExporterTypes, exporterVars, ForceFlush, FlushGoto
<1>14. ASSUME NEW f \in Flushers, FlushReaderDone(f) PROVE ExporterOK'
  BY <1>14, ExporterStutters DEF ExporterOK, ExporterTypes, exporterVars, FlushReaderDone, FlushGoto
<1>15. ASSUME NEW f \in Flushers, FlushCtxDone(f) PROVE ExporterOK'
  BY <1>15, ExporterStutters DEF ExporterOK, ExporterTypes, exporterVars, FlushCtxDone
<1>16. ASSUME NEW p \in Stoppers, Shutdown(p) PROVE ExporterOK'
  <2>1. ctxDone' \in BOOLEAN
    BY <1>16 DEF Shutdown, ExporterOK, ExporterTypes
  <2> QED
    BY <1>16, <2>1, ExporterStutters DEF Shutdown
<1>17. ASSUME NEW p \in Stoppers, ShutdownAgain(p) PROVE ExporterOK'
  BY <1>17, ExporterStutters DEF ExporterOK, ExporterTypes, exporterVars, ShutdownAgain, StopPlaces
<1>18. ASSUME NEW p \in Stoppers, ShutdownCollects(p) PROVE ExporterOK'
  BY <1>18, ExporterStutters DEF ExporterOK, ExporterTypes, exporterVars, ShutdownCollects, StopPlaces, Users, WaitsForRun
<1>19. ASSUME NEW p \in Stoppers, ShutdownExporter(p) PROVE ExporterOK'
  BY <1>19, SwapKeeps DEF ShutdownExporter
<1>20. ASSUME NEW p \in Stoppers, ShutdownClient(p) PROVE ExporterOK'
  BY <1>20, SwapKeeps DEF ShutdownClient
<1>21. ASSUME UNCHANGED vars PROVE ExporterOK'
  BY <1>21, ExporterStutters DEF vars, exporterVars, ExporterOK, ExporterTypes
<1> QED
  BY <1>1, <1>2, <1>3, <1>4, <1>5, <1>6, <1>7, <1>8, <1>9, <1>10, <1>11,
     <1>12, <1>13, <1>14, <1>15, <1>16, <1>17, <1>18, <1>19, <1>20, <1>21
     DEF Next, CollectNext, RunNext, ShutdownNext

-----------------------------------------------------------------------------
(* The measurements. *)

LEMMA CountNext ==
  ReaderTypes /\ JobInv /\ CountInv /\ [Next]_vars => CountInv'
<1> SUFFICES ASSUME ReaderTypes, JobInv, CountInv, [Next]_vars
             PROVE  CountInv'
  OBVIOUS
<1>1. ASSUME Measure PROVE CountInv'
  <2>1. /\ recorded \in Nat /\ recorded' = recorded + 1 /\ sum' = sum \cup {recorded + 1}
        /\ UNCHANGED <<job, exported, lost>>
    BY <1>1 DEF Measure, ReaderTypes, readerVars
  <2>2. 1..(recorded + 1) = 1..recorded \cup {recorded + 1} /\ recorded + 1 \notin 1..recorded
    BY <2>1
  <2>3. Flying' = Flying
    BY <2>1 DEF Flying
  <2> QED
    BY <2>1, <2>2, <2>3 DEF CountInv
<1>2. ASSUME Callbacks PROVE CountInv'
  BY <1>2, CallbacksStep DEF Callbacks, dataVars, CountInv, Flying
<1>3. ASSUME Aggregate PROVE CountInv'
  BY <1>3, AggregateStep DEF Aggregate, Cleared, CountInv, Flying
<1>4. ASSUME Export PROVE CountInv'
  BY <1>4, ExportStep DEF Export, dataVars, CountInv, Flying
<1>5. ASSUME ExportReturns PROVE CountInv'
  BY <1>5, ExportReturnsStep DEF ExportReturns, CountInv, Flying
<1>6. ASSUME NEW o \in Others, OtherExport(o) PROVE CountInv'
  BY <1>6 DEF OtherExport, dataVars, CountInv, Flying
<1>7. ASSUME NEW o \in Others, OtherReturns(o) PROVE CountInv'
  BY <1>7 DEF OtherReturns, readerVars, dataVars, CountInv, Flying
<1>8. ASSUME (UploadNext \/ CtxEnds) /\ UNCHANGED <<readerVars, dataVars>>
      PROVE  CountInv'
  BY <1>8 DEF readerVars, dataVars, CountInv, Flying
<1>9. ASSUME RunTick PROVE CountInv'
  <2>1. job'.step = "callbacks" /\ job = NoJob
    BY <1>9, CollectStarts DEF RunTick, Users, JobInv
  <2> QED
    BY <1>9, <2>1, NoJobTyped DEF RunTick, dataVars, CountInv, Flying
<1>10. ASSUME NEW f \in Flushers, RunFlush(f) PROVE CountInv'
  <2>1. job'.step = "callbacks" /\ job = NoJob
    BY <1>10, RunFlushStep DEF RunFlush, JobInv
  <2> QED
    BY <1>10, <2>1, NoJobTyped DEF RunFlush, dataVars, CountInv, Flying
<1>11. ASSUME RunAnswers PROVE CountInv'
  BY <1>11, NoJobTyped DEF RunAnswers, dataVars, CountInv, Flying
<1>12. ASSUME RunStops PROVE CountInv'
  BY <1>12 DEF RunStops, dataVars, CountInv, Flying
<1>13. ASSUME NEW f \in Flushers, ForceFlush(f) PROVE CountInv'
  BY <1>13 DEF ForceFlush, FlushGoto, dataVars, CountInv, Flying
<1>14. ASSUME NEW f \in Flushers, FlushReaderDone(f) PROVE CountInv'
  BY <1>14 DEF FlushReaderDone, FlushGoto, dataVars, CountInv, Flying
<1>15. ASSUME NEW f \in Flushers, FlushCtxDone(f) PROVE CountInv'
  BY <1>15 DEF FlushCtxDone, dataVars, CountInv, Flying
<1>16. ASSUME NEW p \in Stoppers, Shutdown(p) PROVE CountInv'
  BY <1>16 DEF Shutdown, dataVars, CountInv, Flying
<1>17. ASSUME NEW p \in Stoppers, ShutdownAgain(p) PROVE CountInv'
  BY <1>17 DEF ShutdownAgain, dataVars, CountInv, Flying
<1>18. ASSUME NEW p \in Stoppers, ShutdownCollects(p) PROVE CountInv'
  <2>1. job'.step = "callbacks"
    BY <1>18, CollectStarts DEF ShutdownCollects, Users
  <2>2. stop[p].pc = "wait" /\ run = "done"
    BY <1>18 DEF ShutdownCollects, WaitsForRun
  <2>3. \A q \in Stoppers : stop[q].pc \notin Collecting
    BY <2>2 DEF JobInv, InShutdown, Collecting
  <2>4. job = NoJob
    BY <2>2, <2>3 DEF JobInv
  <2> QED
    BY <1>18, <2>1, <2>4, NoJobTyped DEF ShutdownCollects, dataVars, CountInv, Flying
<1>19. ASSUME NEW p \in Stoppers, ShutdownExporter(p) PROVE CountInv'
  BY <1>19 DEF ShutdownExporter, dataVars, CountInv, Flying
<1>20. ASSUME NEW p \in Stoppers, ShutdownClient(p) PROVE CountInv'
  <2>1. job.step \in {"ok", "error"}
    BY <1>20 DEF ShutdownClient, JobInv
  <2> QED
    BY <1>20, <2>1, NoJobTyped DEF ShutdownClient, dataVars, CountInv, Flying
<1>21. ASSUME UNCHANGED vars PROVE CountInv'
  BY <1>21 DEF vars, readerVars, dataVars, CountInv, Flying
<1> QED
  BY <1>1, <1>2, <1>3, <1>4, <1>5, <1>6, <1>7, <1>8, <1>9, <1>10, <1>11,
     <1>12, <1>13, <1>14, <1>15, <1>16, <1>17, <1>18, <1>19, <1>20, <1>21
     DEF Next, CollectNext, RunNext, ShutdownNext

LEMMA FlushNext ==
  ReaderTypes /\ JobInv /\ FlushInv /\ [Next]_vars => FlushInv'
<1> SUFFICES ASSUME ReaderTypes, JobInv, FlushInv, [Next]_vars
             PROVE  FlushInv'
  OBVIOUS
<1>1. ASSUME Measure PROVE FlushInv'
  BY <1>1 DEF Measure, readerVars, FlushInv
<1>2. ASSUME Callbacks PROVE FlushInv'
  BY <1>2, CallbacksStep DEF Callbacks, dataVars, FlushInv
<1>3. ASSUME Aggregate PROVE FlushInv'
  BY <1>3, AggregateStep DEF Aggregate, FlushInv
<1>4. ASSUME Export PROVE FlushInv'
  BY <1>4, ExportStep DEF Export, dataVars, FlushInv
<1>5. ASSUME ExportReturns PROVE FlushInv'
  BY <1>5, ExportReturnsStep DEF ExportReturns, FlushInv
<1>6. ASSUME NEW o \in Others, OtherExport(o) PROVE FlushInv'
  BY <1>6 DEF OtherExport, dataVars, readerVars, FlushInv
<1>7. ASSUME NEW o \in Others, OtherReturns(o) PROVE FlushInv'
  BY <1>7 DEF OtherReturns, dataVars, readerVars, FlushInv
<1>8. ASSUME (UploadNext \/ CtxEnds) /\ UNCHANGED <<readerVars, dataVars>>
      PROVE  FlushInv'
  BY <1>8 DEF readerVars, dataVars, FlushInv
<1>9. ASSUME RunTick PROVE FlushInv'
  BY <1>9 DEF RunTick, FlushInv, dataVars
<1>10. ASSUME NEW f \in Flushers, RunFlush(f) PROVE FlushInv'
  <2>1. run = "select" /\ UNCHANGED dataVars /\ run' = "busy"
    BY <1>10 DEF RunFlush
  <2>2. \A g \in Flushers : flush[g].pc # "answer"
    BY <2>1 DEF FlushInv
  <2> QED
    BY <1>10, <2>1, <2>2, RunFlushStep DEF FlushInv, dataVars
<1>11. ASSUME RunAnswers PROVE FlushInv'
  <2>1. UNCHANGED dataVars
    BY <1>11 DEF RunAnswers
  <2>2. ASSUME NEW g \in Flushers
        PROVE  /\ flush'[g].pc # "answer"
               /\ flush'[g].pc = "ok" => flush'[g].asked \subseteq exported
    <3>1. CASE flush'[g] = flush[g] /\ (flush[g].pc # "answer" \/ g # job.for)
      BY <3>1 DEF FlushInv
    <3>2. CASE /\ g = job.for /\ flush[g].pc = "answer"
               /\ flush'[g].pc = job.step /\ flush'[g].asked = flush[g].asked
      BY <1>11, <3>2 DEF FlushInv, RunAnswers
    <3> QED
      BY <1>11, <3>1, <3>2, RunAnswersStep
  <2> QED
    BY <2>1, <2>2 DEF FlushInv, dataVars
<1>12. ASSUME RunStops PROVE FlushInv'
  BY <1>12 DEF RunStops, dataVars, readerVars, FlushInv
<1>13. ASSUME NEW f \in Flushers, ForceFlush(f) PROVE FlushInv'
  BY <1>13, FlushGone DEF ForceFlush, FlushGoto, FlushPlaces, dataVars, FlushInv
<1>14. ASSUME NEW f \in Flushers, FlushReaderDone(f) PROVE FlushInv'
  BY <1>14, FlushGone DEF FlushReaderDone, FlushGoto, FlushPlaces, dataVars, FlushInv
<1>15. ASSUME NEW f \in Flushers, FlushCtxDone(f) PROVE FlushInv'
  BY <1>15, FlushCtxDoneStep DEF FlushCtxDone, dataVars, FlushInv
<1>16. ASSUME NEW p \in Stoppers, Shutdown(p) PROVE FlushInv'
  BY <1>16 DEF Shutdown, dataVars, readerVars, FlushInv
<1>17. ASSUME NEW p \in Stoppers, ShutdownAgain(p) PROVE FlushInv'
  BY <1>17 DEF ShutdownAgain, dataVars, readerVars, FlushInv
<1>18. ASSUME NEW p \in Stoppers, ShutdownCollects(p) PROVE FlushInv'
  <2>1. \A f \in Flushers : flush[f].pc # "answer"
    BY <1>18 DEF ShutdownCollects, FlushInv, WaitsForRun
  <2> QED
    BY <1>18, <2>1 DEF ShutdownCollects, FlushInv, dataVars
<1>19. ASSUME NEW p \in Stoppers, ShutdownExporter(p) PROVE FlushInv'
  BY <1>19 DEF ShutdownExporter, dataVars, readerVars, FlushInv
<1>20. ASSUME NEW p \in Stoppers, ShutdownClient(p) PROVE FlushInv'
  <2>1. run = "done"
    BY <1>20 DEF ShutdownClient, JobInv, Collecting
  <2>2. \A f \in Flushers : flush[f].pc # "answer"
    BY <2>1 DEF FlushInv
  <2> QED
    BY <1>20, <2>2 DEF ShutdownClient, FlushInv, dataVars
<1>21. ASSUME UNCHANGED vars PROVE FlushInv'
  BY <1>21 DEF vars, readerVars, dataVars, FlushInv
<1> QED
  BY <1>1, <1>2, <1>3, <1>4, <1>5, <1>6, <1>7, <1>8, <1>9, <1>10, <1>11,
     <1>12, <1>13, <1>14, <1>15, <1>16, <1>17, <1>18, <1>19, <1>20, <1>21
     DEF Next, CollectNext, RunNext, ShutdownNext

LEMMA DrainNext ==
  ReaderTypes /\ JobInv /\ CountInv /\ DrainInv /\ [Next]_vars => DrainInv'
<1> SUFFICES ASSUME ReaderTypes, JobInv, CountInv, DrainInv, [Next]_vars
             PROVE  DrainInv'
  OBVIOUS
<1>1. ASSUME Measure PROVE DrainInv'
  <2>1. 1..recorded \subseteq 1..recorded' /\ sum \subseteq sum'
    BY <1>1 DEF Measure, ReaderTypes
  <2> QED
    BY <1>1, <2>1 DEF Measure, readerVars, DrainInv, Carries, Pending
<1>2. ASSUME Callbacks PROVE DrainInv'
  BY <1>2, CallbacksStep DEF Callbacks, dataVars, DrainInv, Carries, Pending
<1>3. ASSUME Aggregate PROVE DrainInv'
  BY <1>3, AggregateStep DEF Aggregate, DrainInv, Carries, Pending
<1>4. ASSUME Export PROVE DrainInv'
  BY <1>4, ExportStep DEF Export, dataVars, DrainInv, Carries, Pending
<1>5. ASSUME ExportReturns PROVE DrainInv'
  BY <1>5, ExportReturnsStep DEF ExportReturns, DrainInv, Carries, Pending
<1>6. ASSUME NEW o \in Others, OtherExport(o) PROVE DrainInv'
  BY <1>6 DEF OtherExport, dataVars, readerVars, DrainInv, Carries, Pending
<1>7. ASSUME NEW o \in Others, OtherReturns(o) PROVE DrainInv'
  BY <1>7 DEF OtherReturns, dataVars, readerVars, DrainInv, Carries, Pending
<1>8. ASSUME (UploadNext \/ CtxEnds) /\ UNCHANGED <<readerVars, dataVars>>
      PROVE  DrainInv'
  BY <1>8 DEF readerVars, dataVars, DrainInv, Carries, Pending
<1>9. ASSUME RunTick PROVE DrainInv'
  <2>1. \A p \in Stoppers : stop[p].pc \notin Collecting
    BY <1>9 DEF RunTick, JobInv
  <2> QED
    BY <1>9, <2>1 DEF RunTick, dataVars, DrainInv, Pending
<1>10. ASSUME NEW f \in Flushers, RunFlush(f) PROVE DrainInv'
  <2>1. \A p \in Stoppers : stop[p].pc \notin Collecting
    BY <1>10 DEF RunFlush, JobInv
  <2> QED
    BY <1>10, <2>1 DEF RunFlush, dataVars, DrainInv, Pending
<1>11. ASSUME RunAnswers PROVE DrainInv'
  <2>1. \A p \in Stoppers : stop[p].pc \notin Collecting
    BY <1>11 DEF RunAnswers, JobInv
  <2> QED
    BY <1>11, <2>1 DEF RunAnswers, dataVars, DrainInv, Pending
<1>12. ASSUME RunStops PROVE DrainInv'
  BY <1>12 DEF RunStops, dataVars, readerVars, DrainInv, Carries, Pending
<1>13. ASSUME NEW f \in Flushers, ForceFlush(f) PROVE DrainInv'
  BY <1>13 DEF ForceFlush, FlushGoto, dataVars, DrainInv, Carries, Pending
<1>14. ASSUME NEW f \in Flushers, FlushReaderDone(f) PROVE DrainInv'
  BY <1>14 DEF FlushReaderDone, FlushGoto, dataVars, DrainInv, Carries, Pending
<1>15. ASSUME NEW f \in Flushers, FlushCtxDone(f) PROVE DrainInv'
  BY <1>15 DEF FlushCtxDone, dataVars, readerVars, DrainInv, Carries, Pending
<1>16. ASSUME NEW p \in Stoppers, Shutdown(p) PROVE DrainInv'
  <2>1. sum \subseteq 1..recorded
    BY DEF CountInv
  <2> QED
    BY <1>16, <2>1, ShutdownStep DEF Shutdown, dataVars, DrainInv, Carries, Pending, Collecting
<1>17. ASSUME NEW p \in Stoppers, ShutdownAgain(p) PROVE DrainInv'
  BY <1>17, StopGone DEF ShutdownAgain, StopPlaces, dataVars, DrainInv, Carries, Pending, Collecting
<1>18. ASSUME NEW p \in Stoppers, ShutdownCollects(p) PROVE DrainInv'
  <2>1. /\ stop[p].pc = "wait" /\ run = "done" /\ Collect(p)
        /\ UNCHANGED dataVars /\ p \in Users
    BY <1>18 DEF ShutdownCollects, WaitsForRun, Users
  <2>2. job'.step = "callbacks"
    BY <2>1, CollectStarts
  <2>3. /\ stop'[p].pc = "collect" /\ stop'[p].before = stop[p].before /\ stop'[p].gone = lost
        /\ \A q \in Stoppers : q # p => stop'[q] = stop[q]
    BY <1>18, ShutdownCollectsStep
  <2>4. \A q \in Stoppers : stop[q].pc \notin Collecting
    BY <2>1 DEF JobInv, InShutdown, Collecting
  <2>5. Flying = {}
    <3>1. job = NoJob
      BY <2>1, <2>4 DEF JobInv
    <3> QED
      BY <3>1, NoJobTyped DEF Flying
  <2>6. stop[p].before \subseteq sum \cup exported \cup lost
    BY <2>5 DEF DrainInv, CountInv
  <2>7. Carries(Pending(p))'
    BY <2>1, <2>2, <2>3, <2>6 DEF Carries, Pending, dataVars
  <2> SUFFICES ASSUME NEW q \in Stoppers
               PROVE  /\ stop'[q].before \subseteq 1..recorded'
                      /\ stop'[q].pc \in Collecting
                           => job'.step # "none" /\ Carries(Pending(q))'
                      /\ stop'[q].pc = "ok" => Pending(q)' \subseteq exported'
    BY DEF DrainInv
  <2>8. CASE q = p
    BY <2>1, <2>2, <2>3, <2>7, <2>8 DEF DrainInv, dataVars
  <2>9. CASE q # p
    BY <2>1, <2>3, <2>4, <2>9 DEF DrainInv, Pending, dataVars
  <2> QED
    BY <2>8, <2>9
<1>19. ASSUME NEW p \in Stoppers, ShutdownExporter(p) PROVE DrainInv'
  <2>1. stop[p].pc = "collect" /\ StopGoto(p, "client") /\ UNCHANGED <<job, dataVars>>
    BY <1>19 DEF ShutdownExporter
  <2> QED
    BY <2>1, StopGone DEF StopPlaces, dataVars, DrainInv, Carries, Pending, Collecting
<1>20. ASSUME NEW p \in Stoppers, ShutdownClient(p) PROVE DrainInv'
  <2>1. job.step \in {"ok", "error"} /\ stop[p].pc = "client"
    BY <1>20 DEF ShutdownClient, JobInv
  <2>2. /\ stop'[p].pc \in {job.step, "error"}
        /\ stop'[p].before = stop[p].before /\ stop'[p].gone = stop[p].gone
        /\ \A q \in Stoppers : q # p => stop'[q] = stop[q]
    BY <1>20, <2>1, ShutdownClientStep
  <2>3. \A q \in Stoppers : q # p => stop[q].pc \notin Collecting
    BY <2>1 DEF JobInv, InShutdown, Collecting
  <2>4. stop'[p].pc = "ok" => Pending(p) \subseteq exported
    BY <2>1, <2>2 DEF DrainInv, Carries, Pending, Collecting
  <2>5. \A q \in Stoppers : stop'[q].pc \notin Collecting
    BY <2>1, <2>2, <2>3 DEF Collecting
  <2>6. UNCHANGED <<recorded, exported, lost>>
    BY <1>20 DEF ShutdownClient, dataVars
  <2> QED
    BY <2>2, <2>4, <2>5, <2>6 DEF DrainInv, Pending
<1>21. ASSUME UNCHANGED vars PROVE DrainInv'
  BY <1>21 DEF vars, readerVars, dataVars, DrainInv, Carries, Pending
<1> QED
  BY <1>1, <1>2, <1>3, <1>4, <1>5, <1>6, <1>7, <1>8, <1>9, <1>10, <1>11,
     <1>12, <1>13, <1>14, <1>15, <1>16, <1>17, <1>18, <1>19, <1>20, <1>21
     DEF Next, CollectNext, RunNext, ShutdownNext

-----------------------------------------------------------------------------
(* The theorems. *)

ReaderInv ==
  /\ ExporterOK /\ ReaderTypes /\ JobInv
  /\ CountInv /\ FlushInv /\ DrainInv

LEMMA ReaderInvInit == Init => ReaderInv
<1> SUFFICES ASSUME Init PROVE ReaderInv
  OBVIOUS
<1>1. ReaderTypes
  BY ReaderTypesInit
<1>2. ExporterOK
  BY NoUploadTyped
  DEF Init, ExporterInit, ExporterOK, ExporterTypes, ExporterInv, MuFree, Uploading, RetryBounded
<1>3. JobInv
  BY NoJobTyped DEF Init, JobInv, InShutdown, Collecting
<1>4. CountInv
  BY NoJobTyped DEF Init, CountInv, Flying
<1>5. FlushInv
  BY DEF Init, FlushInv
<1>6. DrainInv
  BY DEF Init, DrainInv, Collecting
<1> QED
  BY <1>1, <1>2, <1>3, <1>4, <1>5, <1>6 DEF ReaderInv

LEMMA ReaderInvNext == ReaderInv /\ [Next]_vars => ReaderInv'
  BY ReaderTypesNext, JobNext, ExporterNext, CountNext, FlushNext, DrainNext DEF ReaderInv

(* Every variable of the reader and its exporter has its type.             *)
THEOREM TypeCorrect == Spec => []TypeOK
<1>1. ReaderInv => TypeOK
  BY DEF ReaderInv, ExporterOK, TypeOK
<1> QED
  BY <1>1, ReaderInvInit, ReaderInvNext, PTL DEF Spec

(* A client that was shut down makes no request, whoever uploads when the  *)
(* exporter's Shutdown comes: it swaps the client under clientMu, and      *)
(* nobody is uploading then (exporter.go, Export and Shutdown).            *)
THEOREM NoRequestOnClosedClient == Spec => []ClosedClientUnused
<1>1. ReaderInv => ClosedClientUnused
  BY DEF ReaderInv, ExporterOK, ExporterInv, ClosedClientUnused
<1> QED
  BY <1>1, ReaderInvInit, ReaderInvNext, PTL DEF Spec

(* No pause between attempts ends beyond MaxElapsedTime, for every retry   *)
(* configuration and every delay a server may ask for (retry.go,           *)
(* RequestFunc).                                                           *)
THEOREM PausesAreBounded == Spec => []RetryBounded
<1>1. ReaderInv => RetryBounded
  BY DEF ReaderInv, ExporterOK, ExporterInv
<1> QED
  BY <1>1, ReaderInvInit, ReaderInvNext, PTL DEF Spec

(* Disjoint parts of an interval add up to its length.                     *)
LEMMA PartsAddUp ==
  ASSUME NEW n \in Nat, NEW A, NEW B, NEW C, NEW D,
         1..n = A \cup B \cup C \cup D,
         A \cap B = {}, A \cap C = {}, A \cap D = {},
         B \cap C = {}, B \cap D = {}, C \cap D = {}
  PROVE  Cardinality(A) + Cardinality(B) + Cardinality(C) + Cardinality(D) = n
<1>1. IsFiniteSet(1..n) /\ Cardinality(1..n) = n
  BY FS_Interval
<1>2. IsFiniteSet(A) /\ IsFiniteSet(B) /\ IsFiniteSet(C) /\ IsFiniteSet(D)
  BY <1>1, FS_Subset
<1>3. Cardinality({}) = 0
  BY FS_EmptySet
<1>4. /\ IsFiniteSet(A \cup B)
      /\ Cardinality(A \cup B) = Cardinality(A) + Cardinality(B) - Cardinality(A \cap B)
  BY <1>2, FS_Union
<1>5. /\ IsFiniteSet(C \cup D)
      /\ Cardinality(C \cup D) = Cardinality(C) + Cardinality(D) - Cardinality(C \cap D)
  BY <1>2, FS_Union
<1>6. Cardinality((A \cup B) \cup (C \cup D))
        = Cardinality(A \cup B) + Cardinality(C \cup D)
            - Cardinality((A \cup B) \cap (C \cup D))
  BY <1>4, <1>5, FS_Union
<1>7. (A \cup B) \cap (C \cup D) = {} /\ (A \cup B) \cup (C \cup D) = 1..n
  OBVIOUS
<1>8. /\ Cardinality(A) \in Nat /\ Cardinality(B) \in Nat
      /\ Cardinality(C) \in Nat /\ Cardinality(D) \in Nat
  BY <1>2, FS_CardinalityType
<1>9. Cardinality(A \cap B) = 0 /\ Cardinality(C \cap D) = 0
  BY <1>3
<1>10. Cardinality((A \cup B) \cup (C \cup D)) = n
       /\ Cardinality((A \cup B) \cap (C \cup D)) = 0
  BY <1>1, <1>3, <1>7
<1> DEFINE a == Cardinality(A)
           b == Cardinality(B)
           c == Cardinality(C)
           d == Cardinality(D)
           ab == Cardinality(A \cup B)
           cd == Cardinality(C \cup D)
<1>11. /\ a \in Nat /\ b \in Nat /\ c \in Nat /\ d \in Nat
       /\ ab = a + b - 0 /\ cd = c + d - 0 /\ n = ab + cd - 0
  BY <1>4, <1>5, <1>6, <1>8, <1>9, <1>10
<1> HIDE DEF a, b, c, d, ab, cd
<1>12. a + b + c + d = n
  BY <1>11
<1> QED
  BY <1>12 DEF a, b, c, d

(* Every measurement is in the counter, in the collection, exported or     *)
(* lost with an error, and in one of these only (sum.go, delta;            *)
(* pipeline.go, produce).                                                  *)
THEOREM EachCountedOnce == Spec => []CountedOnce
<1>1. ReaderInv => CountedOnce
  <2> SUFFICES ASSUME ReaderInv PROVE CountedOnce
    OBVIOUS
  <2>1. CountInv /\ recorded \in Nat
    BY DEF ReaderInv, ReaderTypes
  <2>2. Cardinality(sum) + Cardinality(Flying) + Cardinality(exported) + Cardinality(lost)
          = recorded
    BY <2>1, PartsAddUp DEF CountInv
  <2> QED
    BY <2>1, <2>2 DEF CountInv, CountedOnce
<1> QED
  BY <1>1, ReaderInvInit, ReaderInvNext, PTL DEF Spec

(* ForceFlush answers nil only when what the counter held as the goroutine *)
(* took the request has been exported, whatever was measured meanwhile and *)
(* whenever Shutdown comes (periodic_reader.go, ForceFlush and run).       *)
THEOREM FlushedIsExported == Spec => []FlushExports
<1>1. ReaderInv => FlushExports
  BY DEF ReaderInv, FlushInv, FlushExports
<1> QED
  BY <1>1, ReaderInvInit, ReaderInvNext, PTL DEF Spec

(* Shutdown answers nil only when what the counter held as it was called   *)
(* has been exported, but for what the goroutine's collections had lost    *)
(* when Shutdown collected itself, and nothing is collected any more       *)
(* (periodic_reader.go, Shutdown).                                         *)
THEOREM DrainedOnShutdown == Spec => []ShutdownDrains
<1>1. ReaderInv => ShutdownDrains
  <2> SUFFICES ASSUME ReaderInv, NEW p \in Stoppers, stop[p].pc = "ok"
               PROVE  stop[p].before \subseteq exported \cup stop[p].gone /\ job = NoJob /\ run = "done"
    BY DEF ShutdownDrains
  <2>1. run = "done" /\ stopOnce = "done"
    BY DEF ReaderInv, JobInv
  <2>2. \A q \in Stoppers : stop[q].pc \notin Collecting
    BY <2>1 DEF ReaderInv, JobInv, InShutdown, Collecting
  <2> QED
    BY <2>1, <2>2 DEF ReaderInv, JobInv, DrainInv, Pending
<1> QED
  BY <1>1, ReaderInvInit, ReaderInvNext, PTL DEF Spec

-----------------------------------------------------------------------------
(* The cardinality limit of the histogram. *)

(* The data points, as far as the limit looks at them.                     *)
CountsInv ==
  /\ DOMAIN values = Sets
  /\ \A a \in Sets : "count" \in DOMAIN values[a] /\ values[a].count \in Nat

(* A set is spilled only when the limit is reached, which it stays until a *)
(* reset, and the overflow set itself may take the last place.             *)
LimitInv ==
  /\ IsFiniteSet(Present)
  /\ Cardinality(Present) <= AggLimit
  /\ Overflow \notin Present => Cardinality(Present) <= AggLimit - 1
  /\ spilled \subseteq AttrSets
  /\ spilled \cap Present = {}
  /\ spilled # {} => Cardinality(Present) >= AggLimit - 1

(* Every way through record counts the measurement once.                   *)
LEMMA RecordCounts ==
  ASSUME NEW p, "count" \in DOMAIN p, NEW m \in Measurements
  PROVE  "count" \in DOMAIN record(p, m) /\ record(p, m).count = p.count + 1
<1> DEFINE counted == [p EXCEPT !.count = @ + 1, !.seen[m] = @ + 1]
           delta_ == scaleChange(getBin(m.at, p.scale), p[m.sign])
           scale == p.scale - delta_
           scaled == IF delta_ > 0
                     THEN [counted EXCEPT !.scale = scale, !.pos = downscale(@, delta_),
                                          !.neg = downscale(@, delta_)]
                     ELSE counted
<1>1. "count" \in DOMAIN counted /\ counted.count = p.count + 1
  OBVIOUS
<1>2. m.sign \in {"pos", "neg", "zero"}
  BY DEF Measurements
<1> HIDE DEF counted, delta_
<1>3. "count" \in DOMAIN scaled /\ scaled.count = p.count + 1
  BY <1>1
<1> HIDE DEF scaled
<1>4. record(p, m) = CASE m.sign = "zero" -> [counted EXCEPT !.zero = @ + 1]
       [] m.sign # "zero" /\ delta_ > 0 /\ Underflows(scale) -> counted
       [] OTHER -> [scaled EXCEPT ![m.sign] = recordBin(@, getBin(m.at, scale))]
  BY DEF record, counted, delta_, scaled
<1> QED BY <1>1, <1>2, <1>3, <1>4

(* Each step keeps both.                                                   *)
LEMMA NextLimit ==
  ASSUME CountsInv, LimitInv, [HistNext]_histVars
  PROVE  CountsInv' /\ LimitInv'
<1>1. CASE delta
  <2>1. CountsInv' /\ Present' = {} /\ spilled' = {}
    BY <1>1 DEF delta, CountsInv, NoPoint, Present
  <2>2. IsFiniteSet({}) /\ Cardinality({}) = 0
    BY FS_EmptySet
  <2> QED BY <2>1, <2>2, SizeAssumption DEF LimitInv
<1>2. ASSUME NEW a \in AttrSets, NEW m \in Measurements, measure(a, m)
      PROVE  CountsInv' /\ LimitInv'
  <2> DEFINE attr == IF AtLimit(a) THEN Overflow ELSE a
  <2>1. attr \in Sets /\ a # Overflow
    BY SetAssumption DEF Sets
  <2>2. values' = [values EXCEPT ![attr] = record(@, m)]
    BY <1>2 DEF measure
  <2>3. spilled' = IF AtLimit(a) THEN spilled \cup {a} ELSE spilled
    BY <1>2, <2>1 DEF measure
  <2>4. "count" \in DOMAIN record(values[attr], m)
        /\ record(values[attr], m).count = values[attr].count + 1
    BY <2>1, RecordCounts DEF CountsInv
  <2>5. CountsInv'
    BY <2>1, <2>2, <2>4 DEF CountsInv
  <2>6. Present' = Present \cup {attr}
    <3> HIDE DEF attr
    <3>1. ASSUME NEW b \in Sets
          PROVE  values'[b].count > 0 <=> values[b].count > 0 \/ b = attr
      BY <2>1, <2>2, <2>4 DEF CountsInv
    <3> QED BY <2>1, <3>1 DEF Present
  <2>7. Cardinality(Present) \in Nat /\ IsFiniteSet(Present \cup {attr})
    BY FS_CardinalityType, FS_AddElement DEF LimitInv
  <2>8. Cardinality(Present') = IF attr \in Present THEN Cardinality(Present)
                               ELSE Cardinality(Present) + 1
    BY <2>6, FS_AddElement DEF LimitInv
  <2>9. CASE AtLimit(a)
    <3>1. attr = Overflow /\ a \notin Present /\ Cardinality(Present) >= AggLimit - 1
      BY <2>9 DEF AtLimit
    <3>2. Present' = Present \cup {Overflow} /\ spilled' = spilled \cup {a}
      BY <2>3, <2>6, <2>9
    <3>3. spilled' \subseteq AttrSets /\ spilled' \cap Present' = {}
      BY <2>1, <3>1, <3>2, SetAssumption DEF LimitInv
    <3>4. /\ Cardinality(Present') <= AggLimit
          /\ Cardinality(Present') >= AggLimit - 1
          /\ Overflow \in Present'
      BY <2>7, <2>8, <3>1, <3>2, SizeAssumption DEF LimitInv
    <3> QED BY <2>5, <2>6, <2>7, <3>3, <3>4 DEF LimitInv
  <2>10. CASE ~AtLimit(a)
    <3>1. attr = a /\ (a \in Present \/ Cardinality(Present) < AggLimit - 1)
      BY <2>7, <2>10, SizeAssumption DEF AtLimit
    <3> QED BY <2>1, <2>3, <2>5, <2>6, <2>7, <2>8, <2>10, <3>1, SizeAssumption DEF LimitInv
  <2> QED BY <2>9, <2>10
<1>3. CASE UNCHANGED histVars
  BY <1>3 DEF histVars, CountsInv, LimitInv, Present
<1> QED BY <1>1, <1>2, <1>3 DEF HistNext

(* At most AggLimit attribute sets are held, and a set with a data point   *)
(* of its own has nothing in the overflow (limit.go), for any limit.       *)
THEOREM LimitHolds == HistSpec => []LimitKept
<1>1. HistInit => CountsInv /\ LimitInv
  <2> SUFFICES ASSUME HistInit PROVE CountsInv /\ LimitInv
    OBVIOUS
  <2>1. CountsInv /\ Present = {} /\ spilled = {}
    BY DEF HistInit, CountsInv, NoPoint, Present
  <2>2. IsFiniteSet({}) /\ Cardinality({}) = 0
    BY FS_EmptySet
  <2> QED BY <2>1, <2>2, SizeAssumption DEF LimitInv
<1>2. CountsInv /\ LimitInv /\ [HistNext]_histVars => (CountsInv /\ LimitInv)'
  BY NextLimit
<1>3. LimitInv => LimitKept
  BY DEF LimitInv, LimitKept
<1> QED BY <1>1, <1>2, <1>3, PTL DEF HistSpec

-----------------------------------------------------------------------------
(* Powers of two. *)

(* The first n powers.                                                     *)
Powers(n, g) == g \in [0..n -> Nat] /\ g[0] = 1 /\ \A k \in 1..n : g[k] = 2 * g[k - 1]

(* Every number of doublings has its table of powers.                      *)
LEMMA PowersExist ==
  ASSUME NEW n \in Nat
  PROVE  \E g : Powers(n, g)
<1> DEFINE Good == {k \in 0..n : \E g : Powers(k, g)}
<1>1. 0 \in Good
  <2>1. Powers(0, [k \in 0..0 |-> 1])
    BY DEF Powers
  <2> QED BY <2>1
<1>2. ASSUME NEW m \in 1..n, m - 1 \in Good PROVE m \in Good
  <2>1. PICK h : Powers(m - 1, h)
    BY <1>2
  <2> DEFINE g == [k \in 0..m |-> IF k = m THEN 2 * h[m - 1] ELSE h[k]]
  <2>2. \A k \in 0..m : k # m => k \in 0..(m - 1)
    OBVIOUS
  <2>3. m - 1 \in 0..(m - 1) /\ h[m - 1] \in Nat /\ \A k \in 0..(m - 1) : h[k] \in Nat
    BY <2>1 DEF Powers
  <2>4. \A k \in 0..m : g[k] \in Nat
    BY <2>2, <2>3
  <2>5. g[0] = 1
    BY <2>1 DEF Powers
  <2>6. \A k \in 1..m : g[k] = 2 * g[k - 1]
    <3> TAKE k \in 1..m
    <3>1. k \in 0..m /\ k - 1 \in 0..m /\ k - 1 # m
      OBVIOUS
    <3>2. g[k - 1] = h[k - 1]
      BY <3>1
    <3>3. CASE k = m
      BY <3>1, <3>2, <3>3
    <3>4. CASE k # m
      <4>1. k \in 1..(m - 1) /\ g[k] = h[k]
        BY <3>1, <3>4
      <4>2. h[k] = 2 * h[k - 1]
        BY <2>1, <4>1 DEF Powers
      <4> HIDE DEF g
      <4> QED BY <3>2, <4>1, <4>2
    <3> QED BY <3>3, <3>4
  <2>7. g \in [0..m -> Nat]
    BY <2>4
  <2> HIDE DEF g
  <2>8. Powers(m, g)
    BY <2>5, <2>6, <2>7 DEF Powers
  <2> QED BY <2>8
<1>3. n \in Good
  <2> HIDE DEF Good
  <2> QED BY <1>1, <1>2, UpwardInduction
<1> QED BY <1>3

(* The table of fewer doublings is the beginning of one of more.           *)
LEMMA PowersUnique ==
  ASSUME NEW n \in Nat, NEW g, Powers(n, g), NEW m \in 0..n, NEW h, Powers(m, h)
  PROVE  \A k \in 0..m : h[k] = g[k]
<1> DEFINE Good == {k \in 0..m : h[k] = g[k]}
<1>1. 0 \in Good
  BY DEF Powers
<1>2. ASSUME NEW k \in 1..m, k - 1 \in Good PROVE k \in Good
  <2>1. k \in 1..n /\ k \in 0..m
    OBVIOUS
  <2>2. g[k] = 2 * g[k - 1] /\ h[k] = 2 * h[k - 1]
    BY <2>1 DEF Powers
  <2> QED BY <1>2, <2>1, <2>2
<1>3. \A k \in 0..m : k \in Good
  <2> HIDE DEF Good
  <2> QED BY <1>1, <1>2, UpwardInduction
<1> QED BY <1>3

(* The recursion that defines the shifts.                                  *)
LEMMA Pow2Rounds ==
  /\ Pow2[0] = 1
  /\ \A n \in Nat : Pow2[n] \in Nat /\ Pow2[n + 1] = 2 * Pow2[n]
<1> DEFINE g(n) == CHOOSE g : Powers(n, g)
           f == [n \in Nat |-> g(n)[n]]
<1>1. \A n \in Nat : Powers(n, g(n))
  BY PowersExist
<1> HIDE DEF g
<1>2. ASSUME NEW n \in Nat PROVE f[n] \in Nat /\ f[n + 1] = 2 * f[n]
  <2>1. Powers(n, g(n)) /\ Powers(n + 1, g(n + 1))
    BY <1>1
  <2>2. g(n)[n] = g(n + 1)[n]
    <3>1. n + 1 \in Nat /\ n \in 0..(n + 1) /\ n \in 0..n
      OBVIOUS
    <3> QED BY <2>1, <3>1, PowersUnique
  <2>3. g(n + 1)[n + 1] = 2 * g(n + 1)[n] /\ g(n)[n] \in Nat
    BY <2>1 DEF Powers
  <2> QED BY <2>2, <2>3
<1>3. f[0] = 1
  BY <1>1 DEF Powers
<1>4. f = [n \in Nat |-> f[n]]
  OBVIOUS
<1> HIDE DEF f
<1>5. f = [n \in Nat |-> IF n = 0 THEN 1 ELSE 2 * f[n - 1]]
  <2>1. ASSUME NEW n \in Nat PROVE f[n] = IF n = 0 THEN 1 ELSE 2 * f[n - 1]
    <3>1. CASE n = 0
      BY <1>3, <3>1
    <3>2. CASE n # 0
      <4>1. n - 1 \in Nat /\ (n - 1) + 1 = n
        BY <3>2
      <4> QED BY <1>2, <3>2, <4>1
    <3> QED BY <3>1, <3>2
  <2> QED BY <1>4, <2>1
<1>6. Pow2 = [n \in Nat |-> IF n = 0 THEN 1 ELSE 2 * Pow2[n - 1]]
  BY <1>5 DEF Pow2
<1>7. Pow2[0] = 1 /\ \A n \in Nat : Pow2[n + 1] = 2 * Pow2[n]
  <2>1. \A n \in Nat : n + 1 \in Nat /\ n + 1 # 0 /\ (n + 1) - 1 = n
    OBVIOUS
  <2> QED BY <1>6, <2>1
<1>8. ASSUME NEW n \in Nat PROVE Pow2[n] \in Nat
  <2> DEFINE Good == {k \in 0..n : Pow2[k] \in Nat}
  <2>1. 0 \in Good
    BY <1>7
  <2>2. ASSUME NEW k \in 1..n, k - 1 \in Good PROVE k \in Good
    <3>1. k - 1 \in Nat /\ (k - 1) + 1 = k
      OBVIOUS
    <3>2. Pow2[k] = 2 * Pow2[k - 1]
      BY <1>7, <3>1
    <3> QED BY <2>2, <3>2
  <2>3. n \in 0..n
    OBVIOUS
  <2> HIDE DEF Good
  <2>4. n \in Good
    BY <2>1, <2>2, <2>3, UpwardInduction
  <2> QED BY <2>4 DEF Good
<1> QED BY <1>7, <1>8

(* They are positive, and exponents add up.                                *)
LEMMA Pow2Sum ==
  ASSUME NEW a \in Nat, NEW b \in Nat
  PROVE  Pow2[a] \in Nat \ {0} /\ Pow2[a + b] = Pow2[a] * Pow2[b]
<1>1. ASSUME NEW c \in Nat PROVE Pow2[c] \in Nat \ {0}
  <2> DEFINE Good == {k \in 0..c : Pow2[k] > 0}
  <2>1. 0 \in Good
    BY Pow2Rounds
  <2>2. ASSUME NEW k \in 1..c, k - 1 \in Good PROVE k \in Good
    <3>1. k - 1 \in Nat /\ (k - 1) + 1 = k
      OBVIOUS
    <3>2. Pow2[k] = 2 * Pow2[k - 1] /\ Pow2[k - 1] \in Nat
      BY <3>1, Pow2Rounds
    <3> QED BY <2>2, <3>2
  <2>3. c \in 0..c
    OBVIOUS
  <2> HIDE DEF Good
  <2>4. c \in Good
    BY <2>1, <2>2, <2>3, UpwardInduction
  <2> QED BY <2>4, Pow2Rounds DEF Good
<1> DEFINE Good == {k \in 0..b : Pow2[a + k] = Pow2[a] * Pow2[k]}
<1>2. 0 \in Good
  BY Pow2Rounds
<1>3. ASSUME NEW k \in 1..b, k - 1 \in Good PROVE k \in Good
  <2>1. k - 1 \in Nat /\ (k - 1) + 1 = k /\ a + (k - 1) \in Nat /\ (a + (k - 1)) + 1 = a + k
    OBVIOUS
  <2>2. Pow2[k] = 2 * Pow2[k - 1] /\ Pow2[a + k] = 2 * Pow2[a + (k - 1)]
    BY <2>1, Pow2Rounds
  <2>3. Pow2[a + (k - 1)] = Pow2[a] * Pow2[k - 1]
    BY <1>3
  <2>4. Pow2[a] \in Nat /\ Pow2[k - 1] \in Nat
    BY <2>1, Pow2Rounds
  <2>5. 2 * (Pow2[a] * Pow2[k - 1]) = Pow2[a] * (2 * Pow2[k - 1])
    BY <2>4
  <2> QED BY <2>2, <2>3, <2>5
<1>4. b \in Good
  <2>1. b \in 0..b
    OBVIOUS
  <2> HIDE DEF Good
  <2> QED BY <1>2, <1>3, <2>1, UpwardInduction
<1> QED BY <1>1, <1>4

-----------------------------------------------------------------------------
(* Buckets and scales. *)

(* The constants of the histogram.                                         *)
LEMMA Units ==
  /\ MaxScale \in Nat /\ MaxScale <= 20 /\ Unit \in Nat \ {0} /\ Unit = Pow2[MaxScale + 1]
  /\ expoMinScale = -10 /\ expoMaxScale = 20
<1>1. MaxScale \in Nat /\ MaxScale + 1 \in Nat /\ MaxScale <= 20
  BY ScaleAssumption DEF expoMaxScale
<1>2. Unit \in Nat \ {0}
  BY <1>1, Pow2Sum DEF Unit
<1> QED BY <1>1, <1>2 DEF Unit, expoMinScale, expoMaxScale

(* A bucket of a coarser scale is made of whole buckets of a finer one.    *)
LEMMA BucketCoarser ==
  ASSUME NEW at \in Int, NEW scale \in Int, scale <= MaxScale + 1, NEW d \in Nat
  PROVE  /\ Bucket(at, scale) \in Int
         /\ Bucket(at, scale - d) = Bucket(at, scale) \div Pow2[d]
<1>1. MaxScale \in Nat
  BY Units
<1> DEFINE e == MaxScale + 1 - scale
<1>2. e \in Nat /\ MaxScale + 1 - (scale - d) = e + d
  BY <1>1
<1>3. Bucket(at, scale) = (at - 1) \div Pow2[e] /\ Bucket(at, scale - d) = (at - 1) \div Pow2[e + d]
  BY <1>2 DEF Bucket
<1> HIDE DEF e
<1>4. Pow2[e] \in Nat \ {0} /\ Pow2[d] \in Nat \ {0} /\ Pow2[e + d] = Pow2[e] * Pow2[d]
  BY <1>2, Pow2Sum
<1>5. ((at - 1) \div Pow2[e]) \div Pow2[d] = (at - 1) \div (Pow2[e] * Pow2[d])
  BY <1>4, NestedQuotient
<1>6. (at - 1) \div Pow2[e] \in Int
  BY <1>4, Quotient
<1> QED BY <1>3, <1>4, <1>5, <1>6

(* A bucket is an integer at every scale a data point may have.            *)
LEMMA BucketType ==
  ASSUME NEW at \in Int, NEW scale \in Int, scale <= MaxScale + 1
  PROVE  Bucket(at, scale) \in Int
<1>1. 0 \in Nat
  OBVIOUS
<1> QED BY <1>1, BucketCoarser

(* Both formulas of getBin give the bucket above whose lower bound, and    *)
(* not above whose upper bound, the position lies.                         *)
LEMMA BinIsBucket ==
  ASSUME NEW at \in Int, NEW scale \in Int, scale <= MaxScale
  PROVE  getBin(at, scale) = Bucket(at, scale)
<1>1. MaxScale \in Nat /\ Unit \in Nat \ {0} /\ Unit = Pow2[MaxScale + 1]
  BY Units
<1> DEFINE exp == at \div Unit + 1
           q == at \div Unit
<1>2. q \in Int /\ q * Unit <= at /\ at < q * Unit + Unit
  BY <1>1, Quotient
<1>3. CASE scale <= 0
  <2> DEFINE correction == IF at % Unit = 0 THEN 2 ELSE 1
  <2>1. getBin(at, scale) = (exp - correction) \div Pow2[-scale]
    BY <1>3 DEF getBin
  <2>2. exp - correction = (at - 1) \div Unit
    <3>1. at % Unit = at - q * Unit
      <4>1. at % Unit = at - Unit * (at \div Unit)
        <5> DEFINE u == Unit
        <5>1. u \in Nat \ {0}
          BY <1>1
        <5> HIDE DEF u
        <5>2. at % u = at - u * (at \div u)
          BY <5>1
        <5> QED BY <5>2 DEF u
      <4> HIDE DEF q
      <4>2. Unit * q = q * Unit
        BY <1>1, <1>2
      <4> QED BY <4>1, <4>2 DEF q
    <3> HIDE DEF q
    <3>2. CASE at = q * Unit
      <4>1. (q - 1) * Unit <= at - 1 /\ at - 1 < (q - 1) * Unit + Unit
        BY <1>1, <1>2, <3>2
      <4>2. q - 1 = (at - 1) \div Unit
        <5>1. at - 1 \in Int /\ q - 1 \in Int
          BY <1>2
        <5> QED BY <1>1, <4>1, <5>1, QuotientIs
      <4> QED BY <1>2, <3>1, <3>2, <4>2 DEF q
    <3>3. CASE at # q * Unit
      <4>0. q * Unit \in Int
        BY <1>1, <1>2
      <4>1. q * Unit <= at - 1 /\ at - 1 < q * Unit + Unit
        BY <1>1, <1>2, <3>3, <4>0
      <4>2. q = (at - 1) \div Unit
        <5>1. at - 1 \in Int /\ q \in Int
          BY <1>2
        <5> QED BY <1>1, <4>1, <5>1, QuotientIs
      <4>3. at % Unit # 0
        BY <1>1, <1>2, <3>1, <3>3, <4>0
      <4> QED BY <1>2, <4>2, <4>3 DEF q
    <3> QED BY <3>2, <3>3
  <2>3. -scale \in Nat /\ 0 - (-scale) = scale
    BY <1>3
  <2>4. Bucket(at, 0) = (at - 1) \div Unit
    BY <1>1 DEF Bucket
  <2>5. Bucket(at, scale) = Bucket(at, 0) \div Pow2[-scale]
    <3>1. Bucket(at, 0 - (-scale)) = Bucket(at, 0) \div Pow2[-scale]
      BY <1>1, <2>3, BucketCoarser
    <3> QED BY <2>3, <3>1
  <2> QED BY <2>1, <2>2, <2>4, <2>5
<1>4. CASE scale > 0
  <2> DEFINE w == Pow2[MaxScale + 1 - scale]
             z == Pow2[scale]
             x == exp * Unit - at
  <2>1. scale \in Nat /\ MaxScale + 1 - scale \in Nat /\ (MaxScale + 1 - scale) + scale = MaxScale + 1
    BY <1>1, <1>4
  <2>2. w \in Nat \ {0} /\ z \in Nat \ {0} /\ Unit = w * z
    BY <1>1, <2>1, Pow2Sum
  <2>3. getBin(at, scale) = exp * z - (x * z) \div Unit - 1
    BY <1>4 DEF getBin
  <2>4. Bucket(at, scale) = (at - 1) \div w
    BY DEF Bucket
  <2>5. exp \in Int /\ x \in Int
    BY <1>1, <1>2
  <2> HIDE DEF w, z, exp
  (* r is how many buckets at lies below the power of two above it. *)
  <2> DEFINE r == (x * z) \div Unit
  <2>6. r \in Int /\ r * Unit <= x * z /\ x * z < r * Unit + Unit
    <3>1. x * z \in Int
      BY <2>2, <2>5
    <3> QED BY <1>1, <3>1, Quotient
  <2> HIDE DEF r
  <2>7. x = exp * (w * z) - at
    BY <2>2
  <2> HIDE DEF x
  <2>8. (r * w) * z <= x * z /\ x * z < (r * w + w) * z
    BY <2>2, <2>6
  <2>9. r * w <= x /\ x < r * w + w
    <3>1. r * w \in Int
      BY <2>2, <2>6
    <3> DEFINE lo == r * w
    <3>2. lo \in Int /\ lo * z <= x * z /\ x * z < (lo + w) * z
      BY <2>8, <3>1
    <3> HIDE DEF lo
    <3>3. lo <= x
      BY <2>2, <2>5, <3>2
    <3>4. x < lo + w
      BY <2>2, <2>5, <3>2
    <3> QED BY <3>3, <3>4 DEF lo
  <2> DEFINE bin == exp * z - r - 1
  <2>10. bin * w <= at - 1 /\ at - 1 < bin * w + w
    <3>1. bin * w = exp * (w * z) - r * w - w
      BY <2>2, <2>5, <2>6
    <3>2. exp * (w * z) \in Int /\ r * w \in Int
      BY <2>2, <2>5, <2>6
    <3> QED BY <2>2, <2>5, <2>7, <2>9, <3>1, <3>2
  <2>11. bin \in Int
    BY <2>2, <2>5, <2>6
  <2>12. bin = (at - 1) \div w
    <3> HIDE DEF bin
    <3>1. at - 1 \in Int
      OBVIOUS
    <3> QED BY <2>2, <2>10, <2>11, <3>1, QuotientIs
  <2> QED BY <2>3, <2>4, <2>12 DEF r
<1> QED BY <1>3, <1>4

(* The range of float64 has three buckets at the lowest scale.             *)
LEMMA LowestScale ==
  ASSUME NEW at \in Positions \cup NegPositions
  PROVE  at \in Int /\ Bucket(at, expoMinScale) \in -2..0
<1>1. at \in Int /\ -1074 * Unit <= at /\ at <= 1024 * Unit - 1
  BY Units, RangeAssumption
<1>2. MaxScale \in Nat /\ Unit \in Nat \ {0} /\ Unit = Pow2[MaxScale + 1]
  BY Units
<1>3. Pow2[10] = 1024
  <2>1. /\ Pow2[0] = 1 /\ Pow2[0 + 1] = 2 * Pow2[0] /\ Pow2[1 + 1] = 2 * Pow2[1]
        /\ Pow2[2 + 1] = 2 * Pow2[2] /\ Pow2[3 + 1] = 2 * Pow2[3] /\ Pow2[4 + 1] = 2 * Pow2[4]
        /\ Pow2[5 + 1] = 2 * Pow2[5] /\ Pow2[6 + 1] = 2 * Pow2[6] /\ Pow2[7 + 1] = 2 * Pow2[7]
        /\ Pow2[8 + 1] = 2 * Pow2[8] /\ Pow2[9 + 1] = 2 * Pow2[9]
    BY Pow2Rounds
  <2> QED BY <2>1
<1>4. Pow2[(MaxScale + 1) + 10] = Unit * 1024 /\ MaxScale + 1 - expoMinScale = (MaxScale + 1) + 10
  <2>1. MaxScale + 1 \in Nat /\ 10 \in Nat
    BY <1>2
  <2>2. Pow2[(MaxScale + 1) + 10] = Pow2[MaxScale + 1] * Pow2[10]
    BY <2>1, Pow2Sum
  <2>3. MaxScale + 1 - expoMinScale = (MaxScale + 1) + 10
    BY <1>2 DEF expoMinScale
  <2> QED BY <1>2, <1>3, <2>2, <2>3
<1> DEFINE w == Unit * 1024
<1>5. Bucket(at, expoMinScale) = (at - 1) \div w /\ w \in Nat \ {0}
  BY <1>2, <1>4 DEF Bucket
<1>6. -2 * w <= at - 1 /\ at - 1 < w
  BY <1>1, <1>2
<1> HIDE DEF w
<1> DEFINE b == (at - 1) \div w
<1>7. b \in Int /\ b * w <= at - 1 /\ at - 1 < b * w + w
  BY <1>1, <1>5, Quotient
<1> HIDE DEF b
<1>8. w \in Nat \ {0} /\ b \in Int
  BY <1>5, <1>7
<1>9. b >= 1 => b * w >= w
  BY <1>8
<1>10. b <= -3 => b * w + w <= -2 * w
  BY <1>8
<1>11. b < 1 /\ b > -3
  <2>1. b * w \in Int /\ at - 1 \in Int /\ -2 * w \in Int
    BY <1>1, <1>8
  <2> QED BY <1>6, <1>7, <1>8, <1>9, <1>10, <2>1
<1> QED BY <1>1, <1>5, <1>7, <1>11 DEF b

(* The positions lie in the range of float64, so they are finitely many.   *)
LEMMA MeasurementsFinite ==
  /\ IsFiniteSet(Measurements)
  /\ \A m \in Measurements :
       /\ m.at \in Int /\ m.sign \in {"pos", "neg", "zero"}
       /\ m.sign # "zero" => m.at \in Positions \cup NegPositions
<1> DEFINE P == [sign : {"pos"}, at : Positions]
           N == [sign : {"neg"}, at : NegPositions]
           Z == {[sign |-> "zero", at |-> 0]}
           Range0 == (-1074 * Unit)..(1024 * Unit - 1)
<1>1. Measurements = (P \cup N) \cup Z
  BY DEF Measurements
<1>2. Positions \subseteq Range0 /\ NegPositions \subseteq Range0
  BY RangeAssumption
<1>0. \A x \in Positions \cup NegPositions : x \in Int
  BY RangeAssumption, Units
<1>3. IsFiniteSet(Range0)
  BY Units, FS_Interval
<1>4. IsFiniteSet(Positions) /\ IsFiniteSet(NegPositions)
  <2> HIDE DEF Range0
  <2> QED BY <1>2, <1>3, FS_Subset
<1>5. IsFiniteSet(P)
  <2> DEFINE f == [x \in Positions |-> [sign |-> "pos", at |-> x]]
  <2>1. \A x \in Positions : f[x] \in P
    OBVIOUS
  <2>2. \A y \in P : y.at \in Positions /\ y = f[y.at]
    OBVIOUS
  <2>3. f \in [Positions -> P]
    BY <2>1
  <2> HIDE DEF f, P
  <2>4. f \in Surjection(Positions, P)
    BY <2>2, <2>3 DEF Surjection
  <2> QED BY <1>4, <2>4, FS_Surjection
<1>6. IsFiniteSet(N)
  <2> DEFINE f == [x \in NegPositions |-> [sign |-> "neg", at |-> x]]
  <2>1. \A x \in NegPositions : f[x] \in N
    OBVIOUS
  <2>2. \A y \in N : y.at \in NegPositions /\ y = f[y.at]
    OBVIOUS
  <2>3. f \in [NegPositions -> N]
    BY <2>1
  <2> HIDE DEF f, N
  <2>4. f \in Surjection(NegPositions, N)
    BY <2>2, <2>3 DEF Surjection
  <2> QED BY <1>4, <2>4, FS_Surjection
<1>7. IsFiniteSet(Z)
  BY FS_Singleton
<1>8. \A m \in Measurements :
       /\ m.at \in Int /\ m.sign \in {"pos", "neg", "zero"}
       /\ m.sign # "zero" => m.at \in Positions \cup NegPositions
  <2> TAKE m \in Measurements
  <2>1. CASE m \in P
    BY <1>0, <2>1
  <2>2. CASE m \in N
    BY <1>0, <2>2
  <2>3. CASE m \in Z
    BY <2>3
  <2> HIDE DEF P, N, Z
  <2> QED BY <1>1, <2>1, <2>2, <2>3
<1> HIDE DEF P, N, Z
<1>9. IsFiniteSet((P \cup N) \cup Z)
  <2>1. IsFiniteSet(P \cup N)
    BY <1>5, <1>6, FS_Union
  <2> QED BY <1>7, <2>1, FS_Union
<1> QED BY <1>1, <1>8, <1>9

-----------------------------------------------------------------------------
(* What the buckets of one sign hold. *)

(* Signs, the buckets as they are stored, the measurements of a sign, those*)
(* in one bucket, those made, and how many.                                *)
Signs == {"pos", "neg"}

Slices == [start : Int, counts : Seq(Nat), spare : Seq(Nat)]

Of(sign) == {m \in Measurements : m.sign = sign}

Here(sign, scale, bin) == {m \in Measurements : m.sign = sign /\ Bucket(m.at, scale) = bin}

Made(seen, sign) == {m \in Measurements : m.sign = sign /\ seen[m] > 0}

Tally(seen, sign) == SumFunctionOnSet(seen, Of(sign))

(* Every count is exact, nothing that was measured lies outside, and the   *)
(* first and the last bucket are not empty.                                *)
Exact(b, seen, sign, scale) ==
  /\ b \in Slices
  /\ \A i \in DOMAIN b.counts :
       b.counts[i] = SumFunctionOnSet(seen, Here(sign, scale, b.start + i - 1))
  /\ \A m \in Made(seen, sign) : Bucket(m.at, scale) \in b.start..(b.start + Len(b.counts) - 1)
  /\ b.counts # <<>> =>
       \E l, h \in Made(seen, sign) :
         Bucket(l.at, scale) = b.start /\ Bucket(h.at, scale) = b.start + Len(b.counts) - 1
  /\ Len(b.counts) <= MaxSize

(* Sums over measurements are sums over finite sets.                       *)
LEMMA HereFinite ==
  ASSUME NEW sign, NEW scale, NEW bin, NEW seen \in [Measurements -> Nat]
  PROVE  /\ IsFiniteSet(Here(sign, scale, bin)) /\ IsFiniteSet(Of(sign))
         /\ Here(sign, scale, bin) \in SUBSET Of(sign)
         /\ \A m \in Of(sign) : seen[m] \in Nat
<1>1. Here(sign, scale, bin) \in SUBSET Measurements /\ Of(sign) \in SUBSET Measurements
  BY DEF Here, Of
<1>2. IsFiniteSet(Here(sign, scale, bin)) /\ IsFiniteSet(Of(sign))
  BY <1>1, MeasurementsFinite, FS_Subset
<1> QED BY <1>1, <1>2 DEF Here, Of

(* Buckets that count some of the measurements count them together.        *)
Gathered(counts, I, start, S, seen, sign, scale) ==
  /\ start \in Int /\ IsFiniteSet(I) /\ I \subseteq Int /\ S \in SUBSET Of(sign)
  /\ \A i \in I : counts[i] = SumFunctionOnSet(seen, Here(sign, scale, start + i - 1))
  /\ \A m \in Of(sign) : (\E i \in I : Bucket(m.at, scale) = start + i - 1) => m \in S
  /\ \A m \in S : seen[m] > 0 => \E i \in I : Bucket(m.at, scale) = start + i - 1

(* Together, the buckets count each of these measurements once.            *)
LEMMA SumOfBuckets ==
  ASSUME NEW counts, NEW I, NEW start, NEW S, NEW seen \in [Measurements -> Nat], NEW sign, NEW scale,
         Gathered(counts, I, start, S, seen, sign, scale)
  PROVE  SumFunctionOnSet(counts, I) = SumFunctionOnSet(seen, S)
<1> DEFINE part == [i \in I |-> Here(sign, scale, start + i - 1)]
           U == UNION {part[i] : i \in I}
<1>1. IsFiniteSet(Of(sign)) /\ \A m \in Of(sign) : seen[m] \in Nat
  BY HereFinite
<1>2. IsFiniteSet(S) /\ \A m \in S : seen[m] \in Nat
  BY <1>1, FS_Subset DEF Gathered
<1>3. \A i \in I : part[i] \in SUBSET S
  BY DEF Here, Of, Gathered
<1>4. \A i, j \in I : i # j => part[i] \cap part[j] = {}
  <2> TAKE i, j \in I
  <2>1. i # j => start + i - 1 # start + j - 1
    BY DEF Gathered
  <2> QED BY <2>1 DEF Here
<1>5. \A i \in I : counts[i] = SumFunctionOnSet(seen, part[i])
  BY DEF Gathered
<1>6. U \in SUBSET S
  BY <1>3
<1>7. \A m \in S \ U : seen[m] = 0
  <2> TAKE m \in S \ U
  <2>1. seen[m] > 0 => m \in U
    BY DEF Here, Of, Gathered
  <2> HIDE DEF U
  <2> QED BY <1>2, <2>1
<1> HIDE DEF part
<1>8. \A x \in U : \E i \in I : x \in part[i]
  OBVIOUS
<1>9. \A i \in I : part[i] \in SUBSET U
  OBVIOUS
<1> HIDE DEF U
<1>10. IsFiniteSet(U) /\ \A m \in U : seen[m] \in Nat
  BY <1>2, <1>6, FS_Subset
<1>11. InParts(counts, I, part, seen, U)
  BY <1>4, <1>5, <1>8, <1>9, <1>10 DEF InParts, Gathered
<1>12. SumFunctionOnSet(counts, I) = SumFunctionOnSet(seen, U)
  BY <1>11, SumOfSums
<1>13. SumFunctionOnSet(seen, S) = SumFunctionOnSet(seen, U)
  BY <1>2, <1>6, <1>7, SumOfPart
<1> QED BY <1>12, <1>13

(* No measurement is missed: the counts add up to what was measured.       *)
LEMMA CountedIsTally ==
  ASSUME NEW b, NEW seen \in [Measurements -> Nat], NEW sign, NEW scale \in Int, scale <= MaxScale,
         Exact(b, seen, sign, scale)
  PROVE  SumFunction(b.counts) = Tally(seen, sign)
<1> DEFINE I == DOMAIN b.counts
<1>1. b.start \in Int /\ b.counts \in Seq(Nat) /\ Len(b.counts) \in Nat /\ I = 1..Len(b.counts)
  BY DEF Exact, Slices
<1>2. IsFiniteSet(I) /\ I \subseteq Int
  BY <1>1, FS_Interval
<1>3. \A i \in I : b.counts[i] = SumFunctionOnSet(seen, Here(sign, scale, b.start + i - 1))
  BY DEF Exact
<1> HIDE DEF I
<1>4. \A m \in Of(sign) : seen[m] > 0 => \E i \in I : Bucket(m.at, scale) = b.start + i - 1
  <2> TAKE m \in Of(sign)
  <2> HAVE seen[m] > 0
  <2> DEFINE k == Bucket(m.at, scale)
             first == b.start
             n == Len(b.counts)
  <2>1. k \in first..(first + n - 1)
    BY DEF Exact, Made, Of
  <2>2. first \in Int /\ n \in Nat /\ I = 1..n
    BY <1>1
  <2> HIDE DEF k, first, n
  <2>3. k - first + 1 \in I /\ k = first + (k - first + 1) - 1
    BY <2>1, <2>2
  <2> QED BY <2>3 DEF k, first
<1>5. Gathered(b.counts, I, b.start, Of(sign), seen, sign, scale)
  BY <1>1, <1>2, <1>3, <1>4 DEF Gathered
<1>6. SumFunctionOnSet(b.counts, I) = SumFunctionOnSet(seen, Of(sign))
  BY <1>5, SumOfBuckets
<1> QED BY <1>6 DEF I, Tally, SumFunction

-----------------------------------------------------------------------------
(* One more measurement in a bucket. *)

(* The array has room for n counts, whether or not it is a new one.        *)
LEMMA ArrayProperties ==
  ASSUME NEW b \in Slices, NEW n \in Nat, n >= Len(b.counts)
  PROVE  Array(b, n) \in Seq(Nat) /\ Len(Array(b, n)) \in Nat /\ Len(Array(b, n)) >= n
<1> DEFINE cap == Len(b.counts) + Len(b.spare)
           size == Max({n, 2 * cap})
           zeros == [i \in 1..(size - Len(b.counts)) |-> 0]
<1>0. Len(b.counts) \in Nat /\ Len(b.spare) \in Nat
  BY DEF Slices
<1>1. b.counts \in Seq(Nat) /\ b.spare \in Seq(Nat)
  BY DEF Slices
<1> HIDE DEF size, zeros
<1>2. cap \in Nat
  <2> DEFINE p == Len(b.counts)
             q == Len(b.spare)
  <2>1. p \in Nat /\ q \in Nat
    BY <1>0
  <2> HIDE DEF p, q
  <2>2. p + q \in Nat
    BY <2>1
  <2> QED BY <2>2 DEF p, q
<1> HIDE DEF cap
<1>3. size \in Nat /\ size >= n
  <2> DEFINE w == 2 * cap
             S == {n, w}
  <2>1. n \in Int /\ w \in Nat /\ w \in Int
    BY <1>2
  <2>2. size = Max(S)
    BY DEF size
  <2>3. S = {n, w}
    OBVIOUS
  <2> HIDE DEF w, S
  <2>4. Max(S) \in {n, w} /\ Max(S) >= n
    BY <2>1, <2>3, MaxOfTwo
  <2> QED BY <2>1, <2>2, <2>4
<1>4. size - Len(b.counts) \in Nat
  BY <1>0, <1>3
<1>5. zeros \in Seq(Nat) /\ Len(zeros) = size - Len(b.counts)
  BY <1>4 DEF zeros
<1>6. /\ b.counts \o b.spare \in Seq(Nat) /\ Len(b.counts \o b.spare) = Len(b.counts) + Len(b.spare)
      /\ b.counts \o zeros \in Seq(Nat) /\ Len(b.counts \o zeros) = size
  <2>1. b.counts \o b.spare \in Seq(Nat) /\ Len(b.counts \o b.spare) = Len(b.counts) + Len(b.spare)
    BY <1>1, ConcatProperties
  <2>2. b.counts \o zeros \in Seq(Nat) /\ Len(b.counts \o zeros) = Len(b.counts) + Len(zeros)
    BY <1>1, <1>5, ConcatProperties
  <2>3. Len(b.counts) + Len(zeros) = size
    BY <1>0, <1>3, <1>5
  <2> QED BY <2>1, <2>2, <2>3
<1>7. Array(b, n) = IF n <= cap THEN b.counts \o b.spare ELSE b.counts \o zeros
  BY DEF Array, cap, size, zeros
<1>8. CASE n <= cap
  <2>1. Array(b, n) = b.counts \o b.spare
    BY <1>7, <1>8
  <2> QED BY <1>2, <1>6, <1>8, <2>1 DEF cap
<1>9. CASE ~(n <= cap)
  <2>1. Array(b, n) = b.counts \o zeros
    BY <1>7, <1>9
  <2> QED BY <1>3, <1>6, <2>1
<1> QED BY <1>8, <1>9

(* c is b with n counts, moved up by shift.                                *)
IsWidened(b, n, shift, bin, c) ==
  /\ c \in Slices /\ c.start = b.start - shift /\ Len(c.counts) = n /\ DOMAIN c.counts = 1..n
  /\ \A i \in 1..n :
       c.counts[i] = IF i = bin - c.start + 1 THEN 1
                     ELSE IF i - shift \in DOMAIN b.counts THEN b.counts[i - shift] ELSE 0

(* Widened moves the counts up, puts 1 into bin and zero everywhere else.  *)
LEMMA WidenedProperties ==
  ASSUME NEW b \in Slices, NEW n \in Nat, NEW shift \in Nat, n >= Len(b.counts), NEW bin \in Int
  PROVE  IsWidened(b, n, shift, bin, Widened(b, n, shift, bin))
<1> DEFINE array == Array(b, n)
           start == b.start - shift
           counts == [i \in 1..n |->
                        IF i = bin - start + 1 THEN 1
                        ELSE IF i - shift \in DOMAIN b.counts THEN b.counts[i - shift] ELSE 0]
           spare == SubSeq(array, n + 1, Len(array))
<1>1. array \in Seq(Nat) /\ Len(array) \in Nat /\ Len(array) >= n
  BY ArrayProperties
<1>2. b.start \in Int /\ \A i \in DOMAIN b.counts : b.counts[i] \in Nat
  BY DEF Slices
<1>3. start \in Int
  BY <1>2
<1>4. Widened(b, n, shift, bin) = [start |-> start, counts |-> counts, spare |-> spare]
  BY DEF Widened, Zeroed
<1> HIDE DEF array
<1>5. spare \in Seq(Nat)
  <2>1. n + 1 \in Int /\ \A i \in (n + 1)..Len(array) : array[i] \in Nat
    BY <1>1
  <2> QED BY <1>1, <2>1, SubSeqProperties
<1>6. counts \in Seq(Nat) /\ Len(counts) = n /\ DOMAIN counts = 1..n
  BY <1>2
<1> DEFINE c == Widened(b, n, shift, bin)
<1>7. c.start = start /\ c.counts = counts /\ c.spare = spare /\ c \in Slices
  <2> HIDE DEF start, counts, spare
  <2> QED BY <1>3, <1>4, <1>5, <1>6 DEF Slices
<1> HIDE DEF c
<1>8. \A i \in 1..n : counts[i] = IF i = bin - start + 1 THEN 1
                            ELSE IF i - shift \in DOMAIN b.counts THEN b.counts[i - shift] ELSE 0
  OBVIOUS
<1>9. IsWidened(b, n, shift, bin, c)
  <2> HIDE DEF counts
  <2> QED BY <1>6, <1>7, <1>8 DEF IsWidened
<1> QED BY <1>9 DEF c

(* The last bucket.                                                        *)
End(b) == b.start + Len(b.counts) - 1

(* c has one more than b in bin, and reaches from the lowest to the highest.*)
BinAdded(b, bin, c) ==
  /\ c \in Slices
  /\ \A i \in DOMAIN c.counts :
       c.counts[i] = (IF c.start + i - b.start \in DOMAIN b.counts THEN b.counts[c.start + i - b.start] ELSE 0)
                     + (IF c.start + i - 1 = bin THEN 1 ELSE 0)
  /\ bin \in c.start..End(c)
  /\ b.counts = <<>> => c.start = bin /\ End(c) = bin
  /\ b.counts # <<>> => /\ c.start = IF bin < b.start THEN bin ELSE b.start
                        /\ End(c) = IF bin > End(b) THEN bin ELSE End(b)

(* All four ways through recordBin add one to the bin.                     *)
LEMMA RecordBinAdds ==
  ASSUME NEW b \in Slices, NEW bin \in Int
  PROVE  BinAdded(b, bin, recordBin(b, bin))
<1> DEFINE n == Len(b.counts)
           first == b.start
           c == recordBin(b, bin)
<1>1. /\ first \in Int /\ b.counts \in Seq(Nat) /\ b.spare \in Seq(Nat) /\ n \in Nat /\ DOMAIN b.counts = 1..n
      /\ b.counts = <<>> <=> n = 0
      /\ \A i \in 1..n : b.counts[i] \in Nat
  BY DEF Slices
<1>2. CASE b.counts = <<>>
  <2>1. c = [start |-> bin, counts |-> <<1>>, spare |-> <<>>]
    BY <1>2 DEF recordBin
  <2>2. c.start = bin /\ c.counts = <<1>> /\ c.spare = <<>>
    BY <2>1
  <2>3. <<1>> \in Seq(Nat) /\ <<>> \in Seq(Nat) /\ Len(<<1>>) = 1 /\ <<1>>[1] = 1 /\ DOMAIN <<1>> = 1..1
    OBVIOUS
  <2>4. c \in Slices
    BY <2>1, <2>3 DEF Slices
  <2> HIDE DEF c
  <2>5. DOMAIN c.counts = 1..1 /\ c.counts[1] = 1 /\ End(c) = bin
    BY <2>2, <2>3 DEF End
  <2>6. DOMAIN b.counts = {}
    BY <1>1, <1>2
  <2> QED BY <1>2, <2>2, <2>4, <2>5, <2>6 DEF BinAdded, c
<1>3. CASE b.counts # <<>> /\ bin \in first..(first + n - 1)
  <2> DEFINE k == bin - first + 1
             counts == [b.counts EXCEPT ![k] = @ + 1]
  <2>1. k \in 1..n /\ bin = first + k - 1 /\ ~(bin < first) /\ ~(bin > first + n - 1)
    BY <1>1, <1>3
  <2>2. c = [b EXCEPT !.counts = counts]
    BY <1>3, <2>1 DEF recordBin
  <2> HIDE DEF k
  <2>3. counts \in Seq(Nat) /\ Len(counts) = n /\ DOMAIN counts = 1..n
    BY <1>1, <2>1
  <2>4. \A i \in 1..n : counts[i] = b.counts[i] + (IF i = k THEN 1 ELSE 0)
    BY <1>1, <2>1
  <2> HIDE DEF counts
  <2>5. c.start = first /\ c.counts = counts /\ c \in Slices
    BY <1>1, <2>2, <2>3 DEF Slices
  <2> HIDE DEF c, first, n
  <2>6. ASSUME NEW i \in 1..n
        PROVE  c.counts[i] = (IF c.start + i - b.start \in DOMAIN b.counts THEN b.counts[c.start + i - b.start] ELSE 0)
                              + (IF c.start + i - 1 = bin THEN 1 ELSE 0)
    <3>1. c.start + i - b.start = i /\ (c.start + i - 1 = bin <=> i = k)
      BY <1>1, <2>1, <2>5 DEF first
    <3> QED BY <1>1, <2>4, <2>5, <3>1
  <2>7. End(c) = End(b) /\ End(b) = first + n - 1 /\ bin \in c.start..End(c)
    BY <1>1, <1>3, <2>3, <2>5 DEF End, first, n
  <2>8. DOMAIN c.counts = 1..n /\ b.start = first
    BY <2>3, <2>5 DEF first
  <2> QED BY <1>3, <2>1, <2>5, <2>6, <2>7, <2>8 DEF BinAdded, c
<1>4. CASE b.counts # <<>> /\ bin < first
  <2> DEFINE shift == first - bin
             m == first + n - 1 - bin + 1
  <2>2. n > 0 /\ n \in Nat /\ first \in Int /\ ~(bin > first + n - 1)
    BY <1>1, <1>4
  <2>1. c = Widened(b, m, shift, bin)
    BY <1>4, <2>2 DEF recordBin
  <2> HIDE DEF n, first
  <2>3. shift \in Nat /\ m \in Nat /\ m = n + shift /\ bin = first - shift
    BY <1>4, <2>2
  <2> HIDE DEF shift, m, c
  <2>4. IsWidened(b, m, shift, bin, c)
    BY <2>1, <2>2, <2>3, WidenedProperties DEF n
  <2>5. /\ c \in Slices /\ c.start = bin /\ Len(c.counts) = m /\ DOMAIN c.counts = 1..m /\ b.start = first
        /\ \A i \in 1..m :
              c.counts[i] = IF i = bin - bin + 1 THEN 1
                            ELSE IF i - shift \in DOMAIN b.counts THEN b.counts[i - shift] ELSE 0
    BY <2>3, <2>4 DEF IsWidened, first
  <2>6. ASSUME NEW i \in 1..m
        PROVE  c.counts[i] = (IF c.start + i - b.start \in DOMAIN b.counts THEN b.counts[c.start + i - b.start] ELSE 0)
                              + (IF c.start + i - 1 = bin THEN 1 ELSE 0)
    <3>1. c.start + i - b.start = i - shift
      BY <2>2, <2>3, <2>5
    <3>2. (c.start + i - 1 = bin <=> i = 1) /\ (i = bin - bin + 1 <=> i = 1)
      BY <2>5
    <3>3. CASE i = 1
      <4>1. i - shift \notin DOMAIN b.counts
        BY <1>1, <1>4, <2>2, <2>3, <3>3
      <4> QED BY <2>5, <3>1, <3>2, <3>3, <4>1
    <3>4. CASE i # 1
      <4>1. i - shift \in DOMAIN b.counts => b.counts[i - shift] \in Nat
        BY <1>1
      <4> QED BY <2>5, <3>1, <3>2, <3>4, <4>1
    <3> QED BY <3>3, <3>4
  <2>7. End(b) = first + n - 1 /\ End(c) = bin + m - 1
    BY <2>5 DEF End, first, n
  <2>8. End(c) = End(b) /\ bin \in c.start..End(c) /\ ~(bin > End(b))
    BY <1>4, <2>2, <2>3, <2>5, <2>7
  <2> QED BY <1>4, <2>5, <2>6, <2>8 DEF BinAdded, c
<1>5. CASE b.counts # <<>> /\ bin > first + n - 1
  <2> DEFINE m == bin - first + 1
  <2>0. n > 0 /\ n \in Nat /\ first \in Int /\ ~(bin < first)
    BY <1>1, <1>5
  <2>1. c = Widened(b, m, 0, bin)
    BY <1>5, <2>0 DEF recordBin
  <2> HIDE DEF n, first
  <2>3. m \in Nat /\ m > n /\ bin = first + m - 1 /\ 0 \in Nat
    BY <1>5, <2>0
  <2> HIDE DEF m, c
  <2>4. IsWidened(b, m, 0, bin, c)
    BY <2>0, <2>1, <2>3, WidenedProperties DEF n
  <2>5. /\ c \in Slices /\ c.start = first - 0 /\ Len(c.counts) = m /\ DOMAIN c.counts = 1..m /\ b.start = first
        /\ \A i \in 1..m :
              c.counts[i] = IF i = bin - c.start + 1 THEN 1
                            ELSE IF i - 0 \in DOMAIN b.counts THEN b.counts[i - 0] ELSE 0
    BY <2>4 DEF IsWidened, first
  <2>6. ASSUME NEW i \in 1..m
        PROVE  c.counts[i] = (IF c.start + i - b.start \in DOMAIN b.counts THEN b.counts[c.start + i - b.start] ELSE 0)
                              + (IF c.start + i - 1 = bin THEN 1 ELSE 0)
    <3>1. c.start + i - b.start = i /\ i - 0 = i /\ c.start = first
      BY <2>0, <2>3, <2>5
    <3>2. (c.start + i - 1 = bin <=> i = m) /\ (i = bin - c.start + 1 <=> i = m)
      BY <2>0, <2>3, <3>1
    <3>3. CASE i = m
      <4>1. i \notin DOMAIN b.counts
        BY <1>1, <2>3, <3>3
      <4> QED BY <2>5, <3>1, <3>2, <3>3, <4>1
    <3>4. CASE i # m
      <4>1. i \in DOMAIN b.counts => b.counts[i] \in Nat
        BY <1>1
      <4> QED BY <2>5, <3>1, <3>2, <3>4, <4>1
    <3> QED BY <3>3, <3>4
  <2>7. End(b) = first + n - 1 /\ End(c) = first - 0 + m - 1
    BY <2>5 DEF End, first, n
  <2>8. End(c) = bin /\ bin \in c.start..End(c) /\ bin > End(b) /\ c.start = first
    BY <1>5, <2>0, <2>3, <2>5, <2>7
  <2> QED BY <1>5, <2>0, <2>5, <2>6, <2>8 DEF BinAdded, c
<1> QED BY <1>1, <1>2, <1>3, <1>4, <1>5

(* So the buckets stay exact when the measurement in that bin is made.     *)
LEMMA RecordedExact ==
  ASSUME NEW b, NEW seen \in [Measurements -> Nat], NEW m \in Measurements,
         NEW scale \in Int, scale <= MaxScale, Exact(b, seen, m.sign, scale),
         NEW c, BinAdded(b, Bucket(m.at, scale), c), Len(c.counts) <= MaxSize
  PROVE  Exact(c, [seen EXCEPT ![m] = @ + 1], m.sign, scale)
<1> DEFINE bin == Bucket(m.at, scale)
           sign == m.sign
           now == [seen EXCEPT ![m] = @ + 1]
<1>1. now \in [Measurements -> Nat] /\ now[m] > 0
      /\ \A x \in Measurements : now[x] = IF x = m THEN seen[x] + 1 ELSE seen[x]
  OBVIOUS
<1>2. b \in Slices /\ c \in Slices
  BY DEF Exact, BinAdded
<1>3. /\ b.start \in Int /\ b.counts \in Seq(Nat) /\ Len(b.counts) \in Nat /\ DOMAIN b.counts = 1..Len(b.counts)
      /\ c.start \in Int /\ c.counts \in Seq(Nat) /\ Len(c.counts) \in Nat /\ DOMAIN c.counts = 1..Len(c.counts)
      /\ (b.counts = <<>> <=> Len(b.counts) = 0)
  BY <1>2 DEF Slices
<1>4. bin \in Int
  <2>1. m.at \in Int /\ scale <= MaxScale + 1
    BY MeasurementsFinite, Units
  <2> QED BY <2>1, BucketType
<1> HIDE DEF now
<1>5. Made(now, sign) = Made(seen, sign) \cup {m}
  BY <1>1 DEF Made
<1>6. ASSUME NEW k \in Int
      PROVE  SumFunctionOnSet(now, Here(sign, scale, k))
               = SumFunctionOnSet(seen, Here(sign, scale, k)) + (IF k = bin THEN 1 ELSE 0)
  <2> DEFINE H == Here(sign, scale, k)
  <2>1. IsFiniteSet(H)
    BY HereFinite
  <2>2. \A x \in H : seen[x] \in Nat /\ now[x] = IF x = m THEN seen[x] + 1 ELSE seen[x]
    BY <1>1 DEF Here
  <2>3. m \in H <=> k = bin
    BY DEF Here
  <2> HIDE DEF H, bin
  <2>4. SumFunctionOnSet(now, H) = SumFunctionOnSet(seen, H) + (IF m \in H THEN 1 ELSE 0)
    BY <2>1, <2>2, SumAdded
  <2> QED BY <2>3, <2>4 DEF H
<1>7. ASSUME NEW k \in Int
      PROVE  SumFunctionOnSet(seen, Here(sign, scale, k))
               = IF k - b.start + 1 \in DOMAIN b.counts THEN b.counts[k - b.start + 1] ELSE 0
  <2>1. CASE k - b.start + 1 \in DOMAIN b.counts
    <3>1. b.counts[k - b.start + 1] = SumFunctionOnSet(seen, Here(sign, scale, b.start + (k - b.start + 1) - 1))
      BY <2>1 DEF Exact
    <3>2. b.start + (k - b.start + 1) - 1 = k
      BY <1>3
    <3> QED BY <2>1, <3>1, <3>2
  <2>2. CASE k - b.start + 1 \notin DOMAIN b.counts
    <3>1. k \notin b.start..(b.start + Len(b.counts) - 1)
      BY <1>3, <2>2
    <3>2. \A x \in Here(sign, scale, k) : seen[x] = 0
      BY <3>1 DEF Exact, Made, Here
    <3>3. IsFiniteSet(Here(sign, scale, k))
      BY HereFinite
    <3> QED BY <2>2, <3>2, <3>3, SumZero
  <2> QED BY <2>1, <2>2
<1>8. ASSUME NEW i \in DOMAIN c.counts
      PROVE  c.counts[i] = SumFunctionOnSet(now, Here(sign, scale, c.start + i - 1))
  <2> DEFINE k == c.start + i - 1
  <2>1. k \in Int /\ k - b.start + 1 = c.start + i - b.start
    BY <1>3
  <2>2. c.counts[i] = (IF c.start + i - b.start \in DOMAIN b.counts THEN b.counts[c.start + i - b.start] ELSE 0)
                      + (IF k = bin THEN 1 ELSE 0)
    BY DEF BinAdded
  <2> HIDE DEF k, bin
  <2>3. c.counts[i] = SumFunctionOnSet(now, Here(sign, scale, k))
    BY <1>6, <1>7, <2>1, <2>2
  <2> QED BY <2>3 DEF k
<1>9. End(b) \in Int /\ End(c) \in Int
  BY <1>3 DEF End
<1> HIDE DEF bin
<1>10. /\ bin \in c.start..End(c)
       /\ b.counts = <<>> => c.start = bin /\ End(c) = bin
       /\ b.counts # <<>> => /\ c.start = IF bin < b.start THEN bin ELSE b.start
                             /\ End(c) = IF bin > End(b) THEN bin ELSE End(b)
  BY DEF BinAdded, bin
<1>11. ASSUME NEW x \in Made(now, sign) PROVE Bucket(x.at, scale) \in c.start..End(c)
  <2>1. CASE x = m
    BY <1>10, <2>1 DEF bin
  <2>2. CASE x # m
    <3>1. x \in Made(seen, sign)
      BY <1>5, <2>2
    <3>2. Bucket(x.at, scale) \in b.start..End(b)
      BY <3>1 DEF Exact, End
    <3>3. b.counts # <<>>
      BY <1>3, <3>2 DEF End
    <3> QED BY <1>3, <1>4, <1>9, <1>10, <3>2, <3>3
  <2> QED BY <2>1, <2>2
<1>12. \E l, h \in Made(now, sign) : Bucket(l.at, scale) = c.start /\ Bucket(h.at, scale) = End(c)
  <2>1. m \in Made(now, sign) /\ Bucket(m.at, scale) = bin
    BY <1>5 DEF bin
  <2>2. CASE b.counts = <<>>
    BY <1>10, <2>1, <2>2
  <2>3. CASE b.counts # <<>>
    <3>1. PICK l, h \in Made(seen, sign) : Bucket(l.at, scale) = b.start /\ Bucket(h.at, scale) = End(b)
      BY <2>3 DEF Exact, End
    <3>2. l \in Made(now, sign) /\ h \in Made(now, sign)
      BY <1>5
    <3> QED BY <1>10, <2>1, <2>3, <3>1, <3>2
  <2> QED BY <2>2, <2>3
<1>13. Exact(c, now, sign, scale)
  BY <1>2, <1>8, <1>11, <1>12 DEF Exact, End
<1> QED BY <1>13 DEF now

-----------------------------------------------------------------------------
(* Merging buckets. *)

(* The counts that go into bucket k of the coarser scale.                  *)
MergedAt(b, steps, k) == {i \in DOMAIN b.counts : (b.start + i - 1) \div steps = k}

(* c holds the buckets of b, steps of them in one.                         *)
IsDownscaled(b, steps, c) ==
  /\ c \in Slices
  /\ c.start = b.start \div steps
  /\ b.counts = <<>> => c.counts = <<>>
  /\ b.counts # <<>> => /\ c.counts # <<>>
                        /\ End(c) = End(b) \div steps
                        /\ Len(c.counts) <= Len(b.counts)
  /\ \A j \in DOMAIN c.counts :
       c.counts[j] = SumFunctionOnSet(b.counts, MergedAt(b, steps, c.start + j - 1))

(* downscale adds up the buckets that the coarser scale makes one.         *)
LEMMA DownscaleMerges ==
  ASSUME NEW b \in Slices, NEW d \in Nat
  PROVE  IsDownscaled(b, Pow2[d], downscale(b, d))
<1> DEFINE n == Len(b.counts)
           first == b.start
           steps == Pow2[d]
           c == downscale(b, d)
<1>1. /\ first \in Int /\ b.counts \in Seq(Nat) /\ b.spare \in Seq(Nat) /\ n \in Nat /\ DOMAIN b.counts = 1..n
      /\ b.counts = <<>> <=> n = 0
      /\ \A i \in 1..n : b.counts[i] \in Nat
  BY DEF Slices
<1>2. steps \in Nat \ {0}
  <2>1. 0 \in Nat
    OBVIOUS
  <2> QED BY <2>1, Pow2Sum
<1> DEFINE q == first \div steps
<1>3. q \in Int
  BY <1>1, <1>2, Quotient
<1>4. ASSUME NEW S \in SUBSET (1..n)
      PROVE  /\ SumFunctionOnSet(b.counts, S) \in Nat
             /\ S = {1} => SumFunctionOnSet(b.counts, S) = b.counts[1]
  <2>1. IsFiniteSet(1..n)
    BY <1>1, FS_Interval
  <2>2. IsFiniteSet(S) /\ \A i \in S : b.counts[i] \in Nat
    BY <1>1, <2>1, FS_Subset
  <2>3. /\ SumFunctionOnSet(b.counts, S) \in Nat
        /\ SumFunctionOnSet(b.counts, {}) = 0
        /\ \A x \in S : SumFunctionOnSet(b.counts, S) = b.counts[x] + SumFunctionOnSet(b.counts, S \ {x})
    BY <2>2, SumSplit
  <2>4. S = {1} => S \ {1} = {} /\ b.counts[1] \in Nat
    BY <2>2
  <2> QED BY <2>3, <2>4
<1>5. CASE n <= 1
  <2>1. c = [b EXCEPT !.start = q]
    BY <1>5, Zenon DEF downscale
  <2> HIDE DEF q
  <2>2. c.start = q /\ c.counts = b.counts /\ c \in Slices
    BY <1>3, <2>1 DEF Slices
  <2> HIDE DEF c
  <2>3. b.counts # <<>> => End(c) = q /\ End(b) = first
    <3>1. End(c) = q + n - 1 /\ End(b) = first + n - 1
      BY <2>2 DEF End
    <3> HIDE DEF n, first
    <3>2. b.counts # <<>> => n = 1
      BY <1>1, <1>5
    <3> QED BY <1>1, <1>3, <3>1, <3>2
  <2>4. ASSUME NEW j \in DOMAIN b.counts
        PROVE  b.counts[j] = SumFunctionOnSet(b.counts, MergedAt(b, steps, q + j - 1))
    <3>1. j = 1 /\ n = 1
      <4>1. j \in 1..n /\ n \in Nat
        BY <1>1
      <4> HIDE DEF n
      <4> QED BY <1>5, <4>1
    <3>2. first + 1 - 1 = first /\ q + 1 - 1 = q /\ 1..1 = {1}
      BY <1>1, <1>3
    <3>3. MergedAt(b, steps, q + 1 - 1) = {1}
      BY <1>1, <3>1, <3>2 DEF MergedAt, q
    <3> QED BY <1>4, <3>1, <3>3
  <2>5. b.counts # <<>> => Len(c.counts) <= Len(b.counts)
    BY <1>1, <2>2
  <2> QED BY <2>2, <2>3, <2>4, <2>5 DEF IsDownscaled, c, q
<1>6. CASE ~(n <= 1)
  <2> DEFINE offset == Offset(first, steps)
             size == (n - 1 + offset) \div steps + 1
             merged(j) == {i \in DOMAIN b.counts : (i - 1 + offset) \div steps = j - 1}
             counts == [j \in 1..size |-> SumFunctionOnSet(b.counts, merged(j))]
             array == b.counts \o b.spare
             spare == SubSeq(array, size + 1, Len(array))
  <2>1. c = [start |-> q, counts |-> counts, spare |-> spare]
    BY <1>6 DEF downscale
  <2>2. \A x \in Int : (x + offset) \div steps = ((x + first) \div steps) - q
    BY <1>1, <1>2, ShiftedQuotient DEF Offset
  <2> HIDE DEF offset
  <2>3. End(b) = first + n - 1
    BY DEF End
  <2>4. size = (End(b) \div steps) - q + 1
    <3>1. n - 1 \in Int /\ (n - 1) + first = End(b)
      BY <1>1, <2>3
    <3>2. (n - 1 + offset) \div steps = (End(b) \div steps) - q
      BY <2>2, <3>1
    <3> QED BY <3>2
  <2>5. (End(b) \div steps) - q \in 0..(n - 1) /\ End(b) \div steps \in Int
    <3>1. End(b) \in Int /\ first <= End(b) /\ End(b) - first = n - 1
      BY <1>1, <1>6, <2>3
    <3> QED BY <1>1, <1>2, <3>1, QuotientGap, Quotient
  <2>6. size \in 1..n
    <3> DEFINE z == (End(b) \div steps) - q
    <3>1. z \in 0..(n - 1) /\ size = z + 1
      BY <2>4, <2>5
    <3> HIDE DEF z, size
    <3> QED BY <1>1, <3>1
  <2>7. ASSUME NEW j \in Int PROVE merged(j) = MergedAt(b, steps, q + j - 1)
    <3>1. ASSUME NEW i \in DOMAIN b.counts
          PROVE  (i - 1 + offset) \div steps = j - 1 <=> (first + i - 1) \div steps = q + j - 1
      <4>1. i - 1 \in Int /\ (i - 1) + first = first + i - 1
        BY <1>1
      <4>2. (i - 1 + offset) \div steps = ((first + i - 1) \div steps) - q
        BY <2>2, <4>1
      <4>3. (first + i - 1) \div steps \in Int
        <5>1. first + i - 1 \in Int
          BY <1>1
        <5> QED BY <1>2, <5>1, Quotient
      <4> DEFINE e == (first + i - 1) \div steps
                 f == (i - 1 + offset) \div steps
      <4>4. e \in Int /\ f = e - q
        BY <4>2, <4>3
      <4> HIDE DEF e, f, q
      <4>5. f = j - 1 <=> e = q + j - 1
        BY <1>3, <4>4
      <4> QED BY <4>5 DEF e, f
    <3> QED BY <3>1 DEF MergedAt
  <2>8. \A j \in 1..size : counts[j] = SumFunctionOnSet(b.counts, MergedAt(b, steps, q + j - 1))
    <3> HIDE DEF merged
    <3> TAKE j \in 1..size
    <3>1. counts[j] = SumFunctionOnSet(b.counts, merged(j)) /\ j \in Int
      OBVIOUS
    <3> QED BY <2>7, <3>1
  <2>9. counts \in Seq(Nat) /\ Len(counts) = size /\ DOMAIN counts = 1..size
    <3>1. \A j \in 1..size : SumFunctionOnSet(b.counts, merged(j)) \in Nat
      <4> TAKE j \in 1..size
      <4>1. merged(j) \in SUBSET (1..n)
        BY <1>1
      <4> HIDE DEF merged
      <4> QED BY <1>4, <4>1
    <3> HIDE DEF merged, size
    <3>2. size \in Nat
      BY <2>6
    <3> QED BY <3>1, <3>2
  <2> HIDE DEF counts, merged, size
  <2>10. spare \in Seq(Nat)
    <3>1. array \in Seq(Nat)
      BY <1>1, ConcatProperties
    <3> HIDE DEF array
    <3>2. Len(array) \in Nat /\ size + 1 \in Int /\ \A i \in (size + 1)..Len(array) : array[i] \in Nat
      BY <2>6, <3>1
    <3> QED BY <3>2, SubSeqProperties
  <2> HIDE DEF spare, array
  <2>11. c \in Slices /\ c.start = q /\ c.counts = counts
    <3> HIDE DEF q, c
    <3> QED BY <1>3, <2>1, <2>9, <2>10 DEF Slices
  <2> HIDE DEF c
  <2>12. End(c) = End(b) \div steps
    <3>1. End(c) = q + size - 1
      BY <2>9, <2>11 DEF End
    <3> DEFINE e == End(b) \div steps
    <3>2. e \in Int /\ size = e - q + 1
      BY <2>4, <2>5
    <3> HIDE DEF e, q
    <3>3. End(c) = e
      BY <1>3, <3>1, <3>2
    <3> QED BY <3>3 DEF e
  <2>13. b.counts # <<>> /\ c.counts # <<>> /\ Len(c.counts) <= Len(b.counts)
    BY <1>1, <1>6, <2>6, <2>9, <2>11
  <2> HIDE DEF n
  <2> QED BY <2>8, <2>9, <2>11, <2>12, <2>13 DEF IsDownscaled, c
<1> QED BY <1>5, <1>6

(* Merged buckets are exact at the coarser scale.                          *)
LEMMA DownscaledExact ==
  ASSUME NEW b, NEW seen \in [Measurements -> Nat], NEW sign \in Signs, NEW scale \in Int, scale <= MaxScale,
         NEW d \in Nat, Exact(b, seen, sign, scale), NEW c, IsDownscaled(b, Pow2[d], c)
  PROVE  Exact(c, seen, sign, scale - d)
<1> DEFINE steps == Pow2[d]
           first == b.start
           n == Len(b.counts)
           scale2 == scale - d
<1>1. b \in Slices /\ c \in Slices
  BY DEF Exact, IsDownscaled
<1>2. /\ first \in Int /\ b.counts \in Seq(Nat) /\ n \in Nat /\ DOMAIN b.counts = 1..n
      /\ (b.counts = <<>> <=> n = 0) /\ End(b) = first + n - 1 /\ End(b) \in Int
      /\ c.start \in Int /\ c.counts \in Seq(Nat) /\ Len(c.counts) \in Nat /\ DOMAIN c.counts = 1..Len(c.counts)
      /\ End(c) = c.start + Len(c.counts) - 1 /\ End(c) \in Int
  BY <1>1 DEF Slices, End
<1>3. steps \in Nat \ {0}
  <2>1. 0 \in Nat
    OBVIOUS
  <2> QED BY <2>1, Pow2Sum
<1>4. \A m \in Measurements :
        Bucket(m.at, scale) \in Int /\ Bucket(m.at, scale2) = Bucket(m.at, scale) \div steps
  <2> TAKE m \in Measurements
  <2>1. m.at \in Int /\ scale <= MaxScale + 1
    BY MeasurementsFinite, Units
  <2> QED BY <2>1, BucketCoarser
<1> HIDE DEF steps, scale2
<1>5. \A m \in Made(seen, sign) : m \in Measurements /\ Bucket(m.at, scale) \in first..End(b)
  BY DEF Exact, Made, End
<1>6. CASE b.counts = <<>>
  <2>1. c.counts = <<>> /\ n = 0
    BY <1>2, <1>6 DEF IsDownscaled
  <2>2. Made(seen, sign) = {}
    BY <1>2, <1>5, <2>1
  <2>3. DOMAIN c.counts = {} /\ Len(c.counts) = 0 /\ 0 <= MaxSize
    BY <2>1, SizeAssumption
  <2> QED BY <1>1, <2>1, <2>2, <2>3 DEF Exact
<1>7. CASE b.counts # <<>>
  <2>1. /\ c.start = first \div steps /\ End(c) = End(b) \div steps /\ c.counts # <<>>
        /\ Len(c.counts) <= Len(b.counts)
        /\ \A j \in DOMAIN c.counts :
             c.counts[j] = SumFunctionOnSet(b.counts, MergedAt(b, steps, c.start + j - 1))
    BY <1>7 DEF IsDownscaled, steps
  <2>2. ASSUME NEW m \in Made(seen, sign) PROVE Bucket(m.at, scale2) \in c.start..End(c)
    <3> DEFINE k == Bucket(m.at, scale)
    <3>1. m \in Measurements /\ k \in first..End(b)
      BY <1>5
    <3>2. k \in Int /\ Bucket(m.at, scale2) = k \div steps
      BY <1>4, <3>1
    <3> HIDE DEF k
    <3> DEFINE e == End(b)
    <3>3. e \in Int /\ first <= k /\ k <= e
      BY <1>2, <3>1, <3>2
    <3> HIDE DEF e, first
    <3>4. first \div steps <= k \div steps /\ k \div steps <= e \div steps /\ k \div steps \in Int
      BY <1>2, <1>3, <3>2, <3>3, QuotientMonotone, Quotient
    <3> QED BY <1>2, <2>1, <3>2, <3>4 DEF e, first
  <2>3. ASSUME NEW j \in DOMAIN c.counts
        PROVE  c.counts[j] = SumFunctionOnSet(seen, Here(sign, scale2, c.start + j - 1))
    <3> DEFINE k == c.start + j - 1
               I == MergedAt(b, steps, k)
               S == Here(sign, scale2, k)
    <3>1. I \subseteq 1..n /\ I \subseteq Int
      BY <1>2 DEF MergedAt
    <3>2. IsFiniteSet(I)
      <4> HIDE DEF n, I
      <4>1. 1 \in Int /\ n \in Int
        BY <1>2
      <4>2. IsFiniteSet(1..n)
        BY <4>1, FS_Interval
      <4> QED BY <3>1, <4>2, FS_Subset
    <3>3. \A i \in I : b.counts[i] = SumFunctionOnSet(seen, Here(sign, scale, first + i - 1))
      BY DEF Exact, MergedAt
    <3>4. S \in SUBSET Of(sign)
      BY DEF Here, Of
    <3>5. ASSUME NEW m \in Of(sign), \E i \in I : Bucket(m.at, scale) = first + i - 1 PROVE m \in S
      <4>1. PICK i \in I : Bucket(m.at, scale) = first + i - 1
        BY <3>5
      <4>2. m \in Measurements /\ m.sign = sign
        BY DEF Of
      <4>3. Bucket(m.at, scale2) = k
        BY <1>4, <4>1, <4>2 DEF MergedAt
      <4> QED BY <4>2, <4>3 DEF Here
    <3>6. ASSUME NEW m \in S, seen[m] > 0 PROVE \E i \in I : Bucket(m.at, scale) = first + i - 1
      <4>1. m \in Measurements /\ m \in Made(seen, sign) /\ Bucket(m.at, scale2) = k
        BY <3>6 DEF Here, Made
      <4> DEFINE e == Bucket(m.at, scale)
      <4>2. e \in first..End(b) /\ e \div steps = k
        BY <1>4, <1>5, <4>1
      <4> HIDE DEF e, k
      <4>3. e - first + 1 \in 1..n /\ first + (e - first + 1) - 1 = e
        <5> DEFINE last == End(b)
        <5>1. last = first + n - 1 /\ n \in Nat /\ first \in Int /\ e \in first..last
          BY <1>2, <4>2
        <5> HIDE DEF first, n, last
        <5> QED BY <5>1
      <4>4. e - first + 1 \in I
        BY <1>2, <4>2, <4>3 DEF MergedAt
      <4> QED BY <4>3, <4>4 DEF e
    <3>7. Gathered(b.counts, I, first, S, seen, sign, scale)
      <4> HIDE DEF I, S
      <4> QED BY <1>2, <3>1, <3>2, <3>3, <3>4, <3>5, <3>6 DEF Gathered
    <3>8. SumFunctionOnSet(b.counts, I) = SumFunctionOnSet(seen, S)
      BY <3>7, SumOfBuckets
    <3> QED BY <2>1, <3>8
  <2>4. \E l, h \in Made(seen, sign) : Bucket(l.at, scale2) = c.start /\ Bucket(h.at, scale2) = End(c)
    <3>1. PICK l, h \in Made(seen, sign) : Bucket(l.at, scale) = first /\ Bucket(h.at, scale) = End(b)
      BY <1>7 DEF Exact, End
    <3> QED BY <1>4, <1>5, <2>1, <3>1
  <2>5. Len(c.counts) <= MaxSize
    <3>1. Len(b.counts) <= MaxSize
      BY DEF Exact
    <3> HIDE DEF n
    <3> QED BY <1>2, <2>1, <3>1, SizeAssumption DEF n
  <2> QED BY <1>1, <2>2, <2>3, <2>4, <2>5 DEF Exact, End, scale2
<1> QED BY <1>6, <1>7 DEF scale2

-----------------------------------------------------------------------------
(* The change of scale. *)

(* What scaleChange compares with MaxSize, and between which ends.         *)
Spread(low, high, d) == (high \div Pow2[d]) - (low \div Pow2[d])

Lower(b, bin) == IF b.start >= bin THEN bin ELSE b.start

Upper(b, bin) == IF b.start >= bin THEN End(b) ELSE bin

(* Any change that makes room bounds the one that is made, which makes     *)
(* room, and a smaller one would not.                                      *)
LEMMA SmallestChange ==
  ASSUME NEW b \in Slices, NEW bin \in Int, b.counts # <<>>,
         NEW low, low = Lower(b, bin), NEW high, high = Upper(b, bin),
         NEW n \in 0..30, Spread(low, high, n) < MaxSize
  PROVE  /\ scaleChange(bin, b) \in 0..n
         /\ Spread(low, high, scaleChange(bin, b)) < MaxSize
         /\ scaleChange(bin, b) > 0 => Spread(low, high, scaleChange(bin, b) - 1) >= MaxSize
<1> DEFINE T == {k \in 0..31 : k = 31 \/ ~(Spread(low, high, k) >= MaxSize)}
           d == scaleChange(bin, b)
<1>1. low \in Int /\ high \in Int
  BY DEF Lower, Upper, End, Slices
<1>2. \A k \in 0..31 : Spread(low, high, k) \in Int
  <2> TAKE k \in 0..31
  <2>1. Pow2[k] \in Nat \ {0}
    <3>1. 0 \in Nat /\ k \in Nat
      OBVIOUS
    <3> QED BY <3>1, Pow2Sum
  <2>2. high \div Pow2[k] \in Int /\ low \div Pow2[k] \in Int
    BY <1>1, <2>1, Quotient
  <2> QED BY <2>2 DEF Spread
<1>3. d = Min(T)
  <2>1. expoMaxScale - expoMinScale + 1 = 31
    BY DEF expoMaxScale, expoMinScale
  <2>2. d = Min({k \in 0..(expoMaxScale - expoMinScale + 1) :
                   k = expoMaxScale - expoMinScale + 1 \/ ~(Spread(low, high, k) >= MaxSize)})
    BY Zenon DEF scaleChange, DoesNotFit, Spread, Lower, Upper, End
  <2> QED BY <2>1, <2>2
<1> HIDE DEF d
<1>4. n \in T /\ T \in SUBSET Nat
  <2>1. n \in 0..31 /\ n \in Nat
    OBVIOUS
  <2>2. MaxSize \in Int
    BY SizeAssumption
  <2>3. Spread(low, high, n) \in Int
    BY <1>2, <2>1
  <2>4. ~(Spread(low, high, n) >= MaxSize)
    BY <2>2, <2>3
  <2>5. n \in T
    BY <2>1, <2>4
  <2>6. \A k \in T : k \in Nat
    OBVIOUS
  <2> HIDE DEF T
  <2> QED BY <2>5, <2>6
<1> HIDE DEF T
<1>5. PICK k \in T : \A j \in T : k <= j
  BY <1>4, LeastNatural
<1>6. d \in T /\ \A j \in T : d <= j
  BY <1>3, <1>5 DEF Min
<1>7. d \in 0..n
  BY <1>4, <1>6
<1>8. Spread(low, high, d) < MaxSize
  <2>1. d \in 0..31 /\ d # 31
    BY <1>7
  <2>2. ~(Spread(low, high, d) >= MaxSize)
    BY <1>6, <2>1 DEF T
  <2>3. MaxSize \in Int
    BY SizeAssumption
  <2>4. Spread(low, high, d) \in Int
    BY <1>2, <2>1
  <2> QED BY <2>2, <2>3, <2>4
<1>9. d > 0 => Spread(low, high, d - 1) >= MaxSize
  <2> HAVE d > 0
  <2>1. d - 1 \in 0..31 /\ d - 1 \notin T
    BY <1>4, <1>6, <1>7
  <2> QED BY <2>1 DEF T
<1> QED BY <1>7, <1>8, <1>9 DEF d

-----------------------------------------------------------------------------
(* A data point after a measurement. *)

DataPoints == [scale : Int, count : Nat, zero : Nat, pos : Slices, neg : Slices,
               seen : [Measurements -> Nat]]

(* The buckets that record adds to.                                        *)
Changed(b, d) == IF d > 0 THEN downscale(b, d) ELSE b

(* r is p with m recorded, field by field.                                 *)
IsRecorded(p, m, r) ==
  LET d == scaleChange(getBin(m.at, p.scale), p[m.sign])
      s == p.scale - d
  IN /\ r.scale = s /\ r.count = p.count + 1 /\ r.zero = p.zero
     /\ r.seen = [p.seen EXCEPT ![m] = @ + 1]
     /\ r.pos = IF m.sign = "pos" THEN recordBin(Changed(p.pos, d), getBin(m.at, s)) ELSE Changed(p.pos, d)
     /\ r.neg = IF m.sign = "neg" THEN recordBin(Changed(p.neg, d), getBin(m.at, s)) ELSE Changed(p.neg, d)
     /\ r = [scale |-> r.scale, count |-> r.count, zero |-> r.zero, pos |-> r.pos,
             neg |-> r.neg, seen |-> r.seen]

(* Every field of the data point that record returns.                      *)
LEMMA RecordFields ==
  ASSUME NEW p \in DataPoints, NEW m \in Measurements, m.sign \in Signs,
         NEW d, d = scaleChange(getBin(m.at, p.scale), p[m.sign]),
         d \in Nat, ~Underflows(p.scale - d)
  PROVE  IsRecorded(p, m, record(p, m))
<1> DEFINE counted == [p EXCEPT !.count = @ + 1, !.seen[m] = @ + 1]
           s == p.scale - d
           moved == [counted EXCEPT !.scale = s, !.pos = downscale(@, d), !.neg = downscale(@, d)]
           scaled == IF d > 0 THEN moved ELSE counted
           bin == getBin(m.at, s)
           now == [p.seen EXCEPT ![m] = @ + 1]
           c == recordBin(scaled[m.sign], bin)
           r == record(p, m)
<1>1. p.scale \in Int /\ p = [scale |-> p.scale, count |-> p.count, zero |-> p.zero, pos |-> p.pos,
                           neg |-> p.neg, seen |-> p.seen]
  BY DEF DataPoints
<1>2. counted = [scale |-> p.scale, count |-> p.count + 1, zero |-> p.zero, pos |-> p.pos,
                 neg |-> p.neg, seen |-> now]
  <2>1. counted = [p EXCEPT !.count = @ + 1, !.seen = now]
    OBVIOUS
  <2> HIDE DEF counted, now
  <2> QED BY <1>1, <2>1
<1>3. r = [scaled EXCEPT ![m.sign] = c]
  <2>1. m.sign # "zero" /\ ~(d > 0 /\ Underflows(s))
    BY DEF Signs
  <2>2. r = CASE m.sign = "zero" -> [counted EXCEPT !.zero = @ + 1]
       [] m.sign # "zero" /\ d > 0 /\ Underflows(s) -> counted
       [] OTHER -> [scaled EXCEPT ![m.sign] = recordBin(@, bin)]
    BY Zenon DEF record
  <2> HIDE DEF counted, scaled, bin, r, s
  <2> QED BY <2>1, <2>2
<1> HIDE DEF now
<1>4. scaled = [scale |-> s, count |-> p.count + 1, zero |-> p.zero, pos |-> Changed(p.pos, d),
                neg |-> Changed(p.neg, d), seen |-> now]
  <2> HIDE DEF counted
  <2>1. CASE d > 0
    BY <1>2, <2>1 DEF Changed
  <2>2. CASE ~(d > 0)
    <3>1. s = p.scale
      BY <1>1, <2>2
    <3> HIDE DEF s
    <3> QED BY <1>2, <2>2, <3>1 DEF Changed
  <2> QED BY <2>1, <2>2
<1> HIDE DEF scaled, c, r, s, bin
<1>5. CASE m.sign = "pos"
  <2>1. r = [scale |-> s, count |-> p.count + 1, zero |-> p.zero, pos |-> c,
             neg |-> Changed(p.neg, d), seen |-> now]
    BY <1>3, <1>4, <1>5
  <2>2. c = recordBin(Changed(p.pos, d), bin)
    BY <1>4, <1>5 DEF c
  <2> QED BY <1>5, <2>1, <2>2 DEF IsRecorded, s, bin, r, now
<1>6. CASE m.sign = "neg"
  <2>1. r = [scale |-> s, count |-> p.count + 1, zero |-> p.zero, pos |-> Changed(p.pos, d),
             neg |-> c, seen |-> now]
    BY <1>3, <1>4, <1>6
  <2>2. c = recordBin(Changed(p.neg, d), bin)
    BY <1>4, <1>6 DEF c
  <2> QED BY <1>6, <2>1, <2>2 DEF IsRecorded, s, bin, r, now
<1> QED BY <1>5, <1>6 DEF Signs

(* m was measured once more.                                               *)
Again(seen, m) == [seen EXCEPT ![m] = @ + 1]

(* What was measured lies in the range of float64.                         *)
LEMMA MadeRange ==
  ASSUME NEW seen, NEW sign \in Signs, NEW x \in Made(seen, sign)
  PROVE  x \in Measurements /\ x.at \in Positions \cup NegPositions /\ x.at \in Int
<1>1. x \in Measurements /\ x.sign = sign /\ sign # "zero"
  BY DEF Made, Signs
<1> QED BY <1>1, MeasurementsFinite

(* The two ends are buckets of what was measured, the new measurement      *)
(* included.                                                               *)
LEMMA Extremes ==
  ASSUME NEW b, NEW seen \in [Measurements -> Nat], NEW m \in Measurements, NEW scale \in Int,
         Exact(b, seen, m.sign, scale), b.counts # <<>>
  PROVE  \E l, h \in Made(Again(seen, m), m.sign) :
           /\ Lower(b, Bucket(m.at, scale)) = Bucket(l.at, scale)
           /\ Upper(b, Bucket(m.at, scale)) = Bucket(h.at, scale)
<1> DEFINE now == Again(seen, m)
<1>1. \A x \in Measurements : now[x] = IF x = m THEN seen[x] + 1 ELSE seen[x]
  BY DEF Again
<1> HIDE DEF now
<1>2. m \in Made(now, m.sign) /\ Made(seen, m.sign) \subseteq Made(now, m.sign)
  <2>1. seen[m] \in Nat
    OBVIOUS
  <2> QED BY <1>1, <2>1 DEF Made
<1>3. PICK l, h \in Made(seen, m.sign) : Bucket(l.at, scale) = b.start /\ Bucket(h.at, scale) = End(b)
  BY DEF Exact, End
<1>4. CASE b.start >= Bucket(m.at, scale)
  BY <1>2, <1>3, <1>4 DEF Lower, Upper, now
<1>5. CASE ~(b.start >= Bucket(m.at, scale))
  BY <1>2, <1>3, <1>5 DEF Lower, Upper, now
<1> QED BY <1>4, <1>5

(* At the lowest scale everything fits into three buckets.                 *)
LEMMA RoomAtLowest ==
  ASSUME MaxSize >= 3, NEW scale \in expoMinScale..MaxScale,
         NEW l \in Positions \cup NegPositions, NEW h \in Positions \cup NegPositions
  PROVE  /\ scale + 10 \in 0..30
         /\ Spread(Bucket(l, scale), Bucket(h, scale), scale + 10) < MaxSize
<1> DEFINE n == scale + 10
<1>1. n \in 0..30 /\ n \in Nat /\ scale \in Int /\ scale <= MaxScale + 1 /\ scale - n = expoMinScale
  BY Units
<1> HIDE DEF n
<1>2. ASSUME NEW x \in Positions \cup NegPositions
      PROVE  Bucket(x, scale) \div Pow2[n] \in -2..0
  <2>1. x \in Int /\ Bucket(x, expoMinScale) \in -2..0
    BY LowestScale
  <2>2. Bucket(x, scale - n) = Bucket(x, scale) \div Pow2[n]
    BY <1>1, <2>1, BucketCoarser
  <2> QED BY <1>1, <2>1, <2>2
<1> DEFINE p == Bucket(l, scale) \div Pow2[n]
           q == Bucket(h, scale) \div Pow2[n]
<1>3. p \in -2..0 /\ q \in -2..0
  BY <1>2
<1>4. Spread(Bucket(l, scale), Bucket(h, scale), n) = q - p
  BY DEF Spread
<1> HIDE DEF p, q
<1>5. q - p < MaxSize
  BY <1>3, SizeAssumption
<1> QED BY <1>1, <1>4, <1>5 DEF n

(* The scale never underflows, and it changes by as little as possible.    *)
LEMMA ChangeOfScale ==
  ASSUME MaxSize >= 3,
         NEW b, NEW seen \in [Measurements -> Nat], NEW m \in Measurements, m.sign \in Signs,
         NEW scale \in expoMinScale..MaxScale, Exact(b, seen, m.sign, scale),
         NEW bin, bin = Bucket(m.at, scale), NEW d, d = scaleChange(bin, b)
  PROVE  /\ d \in 0..(scale + 10)
         /\ b.counts = <<>> => d = 0
         /\ b.counts # <<>> => Spread(Lower(b, bin), Upper(b, bin), d) < MaxSize
         /\ d > 0 => \E l, h \in Made(Again(seen, m), m.sign) :
                       Bucket(h.at, scale - d + 1) - Bucket(l.at, scale - d + 1) >= MaxSize
<1>0. scale \in Int /\ scale <= MaxScale /\ scale <= MaxScale + 1 /\ scale + 10 \in Nat
  BY Units
<1>1. m.at \in Int /\ bin \in Int
  <2>1. m.at \in Int
    BY MeasurementsFinite
  <2> QED BY <1>0, <2>1, BucketType
<1>2. CASE b.counts = <<>>
  <2>1. d = 0
    BY <1>2, Zenon DEF scaleChange
  <2> QED BY <1>0, <1>2, <2>1
<1>3. CASE b.counts # <<>>
  <2>1. PICK l, h \in Made(Again(seen, m), m.sign) : /\ Lower(b, bin) = Bucket(l.at, scale)
                                          /\ Upper(b, bin) = Bucket(h.at, scale)
    <3>1. \E l, h \in Made(Again(seen, m), m.sign) : /\ Lower(b, Bucket(m.at, scale)) = Bucket(l.at, scale)
                                        /\ Upper(b, Bucket(m.at, scale)) = Bucket(h.at, scale)
      BY <1>0, <1>3, Extremes
    <3> QED BY <3>1
  <2>2. /\ l.at \in Positions \cup NegPositions /\ l.at \in Int
        /\ h.at \in Positions \cup NegPositions /\ h.at \in Int
    BY MadeRange
  <2>3. scale + 10 \in 0..30 /\ Spread(Bucket(l.at, scale), Bucket(h.at, scale), scale + 10) < MaxSize
    BY <2>2, RoomAtLowest
  <2> DEFINE low == Lower(b, bin)
             high == Upper(b, bin)
             n == scale + 10
  <2>4. n \in 0..30 /\ Spread(low, high, n) < MaxSize /\ b \in Slices
    BY <2>1, <2>3 DEF Exact
  <2>5. low = Lower(b, bin) /\ high = Upper(b, bin) /\ n = scale + 10
    OBVIOUS
  <2> HIDE DEF low, high, n
  <2>6. /\ d \in 0..n /\ Spread(low, high, d) < MaxSize
        /\ d > 0 => Spread(low, high, d - 1) >= MaxSize
    BY <1>1, <1>3, <2>4, <2>5, SmallestChange
  <2>7. ASSUME d > 0
        PROVE  Bucket(h.at, scale - d + 1) - Bucket(l.at, scale - d + 1) >= MaxSize
    <3>1. d - 1 \in Nat /\ scale - (d - 1) = scale - d + 1
      BY <1>0, <2>4, <2>6, <2>7
    <3>2. /\ Bucket(l.at, scale - (d - 1)) = Bucket(l.at, scale) \div Pow2[d - 1]
          /\ Bucket(h.at, scale - (d - 1)) = Bucket(h.at, scale) \div Pow2[d - 1]
      BY <1>0, <2>2, <3>1, BucketCoarser
    <3>3. Spread(low, high, d - 1)
            = Bucket(h.at, scale - (d - 1)) - Bucket(l.at, scale - (d - 1))
      BY <2>1, <2>5, <3>2, Zenon DEF Spread
    <3> QED BY <2>6, <2>7, <3>1, <3>3
  <2> QED BY <1>3, <2>5, <2>6, <2>7
<1> QED BY <1>2, <1>3

(* The buckets before the new measurement is counted, at the new scale.    *)
LEMMA ChangedExact ==
  ASSUME NEW b, NEW seen \in [Measurements -> Nat], NEW sign \in Signs, NEW scale \in Int, scale <= MaxScale,
         Exact(b, seen, sign, scale), NEW d \in Nat, NEW c, c = Changed(b, d)
  PROVE  /\ Exact(c, seen, sign, scale - d)
         /\ b.counts = <<>> => c.counts = <<>>
         /\ b.counts # <<>> => /\ c.counts # <<>> /\ c.start = b.start \div Pow2[d]
                               /\ End(c) = End(b) \div Pow2[d]
<1>1. b \in Slices
  BY DEF Exact
<1>2. CASE d > 0
  <2>1. IsDownscaled(b, Pow2[d], c)
    BY <1>1, <1>2, DownscaleMerges DEF Changed
  <2> QED BY <2>1, DownscaledExact DEF IsDownscaled
<1>3. CASE ~(d > 0)
  <2>1. d = 0 /\ c = b /\ scale - d = scale
    BY <1>3 DEF Changed
  <2>2. Pow2[d] = 1
    BY <2>1, Pow2Rounds
  <2>3. b.start \in Int /\ End(b) \in Int
    BY <1>1 DEF Slices, End
  <2>4. \A x \in Int : x \div 1 = x
    OBVIOUS
  <2> QED BY <2>1, <2>2, <2>3, <2>4
<1> QED BY <1>2, <1>3

(* A slice reaches from its start to its end.                              *)
LEMMA EndOfSlice ==
  ASSUME NEW b \in Slices
  PROVE  /\ b.start \in Int /\ End(b) \in Int /\ Len(b.counts) = End(b) - b.start + 1
         /\ b.counts # <<>> => b.start <= End(b)
<1> DEFINE n == Len(b.counts)
<1>1. b.start \in Int /\ n \in Nat /\ (b.counts # <<>> => n >= 1)
  BY DEF Slices
<1>2. End(b) = b.start + n - 1
  BY DEF End
<1> HIDE DEF n
<1>3. End(b) \in Int /\ n = End(b) - b.start + 1 /\ (b.counts # <<>> => b.start <= End(b))
  BY <1>1, <1>2
<1> QED BY <1>1, <1>3 DEF n

(* After the change of scale the new bin fits as well.                     *)
LEMMA RecordedFits ==
  ASSUME NEW b \in Slices, NEW d \in Nat, NEW bin \in Int, NEW c \in Slices, NEW e \in Slices,
         Len(c.counts) <= MaxSize,
         BinAdded(c, bin \div Pow2[d], e),
         b.counts = <<>> => c.counts = <<>>,
         b.counts # <<>> => /\ c.counts # <<>> /\ c.start = b.start \div Pow2[d]
                            /\ End(c) = End(b) \div Pow2[d],
         b.counts # <<>> => Spread(Lower(b, bin), Upper(b, bin), d) < MaxSize
  PROVE  Len(e.counts) <= MaxSize
<1> DEFINE steps == Pow2[d]
           at == bin \div steps
           p == b.start \div steps
           q == End(b) \div steps
<1>1. steps \in Nat \ {0}
  <2>1. 0 \in Nat
    OBVIOUS
  <2> QED BY <2>1, Pow2Sum
<1>2. /\ b.start \in Int /\ End(b) \in Int
      /\ Len(e.counts) = End(e) - e.start + 1 /\ End(e) \in Int /\ e.start \in Int
      /\ Len(c.counts) = End(c) - c.start + 1 /\ End(c) \in Int /\ c.start \in Int
      /\ (b.counts # <<>> => b.start <= End(b))
  BY EndOfSlice
<1>3. MaxSize \in Int /\ MaxSize >= 1
  BY SizeAssumption
<1>4. at \in Int /\ p \in Int /\ q \in Int
  BY <1>1, <1>2, Quotient
<1>5. CASE b.counts = <<>>
  <2>1. e.start = at /\ End(e) = at
    BY <1>5 DEF BinAdded
  <2> HIDE DEF at
  <2> QED BY <1>2, <1>3, <1>4, <2>1
<1>6. CASE b.counts # <<>>
  <2>1. /\ e.start = IF at < c.start THEN at ELSE c.start
        /\ End(e) = IF at > End(c) THEN at ELSE End(c)
        /\ c.start = p /\ End(c) = q
    BY <1>6 DEF BinAdded
  <2>2. CASE b.start >= bin
    <3>1. Spread(bin, End(b), d) < MaxSize
      BY <1>6, <2>2 DEF Lower, Upper
    <3>2. q - at < MaxSize
      BY <3>1 DEF Spread
    <3>3. at <= p /\ p <= q
      BY <1>1, <1>2, <1>6, <2>2, QuotientMonotone
    <3> HIDE DEF at, p, q
    <3>4. End(e) = q /\ e.start = at
      BY <1>4, <2>1, <3>3
    <3> QED BY <1>2, <1>3, <1>4, <3>2, <3>4
  <2>3. CASE ~(b.start >= bin)
    <3>1. Spread(b.start, bin, d) < MaxSize
      BY <1>6, <2>3 DEF Lower, Upper
    <3>2. at - p < MaxSize
      BY <3>1 DEF Spread
    <3>3. p <= at
      <4>1. b.start <= bin
        BY <1>2, <2>3
      <4> QED BY <1>1, <1>2, <4>1, QuotientMonotone
    <3> HIDE DEF at, p, q
    <3>4. e.start = p /\ End(e) = IF at > q THEN at ELSE q
      BY <1>4, <2>1, <3>3
    <3>5. q - p + 1 <= MaxSize
      BY <1>2, <2>1
    <3> QED BY <1>2, <1>3, <1>4, <3>2, <3>4, <3>5
  <2> QED BY <2>2, <2>3
<1> QED BY <1>5, <1>6

(* One more of a measurement.                                              *)
LEMMA AgainProperties ==
  ASSUME NEW seen \in [Measurements -> Nat], NEW m \in Measurements
  PROVE  /\ Again(seen, m) \in [Measurements -> Nat]
         /\ \A x \in Measurements : Again(seen, m)[x] = IF x = m THEN seen[x] + 1 ELSE seen[x]
         /\ \A x \in Measurements : x.sign # m.sign => Again(seen, m)[x] = seen[x]
         /\ \A sign : Made(seen, sign) \subseteq Made(Again(seen, m), sign)
<1> DEFINE now == Again(seen, m)
<1>1. /\ now \in [Measurements -> Nat]
      /\ \A x \in Measurements : now[x] = IF x = m THEN seen[x] + 1 ELSE seen[x]
  BY DEF Again
<1> HIDE DEF now
<1>2. \A x \in Measurements : x.sign # m.sign => now[x] = seen[x]
  BY <1>1
<1>3. \A x \in Measurements : seen[x] > 0 => now[x] > 0
  BY <1>1
<1>4. \A sign : Made(seen, sign) \subseteq Made(now, sign)
  BY <1>3 DEF Made
<1> QED BY <1>1, <1>2, <1>4 DEF now

(* What the buckets of a sign hold depends on its own measurements only.   *)
LEMMA SameSign ==
  ASSUME NEW seen \in [Measurements -> Nat], NEW now \in [Measurements -> Nat], NEW sign,
         \A x \in Of(sign) : now[x] = seen[x]
  PROVE  /\ Tally(now, sign) = Tally(seen, sign)
         /\ \A b, scale : Exact(b, seen, sign, scale) => Exact(b, now, sign, scale)
<1>1. \A S \in SUBSET Of(sign) : SumFunctionOnSet(now, S) = SumFunctionOnSet(seen, S)
  <2> TAKE S \in SUBSET Of(sign)
  <2>1. IsFiniteSet(S)
    <3>1. IsFiniteSet(Of(sign))
      BY HereFinite
    <3> QED BY <3>1, FS_Subset
  <2>2. \A x \in S : seen[x] \in Nat /\ now[x] = seen[x]
    BY DEF Of
  <2> QED BY <2>1, <2>2, SumSame
<1>2. Tally(now, sign) = Tally(seen, sign)
  BY <1>1 DEF Tally
<1>3. Made(now, sign) = Made(seen, sign)
  BY DEF Made, Of
<1>4. ASSUME NEW b, NEW scale, Exact(b, seen, sign, scale) PROVE Exact(b, now, sign, scale)
  <2>1. \A bin : SumFunctionOnSet(now, Here(sign, scale, bin)) = SumFunctionOnSet(seen, Here(sign, scale, bin))
    BY <1>1 DEF Here, Of
  <2> QED BY <1>3, <1>4, <2>1 DEF Exact
<1> QED BY <1>2, <1>4

(* The tally of its sign grows by one.                                     *)
LEMMA TallyAgain ==
  ASSUME NEW seen \in [Measurements -> Nat], NEW m \in Measurements, NEW sign
  PROVE  /\ Tally(seen, sign) \in Nat
         /\ Tally(Again(seen, m), sign) = Tally(seen, sign) + (IF sign = m.sign THEN 1 ELSE 0)
<1> DEFINE now == Again(seen, m)
           S == Of(sign)
<1>1. IsFiniteSet(S) /\ \A x \in S : seen[x] \in Nat
  BY HereFinite
<1>2. \A x \in S : now[x] = IF x = m THEN seen[x] + 1 ELSE seen[x]
  BY AgainProperties DEF Of
<1>3. m \in S <=> sign = m.sign
  BY DEF Of
<1>4. SumFunctionOnSet(seen, S) \in Nat
  <2> HIDE DEF S
  <2> QED BY <1>1, SumSplit
<1>5. SumFunctionOnSet(now, S) = SumFunctionOnSet(seen, S) + (IF m \in S THEN 1 ELSE 0)
  <2> HIDE DEF now, S
  <2> QED BY <1>1, <1>2, SumAdded
<1> QED BY <1>3, <1>4, <1>5 DEF Tally

(* At this scale the measurements of some sign do not fit.                 *)
Crowded(seen, scale) ==
  \E sign \in Signs : \E l, h \in Made(seen, sign) : Bucket(h.at, scale) - Bucket(l.at, scale) >= MaxSize

(* The sign that is recorded, and the other one.                           *)
LEMMA RecordedSign ==
  ASSUME MaxSize >= 3,
         NEW b, NEW seen \in [Measurements -> Nat], NEW m \in Measurements, m.sign \in Signs,
         NEW scale \in expoMinScale..MaxScale, Exact(b, seen, m.sign, scale),
         NEW d, d = scaleChange(getBin(m.at, scale), b)
  PROVE  /\ d \in 0..(scale + 10)
         /\ Exact(recordBin(Changed(b, d), getBin(m.at, scale - d)), Again(seen, m), m.sign, scale - d)
         /\ d > 0 => Crowded(Again(seen, m), scale - d + 1)
<1> DEFINE bin == Bucket(m.at, scale)
           c == Changed(b, d)
           at == Bucket(m.at, scale - d)
           e == recordBin(c, at)
<1>1. m.at \in Int /\ scale \in Int /\ scale <= MaxScale /\ scale <= MaxScale + 1
  BY MeasurementsFinite, Units
<1>2. getBin(m.at, scale) = bin
  BY <1>1, BinIsBucket
<1>3. d = scaleChange(bin, b)
  BY <1>2
<1>4. bin = Bucket(m.at, scale)
  OBVIOUS
<1> HIDE DEF bin
<1>5. /\ d \in 0..(scale + 10)
      /\ b.counts # <<>> => Spread(Lower(b, bin), Upper(b, bin), d) < MaxSize
      /\ d > 0 => \E l, h \in Made(Again(seen, m), m.sign) :
                    Bucket(h.at, scale - d + 1) - Bucket(l.at, scale - d + 1) >= MaxSize
  BY <1>3, <1>4, ChangeOfScale
<1>6. d \in Nat /\ scale - d \in Int /\ scale - d <= MaxScale
  BY <1>1, <1>5, Units
<1>7. getBin(m.at, scale - d) = at /\ at \in Int /\ bin \in Int /\ at = bin \div Pow2[d]
  <2>1. scale - d <= MaxScale + 1
    BY <1>6, Units
  <2> QED BY <1>1, <1>4, <1>6, <2>1, BinIsBucket, BucketType, BucketCoarser
<1>8. c = Changed(b, d) /\ e = recordBin(c, at) /\ at = Bucket(m.at, scale - d)
  OBVIOUS
<1> HIDE DEF c, e, at
<1>9. /\ Exact(c, seen, m.sign, scale - d)
      /\ b.counts = <<>> => c.counts = <<>>
      /\ b.counts # <<>> => /\ c.counts # <<>> /\ c.start = b.start \div Pow2[d]
                            /\ End(c) = End(b) \div Pow2[d]
  <2>1. /\ Exact(Changed(b, d), seen, m.sign, scale - d)
        /\ b.counts = <<>> => Changed(b, d).counts = <<>>
        /\ b.counts # <<>> => /\ Changed(b, d).counts # <<>> /\ Changed(b, d).start = b.start \div Pow2[d]
                              /\ End(Changed(b, d)) = End(b) \div Pow2[d]
    <3> DEFINE sign == m.sign
    <3>1. sign \in Signs /\ Exact(b, seen, sign, scale)
      OBVIOUS
    <3> HIDE DEF sign
    <3>2. /\ Exact(Changed(b, d), seen, sign, scale - d)
          /\ b.counts = <<>> => Changed(b, d).counts = <<>>
          /\ b.counts # <<>> => /\ Changed(b, d).counts # <<>> /\ Changed(b, d).start = b.start \div Pow2[d]
                                /\ End(Changed(b, d)) = End(b) \div Pow2[d]
      BY <1>1, <1>6, <3>1, ChangedExact
    <3> QED BY <3>2 DEF sign
  <2> QED BY <1>8, <2>1
<1>10. b \in Slices /\ c \in Slices /\ Len(c.counts) <= MaxSize
  BY <1>9 DEF Exact
<1>11. BinAdded(c, at, e)
  BY <1>7, <1>8, <1>10, RecordBinAdds
<1>12. e \in Slices
  BY <1>11 DEF BinAdded
<1>13. Len(e.counts) <= MaxSize
  BY <1>5, <1>6, <1>7, <1>9, <1>10, <1>11, <1>12, RecordedFits
<1>14. Exact(e, Again(seen, m), m.sign, scale - d)
  BY <1>6, <1>8, <1>9, <1>11, <1>13, RecordedExact DEF Again
<1>15. d > 0 => Crowded(Again(seen, m), scale - d + 1)
  BY <1>5 DEF Crowded
<1> QED BY <1>5, <1>7, <1>8, <1>14, <1>15

(* The buckets of the other sign are only downscaled.                      *)
LEMMA OtherSign ==
  ASSUME NEW b, NEW seen \in [Measurements -> Nat], NEW m \in Measurements, NEW sign \in Signs, sign # m.sign,
         NEW scale \in Int, scale <= MaxScale, Exact(b, seen, sign, scale), NEW d \in Nat
  PROVE  Exact(Changed(b, d), Again(seen, m), sign, scale - d)
<1>1. Exact(Changed(b, d), seen, sign, scale - d)
  BY ChangedExact
<1>2. Again(seen, m) \in [Measurements -> Nat] /\ \A x \in Of(sign) : Again(seen, m)[x] = seen[x]
  BY AgainProperties DEF Of
<1> QED BY <1>1, <1>2, SameSign

-----------------------------------------------------------------------------
(* The invariant of a data point. *)

(* The buckets are exact, the counts add up, and where the scale was       *)
(* lowered a finer one would not hold what was measured.                   *)
PointInv(p) ==
  /\ p \in DataPoints
  /\ p.scale \in expoMinScale..MaxScale
  /\ Exact(p.pos, p.seen, "pos", p.scale)
  /\ Exact(p.neg, p.seen, "neg", p.scale)
  /\ p.count = p.zero + Tally(p.seen, "pos") + Tally(p.seen, "neg")
  /\ p.scale < MaxScale => Crowded(p.seen, p.scale + 1)

(* An empty data point.                                                    *)
LEMMA NoPointInv == PointInv(NoPoint)
<1> DEFINE seen == [m \in Measurements |-> 0]
<1>1. /\ NoPoint.scale = MaxScale /\ NoPoint.count = 0 /\ NoPoint.zero = 0 /\ NoPoint.seen = seen
      /\ NoPoint.pos = NoBuckets /\ NoPoint.neg = NoBuckets
  BY DEF NoPoint
<1>2. NoBuckets \in Slices /\ NoBuckets.counts = <<>> /\ DOMAIN NoBuckets.counts = {} /\ Len(NoBuckets.counts) = 0
  BY DEF NoBuckets, Slices
<1>3. seen \in [Measurements -> Nat]
  OBVIOUS
<1>4. MaxScale \in expoMinScale..MaxScale /\ MaxScale \in Int
  BY Units
<1>5. NoPoint \in DataPoints
  <2> HIDE DEF seen
  <2> QED BY <1>1, <1>2, <1>3, <1>4 DEF DataPoints, NoPoint, seen
<1>6. ASSUME NEW sign PROVE Made(seen, sign) = {} /\ Tally(seen, sign) = 0 /\ Exact(NoBuckets, seen, sign, MaxScale)
  <2>1. Made(seen, sign) = {}
    BY DEF Made
  <2>2. Tally(seen, sign) = 0
    <3>1. IsFiniteSet(Of(sign))
      BY <1>3, HereFinite
    <3>2. \A x \in Of(sign) : seen[x] = 0
      BY DEF Of
    <3> HIDE DEF seen
    <3> QED BY <3>1, <3>2, SumZero DEF Tally
  <2>3. 0 <= MaxSize
    BY SizeAssumption
  <2> HIDE DEF seen
  <2> QED BY <1>2, <2>1, <2>2, <2>3 DEF Exact
<1> HIDE DEF seen
<1>7. 0 = 0 + 0 + 0 /\ ~(MaxScale < MaxScale)
  BY <1>4
<1> QED BY <1>1, <1>4, <1>5, <1>6, <1>7 DEF PointInv

(* record keeps the invariant of its data point.                           *)
LEMMA RecordPoint ==
  ASSUME MaxSize >= 3, NEW p, PointInv(p), NEW m \in Measurements
  PROVE  PointInv(record(p, m))
<1> DEFINE now == Again(p.seen, m)
           r == record(p, m)
           tp == Tally(p.seen, "pos")
           tn == Tally(p.seen, "neg")
<1>1. /\ p \in DataPoints /\ p.scale \in expoMinScale..MaxScale /\ p.scale \in Int /\ p.scale <= MaxScale
      /\ p.seen \in [Measurements -> Nat] /\ p.count \in Nat /\ p.zero \in Nat
      /\ p.pos \in Slices /\ p.neg \in Slices
      /\ Exact(p.pos, p.seen, "pos", p.scale) /\ Exact(p.neg, p.seen, "neg", p.scale)
      /\ p.count = p.zero + tp + tn
      /\ (p.scale < MaxScale => Crowded(p.seen, p.scale + 1))
  BY Units DEF PointInv, DataPoints
<1>2. /\ now \in [Measurements -> Nat]
      /\ \A sign : Made(p.seen, sign) \subseteq Made(now, sign)
      /\ \A x \in Measurements : x.sign # m.sign => now[x] = p.seen[x]
  BY <1>1, AgainProperties
<1>3. /\ tp \in Nat /\ tn \in Nat
      /\ Tally(now, "pos") = tp + (IF "pos" = m.sign THEN 1 ELSE 0)
      /\ Tally(now, "neg") = tn + (IF "neg" = m.sign THEN 1 ELSE 0)
  BY <1>1, TallyAgain
<1> HIDE DEF now, tp, tn
<1>4. \A scale : Crowded(p.seen, scale) => Crowded(now, scale)
  BY <1>2 DEF Crowded
<1>5. m.sign \in {"pos", "neg", "zero"}
  BY MeasurementsFinite
<1>6. CASE m.sign = "zero"
  <2>1. r = [p EXCEPT !.count = @ + 1, !.seen = now, !.zero = @ + 1]
    <3> DEFINE counted == [p EXCEPT !.count = @ + 1, !.seen[m] = @ + 1]
    <3>1. r = [counted EXCEPT !.zero = @ + 1]
      BY <1>6, Zenon DEF record
    <3>2. counted = [p EXCEPT !.count = @ + 1, !.seen = now]
      BY DEF now, Again
    <3> HIDE DEF counted, r
    <3>3. p.zero = counted.zero
      BY <3>2
    <3> QED BY <1>1, <3>1, <3>2, <3>3 DEF DataPoints
  <2> HIDE DEF r
  <2>2. /\ r \in DataPoints /\ r.scale = p.scale /\ r.count = p.count + 1 /\ r.zero = p.zero + 1
        /\ r.pos = p.pos /\ r.neg = p.neg /\ r.seen = now
    <3>1. p = [scale |-> p.scale, count |-> p.count, zero |-> p.zero, pos |-> p.pos,
               neg |-> p.neg, seen |-> p.seen]
      BY <1>1 DEF DataPoints
    <3>2. r = [scale |-> p.scale, count |-> p.count + 1, zero |-> p.zero + 1, pos |-> p.pos,
               neg |-> p.neg, seen |-> now]
      BY <2>1, <3>1
    <3> QED BY <1>1, <1>2, <3>2 DEF DataPoints
  <2>3. Exact(p.pos, now, "pos", p.scale) /\ Exact(p.neg, now, "neg", p.scale)
    <3>1. \A x \in Of("pos") : now[x] = p.seen[x]
      BY <1>2, <1>6 DEF Of
    <3>2. \A x \in Of("neg") : now[x] = p.seen[x]
      BY <1>2, <1>6 DEF Of
    <3> QED BY <1>1, <1>2, <3>1, <3>2, SameSign
  <2>4. r.count = r.zero + Tally(now, "pos") + Tally(now, "neg")
    BY <1>1, <1>3, <1>6, <2>2
  <2> QED BY <1>1, <1>4, <2>2, <2>3, <2>4 DEF PointInv, r
<1>7. CASE m.sign # "zero"
  <2> DEFINE d == scaleChange(getBin(m.at, p.scale), p[m.sign])
             s == p.scale - d
             bin == getBin(m.at, s)
  <2>1. m.sign \in Signs
    BY <1>5, <1>7 DEF Signs
  <2>2. Exact(p[m.sign], p.seen, m.sign, p.scale)
    BY <1>1, <2>1 DEF Signs
  <2>3. d = scaleChange(getBin(m.at, p.scale), p[m.sign])
    OBVIOUS
  <2> HIDE DEF d
  <2>4. /\ d \in 0..(p.scale + 10)
        /\ Exact(recordBin(Changed(p[m.sign], d), getBin(m.at, p.scale - d)), Again(p.seen, m), m.sign, p.scale - d)
        /\ d > 0 => Crowded(Again(p.seen, m), p.scale - d + 1)
    BY <1>1, <2>1, <2>2, <2>3, RecordedSign
  <2>5. d \in Nat /\ s \in expoMinScale..MaxScale /\ s \in Int /\ ~Underflows(s)
    BY <1>1, <2>4, Units DEF Underflows
  <2>6. IsRecorded(p, m, r)
    BY <1>1, <2>1, <2>3, <2>5, RecordFields
  <2> HIDE DEF r
  <2>7. /\ r.scale = s /\ r.count = p.count + 1 /\ r.zero = p.zero /\ r.seen = now
        /\ r.pos = IF m.sign = "pos" THEN recordBin(Changed(p.pos, d), bin) ELSE Changed(p.pos, d)
        /\ r.neg = IF m.sign = "neg" THEN recordBin(Changed(p.neg, d), bin) ELSE Changed(p.neg, d)
        /\ r = [scale |-> r.scale, count |-> r.count, zero |-> r.zero, pos |-> r.pos,
                neg |-> r.neg, seen |-> r.seen]
    BY <2>3, <2>6 DEF IsRecorded, now, Again
  <2>8. Exact(r.pos, now, "pos", s)
    <3>1. CASE m.sign = "pos"
      BY <2>4, <2>7, <3>1 DEF now
    <3>2. CASE m.sign # "pos"
      BY <1>1, <2>5, <2>7, <3>2, OtherSign DEF now, Signs
    <3> QED BY <3>1, <3>2
  <2>9. Exact(r.neg, now, "neg", s)
    <3>1. CASE m.sign = "neg"
      BY <2>4, <2>7, <3>1 DEF now
    <3>2. CASE m.sign # "neg"
      BY <1>1, <2>5, <2>7, <3>2, OtherSign DEF now, Signs
    <3> QED BY <3>1, <3>2
  <2>10. r.pos \in Slices /\ r.neg \in Slices
    BY <2>8, <2>9 DEF Exact
  <2>11. s < MaxScale => Crowded(now, s + 1)
    <3>1. CASE d > 0
      BY <2>4, <3>1 DEF now
    <3>2. CASE ~(d > 0)
      <4>1. s = p.scale
        BY <1>1, <2>5, <3>2
      <4> HIDE DEF s
      <4> QED BY <1>1, <1>4, <4>1
    <3> QED BY <3>1, <3>2
  <2> HIDE DEF s, bin
  <2>12. r \in DataPoints
    <3>1. r.count \in Nat /\ r.zero \in Nat /\ r.scale \in Int /\ r.seen \in [Measurements -> Nat]
      BY <1>1, <1>2, <2>5, <2>7
    <3> QED BY <2>7, <2>10, <3>1 DEF DataPoints
  <2>13. r.count = r.zero + Tally(now, "pos") + Tally(now, "neg")
    <3>1. m.sign \in {"pos", "neg"}
      BY <1>5, <1>7
    <3> QED BY <1>1, <1>3, <2>7, <3>1
  <2> QED BY <2>5, <2>7, <2>8, <2>9, <2>11, <2>12, <2>13 DEF PointInv, r
<1> QED BY <1>6, <1>7

(* The occupied buckets.                                                   *)
Bins(p, sign, scale) == {Bucket(m.at, scale) : m \in Made(p.seen, sign)}

(* The width in terms of the occupied buckets.                             *)
LEMMA WidthOfBins ==
  ASSUME NEW p, NEW sign, NEW scale
  PROVE  Width(p, sign, scale) = IF Bins(p, sign, scale) = {} THEN 0
                                 ELSE Max(Bins(p, sign, scale)) - Min(Bins(p, sign, scale)) + 1
BY Zenon DEF Width, Bins, Made

(* The buckets hold exactly what fits.                                     *)
LEMMA ExactFits ==
  ASSUME NEW p \in DataPoints, p.scale <= MaxScale, NEW sign \in Signs, Exact(p[sign], p.seen, sign, p.scale)
  PROVE  Width(p, sign, p.scale) <= MaxSize
<1> DEFINE S == Bins(p, sign, p.scale)
           b == p[sign]
           first == b.start
           last == End(b)
<1>1. b \in Slices /\ Len(b.counts) <= MaxSize
  BY DEF Exact
<1>2. first \in Int /\ last \in Int /\ last - first + 1 <= MaxSize
  <2> HIDE DEF b
  <2>1. Len(b.counts) = last - first + 1 /\ first \in Int /\ last \in Int
    BY <1>1, EndOfSlice
  <2> QED BY <1>1, <2>1
<1>3. S \subseteq first..last
  BY DEF Exact, End, Bins
<1>4. MaxSize \in Int /\ 0 <= MaxSize
  BY SizeAssumption
<1>5. Width(p, sign, p.scale) = IF S = {} THEN 0 ELSE Max(S) - Min(S) + 1
  BY WidthOfBins
<1> HIDE DEF S, first, last, b
<1>6. CASE S = {}
  BY <1>4, <1>5, <1>6
<1>7. CASE S # {}
  <2>1. Max(S) \in first..last /\ Min(S) \in first..last
    BY <1>2, <1>3, <1>7, BoundedExtremes
  <2> QED BY <1>2, <1>4, <1>5, <1>7, <2>1
<1> QED BY <1>6, <1>7

(* A finer scale would not do.                                             *)
LEMMA FinerIsTooWide ==
  ASSUME NEW p, PointInv(p), p.scale < MaxScale
  PROVE  \E sign \in Signs : ~(Width(p, sign, p.scale + 1) <= MaxSize)
<1> DEFINE finer == p.scale + 1
<1>1. PICK sign \in Signs : \E l, h \in Made(p.seen, sign) : Bucket(h.at, finer) - Bucket(l.at, finer) >= MaxSize
  BY DEF PointInv, Crowded
<1>2. PICK l, h \in Made(p.seen, sign) : Bucket(h.at, finer) - Bucket(l.at, finer) >= MaxSize
  BY <1>1
<1> DEFINE S == Bins(p, sign, finer)
           b == p[sign]
           first == b.start
           last == End(b)
<1>3. Exact(b, p.seen, sign, p.scale) /\ p.scale \in Int /\ finer \in Int /\ finer <= MaxScale + 1
      /\ finer - 1 = p.scale
  BY Units DEF PointInv, Signs, DataPoints
<1>4. b \in Slices
  BY <1>3 DEF Exact
<1>5. first \in Int /\ last \in Int
  <2> HIDE DEF b
  <2> QED BY <1>4, EndOfSlice
<1>6. Pow2[1] = 2
  <2>1. 0 \in Nat /\ Pow2[0] = 1 /\ Pow2[0 + 1] = 2 * Pow2[0]
    BY Pow2Rounds
  <2> QED BY <2>1
<1>7. ASSUME NEW x \in Made(p.seen, sign)
      PROVE  Bucket(x.at, finer) \in (first * 2)..(last * 2 + 1)
  <2> DEFINE k == Bucket(x.at, finer)
  <2>1. x.at \in Int
    BY MadeRange
  <2>2. k \in Int /\ Bucket(x.at, finer - 1) = k \div 2
    <3> HIDE DEF finer
    <3>1. 1 \in Nat
      OBVIOUS
    <3> QED BY <1>3, <1>6, <2>1, <3>1, BucketCoarser
  <2>3. k \div 2 \in first..last
    <3>1. Bucket(x.at, p.scale) \in first..last
      BY <1>3 DEF Exact, End
    <3> HIDE DEF k, finer, first, last
    <3> QED BY <1>3, <2>2, <3>1
  <2> HIDE DEF k, first, last
  <2>4. k \in (first * 2)..(last * 2 + 1)
    BY <1>5, <2>2, <2>3
  <2> QED BY <2>4 DEF k
<1>8. /\ S \subseteq (first * 2)..(last * 2 + 1)
      /\ Bucket(l.at, finer) \in S /\ Bucket(h.at, finer) \in S
  BY <1>2, <1>7 DEF Bins
<1>9. Width(p, sign, finer) = IF S = {} THEN 0 ELSE Max(S) - Min(S) + 1
  BY WidthOfBins
<1>10. MaxSize \in Int /\ MaxSize >= 1
  BY SizeAssumption
<1> DEFINE x == Bucket(l.at, finer)
           y == Bucket(h.at, finer)
           a == first * 2
           z == last * 2 + 1
<1>11. a \in Int /\ z \in Int /\ x \in S /\ y \in S /\ S \subseteq a..z /\ y - x >= MaxSize
  BY <1>2, <1>5, <1>8
<1> HIDE DEF S, x, y, a, z, first, last, finer
<1>12. /\ Max(S) \in S /\ y <= Max(S) /\ Min(S) \in S /\ Min(S) <= x
  BY <1>11, BoundedExtremes
<1>13. Max(S) \in Int /\ Min(S) \in Int /\ x \in Int /\ y \in Int
  <2>1. \A v \in S : v \in Int
    BY <1>11
  <2> QED BY <1>11, <1>12, <2>1
<1>14. ~(Width(p, sign, finer) <= MaxSize)
  BY <1>9, <1>10, <1>11, <1>12, <1>13
<1> QED BY <1>14 DEF finer

-----------------------------------------------------------------------------
(* The theorems. *)

(* The inductive invariant: it holds of each data point by itself.         *)
PointsInv ==
  /\ DOMAIN values = Sets
  /\ \A a \in Sets : PointInv(values[a])

(* Every data point keeps its invariant, in this interval or after a reset.*)
LEMMA PointsKept ==
  ASSUME MaxSize >= 3
  PROVE  HistSpec => []PointsInv
<1>1. HistInit => PointsInv
  BY NoPointInv DEF HistInit, PointsInv
<1>2. PointsInv /\ [HistNext]_histVars => PointsInv'
  <2> SUFFICES ASSUME PointsInv, [HistNext]_histVars PROVE PointsInv'
    OBVIOUS
  <2>1. CASE delta
    BY <2>1, NoPointInv DEF delta, PointsInv
  <2>2. ASSUME NEW a \in AttrSets, NEW m \in Measurements, measure(a, m) PROVE PointsInv'
    <3> DEFINE attr == IF AtLimit(a) THEN Overflow ELSE a
    <3>1. attr \in Sets
      BY DEF Sets
    <3>2. values' = [values EXCEPT ![attr] = record(@, m)]
      BY <2>2 DEF measure
    <3>3. PointInv(record(values[attr], m))
      BY <3>1, RecordPoint DEF PointsInv
    <3> HIDE DEF attr
    <3> QED BY <3>1, <3>2, <3>3 DEF PointsInv
  <2>3. CASE UNCHANGED histVars
    BY <2>3 DEF histVars, PointsInv
  <2> QED BY <2>1, <2>2, <2>3 DEF HistNext
<1> QED BY <1>1, <1>2, PTL DEF HistSpec

(* What the invariant says of the counts.                                  *)
LEMMA PointBuckets ==
  ASSUME NEW p, PointInv(p)
  PROVE  /\ \A sign \in {"pos", "neg"} : \A i \in DOMAIN p[sign].counts :
              p[sign].counts[i] = Expected(p, sign, p[sign].start + i - 1)
         /\ p.count = p.zero + Counted(p.pos) + Counted(p.neg)
<1>1. /\ p.seen \in [Measurements -> Nat] /\ p.scale \in Int /\ p.scale <= MaxScale
      /\ Exact(p.pos, p.seen, "pos", p.scale) /\ Exact(p.neg, p.seen, "neg", p.scale)
      /\ p.count = p.zero + Tally(p.seen, "pos") + Tally(p.seen, "neg")
  BY Units DEF PointInv, DataPoints
<1>2. Counted(p.pos) = Tally(p.seen, "pos") /\ Counted(p.neg) = Tally(p.seen, "neg")
  BY <1>1, CountedIsTally DEF Counted
<1>3. \A sign, bin : Expected(p, sign, bin) = SumFunctionOnSet(p.seen, Here(sign, p.scale, bin))
  BY Zenon DEF Expected, Here
<1>4. \A sign \in {"pos", "neg"} : Exact(p[sign], p.seen, sign, p.scale)
  BY <1>1
<1>5. \A sign \in {"pos", "neg"} : \A i \in DOMAIN p[sign].counts :
              p[sign].counts[i] = Expected(p, sign, p[sign].start + i - 1)
  BY <1>3, <1>4 DEF Exact
<1> QED BY <1>1, <1>2, <1>5

(* And of the scale.                                                       *)
LEMMA PointScale ==
  ASSUME NEW p, PointInv(p)
  PROVE  /\ Fits(p, p.scale)
         /\ p.scale < MaxScale => ~Fits(p, p.scale + 1)
         /\ Len(p.pos.counts) <= MaxSize /\ Len(p.neg.counts) <= MaxSize
<1>1. /\ p \in DataPoints /\ p.scale <= MaxScale
      /\ Exact(p.pos, p.seen, "pos", p.scale) /\ Exact(p.neg, p.seen, "neg", p.scale)
  BY Units DEF PointInv, DataPoints
<1>2. \A sign \in Signs : Exact(p[sign], p.seen, sign, p.scale)
  BY <1>1 DEF Signs
<1>3. Fits(p, p.scale)
  BY <1>1, <1>2, ExactFits DEF Fits, Signs
<1>4. p.scale < MaxScale => ~Fits(p, p.scale + 1)
  BY FinerIsTooWide DEF Fits, Signs
<1>5. Len(p.pos.counts) <= MaxSize /\ Len(p.neg.counts) <= MaxSize
  BY <1>1 DEF Exact
<1> QED BY <1>3, <1>4, <1>5

(* Each bucket counts the measurements that a histogram of its scale has in*)
(* it and none is left out (exponential_histogram.go, record, downscale,   *)
(* scaleChange, getBin), for any measurements of float64 and any maximal   *)
(* size from three on: the buckets float64 has at the lowest scale.        *)
THEOREM BucketsAreExact == MaxSize >= 3 => (HistSpec => []BucketsExact)
<1> SUFFICES ASSUME MaxSize >= 3 PROVE HistSpec => []BucketsExact
  OBVIOUS
<1>1. HistSpec => []PointsInv
  BY PointsKept
<1>2. PointsInv => BucketsExact
  BY PointBuckets DEF PointsInv, BucketsExact, Present
<1> QED BY <1>1, <1>2, PTL

(* The size is kept and no resolution is given away: the scale is the      *)
(* finest at which the measurements of each sign fit                       *)
(* (exponential_histogram.go, scaleChange).                                *)
THEOREM ScaleIsFinest == MaxSize >= 3 => (HistSpec => []FinestScale)
<1> SUFFICES ASSUME MaxSize >= 3 PROVE HistSpec => []FinestScale
  OBVIOUS
<1>1. HistSpec => []PointsInv
  BY PointsKept
<1>2. PointsInv => FinestScale
  BY PointScale DEF PointsInv, FinestScale, Present
<1> QED BY <1>1, <1>2, PTL
=============================================================================
