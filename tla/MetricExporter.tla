--------------------------- MODULE MetricExporter ---------------------------
(***************************************************************************)
(* The OTLP/gRPC metric exporter (exporters/otlp/otlpmetric/               *)
(* otlpmetricgrpc: exporter.go, client.go and internal/retry/retry.go).    *)
(* clientMu is held from the beginning of an upload to its end, through    *)
(* every attempt and every pause between attempts.                         *)
(***************************************************************************)
EXTENDS Integers

CONSTANTS
  Idle,             (* nobody: the value of up.by when clientMu is free       *)
  InitialInterval, MaxInterval, MaxElapsedTime,   (* retry.Config             *)
  Throttles,        (* delays a server may ask for, with 0 for none           *)
  Faults            (* servers and callbacks may fail, deadlines may pass     *)

ASSUME ConfigAssumption ==
  /\ InitialInterval \in Nat \ {0} /\ MaxInterval \in Nat \ {0}
  /\ MaxElapsedTime \in Nat \ {0} /\ Throttles \subseteq Nat /\ Faults \in BOOLEAN

VARIABLES
  up,        (* the upload in progress: [by, step, elapsed, interval, delay]  *)
  ctxDone,   (* its context has ended: deadline, export timeout or cancelled  *)
  client,    (* e.client: "live" or "shutdownClient"                          *)
  closed,    (* client.Shutdown has run: its functions are nil                *)
  shutOnce   (* shutdownOnce has been taken                                   *)

exporterVars == <<up, ctxDone, client, closed, shutOnce>>

NoUpload == [by |-> Idle, step |-> "none", elapsed |-> 0, interval |-> 0, delay |-> 0]

ExporterInit ==
  up = NoUpload /\ ctxDone = FALSE /\ client = "live" /\ closed = FALSE /\ shutOnce = FALSE

MuFree == up.by = Idle

Uploading == up.step \in {"attempt", "wait"}

(* The upload is decided, and its context no longer matters.               *)
Finish(result) ==
  /\ up' = [NoUpload EXCEPT !.by = up.by, !.step = result]
  /\ ctxDone' = FALSE
  /\ UNCHANGED <<client, closed, shutOnce>>

(* Export takes clientMu and calls UploadMetrics on the client that is     *)
(* there.  The context may be over by then.                                *)
Lock(by, done) ==
  /\ MuFree
  /\ \E over \in {done, done \/ Faults} :
       up' = IF over \/ client = "shutdownClient"
             THEN [NoUpload EXCEPT !.by = by, !.step = "error"]
             ELSE [NoUpload EXCEPT !.by = by, !.step = "attempt", !.interval = InitialInterval]
  /\ UNCHANGED <<ctxDone, client, closed, shutOnce>>

(* The random interval of backoff: half as long to half as long again.     *)
Randomized(interval) == {n \in 1..(2 * interval) : 2 * n >= interval /\ 2 * n <= 3 * interval}

Grown(interval) ==
  IF 3 * interval >= 2 * MaxInterval THEN MaxInterval ELSE (3 * interval) \div 2

ThrottleAlone(elapsed, throttle) ==           \* mutant: the elapsed time is forgotten
  throttle > MaxElapsedTime

ThrottleTooLong(elapsed, throttle) == elapsed + throttle > MaxElapsedTime

Succeeds == up.step = "attempt" /\ Finish("ok")

(* Without faults a request only fails because its context has ended.      *)
MayFail == Faults \/ ctxDone

FailsForGood == up.step = "attempt" /\ MayFail /\ Finish("error")

(* A retryable error after an attempt that took some time; the server may  *)
(* have asked for a delay.                                                 *)
FailsRetryably(took, throttle) ==
  LET elapsed == up.elapsed + took
  IN /\ up.step = "attempt" /\ MayFail
     /\ \E bOff \in Randomized(up.interval) :
          LET delay == IF bOff > throttle THEN bOff ELSE throttle
              over == \/ elapsed + bOff > MaxElapsedTime
                      \/ bOff <= throttle /\ ThrottleTooLong(elapsed, throttle)
          IN IF over
             THEN Finish("error")
             ELSE /\ up' = [up EXCEPT !.step = "wait", !.elapsed = elapsed,
                                      !.interval = Grown(@), !.delay = delay]
                  /\ UNCHANGED <<ctxDone, client, closed, shutOnce>>

TimerFires ==
  /\ up.step = "wait"
  /\ up' = [up EXCEPT !.step = "attempt", !.elapsed = @ + up.delay, !.delay = 0]
  /\ UNCHANGED <<ctxDone, client, closed, shutOnce>>

WaitEnds == up.step = "wait" /\ ctxDone /\ Finish("error")

CtxEnds ==
  /\ Uploading /\ ~ctxDone /\ Faults
  /\ ctxDone' = TRUE
  /\ UNCHANGED <<up, client, closed, shutOnce>>

StaysLocked ==                                \* mutant: an error returns before the unlock
  IF up.step = "error" THEN [up EXCEPT !.step = "none"] ELSE NoUpload

Released == NoUpload

(* UploadMetrics returns to "by", and Export unlocks.                      *)
Unlock(by, result) ==
  /\ up.by = by /\ up.step = result
  /\ up' = Released
  /\ UNCHANGED <<ctxDone, client, closed, shutOnce>>

(* Shutdown replaces the client under clientMu and shuts it down after.    *)
KeepsClient == client                         \* mutant: the client is not replaced

Replaced == "shutdownClient"

ExporterSwap ==
  /\ MuFree /\ ~shutOnce
  /\ shutOnce' = TRUE
  /\ client' = Replaced
  /\ UNCHANGED <<up, ctxDone, closed>>

ClientShutdown ==
  /\ shutOnce /\ ~closed
  /\ closed' = TRUE
  /\ UNCHANGED <<up, ctxDone, client, shutOnce>>

UploadNext ==
  \/ Succeeds \/ FailsForGood \/ TimerFires \/ WaitEnds
  \/ \E took \in 0..1, throttle \in Throttles : FailsRetryably(took, throttle)

-----------------------------------------------------------------------------
(* Properties. *)

(* A client that was shut down, whose functions are nil, makes no request, *)
(* although uploads and Shutdown come from different goroutines            *)
(* (exporter.go, "Ensure synchronous access to the client").               *)
ClosedClientUnused == closed => ~Uploading

(* No pause between attempts lasts beyond the configured total, counted    *)
(* from the first attempt, whatever delay the server asks for (retry.go,   *)
(* MaxElapsedTime).                                                        *)
RetryBounded == up.step = "wait" => up.elapsed + up.delay <= MaxElapsedTime
=============================================================================
