--------------------------- MODULE TelemetryExport ---------------------------
(* Telemetry: a session's tracer numbers its records (apikit/session_tracer.go) *)
(* and a sink takes them, the file of the program (apikit/telemetry_sinks.go) *)
(* or the exporter over HTTP (apikit/telemetry/otlp/exporter.go), whose      *)
(* flusher posts batches to a collector that answers, refuses, fails, or     *)
(* accepts a batch and loses the answer. Recorders, callers of Stop, the     *)
(* context of Start and the ticker run beside the flusher.                   *)
EXTENDS Naturals, FiniteSets, SequencesExt

CONSTANTS
  Recorders,      \* goroutines that trace requests
  MaxRecords,     \* bound: records
  FlushSize,      \* Config.BatchSize
  ExportAttempts, \* Config.RetryAttempts
  MaxLost         \* bound: answers the collector loses

ASSUME TelemetryAssumption == FlushSize \in Nat \ {0} /\ ExportAttempts \in Nat \ {0}

VARIABLES
  sink,      \* the kind of sink
  recorders, \* what each recorder is at, and the number it took
  sequence,  \* SessionTracer.sequence
  records,   \* what was given to the sink, in order
  buffer,    \* Exporter.buffer: numbers of records
  flushReq,  \* a token is in the channel
  stopReq,   \* the channel is closed
  startCtx,  \* the context of Start has ended
  flusher,   \* the flusher goroutine
  arrived,   \* what the collector took, or the file holds, in order
  reported,  \* records whose loss the error handler heard of
  lost,      \* answers lost
  stopper,   \* a caller of Stop
  due        \* how many records had been given when the drain was asked for

telemetryVars == <<sink, recorders, sequence, records, buffer, flushReq, stopReq, startCtx,
                   flusher, arrived, reported, lost, stopper, due>>

NoBatch == [at |-> "select", batch |-> <<>>, attempt |-> 0, last |-> FALSE]

TelemetryInit ==
  /\ sink \in {"http", "jsonl"}
  /\ recorders = [r \in Recorders |-> [at |-> "idle", seq |-> 0]]
  /\ sequence = 0 /\ records = <<>> /\ buffer = <<>> /\ flushReq = FALSE /\ stopReq = FALSE
  /\ startCtx = FALSE /\ flusher = NoBatch /\ arrived = <<>> /\ reported = {} /\ lost = 0
  /\ stopper = "idle" /\ due = 0

---------------------------------------------------------------------------
(* The recorders.                                                           *)

(* One write of a whole line under the lock of the file, and its error goes  *)
(* nowhere; or the buffer, and a token when that is full.                    *)
RecordErr ==
  /\ arrived' \in {Append(arrived, Len(records')), arrived}
  /\ UNCHANGED <<buffer, flushReq>>

RecordBuffered ==
  /\ buffer' = Append(buffer, Len(records'))
  /\ flushReq' = (flushReq \/ Len(buffer') >= FlushSize)
  /\ UNCHANGED arrived

RecordHTTPRequest(r) ==
  /\ recorders[r].at = "idle" /\ Len(records) + Cardinality({q \in Recorders : recorders[q].at # "idle"}) + 1 < MaxRecords
  /\ recorders' = [recorders EXCEPT ![r] = [at |-> "give", seq |-> 0]]
  /\ UNCHANGED <<sink, sequence, records, buffer, flushReq, stopReq, startCtx, flusher, arrived, reported, lost, stopper, due>>

RecordEvent(r) ==
  /\ recorders[r].at = "give" /\ Len(records) < MaxRecords
  /\ records' = Append(records, recorders[r].seq)
  /\ recorders' = [recorders EXCEPT ![r].at = IF recorders[r].seq = 0 THEN "number" ELSE "idle"]
  /\ IF sink = "jsonl" THEN RecordErr ELSE RecordBuffered
  /\ UNCHANGED <<sink, sequence, stopReq, startCtx, flusher, reported, lost, stopper, due>>

(* The number is taken before the record is given: records of two goroutines *)
(* may be given in the other order.                                          *)
TakeNumber(r) ==
  /\ recorders[r].at = "number"
  /\ sequence' = sequence + 1
  /\ recorders' = [recorders EXCEPT ![r] = [at |-> "give", seq |-> sequence + 1]]
  /\ UNCHANGED <<sink, records, buffer, flushReq, stopReq, startCtx, flusher, arrived, reported, lost, stopper, due>>

---------------------------------------------------------------------------
(* The flusher.                                                             *)

(* An empty buffer is no batch: on with the loop, or the end of the flusher. *)
Flush(last) ==
  /\ flusher' = IF buffer = <<>>
                THEN [NoBatch EXCEPT !.at = IF last THEN "done" ELSE "select"]
                ELSE [at |-> "post", batch |-> buffer, attempt |-> 1, last |-> last]
  /\ buffer' = <<>>

(* A tick, or the token of a full buffer.                                    *)
FlushInTime ==
  /\ sink = "http" /\ flusher.at = "select"
  /\ \/ buffer # <<>> /\ UNCHANGED flushReq
     \/ flushReq /\ flushReq' = FALSE
  /\ Flush(FALSE)
  /\ UNCHANGED <<sink, recorders, sequence, records, stopReq, startCtx, arrived, reported, lost, stopper, due>>

(* Stop, or the end of the context: the last flush, under no context.        *)
MutFlushLast ==
  /\ sink = "http" /\ flusher.at = "select" /\ (stopReq \/ startCtx)
  /\ flusher' = [NoBatch EXCEPT !.at = "done"]
  /\ UNCHANGED <<sink, recorders, sequence, records, buffer, flushReq, stopReq, startCtx, arrived, reported, lost, stopper, due>>
FlushLast ==
  /\ sink = "http" /\ flusher.at = "select" /\ (stopReq \/ startCtx)
  /\ Flush(TRUE)
  /\ UNCHANGED <<sink, recorders, sequence, records, flushReq, stopReq, startCtx, arrived, reported, lost, stopper, due>>

Finished == [NoBatch EXCEPT !.at = IF flusher.last THEN "done" ELSE "select"]

Rest == <<sink, recorders, sequence, records, buffer, flushReq, stopReq, startCtx, stopper, due>>

Accepted ==
  /\ flusher.at = "post" /\ (flusher.last \/ ~startCtx)
  /\ arrived' = arrived \o flusher.batch
  /\ flusher' = Finished
  /\ UNCHANGED <<Rest, reported, lost>>

(* 4xx is not tried again.                                                   *)
Rejected ==
  /\ flusher.at = "post" /\ (flusher.last \/ ~startCtx)
  /\ reported' = reported \cup ToSet(flusher.batch)
  /\ flusher' = Finished
  /\ UNCHANGED <<Rest, arrived, lost>>

(* No connection, a timeout, 5xx or an ended context, before or after the    *)
(* collector took the batch: once more, unless it was the last attempt.      *)
TryAgain ==
  IF flusher.attempt = ExportAttempts
  THEN flusher' = Finished /\ reported' = reported \cup ToSet(flusher.batch)
  ELSE flusher' = [flusher EXCEPT !.at = "wait"] /\ UNCHANGED reported

NotAnswered ==
  /\ flusher.at = "post"
  /\ \/ UNCHANGED <<arrived, lost>>
     \/ lost < MaxLost /\ lost' = lost + 1 /\ arrived' = arrived \o flusher.batch
  /\ TryAgain
  /\ UNCHANGED Rest

(* The delay passes, or the context ends it.                                 *)
MutDelayPasses ==
  /\ flusher.at = "wait"
  /\ flusher' = IF startCtx /\ ~flusher.last THEN Finished ELSE [flusher EXCEPT !.at = "post", !.attempt = @ + 1]
  /\ UNCHANGED <<Rest, arrived, reported, lost>>
DelayPasses ==
  /\ flusher.at = "wait"
  /\ \/ /\ flusher' = [flusher EXCEPT !.at = "post", !.attempt = @ + 1]
        /\ UNCHANGED reported
     \/ /\ startCtx /\ ~flusher.last
        /\ flusher' = Finished /\ reported' = reported \cup ToSet(flusher.batch)
  /\ UNCHANGED <<Rest, arrived, lost>>

---------------------------------------------------------------------------
(* Stop, under a context that does not end, and the context of Start.       *)

AskedFor == IF stopReq \/ startCtx THEN due ELSE Len(records)

Stop ==
  /\ sink = "http" /\ stopper = "idle"
  /\ stopReq' = TRUE /\ stopper' = "waiting" /\ due' = AskedFor
  /\ UNCHANGED <<sink, recorders, sequence, records, buffer, flushReq, startCtx, flusher, arrived, reported, lost>>

StopReturns ==
  /\ stopper = "waiting" /\ flusher.at = "done"
  /\ stopper' = "returned"
  /\ UNCHANGED <<sink, recorders, sequence, records, buffer, flushReq, stopReq, startCtx, flusher, arrived, reported, lost, due>>

StartContextEnds ==
  /\ sink = "http" /\ ~startCtx
  /\ startCtx' = TRUE /\ due' = AskedFor
  /\ UNCHANGED <<sink, recorders, sequence, records, buffer, flushReq, stopReq, flusher, arrived, reported, lost, stopper>>

TelemetryNext ==
  \/ \E r \in Recorders : RecordHTTPRequest(r) \/ RecordEvent(r) \/ TakeNumber(r)
  \/ FlushInTime \/ FlushLast \/ Accepted \/ Rejected \/ NotAnswered \/ DelayPasses
  \/ Stop \/ StopReturns \/ StartContextEnds

(* The HTTP client gives every request 30 seconds, a delay is at most four,  *)
(* and select does not pass over a closed channel for ever.                  *)
TelemetryFairness ==
  /\ WF_telemetryVars(FlushLast)
  /\ WF_telemetryVars(Accepted \/ Rejected \/ NotAnswered \/ DelayPasses)
  /\ WF_telemetryVars(StopReturns)

TelemetrySpec == TelemetryInit /\ [][TelemetryNext]_telemetryVars /\ TelemetryFairness

---------------------------------------------------------------------------
(* Properties.                                                              *)

(* The variables have their types (otlp/exporter.go:75-92).                  *)
TelemetryTypeOK ==
  /\ flusher.at \in {"select", "post", "wait", "done"} /\ flusher.attempt \in 0..ExportAttempts
  /\ ToSet(buffer) \cup ToSet(arrived) \cup reported \subseteq 1..Len(records)

(* "Stop drains pending events and waits for the flusher to exit": once it   *)
(* has, what was recorded before the drain was asked for has arrived, or the *)
(* error handler knows; until then it is on its way (exporter.go:167-214).   *)
Drained ==
  sink = "http" =>
    \A i \in 1..Len(records) :
      \/ i \in ToSet(arrived) \cup reported \cup ToSet(flusher.batch)
      \/ i \in ToSet(buffer) /\ (flusher.at = "done" => i > due)

(* A record arrives again only when the answer to it was lost, and never     *)
(* before an earlier one arrived or was given up (exporter.go:200-259).      *)
Arrivals(i) == {k \in 1..Len(arrived) : arrived[k] = i}
ArrivesInOrder ==
  /\ \A i \in 1..Len(records) : Cardinality(Arrivals(i)) <= 1 + lost
  /\ sink = "http" => \A k \in 1..Len(arrived) : \A i \in 1..(arrived[k] - 1) :
       i \in reported \/ \E j \in 1..k : arrived[j] = i

(* No two records of a session have the same number and none is missing: a   *)
(* reader can tell that nothing was lost (session_tracer.go:40-53).          *)
NumbersAreUnique ==
  LET given == {i \in 1..Len(records) : records[i] > 0}
      taken == {recorders[r].seq : r \in {q \in Recorders : recorders[q].at = "give"}} \ {0}
  IN /\ \A i, j \in given : records[i] = records[j] => i = j
     /\ {records[i] : i \in given} \cap taken = {}
     /\ {records[i] : i \in given} \cup taken = 1..sequence

(* Stop comes back, whatever the collector does (exporter.go:167-177).       *)
StopComesBack == stopper = "waiting" ~> stopper = "returned"
=============================================================================
