---------------------------- MODULE ModelRequest ----------------------------
(* One call for the normalization of a source, with its retries: the       *)
(* three timers of the watchdog, the answer read as a stream of events or  *)
(* as one JSON text, and the one failure kind that is reported.            *)
EXTENDS Naturals, Sequences

CONSTANTS RequestAttempts,  \* maximumAttempts
          MaximumBytes      \* maximumResponseBytes; an event counts as one

ASSUME RequestAssumption == RequestAttempts \in Nat \ {0} /\ MaximumBytes \in Nat

VARIABLES
    call,       \* where the call is, and which attempt
    timers,     \* the timers that are set
    fired,      \* timeoutKind of the watchdog
    signal,     \* what has been aborted: the caller's signal, this call
    body,       \* what was received of the answer, in order
    stream,     \* what the parser keeps of it
    outcome     \* the result of each attempt

requestVars == <<call, timers, fired, signal, body, stream, outcome>>

(* Of an event stream: a choice, which may carry text or reasoning only,   *)
(* and may be the one that finishes; the end mark, usage counters, a       *)
(* comment, anything else.  Of a JSON answer: white space, text, bytes     *)
(* that are no text.                                                       *)
TextEvents   == {"text", "text_stop"}
OutputEvents == TextEvents \cup {"reasoning", "reasoning_stop"}
StopEvents   == {"stop", "text_stop", "reasoning_stop"}
ChoiceEvents == {"choice"} \cup OutputEvents \cup StopEvents
StreamEvents == ChoiceEvents \cup {"done", "usage", "comment", "bad"}
JsonBytes    == {"comment", "text", "bad"}
Waiting      == {"fetch", "status", "body"}
NoStream     == [text |-> FALSE, choice |-> FALSE, stop |-> FALSE, done |-> FALSE, error |-> FALSE]

RequestInit ==
    /\ call = [at |-> "start", attempt |-> 1, media |-> "none", limited |-> FALSE]
    /\ timers = {} /\ fired = "none"
    /\ signal = [caller |-> FALSE, heard |-> FALSE, aborted |-> FALSE]
    /\ body = <<>> /\ stream = NoStream
    /\ outcome = [n \in 1..RequestAttempts |-> "none"]

-----------------------------------------------------------------------------
(* The end of an attempt: whatever ends it, a timer that fired is the      *)
(* reason, then the caller, then the error itself.                         *)

Went(at)     == call' = [call EXCEPT !.at = at]
End(result)  ==
    /\ Went("ended")
    /\ outcome' = [outcome EXCEPT ![call.attempt] = result]
    /\ timers' = {}
Fail(error) ==
    End(IF fired # "none" THEN fired ELSE IF signal.caller THEN "cancelled" ELSE error)

Keep == UNCHANGED <<fired, signal>>

(* The attempt is put on record by the caller before it begins.            *)
BeginAttempt ==
    /\ call.at = "start"
    /\ IF signal.caller THEN End("cancelled")
       ELSE Went("record") /\ UNCHANGED <<timers, outcome>>
    /\ Keep /\ UNCHANGED <<body, stream>>

(* The signal of the caller is heard from now on; an abort before this     *)
(* point, while the record was written, is not.                            *)
SendRequest ==
    /\ call.at = "record"
    /\ \/ /\ Went("fetch")
          /\ timers' = {"first_output", "maximum_duration"} /\ fired' = "none"
          /\ signal' = [signal EXCEPT !.heard = ~signal.caller, !.aborted = FALSE]
          /\ UNCHANGED outcome
       \/ End("unrecorded") /\ UNCHANGED <<fired, signal>>
    /\ body' = <<>> /\ stream' = NoStream

Respond ==
    /\ call.at = "fetch" /\ ~signal.aborted
    /\ \/ \E media \in {"event_stream", "json"} :
             /\ call' = [call EXCEPT !.at = "body", !.media = media]
             /\ UNCHANGED <<timers, outcome>>
       \/ \E limited \in BOOLEAN :
             /\ call' = [call EXCEPT !.at = "status", !.limited = limited]
             /\ UNCHANGED <<timers, outcome>>
       \/ Fail("response_too_large")    \* by the length it declares
       \/ Fail("connection")
    /\ Keep /\ UNCHANGED <<body, stream>>

(* The body of an error answer is read to its end or to the limit; only    *)
(* 429 is tried again.                                                     *)
ReadStatus ==
    /\ call.at = "status" /\ ~signal.aborted
    /\ IF ~call.limited THEN Fail("http_status")
       ELSE IF call.attempt = RequestAttempts THEN End("http_429")
       ELSE /\ Went("wait") /\ timers' = {}
            /\ outcome' = [outcome EXCEPT ![call.attempt] = "http_429"]
    /\ Keep /\ UNCHANGED <<body, stream>>

StatusBreaks ==
    /\ call.at = "status" /\ ~signal.aborted
    /\ Fail("eof_incomplete") /\ Keep /\ UNCHANGED <<body, stream>>

Retry ==
    /\ call.at = "wait"
    /\ IF signal.caller
       THEN /\ call' = [call EXCEPT !.at = "ended", !.attempt = @ + 1]
            /\ outcome' = [outcome EXCEPT ![call.attempt + 1] = "cancelled"]
       ELSE call' = [call EXCEPT !.at = "start", !.attempt = @ + 1] /\ UNCHANGED outcome
    /\ signal' = [signal EXCEPT !.heard = FALSE, !.aborted = FALSE] /\ fired' = "none"
    /\ UNCHANGED <<timers, body, stream>>

-----------------------------------------------------------------------------
(* The watchdog: after the first output only silence is limited; a body    *)
(* that is only drained is limited as a whole, too.                        *)

ValidOutput == (timers \ {"first_output", "maximum_duration"}) \cup {"output_idle"}
Drain       == (timers \ {"first_output"}) \cup {"maximum_duration", "output_idle"}

\* mutant: a choice after the one that finishes is read like any other
IsRefused_OnlyAfterDone(event) ==
    event = "bad" \/ (stream.done /\ event \in ChoiceEvents)

(* consumeCompletionEvent: what an event adds, or that it is an error.     *)
IsRefused(event) ==
    \/ event = "bad"
    \/ stream.done /\ event \in ChoiceEvents
    \/ stream.stop /\ event \in ChoiceEvents

Consumed(event) ==
    [stream EXCEPT !.done   = @ \/ event = "done",
                   !.choice = @ \/ event \in ChoiceEvents,
                   !.stop   = @ \/ event \in StopEvents,
                   !.text   = @ \/ event \in TextEvents]

(* After the first error of the protocol the rest is only read.            *)
ReceiveEvent ==
    /\ call.at = "body" /\ call.media = "event_stream" /\ ~signal.aborted
    /\ \E event \in StreamEvents :
          IF Len(body) = MaximumBytes
          THEN Fail("response_too_large") /\ UNCHANGED <<body, stream>>
          ELSE /\ body' = Append(body, event)
               /\ CASE stream.error -> timers' = timers \cup {"output_idle"} /\ UNCHANGED stream
                    [] ~stream.error /\ IsRefused(event) ->
                         /\ stream' = [stream EXCEPT !.error = TRUE, !.text = FALSE]
                         /\ timers' = Drain
                    [] OTHER ->
                         /\ stream' = Consumed(event)
                         /\ timers' = IF event \in OutputEvents THEN ValidOutput ELSE timers
               /\ UNCHANGED <<call, outcome>>
    /\ Keep

ReceiveJson ==
    /\ call.at = "body" /\ call.media = "json" /\ ~signal.aborted
    /\ \E part \in JsonBytes :
          IF Len(body) = MaximumBytes
          THEN Fail("response_too_large") /\ UNCHANGED <<body, stream>>
          ELSE IF part = "bad" THEN Fail("invalid_utf8") /\ UNCHANGED <<body, stream>>
          ELSE /\ body' = Append(body, part)
               /\ stream' = [stream EXCEPT !.text = @ \/ part = "text"]
               /\ timers' = IF part = "text" THEN ValidOutput ELSE timers
               /\ UNCHANGED <<call, outcome>>
    /\ Keep

(* The end of the body.  A JSON text may be incomplete.                    *)
EndOfBody ==
    /\ call.at = "body" /\ ~signal.aborted
    /\ IF call.media = "json"
       THEN (stream.text /\ End("content")) \/ Fail("protocol")
       ELSE IF stream.error THEN Fail("protocol")
       ELSE IF stream.choice /\ stream.stop /\ stream.text THEN End("content")
       ELSE Fail("eof_incomplete")
    /\ Keep /\ UNCHANGED <<body, stream>>

Breaks ==
    /\ call.at = "body" /\ ~signal.aborted
    /\ Fail("eof_incomplete") /\ Keep /\ UNCHANGED <<body, stream>>

-----------------------------------------------------------------------------
TimerFires ==
    /\ call.at \in Waiting
    /\ \E timer \in timers :
          /\ timers' = timers \ {timer}
          /\ fired' = IF fired = "none" THEN timer ELSE fired
    /\ signal' = [signal EXCEPT !.aborted = TRUE]
    /\ UNCHANGED <<call, body, stream, outcome>>

Cancel ==
    /\ ~signal.caller /\ call.at # "ended"
    /\ signal' = [signal EXCEPT !.caller = TRUE, !.aborted = @ \/ signal.heard]
    /\ UNCHANGED <<call, timers, fired, body, stream, outcome>>

SeeAbort ==
    /\ call.at \in Waiting /\ signal.aborted
    /\ Fail(IF call.at = "fetch" THEN "connection" ELSE "eof_incomplete")
    /\ Keep /\ UNCHANGED <<body, stream>>

RequestNext ==
    \/ BeginAttempt \/ SendRequest \/ Respond \/ ReadStatus \/ StatusBreaks \/ Retry
    \/ ReceiveEvent \/ ReceiveJson \/ EndOfBody \/ Breaks
    \/ TimerFires \/ Cancel \/ SeeAbort

RequestSpec == RequestInit /\ [][RequestNext]_requestVars

-----------------------------------------------------------------------------
(* A text is taken only from a body that is an answer from beginning to    *)
(* end: choices up to one that finishes, some text among them, and after   *)
(* it nothing but counters, comments and the end mark.                     *)
OpenEvents == (ChoiceEvents \ StopEvents) \cup {"usage", "comment"}

IsAnswer(events) ==
    \E last \in DOMAIN events :
        /\ events[last] \in StopEvents
        /\ \A k \in 1..(last - 1) : events[k] \in OpenEvents
        /\ \A k \in (last + 1)..Len(events) : events[k] \in {"usage", "comment", "done"}
        /\ \E k \in 1..last : events[k] \in TextEvents

ContentIsAnswer ==
    call.at = "ended" /\ outcome[call.attempt] = "content" =>
        IF call.media = "json" THEN \E k \in DOMAIN body : body[k] \in TextEvents
                                  ELSE IsAnswer(body)

(* The call never waits without a timer that will end it, a drained body   *)
(* has a limit as a whole, and no timer is left when it is over.           *)
WatchdogHolds ==
    /\ call.at \in Waiting /\ ~signal.aborted =>
          /\ timers \cap {"output_idle", "maximum_duration"} # {}
          /\ stream.error => "maximum_duration" \in timers
    /\ call.at \notin Waiting => timers = {}

(* An attempt is repeated only after 429; a reported timeout is that of    *)
(* the timer that fired, and a cancelled call says so.                     *)
OutcomeIsTrue ==
    /\ \A n \in 1..(call.attempt - 1) : outcome[n] = "http_429"
    /\ call.at = "ended" =>
          LET result == outcome[call.attempt] IN
          /\ result \in {"first_output", "output_idle", "maximum_duration"} <=> fired # "none"
          /\ result = "cancelled" => signal.caller
          /\ signal.caller /\ fired = "none" =>
                result \in {"cancelled", "content", "http_429", "unrecorded"}

RequestInv == ContentIsAnswer /\ WatchdogHolds /\ OutcomeIsTrue
=============================================================================
