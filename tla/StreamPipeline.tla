--------------------------- MODULE StreamPipeline ---------------------------
(***************************************************************************)
(* One event stream of the Transformers engine, from the thread that       *)
(* generates to the events the client is sent: TransformersInference-      *)
(* Engine.stream with its two threads and their queue                      *)
(* (engines/transformers.py), ModelManager.stream once it has its permit   *)
(* (model/manager.py) and _stream_response (api/routes_chat.py).           *)
(*                                                                         *)
(* Text is a number of chunks.  A stop string, if one is generated, begins *)
(* with chunk stopAt and is complete Hold chunks later, and the stop       *)
(* filter holds that many back.                                            *)
(***************************************************************************)
EXTENDS Naturals, SequencesExt

CONSTANTS MaxChunks,  \* bound: chunks of text the model generates
          Hold        \* chunks the stop filter holds back

ASSUME StreamAssumption == MaxChunks \in Nat /\ Hold \in Nat

VARIABLES
  stopAt,     \* the chunk a stop string begins with; 0 for none
  worker,     \* the thread in model.generate
  made,       \* chunks it has put into the streamer
  ended,      \* streamer.end() was called
  consumer,   \* the thread that iterates over the streamer
  read,       \* chunks it has posted to the loop
  queue,      \* messages posted to the request's asyncio queue
  cancelled,  \* the event that the stopping criteria look at
  pc,         \* where the request's task is
  received, emitted, stopped,  \* chunks pushed to the filter, chunks it let
                               \* out, and whether it met the stop string
  generated, finished,         \* both "generated" and "stream_done" arrived
  sent,       \* the kinds of the events the client was sent
  outcome     \* how the request ends, or "none" so far

threads == <<stopAt, worker, made, ended, consumer, read>>
filter == <<received, emitted, stopped>>
flags == <<generated, finished>>
vars == <<threads, queue, cancelled, pc, filter, flags, sent, outcome>>

Sending == {"text", "tail", "final", "done"}  \* the route has a chunk or an event
Checking == Sending \ {"done"}                 \* it may be about to look at the client

Init ==
  /\ stopAt \in 0 .. MaxChunks
  /\ worker = "running" /\ made = 0 /\ ended = FALSE
  /\ consumer = "reading" /\ read = 0
  /\ queue = <<>> /\ cancelled = FALSE /\ pc = "getting"
  /\ received = 0 /\ emitted = 0 /\ stopped = FALSE
  /\ generated = FALSE /\ finished = FALSE
  /\ sent = <<>> /\ outcome = "none"

Post(m) == queue' = Append(queue, m)
task == <<cancelled, pc, filter, flags, sent, outcome>>

-----------------------------------------------------------------------------
(* The threads.                                                           *)

(* The criteria are asked after each token: a cancelled worker ends with  *)
(* the one it is at.                                                      *)
Token ==
  /\ worker = "running" /\ made < MaxChunks /\ made' = made + 1
  /\ worker' \in IF cancelled THEN {"ending"} ELSE {"running", "ending"}
  /\ UNCHANGED <<stopAt, ended, consumer, read, queue, task>>

LastToken ==  \* it adds no text
  /\ worker = "running" /\ worker' = "ending"
  /\ UNCHANGED <<stopAt, made, ended, consumer, read, queue, task>>

EndStreamer ==
  /\ worker = "ending" /\ worker' = "posting" /\ ended' = TRUE
  /\ UNCHANGED <<stopAt, made, consumer, read, queue, task>>

PostGenerated ==
  /\ worker = "posting" /\ worker' = "ended" /\ Post("generated")
  /\ UNCHANGED <<stopAt, made, ended, consumer, read, task>>

(* model.generate raises; nobody calls streamer.end() then.               *)
WorkerFails ==
  /\ worker = "running" /\ worker' = "failed" /\ Post("error")
  /\ UNCHANGED <<stopAt, made, ended, consumer, read, task>>

Read ==
  /\ consumer = "reading" /\ read < made /\ read' = read + 1 /\ Post("text")
  /\ UNCHANGED <<stopAt, worker, made, ended, consumer, task>>

ReadEnd ==
  /\ consumer = "reading" /\ read = made /\ ended
  /\ consumer' = "ended" /\ Post("stream_done")
  /\ UNCHANGED <<stopAt, worker, made, ended, read, task>>

-----------------------------------------------------------------------------
(* The request's task: one message of the queue, then perhaps a yield.    *)

Message(m) == pc = "getting" /\ queue # <<>> /\ Head(queue) = m /\ queue' = Tail(queue)

StopFound(r) == stopAt # 0 /\ r >= stopAt + Hold

(* Defect: nothing is held back for the rest of a stop string.            *)
LetOutAll(r) == IF StopFound(r) THEN stopAt - 1 ELSE r

LetOut(r) == IF StopFound(r) THEN stopAt - 1 ELSE IF r > Hold THEN r - Hold ELSE 0

GetText ==
  /\ Message("text")
  /\ IF stopped THEN UNCHANGED <<pc, filter, cancelled>>
     ELSE /\ received' = received + 1
          /\ stopped' = StopFound(received')
          /\ emitted' = LetOut(received')
          /\ cancelled' = (cancelled \/ stopped')
          /\ pc' = IF emitted' > emitted THEN "text" ELSE "getting"
  /\ UNCHANGED <<threads, flags, sent, outcome>>

(* Defect: the final event does not wait for the text still to come.      *)
CompleteEarly(g, f) == g

Complete(g, f) == g /\ f

(* The filter's tail, if any, then the final event.                       *)
Finish(g, f) ==
  IF ~Complete(g, f) THEN UNCHANGED <<pc, emitted>>
  ELSE IF ~stopped /\ received > emitted THEN pc' = "tail" /\ emitted' = received
  ELSE pc' = "final" /\ UNCHANGED emitted

GetGenerated ==
  /\ Message("generated") /\ generated' = TRUE /\ Finish(TRUE, finished)
  /\ UNCHANGED <<threads, cancelled, received, stopped, finished, sent, outcome>>

GetStreamDone ==
  /\ Message("stream_done") /\ finished' = TRUE /\ Finish(generated, TRUE)
  /\ UNCHANGED <<threads, cancelled, received, stopped, generated, sent, outcome>>

(* Defect: the error event is sent without closing the stream.            *)
ReportError ==
  /\ Message("error") /\ sent' = Append(sent, "error")
  /\ UNCHANGED <<threads, cancelled, pc, filter, flags, outcome>>

(* The worker's exception, "broken" if it is neither a RuntimeError nor a *)
(* ValueError.                                                            *)
GetError ==
  /\ Message("error")
  /\ pc' = "joining" /\ cancelled' = TRUE /\ outcome' \in {"error", "broken"}
  /\ UNCHANGED <<threads, filter, flags, sent>>

Send ==
  /\ pc \in Sending
  /\ sent' = Append(sent, IF pc = "tail" THEN "text" ELSE pc)
  /\ pc' = CASE pc = "text" -> "getting" [] pc = "tail" -> "final"
             [] pc = "final" -> "done" [] pc = "done" -> "joining"
  /\ cancelled' = (cancelled \/ pc = "done")
  /\ outcome' = IF pc = "done" THEN "success" ELSE outcome
  /\ UNCHANGED <<threads, queue, filter, flags>>

-----------------------------------------------------------------------------
(* The end.                                                               *)

(* The route returns, and leaves both generators suspended at a yield for *)
(* the event loop to finalize.                                            *)
Disconnect ==
  /\ pc \in Checking /\ pc' = "abandoned" /\ outcome' = "disconnected"
  /\ UNCHANGED <<threads, queue, cancelled, filter, flags, sent>>

(* Defect: a stream that the client left is closed without cancellation.  *)
FinalizeQuietly ==
  /\ pc = "abandoned" /\ pc' = "finalizing"
  /\ UNCHANGED <<threads, queue, cancelled, filter, flags, sent, outcome>>

Finalize ==
  /\ pc = "abandoned" /\ pc' = "finalizing" /\ cancelled' = TRUE
  /\ UNCHANGED <<threads, queue, filter, flags, sent, outcome>>

Event(how) == IF how \in {"timeout", "error"} THEN Append(sent, "error") ELSE sent

(* Both threads joined or given up on; the route reports how it ended.    *)
Joined ==
  /\ pc \in {"joining", "finalizing"} /\ pc' = "over"
  /\ sent' = IF pc = "joining" THEN Event(outcome) ELSE sent
  /\ UNCHANGED <<threads, queue, cancelled, filter, flags, outcome>>

(* Defect: the timeout reaches the task in queue.get() only.              *)
InterruptGet(how) ==
  /\ pc = "getting" /\ pc' = "joining" /\ cancelled' = TRUE /\ outcome' = how
  /\ UNCHANGED <<threads, queue, filter, flags, sent>>

(* The task is cancelled, by its timeout or by the framework: in          *)
(* queue.get() or a join the engine's stream hears of it, in the check    *)
(* for a disconnection the route, while an event is sent neither does.    *)
Interrupt(how) ==
  /\ \/ /\ pc = "getting" /\ pc' = "joining" /\ cancelled' = TRUE
        /\ outcome' = how /\ UNCHANGED sent
     \/ /\ pc = "joining" /\ outcome \notin {how, "cut"} /\ pc' = "over"
        /\ outcome' = how /\ sent' = Event(how) /\ UNCHANGED cancelled
     \/ /\ pc \in Checking /\ pc' = "abandoned"
        /\ outcome' = how /\ sent' = Event(how) /\ UNCHANGED cancelled
     \/ /\ pc \in Sending /\ pc' = "abandoned"
        /\ outcome' = "dropped" /\ UNCHANGED <<cancelled, sent>>
  /\ UNCHANGED <<threads, queue, filter, flags>>

Over == pc = "over" /\ UNCHANGED vars

-----------------------------------------------------------------------------
Worker == Token \/ LastToken \/ EndStreamer \/ PostGenerated \/ WorkerFails
Consumer == Read \/ ReadEnd
Get == GetText \/ GetGenerated \/ GetStreamDone \/ GetError
Close == Finalize \/ Joined

Next == \/ Worker \/ Consumer \/ Get \/ Send \/ Disconnect \/ Close
        \/ \E how \in {"timeout", "cut"} : Interrupt(how)
        \/ Over

Spec == Init /\ [][Next]_vars

(* The loop runs, its timer fires and joins are bounded; the streamer's   *)
(* queue is read.  Generation is sure to end only once it is cancelled,   *)
(* and a client need not read.                                            *)
FairSpec ==
  /\ Spec
  /\ WF_vars(Get) /\ WF_vars(Close) /\ WF_vars(Interrupt("timeout")) /\ WF_vars(Consumer)
  /\ WF_vars((cancelled /\ LastToken) \/ EndStreamer \/ PostGenerated)

-----------------------------------------------------------------------------
Messages == {"text", "generated", "stream_done", "error"}

TypeOK ==
  /\ stopAt \in 0 .. MaxChunks
  /\ worker \in {"running", "ending", "posting", "ended", "failed"}
  /\ made \in 0 .. MaxChunks /\ read \in 0 .. MaxChunks
  /\ ended \in BOOLEAN /\ consumer \in {"reading", "ended"}
  /\ queue \in Seq(Messages) /\ cancelled \in BOOLEAN
  /\ pc \in Sending \cup {"getting", "joining", "abandoned", "finalizing", "over"}
  /\ received \in 0 .. MaxChunks /\ emitted \in 0 .. MaxChunks
  /\ stopped \in BOOLEAN /\ generated \in BOOLEAN /\ finished \in BOOLEAN
  /\ sent \in Seq({"text", "final", "done", "error"})
  /\ outcome \in {"none", "success", "timeout", "error", "broken", "cut",
                  "dropped", "disconnected"}

(* The final event follows all the text there is, up to the stop string   *)
(* if one was generated, whichever of the two threads ends first          *)
(* (transformers.py:270-281).                                             *)
FinalIsComplete ==
  pc \in {"final", "done"} \/ Contains(sent, "final") =>
    emitted = IF stopAt # 0 /\ made >= stopAt + Hold THEN stopAt - 1 ELSE made

(* No chunk of a complete stop string is sent, however the chunks arrive  *)
(* and wherever the stream is cut (transformers.py:38-60).                *)
StopIsNotSent == StopFound(made) => emitted < stopAt

(* Text, then the final event, then [DONE]; or an error event after which *)
(* nothing comes.  Only the timeout may still report itself after [DONE], *)
(* while the threads are joined (routes_chat.py:107-164).                 *)
EventsInOrder ==
  /\ \A i, j \in DOMAIN sent : i < j =>
       /\ sent[i] # "error" /\ (sent[i] = "done" => sent[j] = "error")
       /\ (sent[i] = "final" => sent[j] \in {"done", "error"})
  /\ Contains(sent, "done") /\ Contains(sent, "error") => outcome = "timeout"
  /\ outcome = "success" => Contains(sent, "done")

(* The request is over in bounded time, though generation or the client   *)
(* may stall (routes_chat.py:108).                                        *)
StreamEnds == <>(pc = "over")

(* A stream that is over lets both threads end: cancelled reaches the     *)
(* worker however the stream went, and the worker's end the consumer,     *)
(* unless generation failed before streamer.end(): then the consumer      *)
(* waits for ever (transformers.py:231-246, 294).                         *)
ThreadsEnd == <>(worker = "failed" \/ (worker = "ended" /\ consumer = "ended"))
=============================================================================
