# Formal model of the internal MoE inference service

TLA+ specifications of the inference service under `src/`: the life of the
resident model, the requests that compete for it, the server around both, and the
cache, the files and the processes it is loaded from, checked with TLC and, where marked, proved with TLAPS. Paths below are
relative to the repository root; `manager.py` is
`src/inference_service/model/manager.py`, and so on.

## 1. The system

One process serves one model. FastAPI's lifespan (`main.py:36-55`) starts
`ModelManager.initialize` as a task and serves meanwhile; `initialize` resolves
the model's directory (a local one, or an S3 prefix through a verified cache),
validates it, loads it into an engine (Transformers in the process, or a
`llama-server` child) and warms it up. Chat requests go through two middlewares,
authentication and schema checks to `routes_chat.py`, wait for one of
`MAX_CONCURRENT_REQUESTS` permits in `ModelManager.generate` or `.stream`, and
generate in an engine thread. At shutdown uvicorn lets the requests drain, cancels
those that are left after a timeout, and resumes the lifespan, which waits a grace
period for a load in flight, cancels it, and unloads the engine.

Everything but the engine threads runs on one asyncio event loop, so that code
between two awaits is atomic; `asyncio.to_thread` jobs and the streaming threads
run beside it and cannot be cancelled.

| Component | State | Operations | Talks to | What is hard | What makes it correct |
|---|---|---|---|---|---|
| Model manager, life cycle (`manager.py:54-141, 186-215`) | `state`, gauges, engine | `initialize`, `shutdown`, `info` | storage, engine, lifespan | cancellation does not reach threads; two tasks write `state` | READY means loaded; failed loads unload; stopping is for good |
| Lifespan (`main.py:35-55`) | load task | start, wait, cancel, stop | manager | grace timer against the end of the load | always ends; never leaves a load running that is neither awaited nor cancelled |
| Server (`main.py:113-122`, uvicorn) | request tasks | accept, drain, cancel, shut down | routes, lifespan | cancelled requests are not waited for, and a stream learns of it late | no generation starts once the manager has left READY, but a cancelled stream's; an unload meets only what is cancelled or cut short; stopping ends |
| Model manager, capacity (`manager.py:143-184`) | semaphore, `in_progress` | `generate`, `stream` | routes, engine | a grant meets a timeout; two nested timeouts | permits conserved; no lost wakeup; no overtaking |
| Chat route (`routes_chat.py`) | none of its own | completion, event stream | manager | generation timeout, disconnection | every request ends and gives its permit back |
| Transformers engine (`engines/transformers.py`) | model, tokenizer, two threads per stream | `load`, `generate`, `stream`, `unload` | manager | threads outlive their requests; chunk order; stop strings across chunks | a stream's text is the model's up to a stop string |
| llama.cpp engine (`engines/llama_cpp.py`) | child process, port, key | the same | child over HTTP | child dies at any time; readiness polling | a process is terminated exactly once, never leaked |
| S3 cache (`storage/s3.py`) | cache directories, lock files | `resolve` | S3, manager | crashes, replicas sharing the volume, re-uploads | only whole directories of one revision are returned |
| Upload (`scripts/upload_model.py`) | objects under a prefix | upload | S3 | second upload to a prefix | a manifest describes what is there |
| Manifest, validation (`model/manifest.py`, `model/validation.py`) | none | parse, validate | cache, manager | path and format rules | what one part makes, the next one accepts |
| Middleware (`api/middleware.py`) | byte count | size limit, request context | routes | chunked bodies | limit holds whatever the headers say |
| Configuration (`config.py`) | settings | validator | all | combinations | no accepted setting contradicts another |
| Qwen downloader (`scripts/download_qwen_gcp.py`) | part file, artifact | download | network, disk | resumption, overlapping runs | nothing unverified is published |
| Runtime installer (`scripts/download_llama_runtime.py`) | runtime, staging directory | install | network, disk | a stop between two renames, overlapping runs | nothing half done at the destination; an installed runtime survives |
| Health, models, metrics routes, auth, schemas, logging, diagnostics, other scripts | none to speak of | read-only views | manager | nothing concurrent | - |

## 2. The modules

| Module | Models | Kind |
|---|---|---|
| `Lifecycle` | initialize, shutdown, lifespan, pool threads | specification |
| `LifecycleProofs` | its theorems | proofs |
| `PermitPool` | what the capacity limit promises: holders, and who waits ahead of whom | abstract specification |
| `Capacity` | requests, semaphore, timeouts, engine threads | specification, refines `PermitPool` |
| `MCCapacity` | constants for TLC | instance |
| `CapacityProofs` | its theorems | proofs |
| `Service` | the server, its requests' tasks and its shutdown | composes `Lifecycle` and `Capacity`, refines `Capacity` |
| `MCService` | constants for TLC | instance |
| `ServiceProofs` | its theorems, and those of its two parts carried over | proofs |
| `S3Cache` | resolve in several replicas, use of the path, uploads | specification |
| `MCS3Cache` | constants for TLC | instance |
| `S3CacheProofs` | its theorems, and those about `ManifestRules` | proofs |
| `StreamPipeline` | one event stream, from the generating thread to the client | specification |
| `StreamPipelineProofs` | its theorems | proofs |
| `StopFilter` | the buffered stop filter, over characters | specification |
| `StopFilterProofs` | its theorems | proofs |
| `EngineLife` | what `Lifecycle` assumes of an engine's load and unload | abstract specification |
| `LlamaServer` | the llama.cpp engine and its server process | specification, refines `EngineLife` |
| `QwenDownload` | runs of the resumable model download | specification |
| `QwenDownloadProofs` | its theorems | proofs |
| `RuntimeInstall` | runs of the runtime installer | specification |
| `LlamaProofs` | theorems about `RuntimeInstall` and `LlamaServer` | proofs |
| `ManifestRules` | which manifests and directories each part accepts | operators |

### Lifecycle

An action is the code between two awaits of one of two tasks: `load`
(`initialize`) and `span` (the lifespan after its `yield`). `ready` is the event
loop's queue of tasks to resume: it is a FIFO, and one property depends on that.
`init` and `span` are the tasks' program points, `job` the thread of
`initialize`'s current stage, `unload[t]` the unload thread each task submits,
`resident` whether the engine holds a model (`self.model`) or a server
(`self.process`). `StartResolving` to `BecomeReady` are the stages of
`initialize`; `InitializeFails` is its `except BaseException` up to the awaited
unload, `InitializeRaises` the rest. `StopOrWait`, `GraceExpires`, `WaitReturns`
and `CancelLoad` are `main.py:48-54`; `Shutdown` and `ShutdownReturns` are
`ModelManager.shutdown`. Cancellation makes an awaited thread's outcome unheard
(`AbandonedJobEnds`) but lets it publish its model (`LoadPublishes`).
A Transformers warm-up is a thread, so a cancelled `initialize` reaches its
`except` clause in one pass of the loop; a llama.cpp warm-up awaits an HTTP client
that may take several passes to unwind (`WarmupUnwinds`), during which the
lifespan's unload may finish. `StoppedIsFinal` makes an exception of the second:
FAILED can then be written even over STOPPED. A cancelled `initialize` may always
write FAILED over STOPPING, before `shutdown` goes on to STOPPED, although
`docs/ARCHITECTURE.md:29` calls the lifecycle one-way; `RegressOnlyByCancel` says
that nothing else does.

### Capacity

A request is one task with a program point `pc[r]`. The semaphore is CPython's:
`value`, the deque `waiters`, and the state of each waiter's future, kept in `pc`
(`waiting` pending, `granted` done, `cancelled`, `revoked` for done and then
cancelled). `Release` and `LeaveQueue` are the two places that wake waiters.
`QueueTimeout` is `wait_for` around `acquire`; `GenerationTimeout` the route's
`asyncio.timeout`, which also covers the wait; `Cut` a cancellation by the
framework. That of a stream comes from a cancel scope (`StreamingResponse` runs it
in a task group), which passes by a task whose awaited future is done: `Cut` reaches
a stream that is `waiting`, and none that is `granted` or already interrupted. An interrupted non-streaming request gives its permit back at once and
leaves its thread in `work`; an interrupted stream joins its threads first
(`closing`), for at most five seconds each. `phase` is the manager's life, in any
order with the requests: `Service` puts `Lifecycle` in its place.

`PermitPool` has a set of holders and a line, which is the set of those in it and the
relation `ahead` between them. `Capacity` implements it with the holders that are past
`acquire` and the waiters that have not been interrupted, ordered as in the deque
(`ImplementsPool`): nobody overtakes a request that is still waiting.

### Service

`L` is `Lifecycle` and `C` is `Capacity`, whose `phase` is read off the manager's
state (`Phase`: `_require_ready` asks for READY). Requests arrive while `server` is
`up`; `tasks` are those uvicorn still waits for when it drains. It resumes the
lifespan (`L!Signal`) when there is none left (`Drained`) or when
`timeout_graceful_shutdown` has passed (`DrainExpires`): it then cancels the tasks
that are left and does not wait for them. Such a task is `doomed` until the cancellation
reaches it, which is when it unwinds (`Unwinds`); until then its engine thread
goes on, and so may the unload. A request without a stream takes no other step: the
next one of its task is the unwinding. A stream runs in a child of the task that
uvicorn cancels. The child is cancelled only when its parent has resumed, and not as
long as what it awaits is done, so that `Proceeds` lets a doomed stream go on, for as
many steps as it likes.

This matters because `manager.py:148` checks readiness before the wait for a permit.
A plain request that waits gets no permit once the manager has begun to stop. A
stream may: another cancelled request unwinds, its permit completes the stream's
future, the cancel scope passes the stream by, and it resumes with the permit and
calls `engine.stream` beside the unload. `StartsOnlyWhenReady` allows exactly that,
and no other start outside READY. `UnloadMeetsOrphansOnly` says what `unload` may
meet: threads nobody hears any more, and requests that are cancelled, a late stream
among them. `ImplementsCapacity` shows that the manager does
to the requests what `Capacity` lets it do, so that what `Capacity` is shown to keep
holds of the service. That an unload meets such a thread or stream at all (which then
fails, or generates on with the model it has) is what the code accepts for not waiting.

### S3Cache

Replicas are processes that share `MODEL_CACHE_DIR`; `target[v]` is the cache
directory of the manifest digest `v`, a function from names to the revision whose
bytes they hold. `GetManifest` to `Abandon` are `resolve`; removal goes entry by
entry, so that `Kill` may interrupt it. `Abandon` removes the temporary directory, or
leaves some of it and says nothing, as `rmtree(..., ignore_errors=True)` does
(`s3.py:133`): `OneWriterAndNoLitter` promises the lock always, and no leftover until
`faulted`. `Validate` and `Load` are what
`initialize` does with the path, without the lock. `StartUpload` to
`UploadAborts` are `upload_model.py`. `faulted` is history: a disk has failed to
read, to remove or to keep something. `InUseStaysWhole` holds until then: the lock
covers `resolve` and not the use of the path it returns, and a replica that fails to
read a directory removes it while another one loads from it. `PowerLoss` may tear
what was written without `fsync`: the manifest and the completion marker.

### StreamPipeline

`Capacity` sees a stream as a request that works; `StreamPipeline` is its inside.
The worker thread is `Token` to `WorkerFails`, the thread that iterates over the
streamer `Read` and `ReadEnd`; both post to `queue`, and `Get...` is one turn of
the loop around `queue.get()` in `TransformersInferenceEngine.stream`, with the
stop filter as `LetOut`. `pc` is the place of the request's task, which is the
same in the engine, in `ModelManager.stream` and in `_stream_response`: at a
`queue.get()`, at a yield (`text`, `tail`, `final`, `done`), in the joins
(`joining`), or returned with the generators left to the loop's finalizer
(`abandoned`, `finalizing`). `Interrupt` is the request's timeout or a
cancellation by the framework; what it does depends on where it lands.
Text is counted in chunks, and the stop filter's character arithmetic in chunks
too: a stop string is `Hold + 1` chunks and `Hold` are held back. That the
streamer is ended by a generation that ends, and not by one that raises, is
Transformers' doing (external).

### StopFilter

`Push` and `Finish` are the methods of `_BufferedStopFilter`, `Truncate` is
`_truncate_at_stop`; `text` is what the model generated and `seen` how much of it
the filter had been given when it stopped. `StreamIsTruncation` says that the
filter shows what truncating all of that at once would leave. Whether this is also
what truncating the whole text leaves, as a completion without streaming does
(`transformers.py:188`), depends on the stop strings: with `b` and `abc`, the text
`abc` in the chunks `ab`, `c` streams as `a`, and is empty without streaming.
`SameAsGenerate` therefore asks it of stop strings of one length.

### LlamaServer

`loader` is the thread in `load`; an action is what it does between two accesses
to `self.process`, `self._base_url` and `self._api_key` (`attached`, `url`, `key`),
as other threads run `unload` at the same time when the load was cancelled.
`Poll` and `GetHealth` are the loop of `_wait_until_ready`, `Take` to `Wait` the
lines of `unload`, called by `load` itself, by the cleanup of `initialize` and by
`shutdown`. The server is a process that may answer, hang, die or ignore signals.
`ImplementsEngine` shows that its threads, seen from outside, do what the thread
actions of `Lifecycle` do (`LoadPublishes`, `JobEnds`, `UnloadClears`,
`UnloadEnds`). A load that was cancelled may lose its server: an `unload` that ran
before the assignment to `self.process` does not see it, and one that read the
attribute before and clears it after takes away the last reference.
`ServerIsNotLost` says that this needs a cancelled load, and that a server some
`unload` has seen is gone. `Server...` in the names of its definitions (`ServerInit`,
`ServerNext`, `ServerTypeOK`) keeps them apart from those of `RuntimeInstall`: the proofs
about the two are in one module.

### QwenDownload

Processes run `download` again and again; an action is one access to a file or the
network. `part` and `dest` are the two names, with the blocks their files hold and
how many are on the disk for certain; a file that is renamed or removed while
another run has it open is followed by `handle`. `Answer` and `NothingLeft` are the
mirror's answers (206, 200, 416), `Open` to `Sync` are `_stream_response`, `Breaks`
every way a run ends early. `taint` and `alone` are history: what has happened that
the properties except. A file's verification reads it at one moment: that another
run overwrites it meanwhile is left out.
The model shows one thing the code gets wrong: a run that is killed after it
has written the last block and before it calls `fsync` leaves a complete part file;
the next run asks for what comes after it, is told 416, verifies what the page cache
holds and publishes it without a sync (`download_qwen_gcp.py:194`), and a power loss
may then tear the published model (the next run or the service notices the digest,
and only `--force` helps). `PublishedIsApproved` names this as an exception.

### RuntimeInstall

A run goes from `Start` to `CleanUp`; `dest` is what the destination holds, `staging`
and `previous` what a run's temporary directory holds. `Look` and `SetAside` are
`main`'s `exists()` and first rename, `EnterTry` the moment before the `try`, `Swap`
the second rename, `Restore` the `except BaseException` clause. Two runs may come
between any two of these: a rename then meets nothing, or a directory that is not
empty, and fails. A run that fails or is interrupted removes its temporary directory
and what is in it; one that is killed leaves it (`strayed`). `owed` is history: a
runtime has been at the destination, and none of the three mishaps that
`RuntimeSurvives` names has happened since.
The model shows what the code leaves open: a `KeyboardInterrupt` that is raised as the
first `os.replace` returns, before the `try` is entered, removes the installed runtime
with the temporary directory (`InterruptedAside`, `download_llama_runtime.py:222-223`),
and a second rename that fails and cannot be undone does too (`RestoreFails`).

### ManifestRules

Operators over abstract names and bytes, one for each part that judges a manifest or a
directory: `Builds` (`build_manifest`), `Accepted` (`ModelManifest`), `Validates`
(`validate_model_directory`), `Downloads`, `Filled` and `Marked` (`resolve`), `Takes`
(the llama.cpp engine). Each part excepts other names and compares suffixes in its own
way; the theorems (in `S3CacheProofs`) say that what one part lets through, the next one accepts. One
exception is real: a weight file whose suffix is in capitals (`X.GGUF` beside
safetensors) counts as no weight when the manifest is built and as one when the
directory is validated, so that `build_model_manifest.py` writes a manifest that
nothing accepts. The root's manifest file is left out of a directory's files, and
`dirs` is there for `rglob`, which also finds directories.

## 3. What is checked

| Run | Question | Result |
|---|---|---|
| `lifecycle` | all interleavings of load, failure, signal, timer and threads, for either engine | holds |
| `lifecycle_released` | does shutdown release the model (`engines/base.py:53`)? | no: an abandoned load publishes afterwards |
| `capacity_safety` | permits, wakeups, queue, refinement of `PermitPool` | holds |
| `capacity_active` | are active generations bounded (`docs/ARCHITECTURE.md:22`)? | no: timed-out threads run on |
| `service` | which generations start, or run on, once the manager stops; do requests and the shutdown end; is `Capacity`'s environment the manager? | only those of cancelled requests, and only a stream starts; the rest holds |
| `s3cache` | whole results, no blending, no lock left behind under every fault; no leftovers and a whole directory in use while disks work; does every resolve end? | holds; a failed removal may leave a temporary directory |
| `s3cache_upload` | does a manifest mean a complete revision (`scripts/upload_model.py:29`)? | no, at the second upload to a prefix |
| `stream` | is what a stream sends complete, in order and free of the stop string; do it and its threads end? | holds, but for the thread that reads after a failed generation |
| `llama_server` | does the engine lose its server, however it behaves and threads interleave? | holds |
| `qwen_download` | is what is published approved, and a killed download resumable? | holds, except for an unsynced resumption (section 2) |
| `runtime_install` | is the destination always whole, and does an installed runtime survive? | holds, but for three named mishaps |
| `stop_filter` | does the filter show what truncating the whole text shows? | holds, for stop strings of one length |

Each property of a run that holds is paired with a defect (an operator that
precedes the definition it replaces, marked *Defect* in the modules) with which
TLC finds the property violated.

**Bounds.** `Lifecycle` needs none: its state space is finite (fewer than a
thousand states), since `initialize` runs once per process. `Capacity` is checked
with four requests and two permits, one request a stream, for safety: two can
hold, one be granted and one arrive, which is every role of the semaphore's
algorithm at once. `Service` has three requests, one a stream, and one permit: one
holds it while two wait, and the server may be stopped at any of their places.
`S3Cache` is checked with two replicas, two revisions and one artifact file, as the
manifest and the marker are files of the directory too: `NeverBlended` and
`ResolvedIsWhole` distinguish three names. Nothing in these
modules counts without limit, so that no guard bounds a counter. `StreamPipeline`
bounds the chunks a model generates with `MaxChunks` (as `max_new_tokens` bounds
the tokens): four with one held back let a stop string begin and end inside the
text, at either end, or be cut off by it. `StopFilter` is run over two characters, texts of
up to five in chunks of up to two, and one or two stop strings of up to three: the
longest held-back tail spans two chunks, and stop strings overlap in every way.

`LlamaServer` is finite without bounds: one load, three calls of `unload`.

`QwenDownload` has two processes and an artifact of two blocks: a part file may be
empty, partial, complete or too long, and a second run may come at each of these.
`RuntimeInstall` has two processes that run again and again, the destination in any
state it may first be found in; its state space is finite.

**Deadlock.** `Capacity` and `Service` stop when their requests are done and the
lifespan is over, so their runs do not check deadlock. `Lifecycle` ends in `Exited`, a named stutter, and any other state
without a successor would be reported; `S3Cache` never stops. A stream
that is over stutters in `Over`, so that one stuck anywhere else would be reported.

**Fairness.** The event loop resumes the tasks in its queue and its timers fire:
weak fairness of the tasks, of `GraceExpires`, `QueueTimeout` and
`GenerationTimeout`. `engine.unload` is bounded (`terminate`, a wait, `kill`), and
so are the joins of a stream's threads (`join(5.0)`): `UnloadJob` and `Closed` are
fair. `Service` asks for the same, of the drain timer, and of the unwinding of a
cancelled request without a stream; a cancelled stream need never learn of it, as its
timeouts end it. It asks nothing of arrivals or of the signal. A stage's thread, a generation thread and a client that reads a stream are
not: nothing in the code bounds them. In `S3Cache` a replica's own steps are fair;
S3 and the disk answer or fail, and the lock has a timeout. In `StreamPipeline` the
loop, its timer, the joins and the reader of the streamer are fair; generation is
fair only once it is cancelled, as its stopping criteria are then met at the next
token, and sending to a client is not fair at all. In `LlamaServer` the threads run
and the startup deadline passes; the server is not fair.

What `stream` shows needs its exception: a generation that raises does not
call `streamer.end()`, and `stream_thread` then waits on the streamer's queue for
the life of the process (`transformers.py:240`; a daemon thread). The same run
shows that an error event may follow `[DONE]` when the timeout fires during the
final joins (`routes_chat.py:150-160`), which `EventsInOrder` states.

## 4. What is proved

Every leaf is checked by `tlapm`; no theorem depends on a bound. A safety property is
proved from an inductive invariant `IInv` (`Inv`, `ServiceInv`), whose parts are
described here because the property alone is seldom inductive.

* `LifecycleProofs`: `TypeCorrect`, `ReadyIsServable`, `FailureIsUnloaded`,
  `LeaksComeFromCancel`, `StoppingIsForGood`, `RegressComesFromCancel`,
  `StoppedStays`, for either
  engine. Whether a cancelled
  load may still write depends on where it is, what its thread does and what the
  lifespan has done. `IInv` therefore says for each place of the load task what
  may hold (`CreatedInv`, `StageInv`, `CancelledInv`, `FailedInv`, `ReturnedInv`),
  ties the lifespan to the state (`SpanInv`) and describes the loop's queue
  (`QueueInv`: no task twice, and the two waits that may be woken twice).
  `StoppedStays` needs the order of that queue: `CutShortInv` says that a load that
  was cancelled in a stage and has not resumed is the next to run.
* `CapacityProofs`: `TypeCorrect`, `PermitsAreConserved`, `WakeupsAreNotLost`,
  `HoldersAreBounded`, `QueueStaysExact`, `CapacityImplementsPool`, for any finite set
  of requests, any subset of streams and
  any positive limit. Counting is done with two lemmas about the cardinality of
  `In(...)` when one request moves and when several are granted at once; the
  effect of each kind of step on the pool is then one lemma. `QueueInv` describes the
  deque: it holds each request inside `acquire` once, and nobody still pending stands
  before one that has been granted. `CapacityImplementsPool` takes the steps one by one and shows each to be
  a step of `PermitPool` or a stutter: joining, leaving and granting at the head.
* `ServiceProofs`: every step of the service is one of `Lifecycle` or leaves its
  variables alone (`LifeStep`), and one of `Capacity` or a stutter
  (`ServiceImplementsCapacity`, with the manager's real life as `phase`). So the
  theorems of the two hold of the service: `ServiceLife`, `ServicePermits` and
  `TypeCorrect`. `ServiceInv` relates the two parts: a request that is on its way to an
  answer has found the manager ready, has a task, and is cancelled once the server has
  closed, whether it knows or not; an engine thread works for a request that runs or was cut short. From it
  `StartsWhenReady` (with its exception of a granted stream that is cancelled) and
  `UnloadMeetsOrphans`, for any requests and any limit.
* `S3CacheProofs`: `TypeCorrect`, `RevisionsAreNotBlended`, `WritersAreAlone`,
  `ResolvesToWhole`, and `InUseIsWhole`, for any number of
  replicas, revisions and files. The strengthening: a temporary directory holds
  nothing but its own revision and is left over only by one that failed (`TempInv`,
  which holds also after a disk has failed), and until then nobody who rebuilds a
  directory finds it whole.
* `StreamPipelineProofs`: `TypeCorrect`, `FinalFollowsAll`, `StopStaysBack`,
  `EventsStayInOrder`, for any amount of text, any hold-back and any place of a stop
  string. That the final event follows all the text is an argument by counting: the
  chunks the reader thread has posted are those the filter was given and those still in
  the queue (`TextInv`), and the marker that ends the queue comes after them
  (`QueueInv`). `FilterInv` and `SentInv` say what the filter has let out and what the
  client was sent at each place of the task.
* `QwenDownloadProofs`: `TypeCorrect`, `PublishedStaysApproved`, `ResumeStaysSound` and
  the action property `AloneStaysSound`, for any number of processes and of blocks. The
  idea of the strengthening is that a run no other overlaps knows how long the part file
  is and what is still to come (`KnowsInv`, `AloneInv`): the properties promise something
  of these only, and the rest of the invariant says what a file somebody has open may
  hold (`HandleInv`, `PartInv`, `MirrorInv`).
* `LlamaProofs`, about `RuntimeInstall`: `TypeCorrect`, `DestinationStaysWhole`,
  `RuntimeIsKept`, for
  any number of runs. A run extracts only an archive it has checked, so that what it
  has staged is whole once extracted (`StagingInv`),
  and what it has set aside came from the destination (`PreviousInv`).
* `LlamaProofs`, about `LlamaServer`: `ServerTypes`, `ServerIsKept`,
  `FailedLoadStaysClean`, `LoadedStaysServing`, `ServerImplementsEngine`. TLC visits every
  state of this module, which has no constant; the invariant `ServerInv` says why the
  properties hold. Unless the load was cancelled, its thread and the calls of `unload`
  follow one another, so that a server that is no longer attached has been seen by the
  call that detached it (`SerialInv`); a call that has seen a server ends with the server
  dead, or fails (`HeldInv`); and what load has set stays until somebody unloads it
  (`UntouchedInv`). For the refinement each action is shown to be one step of `EngineLife`
  or none: `Attach` publishes, `GetHealth` returns, and load fails where it refuses or
  where its own `unload` detaches the process.
* `StopFilterProofs`: `TypeCorrect`, `StreamTruncates`, `StreamMatchesGenerate`, for texts,
  chunks and stop strings of any length. `OpenInv` says what holds while no stop string has
  been seen: what was let out and what is held back are the text given so far, no stop
  string begins in what was let out, and once something was let out the rest is as long as
  the longest stop string but one character. So a stop string that began in what was let
  out would have been complete, and found, before. `StoppedInv` says what was
  shown when one has been found. With stop strings of one length, text that comes
  later completes none that begins earlier (`LaterTextIsCut`), so that the stream is cut
  where a completion is. The model finds stop strings by quantifiers and a minimum over
  positions, and the proofs need no induction over the text.
* `S3CacheProofs`, about `ManifestRules`: `BuiltIsValid`, `UploadedIsResolved`,
  `MarkedIsHit` and `TakenIsVerified`, for any names, bytes and manifests. They are facts
  about operators, not about behaviours, and no run evaluates them. `NameLaws`, their one
  hypothesis about the world, is what Python's `suffix`, `endswith` and `lower` do.

The assumptions are those of the modules (`CapacityAssumption`, `ServiceAssumption`,
`S3CacheAssumption`, `StreamAssumption`, `StopFilterAssumption`, `QwenAssumption`): the
constants have the types their comments say.

Only model-checked is liveness (`ShutdownCompletes`, `RequestsEnd`, `StopEnds`,
`ResolveEnds`, `StreamEnds`, `ThreadsEnd`, `CallsEnd`): it needs fairness, and with it
`ENABLED`, which the prover does not handle.

## 5. What is not modelled, and why

The contents of messages, tokens, hashes and logs: no property depends on them.
Pure I/O and declarations (schemas, logging, metrics output, diagnostics, command
lines). A host that is out of threads: abandoned threads could delay an unload.
The temporary directory of a killed process, which the code never sweeps.

The two middlewares, configuration, the read-only routes: they keep no state between
requests, and none of their steps interleaves with anything but its own request's.
That the size limit is the outermost middleware, so that its answers go without the
request context's headers (`main.py:67-68`), is a hazard left open. The llama.cpp
engine's requests, and the event stream of its server, are modelled only as requests of
`Capacity` and `Service`: their inside is the parsing of JSON.

Of uvicorn: a second signal, which skips the lifespan's shutdown, and the end of the
interpreter, which waits for the threads of the pool. In which order the loop resumes
a cancelled request and the lifespan is left open in `Service`, although the loop's
queue decides it: every order is allowed, and a cancelled waiter counts as pending until
it unwinds, so that it may still be granted a permit, which it then gives back.

Of the llama.cpp engine: another process on the port it has reserved, and a `/health`
answer that is JSON but no object.

## 6. Plan

The plan's modules are written: `Lifecycle`, `Capacity` with `PermitPool`, `S3Cache`,
`StreamPipeline`, `StopFilter`, `LlamaServer` with `EngineLife`, `Service`,
`QwenDownload`, `RuntimeInstall`, `ManifestRules`. Every safety property, action property
and refinement that a passing run checks is a theorem. What is left:

1. `EngineLife` and the thread actions of `Lifecycle` are matched by their definitions
   (`Publish` is `LoadPublishes`, `Return` and `Fail` are the ends of the load stage's job,
   `Clear` and `End` are `UnloadClears` and `UnloadEnds`); no theorem composes the two.
2. The liveness properties, where the prover's reach grows.
