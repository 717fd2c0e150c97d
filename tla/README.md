# Verification of OBS RVC

TLA+ models of the OBS RVC plugin and its worker process, the TLC
configurations that check them, and TLAPS proofs about them. Paths are relative
to the repository; `rvc-filter-conversion.cpp` and its neighbours are under
`plugin/src/rvc/filter/`, the Python modules under
`plugin-worker/src/plugin_worker/`.

## The system

An OBS audio filter hands the audio of a source to a separate Python process
that converts the voice, and plays what comes back. Two processes, many
threads:

| Part | State | Operations | Threads |
| --- | --- | --- | --- |
| Plugin module (`plugin-main.c`, `rvc-worker-process.cpp`) | worker process, IPC context, `g_ipc` | load, unload | OBS main thread |
| OBS filter (`rvc-filter.cpp`) | `configured`, its `ConversionWorker`, two mutexes | create, update, destroy, `filter_audio` | any OBS thread, the audio thread |
| Worker registry (`rvc-filter-conversion.cpp:25-27,148-174`) | `workers`, `workers_stopping`, `workers_mutex` | constructor, destructor, `stop_all` | those of the filters, main |
| `ConversionWorker` (rest of that file) | a monitor: two queues, format, generation, block durations, flags | `reset`, `submit`, `receive`, `stop`, `Impl::run` | audio, settings, its conversion thread |
| `AudioSampleQueue` (`rvc-filter-stream.cpp`) | a ring buffer | `append`, `copy_front`, `discard`, `clear` | under the monitor's mutex |
| `StreamAssembler` (same file) | `history`, `tail` | `window`, `stitch`, `reset` | conversion thread |
| IPC clients (`rvc/ipc`) | one connection per thread | `convert`, `configure`: send, poll, time out | conversion threads, settings |
| Worker main loop, endpoints (`main.py`, `endpoints/`) | `pending`, the thread pool | `process`, `complete`, `reply`, `close` | Python main thread, pool |
| `RVCInference` (`core/rvc/`) | models, locks, HuBERT models, errors, `vc_class`; `runtime` | `convert`, `reset`, `warmup` | pool, Python main thread |
| Streaming filters (`core/streaming/`) | previous windows and filter state | `resample`, `filter` | under the model's lock |

How they interact: for every callback the audio thread calls `submit` and then
`receive`. The conversion thread waits until a block and its look-ahead are
there and there is room for the result, takes a window, exchanges it with the
worker process (up to 60 s, 180 s for the first), splices the answer and
appends it if the *generation* of the stream is still the same. Saving settings
sends up to two configuration requests, which the worker's main thread handles
itself (it reconfigures, drops all models, and converts silence as a warm-up),
and then resets the `ConversionWorker`.

What is hard about it: everything that the conversion thread learned in one
critical section it uses many seconds later in another, while resets, format
changes, overflows and playback go on; requests that were given up are still
processed; settings replace models that are in use; the plugin is unloaded
while exchanges are running. `PROJECT.json` lists these hazards line by line
with the properties that cover them.

What makes each part correct:

* *ConversionWorker*: the queues stay bounded; nobody waits for somebody who
  waits for him; a wake-up is never lost; what is spliced was adjacent, or is
  announced as a discontinuity; nothing is copied beyond a buffer; stop returns.
* *AudioSampleQueue*: it is a FIFO queue.
* *The stream as a whole*: what is heard are the samples that were captured, in
  order, none of them twice, and no more skipped at once than a resampler may cut;
  nothing from before a discontinuity is heard after it; and no filter starts anew
  between two blocks unless something failed.
* *OBS filter*: the last save decides; inference leaves alone the threads that are
  reserved for OBS; no voice of older settings is played.
* *Worker service*: the pool is neither overrun nor leaks slots; requests are
  received in the end; shutting down waits for replies; `configured` is true.
* *RVCInference*: one thread per model and per HuBERT model; no mixture of
  objects from before and after a reset; an OK means that the model is there.
* *Lifecycle*: unloading ends and leaves nothing behind that still runs.

## Modules

Each module names the source's functions in its actions, and `PROJECT.json`
("map") gives the lines of every definition.

| Module | What it is |
| --- | --- |
| `StreamTiming` | Frame arithmetic: hop, window, what stitch needs, in exact integers |
| `ConversionWorker` | The monitor and `Impl::run`. One action per critical section, one per stretch of code between two of them |
| `ConversionPacing` | Composes `ConversionWorker` with time: callbacks are the clock, a conversion lasts a fixed overhead and a share of its block |
| `SampleFifo`, `AudioSampleQueue` | What a queue promises, and the ring buffer that implements it (`FifoOrder`, a refinement with `items <- Front(count)`) |
| `StreamAssembler` | `window` and `stitch`, and the resampler and filter of the worker process, as operators on sequences of positions |
| `HeardStream`, `VoiceStream` | What a listener is promised, and the way of a window through both processes that implements it (`HeardAsPromised`, a refinement) |
| `FilterSettings` | The arithmetic of settings: CPU counts, thread shares, durations, narrowing to 32 bits |
| `RvcFilter` | One filter: concurrent saves, the dialog, the two mutexes, the exchange, audio |
| `RvcInference` | Caches, locks, snapshots, conversions, reset, warm-up |
| `WorkerService` | Main loop, endpoints, pool, futures; clients with timeouts; settings with retries; closing |
| `PluginLifecycle` | Load, unload, registry, filters, worker process |
| `StreamTimingProofs`, `ConversionWorkerProofs`, `AudioSampleQueueProofs`, `VoiceStreamProofs`, `RvcFilterProofs`, `RvcInferenceProofs`, `WorkerServiceProofs`, `PluginLifecycleProofs` | The theorems |
| `MC*` | Instances for TLC |

Operators commented "Mutant" are wrong variants of the definition that follows
them. Replacing one by the other must break the property that `PROJECT.json`
("mutants") pairs with it; nothing else refers to them.

### Correspondence and abstraction

* **ConversionWorker.** Variables have the names of `Impl`'s members. `input`
  and `output` are counts, in frames and in samples; values of samples do not
  matter to any property. `playback_gain` is a Boolean: is there any gain?
  `thread` is where `Impl::run` is: `ready` (about to check the predicate),
  `blocked`, `convert` (from the capture to the answer), `commit`, `pace` (after
  the append, before the growth), `done`. `captured` holds its locals. `audio`
  and `callback` are the audio thread between `submit` and the end of `receive`.
  `notify_one` wakes a blocked thread and is lost otherwise; spurious wake-ups
  are allowed. `gap`, `tail_of` and `partner` are ghosts: has audio been lost
  between the assembler's history and the front of `input`; which block did the
  tail come from; and which one was it faded into. The action `GrowBlock` may
  happen after any conversion that was not the first, since here there is no
  time. `reset` may run between any two steps, more freely than `RvcFilterData::mutex`
  allows. A callback whose planes are missing changes nothing and is left out.
* **ConversionPacing.** Each step is a step of `ConversionWorker`, which fixes when it
  happens. One format, one reset, no stop. The size of an answer follows the code: the
  window at 16 kHz, whole network frames of 10 ms less those that the network falls
  short (`Missing`), the rate of the answer (`resample_sr`, the rate of the input, or
  that of the model), then what `decode_to_input_format` makes of it.
* **AudioSampleQueue.** Index for index, with `storage[i]` at `i + 1`. `Front` is
  the two `memcpy`s that `copy_front` and `ensure_capacity` share.
* **StreamAssembler, VoiceStream.** A sample is its position in the source's audio:
  filters and models change how it sounds and delay it, but not which moment it
  is of. Equal content is then equal positions, on which `detected_overlap` and
  the correlation in `stitch` decide; where the tail is found nowhere the model
  allows any shift. `Silence` is what pads a first history, `Mixed` a sample in
  which two positions are heard at once, which the cross-fade of unequal ones
  gives. The resampler's library (soxr, at the quality `"HQ"` of
  `streaming_resampler.py:23,36`) returns at each call what it has finished; in the
  model it keeps back any amount up to a bound (`Lags`), another one at each call. A
  result that is too short is padded, and one that is too long, because the library
  kept back more at the call before, is cut: what is cut is in no later result. The
  network's result ends before its window does (`Shortfalls`, the `min` of
  `rvc_inference_streaming.py:137`); an answer that is too short to stitch fails. What
  `infer_window` states as the overlap of its output, 40 ms, is less than the 100 ms by
  which windows overlap, and the model has that too. `Serve` takes any request that
  was sent, awaited or given up, in any order, and may raise before or after the
  stream of the worker process has moved. It is one step because it has the stream
  for itself: its lock is that of the model. Only a reset breaks that, as `convert`
  takes its lock from the table (`rvc_inference.py:154`) before it waits for it and
  the model after: a request that a reset has overtaken (`overtaken`) and another one
  of its generation may be at one stream at once. `Tangle` is that: whichever of
  them ends, its answer, if any, is a window of which nothing is known, and so is
  the stream until it is dropped. `Forget` is a reset by settings of any filter and
  an eviction by other streams. The monitor's queues are in `ConversionWorker`; here
  they are the position at the front of `input`.
* **RvcFilter.** `obs_data_t` is shared by OBS, the dialog and every update.
  What happens under `data.mutex` without a call that waits is one step;
  `ReadDurations` and `Configured` are the two ends of the longer section. `LockUpdate`
  takes `update_mutex` and the paths, `Validate` checks them, and OBS may write a save
  between the two. `local` holds the locals of an update. The paths that
  `rvc_filter_update` takes from the settings are pointers into them: once a save has
  replaced the string, `Configured` may read either. `runtime` is what the worker
  process has been configured with. Torch is set up from it only at the first
  conversion after a reset, and from the snapshot of that conversion:
  `TakeSnapshot` is its line 60 of `rvc_inference.py` and `EnterLock` lines 77-94, so
  that settings, resizes and other conversions, of any filter, may come between; a
  warm-up does both within the exchange (`Handled`), or fails first (`HandledCold`). `asked` and `overtaken` are
  ghosts: what OBS saved last, and whether it did so while an update was between
  reading the durations and writing them back. The machine may gain or lose
  CPUs at any time (affinity and quotas are read anew for each count). Left out: the
  voice parameters, which are passed on, and `gpu_accelerated`.
* **RvcInference.** A model's streams are an ordered dictionary: `Touched` moves one
  to the end and drops the oldest beyond the bound, `Without` removes one. A critical section of `self.lock` is one step, as nobody sees
  the middle of one. A `VC` is its path and the number of resets before it was
  loaded; Python keeps it alive for the threads that use it. Inference begins,
  uses HuBERT, and ends, or raises anywhere. Checks of files that may fail are
  nondeterministic. `indices` is left out: it is filled and emptied under the
  same lock and holds immutable data.
* **WorkerService.** A future goes through `submitted`, `running`, `replied`, and then
  `completing` if its callback was registered in time, else `done`. Requests are
  delivered in order, also those whose client gave up.
* **PluginLifecycle.** Of a worker's thread only `waiting`, `exchanging` and `done`
  matter. Workers are constructed and destroyed once. The exchange of an
  update is an interval without a claim about the context (see Limits).

## Runs

All runs but the four marked expect no error. Sizes are distinct states.

| Run | Config | States | What it shows |
| --- | --- | --- | --- |
| `worker_safety` | `ConversionWorkerSafety` | 473 k | The safety properties of the worker, with a request buffer that clamps the hop of one format and not of the other; and that a stop returns (`StopJoins`) |
| `worker_growth` | `ConversionWorkerGrowth` | | **violated**: growth after a reset |
| `pacing_moderate` | `PacingModerate` | 427 | Slow conversions make the block grow, and audio goes on |
| `pacing_slow` | `PacingSlow` | | **violated**: very slow ones never make it grow |
| `pacing_large` | `PacingLarge` | | **violated**: large blocks get answers that are refused |
| `stream` | `VoiceStream` | 538 k | What is heard is what was captured, where it belongs, whatever fails, comes late, is cut or falls short |
| `filter` | `RvcFilter` | 2.08 M | Two threads that save, the dialog, audio and conversions with old snapshots at once: the last save decides, no older voice is heard, edits fit, the reserve is kept |
| `queue_fifo` | `AudioSampleQueue` | 41 k | `FifoOrder`, and that the ring is well formed |
| `inference` | `RvcInference` | 1.24 M | Locks, resets, warm-up |
| `inference_settings` | `RvcInferenceSettings` | | **violated**: settings that do not take effect |
| `service` | `WorkerService` | 283 k | Pool, slots, closing, `configured`; requests are received in the end |
| `lifecycle` | `PluginLifecycle` | 33 k | Unloading is safe, and it ends |

### Bounds, and why they are enough

* *Generations* are 3 in `worker_safety`, 4 in `worker_growth` and 16 in the pacing
  runs, and wrap around. A guard keeps a generation from being used again while a conversion
  or a callback still compares with it: 2^64 bumps do not happen during one
  conversion. At most two are compared at any time, and one call makes at most
  two new ones.
* *Durations, rates and callbacks* are multiples chosen so that a block is a few
  callbacks long, that growth by 250 ms reaches the maximum in few steps, and
  that two formats differ in rate and channels. The theorems cover all others.
* `MaxInputBytes` is the real 786432, except in `worker_safety`, where 19200 clamps
  every block at 48 kHz, but at 16 kHz only the longest, 750 ms:
  the same properties hold with and without the clamp, and across a change
  from one to the other. That nothing depends on the number is proved.
* *Queue*: capacity 1 at first, at most 4 samples: rings of 1, 2 and 4 are expanded
  wrapped and unwrapped, and requests of 0, 1, 2 and 20 lie on both sides of
  what there is.
* *Stream*: a sample is 10 ms, so that all constants of the code keep their proportion:
  context 40 ms, look-ahead 60, cross-fade 30, search 10, blocks of 250 and 500. Two generations
  are one discontinuity between any two steps; three windows are one that fails or
  comes late, one that is tangled with it or follows it, and one after them. The
  resamplers hold back nothing, or up to 20 ms of the input and 10 ms of the output, anew at
  each call. The network lacks 20 ms, after which an answer is just long enough, or 30, after which
  it is not. The theorems have any of these. The signal does not repeat itself: in a
  periodic one content does not determine the position, and a search may find an
  earlier period.
* *Filter*: two threads save any of three settings (two valid ones out of range in
  different ways, one invalid), 2 or 8 CPUs, three saves and edits in all
  (`MaxSaves`), an edit to 7 threads. The two threads are interchangeable, hence the symmetry.
  Conversions wait with one snapshot at a time (`MaxSnapshots`), which may be older than
  any of the settings; a second one would compete for the same lock. States that differ
  only in what torch was set up with count as one, since no action looks at it (`Seen`,
  which keeps `ReserveIsKept` apart).
  `HalfRange` is 8192 since TLC cannot compute with 2^32; the theorems hold for every
  range beyond 2000.
* *Pacing*: the network lacks 0, 1 or 2 frames of 10 ms; in `pacing_large` it lacks two,
  the shortest answer that can be of use, and that is refused already.
* *Inference*: two pool threads and the main thread, two models that share a
  HuBERT model, two resets: a thread may hold something from before both. Two streams per
  model stand for 16, with three in use.
* *Service*: two clients and three requests for two pool threads, so that requests
  that were given up can fill the pool while the next one waits. Two saves make
  a late answer to the first meet the second.
* *Lifecycle*: one filter each under construction, registered and being
  destroyed during an unload.

### Fairness

* `ConversionWorker`: weak fairness of the conversion thread (an exchange ends by
  its timeout) and of a stop that has begun. Nothing of audio or settings.
* `ConversionPacing`: weak fairness of everything, that is: callbacks keep coming
  while OBS plays, and the worker process answers.
* `WorkerService`: weak fairness of the main thread and of each pool thread
  (a conversion ends). Clients may stop, give up or send at any time; as
  requests are received in order and only the main thread takes slots, nothing
  stronger is needed.
* `PluginLifecycle`: weak fairness of the unload, of callbacks that were called, and of
  the conversion threads. Weak is enough for the mutex because a filter takes
  it a bounded number of times.

Deadlock checking is off where the system may come to rest: once the service or
the module has ended.

## What the runs found

1. **A reset can start with a grown block.** (`worker_growth`) The growth at
   `rvc-filter-conversion.cpp:429-435` does not compare the generation, unlike
   the append at 402.
2. **A conversion that takes more than about two blocks never makes the block grow.**
   (`pacing_slow`) The input overflows meanwhile, which makes a new generation, so
   the block is dropped at line 404, before line 429. The source is silent,
   although a longer block would keep up.
3. **Blocks of more than about 4 s at 48 kHz are never heard.** (`pacing_large`)
   `rvc_endpoint.py:94` measures float32 samples against a buffer for 16-bit ones.
   Below 4 s none is refused for its size, unless `resample_sr` or the model asks for
   more than 48 kHz (`BlocksBelowFourSecondsAreAnswered`).
4. **An OK for settings does not mean that they are used.** (`inference_settings`)
   A snapshot from before a reset (`rvc_inference.py:60`) may fill the caches
   after it, and the warm-up reuses what it finds. Inference then leaves alone the threads
   that the older settings reserve, not the newer ones: that is all `ReserveIsKept` says.

Some observations contradict nothing the repository says, but are worth knowing.

* After a failure, a late answer, an eviction or other settings the two processes have
  seen different windows, and every seam up to the next generation may stumble
  within the cross-fade; `HeardAsPromised` says that it is never more than that, unless
  two conversions were at the stream at once.
* When the input resampler holds back less than at the call before, its result is cut,
  and the stream skips what was cut (`streaming_resampler.py:47-48`). `HeardStream`'s
  `slack` is what such a skip may be.
* The search of 10 ms absorbs an output that is late by up to 10 ms, not 20.
* A block whose length is not a multiple of 10 ms, from an edited profile, loses the
  rest of its last network frame too. At 261 ms and 48 kHz every answer is too short
  to stitch once HuBERT falls two frames short.
* A save of the durations that OBS writes while an update is between reading and writing
  them (`rvc-filter.cpp:241-267`) is lost: the update of that save reads back the
  older ones. `LastSaveWins` excepts it by name.
* What the dialog writes into the shares while an update is between reading and
  writing them (`rvc-filter.cpp:210-217`) is lost as well.
* A path that the settings held when an update began may have been freed when it is used
  (`rvc-filter.cpp:187,250`); that this never decides what a configured filter converts
  with is `LastSaveWins`, since the save that replaced it is followed by its own update.

What holds is as telling: the trim to four hops at
`rvc-filter-conversion.cpp:406-408` is dead code (`OutputIsBounded`), and so
`output` never loses samples silently (`AudioIsConserved`); two conversions in one model at a time
are possible, but only across a reset (`InferencesAreSerial` says exactly when).

## Proofs

`tlapm` checks every leaf. Assumptions are the named ones about the constants,
which TLC evaluates in the runs: `MaxInputBytes` is a natural number; formats have positive
rate and channels; options have positive durations, the initial one at most the
maximum (`SavedDurationsInRange` proves that of what `rvc_filter_update` saves);
there are more generations than the two that one call may make; filters are not called "main" or "nobody"; the main thread
of the worker process is not one of its pool; a resampler never holds back more than the
look-ahead of 60 ms (the code asks the library for its quality `"HQ"`; how much that
is, is up to the library); a machine has 1 to 256 CPUs (`CpuCountInRange`
proves that of `available_cpu_count`); `PowersOfTwo` states of `^`, which the provers
do not know, that doubling n times makes more than n.

What is said of the order of samples in `VoiceStream` needs three more:

* `RateAssumption`: context and look-ahead are exactly a tenth of the rate, the
  overlap that the worker process looks for, as at 44100 and 48000, the rates that OBS offers.
  At 44110, say, the roundings differ by a sample, no overlap is ever found, and every
  window starts its filters anew. And there is a cross-fade of two samples at least.
* `LagsAssumption`: the output resampler holds back no more than the search, 10 ms,
  and both together less than the cross-fade and the search, 40 ms. The first half is
  as weak as it can be: TLC refutes `HeardAsPromised` for an output that holds back 20 ms.
  The second half is enough for the proof; TLC finds `HeardAsPromised` to hold for 40 and
  10 ms, and refutes it for 50 and 10.
* `BlocksAssumption`: a hop is no shorter than the look-ahead, as durations are clamped
  to 250 ms at least (`rvc-filter.cpp:241`).

Nothing is assumed about how much a resampler holds back from one call to the next, or
by how much the network's results fall short (`Shortfalls` is any set of numbers).

*`ConversionWorker`*, for all formats, callback sizes, options, buffer sizes and
numbers of generations. `TypeOK` is inductive but for the subtractions: `input - Hop`
is natural because the capture's guard says so, `output` because receive's does.
`NoLostWakeup` is inductive. The others need to know what becomes of a block between
its capture and its commit. `StreamInv` says it:

* `FlightMatches`: while the generation is the captured one, format and hop
  are those that were captured, and `output` holds at most one hop. Only `reset`
  and `submit` change these, and then the generation; `receive` only takes
  output; the thread grows the block, but never while one is in flight.
* `StaleIsAnnounced`, `LostIsAnnounced`: a new generation leaves `discontinuity`
  set until the next capture, which resets the assembler, and so does any tail
  whose block was dropped or cleared.
* `TailMatches`, `PlayingHasStarted`, `WholeBlocks`: what the tail, playback and
  the startup buffer look like as long as nothing happened to them.

From it follow `SeamlessSplice`, `TailFitsOverlap`, `OutputBounded` (each half of
`BuffersFit` or `BacklogsBounded`),
`NoFlowDeadlock` (the output before playback is empty or at least one whole block
of the initial size, and hops only grow), and, with arithmetic lemmas about
`conversion_frame_count`, `InputBounded` and `RequestFits`. `AudioIsConserved` is an action
property: while the generation stays, what enters and leaves the queues is exactly what
callbacks bring and play and what conversions take and append. That a bumped generation
differs from every one in use rests on the guard named above.

*`ConversionPacing`* implements `ConversionWorker` (`PacingIsAWorker`), so that all this holds
in time as well; and the worker process accepts every answer if it accepts the longest
that the longest block of any options can have, at the rate that is asked for
(`BlocksAreAnswered`). With the buffer of the build that is the case up to 3990 ms and 48 kHz
(`BlocksBelowFourSecondsAreAnswered`), where the longest answer holds its whole window.
The property is that of the violated run `pacing_large`: it depends on the options.

*`StreamTiming`*: `WindowFits` and `StitchNeedsLess`, with lemmas on integer division.

*`PluginLifecycle`*, for any finite set of filters. `TypeOK` includes who holds the
mutex. `LifecycleInv` has the order of the load, the exact registry, and
`StoppedBehind`: stop_all leaves only stopped workers behind it, and a worker
that registers later is stopped before anything can configure it.

*`AudioSampleQueue`*, for any initial capacity and any bursts: `WellFormed` (the head is
in the ring, the count at most its capacity) is kept by every call, and a mapping of
positions, `At`, says where the i-th sample in the queue lies. Each call then maps to
the same call of `SampleFifo`: discarding moves the head and drops a prefix;
appending without expansion writes behind the last sample; an expansion unwraps
the ring first. That some doubling is large enough, and which is the first,
rests on `PowersOfTwo` and on the well-foundedness of the naturals. So the refinement
`FifoOrder`, which the run shows for four samples, holds for all.

*`VoiceStream`*, for any rate, durations, lags and shortfalls: the operators of the stream
make sequences over a set S of samples out of sequences over S, with every index in
range and no result longer than it should be, if S has silence and mixed samples. Taken for
all samples that is `TypeOK`: an answer is never longer than its window, and may be
shorter, so that `ConversionFails` has something to do. Taken for the samples since the
generation began it is the step of `OwnSamples`: the assembler and the answer while the captured
generation is the current one, the requests and the stream of the worker process that
have its number, and what is heard, have no other samples. `NothingFromBefore` follows. It
has to say nothing of what an earlier generation left behind, which is how late requests
are harmless.

Which position is at which index is a second invariant on top of that. `Shapes` holds in
every state: every window is contiguous behind its context; the input resampler
remembers a window and a result that trails it by no more than it may hold back,
skips by no more than it may cut, and goes on; of the output resampler, which is told
the overlap and so may repeat anything, only sizes are known; an answer goes on behind
what the output may hold back, near the positions that its window has there; and
the tail is near the block it belongs to, as a window that fails takes its tail with it.
A tangled stream and its answer have no position at all. `TailAdjoins` follows,
whatever happens, and so does `VoiceStaysInPlace`, what `HeardStream` does not promise: a
stream may go on without a seam and still fall behind. A sample that is heard alone is one of
the answer, at an offset of the search; the answer is near its window, and its window
begins with the block. So no number of failures, cuts and pads adds up to a drift.
Only the first samples of a block, as many as the output may hold back, are left out,
since there the answer may repeat an older result.

`Wellness` holds while nothing disturbs the stream. Between two windows, the
stream of the worker process ends with what the next one will begin with (`Knows`), and
the tail is in it where the block ended that was heard (`HeardUpTo`). A capture turns
this into the same of the request; the worker process then finds the overlap, so both
resamplers repeat what they had and the filter continues (`WindowsContinue`). In the
answer the tail lies behind what the output held back *before* this window, whatever it
holds back after it, and not earlier, since the positions there are earlier ones (`Adjoins`).
That the answer was cut or falls short does not matter as long as it is long enough to
stitch (`LongEnough`), as both only take from its end. So the search finds just that offset, the
cross-fade mixes equal positions, and what is heard continues, with the skips of
the input resampler. In a disturbed stream `Shapes` still says that the block goes on behind
the cross-fade. Together that is the refinement `HeardAsPromised`, step by step: an append
is a start, a continuation, a stumble or a garbled block of `HeardStream`, a new
generation its restart, and all else a stutter or a disturbance.

*`RvcInference`*, for any number of threads, models and resets. `Types` says what each
local holds at each step. For `NothingOutlivesReset`, `Current` adds that no lock or
model is younger than `resets`, that what is in the caches is exactly as old, and
that what a thread holds is at least as old as when it was taken. A model and its
lock are then determined by a path and a count of resets, whence
`InferencesAreSerial`. For `WarmedUp`, `Ordered` and `Warm` follow the warm-up:
from the settings to the answer the configured model stays loaded, and lemmas on
`Without` and `Touched` show that the ordered dictionaries stay bounded and have a stream once at most.

*`WorkerService`*, for any sets of requests and clients and any pool: `Tidy` says
who is about to give back which slot: the callback, or the main thread until it has
registered one; `Slots`, that whatever is unfinished has a slot. `ConfiguredIsApplied`
rests on `Sent`: the attempt that an update waits for is the last in the queue, all
before it are older, and after an OK none is on its way.

*`FilterSettings`*, for every CPU count, quota, share and 64-bit value: ranges never
cross (`std::clamp` is undefined if they do), shares always fit the machine, the
worker process never counts fewer CPUs than the filter although it reads quotas by other
rules, and so keeps the promise that was made.

*`RvcFilter`*, for any threads, saves, edits, machines and snapshots. `Types` ties each mutex
to who is at work; `Requests` says that a request, the settings of the worker process, every
snapshot of them, and what torch was set up with fit the machine they were made for
(`ReserveIsKept`); `Blocks` that blocks of this generation have its options
(`VoiceFollowsSettings`); `LastSave` that, unless a save still waits for `update_mutex`, the
update at work has the model saved last, and with none at work a configured filter has
what was asked for last (`LastSaveWins`). That compares with `asked`, as OBS wrote it, and
not with `settings`, into which updates write.

`StreamInv`, `LifecycleInv`, `OwnSamples`, `Shapes`, `Wellness` and the type invariants of `RvcFilter` and `WorkerService` are
proved only: TLC found them to hold while they were written, and a run on a small
instance adds nothing to the proof.

Only model-checked: all liveness (`StopJoins`, `KeepsPlaying`,
`SlowConversionGrows`, `RequestsAreReceived`, `UnloadEnds`), which with
fairness and ENABLED is out of this prover's reach. Every other property of the passing runs is
a theorem. Facts by induction over data and about RECURSIVE operators cannot
be proved with the installed provers either; no module here needs them.

## Limits

Not modelled:

* Levels: what a sample's value is, cross-fade amplitudes, the scaling of a peak in
  `infer_window`, the neural networks, the index, the reading of audio and of
  model files. Positions cannot tell levels apart. Two of these keep state between
  windows that the models do not have: the pitch buffer of a stream, of which only what
  was written for this window is read; and the array that the high-pass filter
  keeps, which `infer_window` scales in place (`streaming_highpass_filter.py:35`, a
  hazard without a property).
* Thread counts per thread: `torch.set_num_threads` is taken to hold for the process.
* Connections of the audio client, one per thread and never removed
  (`rvc-audio-client.cpp:51`), and errors of the transport when one is opened.
  Thread identities and iceoryx2 are outside the repository.
* Freed memory: a pointer into the settings yields the old or the new string.
* Whether OBS may unload the module during an update (`g_ipc` is read twice without a
  lock) is for OBS to say; the models make no claim about that exchange.
* Description of widgets, validation of files, byte layouts, build and packaging
  (`PROJECT.json`, "components", says why for each).

External, and modelled by how the code uses them: OBS, iceoryx2, `ThreadPoolExecutor`.

## Plan

Done: the worker and its queue, the stream through both processes, the filter and its
settings, the worker process, the lifecycle, and the proofs of their safety. What is left, in the order of what it would add:

1. `AudioClient`: connections per thread, transport errors, INVALID_ARGUMENT.
2. Levels: a sample as a position and a gain, for the array that the high-pass
   filter shares with its caller (`streaming_highpass_filter.py:35`).
3. Several filters with one runtime: `RvcFilter` and `RvcInference` composed by the
   settings that all filters share.
