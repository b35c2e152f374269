# DShow OpenAL renderer: specifications, model checking, proofs

The repository is a DirectShow audio renderer (`COpenALFilter`) that plays
through OpenAL, together with the DirectShow base classes it is compiled with.
The renderer's own code is `src/OpenALAudioRenderer.cpp` and
`src/OpenALStream.cpp`. The base classes (`amfilter.cpp`, `renbase.cpp`,
`winutil.cpp`, ...) carry threads, locks, pools, clocks, queues, windows and
lists, whether this renderer instantiates them or only links them.

Contents: 1 inventory, 2 modules, 3 runs, 4 fairness, 5 proofs, 6 findings and
observations, 7 what is not modelled, 8 what is left.

## 1. Inventory

### Parts, their state and their operations

| Part | State | Operations |
|---|---|---|
| `COpenALFilter` | `m_State`, critical section `m_csFilter` | `Run`, `Pause`, `Stop` |
| `CAudioInputPin` (on `CBaseInputPin`) | `m_bFlushing`, `m_bRunTimeError`, `m_SampleProps`, `m_receiveMutex` | `Receive`, `BeginFlush`, `EndFlush`, `EndOfStream`, `CheckMediaType`, `SetMediaType`, `Inactive` |
| `CMixer` | `m_sample_queue` (no capacity), `m_samples_ready`, `m_request_samples`, `m_bStreaming`, `m_nBitsPerSample`, its own lock | `StartStreaming`, `StopStreaming`, `Receive`, `CopyWaveform`, `Mix`, `WaitForFrames` |
| `COpenALStream` | format, `m_run_thread`, ring of AL buffers, AL context and source, volume and balance | setters of the format, `StartDevice`, `StopDevice`, `SoundLoop`, `Destroy`, destructor, `put_Volume`, `put_Balance` and their inverses |
| `CBaseAllocator`, `CMemAllocator`, `CMediaSample` | `m_bCommitted`, `m_bDecommitInProgress`, `m_lFree`, `m_lWaiting`, semaphore, reference counts | `SetProperties`, `Commit`, `Decommit`, `GetBuffer`, `ReleaseBuffer`, `AddRef`, `Release` |
| `CBaseReferenceClock`, `CAMSchedule` | private time, ordered list of advise packets, event `m_ev`, `m_bAbort` | `AdviseTime`, `AdvisePeriodic`, `Unadvise`, `SetTimeDelta`, `AdviseThread`, destructor |
| `CBasePin` and heirs, enumerators | connection, media type, allocator, versions of pin and type lists | `Connect`, `ReceiveConnection`, `Disconnect`; `Next`, `Skip`, `Reset`, `Clone` |
| `COutputQueue` | list of samples and packets, batch, `m_hr`, flags of a flush, event, semaphore | `ReceiveMultiple`, `EOS`, `SendAnyway`, `NewSegment`, `BeginFlush`, `EndFlush`, `Reset`, `ThreadProc`, destructor |
| `CAMThread`, `CMsgThread` | the request posted, events; queue of messages, semaphore | `CallWorker`, `Reply`, `GetRequest`; `PutThreadMsg`, `GetThreadMsg` |
| `CSource`, `CSourceStream`; `CPullPin` | worker per pin, range and requests outstanding | `Pause`, `Run`, `Stop`, `Active`, `Inactive`, `Seek`, `DoBufferProcessingLoop`, `Process` |
| `CBaseRenderer`, `CBaseVideoRenderer` | state, pending sample, advise cookie, end-of-stream timer; statistics and throttle | `Receive`, `Run`, `Pause`, `Stop`, `SendEndOfStream`, `ShouldDrawSampleNow`, `Notify` |
| `CBaseStreamControl`, `CDynamicOutputPin` | start and stop times; state and users of the block | `StartAt`, `StopAt`, `CheckStreamState`; `Block`, `Unblock`, `StartUsingOutputPin` |
| `CTransformFilter`, `CTransInPlaceFilter`, `CVideoTransformFilter` | flags under two locks; allocators of both pins; lateness and key frames | `Receive`, `Stop`, flushes; `NotifyAllocator`, `CompleteConnect`; `ShouldSkipFrame`, `AlterQuality` |
| `CSourceSeeking`, `CPosPassThru`, `CCmdQueue` | start, stop and rate; media times; two lists of commands | `SetPositions`, `RegisterMediaTime`, `EOS`; `New`, `GetDueCommand`, `GetCommandDueFor` |
| `CBaseWindow`, `CImagePalette`, `CDrawImage`, `CBaseControlWindow`, `CBaseControlVideo` | window, palettes, place and owner of the window, source and target rectangle | message handlers, `PreparePalette`, `SetWindowPosition`, `put_*`, `GetCurrentImage` |
| `CUnknown`, class factory, registration | counts of references, objects and locks; registry and filter mapper | `AddRef`, `Release`, `LockServer`, `DllCanUnloadNow`, `AMovieDllRegisterServer2` |
| `CMediaType`, `CBaseList`, `llMulDiv` | format blocks; nodes and cache; none | constructors, `Set`, `AllocFormatBuffer`; `AddTail`, `Remove`, `MoveToTail`, ...; arithmetic |

### How they interact

* The upstream filter's *streaming thread* takes a sample from the allocator and
  calls `CAudioInputPin::Receive`, which under `m_receiveMutex` calls
  `CMixer::Receive`. That pushes the frames, raises `m_samples_ready` and waits
  until `m_request_samples` is up.
* The *sound thread* (`SoundLoop`) calls `CMixer::Mix`, which raises
  `m_request_samples`, waits until `m_samples_ready` is up, and pops. It fills
  the next AL buffer of the ring and queues it on the source; the *AL device*
  plays it.
* The *application thread* calls `Run`, `Pause`, `Stop`, which start and stop
  the mixer under the filter's lock; another thread calls `BeginFlush` and
  `EndFlush`, which wait for the receive lock and clear the mixer's queue; any
  thread puts the volume of the AL source.
* `SetMediaType` and `CheckMediaType` write frequency, layout and bitness
  straight into the live `COpenALStream` and `CMixer`, from any thread and
  without their locks.
* `COpenALStream` is also the reference clock: its clients put advise packets in
  the schedule, its *advise thread* sleeps until the first of them.
* In the base classes a *worker* (source, pulling pin, output queue, message
  thread, deferred commands) is handed requests, samples or messages and told to
  end by a thread that waits for it; a *streaming thread* waits inside a filter
  for a time, a buffer, a lock or an unblock, and control calls from elsewhere
  have to get it out; the *window thread* answers what other threads send it.

### What is hard here

* Receive and Mix wait for one another through two flags that are set outside
  the mutex of the thread that waits; a notification can come before its wait.
* Receive holds two locks while it waits for the sound thread, and Pause,
  BeginFlush and SetMediaType want those locks.
* The format is read several times per turn of `SoundLoop` and can change
  between any two reads; AL's refusals are only logged.
* The allocator's waiters, those of an output queue and of a message thread are
  counted under a lock and wait outside of it; a decommit with samples out is
  finished by whichever thread brings back the last one.
* The advise thread sleeps by one clock and is told its times by another, which
  its clients move while it sleeps. A renderer's advise, its end-of-stream timer
  and a deferred command fire while they are being cancelled.
* Enumerators, palettes, allocators of two pins, seeks: state that is read, used
  after its lock is given up, and meanwhile changed by someone else.
* Long runs of legal calls: statistics of late frames, key frames missed, lists
  spliced into one another, media types copied when memory is short.

The hazards are listed line by line in `PROJECT.json`, each with the properties
that would catch it going wrong.

### What makes each part correct

* Mixer: no mutual wait, no short buffer that nobody gave up on, a bounded
  queue, both calls return.
* Sound thread: never refill a queued buffer, never count below zero, play in
  order, keep playing, let the destructor finish. Volume: the one put last.
* Filter and pin: the mixer streams when and only when the filter runs, Pause
  leaves nothing in flight, no deadlock among the four threads, the mixer is
  used as it expects. Connection: both ends agree, a failure leaves nothing.
* Allocator: no lost wake-up, one owner per sample, the pool outlives what it
  has given out, a decommit unblocks.
* Clock: ordered list, no oversleeping, what is due is notified.
* Queues and workers: in order, nothing twice or lost unless it says so, a stop
  that leaves nothing behind and returns.
* Renderers and stream control: nothing early, the end after the last sample,
  the picture never frozen or wrongly put together, a wait that ends.
* What outlives a call (objects, palettes, nodes, format blocks, registry
  entries): as long as somebody uses it, and no longer.

## 2. Modules

The core:

| Module | Models |
|---|---|
| `Mixer` | `CMixer` |
| `AudioRenderer` | `COpenALFilter` and `CAudioInputPin` around an instance of `Mixer`, which it refines |
| `SoundLoop` | `COpenALStream`: sound thread, ring, destruction; the AL source and device as an external part |
| `Allocator` | `CBaseAllocator`, `CMemAllocator`, reference counts of `CMediaSample` |
| `Clock` | `CBaseReferenceClock`, `CAMSchedule` and its advise thread |
| `Connection` | `CBaseOutputPin` and `CAudioInputPin`: connecting, failing, disconnecting, and what the device is told meanwhile |
| `OutputQueue` | `COutputQueue` in its queued mode, with its thread; refines `Fifo`, what an output queue promises |
| `Registration` | `AMovieDllRegisterServer2` with its failures and repeats |

Threads of the base classes:

| Module | Models |
|---|---|
| `AMThread` | `CAMThread`, as operators on a record that the modules of its users share |
| `SourceStream` | `CSource`, `CSourceStream`: control calls and a worker per pin |
| `PullPin` | `CPullPin`: its worker, both ways of reading, two requests at a time |
| `MsgThread` | `CMsgThread` |
| `Renderer` | `CBaseRenderer` with its pin, clock, timer and streaming thread |
| `StreamControl` | `CBaseStreamControl` |
| `DynamicPin` | the block of `CDynamicOutputPin` |
| `Transform` | `CTransformFilter`: control calls, flushes and Receive with two locks |
| `Seeking` | `CSourceSeeking`, `CPosPassThru`, `CRendererPosPassThru` |
| `CmdQueue` | `CCmdQueue`, `CDeferredCommand` |

What filters, pins and windows keep:

| Module | Models |
|---|---|
| `BasicAudio` | volume, balance and supported formats of `COpenALStream` |
| `Enumerators` | `CEnumPins`, `CEnumMediaTypes` and the versions they compare |
| `MediaTypes` | `CMediaType` and the functions beside it: memory and references |
| `TransInPlace` | the allocators of `CTransInPlaceFilter` |
| `VideoTransform` | which frames `CVideoTransformFilter` skips |
| `VideoQuality` | which frames `CBaseVideoRenderer` draws, its throttle and statistics |
| `VideoWindow` | window thread, palettes and drawing of `winutil.cpp` |
| `WindowControl`, `VideoControl` | place of the window; source and target rectangle |
| `List`, `ListSpec` | `CBaseList` node by node; the sequences it stands for |
| `ObjectLife` | `CUnknown`, the class factory, when the library may go |
| `MulDiv` | `llMulDiv`, `Int64x32Div32` word by word, against exact arithmetic |

`MCSoundLoop`, `MCClasses` and `MCRenderer` give values to constants a `.cfg`
cannot write (records, negative numbers).

**Composites.** `MCWorkers` extends `Mixer`; `MCFilters` extends `MCClasses`,
which extends `Connection`; `MCClock` takes `Clock`, `Enumerators` and `List`,
the parts that keep something in the order of a list. Each takes instances of
modules of the tables above, `MCClasses` of those that everything else is built
from (`ObjectLife`, `MediaTypes`, `MulDiv`), so that they can be proved
about without the others. All names of `MCClock` have a prefix (`cl_...`), so that
one module can speak of the renderer and of the clock that advises it.
The parts of a composite share no state, so that a behaviour of them all is an
interleaving of behaviours of each, and no property relates two of them. The
variable `unit`, chosen at the start, says which part a behaviour is about; the
others stay in one initial state (`Rest`). All reachable states of every part
are thus visited, and not their product. The fairness of `MCWorkers` and `MCClock` is each
module's own, of the unit that acts. The constants of the parts are constants of
the composite, with a prefix; what the proofs assume of them are its named
assumptions (`SourceAssumption`, `PullAssumption`, ...), which TLC evaluates in
the run. `AudioRenderer` with `Mixer` is a composition of the other kind, of
parts that do interact.

**Proof modules.** `AudioRendererProofs`, `SoundLoopProofs`, `AllocatorProofs` and
`OutputQueueProofs` each extend the module of that name; `RendererProofs` extends
`Renderer` and `MCClock` and has the lemmas about lists and enumerators;
`WorkersProofs` extends `MCWorkers`. `ConnectionProofs` extends `MCClasses` and has
the theorems on the connection with the lemmas about objects, media types and
arithmetic; `FiltersProofs` extends it and
`MCFilters`, has the lemmas about the rest, and puts the units together. They are
the subject of section 5.

**Faulty variants.** Each module contains, next to some definitions, a variant
marked *Faulty*: a plausible bug in that piece of code. It is part of no
specification; put in place of the definition it makes the property named in
`PROJECT.json` fail, which shows that the property depends on that code. A
property that joins several modules has one variant named in `PROJECT.json`;
the other modules' variants break the conjunct of their module.

### The core

**Mixer.** The streaming thread's place is `rpc`: `copy` is the push loop of
`CopyWaveform`, `signal` the store to `m_samples_ready`, `await` the wait for a
request, `take` the store that resets it. The sound thread's place is `mpc`:
`check` the size test of `Mix`, `request` the store to `m_request_samples`,
`enter`/`wait`/`test`/`take` the body of `WaitForFrames`, `pop` the pop loop.
Every access to a shared member is a step of its own. The queue counts whole
frames: `CopyWaveform` cuts a sample to whole frames and `Mix` asks for whole
frames. A frame carries the tag of its sample. `m_nBitsPerSample` has no
initializer in the code, so Init takes any value. A time-out of either
`wait_for` only makes the loop look again, so it needs no step: looking again is
always possible. The vector `samples` keeps what an earlier call left in it, as
the caller's vector does.

**AudioRenderer.** The locks are variables (`lockF`: filter, `lockR`:
`m_receiveMutex`); the mixer's own lock is held exactly while a
`Mixer!Receive` is in progress. `Check` is what happens between the base class's
`Receive` and the mixer: the state test, the flush test whose `S_FALSE` is let
through, the run-time error, the sample's properties, the type change that may
be refused. `Run` from Stopped passes through Paused as `CBaseFilter::Run`
does; `Stop` of a running filter passes through `Pause`. The source commits the
allocator before it can have a sample (external).

The abstract specification here is `Mixer`: it states under which use the
hand-over is right (nobody clears the queue or writes the bitness while a
Receive is in progress). `AudioRenderer` uses the unguarded steps
(`M!PopOne`, `M!WriteBits`) and has to show, with its locks, that each of its
steps is a step of `M!Spec` or a stutter: property `MixerSpec`, checked and
proved.

**SoundLoop.** One step per read of the format, per AL call that matters and per
store: `check` compares with `past_*`, `measure` computes `frames_per_buffer`,
`record` writes `past_*`, `fill` is `palBufferData` with the format of that
instant, `queue` is `palSourceQueueBuffers`. AL's part is modelled by its rules:
a queued buffer cannot be refilled, a buffer whose format differs from the
queue's is refused, a source that is played again starts at the head of its
queue, a call without a context does nothing. The mixer appears as `streaming`
and as "Mix reports the frames asked for"; that Mix returns is `Mixer`'s
`MixReturnsAfterStop`, or a source that delivers. `num_buffers_queued` is a
member and survives a stop of the device; the other locals are set before use.

**Allocator.** One step per critical section; separate steps for what the code
does outside of one: the wait for the semaphore, the last `Release` of a sample
before `ReleaseBuffer` enters the lock, the read of `m_pNotify` and the final
`Release` of the allocator after it has left. The free list is a set. A
no-wait call counts itself as a waiter and leaves, as in the code. `Commit` may
fail with some samples made.

**Clock.** Private time is counted in half milliseconds, so that the code's
thresholds of 1 ms (`Advise`) and 0.5 ms (`SetTimeDelta`) are 2 and 1; system
time in ms. `skew` stands for the difference between `m_rtPrivateTime` and
`m_dwPrevSystemTime`, which `GetPrivateTime` leaves alone. `Advise` holds
`m_Serialize` throughout, so the list does not move while the thread fires
packets, but the clock may. `late` is a history variable: what the clock was
moved ahead without waking the thread, and what the thread itself took.

**Connection.** The graph's thread is at `gpc`: `next` between two attempts of
`TryMediaTypes`, `receive` and `set` inside the input pin's `ReceiveConnection`
(the first check of the type, then `SetMediaType` with the second), `complete`
in the output pin's `DecideAllocator`, `undo` before `AttemptConnection` gives
up, `half` between the two calls of `Disconnect`. `spc` is the streaming thread
with a sample of a new type, `check[t]` how far thread `t` has got with the three
stores of `CheckOpenALMediaType`, which take no lock, so that three threads may
be there at once. A type is a record of frequency, layout and bitness; a value
the switches of the check have no case for (five channels, or the tag
`WAVE_FORMAT_IEEE_FLOAT`) is `Unknown` and leaves a local uninitialized, which
passes for any supported value or for none. `refs` counts the references of the
two pins to each allocator, without those `DecideAllocator` takes and gives back
itself; the intermediate steps of `DecideAllocator` are not seen by another
thread. That the graph calls one method at a time and disconnects both ends of
stopped filters is the manager's part (external). `asked` is a history variable:
somebody began a check after the last `SetMediaType` did.

**OutputQueue.** Three program counters: `tpc` of the queue's thread (`loop` is
its inner loop, with the lock held; `receiving` is the call downstream), `cpc` of
whoever flushes, resets and destroys, `spc` of the streaming thread between
`NewSegment`'s test of `m_hr` and its lock. Other critical sections are single
steps, excluded while the thread is in its loop. What the code does without the
lock is a step of its own: the test of `m_hr` before a batch is sent,
RESET_PACKET's store to `m_hr` and its `SetEvent`, the stores of `EndFlush` after
its wait, the calls downstream. Whether batches are exact and flushes are
optimized is chosen in Init. `Fifo` is the abstract specification; `pending` is
mapped to the batch taken, the packet, the batch and the list. Two promises of
the caller are built in: control calls do not overlap, and no data arrives during
`EndFlush`, as the code's comments ask. `early` is a history variable: a `Reset`
has returned before its packet was handled, see section 6.

**Registration.** One step per server and per filter of the loop, with the
number of registry values written (`server`, in the order of the five writes)
and the filter in the mapper (`bare` while the older mapper has not been told of
all its pins). A write that fails, a process that is killed and a call made
again are steps like the others; so is `EliminateSubKey` for a user who may not
delete a key, which goes unreported or, for a key below another, on for ever.
Registering a filter has four outcomes, for one of which the mapper answers "file
not found": the code takes that for success, also when registering, and the loop
goes on. `excused` is a history variable: the filters left out that way.

### Threads of the base classes

**AMThread.** `Called`, `Requested`, `Replied`, `Returned` are the two halves of
`CallWorker` and the worker's side, on a record with the two events, the
parameter and the result. `m_AccessLock` lets one client in at a time, which the
using modules get by having one control thread.

**SourceStream.** `cpc` is how far `Pause`, `Run` or `Stop` has got with the pin
`pin`: commit, create, init, pause or, the other way, decommit, stop, exit,
close; one step per request posted and per answer. `wpc` is each worker: init,
wait for a command, look for one in the loop, wait for a buffer, fill, deliver,
exit. `Commit`, the creation of the thread and its initialisation may fail.

**PullPin.** `cpc` and `wpc` as before; `requests` is what the reader has been
asked for, `InUse` the buffers not yet back. The reader answers in the order it
was asked and aligned as it is asked (external); a downstream filter may refuse,
keep or be slow. `ended` says how the worker left a range, so that the end of
the stream can be told from an error.

**MsgThread.** `PutThreadMsg` is one section under the lock; `GetNothing` counts
the thread in, `Wake` is its wait outside of the lock. `put` and `handled` are
histories.

**Renderer.** The control thread's `cpc` says how far a call has got where
another thread can look in between; `rpc` is the streaming thread inside
`Receive` (check, first preparation, ready, wait, fired, final section), `tpc`
the timer's callback. `advises` are the links the clock holds; signalling one is
a step of the clock. `overtaken` is a history variable: control calls came
between the end of a wait and the section that renders (see observations).

**StreamControl.** Every method takes `m_CritSec` for the length of its step, so
each is one; `CheckStreamState` takes it only for `CheckSampleTimes` and is cut
at every point where it looks without it. Times run from 0 to `Never`.

**DynamicPin.** `block`, `notify`, `caller` and the two events as in the code;
`event[c]` is a caller's own event, `granted` a history of who was told that the
pin is his. Streaming threads nest as often as there are streams.

**Transform.** Control calls (`cpc`) hold `m_csFilter`, a Receive in progress
(`rpc`) `m_csReceive`. The filter downstream keeps up to `cBuffers` buffers and
gives them back while it runs; it is stopped or flushed before this one, as the
graph does.

**Seeking.** A seek stores its times under the lock (`SetPositions`), and then
owes `ChangeStart` and `ChangeStop`, in `caller`; `ChangeStart` flushes, stops
the derived source's thread and starts it again from `m_rtStart`, in the steps
`BeginFlush` and `EndFlush`. `Receive`, `EndOfStream` and `EOS` are the streaming
thread in the renderer.

**CmdQueue.** `lists` are the two lists, ordered by time; `cmd` the commands with
time, kind and references; `due` is `m_evDue`, `advised` the time the clock was
asked to set it for. The worker takes a command in `GetDueCommand` and invokes it
without the queue's lock; the other way is the streaming thread's
`GetCommandDueFor`. `INFINITE` says whether the worker waits without a time-out.

### What filters, pins and windows keep

**BasicAudio.** The steps of `put_Volume` on one side, of the start of the sound
thread on the other; a gain is written as the volume it comes from. `raced` is a
history variable: two calls overlapped, or one overlapped the making of the
source. `FormatString`, `GetFrameSize` and the tables of supported layouts and
bitnesses are compared with what AL takes for each format (external).

**Enumerators.** A filter changes its list, then its version, in two steps, at
any moment; the enumerator reads version and count in two steps as well, and
every fetch of a pin is a step. `given` and `skipped` are histories.

**MediaTypes.** `heap` are the blocks of memory, `type` the structures; every
allocation may fail. `lost` counts what the failed copies of a type with `pUnk`
leave short, and is bounded (see observations).

**TransInPlace.** A connection or reconnection is one step; its outcome is any
member of the set the neighbours' preferences and the code leave possible.

**VideoTransform, VideoQuality.** One step per frame, with the code's integer
arithmetic (shifts and truncating quotients included). `VideoQuality` counts in
tenths of a millisecond, 1000 of the code's units, so that each of its constants is
a whole number of them: `m_trLastDraw` is reset to -1000 units, one tenth. In
`VideoTransform` a frame is one for its duration. The clock advances by any of a
few amounts between frames. Whether the supplier takes quality messages
(`m_bSupplierHandlingQuality`, its answer to the last one) is chosen frame by frame.
`hole` and `awaited`, `shownAt`, `dropped` and `accuracies` are histories.

**VideoWindow.** Three threads: the window's, which takes messages from `inbox`,
the streaming thread, which prepares palettes and draws, and the application's.
A thread that has sent a message waits for the answer, perhaps with a lock.
Palettes are members of GDI's `live` ones until deleted. `NobodyStuck` says of each
place where a thread may be what it needs to go on (`CanGoOn`), the guards of the
actions, and not ENABLED, so that it can be proved.

**WindowControl, VideoControl.** One step per call of Windows. A `LONG` has twice
`Half` values and wraps (`VideoControl`); the screen and the parent have different
origins (`WindowControl`). `asked` is what the application asked for last.

**List.** The state is a heap of nodes, and each method a function from heap to
heap, pointer by pointer, with memory that may run out; `ListSpec` speaks of
sequences of objects. `objects` is the refinement mapping. Walks along a chain and
the loops that copy a list are recursive functions, and what a sequence becomes
(`Inserted`, `Without`, `Reversed`) is told position by position, so that proofs can
speak of both; `CmdQueue` and `MediaTypes` are written like that for the same reason.

**ObjectLife.** Threads pass interfaces on and release them in any order; the
decrement, the deletion at zero, the reference the destructor may take, and the
two halves of `m_cLocked++` and of the factory's `++m_cRef` are steps of their own.
Each thread asks for a factory of its own and keeps it: no interlock guards
`++m_cRef` (see observations), and what follows when threads pass a factory on is
not modelled.

**MulDiv.** Words of `Width` bits, a `LONGLONG` of two of them; carries, signs,
the shifts of the long division as in the code. One call per behaviour, with
every argument. 2 to the `Width` is a recursive function (`Power`), which a proof
can unfold.

## 3. Runs

| Run | Bounds | States | Shows |
|---|---|---|---|
| `audio_renderer` | 1 frame per buffer, samples of 0..1 frame | 104,875 | four threads and three locks: `StreamsAsTold`, `MixerSpec` (refinement), `CallsReturn`; no deadlock |
| `sound_loop` | ring of 3, 2 formats | 125,876 | the ring under format changes at any instant: `RingSafe`, `SoundComesOut`, `DestructorReturns` |
| `allocator` | 3 threads, up to 2 samples, 2 references each | 131,250 | `NoLostWakeup`, `PoolSafe`, `ReallocWhenFree`, `DecommitUnblocks` |
| `clock` | 2 advise calls at 2 times, one period, deltas -2, 1, 2; lists see below | 547,591 | clock and lists: `ScheduleKept`, `ListsSound`, `InListOrder` (refinement), `Notified`, `DestructorReturns` |
| `output_queue` | batches of 2, 3 items, a caller that holds back at 2 entries | 676,374 | with and without exact batches and the flushing optimization: `QueueAwake`, `FifoSpec` (refinement), `EndFlushReturns` |
| `renderer` | 5 kinds of samples, times 0..2, delivery wait of 2, 2 cookies | 381,956 | `PauseIsWhole`, `NeverEarly`, `CompleteAfterLast`, `CallsReturn` |
| `workers` | see below | 65,753 | everything that waits for something else: `NoMutualWait`, `QueueSound`, `StoppedIsQuiet`, `HandedOverInOrder`, `BlockValid`, `SeekSettles`, `DueIsDone`, `CallsReturn`, `StreamingGetsOn` |
| `filters` | see below | 684,947 | everything that is kept: `ConnectionWhole`, `DeviceConfigured`, `DeviceSound`, `WindowSound`, `GeometrySound`, `PictureSound`, `ObjectsLast`, `ArithmeticExact`, `DoneInTime` |
| `flush_rejects`, `blocks_only_when_full`, `live_to_the_end`, `device_follows_type` | as the run of the same module, of the connection only in the last (`PinSpec`) | | the disagreements of section 6; each ends in a violation |

Properties that join several invariants of one part (`QueueSound`, `RingSafe`,
`StreamsAsTold`, `PoolSafe`, `ScheduleKept`, `ConnectionWhole`, `QueueAwake`,
`PauseIsWhole`) include its type invariant.

Why the bounds are enough to be interesting:

* Mixer, in `workers`: a buffer of 2 frames and samples shorter, equal and with a
  remainder reach every branch: an empty sample, one that fills no buffer,
  several for one buffer, a surplus that stays. The bound of the queue is
  reached: its right-hand side less one is violated.
* With a ring of 3 a turn of the ring, a gap left by a refused buffer and a
  queued remainder coexist. The proofs cover every other size.
* Three allocator threads give two waiters and one thread that releases, or a
  no-wait caller among them; two samples give "some out, some free".
* Two packets are enough for ties, overtaking in the list and a periodic packet
  put back behind a later one. `MaxSys` and `MaxNow` stop the clock from being
  set for ever; time itself goes on while a packet is overdue, so that no late
  notification hides behind the bound. `MaxWait = 20` lies beyond every time.
* Batches of 2 leave an incomplete batch with the thread, a call may bring more
  than the batch lacks, and three items outlast a flush or a failure. SEND and
  RESET packets are not counted as items.
* Renderer: a sample due at once, one due later, one without times, one that ends
  before it starts, one of a refused type. With 2 cookies an advise that was
  cancelled and a new one differ. With a delivery wait of 2 an end of 1 is reported
  at once and one of 2 waits for the timer. Time is the same for clock and timer, so
  a callback never finds the end still far away and sets no timer again.
* Two pins of a source and two failures: the second pin fails after the first has
  started. A range of two buffers and a buffer's surplus: two requests are
  outstanding, and the last is cut. Three messages, the last of which ends the
  thread. Three callers and one stream of a dynamic pin: one blocks, one
  cancels, one comes too late. Two seeks of two callers, one clock change, one
  command in `workers`, two in `filters` (for their order).
* Connection: two types that the device takes, one with an unsupported bitness,
  one with an unknown number of channels, one with an unknown bitness, and one
  that is not audio; the list the output pin offers has two of them refused in
  different places before one is accepted.
* Lists of 3 nodes in two lists with caches of 1: a node goes to a full cache, a
  splice empties a list. Enumerators of 2 items with 2 versions: the list grows
  and shrinks under an enumerator, and again. Rectangles in 3-bit numbers: every
  sum that can overflow does. Products of 2-bit words: all carries and signs,
  and every value of every argument.
* Two media types in 3 blocks of memory: each may have its old and its new block
  at once. Three templates, one of them no filter.
* The quality run has frames of 40 ms, jumps of 60 and 600 ms, draws of 1 and of
  200 ms, and 4 frames after each start: several dropped in a row, and a throttle.

Deadlock is checked in `audio_renderer`. In `sound_loop`, `allocator`, `clock`
and parts of the composites the system really ends: the object is destroyed, all
references are gone, the thread has been joined. In the others nothing need ever
be called again.

## 4. Fairness

* Sound thread, advise thread, workers, streaming threads inside a call: weak
  fairness, a thread that can go on does. Both waits of the mixer end at a
  time-out, so a thread in one is never asleep for good.
* Locks: strong fairness of the steps that take a lock others take again and
  again (`AudioRenderer`; `Goes` of `Transform`; `BeginFlush` of `Seeking`; the
  sections of `Renderer`). Windows critical sections and `std::mutex` do not
  promise this formally; without it no lock of any program would ever be had.
* The AL device plays while its source is playing; time passes; a clock signals
  the advises that are due; a timer that has fired calls back.
* `PullPin`: the reader answers, and the filter downstream gives buffers back.
  `Transform`: a downstream that runs does. `SourceStream` assumes nothing of
  buffers: `Stop` has to come back although none is free.
* `DynamicPin`: who uses the pin stops using it. A streaming thread may still
  wait for as long as the pin is blocked.
* Nothing is assumed of the source (it need never send a sample), the
  application, the clients of the clock, or whoever uses the allocator.
  `ReceiveReturns` therefore says that Receive waits only for the sound thread,
  and `ControlReturns` that Pause waits for no sample.
* `OutputQueue`: its thread and a control call in progress go on. A call
  downstream returns when the pin downstream is flushed or the queue is being
  destroyed (its owner stops the filter first); otherwise it may block for ever,
  as a paused renderer does.
* In `SoundLoop` the call of Mix returns; `Mixer` gives that for a mixer that
  stops streaming, not for a source that has stopped delivering, where the
  thread waits in Mix as the code does.

## 5. Proofs

All are invariance proofs `Init => IInv`, `IInv /\ [Next]_vars => IInv'`,
`IInv => Inv`, or from such an invariant that each step is one the action property
allows. They hold for every value of the constants under the named assumptions of
the module and of the composites: finite sets of threads, positive sizes, times
that are numbers, names such as `NoData` that are no tag and no format. None
bounds a set or a number from above, and each is one the code justifies; TLC
evaluates all of them.

| Module | Proved | Inductive invariant |
|---|---|---|
| `AudioRendererProofs` | `StreamsAsTold` (`TypeOK`, `StreamingFollowsState`, `PauseDrains`); `RefinesMixer` | which thread holds which lock where, and how far `state` and `streaming` may differ in mid-call |
| `SoundLoopProofs` | `RingSafe` (`TypeOK`, `NoRefill`, `CountCovers`, `RingOrder`) | `Window`: the i-th oldest queued buffer is at most `num - i + 1` slots behind `next_buffer`. `RingOrder` alone is not inductive, since refused buffers leave gaps |
| `AllocatorProofs` | `NoLostWakeup`, `ReallocWhenFree`, `PoolSafe` (`TypeOK`, `OutstandingKeepsAlive`, `OneOwner`) | `Counted`: waiters are covered by tokens and by `m_lWaiting`; `Held`: the self references equal what commits and unfinished decommits account for; `Owned`: a sample is free, referenced or on its way back |
| `ConnectionProofs` | `ConnectionWhole` (`TypeOK`, `TypeIffConnected`, `PinsAgree`, `NothingLeft`); `DeviceConfigured` | `Pins`: at each place of the graph's thread the pins are apart, proposed, accepted, together or half disconnected, each with its exact count of references; `Passed`: a type beyond a test of the check is supported as far as the test can tell; `Device`: how far the last `SetMediaType` has got while nobody else asks |
| `OutputQueueProofs` | `QueueAwake` (`TypeOK`, `NoLostWakeup`, `FlushedMeansEmpty`); `RefinesFifo` | `Answered`: whoever flushes finds a sleeping thread only with the event set, also in a flush the optimization has cut short; `Refusing`: nothing but `EndFlush` ends the refusal of data; `Completed`: the event of a flush says that the queue is empty. For the refinement `Refused`: flushing and terminating belong to calls of the controlling thread, an end that did not come early goes with `S_FALSE`, and the item in hand is no sample |
| `RendererProofs` | `PauseIsWhole`, `NeverEarly`, `CompleteAfterLast`; of the run `clock` `ScheduleKept` (`TypeOK`, `Sorted`, `NoOversleep`), `ListsSound`, `InListOrder` (refinement) | `RInv`: a sample is held only inside `Receive` of a renderer that may have one (`RSample`); one notification at most is on its way, by the link `m_dwAdvise` stands for or in the event (`RQuiet`), and it is for the sample in hand (`RDue`, `RCue`). `CLInv`: the three and `ReadingFresh`, how far the thread's reading of the clock lags behind it; the lemmas on `InsertAt` and `RemoveAt` rest on the library's theorems about sequences |
| `WorkersProofs` | of the mixer `NoMutualWait` and `QueueSound` (`TypeOK`, `QueueBound`, `NoUnderfill`); `StoppedIsQuiet`, `HandedOverInOrder`, `BlockValid`, `SeekSettles` | Mixer: for `NoMutualWait` the two flags are followed through both hand-shakes, for `QueueBound` a *credit*, what is in the queue plus every sample that may still come before Mix looks again. `SSInv`: each worker answers the one request its client waits for, and the loops of Pause and Stop leave the pins before the one reached live or clean (`SSLoop`). `PPInv`: while `Process` runs, the positions asked for follow one another from the first not delivered to `tCurrent` (`PPChain`). `MTInv`, `DPInv`, `TFInv`, `SKInv`: the property with what the threads at each place know |
| `FiltersProofs` | `DeviceSound`, `DoneInTime`, `ObjectsLast`, `WindowSound`, `GeometrySound`, `PictureSound`, `ArithmeticExact`: with `ConnectionWhole` and `DeviceConfigured` everything the run `filters` checks | one for each unit, see below |

The invariants of the units of `MCFilters`, and of the lists of `MCClock`:

| Unit | Inductive invariant |
|---|---|
| `BasicAudio` | `BAInv`: unless calls raced, whoever is about to give the source a volume gives it the latest |
| `StreamControl` | `SCInv`: what becomes of the sample in hand follows from its place among the times set |
| `ObjectLife` | `OLInv`: an object's count is its references and the calls that have it for themselves (`OLObject`), and the library is loaded while an object or a lock is counted (`OLLoaded`) |
| `MediaTypes` | `MYInv`: each block belongs to one type, and `pUnk` has a reference for each type that holds it but those lost |
| `Registration` | `RGInv`: `RGDone`, what the loops have written when a call has come to a phase and a template |
| `List` | `LIInv`: there are chains `F` of the lists, `C` of the caches and a map `O` from nodes to places, of which the heap is the picture (`Good`): links, ends and counts follow the chains, a node is in the chain `O` says and in no other, and it exists unless `O` says it is free |
| `Enumerators` | `ENInv`: what an enumerator knows is of the present list while its version is the present one and no change is under way (`ENKnows`) |
| `CmdQueue` | `CQInv`: each command is at most once in the list of its kind, and either list is in the order of times (`CQOrdered`), as long as no deleted command was used |
| `WindowControl` | `WCInv`: while a style is being changed the window is out of sight and the rectangle it is to come back to is kept (`WCStyle`) |
| `VideoControl` | `VCInv`: the source lies in the picture and neither rectangle is inverted; a comparison of numbers that have wrapped is told by lemmas on `Wrap` |
| `VideoQuality` | `VQInv`: the sums the deviation is computed from are a sum of n numbers and that of their squares, so that their difference is no negative number (`VQSpread`); while no frame has been drawn there is no average drawing time to be late by, and none was dropped (`VQFirst`), and a drop comes within a second of a drawing (`VQShown`: `m_trLastDraw` is no later than what was drawn) |
| `VideoTransform` | `VTInv`: while the picture has a hole the decoder skips, and has awaited what is missing of a period of key frames (`VTHole`, `VTAwaits`) |
| `TransInPlace` | `TIInv`: what is copied follows from the allocators of the pins once no pin is about to be connected anew (`TIPins`) |
| `VideoWindow` | `VWInv`: who holds which lock (`VWLocks`) and awaits which message (`VWWaits`), whose palette the window has, and that an image of the present version has the present colours (`VWColours`) |
| `MulDiv` | none beyond the property: a call is one step. The lemmas follow the code within it: the partial products and their carries add up to the product (`MDSum`); each turn of the long division keeps divisor times quotient plus remainder (`MDKept`), by induction over the turns |

**How the larger ones go.** The composites' theorems say of each unit that a step
of `MCNext` is a step of it or leaves it alone; `unit` never changes, and a unit
that is not acted on keeps its invariant. For `CBaseList` a method is cut into few
kinds of changes, each proved to keep a heap good whatever the chains are: a node is
taken into the hand from the cache or from memory (`LITaken`), put into a chain
between two neighbours or at an end (`LIPut`), taken out of one (`LIOut`), laid down
(`LICast`), whole chains are exchanged (`LIReplace`) or cut and joined (`LISplice`).
That following the pointers finds the chain is `LIWalk`: the recursive function of
the walk is shown to be the chain, then nothing. The four loops that copy a list keep
a relation between what was to be copied and what is in (`Copied`), by induction
over their turns (`LILoop`); memory may run out at any of them. For `RefinesFifo` the packets of the
queue are mapped to their data, `Pending`, which leaves out what is no sample;
that the mapping distributes over joining and cutting lists is proved by
induction over the length of a list. The rule of induction (`NatInd`) is itself
proved there, from the fact that a set of numbers that is not empty has a least
member: every rule of the library takes an operator, which the provers cannot
instantiate, a set they can. The recursive function that collects the data is then
unfolded with the equation it satisfies, which is proved to have a solution.
`CompleteAfterLast` and `NeverEarly` are about steps: from `RInv` no step that
reports, or draws, comes before its time.

Only model-checked:

* all liveness properties (`CallsReturn`, `SoundComesOut`, `DestructorReturns`,
  `DecommitUnblocks`, `Notified`, `EndFlushReturns`, `DueIsDone`,
  `StreamingGetsOn`), which rest on fairness and ENABLED and are out of the
  prover's reach, with the liveness half of `MixerSpec`;
* the absence of deadlock.

## 6. Findings and observations

Places where a run contradicts what the repository says of itself:

* `flush_rejects`: a comment says that samples are rejected during a flush;
  `Receive` lets `S_FALSE` through and queues them
  (`OpenALAudioRenderer.cpp:568`, comment at line 610).
* `blocks_only_when_full`: `num_buffers_queued` also counts buffers AL refused,
  so the thread waits for a free buffer while part of the ring is free
  (`OpenALStream.cpp:832`).
* `live_to_the_end`: `ReleaseBuffer` reads `m_pNotify` after another thread may
  have dropped the last reference (`amfilter.cpp:4823`, comment at 3359).
* `device_follows_type`: the pin's `CheckMediaType`, said to check whether a type
  can be supported, sets the live device to it, even if it is then refused
  (`OpenALAudioRenderer.cpp:334`, comments at `amfilter.h:522` and 525). After a
  `QueryAccept` the device plays in another format than the connection has.

Some modules also state, without a run of their own, what a comment or an
assertion of the code says and the code does not keep; a definition says so where
it stands (`CmdQueue!References`, `CmdQueue!DueIsSignalled`,
`TransInPlace!RestingStates`, `VideoTransform!SkipsToKeyFrame` and `NeverSilly`,
`VideoQuality!AverageIsAverage`, `StreamControl!NotFlushing`,
`Renderer!CompleteWhenRunning` and `CuedByData`,
`Registration!ExcusedWhenUnregistering`). TLC violates each of them.

What was noticed while modelling; the modules show the behaviour, and no checked
property is about it.

Renderer filter and device:

* `EndOfStream` sends `EC_COMPLETE` at once, with audio still queued, and also
  in the middle of a flush.
* `CAudioInputPin::Inactive` is empty: Stop neither decommits the allocator nor
  resets `m_bRunTimeError`, although a comment in `COpenALFilter::Stop`
  (`OpenALAudioRenderer.cpp:217`) expects the former.
* `CMixer::m_is_float` is written by the negotiation and never read; `m_bitness`
  is read again between `Mix` and `palBufferData`.
* A stopped source that is played starts from the head of its queue, so buffers
  already played and not yet unqueued are heard again; below 1000 Hz
  `frames_per_buffer` is 0 and the thread never asks for samples.
* A type for which `CheckOpenALMediaType` returns `S_FALSE` passes `SUCCEEDED`;
  a number of channels its switch does not know leaves `speaker_layout`
  uninitialized.
* Two overlapping `put_Volume` calls, or one overlapping the making of the
  source, may leave the source with the earlier volume; Quad counts as supported
  without `AL_EXT_MCFORMATS`; a failed `OpenDevice` is only asserted.

Clock, pool, pins:

* A packet is notified up to 1 ms early, deltas of at most 0.5 ms add up without
  waking the thread (`late`), and a time-out capped at `UINT_MAX` is no time-out
  (`refclock.cpp:362`, comment at `refclock.h:57`).
* Enumerators keep pins without a reference; `Next` that fails half way leaks the
  references taken; `CEnumMediaTypes::Next` moves the position although it fails.
* `CMediaType`: a copy that fails for want of memory has copied `pUnk` but taken
  no reference, and releases it when it ends; assignments do not tell. A shorter
  format for which there is no memory overwrites the front of the old one and
  keeps its length, and `SetFormat` says TRUE. None of it matters while `pUnk` is
  NULL and memory suffices, as in this program.
* Dynamic pin: a pending block may starve while two streaming threads take turns;
  a synchronous block whose request another thread cancels returns `S_OK`.

Output queue:

* `m_evFlushComplete` may be left set by a flush: the thread meets `m_bFlushing`
  twice (a SEND packet wakes it), or it runs during a flush the optimization has
  cut short. `Reset` then returns before its packet is handled, and the packet
  may put `m_hr` back to S_OK in the middle of a later flush: samples are then
  accepted during it, discarded without a failing result, or survive it. A
  comment says of the event: "Make sure we really wait for the flush to complete"
  (`outputq.cpp:488`). `QueueAwake` and `FifoSpec` are stated up to that point
  (`early`); with `early` left out TLC finds each violated. `EndFlushReturns`
  holds without it.
* `COutputQueue::IsIdle` asserts that the list is empty whenever the thread waits
  (`outputq.cpp:792`); with exact batches an incomplete batch waits in the list.
* A segment whose test of `m_hr` came before a flush is queued during or after
  it (`outputq.cpp:406`).

Renderers, sources, transforms:

* A sample may be rendered early or dropped when Pause or Run come between the
  end of its wait and the last section of `Receive` (`overtaken`); a type refused
  in the stream sets `m_bRunTimeError`, after which `EC_COMPLETE` is not sent.
* `SendEndOfStream` does not wait for what is less than `TIMEOUT_DELIVERYWAIT`
  away (`renbase.cpp:1279`): `EC_COMPLETE` may come up to 50 ms before the end of
  the last sample, and at once without a clock.
* `CSourceStream`: RUN or PAUSE after the end of the stream restarts the loop; a
  command sent under the filter's lock may wait for a buffer.
* `CPullPin`: `StopThread` returns early if the reader's `BeginFlush` fails.
* `CBaseStreamControl`: `ExecuteStart` notifies a sink without looking whether
  there is one; a stale `m_bStopSendExtra` gives or withholds an extra sample;
  `CheckSampleTimes` may be reached during a flush.
* `CTransformFilter`: Stop between BeginFlush and EndFlush makes an assertion of
  EndFlush fail; Pause resets flags without `m_csReceive`.
* `CVideoTransformFilter`: `m_nWaitForKey` is used before anything sets it.
* `CBaseVideoRenderer`: the average and deviation of the sync offset are divided
  by one frame too many; `ThrottleWait` sleeps with locks held.
  `ResetStreamingTimes` says "as first frame since ages (1 sec) ago" of -1000
  (`renbase.cpp:1840`), which is a tenth of a millisecond. The first frame is drawn
  all the same, as the average drawing time starts at 0, but not for the reason
  given at line 1835; a first frame that lasts no time could be dropped.

Seeking, commands, windows, lists, arithmetic, library:

* `GetPositions` reads both times without a lock; a stop before the position
  makes the position jump back at the end; rate 0 is accepted.
* `CCmdQueue`: a command got from the queue has no reference of its own although
  `ctlutil.cpp:2489` says so; a new clock is not advised again for an unchanged
  earliest time, so that only the worker's time-out finds what is due; time 0 is
  taken for no time.
* `RemovePalette` and `SetPalette` take two locks in different orders; they are
  kept apart only because the stream is idle when the window goes.
* `get_Left` and its kin answer in screen coordinates what is put in those of the
  parent; a hidden owner leaves the window hidden for good after a style change.
* Rectangles are not reset when the format changes, which is left to the derived
  class; a top-down format refuses every rectangle.
* `CBaseList::AddTail` of a list to itself does not end.
* `llMulDiv`: a quotient that fits an unsigned but not a signed `LONGLONG` wraps,
  though a comment has overflow caught (`arithutil.cpp:168`).
* `m_cLocked++` is not interlocked and may drift; nor is `++m_cRef` of a factory
  (`dllentry.cpp:96`), which threads that share one could so delete in use; a
  constructor that fails after aggregating is deleted at count 0.
* Registration: what the user may not delete is not reported, and a key below
  another that cannot be deleted is tried for ever (`dllsetup.cpp:59`). The excuse
  for a filter that is not registered (`dllsetup.cpp:293`, `amfilter.cpp:5346`) is
  made when registering, too: the call may succeed and a filter be missing.

## 7. What is not modelled

* Sample values and channel layouts beyond the size of a frame: data that no
  control depends on. Allocation failure of the standard library.
* Never called here: `ClockController`, `MetGetTime`, `SetVolume`, `Stop`,
  `getSampleTime`, `resetSampleTime` and `SetSyncSource` of `COpenALStream`;
  `AMovieDllRegisterServer` and `AMovieDllUnregisterServer`.
* Of the connection: partially specified media types, reconnection while active
  (`m_bCanReconnectWhenActive`), `NewSegment`. In `SoundLoop` the format changes
  at any time, which includes what a negotiation does.
* Of `COutputQueue`: the direct mode, which calls downstream under the lock and
  has no thread, `IsIdle`, the event of `SetPopEvent`, and a list that cannot
  grow (`QueueSample` drops the sample).
* Of `CBaseRenderer`: repainting, `IQualityControl` sinks, pins that are not
  connected, an `AdviseTime` or `timeSetEvent` that fails.
* Of the window classes: painting, text, cursors, colours, choice of a display
  format. Display modes (`ddmm.cpp`, `videoctl.cpp`) are calls of DirectDraw.
* Property pages: nothing here derives one; persistence and dispatch: pure
  serialisation and forwarding; logging and performance counters; tables of
  bitmap formats and string functions. The OpenAL headers are third-party
  declarations; what AL does is the external part of `SoundLoop` and
  `BasicAudio`.

## 8. What is left

In this order:

1. `Connection`: partially specified types, reconnection while active, and the
   composition with `SoundLoop`, whose format is what the negotiation stores.
2. `OutputQueue`: the direct mode.
3. `COpenALStream::SetSyncSource` with the clock's clients, should it be called:
   the previous clock is kept without a reference, and a member of the same name
   hides the private time of the base class (`OpenALStream.h:115`).
