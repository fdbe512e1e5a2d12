# A TLA+ model of OpenAL Soft

TLA+ modules, TLC configurations and TLAPS proofs for the OpenAL Soft
implementation in this repository (`src/OpenAL-Soft`) and for the sources of the
Mac OS X implementation (`src/OpenAL-MacOSX`). Paths below are relative to
`src/OpenAL-Soft` unless they start with `src/` or name a file of the latter.

OpenAL is a C library. An application creates *contexts* on *devices*, and in a
context *sources* that play queues of *buffers*; a mixer thread per device reads
all of them at any moment. What is hard to test is how the API calls of several
threads interleave with one another and with the mixer and capture threads, and
what long sequences of legal calls leave behind in the counters, queues and
lists they share. That is what is modelled. Sample arithmetic is not.

## 1. The system

### Parts

| Part (files) | State | Operations | What makes it correct |
|---|---|---|---|
| Reader-writer spin lock (`Alc/helpers.c`) | three test-and-set words, two counters | `ReadLock`, `ReadUnlock`, `WriteLock`, `WriteUnlock` | exclusion, writers first, somebody always gets in |
| Name allocator (`OpenAL32/alThunk.c`) | array of flags, its size, its lock | `NewThunkEntry`, `FreeThunkEntry` | names unique, indices inside the array |
| `UIntMap` (`Alc/helpers.c`) | sorted array of key/value pairs, limit, lock | insert, remove, pop, lookup, reset | it is a map, and every search ends |
| Buffers (`OpenAL32/alBuffer.c`) | map of names, data, format, loop points, reference count | gen, delete, fill, update, loop points, queue, unqueue | what is queued is in memory, of one format and unchanged; failures lose nothing |
| Sources (`OpenAL32/alSource.c`) | play state, queue, two counters, position, pending offset and state | play control, queueing, looping, offsets, creation, deletion | state, counters and queue agree |
| Deferred updates (`OpenAL32/alState.c`) | `DeferUpdates`, `new_state`, `lOffset` | `alDeferUpdatesSOFT`, `alProcessUpdatesSOFT` | a deferred call has the effect of a direct one |
| Effect slots (`OpenAL32/alAuxEffectSlot.c`, sends in `alSource.c`) | references, active slots, `Send` and its copy in `Params` | gen, delete, attach, `UpdateDeviceParams` | exact references; the mixer writes to slots in memory |
| Mixer control flow (`Alc/ALu.c`, `Alc/mixer.c`) | lists of active sources and slots, local copies of a source's fields | `aluMixData`, `MixSource`, `aluHandleDisconnect` | visits live objects only, plays what plays, ends |
| Devices and contexts (`Alc/ALc.c`) | device list, context lists, reference counts, current contexts, running flag | open, close, create, destroy, make current, `GetContextRef` | nothing freed in use, nothing leaked, playback matches the contexts |
| Capture (`Alc/ALc.c`, `Alc/backends/oss.c`, `Alc/alcRing.c`) | ring buffer, flags, capture thread | open, start, stop, samples, close | a bounded FIFO; samples counted are samples read; closing ends |
| Sources on Mac OS X (`oalSource.cpp`, `oalSource.h`) | two flags for a lock, two lists for a queue, ramp state, messages | play control, queueing, offsets, deletion; the three calls of the render thread | never edited while rendered; the queue is what the application made; a stop happens |
| Effects, filters, listener, state, errors, extensions, configuration | plain fields and tables | setters, getters | single assignments |
| Threads, playback backends | platform objects | start, join, callbacks | platform code |
| Mixing arithmetic, HRTF, reverb and other effects | floating-point state | signal processing | numerical quality |

The repository also holds an older implementation of the interface
(`src/OpenAL-Sample`), the Windows dispatch library (`src/OpenAL-Windows`), utilities
and examples (`src/alut`, `src/demos`) and the specification text (`src/docs`), which
is quoted where the code departs from it.

### How the parts interact

* **List lock** (`LockLists`): one recursive mutex for the device list and the
  global current context. `alcCreateContext` and `alcDestroyContext` hold it from
  end to end. `alcCloseDevice` holds it only to take the device off the list.
* **Device mutex** (`LockDevice`, `LockContext`): held by the mixer for a whole
  pass and by most calls that change a source. Some accesses happen outside:
  `DeferUpdates` is tested or cleared before the mutex is taken, names are
  removed without it, the memory of a source or slot is freed after it.
* **Reference counts** on contexts, devices, buffers and slots. Calls take a
  reference on the way in (`GetContextRef`, `VerifyDevice`) and drop it on the way
  out. Deleting a buffer or a slot tests its count with no lock held.
* **The map lock**: every `UIntMap`, and the thunk array, is under a
  reader-writer spin lock of its own.
* **Threads**: application threads, each of which may have a context of its own;
  one mixer thread per playing device; one capture thread per capture device,
  which shares the ring buffer and the device's flags with the application.
* **On Mac OS X** the render thread belongs to the audio unit and may not wait. A
  call on a source raises a flag and waits for the render thread to leave; the
  render thread raises its own, looks, and plays silence rather than wait. What a
  call cannot do to a source that plays it leaves as a message; the render thread
  renders one more slice, ramped down, and then does it.

### What is hard

Lock hand-over between threads that do not know who holds a word; an index kept
from a read section to a write section; a count tested with no lock and acted on
later; a name looked up twice; a flag changed outside the lock that protects what it
decides; a context unlinked while a mixer walks the list; reference counts changed by
compare-and-exchange on one thread and exchange on another; lists that the mixer and
the application both edit; copies of pointers that outlive what they point to; queue
positions that cross empty entries and wrap at loop points; messages handled after
calls made later; a join with a mutex held. `hazards` in `PROJECT.json` lists each at
its line, with the properties that watch it.

## 2. The modules

| Module | Models | Uses |
|---|---|---|
| `ReadersWriters` | what a reader-writer lock promises | |
| `RWLock` | the spin lock, one step per atomic access | refines `ReadersWriters` |
| `Thunk` | the name allocator | `ReadersWriters` as its lock |
| `KeyedMap` | what a map promises its callers: each call acts once, for its own key | |
| `UIntMap` | the sorted array, one step per turn of the binary search | `ReadersWriters` as its lock, refines `KeyedMap` |
| `BufferData` | one buffer as a value: sizes in bytes, formats, loop points, partial updates | |
| `Buffers` | the buffers of a device, their names, and the queues that hold them | extends `BufferData` |
| `SourceState` | one source as a value; `SetSourceState`, `ApplyOffset` and the queue as functions on it | |
| `Sources` | all sources of a context, their calls, deferral, the mixer | extends `SourceState` |
| `EffectSlots` | effect slots, sends, deferral, `UpdateDeviceParams`, the mixer | |
| `Contexts` | devices, contexts, references, current contexts, mixers over context lists | |
| `BoundedFifo` | what a ring buffer promises | |
| `RingBuffer` | `alcRing.c`: positions and memory | |
| `Capture` | capture device, capture thread, alcCapture calls | extends `RingBuffer`, refines `BoundedFifo` |
| `RenderLocker` | the two flags of `OALRenderLocker` | |
| `OALSource` | one source of the Mac OS X implementation as a value; its methods as functions on it | |
| `MacSource` | such a source between the application and the render thread | extends `RenderLocker` and `OALSource` |
| `…_proofs` | theorems | extend the module they are about |
| `MC…` | constants and symmetry for TLC | extend the module they check |

The project is compositional. The spin lock is proved to implement the abstract
lock, and the allocator and the map are checked and proved over the abstract lock.
`Buffers`, `EffectSlots` and `Sources` take what the map promises for granted: one
lookup, insertion or removal is one step of theirs. `MacSource` is proved to use its
lock as `RenderLocker` does. `map` in `PROJECT.json` gives the lines of each definition.

**State and actions.** Variables keep the names of the fields they stand for
(`ActiveSources`, `BuffersPlayed`, `DeferUpdates`, `mMessageQueue`, ...). A program
counter (`pc`, `at`, `mixer.at`, `phase`) says where in a call a thread is. What a call
does with a lock held, and no other thread can see in parts, is one step; each
access outside such a section is a step of its own:

* `RWLock`: every `ExchangeInt`, `IncrementRef` and `DecrementRef` is a step. A
  spin loop is a step that is not enabled while the word is taken.
* `Thunk`: one step per `ExchangeInt` of the scan, per lock call, and per write
  section. `live` counts the objects with each name; `raced` is a history variable.
* `UIntMap`: one step to enter the lock, one per halving, one for what the call does
  where the search ended, one to leave. Growing can fail; the limit is tested first.
  In `KeyedMap` a call starts, acts and returns; `call` and its key are those of
  `UIntMap`, it has acted when it is at `leave`, and `answer` is what it returns.
* `Buffers`: `alGenBuffers` takes a step per allocation and per insertion, with both
  ways to fail and the undo through `alDeleteBuffers`; that takes a step per test and
  per removal; `alSourceQueueBuffers` holds the context lock over its two passes
  (`Queue`, `Verify`, `Link`), each lookup a step of its own.
* `Sources`: a call under `LockContext` is one step, enabled while the mixer is
  out. `alDeferUpdatesSOFT` and `alProcessUpdatesSOFT` are two steps each (flag
  access, then body), `alDeleteSources` is three (name, list, memory). The mixer
  takes one step per source, per block and per turn of the `while(1)` that walks
  the queue.
* `EffectSlots`: steps as in `Buffers`. `ResizeEffectSlotArray` is a test, a size, a
  `realloc` and the stores, with the lock (`Locked`) or without it. A deletion removes
  what its name stands for at that moment (`Remove`), and the name is free again. The
  mixer takes one step per source, in which `ALsource_Update` may copy the sends, one
  to begin with the slots, and one to end.
* `Contexts`: one step per unlinking, mixer barrier and reference change; the
  mixer takes one step per context.
* `Capture`: one step per critical section of the ring buffer and per flag access
  of the capture thread.
* `RenderLocker`, `MacSource`: raising a flag, looking at the other one, and the
  work are three steps on either side. `alDeleteSources` is two edits, `Stop` and
  `SetUpDeconstruction`. A method is a function from a source to a source; an
  exception is the field `thrown`, which the caller clears. `GetBuffersProcessed`
  takes `mSourceLock` (`clearing`), which keeps other calls out and not the render
  thread, and clears the queue one entry at a time.

**Abstractions, and where they could matter.**

* Blocks of memory are never used twice (`Buffers`, `EffectSlots`, `Contexts`), so an
  access to freed memory stays visible. Names of buffers and slots are used again.
* `raced` records the order of steps in which the code loses a guarantee; the
  properties that depend on it say so (`UniqueUnlessRaced`, `QueuedValid`,
  `UnchangedWhileQueued`, `SlotsLive`, `MixesLiveSlots`). `torn` does so for the array
  of active slots, `crossed` for a source in `Sources`, and `odd` in `MacSource`.
  Section 5 tells what happens then.
* `Sources`: `ActiveSources` is a set; the order of visits does not matter to any
  property, and every order is explored. `ready` stands for "`Params` was computed at
  least once". Positions and offsets are in sample frames, and a queue has one
  format. `MixBlock` mixes any positive number of output frames and consumes any
  number of input frames in `Advances`: pitch, resampling and padding are a free
  choice; that a block yields at least one frame is assumed of `DoMix`'s arithmetic.
  Buffers do not change, which is `UnchangedWhileQueued` of `Buffers`. `GenSource` is
  one step. A call that names several sources is a sequence of calls, except
  `alSourcePlayv`, which makes room for all of them first.
* `Buffers`: samples, frequencies, looping and pausing are left out. An application
  keeps at most `MaxQueue` entries on a source. Filling a buffer and setting its loop
  points are one step each, in which the device mutex keeps the mixer out; sources are
  made before the behaviour starts and are not deleted. Sizes are exact, in bytes.
* `EffectSlots`: the list of active slots is a set, and what a slot computes is
  left out, so an effect whose `ALEffect_DeviceUpdate` fails is too. Once the array is
  torn, the next stores leave any set of slots in it. The mixer walks the list from
  `MixSlots` to `MixEnd` with the lock of the context; only a resize without it can come
  in between, and that is torn. A source keeps its sends only. `UpdateDeviceParams` runs
  while every source in the map is initialised; the other order is a listed hazard that
  ends the program.
* `UIntMap`: the walks of a map under `LockUIntMapRead` are left out here; those of
  `UpdateDeviceParams` are in `EffectSlots`.
* `Contexts`: a reference that drops to zero frees in the same step. `DropGlobal` is
  the compare-and-exchange and the decrement after it in one step: the context still
  holds its own reference in between, so nobody can tell. Failed allocations appear
  where they undo something (`CreateFails`, `GrowFails`) and are left out where the
  call simply returns.
* `Capture`: a device is opened once in a behaviour.
* `MacSource`: samples and positions inside a buffer are left out: a slice uses up
  any number of buffers, and an offset counts the buffers with data before it. An
  edit is one step, because `mSourceLock` keeps editors apart and the flags the render
  thread, and so is the work of the render thread; the exception is
  `GetBuffersProcessed` (above). What the lists are after it moved an entry during a
  slice is one of four outcomes (`Unlocked`), and is not followed further. A method that
  calls another takes the lock a second time, which is left out. A map lock that the
  render thread finds taken has the effect of a refusal. Running out of mixer buses and
  calls of the audio unit that fail are left out.

Each module also keeps faulty variants of some operators (`LockAnyway`,
`NotLast`, `NoRamp`, ...). No action uses them. `mutants` in `PROJECT.json`
pairs each with the operator it replaces and the property that must then fail:
every checked property is known to be able to fail.

## 3. What the runs check

| Run | States | Shows |
|---|---|---|
| `rwlock` | 3 126 | four threads: the refinement of `ReadersWriters`, writers first, somebody always enters; no deadlock |
| `thunk` | 75 113 | three threads, an array that doubles twice: names unique unless `raced`, indices in bounds, the array only moves unread |
| `uintmap` | 225 955 | two threads, five keys, a limit of five: the refinement of `KeyedMap`, each call for its own key, at the limit, across growth from four to eight, at a failed growth and at a reset; every search ends |
| `buffers` | 2 585 037 | two threads, two names, three blocks: what is queued is in memory and of the source's format, calls that fail lose neither names nor buffers unless an old name is still in use, partial updates and loop points stay inside, data unchanged while queued |
| `sources_one` | 516 480 | one source, queues of two entries from a filled buffer, an empty one and NULL, looping, offsets, deferral, deletion, disconnection, mixer: queue and counters agree with sound ahead of whatever plays, exact buffer references, a mixing pass ends |
| `sources_two` | 7 544 169 | two threads, two sources with static buffers, room for one on the list: what plays is on the list, the list holds live sources only, the mixed source is ready unless `crossed`, the list overflows only when deferred plays are processed |
| `sources_offset` | violation | finding 1 |
| `effectslots` | 6 740 129 | two threads, two slots and two names, a source with a send, an array that grows from none to two, deferral, a device that takes the send away, mixer: exact references, an array never too long, slots in the list and in sends are in memory, and so is what the mixer writes to |
| `contexts` | 292 367 | three threads, one device, two contexts: exact reference counts, mixers on live contexts of a running device, freed contexts met only while their device closes, playback as the list of contexts says |
| `contexts_ref` | violation | finding 2 |
| `capture` | 266 305 | two threads, a ring of two frames, blocks of one and two: a bounded FIFO, what was counted is there, the device outlives the calls on it, closing ends unless the device is lost at that moment |
| `mac` | 6 742 901 | one thread uses a source, another deletes it, a call reads the number of its processed buffers, and the render thread: never edited under the flags while rendered, the two lists are the queue the application made, connected to the mixer exactly when it plays, a stop and the end of a deleted source happen |

**Bounds.** Four threads are the fewest that show two readers, a writer in the
lock and a second writer at once, which the hand-over of `read_lock` needs.
Three threads and two doublings let one stale index meet an array that has grown
since and a third thread that frees. Five keys fill a map that first has room for
four, so the last entry makes it grow and meets the limit, and the search sees every
length from none to five. Three blocks and two names let one name pass from a buffer
under deletion to another while a queue call stands between its two lookups, and to a
third while the `alGenBuffers` that made that one fails; `n` goes one beyond the names,
so that a call can fail after it took them all. The two loads differ in channels, stored
type and length. In `sources_one`, one buffer of two
frames with a loop section of one frame, one empty buffer and NULL entries give every
branch of the queue walk; positions cross more than one entry because `Advances` goes
up to 3. In `sources_two` the list of sources starts with room for one instead of 256, so it
fills at once, and two threads are what it takes to defer again between the two halves of
`alProcessUpdatesSOFT`; queues are in `sources_one`. Two slots and two names let the name
of a tested slot pass to another, which a send takes, before the deletion removes it; a
call asks for one slot or two, so that a resize without the lock meets one with it, and
the array doubles twice; one source with one send is enough for a slot to be taken, left
and taken away by the device. In `effectslots` TLC checks the states in which the array
is torn and goes no further from them (`CONSTRAINT Whole`); what follows is left to the
proofs, which cover it.
Three threads are needed for a context that one thread uses, another destroys and a
third has current; `contexts` was also run with two devices and two threads (410 000
states) and two devices and three threads (5.5 million states), with the same result.
A ring of two frames has three slots, so a block of two frames wraps in its middle.
In `mac`, two buffers in the queue (one in the mixer's format, which takes its own
branch, one not, and AL_NONE) and two messages waiting are what one slice can cross
and one turn reorder. Other bounds: `MaxQueue` (what an application keeps queued),
`MaxMessages`, `Offsets`, `MaxSize` (where `realloc` of the thunk array fails), four
doublings in one call of `GrowActive`.

**Known exceptions.** Some properties hold with an exception, named in the formula,
that stands for what the code does: `raced` (see above), the step of
`alProcessUpdatesSOFT` in `OverrunNeedsDeferral`, `crossed` in `ListMatches`, `torn` in
`TypeOK` and `SlotsLive` of `EffectSlots`, the lost device in `CloseEnds`, the
closed device in `FreedUnused`, deferral in `MixesLiveSlots`, the names in `lost` in
`NothingLost`, and `odd` in `MacSource`,
which records the steps in which a Mac OS X source loses or reorders something by
itself. After such a step `MacSource` makes no further calls, so that the run's states
go to the behaviours in which the properties say something. Section 5 explains them.

**Fairness.** Each assumption is weak, and on actions the code cannot decline:

* `RWLock`: `WF(Continue(t))` for every thread: a thread inside `ReadLock`,
  `WriteLock` or the section under it goes on. A thread that spins can always lose
  its exchange to another, so no strong fairness is assumed and no single thread
  is claimed to enter, only that some thread does. Nobody is obliged to call.
* `UIntMap`: `WF(Step(t))`: a thread that has entered the lock goes on. Nobody is
  obliged to call, and entering is not fair.
* `Sources`: `WF(Mixer)`: the mixer thread runs once it has the mutex. That a
  pass ends needs this, and that what a looping source has ahead of it is never only
  empty entries (in `QueueConsistent`).
* `Capture`: `WF(Worker)`: `read()` returns and the capture thread runs. Weak fairness
  of `StopThread`, `Unlock` and `CopySamples` for a thread that holds the device
  mutex. Mutex acquisition is not fair.
* `MacSource`: `WF(Moves)` on the place of the render thread: the audio unit keeps
  calling. Editors are not fair. The render thread gives way to each of them, so
  `StopEnds` is claimed for the behaviours in which they leave the source alone at
  last; without that, calls that never stop can keep a stop from happening.

That `alcDestroyContext` ends is not claimed: its barrier waits for a mutex that the
mixer may keep taking first.

**Deadlock** is checked in every run except `capture`, where the library really can
stop (section 5): that run turns TLC's deadlock check off and states `CloseEnds` instead.

## 4. What is proved

| Theorem | Statement | Assumptions |
|---|---|---|
| `Thunk_proofs!LockTypeCorrect` | `LockSpec => []LockTypeOK`: no counter is decremented below zero | finite set of threads |
| `Thunk_proofs!Exclusion` | `LockSpec => []MutualExclusion` | 〃 |
| `Thunk_proofs!Implements` | `LockSpec => ImplementsReadersWriters` | 〃 |
| `Thunk_proofs!Preference` | `LockSpec => WriterPreference` | 〃 |
| `Thunk_proofs!TypeCorrect` | `Spec => []TypeOK` | `MaxSize` at least 1 |
| `Thunk_proofs!Uniqueness` | `Spec => []UniqueUnlessRaced` | 〃 |
| `Thunk_proofs!InBounds` | `Spec => []IndexInBounds` | 〃 |
| `Thunk_proofs!MovesUnread` | `Spec => ArrayMovesUnread` | 〃 |
| `UIntMap_proofs!TypeCorrect` | `Spec => []TypeOK` | a finite set of numbers as keys, a limit or none, answers distinct from values |
| `UIntMap_proofs!StaysSorted` | `Spec => []Sorted` | 〃 |
| `UIntMap_proofs!Implements` | `Spec => ImplementsMap`: each call acts once, for its own key | 〃 |
| `MacSource_proofs!Excluded` | `LockSpec => []Exclusion` | finite set of threads |
| `MacSource_proofs!Locked` | `Spec => LockSpec` | none |
| `MacSource_proofs!NeverTogether` | `Spec => []Exclusion` | finite set of threads |
| `MacSource_proofs!TypeCorrect` | `Spec => []TypeOK` | 〃, any bounds on queue, offsets and messages |
| `MacSource_proofs!AsSeen` | `Spec => []QueueAsSeen` | 〃 |
| `MacSource_proofs!Connected` | `Spec => []ConnectedWhilePlaying` | 〃 |
| `Capture_proofs!TypeCorrect` | `Spec => []TypeOK` | finite set of threads, a ring of at least one frame |
| `Capture_proofs!Counted` | `Spec => []CountedStillThere` | 〃 |
| `Capture_proofs!Outlives` | `Spec => []DeviceOutlivesCalls` | 〃 |
| `Capture_proofs!Implements` | `Spec => ImplementsFifo` | 〃 |
| `EffectSlots_proofs!TypeCorrect` | `Spec => []TypeOK` | finite set of sources, any number of sends |
| `EffectSlots_proofs!Exact` | `Spec => []RefsExact` | 〃 |
| `EffectSlots_proofs!Live` | `Spec => []SlotsLive` | 〃 |
| `EffectSlots_proofs!MixesLive` | `Spec => MixesLiveSlots` | 〃 |
| `Contexts_proofs!TypeCorrect` | `Spec => []TypeOK` | finite sets of threads and contexts |
| `Contexts_proofs!Exact` | `Spec => []RefsExact` | 〃 |
| `Contexts_proofs!Unused` | `Spec => []FreedUnused` | 〃 |
| `Contexts_proofs!Playback` | `Spec => []PlaybackMatches` | 〃 |
| `Buffers_proofs!TypeCorrect` | `Spec => []TypeOK` | finite set of sources, loads in formats the code has |
| `Buffers_proofs!Valid` | `Spec => []QueuedValid` | 〃 |
| `Buffers_proofs!Unchanged` | `Spec => UnchangedWhileQueued` | 〃 |
| `Buffers_proofs!Lossless` | `Spec => []NothingLost` | 〃 |
| `Buffers_proofs!Within` | `Spec => []WritesInside` | 〃 |
| `Sources_proofs!TypeCorrect` | `Spec => []TypeOK` | finite set of sources, loop points inside each buffer |
| `Sources_proofs!Consistent` | `Spec => []QueueConsistent` | 〃 |
| `Sources_proofs!Exact` | `Spec => []RefsExact` | 〃 |
| `Sources_proofs!Overrun` | `Spec => OverrunNeedsDeferral` | 〃 |
| `Sources_proofs!Heard` | the first two conjuncts of `ListMatches`, and that the mixed source has memory | 〃 |
| `Sources_proofs!Listed` | `Spec => []ListMatches` | 〃 |

**The lock.** Exclusion is not inductive: a state in which a writer is inside and
`write_lock` is clear satisfies it, and the next step breaks it. The invariant
`IInv` says what each word means. `CountInv` ties the counters to the number of
threads between their increment and their decrement, so "became one" and "became
zero" mean first and last (lemmas `Enter`, `Depart` and `Alone`, from the theorems
on finite sets). `EntryInv` lets one reader at a time between `read_entry_lock`
and its release. `WordInv` says that `write_lock` is held by one writer or by the
readers together, the one that is about to release it included. `OwnInv` does the
same for `read_lock`, which writers hold together: either some writer counts and
none is still waiting for the word, or the last one is about to release it, and a
writer that arrives in between must wait for the word. One lemma per conjunct has
one step per action. `Implements` maps `readers` to the threads from `r_unlock`
to `reading` and `writers` to those at `writing`; all but five actions are stutters.

**The allocator.** `LockInv` ties places to the abstract lock's sets, `BoundsInv`
keeps the indices inside the array, also those kept from one section to the next,
and `UniqueInv` says that until a thread has grown the array at a stale index the
names of objects and the names held by calls are all taken and pairwise distinct.
That all names are distinct is false (section 5), so the theorem carries the
condition `~raced`, which names the one step that breaks it.

**The map.** The array represents a map only while it is sorted, and it stays sorted
only if a search ends at the place of its key. So `IInv` adds to the type invariant
`Sorted` and `SearchInv`: below `low` are smaller keys, above `high` larger ones. That a
search finds its entry or its place follows when the two meet (`HitOrMiss`,
`PositionFits`); what `memmove` makes of the array is sorted again (`OpenedSorted`,
`ClosedSorted`). `LockInv` says that a call is in the section it needs, and that a call
that enters a value found room and still has it, since it is alone. For the refinement,
`map` is read off the array and a call has acted when it is at `leave`; `OverwriteMaps`,
`InsertMaps` and `RemoveMaps` show what each change of the array means for the map, and
`MapSize` that the two have the same number of entries, which the limit is tested
against. `HitMaps` and `MissMaps` show that where the search ended decides whether the
map has the key of the call, so that the step after it is the one of `KeyedMap` with that
key and that answer; every other step starts a call, returns from one, or is a stutter.

**The two flags.** Each side raises its flag and then looks at the other's, so
`Exclusion` holds only by what the flags stand for: `FlagInv` says that `mAcquireFlag`
is the number of editors there or waiting and `mTryFlag` that the render thread is there
or looks. `Locked` maps every step of `MacSource` to a step of `RenderLocker` or a
stutter, which carries `Exclusion` over to the source.

**Mac OS X sources.** The three theorems have one invariant, `Good`, because what a
source is said to be depends on what waits for the render thread. `Sound` has the types
and the attachment counts: most methods only move entries (`Moved`: the same entries, in
the same order or noted as odd), one lemma each. `Control` ties the state to the shape of
the message queue. While a source plays, only messages that leave it playing or paused
can wait (`AllEarly`); on its way to a stop the first message that is not of these is the
stop, and nothing after it rewinds or pauses (`Leads`), which is why handling the
messages cannot end in a state that plays without a bus. A deleted source has its end
among the messages until it is safe to delete. `Promised` says what the application was
told: the pending removals add up to `mBuffersQueuedForClear` (`Sums`), none comes after
a pending replacement, and the queue is what they leave or the last replacement.

`DoPostRender` handles all messages in one step, so its proof is an induction inside the
step. `Iterate` shows that a function defined by recursion on a number takes the values
its recursion says, and `Upto` that a set which has 0 and all that follows has them all;
both from the least number of a set, not from an induction theorem. `RunIs` gives the run
`h`, with `h[i]` the source after `i` messages; `PlayedRun` and `StoppedRun` follow
`AllEarly` and `Leads` along it, `EndedRun` the end of a deleted source, and `PromisedRun`
the queue: after `i` messages it is what the first `i` removals leave, or the last
replacement so far.

The proof showed that `QueueAsSeen` was false as it stood, and that the run was too small
to see it: with room for a third message, a removal that follows a pending replacement is
lost or takes an entry of the new queue, because the replacement resets
`mBuffersQueuedForClear`. The step is now noted as odd (`replaced`, section 5). It also
showed that `joined` had been noted where the lists keep their order.

**The capture device.** `CountInv` says that the reference count is one for the list (or
for the call that is closing the device) and one for each call that has it. To keep it
needs `LifeInv`: at most one call closes the device, its data is there until that call
has joined the capture thread, and the capture thread works only while it is. `LockInv`
says who has the device mutex and `BlockInv` what the capture thread holds. The ring is
arithmetic on two positions; the lemmas `DistanceIs`, `SizeIs` and `ContentsAre` say what
it contains, at any size and wherever a position wraps, and `WriteAppends` and `ReadTakes`
what an operation does to that. From these follows `Implements`: a write puts what fits at
the end, a read takes from the front, and everything else is a stutter. That the frames
a call counted are still there when it copies them (`Counted`) is inductive with them:
only writes come between, because the reader has the mutex.

**Effect slots.** `RefsInv` is `RefsExact`; it is inductive with the places of the calls
(`PlaceInv`) because a send and the counts of the slots it leaves and takes change in one
step. `SlotInv` says that a slot has one name, or none and one thread that makes or
removes it. Names are given again at once, so the removal of a name says nothing of the
slot that was tested; `SafeInv` therefore says, until `raced`, that a slot with a send
stands under a name that no deletion going on has tested, and that is enough: a deletion
only frees what stands under a tested name. `ListInv` and `RoomInv` hold until `torn`: the
list has what is named and nothing freed, a thread that is about to append has room for
one more, also while it stands between the steps of its resize, and a size about to be
stored is at least the one it replaces. A thread about to store is the only one; for the
others to use the array then is what tears it. For the mixer, `ParamsInv` says that a
source whose copies of sends differ from its sends has `NeedsUpdate` set, so they differ
only while it does.

**Contexts.** The list of a device is the least set that has its head and is closed under
`next`, which takes the place of an induction: an element is in it because it is in every
such set, and what is not in one is not in it. `ListPush`, `ListPop` and `ListCut` say what
the three changes of a list make of it; they need `ListInv`, that a list is a chain. The
counts are exact (`ContextRefs`, `DeviceRefs`) as numbers of pairs of a holder and a way
to hold, of which each step changes a known few. `FreedUnused` needs to know where a
context is while it is taken apart: `EndInv` (one thread per device takes contexts off, and
what it has taken off is on no list), `MixInv` (the mixer stands on a listed context, or
on one whose destroyer waits at the barrier, from which `next` leads back to the list)
and `GlobalInv` (the current context is on a list, or its destroyer has not cleared it
yet). `PlayInv` adds to `PlaybackMatches` which calls will still start or stop a device.

**Buffers.** `QueuedValid` says that what is queued is in memory. It stays there because
a buffer is freed only after its count was zero, so it needs that counts are exact
(`RefsInv`: the places in all queues and in the list a call is linking, counted as a set of
pairs), and that between the test and the removal nothing else leads to the buffer. That
is `LiveInv`: until `raced`, what is queued has a name that no deletion has tested. Names
and blocks are one to one (`MapInv`, `NameInv`, `TakenInv`), also those that a call has
taken but not entered yet or removed but not freed yet. A name that the application has
not been given leads to no queue (`HiddenInv`), so a call that fails can take back what it
made. `OwnInv` says whose each such name is, which gives `NothingLost`. For the format,
`FormatInv` follows a queue call from its first pass to its second: what was compared is
still what is linked, and a format determines how samples are stored (`Keeps`), so the
source mixes what it has as it was stored. `DataInv` is about one buffer: `LoadOK`,
`LoopOK` and the lemmas on division show that what is accepted stays inside.

The proof of `NothingLost` showed that an earlier form, without `lost`, was false: the
run was too small to see it. A name freed by one thread can be given out again while the
application still uses it for the old buffer; if the call that got it fails, its undo is
refused. `Gen` now asks for more buffers than there are names, and the run has a third
block, so that TLC meets the case.

**Sources.** `Sound` is `QueueConsistent` of one source. It is inductive because of what
each operation of `SourceState` does to a source, which one lemma per operation says
(`OffsetSound` to `UnqueueSound`): an offset is applied only where there is sound
(`PlacesIs`), an entry leaves the queue only after it was played, and a source starts only
with sound in its queue. Of `Places` no more is used than that the place it picks is
inside the queue and before the entry's end, so no induction over the queue is needed.
For the mixer it needs `MixInv`: the source that is mixed is on the list, plays, and its
place is an entry; `PlacedIs` says that wherever the inner loop ends there is sound, which
is what is written back. That the source is still there when it is, and no call changed
it, is the mutex (`MixAway`) or, for the calls that do not take it, `ListInv` and `OwnInv`:
a source being deleted has one thread, no name, and is off the list before it is freed
(`PurgedIs`). `RefsInv` counts the places in all queues as a set of pairs, as in `Buffers`;
`SpotsChange` says what replacing one queue means for it. The steps fall into a few kinds
(`StepIs`): a call that replaces one source (`Edit`), a call that goes over many and leaves
their queues (`Sweep`), a source made, removed, purged or freed, and the mixer's steps.
`ReadyInv` carries the rest of `ListMatches`: while updates are deferred, what is on the
list is prepared or `crossed`, because no call starts a source until they are processed
but the second half of an `alProcessUpdatesSOFT` that began before them, and `crossed`
says whether it was that.

**Model-checked only.** Liveness (`SomeoneEnters`, `SearchEnds`, `MixerReturns`,
`CloseEnds`, `StopEnds`): fairness and ENABLED are out of the prover's reach.
What a fold over a queue computes for every input (which place `Places` picks) is
induction over data; no theorem here rests on it. The invariants of all passing runs are
theorems, and so are their action properties and refinements.

## 5. Findings

Two runs end in a violation; TLC prints the shortest behaviour it found.

1. **A processed buffer on an initial source** (`sources_offset`,
   `OpenAL32/alState.c:645`). An offset set on a source that has not been played is
   kept for the next play, but `alProcessUpdatesSOFT` applies pending offsets
   whatever the state, and that counts earlier entries as played.
2. **The current context freed before it is referenced** (`contexts_ref`,
   `Alc/ALc.c:1609`). `GetContextRef` relies on the list lock between the read and
   the reference; `alcCloseDevice` destroys contexts without it. `FreedUnused`,
   which holds, says this is the only way.

What the exceptions in the other properties stand for:

* **Two objects with one name** (`raced` in `Thunk`, `OpenAL32/alThunk.c:76`).
  `NewThunkEntry` scans under the read lock and, if everything is taken, grows the
  array under the write lock and sets the entry its scan ended at. Two threads that
  both found the array full both set that entry. Indices stay in bounds all the same.
* **Buffers that a failed call leaves behind** (`lost` in `Buffers`,
  `OpenAL32/alBuffer.c:170`). When `alGenBuffers` fails it deletes what it has made with
  `alDeleteBuffers`, which refuses all names if one is in use or gone. None can be in use
  by a program that does not use names after it deleted them; with one that does, the
  other new buffers stay in the map under names the application never learns.
* **A buffer or a slot freed while it is taken** (`raced` in `Buffers` and
  `EffectSlots`, `OpenAL32/alBuffer.c:221`, `OpenAL32/alAuxEffectSlot.c:142`). The
  count is tested with no lock; a source that takes the object between test and free is
  left with a pointer to it. The removal goes by name, and a name may have changed hands
  since it was tested: then it is the new object that is freed, though its count was
  never looked at. In `Buffers` the flag also stands for a name that changed hands
  between the two lookups of `alSourceQueueBuffers`, whose new buffer was never compared
  with the queue's format, and of the `AL_BUFFER` setter.
* **An array of slots that is used while it grows** (`torn` in `EffectSlots`,
  `OpenAL32/alAuxEffectSlot.c:59`). `alGenAuxiliaryEffectSlots` makes room for all its
  slots without the lock. Between its `realloc` and its stores another thread or the
  mixer may use the array that was freed, and a size computed before other threads
  doubled it twice makes it smaller. `TypeOK` and `SlotsLive` claim nothing of the list
  then.
* **Stale copies of sends** (`MixesLiveSlots`): while updates are deferred, the
  mixer writes to the copies of sends in `Params`, and a slot whose last send has moved
  on can be deleted under it.
* **More sources than the list has room for** (`OverrunNeedsDeferral`):
  `alSourcePlayv` makes room call by call, counting only the sources that are active
  already; two deferred plays of one source each find the same room, and
  `SetSourceState` appends without looking.
* **A source mixed before its parameters exist** (`crossed` in `Sources`,
  `OpenAL32/alState.c:634`): `DeferUpdates` is cleared before the context is locked; if
  another thread defers again first, the deferred plays start while deferral is on, and
  the mixer skips `ALsource_Update` for a source that has never had one. `ListMatches`
  says that nothing else leads there.
* **A capture call after its device was closed** (`wild` in `Capture`,
  `Alc/ALc.c:1772`): a call that had verified its device goes on with backend data that
  the close has freed. `DeviceOutlivesCalls` says that the device itself is still there.
* **Closing a capture device that is being lost** (`CloseEnds`, `Alc/ALc.c:1723`).
  The close joins the capture thread with the device mutex held; the capture thread,
  whose read failed, waits for that mutex in `aluHandleDisconnect`.
* **Mac OS X sources** (`odd`): `joined`: playing again with `mCurrentBufferIndex`
  past the first active entry, and entries that were played before, puts the two lists
  together in another order, as does an index beyond the end of the active list.
  `swapped`: a converted buffer at the end of a queue that does not loop swaps the lists,
  and what was played comes after it. `flushed`: buffers queued while a
  `SetBuffer` waits are flushed with what it replaces. `replaced`: a removal that
  is left to the render thread while a `SetBuffer` waits was counted against the old
  queue and is handled after it was replaced. `cut`: that message sets the
  source to STOPPED and leaves it connected. `lost`: a message that ends in an exception
  takes the later ones with it. `stale`: a queue that runs dry while a message waits
  stops the source first, and the message acts on it later. `unlocked`:
  `GetBuffersProcessed` moves an entry while the render thread is in a slice, and the
  entry, or the step of the render thread, is lost or done twice
  (`src/OpenAL-MacOSX/oalSource.cpp:844`). `unramped`: a play
  between the two steps of `alDeleteSources` leaves a source that nothing ramps down, so
  that its end never comes. Two more are visible in the functions: a looping queue
  that starts with a converted buffer repeats that buffer only (`Cross`), and `Play`
  while the ramp is complete is dropped (`Play`).

## 6. What is not modelled, and why

* **Sample arithmetic** (resampling, panning, HRTF, filters, effects, format
  conversion): floating point, with no control flow that the rest depends on.
* **Backends other than OSS capture**: bindings to sound systems. What the core
  relies on (start, a stop that joins, a loss of the device) is in `Contexts`.
* **Setters of positions, gains, cones, filters and effect parameters, listener,
  effects and filters as objects, getters, error state, enumeration, configuration**:
  single assignments under a lock, copies, range tables and parsing.
* **Attributes of `alcCreateContext`**: any attribute list may or may not stop the
  device (`StopForAttributes` in `Contexts`); the number of sends it changes is in
  `EffectSlots`.
* **Suspended contexts and loopback devices**.
* **The rest of the Mac OS X implementation**: contexts, devices, capture and buffers
  keep most of their state in the system's frameworks, which are not here. Of a source,
  gain, pitch, distance, reverb and the settings of a bus are left out.
* **`src/OpenAL-Sample`** and **`src/OpenAL-Windows`**: an older implementation of the
  same interface, and a library that forwards calls to one found at run time.

## 7. Plan

Done: the lock, the names and the maps everything rests on; buffers; the source state
machine with the mixer; effect slots; devices and contexts; capture; the sources of the
Mac OS X implementation. Next, in this order:

1. The double lookup of `alSourcePlayv`, and the order of the entries in the array of
   active slots.
2. An abstract source of four states and a queue split in processed and pending,
   which `Sources` and `MacSource` both refine.
3. A playback backend's loop and loopback devices beside `Contexts`.
