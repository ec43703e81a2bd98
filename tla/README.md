# A TLA+ model of libudmaio

libudmaio receives data from a Xilinx AXI DMA core (stream to memory) in user
space. The core writes the incoming stream into buffers along a ring of
descriptors; the library walks the same ring behind it, hands the data to
readers and gives the buffers back. This directory models that data path, from
register access and the descriptor ring up to the queue that readers block on,
together with the video DMA driver and its frame geometry. It checks them with TLC
on small instances; TLAPS proves the safety properties, refinements included, for
every instance.

All source paths below are relative to the repository.

## The system and its parts

| Component | State it keeps | Operations | Talks to |
|---|---|---|---|
| `UioMemSgdma` (`src/UioMemSgdma.cpp`) | ring size, read cursor; descriptors and buffers in memory shared with the core | `init_buffers`, `get_full_buffers`, `get_next_packet`, `read_buffers` | the core, through the complete bit of each descriptor |
| `UioAxiDmaIf` (`src/UioAxiDmaIf.cpp`) | the core's control, status and pointer registers | `start`, `clear_interrupt`, `check_for_errors` | the core, register by register |
| AXI DMA core (hardware) | current descriptor, run/stop, error and interrupt bits | fetch, fill, complete, halt | descriptors, buffers, interrupt line |
| `DataHandlerAbstract` (`src/DataHandlerAbstract.cpp`) | an `io_service`, a descriptor it waits on | `operator()`, `_start_read`, `_handle_input`, `stop` | the kernel's interrupt delivery, the ring, `process_data` |
| `ConcurrentQueue` (`inc/udmaio/ConcurrentQueue.hpp`) | queue, mutex, condition variable, abort flag | `pop`, `push`, `abort` | readers and the I/O thread |
| `DataHandlerSync` (`src/DataHandlerSync.cpp`) | a queue and an I/O thread | `read`, `process_data`, `stop` | both of the above |
| `DataHandlerPython` (`pyudmaio/src/DataHandlerPython.cpp`) | as `DataHandlerSync` | `start`, `numpy_read`, `numpy_read_nb` | ring and core directly (polled), or the queue |
| `HwAccessor`, `UioConfig`, `RegAccessor`, `UioIf` | mappings, file descriptors, the process-wide link type | register and bulk access, interrupt arm and wait | kernel drivers |
| `UDmaBuf`, `FpgaMemBuffer*` | a mapped or streamed data buffer | `append_from_buf` | memory |
| `FrameFormat`, `UioAxiVdmaIf` | frame geometry; video DMA registers | setters; configure, start, stop, reset, detect | video DMA core |
| Python binding (`pyudmaio/src/PythonBinding.cpp`) | the interpreter lock, held throughout every call | forwards | all of the above |
| `Logging`, examples | none of interest | | |

What is hard here, and hard to test:

* The core and the reader share the ring without any lock. The only
  synchronisation is the complete bit, and the reader writes the status word
  back from a copy it made earlier.
* Interrupts are cleared, the ring drained and the interrupt armed again, while
  packets keep arriving between any two of these steps.
* The queue's abort flag is written outside its mutex, and its waits mix timed
  and untimed consumers on one condition variable.
* A ring that fills up, a ring of one descriptor, a session that ends with a
  DMA error and is started again.
* Starting, stopping and destroying a handler while its I/O thread pushes and its
  readers wait.
* Python threads that hold the interpreter lock while they sleep in the library.
* Descriptors that two objects believe to own.
* A construction of several system calls that fails half way, or while devices come
  and go.
* Registers that hardware and several threads use at once, in transactions that
  may be narrower than the register.
* Values that are wider than the field they are stored in.

`PROJECT.json` lists each hazard with its line and the properties aimed at it.

## Modules

| Module | Models | Extends |
|---|---|---|
| `AxiDma` | the S2MM channel (hardware) and `UioAxiDmaIf` | |
| `UioMemSgdma` | the ring as the reader sees it | `AxiDma` |
| `BufferFifo` | what the ring and its engine promise together | |
| `DataHandlerPython` | polled reception: `start(init_only)` and `numpy_read_nb` | `UioMemSgdma`; instantiates `BufferFifo` |
| `Reception` | what an I/O thread promises the rest of the library | |
| `DataHandlerAbstract` | interrupt-driven reception | `UioMemSgdma`; instantiates `Reception` |
| `BlockingFifo` | what the queue promises | |
| `ConcurrentQueue` | the queue as it is written | instantiates `BlockingFifo` |
| `DataHandlerSync` | I/O thread, queue, readers and owner of a handler, in C++ and Python programs | instantiates `ConcurrentQueue`, `Reception` |
| `EventFile` | who closes the interrupt descriptor | |
| `DmaBuffer` | where data buffers lie and how they are read | |
| `UioConfig` | choice of the link, look-up of a device, construction of an accessor | |
| `HwAccessor` | register and bulk access | `UioConfig` |
| `MCHwAccessor`, `MCUioAxiVdmaIf` | devices and registers, frame buffers and formats for TLC | `HwAccessor`, `UioAxiVdmaIf` |
| `UioAxiVdmaIf` | the video DMA channel (hardware) and its driver | |
| `FrameFormat` | frame geometry | |
| `ConcurrentQueueProofs` | theorems about the queue | `ConcurrentQueue` |
| `UioMemSgdmaProofs` | the invariants of the ring and every step of reader and engine | `UioMemSgdma` |
| `DataHandlerPythonProofs` | theorems about polled reception | `DataHandlerPython`, `UioMemSgdmaProofs` |
| `DataHandlerAbstractProofs` | theorems about interrupt-driven reception | `DataHandlerAbstract`, `UioMemSgdmaProofs` |
| `DataHandlerSyncProofs` | theorems about the handler with a queue | `DataHandlerSync`; instantiates `ConcurrentQueueProofs` |
| `DmaBufferProofs` | theorems about the data buffers | `DmaBuffer` |
| `HwAccessorProofs` | theorems about construction and register access | `HwAccessor` |
| `UioAxiVdmaIfProofs` | theorems about the video DMA driver and the frame format it is given | `UioAxiVdmaIf`, `FrameFormat` |

### `AxiDma`

Registers are records of the bits the driver uses (`dmacr`, `dmasr`); the other
half of the register map (MM2S) is never touched. A descriptor is its index; its
status word (`status`) keeps the complete, SOF and EOF bits and whether the byte
count is zero, because these decide what the reader does. A buffer (`mem`) holds
one *chunk*: the stream position of its contents, counted modulo `NumTags`, and
the packet boundaries in it.

The engine is hardware and marked external in the map. It follows the register
description in `inc/udmaio/rdl/AxiDma.hpp`: it fetches the current descriptor
(`FetchDesc`), halts with a scatter/gather internal error if the descriptor is
still complete (`FetchStale`), may meet a bus error (`BusError`), and completes
a descriptor (`CompleteDesc`): data, then status word, then the next pointer of
the chain, and the interrupt-on-complete bit if the chunk ends a packet. Which
faults it shows is the constant `Faults`; two of them are not errors of the
channel but deviations the driver has code for: a packet without SOF (`no_sof`)
and a completed descriptor without bytes (`no_bytes`).

`start` writes reset, pointer, control and tail pointer. The tail pointer is the
constant `0x50 >> 6`, commented "for circular": it works because no descriptor
has that address. This is the assumption `TailAssumption` about the address of
the descriptor memory. `start` is one step because the core does not run before
its last write; the soft reset is taken to be complete by then.

### `UioMemSgdma`

The local variables of a call are state variables, and each access to a status
word or a buffer is a step of its own, because the engine runs on in between:
`FullTake`/`FullReturn`/`FullThrow` are the turns of the loop in
`get_full_buffers`, `PacketSkip`/`PacketTake`/`PacketReturn`/`PacketThrow` those
of `get_next_packet`, and `ReadStat`, `CopyBuf`, `ClearStat` the accesses of
`read_buffers`. `init_buffers` is one step: the engine is stopped then.
`last_read` is a history variable: the tag of the chunk last released.

### `DataHandlerPython` and `DataHandlerAbstract`

Both compose ring and channel with a caller. In the first the caller polls; it
starts the channel at first and again after an error. In the second the I/O
thread is driven by the interrupt: `arm_interrupt`, `async_read_some`, then
`Dispatch` (the `io_service` calls `_handle_input`), `wait_for_interrupt`,
`ReadDmasr`, `ClearDmasr`, `CheckErrors`, the drain loop and back. An exception
out of the handler leaves `run()` and ends the thread (`dead`). `DeliverIrq` is
the kernel: the UIO driver masks the interrupt when it delivers one until it is
armed again; an XDMA event is sent for each rise of the line and arming does
nothing. `stop` may come from any thread at any time.

Both are shown to implement something simpler. `BufferFifo` is the ring without
descriptors, complete bits and cursors: a FIFO of at most as many chunks as there
are buffers. Its content is `Unread`, the complete buffers from the reader's oldest
unreleased one on; a chunk leaves it when the reader clears its complete bit.
`Reception` is the I/O thread without interrupts and rings: wait, handle, wait again;
data move only in the handler, no handler begins after `stop`, none is cut short by
it, and exceptions come only out of the handler.

### `ConcurrentQueue`

The unit of interleaving is what happens under the mutex, with three exceptions
that the code makes observable: the abort flag is read as a step apart from the
wait that follows it (`PopSeesNoAbort`, `PopWait`), because `abort` takes no
lock; every `notify_one` is a step after the unlock (`NotifyOne`); and waking up
and getting the mutex back are two steps (`Expire`/`NotifyOne`/`SpuriousWake`,
then `PopRelock` or `PopTimeout`). `wait_for` may report a timeout even if a
notification woke it, when the time is up by the time it has the mutex.
The unsynchronised access to `_abort` is modelled as an atomic flag; reading an
old value is the same as reading it earlier. The values pushed are numbered
modulo `NumItems`, so that order and duplication show.

### `DataHandlerSync`

The queue is `ConcurrentQueue` itself, step by step, with the I/O thread as its
producer and the owner as the caller of `abort`. The reception is reduced to what
the queue sees of it: blocks arrive in the ring (`Arrive`), an event starts the
handler, which throws if the channel has failed (`CheckErrors`) and else pushes until
the ring is empty, and looks at the stop flag only then. That the reduction keeps the
promises of the full thread is checked by a common abstract specification:
`DataHandlerAbstract` and `DataHandlerSync` both implement `Reception`. An exception
that leaves the I/O thread (a DMA error, a descriptor without bytes, a full queue) ends
the process: `life = "terminated"`, as does assigning to a `std::thread` that has not
been joined (`Run`, `Start`).

`python` says which kind of program uses the handler. A Python program calls
`start`, with an I/O thread or with `init_only`, `numpy_read`, `numpy_read_nb` and
`stop`. pybind11 takes the interpreter lock for a call and none of the bindings
releases it, so a Python thread may begin a call only while no other is inside one
(`MayCall`); a thread asleep in `pop` still holds the lock. `numpy_read` throws while
the channel has an error, before it looks into the queue. A C++ program has no such
lock and sets up ring and channel before `Run`.

The owner is one thread. It destroys the handler when the readers are out of `read()`
and, if there is an I/O thread, after `stop()` has returned; without `stop()` the
destructor would wait for ever.

### `DmaBuffer`

A block of data is its extent in physical memory. `init_buffers` places the
buffers from the start of the memory and tells the engine their addresses and, in
26 bits, their lengths; `CopiedFrom` is the address at which each kind of buffer
then reads, by its own arithmetic: relative to the mapping (`UDmaBuf`), relative to
the place inside the mapping where an AXI memory begins, or absolute in the file of
an XDMA channel. Ownership of buffers is the subject of `UioMemSgdma`; here engine
and reader take turns.

### `UioConfig`

The construction of an interface, in the steps in which it touches the system. `hw_acc`
dispatches: the override for tests, no link (an exception), UIO or XDMA. Over UIO
(`UioConfigUio`) the name is split at the colon. The index behind it is read through a
view of a string that is destroyed by then (`UioConfig.cpp:156`), so the model takes any
index, or the exception of `std::stoi`. `_get_uio_number` searches sysfs,
`_get_uio_val` reads one file of the mapping at a time (which of region and offset comes
first is up to the compiler), `OpenDevice`, `MapDevice` and `OpenEvent` may each fail.
Numbers and addresses in files are not modelled: a value is represented by the mapping
it describes, and paths by what they name at the time they are used. `HotPlug` replaces
the devices once during a construction. `fds` counts open descriptors and `lost` the
failed mappings; `set_link` may come at any time. One interface is constructed at a
time, and destroyed and constructed again.

### `HwAccessor`

Memory is an array of 32-bit words. A register or a register array is read and
written by two threads that take no lock, one bus transaction at a time: two words
where the accessor is native 64-bit and the size a multiple of it, one otherwise.
`RegisterTypes` is what the static assertions of `RegAccessor.hpp` let pass: sizes of
whole words, arrays of any stride, elements that overlap included. `operator[]` asserts
that the index is in the array (`AssertFails` ends the process) and `Offs` is its
offset. The mock throws at the end of its memory (`Overflow`); a mapping has no check.
The link may be replaced at any time; interfaces keep the accessor they were built
with. `bulk` stands for `memcpy`, which may move more than one word at a time.
An interface is destroyed when no access is in progress.

### `EventFile`

Descriptors are numbers that the kernel gives out, lowest first, and that anybody may
close. The accessor opens its event file and closes it in its destructor; a handler
wraps the same number in a `stream_descriptor`, which owns and closes it.

### `UioAxiVdmaIf`

Every register access of the driver is a step, because the core clears the run bit
on an error and halts when it likes; the accesses to one buffer's registers during
detection are one step, because nobody else uses these registers. Every operation may
be called on any channel, configured or not, halted or running: `config` with and
without a format, `init_buffers`, `set_frame_format`, `start` with and without a format,
`stop`, `reset`, `autodetect_num_frmbufs`.

A frame buffer is a `UioRegion`: the two halves of its address, and its size. The
application chooses a vector of them for each configuration: as many as the core has
frame stores, fewer (the other stores keep what they had), more (the core has no
register for them, and beyond 16 registers the assertion of `operator[]` ends the
process, `pc = "ended"`), or above 4 GiB for a core that has one register for an
address. `SizesSuffice` is `config`'s comparison of sizes, which only logs.

The core is external and follows `inc/udmaio/rdl/AxiVdma.hpp`. One thing that file does
not say, the order of the halves of a 64-bit start address (`StoreAddress`), is taken from
the driver: a driver that swaps them would not be caught. The soft reset is complete by
the next access.

Three history variables tell what has been promised. `held` are the buffers of the
application that the driver has been given; `addressed` says that each frame store has
been given an address that it can hold, which detection and reset undo and which a
short vector or one out of reach does not establish; `checked` says that `config` has
found the sizes sufficient and no format has been set without it since.
`WritesOnlyFrameBuffers` is stated about channels that are `addressed`, with two
exceptions that the code really has: a store of which `init_buffers` has written one
half of the address (`Torn`), and the extent of the frame while buffers or sizes are
being written (`Configuring`). Outside of these a running channel does write elsewhere:
it is started without a configuration, or detected while it runs.

### `FrameFormat`

All members keep their widths. Division by zero bytes per pixel either traps
(`outcome = "trapped"`, the process ends) or gives 0, as processors differ;
converting an infinite line length to 16 bits gives 0 or all ones. `Representable`
says which formats have a line length at all: a pixel fits into a word and the line
into 16 bits.

## Runs

| Run | Expect | Shows |
|---|---|---|
| `python` | pass | A polling reader: the ring stays in step with the engine (`RingOK`), no buffer is copied that the engine may write (`NoTornRead`), no write-back wipes out a completion (`WriteBackFresh`), engine and reader together are a bounded FIFO: chunks arrive in order, none lost or doubled, over restarts too (`IsBufferFifo`), packets are whole (`PacketsWhole`), the engine halts as stale only on a full ring (`StaleOnlyWhenFull`), and every completed buffer is read (`EventuallyRead`) |
| `python_faults` | pass | With missing or extra SOF and empty descriptors, stream mode delivers nothing past a gap (`StreamInOrder`) |
| `python_skip` | violation | `PacketsWhole` fails when a SOF is missing: see below |
| `handler` | pass | Interrupt-driven reception on both back ends with errors and `stop`: no packet waits unannounced (`NoMissedPacket`), each is read (`EventuallyRead`), on the UIO back end a DMA error ends the thread (`ErrorEndsThread`), `stop` works when the stream pauses (`StopsWhenQuiet`), and the thread implements `Reception` (`IsReception`) |
| `queue` | pass | Two consumers with and without timeout, a producer, `abort`, spurious wake-ups: the queue is a blocking FIFO (`IsBlockingFifo`), loses no wake-up until a `pop` times out (`NoneSleepsOnItem`), a `pop` after `abort` returns (`LaterPopReturns`), and so does a timed one that is not woken in vain for ever (`TimedPopReturns`) |
| `queue_abort` | violation | `AbortReleases`: a notification between test and wait is lost |
| `event_file` | violation | `FdIsEventFile`: after a handler is gone the interface's descriptor is closed, or somebody else's |
| `sync` | pass | The whole synchronous handler: no block is dropped while the process lives (`NothingDropped`), queued blocks are read even after `stop` (`QueueIsRead`), the destructor returns unless traffic never pauses (`DestructorReturns`); `read` with a timeout and `stop` return, and with them the interpreter lock (`CallsReturn`), and in Python `stop` leaves no reader behind (`StopLeavesNobody`), because the lock keeps it away from the window in which C++ readers are lost; the reduced reception implements `Reception` (`IsReception`) |
| `buffer` | pass | All kinds of memory: the reader gets the engine's blocks from where they are, in order (`ReadsReceived`); buffers neither overlap nor leave the memory (`BuffersApart`) |
| `access` | pass | Constructions over every link, failing anywhere, beside devices that change, then two threads on registers and arrays: a construction ends whole or not at all, and leaves no descriptor open but that of a failed mapping (`BuildIsWhole`); a register that fits into one transaction is never torn (`ReadIsWhole`), whatever the process-wide link has become since, and no access leaves its register or element (`StaysInRegister`) |
| `vdma` | pass | 16 frame stores of 32-bit addresses, two and eight of 64-bit ones, every operation at any time, with several vectors of buffers and formats: a running channel whose stores have been given addresses writes only to frame buffers, and not beyond them if `config` found nothing to log (`WritesOnlyFrameBuffers`), `stop(true)` returns (`StopReturns`) with the channel halted (`StopHalts`), a channel that stopped by itself is reported (`HaltIsReported`), the number of stores is detected exactly (`DetectExact`) |
| `frame` | pass | After each setter that returns, the line length is the shortest that holds the line (`LineLength`) |

### Disagreements with the documentation

Shown by the runs that expect a violation:

1. **`abort()` can miss a consumer** (`ConcurrentQueue.hpp:66`, run `queue_abort`).
   The flag is set without the mutex; between the test in line 33 and the wait in
   line 41 the notification finds nobody and the consumer sleeps forever.
   `notify_one` would also release only one of several consumers. Line 64 says
   "Abort any blocking consumers".
2. **A skipped buffer comes back as part of a packet** (`UioMemSgdma.cpp:164-170`,
   run `python_skip`): a buffer without SOF keeps its complete bit when the cursor
   passes it. One turn later the scan of a packet whose end has not arrived yet runs
   into it and returns it as the rest of that packet. `UioMemSgdma.hpp:112` says
   "Returns only complete packets".
3. **A handler closes the interface's interrupt descriptor**
   (`DataHandlerAbstract.cpp:33`, run `event_file`): the `stream_descriptor` is built
   from the accessor's number and owns it from then on. When the handler is destroyed
   the number is free; the interface arms, waits on and finally closes it all the
   same, whatever file it belongs to by then. A second handler on the same interface
   fails, or waits on another file. `UioIf.hpp:43` says "Get file descriptor of
   interrupt event file".

Met while modelling, and part of the models, but without a run of their own; the
properties that pass are stated around them:

4. A timed `pop` waits for its full time on every turn of the loop
   (`ConcurrentQueue.hpp:37`), so beside a second consumer it may never return:
   `TimedPopReturns` excepts a consumer that is woken in vain for ever. And it can
   swallow a wake-up (line 38): it returns `{}` on timeout without looking at the queue
   again, although the notification of a push was spent on it; an untimed consumer may
   then sleep beside an element. `NoneSleeps` does not hold, `NoneSleepsOnItem` does.
5. `stop()` does not stop a busy reception (`DataHandlerAbstract.cpp:80`): the
   drain loop ends only when the ring is empty. `StopsWhenQuiet` and
   `DestructorReturns` assume a pause in the traffic.
6. A handler cannot be started twice (`DataHandlerSync.cpp:23`): the thread of
   the first start is only joined in the destructor, and assigning to it calls
   `std::terminate`. In the model `Run` then ends the process.
7. Buffers of 64 MiB and more (`UioMemSgdma.cpp:58`) do not fit the 26-bit length
   field; 64 MiB becomes 0, and nothing is received. `buffer` includes that size.
8. Short reads over XDMA (`FpgaMemBufferOverXdma.hpp:47`) are delivered with zeros
   at the end; `ReadsReceived` excepts the contents of such blocks.
9. Bulk access in 7 series mode (`HwAccessor.hpp:238`) uses `memcpy`, of which
   `UioConfig.cpp:180` says that "the CPU will issue larger transfers and the system
   will crash". `UioConfig.hpp:68` says that connections "will be limited to 32 bits".
10. Frames of 8192 lines and more (`UioAxiVdmaIf.cpp:48`) do not fit the 13-bit
    vertical size and are cut; `vdma` has such a height.
11. `config` may set the run bit (`UioAxiVdmaIf.cpp:88`) from a copy that is out of
    date, although line 84 says "except run bit". The run includes it.
12. Detection with 64-bit addresses (`UioAxiVdmaIf.cpp:64`) needs 32 registers of
    an array of 16 and fails `assert(idx < arr_size)` on cores with eight or more
    frame stores; `vdma` has such a core, whose process ends. And it may be called on a
    running channel, which then stores frames at the test patterns.
13. `numpy_read` throws once the channel has an error, whatever the queue still holds
    (`DataHandlerPython.cpp:45`); an error is certain if the stream goes on after
    `stop()`, because the ring fills up. `QueueIsRead` excepts this case.
14. A Python thread in `read()` without timeout holds the interpreter lock
    (`PythonBinding.cpp:209`): no other thread can call `stop()`, or do anything, until
    data arrive.
15. A rejected format leaves new dimensions with the old line length
    (`FrameFormat.cpp:110`); `LineLength` speaks of calls that returned.
16. A frame buffer that is too small is logged and used (`UioAxiVdmaIf.cpp:97`), and
    `start(frm_format)` compares nothing: the core writes beyond the buffer.
17. A vector of frame buffers shorter than the last one leaves the other stores with the
    old addresses, and a 32-bit core gets the low half of an address above 4 GiB
    (`UioAxiVdmaIf.cpp:27`, `:35`); neither is reported.
18. The mapping index of `name:1` may come out as another one (`UioConfig.cpp:156`,
    undefined behaviour), although the comment in line 144 says that the second mapping
    "can only be selected with `example_app_top:1`". `BuildIsWhole` speaks of the index
    that came out.
19. A failed `mmap` leaves the device open (`HwAccessor.hpp:147`).

### Bounds

`python` uses three descriptors, the smallest ring in which a buffer has
neighbours on both sides that are neither itself nor each other, and a ring of
one, where the cursor meets itself at every step; the second start after an
error may choose the other size. `NumTags` is larger than the ring by two so that
no two chunks in the system share a tag and a chunk from one turn earlier is told
apart. `handler` uses two descriptors: the interrupt protocol does not depend on
the size of the ring, only on its being empty, partly or completely full.
`queue` has two consumers, enough to compete for a wake-up, and capacity two,
enough for one element to be left when another is taken; items modulo three.
`sync` has one reader, with and without timeout, a queue of two and a ring of one
block that is filled again while the thread drains it, so that the queue fills up
while a block is in flight; items modulo three tell these blocks apart. One reader and
the owner are enough to compete for the interpreter lock. `event_file` has three
descriptors, one more than the interface and another file need. `buffer` takes rings of one and three buffers, sizes of 64 bytes, of the
largest a descriptor can name and of one byte more, and seven blocks, two turns of
the ring.
`access` has registers of two, three and four words, the smallest range with an odd size
above one and a size of two 64-bit transactions, and arrays of two elements of one and
two words with strides of one to three: side by side, with a gap, overlapping. One value
is written beside the initial one, which is enough to tell a mixture; the mock has three
words, so that some accesses run over its end and some begin beyond it. There are two
devices with two mappings and one, two numbers for them, and every assignment of devices
to numbers, so that two devices of one name and none at all occur; the devices change
once during a construction, and one mapping may fail (`MaxLost`). `vdma` uses 16
frame stores of 32-bit addresses, all the accessor array holds, two of 64-bit addresses,
where a configuration may be torn, and eight, the first number at which detection fails.
Its vectors have two buffers below 4 GiB, one of them small, two above, and 16; one format
fits all buffers but that one; the height of the other does not fit its register, and by
`config`'s reckoning no buffer holds it. It has an
error that halts and one that is noted only and raises the first. `frame` takes values
at the ends of each type.
`CHECK_DEADLOCK` is off for `handler`, where the I/O thread really ends, for
`sync`, where the handler is destroyed or the process ends, for `frame`, where
the process ends on a trap, and for `access` and `vdma`, where a failed assertion ends
it.

### Fairness

* `python`: the caller goes on polling (weak fairness of `numpy_read_nb`). No
  fairness of the engine: nothing says that data arrive.
* `handler`: weak fairness of the I/O thread (it is a thread that is scheduled)
  and of interrupt delivery (the kernel does not forget an interrupt). None for
  the engine, for `stop`, or for I/O errors.
* `queue`: weak fairness for a thread inside a call; strong fairness for getting
  the mutex, which is contended: a thread that finds it free again and again
  gets it. A timed wait ends (`Expire` is part of `PopStep`). No thread is
  obliged to call `pop`, `push` or `abort`.
* `sync`: the same for the threads of the handler, and readers that come back from
  `read()` call it again, as the loops of the examples do; strong fairness of that
  call, because the interpreter lock it needs is passed on to a thread that waits for it. None for arriving blocks,
  errors, or the owner's calls.
* `vdma`: weak fairness of the driver's thread inside a call, and of a channel whose
  run bit is clear: it halts ("There can be a lag of time",
  `inc/udmaio/rdl/AxiVdma.hpp:238`). None for errors and frames.

## Proofs

`ConcurrentQueueProofs` proves, for any sets of threads, any capacity, any number
of items:

* `LockDiscipline`: `Spec => []TypeOK`. Its substance is the last two conjuncts:
  the mutex is held by exactly the thread between lock and unlock, and the
  waiters are exactly the consumers in the condition variable.
* `Refinement`: `Spec => IsBlockingFifo`: every step of the queue is a step of
  `BlockingFifo` or a stutter. The result of a call is `Pending` exactly while it
  has not taken effect, which is what makes each call atomic at one point.
* `NoLostWakeup`: `Spec => []NoneSleepsOnItem`, no wake-up is lost until a `pop`
  has timed out. The history variable `gave_up` is needed: without it the property
  (`NoneSleeps`) fails as soon as timed and untimed consumers share the queue.

The inductive invariant `IInv` adds to `TypeOK` that results and places agree
(`CallsOK`), that a kind of thread visits only its own places, and that the queue
is still empty when a consumer is about to wait: it holds the mutex, and pushing
needs it. The last part is what keeps a wake-up from being lost: a consumer falls
asleep only on an empty queue, so an element that is in the queue while somebody
sleeps came by a push that still has to notify, or whose notification woke a
consumer that is on its way.

### The descriptor ring

`UioMemSgdmaProofs` holds the inductive invariants of the ring and one lemma for each
step of the engine and of the reader; both handlers use them. None of the properties
is inductive by itself. There are three layers.

*Ownership* (`RingInv`) holds whatever faults the hardware shows:

* `ShapeOK`: how many indices, status words and chunks a call holds at each place
  of its course, and that a scan has advanced as often as it has looked;
* `ConsecutiveOK`: the indices a call has found are consecutive around the ring
  and fewer than its descriptors, therefore distinct. Without this, releasing one
  buffer could release another that the call has still to copy;
* `OwnershipOK`: a buffer found and not yet released is complete, the copies of
  status words not yet written back equal the words in memory, and the engine
  holds no complete descriptor (cyclic mode is off).

*Order* (`OrderInv`) says what the ring holds. `Fill` counts the complete descriptors
from the reader's oldest unreleased buffer to the engine; `LinkOK` says that these and
no others are complete, `ChainOK` that their chunks continue the stream behind the
last chunk read, each the successor of the one before, `CursorOK` where
`next_readable_buf` is at each place of a call, `BytesOK` that a copied chunk is the one
in the buffer until the buffer is released. Distances around the ring are written with
a comparison (`Wrap`, `Dist`), not with `%`, which keeps the arithmetic linear.

*Packets* (`PacketInv`): a caller that asks only for packets has its cursor at the
start of one (or where one will start), and the buffers a call holds are those of one
packet.

Order breaks when a descriptor lacks its SOF bit (packet mode) or its byte count
(stream mode: `get_full_buffers` throws and has already moved its cursor), so the
theorems that rest on it exclude those faults where they must:

| Theorem (`DataHandlerPythonProofs`) | Statement | Faults |
|---|---|---|
| `PollTypes`, `PollNoTornRead`, `PollWriteBackFresh` | `[]TypeOK`, `[]NoTornRead`, `[]WriteBackFresh` | all |
| `PollStreamInOrder` | `[]StreamInOrder` | all |
| `PollPacketsWhole` | `[]PacketsWhole` | without `no_sof` |
| `PollRingOK` | `[]RingOK` | without `no_sof`, `no_bytes` |
| `PollStaleOnlyWhenFull` | the action property `StaleOnlyWhenFull` | without `no_sof`, `no_bytes` |
| `PollIsBufferFifo` | the refinement `IsBufferFifo` | without `no_sof`, `no_bytes` |

They hold for every size of the descriptor memory and of the ring, any number of
restarts and every set of DMA errors. `PollStreamInOrder` needs no exception because a
reader that has lost buffers (`Stuck`) stays at a descriptor without bytes and never
returns a chunk again. For `PollIsBufferFifo`, `UnreadOK` identifies the refinement
mapping `Unread` with the chunks between reader and engine in ring order (`Chain`); a
completion appends to that sequence, a release takes its head, a restart empties it,
and every other step leaves it alone.

`DataHandlerAbstractProofs` applies the same lemmas to the I/O thread. `HandlerTypes`
and `HandlerIsReception` (every step is one of `Reception` or a stutter) hold for all
faults. `HandlerNoMissedPacket` (without `no_sof`) is the argument that interrupts and
draining leave no gap, and needs `AnnounceInv`:

* `EndAnnounced`: at every place from which the thread may go to sleep, the end of a
  packet in the ring implies that the status register still has its interrupt bit. The
  bit is cleared only on the way into the drain loop, and the loop ends only when the
  last call has found no end of a packet (`HandlerOrder`: the cursor is where the
  unread data begins);
* `IrqEnabled`, `AxiUnmasked`, `XdmaUnmasked`: the bit reaches the thread. With UIO, an
  interrupt that is masked while the thread waits is pending; with XDMA, the line
  falls when the bit is cleared, so that its next rise is an event.

### The handler with a queue

`DataHandlerSyncProofs` reuses the proofs of the queue: it instantiates
`ConcurrentQueueProofs`, shows that each of its actions on the queue is one of
`ConcurrentQueue`, and so inherits `IInv`. `SyncInv` adds that the I/O thread is inside
the queue only while it drains, that it has pushed all it has taken but for the
block in its hands, and that the destructor finds nobody inside a call.
`SyncTypes`, `SyncNothingDropped` and the refinement `SyncIsReception` follow, for any number of readers, any capacity and any number of
blocks. `SyncAssumption` names what is assumed of the constants: the threads are
distinct, there is at least one block, and the markers `Pending` and `Empty` are not
blocks. A queue without any room is included.

### Buffers and registers

`DmaBufferProofs`: `BufferReadsReceived` and `BufferBuffersApart`, for every number and
size of buffers over every kind of memory. `Queued` says that the unread blocks are in
the buffers from reader to engine, in order; the address each copy begins at is then
that of the block (`CopiedWhereStored`). `BufferBuffersApart` assumes that the
buffers asked for fit into the memory (`BuffersFit`): `init_buffers` does not check it.

`HwAccessorProofs`: `AccessBuildIsWhole` for all sets of devices, mappings, numbers and
links. It rests on `ConfigInv`: `Descriptors` accounts for every open descriptor (the
accessor's, the construction's, one for each failed mapping), `Exclusive` says at which
step which kind of accessor can be, and `Traced` follows what a construction over UIO has
found so far, as long as the devices have not changed.
`AccessTypes`, `AccessStaysInRegister` and `AccessReadIsWhole` hold for
any number of threads, every size of a register and every size and stride of an array.
`InLoop` keeps the position of an access
below the size, and even where the loop moves two words: an odd number of words goes
through the 32-bit loop, so the last transaction ends with the element. `OneValue` and
`FreshAtStart` give whole reads: a register that one transaction covers always holds
words of one value, and a read of it is a single transaction; elements that do not
overlap do not disturb each other (`ElementsApart`).

### Video DMA

`UioAxiVdmaIfProofs` proves `TypeOK`, `WritesOnlyFrameBuffers`, `StopHalts`,
`HaltIsReported` and `DetectExact` for every number of frame stores up to the 16 the
core may have, both widths of addresses, all vectors of frame buffers, formats and errors,
and all operations at any time. `Written` says that `init_buffers` has written the
registers below its index from the vector in hand. `Addresses` is the core of the
argument: once every store has been given a buffer, each store has one of the buffers in
use at every moment, those of the vector that is being written included, but for
the store of which half an address is written; the old buffers leave that set only when the
last register is written. `Compared` carries the outcome of `config`'s comparison through
the writes of the three size registers to the extent of a frame in memory (`FrameFits`: cut
to its 13 bits a height only gets smaller). `Stopped` and `Started` follow the stale copy of the
control register through `config`. `PassesExactly` is the correctness of the two test
patterns: a buffer passes if and only if the core has its registers. The constants are
assumed to be in the ranges of their types (`VdmaAssumption`), and the product in
`get_frm_size`, an `int`, not to overflow (`FrameSizeAssumption`).

The same module extends `FrameFormat` and proves `FormatLineLength`
(`LineLength`) for all dimensions, pixel sizes and word widths in the ranges of their
types (`FormatAssumption`): `Ceil` characterises the
rounded-up division as the least sufficient number of words, and under
`Representable` the product does not overflow 16 bits.

### What is only model-checked

Liveness (`EventuallyRead`, `LaterPopReturns`, `TimedPopReturns`, `StopsWhenQuiet`,
`ErrorEndsThread`, `DestructorReturns`, `QueueIsRead`, `CallsReturn`,
`StopLeavesNobody`, `StopReturns`): it rests on fairness and `ENABLED`, which the
prover does not handle. Every invariant, action property and refinement that a
passing run checks is also a theorem.

## What is not modelled

* The contents of the files in sysfs and the arithmetic on them: page offsets, the
  offset inside of a mapping, `region.addr | pcie_offs` over XDMA. A register that lies
  beyond the mapped region.
* Event descriptor 0, which `~HwAccessorXdma` would not close.
* Builds without assertions, in which an index beyond a register array reaches the bus.
* The link replaced by one thread while another constructs an interface
  (`UioConfig.cpp:46`): a data race; the model replaces it between any two steps.
* A handler that is destroyed without `stop()` or while readers are in `read()`.
* The lifetime of Python objects: `DataHandlerPython` gives up its references to
  channel, ring and memory before the base class joins the I/O thread.
* Logging and examples: log output and demonstrations, no state of the library. The
  Python class `UioReg` is a sequential shadow of a register and talks to no other part.
* Memory ordering between CPU and core: a status word written is seen by the
  engine at once, and data are in memory when the complete bit is.
* The duration of the soft reset, and `start` on a running channel.
* Two readers on one ring (`numpy_read_nb` beside an I/O thread).

## Plan

1. Done: every module listed above, and the first proofs.
2. Done: the abstract specifications `BufferFifo` and `Reception` with their
   refinements, Python programs in `DataHandlerSync`, the interrupt descriptor.
3. Done: proofs of every invariant, action property and refinement that a passing run
   checks.
4. Proofs: `StreamInOrder` and what `get_full_buffers` leaves behind for
   `DataHandlerAbstract`; that the number of blocks in `DataHandlerSync` is that of
   the packets `DataHandlerAbstract` finds, which would join the two refinements of
   `Reception`.
