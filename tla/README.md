# tommyos in TLA+

tommyos is a small operating system kernel for x86-64: a UEFI boot loader, and
a kernel that sets up memory, draws a desktop, finds the xHCI USB host
controller on the PCI bus and drives a USB mouse and keyboard through it. These
modules model the parts of it whose correctness depends on the order in which
things happen, or on indices that wrap around. TLC checks them on small
instances and TLAPS proves the main results for every value of the constants.

## 1. Inventory

| component | state | operations | who talks to it |
|---|---|---|---|
| `ArrayQueue` (`queue/queue.hpp`) | `data_`, `read_pos_`, `write_pos_`, `count_` | `Push`, `Pop`, `Front`, `Count` | the interrupt handler pushes, the event loop pops |
| event loop (`main/main.cpp` 238-305), `IntHandlerXHCI` | RFLAGS.IF, `main_queue` | `cli`, test, `sti; hlt`, pop, `sti`, drain | MSI from the xHC; calls `ProcessEvent` |
| port configuration (`usb/xhci/xhci.cpp`) | `port_config_phase[256]`, `addressing_port`, PORTSC | `ConfigurePort`, `ResetPort`, `EnableSlot`, `AddressDevice`, `InitializeDevice`, `ConfigureEndpoints`, `CompleteConfiguration`, three `OnEvent`s | event ring in, command ring and doorbells out |
| `DeviceManager` (`usb/xhci/devmgr.cpp`) | `devices_`, `device_context_pointers_` (DCBAA) | `AllocDevice`, `LoadDCBAA`, `FindBySlot` | port configuration; the controller reads the DCBAA |
| USB device (`usb/device.cpp`, `usb/xhci/device.cpp`) | `initialize_phase_`, `class_drivers_`, `event_waiters_`, `setup_stage_map_`, transfer rings | `ControlIn/Out`, `InterruptIn`, `OnTransferEventReceived`, `InitializePhase1..3` | transfer events in, transfer rings out, class drivers |
| HID drivers (`usb/classdriver/*`) | `initialize_phase_`, endpoints, buffers | `OnEndpointsConfigured`, `OnControlCompleted`, `OnInterruptCompleted` | the USB device; the mouse observer moves a layer |
| rings (`usb/xhci/ring.cpp`) | buffers, `write_index_`, `cycle_bit_`, ERDP | `Ring::Push`, `EventRing::HasFront/Front/Pop` | shared memory with the controller |
| start-up (`main.cpp` 202-238, `Controller::Initialize`, `Run`) | operational registers, USBLEGSUP, the MSI capability, DCBAA, ERST | `lookupXHC`, `ConfigureMSI`, `RequestHCOwnership`, `Initialize`, `Run` | the controller, the firmware; takes blocks from the USB memory |
| USB memory (`usb/memory.cpp`) | `alloc_ptr` | `AllocMem` | rings, devices, DCBAA |
| frame allocator (`memory_manager/`), memory map (`main.cpp` 148-176), `sbrk` | `alloc_map_`, range, program break | `Allocate`, `Free`, `MarkAllocated`, `SetMemoryRange` | boot, the heap |
| layers (`layer/`, `window/`) | `layers_`, `layer_stack_` | `NewLayer`, `UpDown`, `Hide`, `Move`, `Draw` | boot, mouse observer |
| console (`console/`) | cursor, line buffer | `PutString`, `Newline`, `Refresh` | `printk`, `Log` |
| PCI (`pci/`) | `devices[]`, `num_device` | `ScanAllBus`, `ConfigureMSI` | boot |
| boot loader (`BootLoaderPkg/Main.c`) | memory map, map key | open files, load, `ExitBootServices` with a retry | UEFI |
| frame buffer (`graphics/`, `font/`) | memory, lines longer than the screen | `Write`, `DrawDesktop`, `WriteAscii` | console, windows |
| segments, paging | tables written once | | boot |

There is one CPU and one thread. What runs beside it is the interrupt handler,
and the controller with the ports and devices behind it. They share
`main_queue` (with the handler) and the rings, the DCBAA, PORTSC and ERDP (with
the controller). The behaviours that are hard to get right, and that no unit
test reaches, come from that:

* the CPU halts by a decision made on `Count()` and is woken by one interrupt
  that may stand for many events, while the controller stays silent as long as
  ERDP.EHB is set;
* several ports want to be reset at once, but only one device may listen to
  the default address; the handler that passes this right on spins inside
  `Port::Reset` while the controller writes more events;
* events that say less than they seem to (a port status change may be a
  connect, the end of a reset or stale) and completions that may report a
  failure nobody reads;
* devices that disappear at any point of the sequence;
* a screen on which three writers meet, and of which nobody keeps a copy: the
  console writes into it or into a window, layers are painted over each other,
  and the pointer has to vanish from where it was;
* TRBs that the controller reads while the driver writes them, in rings of
  which neither side tells the other its position;
* before all that, a firmware that changes its memory map between two calls of
  the loader, runs the controller that the kernel resets, and describes memory
  and buses in lists the kernel takes as they come.

What makes each part correct:

* queue: a bounded FIFO whatever the compiler keeps in registers;
* event loop: no event stays in the ring with the CPU asleep;
* port configuration: one device at the default address at a time, every
  completion expected, every device configured in the end;
* device: each completion reaches the request it belongs to, the configuration
  is read as it is meant, reports flow and observers hear of what is new;
* rings: a FIFO channel, each TRB complete and once;
* frame allocator: no frame twice, none the firmware keeps, none lost;
* loader: the kernel of the file, with the last memory map, which lists it;
* PCI: every function once, the best controller found;
* start-up: the controller is reset and set up only when it may be, and finds
  its structures, which do not overlap;
* layers: each layer in the stack at most once, at the height asked for, and
  the uppermost one on the screen;
* console: what it writes to shows the last lines of all that was put.

## 2. Modules

| module | models |
|---|---|
| `BoundedFifo` | what `ArrayQueue` promises |
| `ArrayQueue` | the queue's members and operations as operators |
| `ArrayQueueSpec` | the queue as a state machine, refines `BoundedFifo` |
| `EventLoop` | event loop, interrupt handler, EHB; uses `ArrayQueue` for `main_queue` |
| `AddressLock` | what the comment at `xhci.cpp:32-43` promises |
| `PortConfig` | port configuration with `DeviceManager`, the standard device initialisation and the controller; refines `AddressLock` |
| `DescriptorReader` | what the driver makes of a configuration descriptor, and what it should |
| `Device` | control transfers, initialisation and HID drivers of one device, with failures; uses `DescriptorReader` |
| `TrbChannel` | what a ring promises between driver and controller |
| `TrbRing` | `Ring::Push` against a reading controller, refines `TrbChannel` |
| `EventRing` | `HasFront`, `Pop` and the drain loop against a writing controller, refines `TrbChannel` |
| `FrameAllocator` | memory map, `BitmapMemoryManager`, heap |
| `BootLoader`, `PciScan`, `StartUp`, `UsbMemory` | the loader; the search of the buses; from there to `sti`; the pool |
| `Boot` | the three one after the other, on one machine |
| `Layers` | layers, windows, frame buffer |
| `Console` | the text console; extends `Layers`, whose pixels it writes |
| `Desktop` | `main.cpp`'s use of both, with the mouse |
| `*Proofs` | the proofs: `MainQueueProofs` of the queue and the event loop, `BootProofs` of `Boot` and its parts, `DesktopProofs` of `Desktop` and its parts, one module for each of the others |
| `MC*` | instances for TLC |

### ArrayQueue, ArrayQueueSpec

`Queue` is a record of the four members. `Pushed` and `Popped` return the
members after the call. `main_queue_data` is not initialised in the kernel, so
`Init` lets the array hold anything. `PoppedAt(q, n)` is `Pop()` when `count_`
was read earlier: the loop calls `Count()`, `Front()` and `Pop()` in a row and
the compiler may keep the member in a register until it writes it back, which
is where the handler's `Push` would be lost.

### EventLoop

`pc` is where `KernelMainNewStack` stands; a step is what it does between two
points at which an interrupt or the controller can come in.

| action | code |
|---|---|
| `StiBeforePorts`, `EnterLoop` | `main.cpp:238`, the port scan and windows up to `:281` |
| `Cli`, `TestCount`, `StiHlt`, `PopMessage`, `Sti` | `:284`, `:285`, `:286`, `:290-291`, `:292` |
| `TestFront`, `Handle`, `Ack` | `HasFront()` at `:296`, `ProcessEvent` up to the read of ERDP, the write of ERDP in `WriteDequeuePointer` |
| `IntHandlerXHCI` | `:105-108`, atomic because the gate is an interrupt gate |
| `HcEnqueue`, `HcReraise` | external: a new event, interrupt moderation |

`sti` takes effect after the next instruction, so `sti; hlt` is one step. A
pending MSI is one bit (`irr`): the local APIC keeps one request per vector.
`HcReraise` is a controller whose moderation timer announces an event that is
still in the ring; `reraised` remembers that it did. From then on nothing is
claimed: `WriteDequeuePointer` writes back the EHB it read, so a bit set
between its read and its write survives with nobody left to clear it, and the
next event raises no interrupt. Whether a controller does that is not the
code's to say, so it is recorded as a hazard and not as a finding. That the
loop stops only when the ring is empty, which `EventLoop` writes as the test
`ring > 0`, is `LoopEmptiesRing` of `EventRing`.

### PortConfig

One thread of driver code and the environment. `Handling(e)` is the event at
the head of the ring while no handler spins; each outcome of the three
`OnEvent` functions is an action, `RefuseEvent` is every early return.

| action | code |
|---|---|
| `ScanPort` | one turn of the loop at `main.cpp:241`, with `ConfigurePort`, `ResetPort` |
| `OnPortConnected` | `OnEvent` (port status change), `kNotConnected`: `ResetPort` |
| `OnPortReset` | ... `kResettingPort`: `EnableSlot` |
| `OnSlotEnabled` | Enable Slot completed: `AddressDevice`, with `AllocDevice`, `LoadDCBAA` |
| `OnAddressedLast`, `OnAddressedNext` | Address Device completed: the lock is given up, or passes to the first waiting port |
| `ResetDone` | `Port::Reset` sees PR clear, returns into its caller, which for `OnAddressedNext` goes on to `InitializeDevice` (`cont`) |
| `OnDescriptor`, `OnConfigurationSet` | `OnControlCompleted` and phases 1 to 3; then `ConfigureEndpoints` |
| `OnEndpointsConfigured` | `CompleteConfiguration` |
| `RefuseEvent` | the early returns of `OnEvent` |
| `Connect`, `Unplug`, `FinishReset`, `Exec*`, `CompleteTransfer` | external: ports, controller, devices |

`portsc` holds the bits of PORTSC the driver reads or writes. A change bit that
goes to one writes a Port Status Change event; while the other change bit is
still one the controller may or may not write another (`Announce`). The
context the controller copies when it executes Address Device (`out_port`) is
kept apart from the one the driver wrote (`in_port`), because the handlers read
the port number back from the former. Ports are USB2 ports: reset is what
enables them. The `kInvalidPhase` exit of `ResetPort` cannot be taken, its
callers pass ports that are not connected or waiting.

`AddressLock` is the abstract promise: each port goes once through idle,
waiting, owner, done, with one owner at a time and the right passing to the
lowest waiting port without a gap. `Stage` maps the phases to it; a port whose
`InitializeDevice` is still on the stack under a spin has already given the
lock up and is `done`.

The context array has an entry 0 that belongs to the controller's scratchpad;
`ContextReady` says that it survives along with the contexts. It is checked
with a slot for every port and without failing commands: the completion code of
Enable Slot is not read, and slot 0 of a failed one would be used.

### DescriptorReader, Device

A configuration is the sequence of descriptors a device sends; `Seen` are those
that start within the 256 bytes of the buffer, `Read` is what a turn of the two
loops of `InitializePhase2` does with one. `Promised` is the reference: the
first interface that has a driver, and the endpoints between it and the next
interface, in their order (`Nth` of the set of their positions); it has no
recursion and no state. A configuration that ends beyond the buffer may let the inner loop
go on with a null pointer; then `err` is "astray", nothing is said of what
follows, and `ConfigurationUnderstood` says that this is the only way there.
Devices conform (`WellFormed`: the configuration descriptor comes first, an
interface has the endpoints it announces; lengths are at least 2), but for the
size of what they send. `CutBetween`: an
interface or endpoint descriptor is not cut in two by the end of the buffer,
behind which the driver would read other members of `Device`.

`pipe` is the control pipe: the ring with what lies in it, `setup_stage_map_`
(from the position of the TRB that a completion will name to the position of
the setup stage), and the requests under way. An event names the issuing TRB;
`OnTransferEventReceived` finds everything else through these tables, and so
does the model. `setup_stage_map_` and `event_waiters_` have 16 and 4 places
and `Put` does nothing when they are full; the run has 4 and 2.

| action | code |
|---|---|
| `StartInitialize` | `Device::StartInitialize`: GET_DESCRIPTOR (device) |
| `InitializePhase1` to `InitializePhase3` | `OnControlCompleted` in phases 1, 2, 3; phase 3 goes on to `ConfigureEndpoints` |
| `OnEndpointsConfigured` | `Device::OnEndpointsConfigured`: each class driver, once per endpoint number, asks for SET_PROTOCOL (`SetProtocol`) |
| `OnProtocolSet`, `OnReport` | `HIDBaseDriver::OnControlCompleted`, `OnInterruptCompleted` with the `OnDataReceived` of the keyboard or the mouse |
| `RefuseControl`, `FailControl`, `FailReport` | the early returns, and transfers that end with another code |
| `Complete*`, `Report` | external |

Control events and reports are kept in two queues and handled in either order,
which allows more than the one ring does. A failed transfer ends its pipe for
good: the code asks for nothing again. Class drivers are numbered by endpoint;
with 15 numbers of two TRBs each there are 30 on a ring of 32, the most
`Ring::Push` can take (`RingRoom`).

`buf` is the buffer the controller writes reports into, `previous_buf` the
driver's copy of the last one, `told` what the observers were told of it. A
keyboard compares each key with every byte of the copy, so that a key whose
code is the modifier byte of the report before is missed; `ReportsTold` leaves
that key out and holds for all others. The last two reports the device has sent
are kept beside the driver's buffers to compare with. The kernel sets an
observer for mice only; for a keyboard `told` is what one would hear.

### TrbRing, EventRing

Driver and controller share the buffer only. `CopyToLast` is two steps, the
first three words and the one with the cycle bit; so is the link TRB. `Count`
is the distance between the two positions, which neither side knows. The
assumption `MaxPending <= Size - 2` is not a bound of the model but of the
code: with `Size - 1` TRBs outstanding the driver would write the link TRB
again and flip its cycle bit while the controller has yet to follow the last
one, and TRBs are lost. `RingRoom` shows that the control pipe keeps it and
that the Interrupt IN ring has one TRB; `CommandsFitRing` shows that of the
commands before a device has its address one is under way at most, and none of
the others twice, so that eight slots never have more than nine.

`EventRing` has the drain loop as well, because a wrong cycle state would let
it stop too early or handle an old event again.

### FrameAllocator

`ReadDescriptor` is one turn of the loop at `main.cpp:148`; `Allocate` is a
step per frame it looks at, so that its result can be compared with what the
search should find. Descriptors are in frames, both are 4 KiB. The memory map
ends below 128 GiB, the end of the bitmap (`FrameAllocatorAssumption`): above
it `MarkAllocated` writes behind the array. `Free` has no caller in the kernel
and is modelled as the interface offers it. The firmware may list its
descriptors in any order; frames are lost if they are not sorted, so
`NoFrameLost` speaks of sorted maps and the other properties of all.

### BootLoader, PciScan, StartUp, Boot

`loader` and `step` name the call that comes next.

| action | code |
|---|---|
| `FirstMap`, `OpenFiles`, `AllocatePages`, `CopySegment`, `FreePool` | `UefiMain`, in order |
| `ExitBootServices`, `Retry` | `ExitBootServicesWithRetry` |
| `Halt` | `HaltIfError` after any call that may fail |
| `FirmwareChanges` | external: the map changes at any time, up to `MaxKey` |
| `ScanRoot`, `Skip`, `ScanFunction`, `Return`, `TableFull` | the four functions of the scan; `stack` is the call stack |
| `LookupXHC`, `WriteMSI*`, `ReadBar`, `SwitchEhci2Xhci` | `main.cpp:202-226` |
| `RequestHCOwnership` to `ResetDone` | `Controller::Initialize` up to CNR |
| `EnableSlots` to `EnableInterrupts` | the rest of it; `Fail` is any early return |
| `Run`, `Running` | `Controller::Run` |
| `Hc*`, `Bios*` | external |

Bytes of the kernel are known by where they come from. Addresses of the loader
are scaled down with the page, those of the pool are the real ones.
`Placed` and `AllocMem` are the arithmetic of `memory.cpp`. Assumptions about
what the code does not control: LOAD segments do not overlap, the lowest begins
with the header, and what they fill ends a page before the last address the
model has, as the linker makes them (`--image-base 0x100000`,
`kernel/Makefile:14`); a set OS semaphore means that
the firmware has let go; the firmware lets the controller settle before it
gives it up. The frame allocator and the event loop, which the kernel runs
before and after, are modules of their own. Base addresses count in GiB, of
which the page table has 64 (`Mapped`): a controller above them, or none at all
where `main.cpp` dereferences a null pointer, ends in the step "astray".

### Layers, Console, Desktop

`screen` is the frame buffer: an address for each place of the screen, where a
line is `Stride` pixels long. `Write` looks at nothing, so a pointer beside the
screen is written to the next line or the line before; what goes to addresses
that are not shown is not recorded. A pixel stands for a character cell and has
a colour and the glyphs that were written over it: writing a character adds
pixels, it clears none.

| action | code |
|---|---|
| `Printk` | `printk`, `Log`: `PutString`, and `Draw` once there are layers |
| `DrawScreen` | `DrawDesktop(*pixel_writer)`, `main.cpp:182` |
| `SetUpWindows` | `main.cpp:253-264`, with `SetWriter` and `Refresh` |
| `SetUpLayers` | `main.cpp:266-280` |
| `MouseObserver` | `main.cpp:89-92` |
| `NewLayer`, `UpDown`, `Hide`, `Move` | the interface of `LayerManager`, used once in `main.cpp`; none of them draws |

`Draw` speaks of the state the same call leaves. `text` is a history of all
that was put, and `Laid` the place of each of its characters by arithmetic on
that history alone: breaks are newlines and the characters for which there is
no column, the row is the number of breaks before, less those scrolled away.
`TextShown` compares it with the pixels. It says nothing between `DrawScreen`
and `SetUpWindows`: the desktop is drawn over text that the console still has,
and a scroll in that time brings the old lines back. `ScreenShown` says that
the screen is what lies uppermost after every text and movement, if the windows
are on the screen; a pointer beside it shows at the other edge, until the next
drawing. The third layer has no window, as between `NewLayer` and `SetWindow`.

## 3. Runs

Every property that holds has a mutant of the code that TLC refutes: a dropped guard,
a missing wrap, a forgotten loop.

| run | instance | shows |
|---|---|---|
| `queue` | capacity 3, 2 messages | `TypeOK`; `ImplementsFifo` |
| `event_loop` | queue of 2, ring of 3 events | `TypeOK`, `QueueWellFormed`, `NoLostEvent`; `EventHandled` under fairness |
| `port_config` | 3 ports, 3 slots, one device without a driver, one unplug at any moment | `TypeOK`, `OneDefaultDevice`, `ContextReady`; without an unplug `CompletionsAccepted`, and `EveryDeviceConfigured` under fairness |
| `port_config_faulty` | 3 ports, 2 slots, failures, one unplug | `AddressingExclusive`, `CommandsFitRing`, `ImplementsLock` |
| `port_config_waiting` | one unplug of a waiting port | a violation of `WaitingMeansBusy` |
| `port_config_fail` | 2 ports, failures | a violation of `OneDefaultDevice` |
| `trb_ring` | 5 entries, 3 TRBs outstanding | `ImplementsChannel`; `EveryTrbTaken` under fairness |
| `event_ring` | 4 entries | `ImplementsChannel`, `LoopEmptiesRing` |
| `frames` | 6 frames, every map of up to 3 descriptors | `TypeOK`, `OnlyUsableMemory`, `BlocksDisjoint`, `NoFrameLost`, `HeapOwned`, `FirstFit` |
| `device` | 10 configurations, failures, ring of 8 | `TypeOK`, `EventsUnderstood`, `RingRoom`, `ConfigurationUnderstood`, `ReportsTold`; `ReportsFlow` under fairness |
| `boot` | 44 pairs of machine and kernel file | loader: `HandOver` with `KernelImageWhole`; PCI: `BestController` with `ScanComplete`; start-up: `ReadyForEvents` with `PoolBlocksApart`, `SetUpInOrder`; `TypeOK`; `BootEnds` under fairness |
| `desktop` | console of 2 x 2 on a screen of 3 x 3, 3 layers | `TypeOK`, `TextShown`, `ScreenShown`, `StackOrder` |

`TypeOK` of the two rings is proved (section 5) and not run.

Bounds. The main queue has two places where the kernel's has 32 and the event
ring three: enough for a push to be refused and for a drain to see several
events, and two wrap-arounds of either position. Three ports are the fewest
with which two can wait while one is addressed, so that the choice of the next
matters; two slots for three ports make Enable Slot fail. `MaxUnplugs` bounds
how often devices are unplugged; a port can be connected again after it. The
TRB ring of five entries has three outstanding TRBs beside the link and wraps
while some of them are unread; the event ring wraps in the same way. Six frames
hold gaps, reserved descriptors, a heap and two blocks; all maps are tried. A
control ring of 8 entries wraps within one initialisation, and the maps are as
small as the devices need. The ten configurations have one to three interfaces,
one to four endpoints, one number for both directions, other classes before and
behind, and two that end beyond the 256 bytes, one with the endpoint cut off
and one with the interface too; two keys, one of which has the code of a
modifier, make every pair of reports that the comparison can tell apart. The boot run's table of 5 functions fills up on two
of its topologies, one of them before the controller is found; a bridge leads
back to bus 0 on another; the four places of the pool are the ends of a page
and two in between, so that a block would cross a page; 30, 31 and 32
scratchpad pages are the last number the pool has room for and the first ones
it has not; the 63rd GiB is the last that is mapped and the 64th the first that
is not, counted from 0; `MaxKey` 3 lets the firmware change its map before, between and
after the two calls of `ExitBootServices`. Eight characters on a console of
four cells scroll it several times, with strings that fill a line, end in a
newline or overflow; `MaxCalls` 4, each in place of two characters (`CallCost`),
is enough to have three layers in the stack and move one; the pointer, of which
one place is transparent, goes one place beyond each edge (`Margin`), and rests
while the background does not cover the screen (`Covered`), where it would
leave a trail.

Deadlock is checked where the system runs for ever (`queue`, `event_ring`).
Elsewhere it may stop: the event loop when an announcement has been repeated
(see above), a bus on which every device is configured, a TRB ring when nobody
has anything to send, the allocator after `exit(1)`, a device without a driver,
the boot when it is over, the desktop at the bounds of its history.

Fairness. `EventLoop`: the CPU executes (`WF` of `Main`) and takes a pending
interrupt when it may (`WF` of `IntHandlerXHCI`); the controller owes nothing.
A halted CPU has no enabled step, so fairness does not wake it.
`PortConfig`, `Device`, `TrbRing`: `WF` of the driver, which is what
`EventHandled` shows of the loop that calls it, and of the controller's
execution of commands, ends of reset, completions of transfers and reads of the
ring. Nobody has to connect, unplug or fail. `Boot`: `WF` of the one processor,
of the controller's halting, starting, resetting and becoming ready; `SF` of
the firmware's giving up the controller, because it may go on switching it on
and off for a while.

## 4. Findings

* **Waiting ports are forgotten** (`xhci.cpp:255-263`). When the lock is given
  up, the loop stops after the first port in `kWaitingAddressed`. If that
  device has been unplugged, `ResetPort` returns success without taking the
  lock, and all ports stay in `kWaitingAddressed`, in which their own events
  are refused. Run `port_config_waiting`.
* **A failed Address Device passes the lock on** (`xhci.cpp:239-254`). The
  completion code is never read: the next port is reset while the first device
  has no address, which the comment at `xhci.cpp:32-33` forbids. Run
  `port_config_fail`.

## 5. Proofs

Theorems hold for every value of the constants that satisfies the named
assumptions, which TLC evaluates on the instances: a queue and a ring have
places, `MaxPending <= Size - 2`, the memory map ends below the bitmap, an
image is as the linker makes it, a device conforms; the rest are types of the
parameters. Seven theorems have a hypothesis of their own, in their statement;
the tables below name it.

* `MainQueueProofs`, first part: `QueueTypeCorrect`; `QueueImplementsFifo`, the
  refinement of `BoundedFifo`. The lemmas: `Advance` stays in the array and is addition
  modulo the capacity; `Pushed` and `PoppedAt` keep the type and `WellFormed`;
  `Contents` after a push is `Append` and after a pop is `Tail`.
* `MainQueueProofs`, second part: `TypeCorrect`, `QueueStaysWellFormed`, `NoWakeUpIsLost`.
  None is inductive. `SafeInv` adds `SharedQueue`: interrupts are off from
  `cli` to `sti`, and `loaded` is then the queue's count. `WakeInv` adds
  `BusyMeansEvents`: EHB means that there are events, and more than the one
  being acknowledged if `WriteDequeuePointer` has read it clear.
* `TrbRingProofs`, `EventRingProofs`: `RingTypeCorrect`,
  `RingImplementsChannel`, `EventRingImplementsChannel`, `LoopLeavesNothing`.
  `Laps` says that the two sides are on the same lap or one apart, as their
  cycle states tell; `Written` that exactly the entries between them carry the
  cycle bit that the reader looks for. The abstract `pending` is the sequence
  of those entries, and the lemmas say how it grows, shrinks or stays.
* `FrameAllocatorProofs`: `TypeCorrect`, `AllocatesOnlyUsableMemory`,
  `NoFrameTwice`, `AllocateIsFirstFit`, `HeapIsOwned`, `NoFrameIsLost`.
  `AllocatorInv` is `TypeOK` with `MapInv` (what the loop has marked of the
  descriptors it has read), `ScanInv` (the frames the search has passed hold no
  run that fits), `RangeInv` and `HeapInv`; `SortedInv` adds, for sorted maps,
  that nothing else was marked.

### PortConfigProofs

| theorem | hypothesis |
|---|---|
| `TypeCorrect`, `AddressingIsExclusive`, `DriverImplementsLock`, `CommandsAlwaysFit` | none |
| `OneDefaultDeviceOnly` | `~MayFail` |
| `ContextAlwaysReady`, `CompletionsAlwaysAccepted` | `Faultless`: `~MayFail`, and a slot for each port |

The hypotheses are those under which the runs check the properties: the second
finding is a failed command, and the code of Enable Slot is not read.
`CompletionsAccepted` speaks of the time before the first unplug. The
invariants build on each other:

* `Locked` is `AddressingExclusive` with `OneCall`, the relation between `cont`
  (the handler that spins in `Port::Reset`) and the phases. The refinement of
  `AddressLock` follows from it.
* `MessageInv` counts what is on its way. `OneAtATime`: of Enable Slot
  and Address Device there is one, as a command or as its event, and of
  Configure Endpoint one for each slot. `UnderWay`: each meets its port in the
  phase that waits for it. `SlotsInUse`: two ports never share a slot.
* `AddressInv`: a port is in reset only while the handler spins for it
  (`PortsInReset`), and an enabled device without an address is that of the
  port with the lock (`DefaultAddress`).
* `SlotInv`: there are no more slots granted than ports that have asked for
  one, and fewer while an Enable Slot is under way (`SlotsLeft`); so it finds
  one, and slot 0 is never used (`SlotsGranted`).
* `Undisturbed`: until the first unplug the port with the lock is enabled when
  the controller addresses its device, and devices keep their addresses; no
  transfer fails.

### DeviceProofs

| theorem | hypothesis |
|---|---|
| `ConfigurationAlwaysUnderstood`, `DeviceTypesHold`, `ReportsAlwaysTold` | none |
| `EventsAlwaysUnderstood`, `RingAlwaysHasRoom` | `DriverSizes` |

`DriverSizes` is `RingSize >= 32 /\ MapSize >= 15 /\ WaiterSize >= 1`; the
driver is built with rings of 32 TRBs and maps of 16 and 4 entries. It is close
to what is needed: a device with 15 endpoint numbers has 15 SET_PROTOCOL under
way, which take 15 entries and 30 TRBs of the 31 beside the link. The run has
the small arrays that its small devices need.

* `ConfigInv`: what the driver knows of the device is `Reading` of its
  configuration, from phase 2 on. That `Reading` is `Promised` needs no state:
  the loop's result after each descriptor is described by the interface it has
  chosen, and its endpoints so far are the first ones of `EndpointsOf`, in
  order. The loop is a recursive function; the induction is by the least
  descriptor at which the description fails (`LeastNat`).
* `PipeOK`: the types of the control pipe.
* `ReportInv`: one request for a report at most is under way or unhandled,
  which is why the device cannot write into `buf_` before the driver has
  compared it; and what the buffers hold, by how far the last report has come.
  `ReportsTold` alone is not inductive, since it speaks only of reports that
  have been handled.
* `PipeInv`: each open transfer (asked for and not failed, or answered and not
  handled) has one entry in `setup_stage_map_`, which leads to the request that
  the handler expects in this phase (`Traced`), and no two have the same issuer
  (`Apart`). Up to phase 3 there is one request after the other, but the status
  stage of the last may still be under way (`OneRequest`); while the Configure
  Endpoint command runs the pipe is empty (`Idle`), so that SET_PROTOCOL, `n`
  times in one call, finds an empty ring and an empty map (`Laid`, by the least
  `n` again); after it transfers only go. An entry of a failed transfer stays
  in the map for good, which is why `OneRequest` speaks of entries that are not
  open.

### BootProofs

| theorem | hypothesis |
|---|---|
| `HandOverHolds`, `TypesHold`, `BestControllerFound`, `ControllerSetUpInOrder`, `BlocksStayApart`, `RingsAlwaysReachable` | none |
| `ArraysAlwaysFit`, `AlwaysReadyForEvents` | `KernelSizes` |

`KernelSizes` is `kMemoryPoolSize >= 131072 /\ kDeviceSize <= 8 /\ RingSize <=
32`: the pool is 32 pages, `Controller::kDeviceSize` is 8 and the start-up asks for rings of 32. With another kernel's sizes the pool may be too small.

* `LoaderInv`: the pages taken are those from the lowest segment to the end of
  the highest (`PagesTaken`), every segment passed is in memory, zeros
  included, whatever was copied after it (`Copied`), a map with the firmware's
  key lists those pages (`MapKnown`), and the map in hand is the firmware's
  once the boot services have ended (`ServicesEnd`).
* `ScanInv`: below a nested `ScanBus` stands the bridge that led there, and the
  table has no more than `MaxDevices` entries. `SearchInv`, if the buses form a
  tree: no function is twice in the table, and the table agrees with the call
  stack (`Agrees`): of a bus being searched it has what lies before the
  position, of a bus searched everything, of one not opened nothing. When the
  stack is empty the opened buses are closed under the bridges seen, and
  `Buses`, the least such set, can have no others. `FullInv`: a search that has
  stopped with `kFull` has met more functions than the table holds.
  `ChoiceInv`: what `lookupXHC` and `ReadBar` have chosen from the table stays.
  `BestControllerFound` follows: of all the controllers that the machine has,
  an Intel one before any other.
* `PoolInv`: the blocks lie below `alloc_ptr`, apart from each other, each
  aligned and within its boundary (`PoolSound`). `Ceil` and `Placed` have the
  lemmas: the next multiple is at least the address and less than a multiple
  away. `RoomInv` sums up how far `alloc_ptr` can be at each step: a block
  moves up by less than its alignment and, for its boundary, by less than its
  size.
* `OwnerInv`, `QuietInv`: the kernel writes only when the firmware has given
  the controller up, or no capability says that there is a firmware; from then
  on nobody else starts it, so a halted one stays halted until `Run`.
* `LeadInv` = `ContextsInv /\ CommandRingInv /\ EventRingInv`: each address
  register, once it is written, holds a block with the right contents, and no
  later step changes the block. `EnabledInv` (slots and interrupts), `MsiInv`
  (address and data before the interrupt is enabled) and `ResultInv`
  (`init_err` is success only behind every step) complete
  `AlwaysReadyForEvents`.

### DesktopProofs

| theorem | hypothesis |
|---|---|
| `DesktopInvariant`, `DesktopTypeCorrect`, `TextIsShown`, `ScreenIsComposed`, `StackKeepsOrder` | none |

`DesktopInv` is `TypeOK /\ TextInv /\ InkInv /\ PhaseInv` and that no layer is
twice in the stack. `TextShown` speaks of pixels and of the history; the buffer
and the cursor, which neither mentions, carry it from one call to the next:

* `TextInv`: the rows of the buffer are written from the left without a gap, in
  the last one up to the cursor (`BufferOK`), and buffer and cursor are what
  `Laid`, `Row` and `Column` compute from the history alone (`TextOK`). The
  lemmas `Columns`, `Rows`, `SameBefore` and `TextKept` say how that arithmetic
  moves with one more character: a step to the right, a break, or a scroll.
* `InkInv`: each cell shows the character that the buffer has for it and no
  other ink (`InkOK`), except between `DrawScreen` and `SetUpWindows`. This is
  what scrolling could break, since writing a character clears nothing:
  `Newline` fills the grid before it writes the rows again. `Refresh` does not,
  and is right because the window it writes into is new.
* `PhaseInv`: the console writes into the window exactly when there are
  windows, nothing is in the stack before there are layers, and the window has
  the colours of the desktop (`ColourOK`).
* `PutString` is a loop, in the model a recursive function. That there is one
  follows from what holds up to a character (`PutLoops`); that each character
  keeps `BufferOK`, `TextOK`, `InkOK` and `ColourOK` carries over to the string
  by the least character at which it would fail (`StringPut`).
* `ScreenIsComposed` needs of the state only types and that the background is
  nowhere transparent (`ColourOK`): `Draw` is a loop over the stack, whose result at an address is what the last layer writes that
  writes there (`LastOfThem`, `LastLayerShows`). While the windows lie on the
  screen an address is written from one place only (`WritesWhatItShows`), so
  the last writer is the uppermost layer that shows there (`DrawnRight`).
* `StackKeepsOrder`: what `UpDown`, `Hide` and the insertion leave of a stack
  (`RemovedAt`, `InsertedAt`, `HiddenOut`, `PutIn`, `RaisedTo`).

### Only model-checked

* Liveness (`EventHandled`, `EveryDeviceConfigured`, `EveryTrbTaken`,
  `ReportsFlow`, `BootEnds`), which is beyond the prover.
* The two violations, which are counterexamples.

## 6. Not modelled

Segment descriptors are constants written once. Of paging there is which
addresses are mapped, of graphics where a pixel goes and which is on top; the
bytes of a pixel, the rectangles within the task bar and the shapes of glyphs
and pointer are data without behaviour. `vsprintf` and the log level decide
what is put on the console, not how it gets there. The walk along the extended
capabilities is represented by its result. What the processor does after a
fault, at a null pointer or at an address that is not mapped is not followed:
the models stop there ("astray"). The blocks that devices take from the USB
pool depend on `sizeof` of the driver's classes, which the source does not
determine; `StartUp` counts those of the start-up only. `InterruptOut` and
`ControlOut` with data have no caller.

## 7. Plan

The modules of the plan are written and proved about: every invariant and every
safety property that the runs check and find to hold is a theorem. What would
add most now: `ArraysFit` and `PoolBlocksApart` over the life of a bus, with the
sizes of the driver's objects as constants.

The commands of `PortConfig` are not sent through `TrbRing`, nor are the
requests of `Device`: `CommandsFitRing` and `RingRoom`, and
`RingImplementsChannel`, all proved, together say that they would arrive.
