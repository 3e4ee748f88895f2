# TLA+ models of the data-box drivers

The repository holds the Linux drivers and small programs of a data
acquisition box in two generations: an ASM9260 board (ARM9, kernel 2.6.32,
one core, no kernel preemption: the vermagic of its modules) and an i.MX6 board
(kernel 3.14, SMP, preemptible). The box reads weight sensors, clocks,
temperature and light, has keys and lamps, and talks to other nodes on a CAN
bus. What is difficult in this code is *when* things happen: interrupts and
timers against process context, chips that run on by themselves between two
register accesses, programs that share a device or a file. The models are
about that; bits on wires, BCD and printed text are abstracted.

`IMX6_driver4.0` is `IMX6_driver3.0` with other pins (only `RGB_LED/rgb_led.c`,
`RGB_switch.c` and makefiles differ). The pins matter in one place: the lamp of the
3.0 board uses GPIO4_6, GPIO4_7 and GPIO4_8, which are lines of weight sensors 1 and
2; that of the 4.0 board has lines of its own. `CharDevices` covers both.

## 1. Inventory

Paths are under `src/`; `ASM9/` stands for `ASM9_driver/`, `IMX/` for
`IMX6_driver3.0/`.

### ASM9260 CAN network driver — `ASM9/can/socketCAN_linux2.6.32_newdriver/asm9260.c`

*State*: the chip (mode register, interrupt register IR, error counters, one
transmit buffer, a receive FIFO), `priv->can.state`, `open_time`, the
transmit queue and carrier of the net device, the echo slot, the restart timer
of the CAN core. *Operations*: `asm9260_open`, `asm9260_close`,
`asm9260_start_xmit`, `asm9260_interrupt` with `asm9260_rx` and `asm9260_err`,
`set_reset_mode`, `set_normal_mode`, `asm9260_start`, `asm9260_set_mode`.
*Interaction*: the network layer calls open, close and start_xmit, the CAN core
calls set_mode from its restart timer or for the administrator, the chip raises
interrupts; all share the chip and the echo slot. *Hard*: the handler reads IR
once and loops on the old value; IR is cleared by a second access; the chip goes
on sending, receiving and counting errors between any two accesses; the restart
timer fires during close. *Correct when*: the frame in flight is the one
whose echo is kept, frames are looped back once each, in order and only after
they were sent, the queue is stopped only for a reason and wakes up when the
reason is gone, and a closed device is silent.

### CAN host programs — `ASM9/can/socketcan/`

Fifteen programs that ask the nodes of the bus one after the other for identity and
weight, set their lamps, or only listen. All are variations of one round: open and
bind a raw socket, set its filter, write a request, wait in `read` or for a second in
`select`, look at one frame, close. *State*: the position in the program, the open
descriptors, the frames the current socket holds. *Interaction*: every program on
the board hears the requests of the others through the local echo, and all
answers; nodes and bus may lose a request or an answer. *Hard*: the filter is set
after `bind`, the read has no time limit, a failed ioctl, bind, write or read leaves
the socket open, an answer may be shorter than the byte that is looked at, two programs
may ask the same node. *Correct when*: what is taken for an answer is one, a program
waits for ever only for what was lost, rounds that succeed leak nothing, and
every node gets its turn.

### Key and button drivers — `ASM9/key/key_driver/key_driver.c`, `ASM9/key/LSCkey/apbtn.c`

*State*: the interrupt enable of the pin, a timer, `kerneltime` (key_driver),
the button level last reported. *Operations*: interrupt handler (mask, arm the
timer), timer function (sample, report, unmask), probe/init, remove/exit.
*Hard*: handler against timer function against remove; an edge between the
unmasking and the reset of `kerneltime`; both drivers stay loaded when `request_irq`
refuses them the handler. *Correct when*: a press that lasts is
reported once there is a handler, the last report is the level of the pin unless a correction is under
way, and nothing is armed after removal.

### HX711 weight driver of the i.MX6 — `IMX/cdata1_1hm_original_driver/1HM_HX711X4.c`, `IIC_analog/`

Four devices, one for each sensor. *State*: a counter per device (`weightfd1`..)
that lets one open in, the requested pins, one mutex over all four converters,
a static result per device. *Operations*: open, read, release. *Hard*: the loser
of the gate has changed the counter before it knows; the requests of the pins are not
looked at, and on the 3.0 board the lamp may own them; the static result is
copied to the user after the mutex was given back; the wait for a sensor has no
limit and is done under the mutex. *Correct when*: one process is inside at a
time, its pins are no other opener's (and its own where no other driver requests them), a read returns a weight of its own sensor sampled
during the call, and converters are never clocked by two threads at once.

### Calibration and weighing programs — `IMX/cdata1_1hm_original_driver/1hm_biaoding_app/`

*State*: a text file with one number per line (the empty weight of each sensor,
then the coefficient), the open sensors. *Operations*: the calibrator measures,
creates the file and appends line by line; the weigher opens the file once for
each number, then the sensors, then weighs. *Hard*: nothing locks the file;
either program may be killed at any step; opens and `creat` may fail and are only
reported; the coefficient is computed from an unsigned difference. *Correct when*: the
file mixes two calibrations only where `creat` failed, and
a weigher that nobody disturbed computes with one whole calibration.

### RX8025SA clock driver — `ASM9/RX8025/RX8025SA/RX8025SAdriver/`

*State*: the chip's time and alarm registers, CONTROL1 and CONTROL2, all kept and
counted on by the chip. *Operations*: set time, read time, set alarm, and the
sysfs attribute that looks at and clears the alarm flag. *Hard*: each is a row
of single-register transfers and the chip carries in between; setting the alarm does
not choose the 24-hour mode its hour is written for. *Correct when*:
the error of a torn reading or setting has a known direction and size, in 24-hour mode
the alarm rings at the time asked for, and an alarm is erased unread only inside the
handler that clears it.

### Devices of the i.MX6 board — `IMX/DHT11/`, `IMX/DS1302/`, `IMX/RGB_LED/`

*DHT11* (`temphumi.c`, `dht11.c`): read measures temperature and humidity under a
spinlock into static variables, stores them in a third and copies that out after
the lock is gone. *DS1302* (`ds1302.c`, `ds1302_rw.c`): read loads the registers
under a mutex into static variables and decodes them there without it; write sets
them under the mutex. *X9313* (`rgb_led.c`): write counts pulses down and up on
three pins that nobody guards, and that its open may find taken by a weight sensor.
The first two let one process in, by the gate of the
weight driver, whose threads (or the children that inherit the descriptor) may
still share the file; the third lets everybody in. *Correct when*: a read returns
one measurement, the newest there is, or one reading of the clock; a write that finds
its pins driven ends at the value it was given; and whoever can spoil that is known.

### Components without a model

| component | files | what would matter |
|---|---|---|
| ASM9260 HX711 driver | `ASM9/1hm_weight/` | poll takes a conversion, release clears pins of another opener |
| other DS1302 drivers | `ASM9/DS1302_RTC/`, `IMX/DS1302/DS1302_RTC/` | the month is written raw and read minus one |
| DHT11 of the ASM9260 | `ASM9/dhtll/` | a failed reading returns what was on the stack (`ret < 0` of an unsigned char, dht11_driver_code.c:46, is never true) |
| RGB switch | `IMX/RGB_LED_switch/` | three pins |
| MCP2515 | `IMX/can/` | a trial of the chip: open never returns (mcp2515.c) and the byte read stops after one bit (mcp2515_spi.c:41). It names lines of the lamp and of sensors 1 to 3 of the 3.0 board; `CharDevices` takes it not to be used |
| DS2401, BH1750 | `ASM9/DS2401/`, `IMX/BH1750/` | fixed sequences; a wait without an end |
| LED and power switches | `ASM9/led/`, `CANPower_ctl/`, `power_usb/`, ... | one pin and one string, serialised by sysfs |
| other RX8025 drivers | `ASM9/RX8025/RTC_alarm/`, ... | a stub, and earlier versions of the RX8025SA driver |
| platform glue, pin tables | `*_platform.c`, `*_device/` | constants and registration |
| MAC tools, watchdog, tests, scripts | `ASM9/MACaddrset/`, `ASM9/test/`, ... | no state shared with anyone |
| canutils, ppp, `*.mod.c`, `*.cmd`, schematics | | third-party or generated |

`PROJECT.json` lists all of them with the files, and under `hazards` the
places that are hard to test, with the property that covers each or what is missing.
Most lines of the repository are in the last row: two copies of canutils and one of
ppp, which belong to other projects and are not modelled.

## 2. Modules

| module | models | composed with |
|---|---|---|
| `LocalEcho` | abstract: what a CAN driver promises the sockets of its own machine | |
| `Asm9260Can` | the CAN driver with its chip and the calls of kernel and CAN core | implements `LocalEcho` |
| `CanHost` | the round of the CAN programs, with sockets, bus and nodes | relies on what `LocalEcho` promises |
| `CanPrograms` | the script of each program | |
| `MCCanHost` | the scripts for small numbers, and which programs run together | `CanHost` with `CanPrograms` |
| `KeyPort` | the port the keys get their edges from | |
| `KeySwitch` | `key_driver.c` | extends `KeyPort` |
| `ApButton` | `apbtn.c` | extends `KeyPort` |
| `MCKeys` | a board with the one key or the other | `KeySwitch` with `ApButton` |
| `ExclusiveOpen` | abstract: a device that has at most one user | |
| `Gpio` | the GPIO library: who owns a line, whether it is an output, its level | |
| `OpenGate` | open and release of one weight sensor and what its reads do to the lines; the same gate stands in `ds1302.c`, `ds1302_rtc.c`, `temphumi.c`, `bh1750_dt.c` and `ds1302rtc.c` | extends `Gpio`, implements `ExclusiveOpen` |
| `Dht11` | read of the temperature sensor past its gate | |
| `Ds1302` | read and write of the clock past its gate | |
| `X9313` | open, write and release of the lamp, which has no gate | extends `Gpio` |
| `CharDevices` | the four side by side, weight sensor and lamp on the lines of one `Gpio` | `OpenGate`, `Dht11`, `Ds1302`, `X9313` |
| `MCCharDevices` | the wirings, times and brightnesses of its run, and who moves together | extends `CharDevices` |
| `WeightRead` | read of the weight sensors | |
| `Calibration` | calibrator and weigher; a sensor has at most one user, which is what `OpenGate` is shown to provide | |
| `Rx8025`, `MCRx8025` | the RX8025SA driver and its chip; the MC module gives the ranges of the fields | |
| `*Proofs` | theorems about the module they are named for | |

### Asm9260Can

One action per register access or kernel call whose order with the others can
be seen. `Open*`, `Close*`, `Xmit*`, `Restart*` and `Irq*` are the steps of the
functions above, with a program counter for each context (`kpc` for open and
close, `xpc`, `rpc`, `ipc`). `Chip` is the controller: it sends, receives,
loses arbitration, goes up and down through the error levels and falls into
bus-off at any time, also in the middle of the handler. Contexts exclude each
other the way the kernel does it on one core: while `Raised` or while the
handler runs nothing else moves, `start_xmit` and the restart timer do not
interrupt each other, the timer may cut into open and close. `SetResetMode` is
the loop of 100 tries in one step with its two outcomes. Reset clears IR, FIFO
and the transmit buffer, and bus-off puts the chip into reset mode, as in the
SJA1000 whose registers the chip has.

Not there: the bytes of a frame, statistics except `tx_packets`, the
wake-up and bus-error sources, bit timing, `probe_chip`. `done`, `events`,
`looped`, `lost` and `raced` are history variables; `lost` holds the interrupt
sources erased unseen since the queue was last started.

`LocalEcho` numbers the frames in the order they are handed over. A frame is taken
when nothing is under way, goes out at most once, and is then looped back or
dropped. In `Asm9260Can` the slot is the echo slot, the frames that went out are
`done`, and every step of driver and controller is a step of `LocalEcho` or
leaves it alone.

### CanHost and CanPrograms

`CanHost` has one action for each call of a round: `Socket`, `Bind` or `BindFails`
(SIOCGIFINDEX and bind), `Filter`, `Write` or `WriteFails`, `Read`, `Timeout`, `SelectFails`,
`ReadFails`. `Leave` is where a round ends: it takes the next position of the
program and says what happens to the descriptor. A program is data: a record for
each of its positions with the node it asks, what its filter passes, how it reads, and
where it goes when the round succeeds (`then`), the write fails (`fail`), the second
is over (`late`), the read fails (`err`) or there is no socket to be had (`nofd`: no
descriptor is left, or the one opened cannot be bound, and is not closed). So each
early return, `break` and `while(1)` of fifteen programs is a value that can be
compared with the source, and the theorems are about every script. `ScriptsOK` and
`ChecksOK` say what a script must satisfy.

Sockets, queue, local echo and nodes are external: `Send` hands the frame to every
other socket whose filter passes it and to its node, `Answer` does the same with
the answer, and either may be lost. A frame counts as an answer to the program by
what the program looks at: the command in byte 7 and the identifier in byte 4,
which is 0 in a request. A node may answer with fewer bytes; then byte 7 of
`receive_data` is what an earlier round left there (can_Cdatabox.c:133-136 copies
`can_dlc` bytes), so the check may pass. Such a frame has the command `Short`, the check
may take it, and `CheckedAnswer` says of it only that it is an answer of that node. The commands are names, one per layout: two families of
programs (`can_*` and `Cdataboxcan`) use the bytes differently, for nodes with
different firmware. Where a program takes a filter from its arguments and waits
without end, the filter is the node it asks (`FilterPassesAnswer`); given another
one it waits for ever, and nothing in the program prevents that. Likewise the numbers of nodes
start at 1 (`ChecksOK`): `can_single_Cdatabox 0` would put a request on the bus whose byte
4 equals its identifier, and a `can_Cdatabox` without a filter yet could not tell it from an
answer.

History: `missed` are the programs that asked through their current socket what
was lost, `failed` counts the calls after which a program went on without the
socket it could not use; a frame is `early` when it came between bind and setsockopt.

### KeySwitch and ApButton

The pin moves, the handler runs to its end as soon as it is raised, the timer
function is cut at every point where an interrupt may change something it has
read or will write (`Sample`, `Report`, `Enable`, `ClearTime`), and probe and
remove (init and exit) at every call. `request_irq` may be refused, which both drivers
only print (key_driver.c:105, apbtn.c:66); they stay loaded and report nothing, so what
the properties say of reports is said while `hooked`. Not there: an input device that
cannot be allocated or registered. In `KeySwitch` the history variable
`overtaken` remembers that an interrupt cut into the timer function.

### OpenGate, WeightRead, Calibration

`Gpio` is the part of the GPIO library the drivers lean on: a request for a line that is
taken fails and changes nothing, a line may be freed and driven by anyone. `OpenGate`
cuts `open` at `atomic_dec_and_test`, its undoing and the requests of the two lines, and
`release` at the freeing of each line and `atomic_inc`; `Drive` is what reads do to the
lines, whoever owns them. `Shared` are the lines another driver of the board requests
too. For those `PinsFollowGate` promises only that no *earlier opener of the sensor* owns
them; for the others, that they are the opener's own. `WeightRead`
follows a thread through the mutex, the samples, the static result, the unlock
and the copy, while sensors convert and are plugged and unplugged. In
`Calibration` each sensor opened, `creat` and the open behind it, each `write` and each
open-and-read of one line is a step, and `Ends` may end a process at any of them, by
itself or killed; the kernel then closes its sensors. Every open and the `creat` may
fail: after a failed `creat` the open finds the old file, the new numbers go over its
beginning, and `kept` remembers it. A number is the calibration and the line it was
written for; what the coefficient is worth (a float, printed with six digits, whose
product is cut to an unsigned int) is left out. One calibrator runs at a time.

### Dht11, Ds1302, X9313

In `Dht11` a value is the number of the measurement it is from; `Measure` gives both
values or none, because `DHT11_Read_Data` writes neither before the checksum was
compared, and the caller drops its result. Each static, and each byte copied to the
user, is a step. `Open` is the open that found a sensor.

`Ds1302` keeps two of the six registers, the second and the minute it carries into, in
BCD. Each register loaded, decoded and taken is a step and the chip ticks between
any two. `shown` is the set of times the clock showed while a reader loaded,
without the times of a half-set clock; `spoiled` is set when another reader changed
the statics.

`X9313` has one step for each `gpio_set_value`, `gpio_request_one` and `gpio_free`,
and the potentiometer that counts falling edges of INC while the board drives its three
lines; while one of them is an input, which it may be after an open that found it taken
by a weight sensor, the wiper may go anywhere. `ready` remembers whether all three were
driven when the write began, `disturbed` whether anyone else, the sensor included, has
moved one since. `CharDevices` lets the weight sensor and the lamp step on the same
`Gpio`: a step of the gate moves lines, and the potentiometer and the history of the
writes follow (`LampSees`).

The history variables say exactly who may spoil a result: the properties allow a wrong one
only then, so that everything else (a missing sensor, a carry, a setting, the position of
the wiper before) is shown to be harmless. `WriteSetsWiper` says besides that only a weight
sensor with a line of the lamp can leave a write without driven lines: on the 4.0 board
an open that does not get its lines is harmless, because they are outputs already.

### Rx8025

A time is a function from fields to numbers; each transfer of `RX8025_get_Time`,
`RX8025_Time_set`, `RX8025_INTA_OutIrq_set` and the clear handler (two looks, the read
of what to keep, the write back) is a step, and `Tick` may happen between any two. Calls exclude each other: the RTC core holds
`ops_lock`, and this kernel does not preempt the sysfs handlers. In 12-hour mode
the hour register and the alarm's are coded differently (PM as 21..32), while RTC_ALM_SET
writes the hour as in 24-hour mode and does not choose one; only a reading or a setting
of the time does. The model says nothing of that mode: ticks, and whether the alarm goes
off, are arbitrary (`Tick12`), and `AlarmRight` is about 24-hour mode. `unseen` is set by
every ring and reset by every look at the flag; a ring inside the clear handler, behind
its look, is marked as late, and `LostOnlyInClear` says that no other is erased unread.
The driver stores `tm_mon` (0..11) as it comes in a register that counts from 1
(RX8025SA_rw.c:262): the times set here are those the registers can hold, so January is
not among them. That, and the year from behind the table, are hazards without a property.

## 3. Runs

Every run but `can_host` checks for deadlock too; there the programs end. The states
are distinct states.

| run | module / cfg | what it shows | states |
|---|---|---|---|
| `can_transmit` | `Asm9260Can` / `CanTransmit` | echo slot, and `LocalEcho`, on a chip that obeys | 932,195 |
| `can_queue` | `Asm9260Can` / `CanQueue` | queue, silence after close, liveness, with a chip that may ignore the mode register and automatic restart | 218,158 |
| `can_host` | `MCCanHost` / `CanHost` | answers, waits, descriptors and turns of the CAN programs, two at a time | 328,119 |
| `keys` | `MCKeys` / `Keys` | what can make the key deaf, presses reported, a wrong report is corrected, no timer after removal or exit | 1,602 |
| `char_devices` | `MCCharDevices` / `CharDevices` | the gate and `ExclusiveOpen`; who owns a line that sensor and lamp share; what reads return and where a write ends | 657,780 |
| `weight_read` | `WeightRead` | fresh weights of the right sensor, one clock at a time, readers of other sensors return | 65,808 |
| `calibration` | `Calibration` | one calibration in the file unless `creat` failed, whole readings, no writing beside a weigher | 1,362,597 |
| `rtc_clock` | `MCRx8025` / `RtcClock` | how far torn readings and settings are off; alarms in 24-hour mode, and when one is lost | 71,080 |
| `can_tx_count`, `can_bus_off_report`, `key_masked`, `key_remove` | | the four disagreements of section 5 | |

### Bounds and why they are enough

* CAN: 2 frames, because the slot holds one and the second is the one that could
  meet a slot still in use; 4 bus events, because bus-off is the third step up
  from error-active and a fourth may follow it; a FIFO of 1, so that it overruns
  with two frames; 2 passes of the interrupt loop where the code has 20, which is
  the least in which an old `isrc` is used again. `can_queue` has 1 frame and 3
  events (liveness is dearer) and the two options `can_transmit` leaves off. The
  theorems hold for every value of these bounds.
* `can_host`: two programs, because a third adds only more foreign frames of the same
  kinds; every program is in one of the 13 pairs, and the pairs bring together
  what can disturb: two that ask the same node, a talker with a listener, programs
  with and without a filter. The only program that checks its frames, `can_Cdatabox`, runs
  undisturbed, beside one that asks the same node for the same, and beside one that is
  answered by another node, whose answer can come between bind and setsockopt. The first
  program of a pair has 2 descriptors, so that one can leak and the next socket still
  opens, the second has 1 and is out of them after one failure; queues of one frame, so that all of them overflow. Loops are cut to 1 or 2
  rounds where the code has 3, 9 or 11: all rounds of one loop are alike. Three nodes:
  0, which is asked before a node has its own identifier, 1 and 2.
* keys: 6 edges, enough for a bounce inside the timer function of an
  earlier press and another press after it. `LatchesMasked` says that the
  interrupt controller remembers an edge that comes while the pin is masked.
* `char_devices`: `MCSpec` is a part of `DevicesSpec`, whose theorems are about all four at
  once. Sensor and clock share nothing with the others and move while these are as they
  were loaded. Weight sensor and lamp move together, on three wirings: sensor 1 and 2 of
  the 3.0 board, which share two lines and one line with the lamp, and lines apart. There
  one user of the lamp runs beside one opener; two users where the sensor has its own
  lines, writing values in range or above; and all openers where the lamp is not in use (`Crowd`). The gate has 4 processes: the owner, a loser that has not put its decrement
  back, a third that is refused because of it, and one more that comes later. Sensor and clock have 2
  readers (and the clock 2 writers), 3 measurements and 2 seconds; the clock starts two seconds before a
  carry of the hour (59:58) and is set to 9:59. The lamp has 2 programs, 3 positions, 3 pulses
  down instead of 100 over 32 positions, and values below, within and above the range.
* `weight_read`: 3 threads and 2 sensors: two on one sensor, one on the other.
  2 samples stand for 10.
* `calibration`: 2 sensors stand for 4, 2 calibrations one after the other (the second
  may find the file of the first, whole or not), 2 weighers.
* `rtc_clock`: seconds, minutes and hours 0..1 and months 1..2: three fields are the
  least in which a carry can skip one, and the fourth counts from 1.

### Fairness

Only what the code or the hardware provides is fair. Once raised the interrupt
handler runs and goes on (weak). Open, close, start_xmit and restart go on once
begun. A chip that has a frame to send and is not disturbed sends it.
Nothing is assumed of the allocation of memory in the receive branch: a hard
interrupt handler that spins on the only core keeps everything that could free memory
from running (asm9260.c:289 returns without releasing the buffer, 487 goes on), so the
handler's fairness is asked only of steps that leave the receive FIFO, and `SpinsForEver`
is a behaviour of `FairSpec`. `HandlerReturns` and `QueueWakes` say that this is the only
way the handler or the queue can be stuck for ever. The bus,
users and administrators are free to do nothing. In `KeySwitch` and
`ApButton` the handler and the timer are weakly fair, in `WeightRead` the
steps of a reader and the conversions are weakly fair and the mutex strongly (its
waiters queue); nothing is assumed of an unplugged sensor. In `CanHost` the processes
are scheduled and a select ends after its second (weak, for the steps a program can
always take), the driver sends what it was given, and a node answers or its answer is
lost. No write has to succeed, no answer has to arrive: `NoNodeStarves` lets a program
stop when it ended, is out of descriptors, or waits for what was lost, and nothing else.

## 4. Proofs

Every theorem is proved for all values of the constants. TLC has
checked the inductive invariants of each first.

**Asm9260CanProofs** — `TypeCorrect`, `ClosedDeviceIsSilent`, `StoppedQueueHasCause`,
`EchoFollowsFrame`, `SlotIsFree`, `LoopbackInOrder`, `CountIsBounded`, and
`EchoIsImplemented`: `Asm9260Can` implements `LocalEcho`. None of the
properties is inductive. The reason the echo is the frame in flight is a chain of
facts about something else: a restart is armed only by bus-off, bus-off puts the
chip into reset mode, only a start leaves that mode, and a start under way means
that no timer is armed; so the echo slot is never flushed under a frame the chip
still sends. `Controls` says which contexts can be where at the same time,
`Closing` and `Stops` are what close and the queue need, `Modes` is the chain,
`Flight` the frame and its slot, `Order` and `Fresh` the frames looped back,
`Paid` and `Due` count: each frame sent is paid for by at most `MaxIrq` increments
(with the library's facts about finite cardinalities). The chain
breaks if the chip ignores the mode register, so the five theorems about frames
assume `~ModeMayFail`; the other three do not.

**ApButtonProofs** — `TypeCorrect`, `ReportsAreCorrected`, `ExitStopsTimer`; **KeysProofs** — of
the switch `TypeCorrect`, `DeafnessHasOneCause`, `RemoveStopsTimer`, and of a board that carries
either key `BoardKeepsTypes`, `BoardCorrectsReports`, `BoardStopsTimer`. The invariants
relate the masked pin to the armed timer or the place in the timer function that
will unmask it. The last three follow because every step of the board is a step of the
key it carries or a stutter, so what is proved of the key alone carries over.

**CanHostProofs** — `TypeCorrect`, `OnlyFailuresLeak`, `WaitsHaveCauses`, `AnswersChecked`, for any
scripts that satisfy `ScriptsOK` and `ChecksOK`, any number of programs running together, and any sizes of the
queues. `TypeOK /\ LeaksAreFailures` is inductive: the bound on the descriptors
needs to know where they went, and where they went needs `OneSocketAtATime`, because a
position that opens a socket must follow one that closed or abandoned the last.
`WaitHasCause` is not inductive: an answer under way is a cause only if the
filter of the waiting program will pass it and its socket has no room only when
another frame is there to wake the program. `Hopes` says this of every program between
its write and its read, and follows the request through the queue, the node and back.
`AnswersChecked` needs where the frames in a socket come from. `Genuine` says that every
request in the queue of the device or of a node is one a script makes, `Known` that a frame on
the bus is an answer or such a request with byte 4 zero, and `Filtered` that a socket holds
only what came early and what its present filter passes; the last survives a program that
keeps its socket because it keeps its filter too, and a new socket because it is empty.
`ChecksOK` then leaves no request that has the command and a matching byte 4.

**CharDevicesProofs** — of the gate alone `TypeCorrect`, `MutualExclusion`,
`CounterExact` and `GateImplementsExclusiveOpen`: under the mapping in `OpenGate` every step of
the gate is a step of `ExclusiveOpen` or a stutter. The counter is `1` minus the number of
processes inside, so a decrement to 0 finds nobody inside. Of the devices together, all
four in use at once and on any wiring, `DevicesPins`, `DevicesGate`, `DevicesTypeCorrect`,
`SensorReadsNewest`, `ClockReadsShown` and `LampWriteSetsWiper`. Each device has an inductive
invariant of its own. A step of sensor or clock leaves the others alone; a step of the weight
sensor moves lines of the lamp and the other way round, so each of the two has a lemma for
what the other one's steps do to its lines.

* `Owners` (the gate): a line owned by an opener is one that this opener has requested and
  not freed; a line no other driver requests is owned by the opener that requested it. The
  lamp cannot break either: it requests only lines nobody owns, and frees only shared ones.
* `SensorInv`: the lock is held by the thread between its two ends of the locked section
  (`LockFollowsSteps`), so the holder alone changes the statics, and what it stores is the newest
  measurement (`StoredIsNewest`). `FirstByte` and `SecondByte` follow the two bytes from there to the
  user: the static not yet copied, or the byte copied, is never older than the measurement the
  thread unlocked with, and equal to it while nobody else stored.
* `ClockInv`: the mutex keeps settings away from a read that loads (`MutexFollowsSteps`), so all
  the clock shows meanwhile is in `shown` (`SeesTheTime`). `Stage` says for each step of the read
  which of second and minute is loaded, decoded or taken; `HasRead` that the second is of
  some time `a` and the minute of the time `k` seconds later, and that the clock ran through all
  times in between. Without that run the theorem would not tell a carry from a setting.
  The arithmetic (BCD and its table, minutes and seconds of an hour) is in lemmas of its own.
* `LampInv`: nothing keeps two writers apart, nor the weight sensor from the lines, so the
  invariant is about writes that found the lines driven and that nobody
  disturbed. `Course` gives the levels of the lines and the wiper at each step: on the way down the
  pulses left are an upper bound of the wiper, on the way up the wiper is the value less the pulses
  left, clipped. INC may be low when the first pulse comes, which moves nothing; that is why
  `PulsesOK` asks for more pulses than steps (the code has 100 for 31).
* `BoardInv`: what is on the lines at the time. With a weight sensor that has none of the lamp's
  lines (`Apart`) a line that a user of the lamp has requested is an output (`LinesDriven`),
  since only a sensor makes a line an input: this is the second half of `WriteSetsWiper`.

**WeightReadProofs** — `TypeCorrect`, `ReadsAreFresh`, `OneClock`. The mutex covers
the converter; the static result that is copied after unlocking is fresh because
whoever replaced it sampled even later.

**CalibrationProofs** — `TypeCorrect`, `FileIsOnePrefix`, `QuietReads`,
`GatesGuardFile`. The calibrator comes to the file only with a sensor of its
own, so a weigher that holds every sensor keeps it waiting in its loop. `CalibratorAt`
says how much of an emptied file is there, and that all of it is of the present
calibration; of a file that was not emptied it says nothing, and `OnePrefix` excepts it.

**Rx8025Proofs** — `TypeCorrect`, `ReadingsNotBehind`, `ReadingsAheadOnlyByCarry`,
`SettingsNotAhead`, `AlarmsRight`, `AlarmsLostOnlyInClear`, for any number of fields and any
ranges. A torn reading is a mixture of the clock at the start and the clock now,
split at the highest carry in between; a setting is behind by one lost carry at
most. `NotAfter` states the order of times field by field with a quantifier, so
that no induction over fields is needed.

The alarm theorems: outside RTC_ALM_SET the alarm
registers hold what was asked, so in 24-hour mode it rings then; and a clear handler past
its looks has found the flag up, so only an alarm behind them can be erased unread.

Assumptions: only the ones named in the modules (`ConstantsOK` and the like), which
TLC evaluates in every run. `LampLinesOK` says that the lines other drivers share with a
weight sensor are those of the lamp. Those that say more than the type of a constant: `ScriptsOK`
and `ChecksOK` above, which the scripts of all fifteen programs satisfy; `PulsesOK`; `TimesOK`, that
times are seconds of one hour; and `ActorsOK`, that the readers and the writers of the clock are
different processes (a process that does both is two of them, one after the other).

Only model-checked: the liveness properties (`QueueWakes`, `HandlerReturns`,
`PressReported`, `LevelIsReported`, `OthersReturn`, `NoNodeStarves`), because liveness under
fairness and ENABLED are beyond the prover; and the counterexamples below. Every safety
property of a passing run is a theorem.

Only proved: `LoopbackInOrder`, `CountIsBounded`, `MutualExclusion` and `CounterExact`
stand without a run, since `EchoSpec`, `AbstractSpec` and the other
runs exercise the same steps.

## 5. Where code and comments disagree

* `TxCountedOnce` (`can_tx_count`): `isrc` is read before the loop (asm9260.c:462), so
  a transmit interrupt is counted again in every further pass. `CountBounded` is
  what does hold.
* `BusOffReported` (`can_bus_off_report`): the comment says all interrupts are
  enabled (asm9260.c:105), the value 0x7b leaves out EI, and only EI leads to
  the bus-off branch.
* `MaskedPinHasTimer` (`key_masked`): an interrupt between the unmasking of the pin
  and `kerneltime = 0` (key_driver.c:61-62) masks it, and the next timer function
  finds 0 and never unmasks it.
* `PinOffAfterRemove` (`key_remove`): a timer function that runs during remove
  unmasks the pin again.

Seen while reading and not checked by a run:

* on the way down from error-passive to warning the interrupt is reported as passive
  (asm9260.c:406, netlink.h:60).
* "only receive filter ID addr data" (can_Cdatabox.c:112) is not so for what arrives between
  bind and setsockopt; `CheckedAnswer` has that exception.
* when the check of a weight fails, can_Cdatabox.c:285 prints the weight of an
  earlier round as that of this node.
* the loop of `canstm32communication.c` stops one node short of its argument, which
  `can_Cdatabox.c` includes.
* `canfilter.c` filters for 0xffff under a mask of eleven bits: it passes identifier 0x7ff.
* `CAN_detection_check` (can_Cdatabox.c:381) has no return at its end; both outcomes are modelled.
* a DHT11 that was never measured reads as 0, 0.
* on the 3.0 board lamp and weight sensors spoil each other: rgb_led.c:36-38 requests lines of
  1HM_HX711X4.c:72, 77 and 121, nobody looks at the result, and each goes on driving them. The
  model says which writes of the lamp this spoils; the weight that a sensor then reads may be
  anything, and `WeightRead` is about sensors whose lines nobody else uses at the time.
* RTC_ALM_SET (RX8025SA_rw.c:337-350) does not put the chip into the 24-hour mode it writes the
  hour for; on a chip that was never read or set, an alarm for 14:00 waits for an hour that
  does not come.
* `tm_mon` is written raw (RX8025SA_rw.c:262): January becomes month 0.
* after a refused `request_irq` both key drivers stay loaded and report nothing.
* an ioctl or bind that fails leaves its socket open (Cdataboxweight.c:87-98,
  Cdatabox_pressureRGB.c:85-96), and the caller goes on with a new one.
* after a `creat` that failed the calibrator writes over the beginning of the old file
  (1hm_original_creat.c:113-124) and reports success.
* the coefficient of a load that shows more than `weight_f` wraps around
  (1hm_original_creat.c:105).

## 6. Not modelled, and what could follow

* Bits on wires: the 40 bits of the DHT11, the 24 of the HX711, BCD of the RX8025SA, the
  CRC of the DS2401. They are straight loops, seen by the first test that reads a value.
* The ASM9260 variants of HX711, DHT11 and DS1302: no lock, no gate and nothing shared
  between calls but pins; what goes wrong there is visible in a single call.
* Set-up: probe of the platform drivers, registration, pin tables.
* The worth of a coefficient: float arithmetic and decimal text.
* What a chip does outside its ranges: the RX8025SA in 12-hour mode and with a month of 0,
  a converter whose clock line somebody else drives.
* Two calibrators at the same time, and a disk that is full.
* Third-party code: canutils, ppp.

The safety properties of the modules are all proved. What could follow is the liveness of
`can_queue` and `can_host` for more hosts and longer scripts, which is a question of TLC's time,
and the drivers of the ASM9260 listed above, if they get locks or gates.

## 7. Using the modules

    tlc -config CanTransmit.cfg Asm9260Can.tla
    tlapm Asm9260CanProofs.tla

Definitions whose comment begins with *Mutant* (`NextPass_OneMore`,
`GetTimeYearsFirst`) are plausible bugs of the definition that follows.
`PROJECT.json` says which property
each one violates; they are used by no specification. It also maps every
definition to the lines it models.
