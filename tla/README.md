# Verification of nuhal

nuhal is a small hardware abstraction library: the same C interface on a Linux
host (`nuhal_linux`) and on a Tiva microcontroller (`nuhal_tiva`), with the
platform-independent part in `nuhal_all`. This directory holds TLA+ models of
it, the TLC configurations that check them on small instances, and TLAPS proofs
of the results that matter most.

    tlc -config MCQueue_safe.cfg MCQueue        # check one run
    tlapm QueueProofs.tla                       # check one proof module

## Inventory

| Component | Source | State | Operations | What makes it correct | Modules |
|---|---|---|---|---|---|
| queue | `queue.c`, `queue.h` | slots, two free-running indices, mask | init, push and pop: nonblock, error, block | a bounded FIFO between two threads without a lock, items whole, nothing lost | `QueueFifo`, `Queue`, `QueueIndex`, `QueueProofs`, `ComponentProofs` |
| time | `time.c`, `time_tiva.c`, `time_host.c` | a rolling counter; a time stamp per user | current, period, elapsed, delay | elapsed time is right across rollovers, a delay ends and is not early | `Clock`, `Elapsed`, `ClockProofs`, `ComponentProofs` |
| uart read | `uart.c`, `uart_tiva.c`, `uart_host.c` | receive buffer, two time stamps, count | read_block(_error), wait_for_data, read_nonblock | short only for a reason, over in time, no hole in the stream | `TimedRead`, `UartRead`, `UartReadProofs` |
| uart write | same | output buffer, time stamp, count | write_block, printf, write_nonblock | ends, fatal timeout not early | `UartWrite`, `UartWriteProofs` |
| protocol | `protocol.c` | the packet being read, line, timeout | request(_timeout), read_block(_error), read_nonblock, validate | the response is that of the request, whole; the line stays at a packet boundary | `Protocol`, `ProtocolProofs` |
| broadcast | `protocol.c:333-478` | per-port packet, index and length; FIFOs | broadcast(_timeout) | each port's own response, whole, nothing left behind, one timeout for all | `Broadcast`, `BroadcastProofs` |
| bytestream | `bytestream.c`, codecs of `pid.c`, `encoder.c`, `led.c` | buffer, capacity, position | inject, extract of every type | round trip, never past the capacity | `Bytestream`, `ComponentProofs` |
| encoder | `encoder.c` | zero point, resolution, orientation | zero, ticks, angle | ticks are the shaft's angle from its zero point | `Encoder`, `ComponentProofs` |
| pid | `pid.c` | integral, previous error | compute | no windup, a bad reading is forgotten | `Pid`, `ComponentProofs` |
| matrix | `matrix.c` | elements, transpose flag | every operation | a program of calls computes what the calls are documented to | `Matrix`, `ComponentProofs` |
| host ports | `uart_host.c` | list of open ports, descriptors, device settings | open, close, cleanup at exit | every port closed once, settings restored, calls end | `UartHost`, `UartHostProofs` |
| error | `error.c`, `error_*.c` | `error_called`, `fatal_error_called` | error, its handlers, exit | ends the program once, whatever the handlers do | `UartHost`, `UartHostProofs` |
| passthrough | `uart_tiva.c:38-83` | four FIFOs, break flag | loop until break | forwards in order, one return for each break | `Passthrough`, `ComponentProofs` |
| pins, leds | `pin_tiva.c`, `led*.c` | claimed pins, data register | setup, write, read, invert, led set and get | a pin has one function; calls and handlers on other pins do not disturb each other | `Pins`, `ComponentProofs` |
| tiva set-up | `tiva.c` | registers | setup | pure I/O | not modelled |
| utilities | `utilities.c` | none | strlen, normalize_angle | | strlen in `Bytestream` |

The library has no scheduler. Threads of the host, or an interrupt handler and
the main loop of the Tiva, share a queue; everything that waits polls a loop
against a time stamp; `error()` does not return and ends the program. A uart
call reads the clock through a time stamp, the protocol reads and writes
through uart calls, and a broadcast drives several ports from one loop. On the
host every open port is on a list that the cleanup at exit walks, and that
cleanup may itself fail and call `error()`.

What is hard here is the interleaving of the two queue threads at the level of
single memory accesses, rollover of a clock that is only sampled, bytes and
timeouts that race, answers that come after the question was given up, FIFOs
that fill while another port is served, a program that ends in the middle of
anything, and words that wrap. `PROJECT.json` lists each such hazard at its
line with the properties that address it.

## Modules

`Clock` (no state of its own) is used by `Elapsed`, `UartRead` and `UartWrite`.
`Queue` implements `QueueFifo` and `UartRead` implements `TimedRead`. Each module `XProofs` is about module `X`, but
for two: `ClockProofs` holds the lemmas on the clock, and on `\div` and `%`,
which the proofs about its users share, and `ComponentProofs` the proofs about
the components of one process: `Elapsed`, `Encoder`, `Pid`, `Passthrough`,
`Pins`, `Bytestream`, `QueueIndex` and `Matrix`.

`Queue`, `Elapsed`, `UartRead`, `UartWrite`, `Protocol`, `Broadcast` and
`UartHost` state a type invariant. All are theorems but that of `Broadcast`,
which is part of its inductive invariant, as the types of the other modules are
of theirs.

### QueueFifo, Queue, MCQueue, QueueIndex

`QueueFifo` is what `queue.h` promises: a call is a request, one atomic step at
which it takes effect, and a reply; a nonblocking push is refused only from a
full queue, and so on. `Bound` is the capacity less the one slot `queue.h`
says is always unused.

`Queue` is `queue.c` with one step per access the other thread can notice:
reading the other side's index in the full or empty test, one byte of a copy,
the atomic increment. `pushPc` is "check" at `queue_is_full`, "copy" in the
loop of `queue_push_nonblock`, "error" after `error()`. `pushOp` tells which of
the entry points the nonblocking push was called from, and so what a full queue
means; "timed" is `queue_push_block` with a timeout, which may expire at any
iteration since a poll may come late. `PopAdvance` covers `out == NULL`, where
nothing is copied. Capacity, item size and the width of the index are
parameters. Steps interleave one at a time: the volatile accesses and the full
barrier of `__sync_fetch_and_add` are taken to keep each thread's program order
visible to the other, as the comments in `queue.c` require. On x86, and between
an interrupt handler and the code it interrupts, that is so; the weaker
ordering of other multi-core hosts is not modelled.

`QueueIndex` is the word arithmetic `Queue` abstracts: `queue_init`'s test for
a power of two, and masking instead of the remainder. The operator `&` is defined
by what it means, as the word that has the bits both operands have, so that it
can be proved about for every width; `Weight` names the powers of two a bit
stands for.

### Clock, Elapsed

A tick is the granularity of the hardware counter. On the host a tick is a
unit (a millisecond or a microsecond), the reading runs from 0 and the period
is `UINT32_MAX`. On the Tiva SysTick counts down and the reading
`SysTickPeriodGet() - SysTickValueGet()` runs from 1 to the period
(`First = 1`); readings and the period drop the fraction of a unit. `Advance`
is what `time_elapsed` adds. `Elapsed` is the loop of `time_delay_ms`, the
shape of every timeout in the library, over a counter that rolls over; `origin`,
`polled` and `unseen` record the ticks that really passed. `MaxGap` bounds the
ticks between two polls.

### TimedRead, UartRead

`uart_read_block_error` over the port functions of either platform. A byte is
its position in the stream the peer sends; `platform` never changes after the
start, and one run checks both. `pc` is "wait" inside
`uart_wait_for_data`, "loop" at the loop condition, "read" in the body.
Terminators are a set of positions, and a call looks for one or for none. The
model keeps that only the last byte of a chunk is compared, that the body reads
`data[-1]` when nothing was read (its value is arbitrary), and that the time
stamp is not polled while waiting. Bytes go on arriving after one was lost, and
while a read runs: `whole` counts those before the first hole, `damaged` says
that the byte after them came with a framing, parity or break error. On the Tiva
both are fatal when the byte is taken. On the host `read()` and `poll()` may
fail (`faulty`), and a timeout above `IntMax` is an error. There `poll()` sleeps
for at least the timeout it is given and at most `MaxGap` longer; interruption by
a signal, which restarts it, is left out.

`TimedRead` is what a caller sees of all this: one atomic step that takes what
it returns off the stream, all that was asked for, up to a terminator, or what
has come when the time is up. It tells a caller when a read may end and with
what; that it ends is `ReadEnds`. Two consequences are stated by themselves,
`ShortForAReason` and `OverInTime`, which speak of a single call; the run
checks the refinement, which contains both. `UartRead` implements it with the
bytes handed over as those taken less those of the read in progress, so that a
byte is consumed when the call returns; chunks, stamps and the two phases
disappear.

### UartWrite

`uart_write_block` and `uart_printf`. Only the number of characters in the
output buffer matters; they leave at any pace, or never, as flow control
allows. `uart_printf` writes up to `BufferLen` (1024) characters with a timeout
of half their number, then a warning. A fatal timeout is `pc = "timeout"`; any
other fatal error, such as `write()` failing with `EAGAIN` on the host, is
`pc = "error"`.

### Protocol

One host and one device. Bytes, packets and checksums are concrete: a response
carries the command and, as payload, the number of the request it answers, so a
mismatch is visible in the data. The host reads a header and then the rest, each
with its timeout; `out` keeps the bytes of earlier packets, as a caller's packet
or the static `devnull` does. The device answers in order, properly or with an
error report, at any time or not at all. `timeout_error` is part of each
request, and a request whose write times out ends the program
(`RequestUnwritten`). `Poll` is `protocol_read_nonblock` called between
requests, which takes a late answer off the line; `fresh` remembers that
nothing was outstanding when the latest request was sent. The underlying reads
are modelled as bytes taken until the count or the time is reached, on a clock
without rollover, which is the shape `TimedRead` gives a timed read.
`late` remembers the latest request one of whose reads ran out of time.
Limits are computed modulo a word, so a length byte of 1 makes that of the data
the timeout less `PerByte`, and none at all for a timeout of `PerByte`;
`RequestEnds` sets that one case apart (`NoLimitLeft`), and run
`protocol_endless` shows it.
`Prompt` makes the host read what has arrived before the next tick; the passing
run does without it, and the runs that show a disagreement use it, so that what
they show is no fault of a slow host.

### Broadcast, MCBroadcast

`protocol_broadcast_timeout`: the request's bytes are written to the ports in
turn, with a nonblocking write whose result is ignored, and then the ports are
read in turn, up to `Chunk` (12) bytes each, until every packet is complete or
the time is up. A byte is known by the answer it belongs to and its place in
it, and a checksum is right exactly when the places are those of a whole
answer. Each port has a transmit and a receive FIFO (`TxDepth`, `RxDepth`, 16 on
the Tiva) and a device that answers, properly, with an error report, with a
bootloader's empty packet or never, a request that reached it whole. On the Tiva
a full transmit FIFO drops bytes and a full receive FIFO sets the overrun flag,
which the next read turns into `error()`. On the host a write that fails is an
error and the receive buffer is large enough. `pace` is how many bytes may come
on a port between two reads of it: the comment at `protocol.c:417` asks that
the loop be quick enough, and `NoOverrun` makes that precise. At most `Chunk`
may come, not merely the `RxDepth` the comment speaks of, or the FIFO gains on
the loop at every turn. `pace` is fixed at the start; the run has a pace the
loop can follow and one at which it overruns, which must be noticed. The lines
start clean and a device answers a request once: bytes behind a packet, and late
answers to an earlier `protocol_request_timeout`, are those of `Protocol` and do
not occur here.

### UartHost

`uart_open`, `uart_close`, `uart_cleanup`, `error()` and `exit()`, a step for
each system call, any of which may fail up to `MaxFaults` times. `live` are the
allocated port structures, linked by `next` and `prev`; a freshly allocated one
is zeroed, so its descriptor is that of the standard input until `open()`
returns, and -1 if it failed. `changed` says which settings of a device are not
as they were found: "tio", "serial", "rs485". A device may be opened by several
ports at once, so `opened` are the ports whose descriptor is open, and a port's
copy of the settings, `old_tio` or `old_serial`, is "zero", as "found" or was
"changed" before. Restoring may be refused as not supported, which is ignored
(`RestoreRefused`). Neither such a device nor one opened twice can be promised
its settings back, and `spoilt` remembers them. `pending` is output not yet sent;
a device in `Held` sends nothing, as flow control allows. The error handlers are
free to call `error()` again, and an `exit()` from within the cleanup goes on
with what is left of the exit handlers, so the cleanup never runs twice.
`uart_send_break`, which sends a byte and leaves no state behind, is left out.

### Bytestream, Encoder, Pid, Matrix

The sequential components. `Bytestream` injects a program of items into a
buffer of every size and extracts them again; integers are big-endian digits, a
float its 32 bits, a structure its fields one after the other, and arrays,
strings and the codecs of other modules follow their own tests of the room that
is left. What may be injected (`Samples`, `Strings`, `Arrays`) is any value of
its type in C (`ItemsAssumption`). `Encoder` turns a shaft tick by tick
and calibrates it at any moment; the unsigned arithmetic is modulo `WordSize`.
`Pid` runs `pid_compute` on every sequence of errors, NaN included, with each
kind of saturation and anti-windup; numbers are integers. `Matrix` runs programs
of operations over a few variables, some passed twice in a call, modulo
`RingSize`. A call assigns the cells of its output row by row, each from what
memory then holds (`Assigned`), so an output that is also an operand is read half
written; `mx_meant` is the value the mathematics of `matrix.h` gives, and
`mx_clean` the variables that no such call has reached. What the variables hold
at the start and what `matrix_init` is given are constants.

### Passthrough, Pins, MCComponents

`Passthrough` is the loop of `uart_passthrough` between two ports, with lines
that run by themselves. The break flag is sticky, is cleared by the program, and
may be raised again as long as the break lasts (`pt_level`: hardware either does
or does not). `Pins` claims pins from overlapping tables, whose entries may also
name no pin (`BadPins`) or no type, and then runs `pin_write`, `pin_read`,
`pin_invert`, `led_set` and `led_get` one access at a time, with an interrupt
handler between any two of them.

`MCComponents` puts the components that have no other threads or devices to
share a state with, those of the two sections above, `Elapsed` and `QueueIndex`,
side by side: a behaviour is one of them, chosen by `part`, and the others stand
still, so that one run checks all.

## Runs

Passing runs:

| Run | Shows | Bounds |
|---|---|---|
| `queue_safe` | `RoomKept`, `NoTornItem`, refinement of `QueueFifo` | 4 slots, indices modulo 8 (two laps, so the wrap happens), items of two bytes, all entry points |
| `queue_live` | a blocked push returns, all that is pushed is popped | the same, blocking calls without timeout |
| `components` | elapsed time follows real time, no early end, the delay ends | period 10 ticks, 4 ticks a unit (a fraction is dropped at each rollover), a delay of three periods |
| | which capacities `queue_init` accepts, slots in order; ticks measure the angle; the integral is bounded and NaN forgotten; streams round trip within their capacity; matrix programs mean what they say | 6-bit indices; resolutions 1 to 4, 7 and 8, words of 16; errors up to 2 with asymmetric limits; six buffer sizes, two items; elements modulo 7, three calls |
| | passthrough forwards, one break for each return, it ends; pins are given once, calls and handlers do not disturb each other | FIFOs of 2, 3 characters, 2 breaks; 6 tables, 3 calls |
| `uartread` | refinement of `TimedRead`; nothing is missing from what was read, reading ends | both platforms, host calls that fail or do not, 3 bytes, one of them a terminator, lengths 0 and 3, timeouts none, 2 and 3 units, of which 3 is more than `poll()` takes, receive buffer of 2, period 9: the shortest in which such a timeout fits |
| `uartwrite` | fatal timeout not early, a timed write is over in time and ends | both platforms, output buffer of 2, lengths up to 6, so that several iterations and a truncated printf occur |
| `protocol` | types; responses match when nothing was outstanding; the line is in step until a read times out; requests end unless their limit wraps to 0 | 2 requests of three commands, timeouts none, 1 (`PerByte`) and 2 units, both values of `timeout_error`, stale bytes in `out`, polls in between |
| `broadcast` | each port's own response, in step, no overrun, it ends | 2 ports, 2 calls, responses of different lengths, requests of three, one of them too long, FIFOs of 2 and 3, chunks of 2, paces 2 and 4, both platforms |
| `uarthost` | the list is sound, settings are as found, no descriptor leaks, output that can leave does | 3 ports (the list has a middle) on 2 devices, each opened up to three times at once, one of them low-latency, the other RS-485 and held; two faults; 2 bytes pending, a close timeout of 1 |
| `uarthost_ends` | calls and errors end | the same with 2 ports |

The bounds are enough because each makes the interesting case happen several
times over: the indices wrap, the clock rolls over more than once during a
delay, a read takes several chunks, a response of one request meets another, a
port is closed from the head, the middle and the end of the list. `SinceMax`,
`MaxTicks`, `MaxRequests`, `MaxRounds`, `MaxOps`, `MaxItems`, `MaxCalls`,
`Chars`, `Breaks` and `Bytes` bound history and input only. Three ports of
`Broadcast` are beyond TLC; the loop treats ports alike, and with two each is
the one served while the other fills. Its safety properties are proved for three.
`MaxFaults` of 2 is a failure and one in the ending it leads to; the failures that
follow from another, such as closing a port that could not be opened, are not
counted.

Runs state `CHECK_DEADLOCK FALSE` where the program really stops: after
`error()`, when a delay is over, or when the bounded requests are used up.
Definitions introduced as "Mutant" or "Fault" are plausible mistakes, used in
place of the definition that follows them to see that a property notices; the
specifications do not use them.

Runs that find a disagreement between a comment and the code (each is a finding
in `PROJECT.json`, with the quotation):

| Run | Disagreement |
|---|---|
| `protocol_late` | `protocol.h:145`: the matching response. A late response is taken for that of the next request |
| `protocol_endless` | `protocol.h:165`: a request that times out returns. A length byte of 1 wraps the limit of the data to the timeout less 10, and for a timeout of 10 that is none |
| `uarthost_poll` | `uart_host.c:317`: wait for writes to finish. `uart_close` sets `revents` in place of `events`, so its `poll()` always lasts the full timeout and is followed by the discarding of output, as if some were held back |

### Further disagreements

These are stated in the modules as well, each as the property named here, and
TLC refutes each under the configuration given. Where that is the configuration
of a passing run, the property takes the place of those listed in it.

| Configuration | Property | Comment | What the code does |
|---|---|---|---|
| `MCElapsed_documented` | `ElapsedTracks` | `time.h:88-89`: polling once per `time_period_ms()` is enough | on the Tiva the period drops a fraction, and a gap of that many units can hide a rollover |
| `MCElapsed_setback` | `NotEarly` | `time.h:14` "time is expected to count upwards" | `time_host.c:20` reads `CLOCK_REALTIME`, which may be set back; that looks like a rollover and a delay ends at once. The passing run and the theorem are of a clock that is not set back |
| `MCUartRead_rollover` | `LoopSkippedAfterTimeout` | `uart.c:23-24`: the loop will be skipped if the wait timed out | after a wait on the Tiva longer than the rollover period the stamp has missed a rollover; the loop is entered and `data[-1]` is compared |
| `MCUartRead_terminator` | `StopsAtTerminator` | `uart.h:97-99` "if this sequence is read the read stops" | `uart.c:40` compares only the last byte of a chunk |
| `MCUartRead_timeout` | `TimeoutIsFatal` | `uart.h:94-95` "if more than this time elapses, a fatal error occurs" | `uart.c:80`: `uart_read_block` returns what it has |
| `MCUartWrite_early` | `PrintfWaits` | `uart.h:152-153` "a timeout equal to 0.5 ms per character" | a clock read in whole units lets a printf of two characters time out before it writes anything |
| `MCUartWrite_single` | `PrintfEnds` | `uart.h:152-153` "a timeout equal to 0.5 ms per character" | `uart.c:121`: for one character it is 0, which is for ever |
| `MCUartWrite_again` | `FullBufferIsWaitedFor` | `uart.h:131-136` "blocking write to the uart" | `uart_host.c:304`: `EAGAIN` on a full output buffer is fatal |
| `MCProtocol_ack` | `FalseMeansTimeout` | `protocol.h:129` "true unless a timeout occurs" | `protocol.c:251`: an empty packet reads 0 bytes, like a timeout |
| `MCProtocol_infinite` | `ZeroIsInfinite` | `protocol.h:126` "0 is an infinite timeout" | `protocol.c:247`: the data part has its per-byte timeout all the same |
| `MCProtocol_partial` | `TimeoutReturnsFalse` | `protocol.h:163-164`: without `timeout_error` the call returns false on timeout | a timeout within a packet is fatal |
| `MCUartHost_stdin` | `OnlyOwnDevices` | `uart_host.c:46` "run at exit to close all the uart ports" | a port whose open failed before `open()` has descriptor 0: the cleanup changes and closes the standard input |
| `MCUartHost_twice` | `TerminalRestored` | `uart_host.c:347` "restore settings to state when the program was open" | a second port of a device saves what the first one set; closed after it, as the cleanup does, it puts that back |
| `MCUartHost_rs485` | `EverythingRestored` | the same | the RS-485 setting is not restored |
| `MCComponents` | `RadiansInRange` | `encoder.h:16` "radians from (-pi, pi]" | at an even resolution `encoder_radians` reaches -pi; at an odd one it goes below, since `encoder_ticks` reaches `-ceil(ticks_per_rev/2)` |
| `MCComponents` | `BsStringEnds` | `bytestream.h:102` | `bytestream.c:153`: a string cut to the room that is left has no terminator |
| `MCComponents` | `MxFlagHeeded` | `matrix.h:18` "If true the data should be treated as transposed" | `matrix.c:131` ignores the flag, so the transposed copy of a matrix with its flag set is not its transpose. `MxMeans` sets such calls, and those whose output is an operand, apart |
| `MCComponents` | `PtNoneLost` | `uart_tiva.h:9` "all data received on port1 will be transmitted to port2" | a character that meets a full transmit FIFO is dropped |
| `MCComponents` | `PnInverted` | `pin_tiva.h:70` "the logical NOT of its previous value" | an inversion by an interrupt handler between the read and the write is lost |
| `MCComponents` | `PnColourWhole` | | `led_set` writes three pins one by one: with a handler that sets the led in between, the colour that stays may be nobody's |

Three more were met that no property states. `protocol.h:206` says an error
response carries the command bitwise inverted; `protocol.c` sends the constant
`PROTOCOL_ERROR`, and compares with it. Under the anti-windup kinds other than
back calculation a NaN that enters the integral of `pid.c` stays there. And on
a USB converter `uart_send_break` restores the parity with `TCSANOW`
(`uart_host.c:421`), which does not wait for the byte that is the break.

## Fairness

`Queue!FairSpec` is the concurrent test: both threads are scheduled by the
operating system, and the consumer calls `queue_pop_block` in a loop; nothing is
assumed of when the producer pushes. In `Elapsed`, `UartRead`, `UartWrite`,
`Protocol` and `Broadcast` the clock advances and the caller's thread runs (weak
fairness); peers, devices and transmitters are under no fairness, so a timeout
must end a call even if nothing ever arrives or leaves. In `UartHost` the
program runs (`WF(Step)`): system calls return, except that the draining
`tcsetattr` waits for the output, which by then was discarded. The application
calls when it likes. `MCComponents` carries the fairness of `Elapsed`, and in it the
loop of `uart_passthrough` runs and a break that has begun stops, as
`uart_send_break` of the peer sees to.

## Proofs

`QueueProofs`, for every capacity above one, every index width that is a
multiple of it, every item size, set of items and mix of entry points:

- `RoomKept`, `NoSharedSlot`, `NoTornItem` and `TypeOK` hold always.
  `Count`, the difference of the indices modulo their width, is the number of
  items. `EmptyTest` and `FullTest` show that comparing slots decides `Count`
  exactly, because `RoomKept` keeps it below the capacity; `CountAfterPush` and
  `CountAfterPop` show that an increment changes it by one, wrap or not. The
  inductive invariant `IInv` adds to `RoomKept` and `NoTornItem` the positions
  of the program counters; `NoSharedSlot` follows, since a thread that copies
  has `Count` between 1 and `Capacity - 2`.
- `Refinement`: the specification implements `QueueFifo`. `ContentsAfterPublish`
  and `ContentsAfterAdvance` show that the increments are the FIFO's append and
  tail; `ContentsAfterByte` that a copy in progress changes nothing a pop can
  see.

`ClockProofs` holds what a time stamp says of the ticks since it was taken, for
every period and unit. `Position` and `Laps` are where the counter is and how
often it rolled over. Two relations between a stamp and the ticks matter:

- `NeverAhead`: the sum is at most the units that passed. Every poll keeps it,
  after a gap of any length (`PolledNeverAhead`): a rollover that was missed or
  a sum that wrapped only holds the stamp back. So no timeout is a unit early
  (`NeverAheadBound`), whatever the caller's delays.
- `Exact`: the sum is the units the clock shows. A poll keeps it while no more
  than a period has passed since the stamp was taken (`PolledExact`), and those
  units are within two of the ticks (`UnitsBounds`).

`ComponentProofs` on `Elapsed`, for every counter period, unit and limit. Without a hypothesis:
`NotEarly`, from `NeverAhead`. Under `GapShort` (at most the rollover period
less one unit between polls): `TypeOK` and `ElapsedTracks`. That invariant
writes the sum of the stamp's differences as a function of the ticks that have
passed: `elapsed_time = Rollovers * time_period + curr_time -
time_current(origin)`. `AdvanceSameLap` and `AdvanceNextLap` are its two cases:
the reading falls exactly when a rollover was crossed. The hypothesis is sharp:
`MCElapsed_documented` exceeds it by two ticks and a rollover is missed. The
host's clock (`First = 0`, `TicksPerUnit = 1`) is an instance of the theorems;
run `components` checks the harder, fractional one.

`UartWriteProofs`, without a hypothesis: `NotTimedOutEarly` and `TypeOK`. The
invariant says that the stamp is `NeverAhead` of the ticks since the call, and
that a call's timeout is one of the bounded ones, so that the cap on `since`
does not matter.

Under `Prompt`: `OverInTime`. `Prompt` asks for what a caller can promise: two
polls in a period of the clock, a word that holds the timeout, and rollovers that
drop at most two units' worth of fractions during a call. The host's clock drops
none. The stamp of a write is polled all along, unlike that of a read, so the
timeout may be many rollovers long: `PolledStaysExact` keeps the stamp `Exact`
from one poll to the next, and `UnitsLag` and `LapsBound` say how far the units
fall behind the ticks. `Timely` says when the latest poll was and that the time
was not up then.

`UartReadProofs`:

- Without a hypothesis: `NothingMissing`, `TypeOK`, and `ShortUnlessEmpty`, which is `ShortForAReason` but for an empty read that looks for a terminator.
- Under `Fits`, which says that the longest timeout, with the slack of the
  caller's gaps, ends within a period of the clock: `ShortForAReason`,
  `OverInTime` and `Refinement`, that the read implements `TimedRead`. The
  stamp of the read is `Exact` although it is not polled during the wait, and
  so is the wait's own stamp; hence when the wait's time is up with nothing
  received (`TimelyWaitTimeout`) the loop condition fails, the body runs only
  with bytes to read (`Fed`), and the byte before the buffer is never compared.
  `MCUartRead_rollover` shows what happens without it; the `uartread` run is at
  the very edge of it. On the Tiva, where SysTick's period is 2^24 ticks at
  most, a timeout in ms of more than that is outside it.

`NothingMissing` is not inductive: `Prefix` adds that as long as nothing was lost
or damaged all bytes are whole, and that a byte taken while the flags are clear
is therefore one of them. The flags are set by the line, at any moment, and are
never cleared, so the test with each byte is enough; made once per call it is
not, which is the property's mutant.

`ProtocolProofs`, for every set of commands, every timeout and number of
requests: `TypeOK`, `AnswersMatch` and `InStep`. A request is `Clean` if it was
sent when nothing was outstanding and none of its reads ran out of time. As long
as the latest one is, one of three things holds (`CleanInv`): between calls
nothing is outstanding (`Quiet`); or the device still owes exactly the answer to
this request and nothing of it was read; or what was read into `out` and what is
on the line are together one of its possible answers (`Reading`). `Packets` gives
the three shapes of an answer. The length byte therefore counts exactly what is
left, whatever stale bytes `out` held before, and `HeaderRead` and `DataRead`
return at the end of the packet. `InStep` follows since every request is clean
until the first one whose read was late. That is the weakest hypothesis under
which it holds: run `protocol_late` shows one late answer taken for the next.
The checksum plays no part, since bytes arrive unharmed.

`BroadcastProofs`, for the one to three ports `protocol.c:345` accepts, every
request and response length, depth of the FIFOs, pace and number of calls:
`OwnResponses`, `InStep` and `NoOverrun`. During a call each port is in one of
two conditions. `Unanswered`: the device has taken the request's bytes in their
order and those yet to be sent are increasing, so that once a byte was dropped
the request can never reach it whole. `Answered`: some answer `A` of that port
is, in order, what was read, what is in its FIFO and what is to come
(`Delivered`). An overrun breaks only the last part, and leaves a full FIFO with
the flag set, so the next read of that port is an error and never a packet with
a hole in it. `LengthKnown` says that the length was taken from the first byte
of the packet. With every packet of its full length, nothing is left in a FIFO
or to come. `NoOverrun` needs `Paced` alone: the bytes in a FIFO are at most
those that came since its last read.

`UartHostProofs`, for any number of ports and devices, any timeout and any
number of system calls that fail: `TypeOK`, `ListSound`, `LeftAsFound`,
`DescriptorsListed` and `KeepsWhatFits`.

- The list. `Linked` is that the links of neighbours agree. That alone admits a
  cycle beside the list, so `Grounded` adds that every set of allocated ports has
  a member whose predecessor is outside it. `uart_open` appends at the last port,
  which exists; `uart_close` bridges a gap. No port is then ahead of itself.
- The calls. `StageInv` says what the port of a call in progress has and
  `EndInv` how a program ends: an error is never survived, and the cleanup
  stops at the first port that it cannot close, which is at the head.
- `DescriptorInv` is `DescriptorsListed` with the port that is between `close()`
  and `free()` set apart. `SettingsInv` is about the devices on which no call
  failed or was refused and which one port at a time had (`Sound`): such a device
  is altered only while a port has it, what was found is known before it is
  altered (`AsFound`), and is back before the port is closed.
- `PollInv` relates what is pending during the `poll()` to the time waited.

`ComponentProofs` on `Encoder`: `TicksMeasureAngle` for every resolution,
orientation and history of turns and calibrations. The invariant keeps raw
reading and zero point in range, and their difference the shaft's angle up to
whole turns; a zero point of a full turn is in the range since
`encoder_zero_raw` returns it.

On `Pid`, for all gains, limits and error bounds: under back calculation the
integral stays within reach of the limits (`IntegralBounded`) and a NaN never
enters it (`NaNForgotten`).

On `Passthrough`, for every depth of the FIFOs, number of characters and of
breaks: `PtForwards` and `PtOneBreakEach`. What was delivered, then what is to be
sent, then what was received and not read form, without the breaks, a rising
sequence of exactly the characters sent and not lost (`Path`); each step moves a
character from one part to the next, or loses one at a full FIFO. `BreaksOwed`
counts: the breaks in the FIFO, the one being waited for and the returns so far
are together at most the breaks begun. It needs `FlagInWait`: the flag, which a
long break can raise again, is seen by nobody but the wait that clears it.

On `Pins`, for every set of tables and number of calls: `PnGivenOnce`, since a
pin with a function is in `assigned_pins` (`SetupInv`), and `PnUndisturbed`.
`AtStage` gives, for each access a call has left, the pins it has written and
read; `Undisturbed` says that of the pins no handler touched, those not yet
written are as before the call, those written are as the call means, and what
was read of them is what was there.

On `Bytestream`, for every base of the bytes, capacity, number of items and value
of each structure: `BsRoundTrip` and `BsWithin`. The inductive invariant `BsInv`
gives each item the position `at` which it was put at: positions add up, the
bytes of every whole item are in the buffer there, and an item that was cut is
the last, since it filled the buffer. `BsValueRoundTrip` is that the digits of a
number are the number, sign included; `BsOffsets` and `BsEncoded` that a field's
bytes are at its offset; `BsOrdersAgree` that each codec extracts its fields in the
order in which it injects them.

On `QueueIndex`, for every width of the word: `AcceptsPowersOfTwo` and
`SlotsInOrder`. `WordOfBits` and `SameBits` are that a word is determined by its
bits and that every choice of bits is a word; `MaskIsRemainder` and `TestOfPower`
follow. `QueueIsJustified` is what joins `QueueIndex` to `Queue`: every queue
`queue_init` lets through has a capacity above one that divides the range of the
indices, and masking is the remainder, which is what `Queue` assumes.

On `Matrix`, for every contents and number of calls: `MxMeans`. `AssignedCells`
says that a call whose output is none of its operands leaves in every cell the
value of the operands as they were: by induction over the cells assigned,
operands are untouched, and so are the cells that come later. Products are then
compared term by term, with the flag of an operand in place or not
(`MeaningCells`); of a sum only that it is a number is needed. `CallKeeps` makes
the invariant's step the same for all calls, and each action shows its own
mathematics. Aliasing and an ignored flag are exactly what `mx_clean` excludes.

Several of these need induction over numbers: bits, cells, terms of a sum. The
library's induction theorems take an operator as a parameter and cannot be used;
`UpTo` is induction for a set, "a set that holds 0 and with every number the
next holds all", from the least element of a set of numbers, and `Iterated` gives
the recursive functions from it.

The assumptions the proofs use are the `ASSUME`s of the modules, which the runs
evaluate, and the hypotheses named above. Some are there for the proofs: in
`Protocol` a length's word is larger than a packet (it has 32 bits); in
`Broadcast` a request has at least a header and a receive FIFO has room for a
byte; in `Pins` a table is a sequence of pairs.

Every safety property of a passing run is a theorem. Only model-checked is what
TLAPS does not reach, liveness under fairness: `PushReturns` and
`ConsumerCatchesUp` of `Queue`, `DelayEnds`, `ReadEnds`, `WriteEnds`,
`RequestEnds`, `BroadcastEnds`, `CallsEnd` of `UartHost` and `PtEnds` of
`Passthrough`. The properties that fail are refuted by TLC, which needs no proof.

## Not modelled

- `tiva.c` and the set-up part of the Tiva's `uart_open`, `uart_close` and
  `uart_set_receive_enable`: register writes without state of the library.
- `catch.hpp`: vendored. It is four fifths of all lines, so the modules map all
  but a small share of the rest.
- The led error codes' endless blinking and the host's printed led: no state.
- `normalize_angle`, and the rounding and overflow of floats in `pid.c`,
  `encoder.c` and `matrix.c`: TLA+ has integers.
- The parsing of `uart_scanf`, formatting of `uart_printf`, `uart_lock` and
  `uart_unlock` (advisory locks of the operating system) and
  `uart_data_available` beyond its use in the read.
- Signals that interrupt `poll()`, and weaker memory ordering than x86's.

## Plan

Done: every component of the inventory that has a state, and a proof of every
safety property the runs check.

Next:

1. The device's side of the protocol, `protocol_error_response` included, in
   place of the free device.
2. `Protocol` and `Broadcast` composed with `TimedRead` itself, instead of reads
   of the same shape of their own.
