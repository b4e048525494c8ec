# TLA+ models of protocol-bt-cpp

`protocol-bt-cpp` is a C++ library that finds a JURA coffee maker by Bluetooth
LE, connects to it, keeps it awake with a heartbeat, decodes its status, brews
coffee and reads its statistics. This directory holds TLA+ models of the parts
with behaviour of their own, the TLC configurations that check them on small
instances, and TLAPS proofs of the properties that matter most. Paths below are
relative to the repository; `date.hpp` and `csv.hpp` are under `src/include`.

## Inventory

| Component | Source | State | Operations |
|---|---|---|---|
| Connection life cycle | `src/jutta_bt_proto/CoffeeMaker.cpp` | `state`, `heartbeatThread`, `manData`, `joe`, `alerts` | `connect`, `disconnect`, `on_connected`, `on_disconnected`, `set_state`, `heartbeat_run` |
| Bluetooth device | `src/bt/BLEDevice.cpp` | `connection`, `connected` | `connect`, `on_disconnected`, `read_characteristic`, `write`, `get_mam_data` |
| Scan | `src/bt/BLEHelper.cpp` | `ScanArgs`: `m`, `doneMutex`, `success`, `name`, `addr` | `scan_for_device`, `on_device_discovered` |
| Codec | `src/bt/ByteEncDecoder.cpp` | none | `encDecBytes` |
| Statistics | `src/jutta_bt_proto/CoffeeMaker.cpp` | `statParserMode`, `statDataReady`, counters of the Joe | `request_statistics`, `parse_statistics_*`, `get_stat_val`, `build_stats_cmd` |
| Machine status | `src/jutta_bt_proto/CoffeeMaker.cpp` | `alerts` | `request_status`, `parse_machine_status` |
| Manufacturer and about data | `src/jutta_bt_proto/CoffeeMaker.cpp` | `manData`, `aboutData`, `joe` | `parse_man_data`, `parse_about_data`, `to_ymd` |
| Products and commands | `src/jutta_bt_proto/CoffeeMakerLoader.cpp` | `Product` | `to_bt_command`, `request_coffee`, `write`, `lock`, `unlock`, `shutdown` |
| Machine files | `src/jutta_bt_proto/CoffeeMakerLoader.cpp` | the `Joe` | `load_joe` and what it calls |
| Machine table | `src/jutta_bt_proto/CoffeeMakerLoader.cpp`, `csv.hpp` | `machines` | `load_machines`, `CSVReader::read_row` |
| Line reader | `csv.hpp` | `LineReader`, `AsynchronousReader` | `next_line`, `start_read`, `finish_read`, the worker's loop, the destructor |
| Dates | `date.hpp` | a date | composition, `ok`, comparison, `sys_days` and back, sums, the time of a day |
| Hex strings | `src/jutta_bt_proto/Utils.cpp` | none | `to_hex_string`, `from_hex_string` |
| Logger, test programs, rest of the vendored headers | `src/logger`, `src/test_exec`, `tests`, `date.hpp`, `csv.hpp` | none | |

### How they interact, and what is hard

Three threads run the connection: the client's, gattlib's event thread, which
delivers the callback of a lost link, and the heartbeat thread, which
`on_connected()` starts and `disconnect()` joins. They share every field above
without a lock or an atomic. `disconnect()` runs on two of them: called by the
client, and called by `on_disconnected()` in the callback. Before any connection,
the constructor of `CoffeeMaker` loads the table of machines, with a worker
thread that reads the file ahead of the client's.

* *Connection life cycle.* Correct when: there is never more than one heartbeat
  thread; it is joined before it is destroyed; it uses the key and the Joe of its
  own connection; pointers to alerts do not outlive the Joe they point into; a
  lost link is noticed; `disconnect()` completes; the next `connect()` finds
  everything as a first one would. Hard: every order of the two `disconnect()`s
  and of the callback with `connect()`; the radio losing the link between any
  two steps; `on_connected()` failing half-way; `disconnect()` not closing the
  handle but asking the coffee maker to hang up.
* *Bluetooth device.* Correct when: the handle is the one of the link, and it is
  gone once the link is. Hard: `connected` is tested and `connection` used in two
  steps, and reset by another thread in between.
* *Scan.* Correct when: what is returned is complete and of one device, the adapter is
  closed, discovery is off, and the scan ends when it should. Hard: the result is
  written under one mutex and read after another was taken; the second is locked
  by one thread and unlocked by another; a cancellation races a discovery.
* *Codec.* Correct when: encoding with the same key decodes. Hard: one function
  does both, with the position and the key mixed in at three places.
* *Statistics.* Correct when: what a handler is called with is what the request
  asked for, and a request returns. Hard: one flag and one characteristic shared
  by all requests, a write that may fail, a coffee maker that may be slow.
* *Status, manufacturer data, products, machine files, hex strings.* Correct when:
  what the coffee maker receives is what was asked for, and what the client gets is
  what this coffee maker, and no earlier one, has sent. Hard: bit orders, widths,
  bytes that `write()` overrides, options that share a place, data that ends early.
* *Line reader.* Correct when: the lines are those of the file, the two threads
  never touch a block at once, nobody waits for a read that is not made, and the
  destructor ends. Hard: two condition variables, a worker that ends at the end of
  the file, lines and their ends cut by the blocks.
* *Machine table.* Correct when: it is the table of the file or an exception.
  Hard: overflows of narrow columns, empty columns, rows with the same number.
* *Dates.* Correct when: counts of days, comparisons and sums mean the calendar's,
  however a date is written. Hard: negative years and months, rounding, the end of
  February and of centuries, a dozen overloads of one operator.

The statistics run on the client's thread and use the device's reads and writes;
every write and every decoded read uses the codec with `manData.key`; the scan
ends before a `CoffeeMaker` is made of its result; `parse_man_data()` takes the
dates of production from the advertisement, looks its article number up in the
machine table and loads that machine's file.

## Modules

| Module | What it is |
|---|---|
| `BLEDevice` | the device wrapper and the part of gattlib and of the radio it drives |
| `CoffeeMaker` | the connection's life on three threads; extends and sequences `BLEDevice` |
| `ConnectionLifecycle` | the abstract specification of what a client sees: four states, and a heartbeat that lives between them |
| `CoffeeMakerProperties` | the properties of `CoffeeMaker`, and its inductive invariants |
| `MCCoffeeMaker` | what TLC checks, with a claim of the code that does not hold |
| `CoffeeMakerProofs` | proofs about `CoffeeMaker` |
| `Scan`, `ScanProperties`, `MCScan`, `ScanProofs` | one scan and the callbacks gattlib makes meanwhile |
| `Bytes`, `Shuffle`, `BytesProofs` | bytes, the arithmetic of the codec, and lemmas about both and about hexadecimal strings |
| `ByteEncDecoder`, `MCByteEncDecoder`, `ByteEncDecoderProofs` | the codec on both ends of the link |
| `Statistics`, `StatisticsProofs` | the requests of statistics |
| `HexStrings` | hexadecimal strings |
| `Requests`, `Answers`, `MachineFile` | what the library writes, what it makes of what it reads, what it takes of a machine's file: operators |
| `Conversation`, `MCConversation`, `ConversationProofs` | composes these three and the codec: the bytes of a connection, both ways |
| `LineSource` | the abstract specification of a reader of lines |
| `LineReader`, `MCLineReader`, `LineReaderProofs` | the reader of `csv.hpp` with its worker; implements `LineSource` |
| `CsvRow`, `MachineTable`, `MCMachineTable` | a row of the table, and `load_machines()` as the client of `LineReader`; extends both |
| `Calendar`, `CalendarWalk`, `CalendarProofs` | the dates of `date.hpp`, and a program that computes with one |
| `DateParts`, `DatePartsProperties`, `MCCalendar` | the parts of a date, and a program that composes one with `operator/` |
| `TimeOfDay` | the time of a day of `date.hpp`; its theorems are in `CalendarProofs` |

### CoffeeMaker and BLEDevice

`pc[t]` is the point that thread `t` (`"app"`, `"ev"`, `"hb"`) has reached; the
prefix of a label names the function (`b_` and `v_` `BLEDevice`'s, `p_`
`parse_man_data()`, `o_` `on_connected()`, `d_` `disconnect()`, `h_`
`heartbeat_run()`). A step ends where another thread's write could matter: at each
access to a shared field and at each call of gattlib. `process` holds what ended
the process: a failed assertion, `exit()` for an unknown article number, a call of
gattlib on `nullptr`, or the join of a thread that is not there.

| Code | Model |
|---|---|
| `BLEDevice::connection` | number of the gattlib handle, 0 for `nullptr`; `session` counts the handles |
| `manData`, `joe` | the session whose advertisement filled them |
| `alerts` | pointers `<<joe, alert>>` into the alerts of a Joe |
| `std::optional<std::thread>` | `heartbeatThread`; the thread itself is `pc["hb"]` |
| `connect()` | `ClientConnect`, `BeginConnect`, the `Ble...` steps, `GetManData` ... `StartHeartbeat`, `ConnectReturns` |
| `disconnect()` | `DisconnectCheck(t)` ... `DisconnectDone(t)`, for `t` either thread |
| callback of a lost link | `Deliver`, then `BleOnDisconnected`, `BleClearConnection`, `OnDisconnected` |
| `heartbeat_run()` | `HeartbeatLoop` ... `HeartbeatSleep` |
| `parse_machine_status()` | `StatusStep(t)`, for `t` the heartbeat thread or a client that calls `request_status()` |
| the radio and the coffee maker | `LinkLost`, `HangUp` (after the disconnect command), `MakerTimesOut` |

Taken from the code, and to be known by a reader:

* assertions are enabled (no `NDEBUG`); without them the steps after them are
  undefined behaviour;
* single accesses to shared fields are atomic. They are plain `bool`s, enums and
  pointers in the C++, formally data races; between two accesses there is always
  a call into another library, so that the compiler cannot merge them;
* the client makes its calls one at a time on one thread, as `test_exec` does. What
  it calls when is the constant `Client`: `"any"` calls anything in any state, as
  `connect()` and `disconnect()` let it; `"patient"` calls `connect()` only while the
  state is `DISCONNECTED` and `disconnect()` only once it has left `CONNECTED`, as
  `test_exec` does (with a new object for each connection, where the model goes on
  with the same). The history variable `patient` says whether every `connect()` so
  far was called while `DISCONNECTED`; the properties that need this say
  `patient => ...`, and are then about every client that keeps to it;
* the client's `request_status()` and the heartbeat's may replace `alerts` at once:
  a data race on a vector, which C++ leaves undefined. In the model the clearing
  and the insertion of each are steps, and two insertions give their union;
* gattlib calls the disconnect callback once for each handle it was registered
  for;
* the coffee maker hangs up by itself when nobody keeps it awake
  (`MakerTimesOut`); README.md:101 gives it 20 seconds, and the model takes
  `connect()` to be faster than that.

### ConnectionLifecycle

`DISCONNECTED` to `CONNECTING` to `CONNECTED` to `DISCONNECTING` and back, with a
way back from a failed `CONNECTING`; the heartbeat starts while `CONNECTING` and
ends while `DISCONNECTING`. `LifecycleSpec` maps `state` to itself and the
abstract `beating` to `pc["hb"] # "none"`, and is checked as a property.

### Scan

Thread `"scan"` runs `scan_for_device()`, and the threads of `Callbacks` run
`on_device_discovered()`: one thread is
what an event loop would use, the mutex `m` in the code only makes sense with
several, and the model takes any number. A
`std::mutex` has to be unlocked by its owner, which `doneMutex` is not; the model
has the effect of the pthread mutex below it, which does not check. The sleep of
500 ms between two polls has no effect and is left out.

### ByteEncDecoder, Shuffle

`Loop` is one turn of the loop of `encDecBytes()`. The sender runs the function
on a message, `Receive` hands the result to the receiver, which runs it again.
`mod256()`'s two loops are `% 256`, and `numbers1`, `numbers2` are the code's.
`Shuffle` also has the function as a whole, which `Conversation` uses; that the
loop computes it is a theorem.

### Statistics

`Request`, `Poll` and `ReadData` are the three parts of `request_statistics()`,
with the parsers they lead to. The coffee maker is external: `accepted` is the
command that reached it last, unless it refused that one, `prepared` the one whose
statistics it offers, and `Prepare` may take any time. What its answer `0x0E` means
the repository says in two ways: a command that succeeded (CoffeeMaker.cpp:170-171)
or an invalid one (README.md:233-238). `asDocumented` is either from the start, and
each kind of coffee maker has a property of its own. A command that is not written leaves `accepted`
alone, and `written` remembers what `write()` returned, which the code drops.
Statistics are values that name the request they were prepared for: what
`get_stat_val()` computes from the bytes is in `Answers`.

### Conversation

The other half of the connection: not when things happen but what the bytes are.
One thread, and one failure: `Connect(m)` is `on_connected()` with the parsers it
leads to, for a coffee maker `m` that may be another than the one before, and its
read of the about data may fail, which leaves those of the one before
(`introduced`, a history variable, is whose they are);
`ClientRequest`, `ClientOrders` and `ClientRequestsStatistics` are everything the
library writes, `ClientReads` and `ReadStatistics` everything it reads, through
`on_characteristic_read()`. The coffee maker is external: it decodes with its own
key, packs its advertisement, status, about data and statistics the way README.md
of the repository describes, with a version of up to 17 characters that `AboutMachine`
puts at byte 35, and leaves out of the product counters those that the mask of the
command does not select (`Masked`). A machine file is the tree of elements that tinyxml2
makes of it; hexadecimal attributes are character codes, because they go through
`from_hex_string()`.

### LineReader, LineSource, MachineTable

The buffer is a function on the places of three blocks; a character is a number.
The client's thread calls `next_line()` any number of times and destroys the
reader when it likes: before the first line, after the last or after an
exception. `client` and `worker` are program points. The mutex belongs to the
worker at `"checks"` and `"reads"`; the client's critical sections are single
steps. A wait is `"waits"` until a notification or a spurious wake-up takes it to
`"woken"`, and then competes for the mutex; `finish_read()` and the worker's loop
test their predicates again there, as `wait(lock, predicate)` does.
`LinesAreTheFiles` is the refinement `LineReader` => `LineSource`, with lines and
outcome mapped to themselves and a block to the limit of a line. `MachineTable` is
`load_machines()` on that reader: its steps are the reader's, and say what the
caller makes of them. It asks for lines while `process` is `"running"`, leaves the
first one alone, adds the machine of a row, ends with the file or with the
exception of a row or of a line, and only then destroys the reader. A row is
parsed in the step that returns its line, because its characters are the
client's until it asks again (`NoRace`). `CsvRow` is the parser: columns are chopped, trimmed, and read digit by digit with the overflow test of
`parse_unsigned_integer()` at the width of the column.

### Calendar, DateParts, TimeOfDay

The four forms of a complete date (`year_month_day`, `..._day_last`,
`..._weekday`, `..._weekday_last`) are records with a `form`; days, months and
weekdays are kept in the widths of the classes (`% 256`, four bits for an indexed
weekday), years and counts of days in integers. `Quot` is the division of C++,
which rounds towards zero, and the corrections for it are those of the code.
`CalendarWalk` holds a date, valid or not, and calls the operations on it in any
order; `MCCalendar` also lets the program write the date first, part by part, in
each order and with an `int` wherever an overload takes one (`DateParts`).
`meant` is the set of typed parts the program has in mind, so that `AsWritten`
can say that an overload made nothing else of them. (The library itself calls one of
these operations, `operator/`, in `to_ymd()`; the others are there for what a client
does with the dates it is given.)

## What is checked

| Run | Module | Shows |
|---|---|---|
| `LinkLost` | `MCCoffeeMaker` | a patient client over three connections, whose links are lost at any moment outside `connect()`: the loss is noticed, `disconnect()` completes, the connection is torn down in the order of `ConnectionLifecycle`, a connected coffee maker is kept awake, no assertion fails |
| `Hostile` | `MCCoffeeMaker` | any client, on a radio that loses the link anywhere and with an advertisement that may be missing, over three connections. For every client: the heartbeat thread is owned until it is joined, and a callback clears only the handle it is for. As long as the client has been patient with `connect()`: one heartbeat, its key and the alerts are those of its connection, and the handle is released even if the disconnect command was lost |
| `Scan` | `MCScan` | two callbacks at once and a cancellation at any moment: a result is complete and of one device, adapter and discovery are off when the scan returns (in `Inductive`), a matching device ends the scan, a cancellation turns discovery off |
| `Codec` | `MCByteEncDecoder` | the round trip, that no byte is sent in clear, and the vectors of the tests, the README and the code's comments |
| `Statistics` | `Statistics` | every request returns; where `0x0E` means ready, one whose command was written and announced stores its own statistics; where it means an invalid command, none that was announced does |
| `Conversation` | `MCConversation` | two coffee makers with different keys and machine files in turn, with about data that may not be read: no byte of a request changes but those that the key replaces, a product is brewed as its file says, alerts, statistics and identity are those of the coffee maker that is connected, with the counters that the overwritten product mask costs, and versions those of the coffee maker they were read of |
| `LineReader` | `MCLineReader` | every interleaving of client and worker on files that the blocks cut in every way: the lines are the file's, no block is touched by both, the assertions hold, every call and the destructor return |
| `MachineTable` | `MCMachineTable` | `load_machines()`, the reader and its worker on tables of up to two rows of every odd kind, and of four rows that take several reads: what is loaded is what the rows of the file say, and a row that is none is an exception |
| `Calendar` | `MCCalendar` | dates about the turns of eras, centuries and leap years, valid or not, written in any order, on which the operations follow one another: they mean the Gregorian calendar, told by the lengths of its years and months |

Three runs check a statement of the repository that the code does not keep, and end
in a counterexample:

| Run | What TLC finds |
|---|---|
| `TwoDisconnects` | a link lost while the client disconnects: both threads pass the test of `state`, and the second finds no heartbeat thread, against `assert(heartbeatThread)` |
| `Reconnect` | a client that calls `connect()` while the event thread deals with a lost link: handle and `connected` are cleared already, so `BLEDevice`'s assertions hold, `CONNECTING` keeps the old heartbeat looping, key and Joe are replaced under it, and `assert(!heartbeatThread)` fails. In the shortest trace the event thread has yet to look at the state; while it is in `DISCONNECTING`, a `disconnect()` of the client before the `connect()` returns at once (CoffeeMaker.cpp:439), and the same follows |
| `CanceledScan` | a canceled scan waits for `doneMutex`, which only a matching device unlocks |

Because of these and of the next list, the run `LinkLost` names the environment
its properties need (`Loss`, `EmptyManData`, `Client` in its `.cfg`): the link is up
inside `connect()`, the advertisement is there, and the client is patient. `Hostile`
restricts no step of radio, advertisement or client but to one call at a time; its
properties that need a patient client say so themselves. Without `patient` each of
them fails in the code: a `connect()` during the event thread's `DISCONNECTING` brings
an old heartbeat together with a new key (`HeartbeatKeyed`) and a new Joe
(`AlertsAlive`).

### Other differences between code and text

Met while modelling, without a run of their own. In the model of the connection:

* Without manufacturer data `on_connected()` calls `disconnect()`
  (CoffeeMaker.cpp:404), whose `assert(heartbeatThread)` (447) fails: the thread
  is created later.
* A link lost before `connect()` has returned is overwritten by
  `set_state(CONNECTED)` (CoffeeMaker.cpp:430): the state never changes again.
* `disconnect()` leaves the handle to the callback: a `connect()` before it fails
  `assert(!connection)` (BLEDevice.cpp:60).
* A callback still running when `disconnect()` returns tears down the next
  connection (CoffeeMaker.cpp:422). It never clears the handle of the next one
  (`CallbackClearsLostHandle`), but it looks at the state when it comes to it.

In the messages:

* The request of the statistics of all products ends with the key: `write()`
  replaces the last byte, 0xFF, of `build_stats_cmd()` (CoffeeMaker.cpp:378,
  331-333), against README.md:205-212 and the comment CoffeeMaker.cpp:498. A coffee
  maker that honours the mask gives no counter for a product with a code from 32 to
  63 whose bit the key does not have: `OnlyTheKeyReplaces` names the byte, and
  `StatisticsAreMakers` the counters.
* `write_tx()` "Sends the given data" (CoffeeMaker.hpp:157-161), but for the
  first and the last byte, which become the key; it is undefined for no data.
* `to_bt_command()` gives 18 bytes with the key last; README.md:271-288 shows 16. An
  option `F17` has its byte under that key and is lost. `request_coffee()` without a
  product keeps its last byte, 00.
* A `Value` or `Step` of a machine file that does not fit into a byte is cut
  (CoffeeMakerLoader.cpp:120-123) before it is divided.
* `parse_statistics_command()` takes a first byte of `0x0E` for success
  (CoffeeMaker.cpp:170-171); README.md:233-238 says success is any other, and
  `0x0E` answers an invalid command. `Statistics` has coffee makers of both kinds: with
  one as documented the code takes every refusal for a success and polls every
  success to the end (`RefusalIsTakenForSuccess`).
* `request_statistics()` reads and stores after 20 polls without success, and
  after a command that could not be written (CoffeeMaker.cpp:378-390), and triggers
  the event then, too, where CoffeeMaker.hpp:171 speaks of events on success.
  `SuccessIsTheRequests` says nothing of these requests.
* `parse_about_data()` reads a version of 16 bytes (35 to 50); README.md:77 gives
  it 17, the last of which would be the first of the next field, at 51.
* When the about data cannot be read, those of the last coffee maker stay
  (BLEDevice.cpp:108-122), and nobody is told.
* README.md:94 and 142 say that a decoded message starts with the key or decoding
  has failed; no parser looks.
* The dates of an advertisement are not checked with `ok()`: month 0 or 15 passes.

In the table:

* The message of a line that is too long names 2^24-1 characters (csv.hpp:133);
  the limit is a block, 2^20.
* A numeric column without digits reads as 0, and is not an error.

### Bounds, and why they are enough

* `MaxSessions = 3`: a connection meets what the one before left, and that one
  may itself follow another; the violations need one and two. The proofs have no
  bound.
* `Alerts`: one. Pointers matter by the Joe they belong to.
* `Callbacks = {c1, c2}`, three devices, two of them matching: a callback that
  waits for `m` behind another with a different result, and a device that does not
  match.
* Eight keys (zero, the corners of both nibbles, the documented 42), every message
  of one byte, the documented ones, and one of 20 bytes, in which more than 16
  nibbles precede a byte and `i5` is not zero. The proofs cover the rest.
* `MaxRequests = 3`: a request that finds what the two before it left. `Retries`
  is the code's 20.
* `Makers`, `Machines`: two, so that one can leave something behind for the other;
  products with options in either form, in a place that another option, the code or
  the key has, with an argument that is not for the command, and with values and steps
  of more than a byte; a product that the key in the mask selects and one that it does
  not; a version of 17 characters; counters that end
  early, are 0xFFFF in three bytes and in two, or fill their width; the earliest
  and latest date.
* `BlockLen = 3`, the least that holds a byte order mark; files of up to fifteen
  characters, five blocks, with their newlines at every subset of the places for
  seven lengths, among them those that end at and next to the end of a block.
* For `MachineTable`, `BlockLen = 12`, the longest of the rows with a number that
  fits and its newline, and files of up to four blocks; `SizeMax = 15`: a column
  of `size_t` overflows as one of `uint8_t` does, and four bits are enough to see
  it. Two rows, each of more than thirty kinds, with either end of line, or four
  rows of four kinds behind a byte order mark.
* `Years` are those about each turn of the calendar: between them, an era of 400
  years repeats itself. The steps are one, more than a year and more than a
  century of months, and one and a month of days; sums of them reach any date of
  those years, and a date that leaves them is no longer followed. `WrittenYears`
  has both ends of a `short`, and the other `Written...` the values at and beyond
  each end of each part's width.

### Fairness

`CoffeeMaker`: weak fairness of a call the client has made, of the event thread,
of the heartbeat thread, of gattlib's delivery of a callback, and of the coffee
maker hanging up once told to, or once nothing keeps it awake. The first three are
threads the operating system schedules, and no loop of theirs waits for another
but at `join()`. The client owes nothing: no fairness on its choosing to call. Nor
does the radio: links need not be lost. `Scan`: weak fairness of the scanning
thread and of each callback; nobody has to advertise or to cancel, and weak
fairness is enough since a lock is waited for only where its owner goes on to
release it. `Statistics`: weak fairness of the client's thread only; the coffee
maker may never be ready. `LineReader`: weak fairness of the worker and strong
fairness of a call the client has made. Strong, because a worker that is woken by
nothing any number of times takes the mutex each time, and a client that asks for
it must get it in between, which any mutex does that does not starve a thread for
ever. Calling `next_line()` again, or the destructor, is left to the client.

`CHECK_DEADLOCK FALSE` is used for `Scan` and `CanceledScan`, whose canceled scan
may wait for ever; for `LineReader` and `MachineTable`, which end when the reader
is destroyed; and for `Calendar`, whose
program ends with a part that is no date within the bounds.

## What is proved

All theorems are for every value of the constants. tlapm checks each to its leaves.

**CoffeeMakerProofs.** From `MaxSessionsAssumption` and `EnvironmentAssumption`.

* `TypeCorrect`: the type invariant, shown for groups of variables (labels,
  numbers, flags, the rest).
* `OwnedCorrect`, `HeartbeatOwnedCorrect`: for every client and radio. `Owned`
  says of the two threads that may run `disconnect()` that only one gets past
  `join()`, and that the optional stays full until that one empties it, so that no
  thread that can be joined is destroyed, even where assertions fail.
* `HandleInOrderCorrect`, `CallbackClearsLostHandleCorrect`: for every client and
  radio. A callback is only queued for the handle that is there, and
  `BLEDevice::connect()` opens another only when that one is gone.
* `HandOverCorrect`, `OneHeartbeatCorrect`: for a client that has only called
  `connect()` while `DISCONNECTED`, and any radio. That `assert(!heartbeatThread)`
  holds is not inductive: it depends on where the other thread is in `disconnect()`.
  `HandOver` says how the optional is handed over: it is empty while `connect()`
  works towards it and while the state is `DISCONNECTED`; and a thread that may empty
  it keeps the state from `DISCONNECTED` until it has. For an impatient client it is
  false: that is the run `Reconnect`.
* `FilledInOrderCorrect`, `HeartbeatKeyedCorrect`, `AlertsAliveCorrect`, of which the
  last two are for the same clients. A heartbeat is sent with the key of its
  connection and alerts point into the current Joe because `on_connected()` fills
  both before it starts the thread and no heartbeat of an earlier connection is left
  when it does: the second half is `HandOver`, which is why `FilledInOrder` is proved
  on top of it.
* `OrderlyCorrect`, and from it `ConnectedIsKeptAwakeCorrect`,
  `AssertionsHoldCorrect` and `LifecycleCorrect`.
  These are false of the code in general, as the runs `TwoDisconnects` and
  `Reconnect` show; they are proved under `Cautious`, the constants of the
  run `LinkLost`: the radio does not lose the link while `connect()` runs, the
  advertisement can be read once connected, and the client is patient. Nothing is
  assumed of a step of the library. `Orderly` ties together
  where the three threads are, the state, the handle and the link: while one
  thread works on a connection the others are where they cannot touch it.
  `LifecycleCorrect` is the refinement: every step of the three threads is a step
  of `ConnectionLifecycle` or leaves what a client sees as it is.

**ByteEncDecoderProofs.** From `CodecAssumption`, for every key, every message and
every length: `CodecTypeCorrect`, `RoundTripCorrect`, `NothingInClearCorrect`, on
the lemmas of `BytesProofs`. The state machine adds to these that both ends reach
the same offsets: `Progress`, `nibbelCount = 2 * offset`. From it
`LoopComputesEncDecBytes`: the loop computes the function that `Conversation` uses.
`KnownAnswersCorrect`: the loop sends the documented messages as they are documented,
whatever else it is called with; each byte is reckoned from the entries of the tables.

**BytesProofs.** `numbers1` and `numbers2` are their own inverses, and `numbers2`
has no fixed point. `shuffle()` is `numbers2` between an offset and its opposite,
that between `numbers1` twice, and that between another offset and its opposite.
Such a conjugate is again its own inverse without a fixed point, whatever the
offsets are; nothing is needed of them but that both calls use the same. So
`EncDecBytesInverse`: `encDecBytes()` undoes itself for every key and message.
`HexRoundTrip`: `from_hex_string()` undoes `to_hex_string()` for every sequence of
bytes, and the assertions on the digits hold in between. The module also proves
what the other proofs need for want of an induction rule: a set of naturals has a
least element (`LeastNumber`), from which a counterexample with the smallest index
is refuted; and a recursion over `1..n` defines a function (`RecursionDefines`),
without which nothing could be said of the value of a recursive definition.

**ScanProofs.** From `ScanAssumption`, for any number of callback threads:
`OneWriterCorrect` and from it `NameAndAddrAgreeCorrect`: a callback that writes
holds `m`, and no other does. From the inductive `ToldLast`
both `FoundIsCompleteCorrect` and `ReturnsQuietCorrect`: `doneMutex` stays locked
until a callback has written everything and turned discovery off, so that whoever
gets it may read without `m`. Nothing is proved of a canceled scan's return, which
`CanceledScan` refutes, nor that a result stays: a callback that waits for `m` when the
scan ends writes its own over it later, as the code does.

**StatisticsProofs.** From `MaxRequestsAssumption`: `StatisticsTypeCorrect`,
`AnnouncedCorrect`, `SuccessIsTheRequestsCorrect`, `RefusalIsTakenForSuccessCorrect`.
A success could be an earlier request's; `Announced` says why not: a command that was
written is the last one the coffee maker received, until the request returns. Which of
the two meanings `0x0E` has is not assumed: each theorem names the one it is about.

**ConversationProofs.** For all coffee makers, machine files and messages:
`OnlyTheKeyReplacesCorrect`, `IdentityIsMakersCorrect`, `AlertsAreReportedCorrect`,
`StatisticsAreMakersCorrect`, `BrewsAsOrderedCorrect`. The assumptions say what a
coffee maker can send (`MakersAssumption`: numbers and dates fit their fields,
versions have at most 8 and 17 characters and no null inside; `StatusesAssumption`: bits of the two
status bytes), that a client sends at least a byte (`TxDataAssumption`: `write()`
overrides the first), and what the code asserts or leaves undefined otherwise
about the machine files (`MachinesAssumption`: codes and commands are hexadecimal;
`ProductsAssumption`: a code or default is one byte, an argument `F` is followed by
1 to 17, no step is zero in a byte, a tag occurs once in a product). The run
`Conversation` evaluates all of them for its machines.
The invariant `Talk` says that what is on its way is what was asked for, keyed and
encoded, that what arrived is its inverse, that the key and the file are this coffee
maker's and the about data those of the one introduced last, and that alerts and
statistics are those of the last answers. The lemmas under it are about the parsers, each against what the coffee
maker sends: packed dates (`DateUnpacked`), the offsets of an advertisement
(`AdvertisementRead`), bits from the high end (`StatusRead`), big-endian numbers of
one to three bytes cut off where the data end (`ProductsRead`, `CountersRead`),
versions without their padding (`VersionRead`). `BrewsAsOrdered` needs a second
invariant, `Ordering`, that the last order was made of a product of this coffee
maker's file, and what `to_bt_command()` computes: text of two characters a slot,
read back two by two (`PairsRead`); a slot holds the last option that names it
(`SlotsProperties`); and the options as they are loaded match the elements of the
file one by one (`OptionsMatch`).

**LineReaderProofs.** From `BlockLenAssumption` and `FilesAssumption`, for every
block length and every file: `NoRaceCorrect`, `StaysInBlocksCorrect`,
`ReadIsComingCorrect`, by `ReadsInOrder`; and `InductiveCorrect` and
`LinesAreTheFilesCorrect`, the refinement of `LineSource`. That nobody waits for a
read that is not made is not inductive: it depends on where both threads are
between a request and its answer (`Handshake`), on how much data the client has
left (`DataInBlocks`), and on what a worker that ended tells it (`Drained`): the
read that found nothing was answered with 0, and then the first two blocks are all
there is, so that a client that has used up a block can find an answer but never
need another. For the refinement three facts join these: the unread data are the
file from one place on (`FileInBlocks`), both blocks are full until the file ends
(`BlocksAreFull`), and as many lines were returned as ends lie in front of that
place (`LinesSoFar`). `LinesAreTheFilesCorrect` is for files without a null
character (`TextFiles`): `next_line()` returns C strings, which end at one.
`TableIsTheFilesCorrect` is about what `load_machines()` makes of these lines, for
the same files, however the worker keeps up with it, and from `SizeMaxAssumption`:
what it loads is the table of the file. `MachineTable` takes no step but the
reader's (`TableReads`), so that `Inductive` and the refinement carry over. Each part of
`read_row()` is compared with what a row means: `trim()` with the least and the
greatest place that is no space (`TrimIsTrimmed`), the four turns of `parse_line()`,
each at the next separator, with the one way in which three separators part a line
(`ParseLine`), and `parse_unsigned_integer()` with the sum of its digits, digit by
digit (`ParseNumber`: the test for an overflow is exact, and a value that is too
large stays so). The invariant `TableInductive` says that the table is that of the
lines read so far, and that a load that failed has met a line for which it had to.

**CalendarProofs.** From `YearsAssumption`, for some twenty thousand years to both
sides: `DaysInverse` (`from_days()` undoes `to_days()`, with a month and a day that
are ones), `WalkTypeCorrect`, `MonthsAddUpCorrect` and `DaysGoOnCorrect`. A day has
a place: an era, a year of it that begins in March and a day of that year
(`HasPlace`). Both functions go by that place, and the order of dates is the order
of places (`PlaceOrder`); that a year has 366 days once in four, but not in a
hundred, and again in four hundred, is one lemma on quotients about the place, and
months are looked at one by one. `MeansItsDayCorrect`: in each of its four forms,
a date that is ok() has the count of the day it names. The count is compared with
`Serial`, which counts years, leap years and the lengths of the months before;
over eras of 146097 days that sum is `to_days()`, and the forms with a weekday are found by the
seventh days from the first or back from the last of the month.
`TimeIsTheDuration`: hours, minutes, seconds and fraction of any duration, also of
a negative one, are in range and sum up to it; `TwelveHours`.
`AsWrittenCorrect`, for any ints that a program writes (`WrittenAssumption`) and
any steps of a part that do not go twice through the values of a short
(`PartStepsAssumption`): the dozens of overloads are told as two ways to join two
operands (`Joins`, `JoinsInOrder`), of which no two take the same operands
(`OneOverload`). `AsWritten` is not inductive: what an `int` is made into depends on
the form of what stands beside it, what it was meant for on the place in which it
is written. `PartsInOrder` adds that the form of a part tells the places that are
taken, so that both are the same.
`PartsMeanDaysCorrect` follows from the same invariant: what is compared are the days
that two parts are in a year, and months follow one another without a gap
(`MonthsFollow`), so that the order of days is that of year, month and day
(`DaysFollow`). That a fifth weekday of a month is ok without a year rests on
`FirstWeekdays`: in the leap years of a cycle of 28 a month begins with each weekday.
Two such weekdays that are the same days in every year are in the same month,
because in a year in which one of them is a date the other is not in an earlier one
(`NotEarlier`).

## What is only model-checked

Of the properties of the passing runs:

* Liveness (`LostLinkIsNoticed`, `DisconnectCompletes`, `HandleIsReleased`,
  `FoundEndsScan`, `CancelStopsDiscovery`, `RequestReturns`, `CallsReturn`): out of
  the reach of the proof system.

## What is not modelled, and why

* The text of `date.hpp` and `csv.hpp`: formatting and parsing dates (more than
  half of `date.hpp`), quotes, comments, headers by name, signed and
  floating-point columns, and the reader without a thread. Templates that the
  library does not instantiate, without state. An error of `fread()`, which the
  reader takes for the end of the file.
* Parsing of XML (tinyxml2), and the names and item lists of a machine file that
  nothing else reads. The logger.
* `BLEDevice::disconnect()`, `is_connected()`, `subscribe()`,
  `read_characteristics()`, the notifications, which are never started, and
  `append_prod_stat_bits()`: nothing calls them.
* Undefined behaviour in the conversions, which no value can stand for: an empty
  status answer (`alertVec.size() - 1`, CoffeeMaker.cpp:94), an advertisement
  shorter than 16 bytes, options `F0` and `F18`, a step of 0.
* The life of the objects: a client that destroys a `CoffeeMaker` whose
  `disconnect()` still runs on the event thread, or a `ScanArgs` under a callback
  that has one mutex left to unlock (BLEHelper.cpp:25).
* Time. The heartbeat is sent about once per second against a limit of ten or
  twenty (README.md:101-102); `ConnectedIsKeptAwake` says that it does not stop.

## Plan

Done, in this order: the connection (`BLEDevice`, `CoffeeMaker`,
`ConnectionLifecycle`) with its proofs, the codec, the scan, the statistics'
protocol; then the bytes of the messages (`Requests`, `Answers`, `MachineFile`,
`Conversation`), the reader of lines with its proofs, the machine table, the dates
with theirs. Then the proofs of the connection under the named restrictions with its
refinement, of the bytes of the conversation, of the lines of a file and of the
meaning of dates, of the table of machines, and of the parts of a date. What a next version would add, the
most important first:

1. *A client with two threads*: one that calls `disconnect()` while the other is in
   `connect()` or in a request.
2. *Heartbeat in time*: one second of sleep and the time of two operations
   against the coffee maker's limits.
