# Verification of hwgg_trans

TLA+ models of the firmware in this repository: an ESP8266 (non-OS SDK) that
sits between an MCU on its UART and a server on the network, forwards messages
between the two, and upgrades both processors over the air. TLC checks the
models on small instances; TLAPS proves the safety properties of nine of
them for every value of their constants.

The repository has no documents and no tests. The models are read from the code;
the SDK, `board.h`, `version.h`, the MCU's firmware and the servers are not in
the repository and are modelled from how the code uses them.

## 1. The system

Everything runs in three contexts that never preempt each other in the middle
of a handler, with one exception:

* the main loop `main_func` (user_main.c), a periodic `os_timer`: key, network,
  protocol, UART, boot loader link, MCU reprogramming, upgrade, in this order;
* callbacks of the SDK (TCP received, sent, connected, failed; DNS; smartconfig)
  and the event task of the UART;
* the UART's interrupt handler, which does preempt the others.

| Component | State it keeps | Operations | Talks to |
|---|---|---|---|
| `uart_trans.c` | receive ring `pRxBuffer`, interrupt mask, event queue | interrupt handler, `Uart_rx_buff_enq`, `rx_buff_deq`, `uart_trans_update` | hands chunks to `protocol` or, while the MCU is in its boot loader, to `mcu_link` |
| `mcu_link.c` | frame parser, receive copy | encode, parse, dispatch to `mcu_boot_handle` | UART, `mcu_boot` |
| `mcu_boot.c` | boot status, offset and index of the package, retry counters; record in flash | `mcu_boot_start`, `mcu_upgrade_start`, answers of the boot loader, timers, `mcu_boot_init` | `mcu_link`, `protocol`, reports to `upgrade_func` |
| `protocol.c` | parser, one outstanding request, its resend counter, last network segment | `protocol_send`, parse and handle, resend and timeout | UART, `net`, `mcu_boot`, `upgrade_func` |
| `net.c` | `server_conn`, DNS state, Wi-Fi state | connect, renew, abort, receive, sent, `net_update` | `http_func`, `protocol`, `upgrade_func` |
| `http_func.c` | counters and sector buffer of a download | `http_get`, `http_connect`, `http_handle` | `net`, flash, `upgrade_func` |
| `upgrade_func.c` | `upgrade_state`, type, pending request, results; record in flash; the download area, the MCU's area, two Wi-Fi banks | requests, versions, progress, saving, `upgrade_update`, `upgrade_init` | all of the above |
| `timer.c`, `key.c`, `smartconfig_api.c`, `user_main.c` | tick counter; key times; smartconfig session | polling | the main loop |
| `secure.c`, `flash_partition.c`, `version_func.c` | none, or a constant | checksum, decryption, table, versions | `upgrade_func` |

An upgrade runs through most of it. The MCU asks for one (on request, or forced
from its boot loader); the ESP asks the server for the newest version; the file,
with an image for the MCU and one for each Wi-Fi bank, is downloaded into the
flash; the MCU's image is copied to its own area and transferred in 128-byte
packages; the MCU restarts, power-cycling the ESP; the ESP finds in its record
that an upgrade is needed, writes its inactive bank, and restarts into it.
Between the stages the ESP waits for progress polls of the app on the server.

**What is hard.** Interrupts, events and reads share one ring and one mask.
Answers of the boot loader carry an index nobody compares, while timers resend.
Two records in flash and two processors must agree after a power failure at any
point, also inside an erase-then-write. A connection that fails is renewed under
the state machine, and one connection serves two servers with two callbacks, of
which one relies on what the other registered. Requests are dropped silently when
another one waits. One parser state reads two byte streams. Times wrap and polls
come late. The list of these places, with lines and the properties aimed at each, is
"hazards" in `PROJECT.json`.

**What makes each part correct.**
UART: every byte the FIFO took reaches the main loop once, in order.
MCU reprogramming: only complete images are run, "done" is recorded only when it
is true, and a session ends.
Protocol: what is passed on is whole, in order and once; a torn frame does not
block the ones behind it; the request that is resent is the one that waits.
Connection: a server is answered by its own callback and listened to, and it is
reached again after a failure.
Image: an image reported good is in its place whole, and nothing else was touched.
Key: a press acts once and only when long; the smartconfig session ends and the
network comes back.
Download: a file reported complete is in the flash byte for byte.
Upgrade: there is always a whole image to boot, never an older one, and after a
restart the upgrade goes on where it should.

## 2. The modules

| Module | Models | |
|---|---|---|
| `Install` | what reprogramming the MCU promises | abstract |
| `Transfer` | what the upgrade sees of a transfer to the MCU, and relies on | abstract |
| `McuBoot` | mcu_boot.c, the messages of mcu_link.c and protocol.c it uses, the hand-over in upgrade_func.c; the MCU and the two directions of the UART | implements `Install` and `Transfer` |
| `McuBootProofs` | all safety properties of `McuBoot`, and that it implements `Install` and `Transfer` | proofs |
| `UartRx` | receive path of uart_trans.c | |
| `UartRxProofs` | all its safety properties | proofs |
| `FrameParser` | the two parsers, byte by byte (protocol.c, mcu_link.c) | operators, used by `Gateway` |
| `Gateway` | tcp_recv_cb, protocol_update, uart_trans_update, mcu_link_update: what becomes of bytes from either side | composes the parsers |
| `Requests` | the slot for one request of protocol.c and the clock of timer.c | |
| `RequestsProofs` | all its safety properties | proofs |
| `Connection` | net.c with the parts of http_func.c and upgrade_func.c that dial | |
| `ConnectionProofs` | all its safety properties | proofs |
| `Download` | http_func.c and its connection | |
| `DownloadProofs` | all its safety properties | proofs |
| `Image` | upgrade_firmware_phase: the copy of an image, sector by sector | |
| `Checksum` | the checksum of secure.c, next to CRC-16 by long division | |
| `ImageProofs` | all safety properties of `Image` and of `Checksum` | proofs |
| `Upgrade` | upgrade_func.c with the effects of the download and of the transfer | composed with `McuBoot` through `Transfer` |
| `UpgradeProofs` | what holds of `Upgrade` with any number of requests and faults, and what with one request; that it implements `Transfer` | proofs |
| `Key` | key.c, smartconfig_api.c and their use in user_main.c | |
| `KeyProofs` | all its safety properties | proofs |
| `MCMcuBoot`, `MCUartRx`, `MCGateway`, `MCDownload`, `MCImage`, `MCUpgrade` | constants for TLC | |

A handler is one action, or one action for each of its outcomes; names are the
code's. Operators named `Bug...` are plausible mistakes in the definition that
follows them; each breaks a property, which shows what the definition guards.

### McuBoot

State: the record in flash and its copy in RAM; `is_mcu_in_boot`, `boot_status`,
the counters; the outstanding request of protocol.c; two queues of messages; the
MCU's mode and the packages in it. `RecvLink` is `mcu_boot_handle`, `RecvProtocol`
the commands of `protocol_msg_handle`, `BootTimer` is `mcu_boot_run`, `AckTimer`
the end of `protocol_update`, `Upgrade...` the end of `upgrade_mcu_save`, `Boot` is
`mcu_boot_init`. `PowerLossInSave` cuts each handler that saves, leaving the sector
erased or written.

Abstractions: sizes count packages; there is one image version; a frame of one
protocol is not recognised by the other's parser; `protocol_step` is not shared
with requests to the server (see `Upgrade` and `Requests` for that); answers come
before the timers, or, with `late` in the budget, at any time.

### UartRx

Bytes are numbered as the FIFO accepts them, so that order, loss and repetition
are visible in their values. `Interrupt`, `Task` (`EnqRefused`, `Enq`) and `Deq`
interleave freely. An interrupt is pending while the FIFO holds anything (FULL or
timeout). A byte that finds the FIFO full is lost in the hardware and not numbered.

### FrameParser and Gateway

Here frames are real bytes with the code's marks, lengths and checksums, because
what is at stake is where a parser stands when bytes of another frame, another
stream or the same buffer again reach it. The server's and the MCU's sides follow
scripts (`Scripts`): segments as the server might send them, frames the MCU sends.
`Receive` is tcp_recv_cb and may overwrite a segment; `ProtocolUpdate` and then
`UartUpdate` or `LinkUpdate` are one run of the main loop, the latter two for any
number of bytes the ring may hold. `handled` and `answers` record what reached
protocol_msg_handle and mcu_boot_handle, `toMcu` and `toNet` what was passed on.
Of a frame's data the model keeps the two bytes the program dispatches on.

### Requests

protocol_send with its refusal, the answer, the resend timer and the timeout,
driven by the tick counter: `Tick` is the timer interrupt, and `Gap` bounds how
late the main loop may be. The ghost variables `awaited` and `asked` remember what
the last successful caller awaits, so that resending something else would be seen.

### Connection

The station, the name query, `server_conn` with its port and its two callbacks,
and the states of the upgrade that dial or forbid dialling. `peer` is the server
the SDK actually dialled, `connect_cb` and `remote_port` are what the code would
use next: the properties relate the two. `net_update` makes each of its three
checks when its timer is due, in any combination. The SDK's `espconn_connect`
refuses while a connection exists; results of it are ignored by the code, as here.

### Image and Checksum

In `Image` a cell of the flash tells which byte of the payload it holds and with
which phase of the key that was decrypted; each sector is a step, and power may
fail between two or inside one. The checksum appears as how many bytes, from the
first, were summed. An erased size field is one of the sizes: such an image is not
refused, and `OthersIntact` says what it can reach. With flash maps 5 and 6 the
banks are 255 sectors and more apart and the running one is safe; with maps 2 to 4
it is not, which is the constant `Overrun` of `Upgrade`. `Checksum` has the
arithmetic: the code's shifts, the division they stand for, and a damaged copy. A
number there is the set of the positions of its one-bits, so that `^` is the symmetric
difference, `& 0xff` an intersection, and a shift adds to every position; what the
masks of the code cut off is cut off in the model.

### Key

Time is a counter that wraps. `Poll` is one run of the main loop's key_func and
net_func, at most `Gap` ticks late; `Press` and `Release` come at any time between.
The session's own state in the SDK (`running`, `station`) is kept next to the
program's flag. `held`, `up` and `rearmed` are ghosts of what the polls saw, in a time that does
not wrap.

### Download

A response is a stream of header lines and file bytes, cut into segments between
any two units. The flash is NOR: writing what was not erased gives garbage, so a
missing erase is visible. Assumed: no segment ends inside a header line, none is
longer than a sector, no file fits into one segment, the length is announced, and
a file has no line end in its first 99 bytes (the code reads lines until it finds
none). What happens outside these assumptions is in the hazards.

### Upgrade

State: `upgrade_state` and the static variables around it, the record in flash
(RAM always has the same), the download area, the MCU's area, the two banks, the
connection, the outstanding request, and what mcu_boot.c reports. One run of
`upgrade_update` can go from MCU_FILE_SAVE through UPDATE_WIFI or UPDATE_END, so
`SaveBad`, `SaveSkipped` and `SaveForcedBad` do both. `HttpEarly` is the download that
reports itself done too early.
Crashes occur between actions and inside each flash write.

A transfer to the MCU begins (`McuEntersBoot`, `SaveGood` when forced), and ends in one
step (`McuProgrammed`, `McuSilent`); what is in between is `McuBoot`'s. That the two
modules mean the same by it is `Transfer`, over the three things upgrade_func.c can ask:
whether the ESP runs, `get_is_mcu_in_boot` and `get_is_mcu_need_upgrade_first`. Both
implement it, so the one-step transfer allows no ending that mcu_boot.c does not keep
to. The handler of CMD_MCU_UPGRADE does not ask whether its answer is waited for, which
is `McuEntersLate`: the answer to a request that was given up, or of before a restart.
The model does not remember what was asked, and lets such an answer come at any time,
as often as the budget's `late` says.

## 3. What TLC checks

| Run | Shows |
|---|---|
| `boot_faults` | losses, refusals, restarts and torn saves with an MCU that answers in time, or answers arbitrarily late with nothing lost: no partial image runs, "done" is true, phases are on record, `McuBoot` implements `Install` and `Transfer`; connecting, uploads and waits end, success is recorded after a restart |
| `boot_late_lossy` | late answers and losses together: **violated**, see below |
| `uartrx_ring` | order and interrupt mask under every interleaving; every accepted byte arrives |
| `gateway_bytes` | frames whole, cut, run together, overwritten, or mixed from both streams: nothing handled twice, whole frames passed on in order, no frame stuck behind a torn one, the MCU heard in order across its change of protocols |
| `requests_slot` | what is resent is what waits, and a wait is over in bounded time, however late the loop runs |
| `connection_roles` | each server gets its own callback and is listened to, an address is kept, the main server is reached again |
| `download_area` | buffer, counters and flash agree; what is reported complete is complete; downloads end |
| `image_copy` | every size around the sector and count limits: good means copied whole, other areas intact |
| `checksum_crc16` | the code's shifts compute CRC-16/X-25 in 16 bits; damage to one or two neighbouring bytes is noticed |
| `upgrade_faults` | two overlapping requests, late answers and every fault: whole image to boot, never an older one |
| `upgrade_single` | one upgrade, two faults of most kinds: it stays resumable, the MCU gets whole images, one processor at a time; without faults it reaches the offered version |
| `key_session` | long presses only, one action each, flag and SDK agree, sessions end and the station returns |

A run checks what a step of the code could break; the type invariants of `UartRx`,
`McuBoot`, `Upgrade`, `Image`, `Requests`, `Connection`, `Download` and `Key`, and the auxiliary
invariants `RingAgrees`, `OnlyFiles` and `Resolved`, are theorems instead (section 4).

**Finding.** `include/mcu_boot.h:14` says `upgrade_status` 2 is "done".
`mcu_boot_handle` counts every accepted UPDATE_APROM answer as the answer to the
package sent last (mcu_boot.c:140). If an answer is later than the resend timer
and a further package is lost, the duplicate's answer stands in for the lost one:
the flash says done and the MCU runs an image with a hole. Neither cause alone is
enough (`boot_faults`).

**Seen with TLC and limited by a bound rather than claimed.** With a second
request during an upgrade, or a connection renewed after the download,
`StaysResumable`, `McuGetsWholeImage` and `OneProcessorAtATime` fail: the second
download rewrites the MCU's area during the transfer, or reaches the Wi-Fi stage
first. No document says otherwise, so there is no run for it; `upgrade_single`
has one request and no renewal, and `upgrade_faults` checks what survives both.
`OneProcessorAtATime` fails, too, when CMD_MCU_UPGRADE of before a restart is answered
after it, while the Wi-Fi image is installed (`late`).
`Transfers` is claimed for prompt answers. `boot_faults` finds it true for its late ones as
well, but beyond its bounds, with one package, three requests, two power failures and
late answers, TLC refutes it: a RUN_APROM left on the wire by one transfer ends the next
one in the MCU, and a status request resent behind it is answered by the application
while the record says "process". The record is then dropped, although the MCU got
its whole image (`Installs`).
A download whose connection the server closes, or that had no memory to ask, never
ends (`tcp_disconnect_cb` only prints); `Terminates` is about behaviours without
these, and `BackOnline` names the state the device is then left in. An upload is
taken over by a forced upgrade that comes meanwhile, which `UploadCompletes` grants.
`PassedOn` is about segments of one frame: of a segment with several the whole
buffer is passed on for its first, and the others are never handled. `AllHeard`
is about a silent server: bytes of a torn segment, parsed again at every run, can
swallow a command of the MCU.
`SavedIsComplete` is about announced lengths: before the first one the code
compares 0 with 0 and reports a finished download.

**Other things the models made plain.** The resend limit of packages is never
reached (`PackageLabel` proves it). `boot_status` never becomes BOOT_FINISH, so
packages beyond the end are sent until the power goes. The protocol's timeout
handler looks at the wrong byte and never acts. A transfer cut by a restart is
not resumed. CONNECT announces one package whatever the size (mcu_link.c:37, a missing
pair of parentheses); only the boot loader knows what that does. A Wi-Fi image with a bad checksum is written again at every run of
the main loop.

### Bounds

Several modules take a set `Budgets` of fault counts; a behaviour starts with one of
them, so one run covers different mixes, and a property about behaviours without a
fault states that as a predicate of the first state (`Completes`, `Terminates`).

`McuBoot`: three packages make a first, a middle and a last one; counters to 2
keep "below", "at" and "beyond" the limit apart (30 and 3 in the code); the index
field has two values, so it wraps. `Cap` bounds messages in flight and only holds
back unprompted sends. The budgets give late answers in two upgrades, or in one with
a restart; and, with prompt ones, a loss, a refusal and two restarts in two upgrades,
or two losses, a refusal and a restart in one.
`UartRx`: a buffer of 5 with a FIFO of 3 and reads of 2 has sizes that do not
divide each other (code: 256, 128, 128); 13 bytes wrap the ring more than twice;
a queue of 2 fills.
`Gateway`: the length wraps at 32 instead of 256, which cuts three frames of 14
bytes inside the first; reads of at most 128 bytes as in the code. The MCU pauses
between its frames (`OneFramePerRead`), since a read that spans two loses the
second. Scripts have up to three segments and five frames; cuts of the MCU's bytes
are free, those of the segments are inside the data and inside the checksum.
`Requests`: two resends, a timeout of two and a half ticks, polls up to two ticks
late; 20 ticks see a request through its whole life and the next one.
`Connection`: five faults, so that two failures can meet in a third; at most two
queries, which is one more than there ever are (`TypeOK`).
`Download`: sectors of 3 bytes, segments up to 2, files that end inside a sector and
at the end of one, two sectors.
`Image`: sectors of 4 bytes with a key of period 2, a count that wraps at 4, banks
as far apart as the count reaches with the MCU's area in between; sizes below, at
and above every multiple that matters, and one like erased flash.
`Checksum`: bytes with the lowest, the highest, one inner and all bits set; 4 bytes
let damage move through the whole register.
`Upgrade`: two versions tell newer from not newer; one retry of three; two requests with
each fault once, or with a late answer, a bad file, a silence and a restart.
`Key`: the time wraps at 9 ticks, inside a session (6) and near a press (4).
`CHECK_DEADLOCK FALSE` is given where the budget or script runs out or the system
waits for something that may never come; `UartRx` and `Key` never stop.

### Fairness

The main loop is a repeating timer and polls every part at each run: weak
fairness of what it polls, and strong fairness of the timers in `McuBoot`, since a
timer found expired fires whatever else the same run did and traffic in between
does not disarm it. Pending interrupts are taken and posted events served. The TCP stack connects and
delivers. In `Upgrade` the app polls, the server answers, and the MCU
restarts the ESP once programmed. In `Connection` Wi-Fi comes back, queries and
dials are answered, downloads go on and servers close what nobody uses. In
`Gateway` the loop comes to read what the ring holds: strong fairness of a
non-empty read and of arrival, since a run that finds nothing is no progress. In
`Key` time passes and the loop polls. Nothing forces bytes to arrive, requests to be
made or faults to happen.

## 4. What is proved

`UartRxProofs`: `TypeOK`, `RingAgrees`, `InOrder` and `MaskedForAReason` for every
buffer, FIFO, read and queue size with `FifoLen < Size` (256 and 128 in the code).
Their conjunction is inductive: order needs the ring's positions, the positions
need one free place, and the mask needs the refusal to leave few places. The mask
is what a test would miss: a refusal consumes the event and leaves the interrupts
off, and only a read can turn them on again.

`McuBootProofs`: `TypeOK`, `PhaseRecorded` and `PackageLabel` for every image size,
limit, budget and bound, with late answers or not, whatever is lost or cut off.
None is inductive alone. `IInv` adds `Details`: what RAM holds while the power is
off, how far each counter can be in each phase, and that every saved record is one
that `PhaseRecorded` allows to be restored. A step of a handler preserves a
property because the record it finds is the one of its phase; a boot establishes
it because every record in flash is well formed.

Two theorems more, and that `McuBoot` implements `Install`, are about delivery:
`DoneMeansDelivered` and `DoneImageIntact`. They need a hypothesis, `LateIsLossless`:
a behaviour in which answers may come after the retry timers is one in which nothing
is lost or refused. Without it they are false (`boot_late_lossy`), and what keeps them
true has two unrelated reasons, so there are two inductive invariants, and every
behaviour satisfies one of them throughout.

* `DInv`, prompt answers, any losses, refusals and power failures. At most one message
  of the boot loader's protocol is on the UART, in both directions together
  (`OneLink`): a timer sends only when the wires are quiet, everything else answers a
  message it removes. So an answer is to what was sent last, although it names no
  package, and the offset counts what the MCU has (`Ordered`, `Truthful`, `Counted`).
  A command of the application can still be on its way; the message behind it is
  ordered by what the MCU has already. An image once whole is kept (`Kept`), because
  only a CONNECT erases, and none is sent while the flash says "done".
* `OInv`, nothing lost or refused, answers as late as they like. Many copies of a
  package, and answers to any of them, are under way. What counts is the order of the
  wire: `Reached(wire, got, k, i)` says that package k is in the MCU when message i
  arrives there, since it is there or ahead of i, with no CONNECT in between.
  Every package is preceded by those before it, and the command to run by all
  (`Follows`); while packages are sent, everything up to the current one was sent since
  the last CONNECT (`SentBelow`), so that advancing on an answer to an older copy is
  harmless. Lemmas `ReachedAppend` and `ReachedTail` carry this over a send and over
  the MCU's read.

The refinement then is short: the steps that change the MCU are steps of `Install`
because what it reads next comes in order (lemma `InOrder`), and all others leave it
alone (`InstallStep`).

That `McuBoot` implements `Transfer` is proved for prompt answers (`PromptAnswers`), any
losses, refusals and power failures. What could break it is the answer to a status
request, which declares a success whatever the record says (protocol.c:286). Hence
`Programming`, which `PInv` adds to `DInv`: while the record says "process" the MCU is in
its boot loader, where it stays since no RUN_APROM is under way, and so neither its
application nor an answer of it is there to end the transfer. An accepted CONNECT makes
this true, being the only message of its kind on either wire; a RUN_APROM that is sent
has "done" on record before. That a transfer that ends well was delivered is `Kept`, of
the delivery proof. A power failure inside a save is one before it or after it, because
an erased sector is a record of no transfer (`CutTransfer`).

`UpgradeProofs`: `TypeOK`, `RunsWholeImage`, `ReadyToRestart` and `NeverOlder`,
with any number of versions, requests and faults. `RunsWholeImage` is not inductive:
that the bank switched to is whole is `ReadyToRestart`, and that rests on the
comparison of versions in `upgrade_wifi` and on `FileReleased`, that an image with a
right checksum is one the server offered. Only `upgrade_wifi` writes a bank, and only
the other one (lemma `WifiInv`); whatever interrupts it leaves the running bank alone.

With `Overrun` they say what is left of it: as long as the device runs.

`StaysResumable`, `McuGetsWholeImage` and `OneProcessorAtATime` are proved there for one
request, no late answer and no renewed connection (`SingleUpgrade`, as in the run `upgrade_single`),
with any number of versions and of every other fault; TLC refutes them otherwise
(section 3). The invariant `SInv` is what "one upgrade at a time" means for the
variables: before the request nothing is under way or to be resumed (`Single`); while the
version is being asked for no upgrade has begun (`Asking`); from the command that sends the MCU
into its boot loader to the transfer's end nothing else goes on (`OneTransfer`); and that
command is only given when the copy of the image succeeded (`Handover`).

`TransferCorrect` shows of `Upgrade`, with late answers and without assumptions, that what
it has of a transfer are steps of `Transfer`.

`DownloadProofs`: `TypeOK`, `NothingLost` and `SavedIsComplete` for every sector size,
segment size, file and number of downloads and faults. `SavedIsComplete` follows from
`NothingLost` at the segment that completes a file, and `NothingLost` needs `Response`:
which connection the counters were counted on, and that the length is the file's as
soon as its header line has passed. The core is lemma by lemma what a segment does to
`flash_buf`: it fits, or fills the buffer, has the sector written and goes on at the
start of the next; `Holds` says what flash and buffer then contain.

`ImageProofs`: `TypeOK`, `TrueMeansCopied` and `OthersIntact` for every sector size,
key period that divides it, count, layout and set of sizes. The invariant says how
far the copy is: what was written is the payload up to `i` sectors and what was
summed is as much. Lemma `KeyAligned` is why sectors may be decrypted separately:
the key's period divides the sector. That a wrapped count is never reported good
follows from the sum, which then misses bytes.

There, too, `IsCrc16` and `Noticed` of `Checksum`, for images of any bytes and of any
length. `IsCrc16` is one lemma, `Division`: both the code's update and a step of the
division are written out as sets of positions, and eight steps are one update. For
`Noticed` the invariant is about the difference of the two sums. An update is linear,
so the difference is itself updated, with the difference of the bytes (`Linear`); it
becomes zero only where its low byte is the difference of the two bytes and nothing
is above it (`Cancels`). A single damaged byte leaves a difference that has bits above the
low byte (`Spreads`), which no second byte can cancel; afterwards equal bytes keep it
from zero, since an update loses no bit.

`RequestsProofs`: `TypeOK`, `ResendsTheAwaited` and `WaitIsShort` for every retry
count, tick and timeout. The invariant ties three times together: when the slot was
taken, when it was sent last, and when the loop ran last; each resend is at most a
timeout and a gap after the one before.

`ConnectionProofs`: all safety properties of `Connection`, with any number of
faults. `Listened` is not inductive: nothing but `Heard`, that whoever may dial the
upgrade server was heard by the receive callback before, says that http_connect_cb
finds it registered. `AddressKept` needs `OneQuery`, that a query is under way only
while the code waits for it.

`KeyProofs`: `TypeOK`, `SessionAgrees`, `LongPressIsLong` and `OneActionPerPress` for
every wrap, limit and delay. The differences of 32-bit times are compared with time
that does not wrap: until a press has lasted for a whole wrap the two agree
(`Timed`, kept by lemma `TickKeepsTimed` across the wrap), and afterwards the press is
long whatever the difference says. That a press acts once needs that a press acted
upon stays long until a poll finds the key up for long enough.

Assumptions are those named in the modules, and no others.

Only model-checked: liveness (`WaitsEnd`, `UploadCompletes`, `SuccessRecorded`,
`EveryByteArrives`, `Terminates`, `BackOnline`, `Completes`, `SessionEnds`, `Recovers`,
`AllHeard`) and everything about frames: `FrameParser` and `Gateway` fold over data of
any length, which would need induction over it. `PassedOn` and `HandledOnce` also depend
on the scripts: bytes can be found that have the right checksum by accident.

## 5. Not modelled

Not modelled: the flash layout (a constant), logging, build files, the transmit ring
and other functions without callers (tx_buff_enq, set_upgrade_wifi, http_get_test,
timer_new and the rest of timer.c), failing flash chips, the parameters of replies
that report addresses or signal strength, segments that end inside an HTTP header
line (the outcome depends on memory behind the segment).
